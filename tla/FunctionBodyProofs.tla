-------------------------- MODULE FunctionBodyProofs --------------------------
(***************************************************************************)
(* The interpreter runs an accepted body as the validator saw it.          *)
(*                                                                         *)
(* At every step the interpreter stands at a boundary of the validator's,  *)
(* under frames that were opened where the validator opened them (XInv),   *)
(* and where no block popped an operand from below its frame it has the    *)
(* validator's operands there (AInv).  A branch leaves the straight line:  *)
(* that it lands on such a boundary follows from where the frame it names  *)
(* was opened, took its else and ended, all of it known of the whole body  *)
(* once the validator is through.                                          *)
(***************************************************************************)
EXTENDS ValidationProofs

-----------------------------------------------------------------------------
(* The inductive invariant.                                                *)

\* The interpreter keeps its place.
Outcomes == {OK, "return", "tailcall", "trap", "OutOfFuel"} \cup OperandErrors
XFrame == [kind : {"function", "block", "loop", "if"}, body_pc : Nat, end_pc : Nat, height : Nat,
           params : Seq(ValueTypes), results : Seq(ValueTypes)]
XState == [pc : Nat, stack : Seq(ValueTypes), controls : Seq(XFrame),
           outcome : Outcomes \cup LostErrors]
PlacedFrame(f, g, i) ==
  /\ f.kind = g.kind /\ f.params = g.params /\ f.results = g.ends
  /\ f.end_pc = IF i = 1 THEN Len(code) ELSE paired[g.opener].end_pc
  /\ i > 1 => f.body_pc = g.opener + 2
Placed(f) ==
  /\ f.pc \in DOMAIN seen
  /\ Len(f.controls) = Len(At(seen, f.pc))
  /\ \A i \in 1..Len(f.controls) : PlacedFrame(f.controls[i], At(seen, f.pc)[i], i)
XInv ==
  /\ x \in XState /\ x.outcome \in Outcomes
  /\ phase = "done" <=> x.outcome # OK
  /\ phase = "done" => x.pc = 0
  /\ phase \notin {"run", "done"} => x.pc = 1 /\ x.controls = <<>> /\ x.stack = <<>>
  /\ phase = "run" => Placed(x)

\* The interpreter has the validator's operands.
Agreed(f) ==
  /\ f.stack = IF f.pc > Len(code) THEN Results ELSE Ops(seen, f.pc)
  /\ \A i \in 1..Len(f.controls) : /\ ~At(seen, f.pc)[i].unreachable
                                   /\ f.controls[i].height = At(seen, f.pc)[i].height
AInv == /\ phase = "run" /\ ~v.dipped => Agreed(x)
        /\ ~v.dipped => x.outcome \notin OperandErrors

-----------------------------------------------------------------------------
(* Where the branches of an accepted body lead.                            *)

\* The validator is through: nothing is open behind the last instruction.
Complete == VInv /\ Len(v.controls) = 0

LEMMA CompleteIs ==
  ASSUME VInv, phase \in {"scan", "run", "done"}
  PROVE  Complete
<1>1. v.controls \in Seq(Frame) /\ ~(Len(v.controls) > 0)
  BY DEF VInv, Current, VState
<1> QED  BY <1>1 DEF Complete

LEMMA InsideIs ==
  ASSUME Complete, NEW p \in DOMAIN seen
  PROVE  /\ Len(At(seen, Len(code) + 1)) = 0 /\ Len(At(seen, p)) \in Nat /\ p \in Nat
         /\ p <= Len(code) <=> Len(At(seen, p)) > 0
         /\ p <= Len(code) \/ p = Len(code) + 1
<1>1. /\ Len(At(seen, Len(code) + 1)) = 0 /\ DOMAIN seen \subseteq 1..(Len(code) + 1)
      /\ FramesAt(code, seen, p) /\ Len(code) \in Nat
  BY DEF Complete, VInv, Current, Boundaries, Readable
<1>2. At(seen, p) \in Seq(Frame)
  BY <1>1 DEF FramesAt
<1>3. p <= Len(code) => Len(At(seen, p)) > 0
  BY <1>1 DEF FramesAt
<1>4. p \in Nat /\ (p <= Len(code) \/ p = Len(code) + 1)
  BY <1>1
<1> QED  BY <1>1, <1>2, <1>3, <1>4

\* Two frames that differ at most in what the validator noted while it was inside.
SameFrame(f, g) == /\ f.kind = g.kind /\ f.params = g.params /\ f.ends = g.ends
                   /\ f.opener = g.opener /\ f.height = g.height
SamePrefix(k, k2, n) == \A j \in 1..n : k2[j] = k[j]

\* Frame i of boundary p is the frame the instruction at its opener pushed ...
HomeOf(p, i) ==
  LET f == At(seen, p)[i]
      o == At(seen, p)[i].opener
      k == At(seen, o + 2)
  IN /\ o \in DOMAIN seen /\ o \in Nat /\ o < p /\ o <= Len(code) /\ o + 2 \in DOMAIN seen
     /\ o + 2 <= Len(code) /\ After(code, o) = o + 2
     /\ Opcode(code, o) \in Openers /\ f.kind = KindOf(Opcode(code, o)) /\ f \in Frame
     /\ f.params = Signature(code, o).params /\ f.ends = Signature(code, o).results
     /\ Len(At(seen, o)) = i - 1 /\ SamePrefix(At(seen, p), At(seen, o), i - 1)
     /\ Len(k) = i /\ SamePrefix(At(seen, p), k, i - 1) /\ SameFrame(k[i], f) /\ ~k[i].unreachable

LEMMA HomeIs ==
  ASSUME Complete, NEW p \in DOMAIN seen, NEW i \in 2..Len(At(seen, p))
  PROVE  HomeOf(p, i)
<1> DEFINE f == At(seen, p)[i]
           o == At(seen, p)[i].opener
           k == At(seen, p)
           a == At(seen, o)
           b == At(seen, o + 2)
<1>1. /\ VInv /\ FramesAt(code, seen, p) /\ k \in Seq(Frame) /\ i \in Nat /\ f \in Frame
      /\ o \in DOMAIN seen /\ o <= Len(code)
  <2>1. FramesAt(code, seen, p)
    BY DEF Complete, VInv, Boundaries
  <2>2. k \in Seq(Frame)
    BY <2>1 DEF FramesAt
  <2> QED  BY <2>1, <2>2, PendingIs DEF Complete
<1>2. NestedAt(code, seen, p, i)
  BY <1>1 DEF FramesAt
<1>3. /\ o < p /\ Opcode(code, o) \in Openers /\ f.kind = KindOf(Opcode(code, o))
      /\ f.params = Signature(code, o).params /\ f.ends = Signature(code, o).results
      /\ f.height = Opened(code, seen, o).height
      /\ Len(a) = i - 1 /\ \A j \in 1..(i - 1) : a[j] = k[j]
  BY <1>2 DEF NestedAt
<1>4. After(code, o) = o + 2
  BY <1>1, <1>3, OpenerWidth DEF VInv, Boundaries
<1>5. o \in Nat /\ o + 2 \in DOMAIN seen /\ MovesAt(code, seen, o)
  BY <1>1, <1>4, BoundaryIs
<1>6. OpenMove(code, o, o, a, b)
  BY <1>3, <1>4, <1>5 DEF MovesAt, Moves
<1>7. /\ Len(b) = i /\ \A j \in 1..(i - 1) : b[j] = a[j]
      /\ b[i].kind = KindOf(Opcode(code, o)) /\ b[i].opener = o /\ ~b[i].unreachable
      /\ b[i].params = Signature(code, o).params /\ b[i].ends = Signature(code, o).results
  BY <1>1, <1>3, <1>6 DEF OpenMove
<1>8. b[i].height = f.height
  BY <1>1, <1>3, <1>4 DEF Opened
<1>9. o + 2 <= Len(code)
  BY <1>5, <1>7, InsideIs
<1> HIDE DEF f, k, a, b
<1>10. SameFrame(b[i], f)
  BY <1>3, <1>7, <1>8 DEF SameFrame, f
<1>11. SamePrefix(k, a, i - 1) /\ SamePrefix(k, b, i - 1)
  BY <1>3, <1>7 DEF SamePrefix
<1> QED  BY <1>1, <1>3, <1>4, <1>5, <1>7, <1>9, <1>10, <1>11 DEF HomeOf, f, k, a, b

\* ... and the end paired with that opener pops it, ...
EndOf(p, i) ==
  LET f == At(seen, p)[i]
      o == At(seen, p)[i].opener
      e == paired[At(seen, p)[i].opener].end_pc
      k == At(seen, e)
      k2 == At(seen, e + 1)
  IN /\ o \in DOMAIN paired /\ e \in DOMAIN seen /\ e \in Nat /\ e <= Len(code)
     /\ Opcode(code, e) = \h0B /\ e + 1 \in DOMAIN seen /\ e + 1 <= Len(code) /\ After(code, e) = e + 1
     /\ Len(k) = i /\ SamePrefix(At(seen, p), k, i - 1) /\ SameFrame(k[i], f)
     /\ Len(k2) = i - 1 /\ SamePrefix(At(seen, p), k2, i - 1)
     /\ k[i].seen_else = paired[o].else_pc
     /\ k[i].kind = "if" /\ k[i].seen_else = 0 => k[i].ends = <<>>

LEMMA EndIs ==
  ASSUME Complete, NEW p \in DOMAIN seen, NEW i \in 2..Len(At(seen, p))
  PROVE  EndOf(p, i)
<1> DEFINE f == At(seen, p)[i]
           o == At(seen, p)[i].opener
           e == paired[At(seen, p)[i].opener].end_pc
           k == At(seen, e)
           k2 == At(seen, e + 1)
<1>1. /\ VInv /\ HomeOf(p, i) /\ i \in Nat /\ i >= 2
  BY HomeIs, InsideIs DEF Complete
<1>2. /\ o \in DOMAIN seen /\ o <= Len(code) /\ Opcode(code, o) \in Openers
      /\ Len(At(seen, o)) = i - 1 /\ SamePrefix(At(seen, p), At(seen, o), i - 1)
      /\ Len(At(seen, o + 2)) = i /\ SameFrame(At(seen, o + 2)[i], f)
  BY <1>1 DEF HomeOf
<1>3. Pairing(code, seen, paired, v.controls) /\ Len(v.controls) = 0
  BY DEF Complete, VInv
<1>4. o \in DOMAIN paired
  BY <1>2, <1>3 DEF Pairing
<1>5. /\ e \in DOMAIN seen /\ e <= Len(code) /\ Opcode(code, e) = \h0B
      /\ Len(k) > 1 /\ k[Len(k)].opener = o /\ k[Len(k)].seen_else = paired[o].else_pc
  BY <1>3, <1>4 DEF Pairing
<1>6. /\ MovesAt(code, seen, e) /\ Len(k) \in Nat /\ e \in Nat /\ After(code, e) \in DOMAIN seen
  BY <1>1, <1>5, BoundaryIs
<1>7. After(code, e) = e + 1
  BY <1>5, <1>6, ControlWidths DEF After
<1>8. HomeOf(e, Len(k))
  <2>1. Len(k) \in 2..Len(k)
    BY <1>5, <1>6
  <2> QED  BY <1>5, <2>1, HomeIs
<1>9. Len(k) = i
  <2>1. Len(At(seen, o)) = Len(k) - 1
    BY <1>5, <1>8 DEF HomeOf
  <2> HIDE DEF k, o
  <2> QED  BY <1>1, <1>2, <1>6, <2>1
<1>10. SamePrefix(k, At(seen, o), i - 1) /\ SameFrame(At(seen, o + 2)[i], k[i])
  BY <1>5, <1>8, <1>9 DEF HomeOf
<1>11. SamePrefix(At(seen, p), k, i - 1) /\ SameFrame(k[i], f)
  <2> HIDE DEF k, f
  <2> QED  BY <1>2, <1>10 DEF SamePrefix, SameFrame
<1>12. EndMove(k, k2)
  BY <1>5, <1>6, <1>7 DEF MovesAt, Moves, Openers
<1>13. Len(k2) = i - 1 /\ SamePrefix(At(seen, p), k2, i - 1)
       /\ (k[i].kind = "if" /\ k[i].seen_else = 0 => k[i].ends = <<>>)
  <2>1. /\ Len(k2) = i - 1 /\ \A j \in 1..(i - 1) : k2[j] = k[j]
        /\ k[i].kind = "if" /\ k[i].seen_else = 0 => k[i].ends = <<>>
    BY <1>9, <1>12 DEF EndMove
  <2> HIDE DEF k, k2
  <2> QED  BY <1>11, <2>1 DEF SamePrefix
<1>14. e + 1 \in DOMAIN seen
  BY <1>6, <1>7
<1>15. e + 1 <= Len(code)
  <2>1. Len(k2) > 0
    BY <1>1, <1>13
  <2> QED  BY <1>14, <2>1, InsideIs
<1> HIDE DEF k, k2, f
<1> QED  BY <1>4, <1>5, <1>6, <1>7, <1>9, <1>11, <1>13, <1>14, <1>15 DEF EndOf, k, k2, f

\* ... and the else it took, if any, starts its second arm.
ElseOf(p, i) ==
  LET f == At(seen, p)[i]
      o == At(seen, p)[i].opener
      q == paired[At(seen, p)[i].opener].else_pc
      k == At(seen, q)
      k2 == At(seen, q + 1)
  IN /\ q \in DOMAIN seen /\ q \in Nat /\ q <= Len(code) /\ Opcode(code, q) = \h05
     /\ q + 1 \in DOMAIN seen /\ q + 1 <= Len(code) /\ After(code, q) = q + 1
     /\ Len(k) = i /\ k[i].opener = o /\ SameFrame(k[i], f)
     /\ Len(k2) = i /\ SamePrefix(At(seen, p), k2, i - 1)
     /\ SameFrame(k2[i], f) /\ ~k2[i].unreachable

LEMMA ElseIs ==
  ASSUME Complete, NEW p \in DOMAIN seen, NEW i \in 2..Len(At(seen, p)),
         paired[At(seen, p)[i].opener].else_pc # 0
  PROVE  ElseOf(p, i)
<1> DEFINE f == At(seen, p)[i]
           o == At(seen, p)[i].opener
           e == paired[At(seen, p)[i].opener].end_pc
           q == paired[At(seen, p)[i].opener].else_pc
           k == At(seen, q)
           k2 == At(seen, q + 1)
<1>1. /\ VInv /\ HomeOf(p, i) /\ EndOf(p, i) /\ i \in Nat /\ i >= 2
  BY HomeIs, EndIs, InsideIs DEF Complete
<1>2. /\ e \in DOMAIN seen /\ e <= Len(code) /\ Len(At(seen, e)) = i
      /\ At(seen, e)[i].seen_else = q /\ SameFrame(At(seen, e)[i], f)
  BY <1>1 DEF EndOf
<1>3. NestedAt(code, seen, e, i)
  <2>1. FramesAt(code, seen, e)
    BY <1>1, <1>2, BoundaryIs
  <2>2. i \in 2..Len(At(seen, e))
    <3> HIDE DEF e
    <3> QED  BY <1>1, <1>2
  <2> HIDE DEF e
  <2> QED  BY <2>1, <2>2 DEF FramesAt
<1>4. At(seen, e)[i].opener = o
  BY <1>2 DEF SameFrame
<1>5. /\ q \in DOMAIN seen /\ q < e /\ Opcode(code, q) = \h05 /\ Len(k) = i /\ k[i].opener = o
  BY <1>2, <1>3, <1>4 DEF NestedAt
<1>6. q <= Len(code)
  <2>1. e \in Nat /\ q \in Nat /\ Len(code) \in Nat
    BY <1>1, <1>2, <1>5, BoundaryIs, InsideIs
  <2> QED  BY <1>2, <1>5, <2>1
<1>7. /\ MovesAt(code, seen, q) /\ q \in Nat /\ After(code, q) \in DOMAIN seen /\ HomeOf(q, i)
      /\ k \in Seq(Frame) /\ WidthAt(code, q) \in Nat
  <2>1. i \in 2..Len(k)
    BY <1>1, <1>5
  <2> QED  BY <1>1, <1>5, <1>6, <2>1, BoundaryIs, HomeIs
<1>8. After(code, q) = q + 1
  BY <1>5, <1>7, ControlWidths DEF After
<1>9. ElseMove(q, k, k2)
  BY <1>5, <1>7, <1>8 DEF MovesAt, Moves
<1>10. /\ Len(k2) = i /\ SamePrefix(k, k2, i - 1) /\ SameFrame(k2[i], k[i]) /\ ~k2[i].unreachable
  <2>1. /\ Len(k2) = i /\ \A j \in 1..(i - 1) : k2[j] = k[j]
        /\ k2[i] = [k[i] EXCEPT !.unreachable = FALSE, !.seen_else = q]
    BY <1>5, <1>9 DEF ElseMove
  <2>2. k[i] \in Frame
    BY <1>1, <1>5, <1>7
  <2> HIDE DEF k, k2
  <2>3. SameFrame(k2[i], k[i]) /\ ~k2[i].unreachable
    BY <2>1, <2>2 DEF SameFrame, Frame
  <2> QED  BY <2>1, <2>3 DEF SamePrefix
<1>11. SamePrefix(At(seen, p), At(seen, o), i - 1) /\ SameFrame(At(seen, o + 2)[i], f)
  BY <1>1 DEF HomeOf
<1>12. SamePrefix(k, At(seen, o), i - 1) /\ SameFrame(At(seen, o + 2)[i], k[i])
  BY <1>5, <1>7 DEF HomeOf
<1>13. SameFrame(k[i], f) /\ SameFrame(k2[i], f) /\ SamePrefix(At(seen, p), k2, i - 1)
  <2> HIDE DEF k, k2, f
  <2> QED  BY <1>10, <1>11, <1>12 DEF SameFrame, SamePrefix
<1>14. q + 1 <= Len(code)
  <2>1. q + 1 \in DOMAIN seen /\ Len(k2) > 0
    BY <1>1, <1>7, <1>8, <1>10
  <2> QED  BY <2>1, InsideIs
<1> HIDE DEF k, k2, f
<1> QED  BY <1>5, <1>6, <1>7, <1>8, <1>10, <1>13, <1>14 DEF ElseOf, k, k2, f

-----------------------------------------------------------------------------
(* The operands there.                                                     *)

LEMMA BelowSym ==
  ASSUME NEW s, NEW t, NEW n, Below(s, t, n)
  PROVE  Below(t, s, n)
  BY DEF Below

LEMMA BelowTrans ==
  ASSUME NEW s, NEW t, NEW u, NEW n, Below(s, t, n), Below(t, u, n)
  PROVE  Below(s, u, n)
  BY DEF Below

LEMMA SameOperands ==
  ASSUME NEW s \in Seq(ValueTypes), NEW t \in Seq(ValueTypes), NEW n \in Nat, Below(s, t, n),
         NEW ts \in Seq(ValueTypes), Topped(s, n, ts), Topped(t, n, ts)
  PROVE  s = t
<1>1. Len(s) = Len(t) /\ Len(s) = n + Len(ts) /\ Len(ts) \in Nat
  BY DEF Topped
<1>2. ASSUME NEW i \in 1..Len(s) PROVE s[i] = t[i]
  <2>1. CASE i <= n
    BY <1>1, <2>1 DEF Below
  <2>2. CASE i > n
    <3>1. i - n \in 1..Len(ts) /\ i = n + (i - n)
      BY <1>1, <2>2
    <3> QED  BY <3>1 DEF Topped
  <2> QED  BY <2>1, <2>2
<1> QED  BY <1>1, <1>2, SameSequence

\* What lies at the floor of frame i of boundary p lies there still where the frame
\* starts, ends, and takes its else.
LandingOf(p, i) ==
  LET f == At(seen, p)[i]
      o == At(seen, p)[i].opener
      e == paired[At(seen, p)[i].opener].end_pc
      q == paired[At(seen, p)[i].opener].else_pc
      lands(r, ts) == Ops(seen, r) \in Seq(ValueTypes) /\ Below(Ops(seen, p), Ops(seen, r), f.height)
                        /\ Topped(Ops(seen, r), f.height, ts)
  IN /\ f.height \in Nat /\ f.height <= Len(Ops(seen, p)) /\ Ops(seen, p) \in Seq(ValueTypes)
     /\ lands(o + 2, f.params) /\ lands(e + 1, f.ends)
     /\ q # 0 => lands(q + 1, f.params)

LEMMA FloorKept ==
  ASSUME NEW s, NEW p, StacksAt(s, p), NEW i \in 2..Len(At(s, p))
  PROVE  Below(Ops(s, p), Ops(s, At(s, p)[i].opener), At(s, p)[i].height)
  BY DEF StacksAt

LEMMA EndTyped ==
  ASSUME NEW c, NEW s, NEW p, TypedAt(c, s, p), NEW i \in Nat, i > 1, Len(At(s, p)) = i
  PROVE  LET f == At(s, p)[i]
             b == Ops(s, After(c, p))
         IN /\ Opcode(c, p) = \h0B => Topped(b, f.height, f.ends)
            /\ Opcode(c, p) = \h05 => Topped(b, f.height, f.params)
            /\ Below(b, Ops(s, p), f.height)
<1>1. /\ Typed(c, p, At(s, p), At(s, After(c, p)), Ops(s, p), Ops(s, After(c, p)))
      /\ Rests(At(s, p), At(s, After(c, p)), Ops(s, p), Ops(s, After(c, p)))
  BY DEF TypedAt
<1> QED  BY <1>1 DEF Typed, Rests

LEMMA LandingIs ==
  ASSUME Complete, Stacks(code, seen), NEW p \in DOMAIN seen, NEW i \in 2..Len(At(seen, p))
  PROVE  LandingOf(p, i)
<1> DEFINE f == At(seen, p)[i]
           o == At(seen, p)[i].opener
           e == paired[At(seen, p)[i].opener].end_pc
           q == paired[At(seen, p)[i].opener].else_pc
           h == f.height
<1>1. /\ HomeOf(p, i) /\ EndOf(p, i) /\ i \in Nat /\ i >= 2 /\ i <= Len(At(seen, p))
      /\ q # 0 => ElseOf(p, i)
  BY HomeIs, EndIs, ElseIs, InsideIs
<1>2. \A r \in DOMAIN seen : Ops(seen, r) \in Seq(ValueTypes)
  BY DEF Complete, VInv, Boundaries, FramesAt
<1>3. \A r \in DOMAIN seen : StacksAt(seen, r) /\ (r <= Len(code) => TypedAt(code, seen, r))
  BY DEF Stacks
<1>4. f \in Frame /\ h \in Nat
  <2>1. f \in Frame
    BY <1>1 DEF HomeOf
  <2> QED  BY <2>1 DEF Frame
<1>5. Below(Ops(seen, p), Ops(seen, o), h) /\ h <= Len(Ops(seen, p))
  BY <1>1, <1>3 DEF StacksAt
<1>6. Below(Ops(seen, p), Ops(seen, o + 2), h) /\ Topped(Ops(seen, o + 2), h, f.params)
  <2>1. /\ o \in DOMAIN seen /\ o <= Len(code) /\ After(code, o) = o + 2 /\ Opcode(code, o) \in Openers
        /\ f.params = Signature(code, o).params
        /\ Len(At(seen, o)) = i - 1 /\ Len(At(seen, o + 2)) = i /\ SameFrame(At(seen, o + 2)[i], f)
    BY <1>1 DEF HomeOf
  <2>2. TypedAt(code, seen, o) /\ Len(At(seen, o)) + 1 = i
    BY <1>1, <1>3, <2>1
  <2>3. At(seen, o + 2)[i].height = h
    BY <2>1 DEF SameFrame
  <2>4. Topped(Ops(seen, o + 2), h, f.params)
    BY <2>1, <2>2, <2>3 DEF TypedAt, Typed
  <2>5. Below(Ops(seen, o + 2), Ops(seen, o), h)
    BY <2>1, <2>2, <2>3 DEF TypedAt, Rests
  <2> QED  BY <1>5, <2>4, <2>5, BelowSym, BelowTrans
<1>7. Below(Ops(seen, p), Ops(seen, e + 1), h) /\ Topped(Ops(seen, e + 1), h, f.ends)
  <2>1. /\ e \in DOMAIN seen /\ e <= Len(code) /\ After(code, e) = e + 1 /\ Opcode(code, e) = \h0B
        /\ Len(At(seen, e)) = i /\ SameFrame(At(seen, e)[i], f)
    BY <1>1 DEF EndOf
  <2>2. TypedAt(code, seen, e) /\ StacksAt(seen, e)
    BY <1>3, <2>1
  <2>3. At(seen, e)[i].height = h /\ At(seen, e)[i].ends = f.ends /\ At(seen, e)[i].opener = o
    BY <2>1 DEF SameFrame
  <2>0. i \in Nat /\ i > 1 /\ i \in 2..Len(At(seen, e))
    <3> HIDE DEF e
    <3> QED  BY <1>1, <2>1
  <2>4. Topped(Ops(seen, e + 1), h, f.ends) /\ Below(Ops(seen, e + 1), Ops(seen, e), h)
    <3> HIDE DEF e, f
    <3> QED  BY <2>0, <2>1, <2>2, <2>3, EndTyped DEF h
  <2>6. Below(Ops(seen, e), Ops(seen, o), h)
    <3> HIDE DEF e, f, o
    <3> QED  BY <2>0, <2>1, <2>2, <2>3, FloorKept DEF h
  <2> QED  BY <1>5, <2>4, <2>6, BelowSym, BelowTrans
<1>8. ASSUME q # 0
      PROVE  Below(Ops(seen, p), Ops(seen, q + 1), h) /\ Topped(Ops(seen, q + 1), h, f.params)
  <2>1. /\ q \in DOMAIN seen /\ q <= Len(code) /\ After(code, q) = q + 1 /\ Opcode(code, q) = \h05
        /\ Len(At(seen, q)) = i /\ SameFrame(At(seen, q)[i], f)
    BY <1>1, <1>8 DEF ElseOf
  <2>2. TypedAt(code, seen, q) /\ StacksAt(seen, q)
    BY <1>3, <2>1
  <2>3. At(seen, q)[i].height = h /\ At(seen, q)[i].params = f.params /\ At(seen, q)[i].opener = o
    BY <2>1 DEF SameFrame
  <2>0. i \in Nat /\ i > 1 /\ i \in 2..Len(At(seen, q))
    <3> HIDE DEF q
    <3> QED  BY <1>1, <2>1
  <2>4. Topped(Ops(seen, q + 1), h, f.params) /\ Below(Ops(seen, q + 1), Ops(seen, q), h)
    <3> HIDE DEF q, f
    <3> QED  BY <2>0, <2>1, <2>2, <2>3, EndTyped DEF h
  <2>6. Below(Ops(seen, q), Ops(seen, o), h)
    <3> HIDE DEF q, f, o
    <3> QED  BY <2>0, <2>1, <2>2, <2>3, FloorKept DEF h
  <2> QED  BY <1>5, <2>4, <2>6, BelowSym, BelowTrans
<1>9. o + 2 \in DOMAIN seen /\ e + 1 \in DOMAIN seen /\ (q # 0 => q + 1 \in DOMAIN seen)
  BY <1>1 DEF HomeOf, EndOf, ElseOf
<1> QED  BY <1>2, <1>4, <1>5, <1>6, <1>7, <1>8, <1>9 DEF LandingOf
-----------------------------------------------------------------------------
(* The operand types an instruction's memories decide.                     *)

Naming(imm) == {i \in DOMAIN imm : imm[i] \in {"memarg", "mem"}}
Nth(imm, nth) == CHOOSE i \in Naming(imm) : nth = 1 <=> \A j \in Naming(imm) : i <= j

LEMMA MemoryArgIs ==
  ASSUME NEW c, NEW p, NEW imm, NEW nth
  PROVE  MemoryArg(c, p, imm, nth) = Arg(c, p, Nth(imm, nth))
  BY DEF MemoryArg, Nth, Naming

\* The types of ts that name a memory name one the instruction has.
MemoriesOf(imm, ts) ==
  \A i \in DOMAIN ts :
    /\ ts[i] \in {"addr", "dst", "len"} => Nth(imm, 1) \in DOMAIN imm
    /\ ts[i] \in {"src", "len"} => Nth(imm, 2) \in DOMAIN imm

LEMMA MemoriesKnown ==
  ASSUME NEW op, Known(op)
  PROVE  MemoriesOf(Imms(op), Pops(op)) /\ MemoriesOf(Imms(op), Pushes(op))
<1>1. \A t \in ValueTypes : t \notin {"addr", "dst", "len", "src"}
  BY DEF ValueTypes
<1>2. CASE ~Addresses(op) /\ op # 1010
  <2>1. Pops(op) \in Seq(ValueTypes) /\ Pushes(op) \in Seq(ValueTypes)
    BY <1>2, PlainOperands
  <2> QED  BY <1>1, <2>1 DEF MemoriesOf
<1>3. CASE Addresses(op)
  <2> DEFINE ps == Pops(op)
             qs == Pushes(op)
             imm == Imms(op)
  <2>1. /\ ps \in Seq(ValueTypes \cup {"addr"}) /\ qs \in Seq(ValueTypes \cup {"addr"})
        /\ \E i \in DOMAIN imm :
             /\ NamesMemory(imm[i])
             /\ \A j \in DOMAIN imm : NamesMemory(imm[j]) => i <= j
    BY <1>3, AddressOperands
  <2> HIDE DEF ps, qs, imm
  <2>2. \E i \in Naming(imm) : \A j \in Naming(imm) : i <= j
    BY <2>1 DEF Naming, NamesMemory
  <2>3. Nth(imm, 1) \in DOMAIN imm
    BY <2>2 DEF Nth, Naming
  <2>4. \A t \in ValueTypes \cup {"addr"} : t \notin {"src", "len"}
    BY <1>1
  <2>5. MemoriesOf(imm, ps)
    BY <2>1, <2>3, <2>4 DEF MemoriesOf
  <2>6. MemoriesOf(imm, qs)
    BY <2>1, <2>3, <2>4 DEF MemoriesOf
  <2> QED  BY <2>5, <2>6 DEF ps, qs, imm
<1>4. CASE op = 1010
  <2> DEFINE imm == <<"mem", "mem">>
  <2>1. Naming(imm) = {1, 2} /\ DOMAIN imm = {1, 2}
    BY DEF Naming
  <2> HIDE DEF imm
  <2>2. Nth(imm, 1) \in {1, 2}
    <3>1. \E i \in {1, 2} : 1 = 1 <=> \A j \in {1, 2} : i <= j
      OBVIOUS
    <3> QED  BY <2>1, <3>1 DEF Nth
  <2>3. Nth(imm, 2) \in {1, 2}
    <3>1. \E i \in {1, 2} : 2 = 1 <=> \A j \in {1, 2} : i <= j
      OBVIOUS
    <3> QED  BY <2>1, <3>1 DEF Nth
  <2>4. \A ts : MemoriesOf(imm, ts)
    BY <2>1, <2>2, <2>3 DEF MemoriesOf
  <2> QED  BY <1>4, <2>4, CopyOperands DEF imm
<1> QED  BY <1>2, <1>3, <1>4

LEMMA OperandsSame ==
  ASSUME NEW c, NEW p, NEW c2, NEW p2, NEW imm, NEW ts, MemoriesOf(imm, ts),
         \A i \in DOMAIN imm : Arg(c2, p2, i) = Arg(c, p, i)
  PROVE  ValidatorOperands(c2, p2, imm, ts) = ValidatorOperands(c, p, imm, ts)
<1> SUFFICES ASSUME NEW i \in DOMAIN ts
             PROVE  ValidatorOperand(c2, p2, imm, ts[i]) = ValidatorOperand(c, p, imm, ts[i])
  BY DEF ValidatorOperands
<1> DEFINE t == ts[i]
<1>1. t \in {"addr", "dst", "len"} => MemoryArg(c2, p2, imm, 1) = MemoryArg(c, p, imm, 1)
  BY MemoryArgIs DEF MemoriesOf
<1>2. t \in {"src", "len"} => MemoryArg(c2, p2, imm, 2) = MemoryArg(c, p, imm, 2)
  BY MemoryArgIs DEF MemoriesOf
<1> HIDE DEF t
<1>3. ValidatorOperand(c2, p2, imm, t) = ValidatorOperand(c, p, imm, t)
  BY <1>1, <1>2 DEF ValidatorOperand
<1> QED  BY <1>3 DEF t

\* The interpreter resolves them alike.
LEMMA OperandsAgree ==
  ASSUME NEW c, NEW p, NEW imm, NEW ts
  PROVE  RuntimeOperands(c, p, imm, ts) = ValidatorOperands(c, p, imm, ts)
<1>1. \A t : RuntimeOperand(c, p, imm, t) = ValidatorOperand(c, p, imm, t)
  <2> TAKE t
  <2> DEFINE m == MemoryArg(c, p, imm, 1)
             n == MemoryArg(c, p, imm, 2)
             wide(j) == runtime_memory_is_64(MemoryArg(c, p, imm, j))
  <2>1. CASE t \in {"addr", "dst"}
    <3>1. (\A j \in {1} : wide(j)) <=> Memory64[m]
      BY DEF runtime_memory_is_64
    <3> QED  BY <2>1, <3>1 DEF RuntimeOperand, ValidatorOperand, address_type
  <2>2. CASE t = "src"
    <3>1. (\A j \in {2} : wide(j)) <=> Memory64[n]
      BY DEF runtime_memory_is_64
    <3> QED  BY <2>2, <3>1 DEF RuntimeOperand, ValidatorOperand, address_type
  <2>3. CASE t = "len"
    <3>1. (\A j \in {1, 2} : wide(j)) <=> Memory64[m] /\ Memory64[n]
      BY DEF runtime_memory_is_64
    <3> QED  BY <2>3, <3>1 DEF RuntimeOperand, ValidatorOperand, address_type
  <2>4. CASE t \notin {"addr", "dst", "src", "len"}
    BY <2>4 DEF RuntimeOperand, ValidatorOperand
  <2> QED  BY <2>1, <2>2, <2>3, <2>4
<1> QED  BY <1>1 DEF RuntimeOperands, ValidatorOperands

-----------------------------------------------------------------------------
(* The operands at every boundary.                                         *)

LEMMA FlowsSame ==
  ASSUME NEW c, NEW p, NEW c2, NEW p2, SameInstruction(c, p, c2, p2),
         Opcode(c, p) = \h0E => Arg(c, p, 1) \in Nat,
         NEW k, NEW a, NEW b, Flows(c, p, k, a, b)
  PROVE  Flows(c2, p2, k, a, b)
<1> DEFINE op == Opcode(c, p)
           e == ValidatorTable[Opcode(c, p)]
           same(i) == Arg(c2, p2, i) = Arg(c, p, i)
           vo(ts) == ValidatorOperands(c, p, e.imm, ts)
           vo2(ts) == ValidatorOperands(c2, p2, e.imm, ts)
<1>1. Opcode(c2, p2) = op /\ \A i \in 1..WidthAt(c, p) : same(i)
  BY DEF SameInstruction
<1>2. op \in {\h0C, \h0D, \h10, \h12, \h1C} \cup \h20..\h24 => same(1)
  BY <1>1, ControlWidths
<1>3. op = \h0E => same(1) /\ \A i \in 1..(Arg(c, p, 1) + 1) : same(i + 1)
  BY <1>1, ControlWidths
<1>4. op \in {\h11, \h13} => same(1)
  BY <1>1, ControlWidths
<1>5. op \in {\h10, \h11, \h12, \h13} => CalleeAt(c2, p2) = CalleeAt(c, p) /\ CallPops(c2, p2) = CallPops(c, p)
  BY <1>1, <1>2, <1>4 DEF CalleeAt, CallPops
<1>6. ASSUME op \notin ControlOps PROVE vo2(e.pops) = vo(e.pops) /\ vo2(e.pushes) = vo(e.pushes)
  <2>1. /\ Known(op) /\ e.imm = Imms(op) /\ e.pops = Pops(op) /\ e.pushes = Pushes(op)
        /\ ImmAt(c, p) = e.imm /\ e.imm \in Seq(Immediate) /\ WidthAt(c, p) = Len(e.imm)
    BY <1>6, PlainWidth, ValidatorEntry DEF SameInstruction
  <2>2. \A i \in DOMAIN e.imm : same(i)
    BY <1>1, <2>1
  <2>3. MemoriesOf(e.imm, e.pops) /\ MemoriesOf(e.imm, e.pushes)
    BY <2>1, MemoriesKnown
  <2> QED  BY <2>2, <2>3, OperandsSame
<1> HIDE DEF op, e
<1>7. op = \h0E => \A i \in 1..(Arg(c2, p2, 1) + 1) : LabelFits(k, Front(a), Arg(c2, p2, i + 1))
  BY <1>3 DEF Flows, op
<1>8. op \in {\h05, \h0B} => Topped(a, k[Len(k)].height, k[Len(k)].ends)
  BY DEF Flows, op
<1>9. op \notin ControlOps => Swap(a, b, vo2(e.pops), vo2(e.pushes))
  <2>1. op \notin ControlOps => Swap(a, b, vo(e.pops), vo(e.pushes))
    BY DEF Flows, op, e
  <2> QED  BY <1>6, <2>1
<1>10. op \in {\h10, \h11} => Swap(a, b, CallPops(c2, p2), CalleeAt(c2, p2).results)
  BY <1>5 DEF Flows, op
<1>11. op \in {\h12, \h13} => Takes(a, CallPops(c2, p2))
  BY <1>5 DEF Flows, op
<1> DEFINE n == Arg(c, p, 1)
           n2 == Arg(c2, p2, 1)
<1>12. /\ op = \h0C => LabelFits(k, a, n2)
       /\ op = \h0D => LabelFits(k, b, n2)
  BY <1>2 DEF Flows, op
<1>13. /\ op = \h1C => Swap(a, b, <<"i32", n2, n2>>, <<n2>>)
       /\ op = \h20 => Swap(a, b, <<>>, <<Locals[n2]>>)
       /\ op = \h21 => Swap(a, b, <<Locals[n2]>>, <<>>)
       /\ op = \h22 => Swap(a, b, <<Locals[n2]>>, <<Locals[n2]>>)
       /\ op = \h23 => Swap(a, b, <<>>, <<Globals[n2].type>>)
       /\ op = \h24 => Swap(a, b, <<Globals[n2].type>>, <<>>)
  <2>1. op \in {\h1C, \h20, \h21, \h22, \h23, \h24} => n2 = n
    BY <1>2
  <2> QED  BY <2>1 DEF Flows, op
<1>14. /\ op \in {\h01, \h02, \h03} => Swap(a, b, <<>>, <<>>)
       /\ op \in {\h04, \h0D} => Swap(a, b, <<"i32">>, <<>>)
       /\ op = \h0E => Takes(a, <<"i32">>)
       /\ op = \h0F => LabelFits(k, a, Len(k) - 1)
       /\ op = \h1A => Swap(a, b, <<a[Len(a)]>>, <<>>)
       /\ op = \h1B => LET t == a[Len(a) - 1] IN Swap(a, b, <<"i32", t, t>>, <<t>>)
  BY DEF Flows, op
<1> QED  BY ONLY <1>1, <1>7, <1>8, <1>9, <1>10, <1>11, <1>12, <1>13, <1>14 DEF Flows, e, op

LEMMA TypedSame ==
  ASSUME NEW c, NEW p, NEW c2, NEW p2, SameInstruction(c, p, c2, p2),
         Opcode(c, p) = \h0E => Arg(c, p, 1) \in Nat,
         NEW k, NEW k2, NEW a, NEW b, Typed(c, p, k, k2, a, b)
  PROVE  Typed(c2, p2, k, k2, a, b)
<1>1. Opcode(c2, p2) = Opcode(c, p)
  BY DEF SameInstruction
<1>2. Opcode(c, p) \in Openers => Signature(c2, p2) = Signature(c, p)
  BY ControlWidths DEF SameInstruction, Signature
<1>3. ~k[Len(k)].unreachable => Flows(c2, p2, k, a, b)
  BY FlowsSame DEF Typed
<1> QED  BY <1>1, <1>2, <1>3 DEF Typed

LEMMA TypedKept ==
  ASSUME NEW c, NEW s, NEW c2, NEW s2, NEW ins, NEW m, Readable(c, s),
         Grown(c, s, c2, s2, ins, m), Len(ins) \in Nat,
         NEW p \in DOMAIN s, p <= Len(c), TypedAt(c, s, p)
  PROVE  TypedAt(c2, s2, p)
<1>1. /\ ReadableAt(c, s, p) /\ After(c, p) \in DOMAIN s
      /\ Opcode(c, p) \in ControlOps \cup ValidatorOps /\ WidthAt(c, p) \in Nat
  BY DEF Readable, ReadableAt
<1>2. SameInstruction(c, p, c2, p) /\ After(c2, p) = After(c, p)
  BY <1>1, ReadKept DEF SameInstruction
<1>3. Opcode(c, p) = \h0E => Arg(c, p, 1) \in Nat
  <2>1. Opcode(c, p) = \h0E => ImmAt(c, p) = <<"depths">>
    BY ControlImmediates DEF ImmAt, ValidatorImm
  <2> QED  BY <1>1, <2>1 DEF ReadableAt
<1>4. /\ At(s2, p) = At(s, p) /\ Ops(s2, p) = Ops(s, p)
      /\ At(s2, After(c, p)) = At(s, After(c, p)) /\ Ops(s2, After(c, p)) = Ops(s, After(c, p))
  BY <1>1 DEF Grown, At, Ops
<1>5. Typed(c2, p, At(s, p), At(s, After(c, p)), Ops(s, p), Ops(s, After(c, p)))
  BY <1>2, <1>3, TypedSame DEF TypedAt
<1> QED  BY <1>2, <1>4, <1>5 DEF TypedAt

LEMMA StacksKept ==
  ASSUME NEW c, NEW s, NEW c2, NEW s2, NEW ins, NEW m,
         Grown(c, s, c2, s2, ins, m), NEW p \in DOMAIN s, FramesAt(c, s, p), StacksAt(s, p)
  PROVE  StacksAt(s2, p)
<1>1. At(s2, p) = At(s, p) /\ Ops(s2, p) = Ops(s, p)
  BY DEF Grown, At, Ops
<1>2. ASSUME NEW i \in 2..Len(At(s, p))
      PROVE  Ops(s2, At(s, p)[i].opener) = Ops(s, At(s, p)[i].opener)
  <2>1. NestedAt(c, s, p, i)
    BY DEF FramesAt
  <2>2. At(s, p)[i].opener \in DOMAIN s
    BY <2>1 DEF NestedAt
  <2> QED  BY <2>2 DEF Grown, Ops
<1> DEFINE k == At(s, p)
           a == Ops(s, p)
<1>3. /\ \A i \in 1..Len(k) : k[i].height <= Len(a) /\ \A j \in 1..i : k[j].height <= k[i].height
      /\ \A i \in 2..Len(k) : Below(a, Ops(s, k[i].opener), k[i].height)
  BY DEF StacksAt
<1> HIDE DEF k, a
<1>4. \A i \in 2..Len(k) : Below(a, Ops(s2, k[i].opener), k[i].height)
  BY <1>2, <1>3 DEF k
<1> QED  BY <1>1, <1>3, <1>4 DEF StacksAt, k, a

LEMMA BelowLess ==
  ASSUME NEW s, NEW t, NEW n \in Nat, NEW h \in Nat, h <= n, Below(s, t, n)
  PROVE  Below(s, t, h)
<1>1. \A i \in 1..h : i \in 1..n
  OBVIOUS
<1>2. Len(s) \in Int /\ Len(t) \in Int => h <= Len(s) /\ h <= Len(t)
  BY DEF Below
<1> QED  BY <1>1, <1>2 DEF Below

LEMMA StacksNew ==
  ASSUME NEW c, NEW s, NEW q, NEW k \in Seq(Frame), NEW k2 \in Seq(Frame),
         NEW a \in Seq(ValueTypes), NEW b \in Seq(ValueTypes), Len(k) > 0,
         Moves(c, q, q, k, k2), Rests(k, k2, a, b),
         NEW s2, StacksAt(s, q), k = At(s, q), a = Ops(s, q), Ops(s2, q) = a,
         \A i \in 2..Len(k) : Ops(s2, k[i].opener) = Ops(s, k[i].opener),
         NEW q2, At(s2, q2) = k2, Ops(s2, q2) = b
  PROVE  StacksAt(s2, q2)
<1> DEFINE n == Len(k)
           h == k[n].height
<1>1. TopOnly(c, q, k, k2)
  BY MovesShape
<1>2. n \in Nat /\ n > 0 /\ h \in Nat /\ \A i \in 1..n : k[i].height \in Nat
  <2>1. \A f \in Frame : f.height \in Nat
    BY DEF Frame
  <2>2. \A i \in 1..n : k[i] \in Frame
    OBVIOUS
  <2>3. n \in Nat /\ n \in 1..n
    OBVIOUS
  <2> QED  BY <2>1, <2>2, <2>3
<1>3. /\ \A i \in 1..n : k[i].height <= Len(a) /\ \A j \in 1..i : k[j].height <= k[i].height
      /\ \A i \in 2..n : Below(a, Ops(s2, k[i].opener), k[i].height)
  BY DEF StacksAt
<1>4. /\ Len(k2) \in {n - 1, n, n + 1}
      /\ Len(k2) = n + 1 => Opcode(c, q) \in Openers
      /\ \A i \in 1..Len(k2) : i <= n => k2[i].height = k[i].height /\ k2[i].opener = k[i].opener
  BY <1>1 DEF TopOnly
<1>5. /\ Below(b, a, h)
      /\ Len(k2) = n + 1 => h <= k2[n + 1].height /\ Below(b, a, k2[n + 1].height)
  BY DEF Rests
<1>6. Len(k2) = n + 1 => k2[n + 1].opener = q /\ k2[n + 1].height \in Nat
  <2>1. Len(k2) = n + 1 => k2[n + 1] \in Frame
    BY <1>2
  <2> QED  BY <1>4, <2>1 DEF Moves, OpenMove, Frame
<1> HIDE DEF n, h
<1>7. \A i \in 1..n : k[i].height <= h /\ Below(b, a, k[i].height)
  <2> TAKE i \in 1..n
  <2>1. n \in 1..n /\ i \in 1..n
    BY <1>2
  <2>2. k[i].height <= h
    BY <1>3, <2>1 DEF h
  <2> QED  BY <1>2, <1>5, <2>2, BelowLess
<1>8. ASSUME NEW i \in 1..Len(k2)
      PROVE  /\ k2[i].height <= Len(b) /\ \A j \in 1..i : k2[j].height <= k2[i].height
             /\ i >= 2 => Below(b, Ops(s2, k2[i].opener), k2[i].height)
  <2>1. CASE i <= n
    <3>1. i \in 1..n /\ k2[i].height = k[i].height /\ k2[i].opener = k[i].opener
      BY <1>2, <1>4, <2>1
    <3>2. k2[i].height <= Len(b) /\ Below(b, a, k2[i].height)
      BY <1>7, <3>1 DEF Below
    <3>3. \A j \in 1..i : k2[j].height <= k2[i].height
      <4> TAKE j \in 1..i
      <4>1. j \in 1..n /\ j \in 1..Len(k2) /\ j <= n
        BY <1>2, <3>1
      <4> QED  BY <1>3, <1>4, <3>1, <4>1
    <3>4. ASSUME i >= 2 PROVE Below(b, Ops(s2, k2[i].opener), k2[i].height)
      <4>1. i \in 2..n
        BY <3>1, <3>4
      <4>2. Below(a, Ops(s2, k2[i].opener), k2[i].height)
        BY <1>3, <3>1, <4>1
      <4> QED  BY <3>2, <4>2, BelowTrans
    <3> QED  BY <3>2, <3>3, <3>4
  <2>2. CASE i > n
    <3>1. i = n + 1 /\ Len(k2) = n + 1
      BY <1>2, <1>4, <2>2
    <3>2. k2[i].height <= Len(b) /\ Below(b, Ops(s2, k2[i].opener), k2[i].height)
      BY <1>5, <1>6, <3>1 DEF Below
    <3>3. \A j \in 1..i : k2[j].height <= k2[i].height
      <4> TAKE j \in 1..i
      <4>1. CASE j = i
        BY <1>6, <3>1, <4>1
      <4>2. CASE j # i
        <5>1. j \in 1..n /\ j \in 1..Len(k2) /\ j <= n
          BY <1>2, <3>1, <4>2
        <5>2. k2[j].height = k[j].height /\ k[j].height <= h /\ h <= k2[i].height
          BY <1>4, <1>5, <1>7, <3>1, <5>1
        <5> QED  BY <1>2, <1>6, <3>1, <5>1, <5>2
      <4> QED  BY <4>1, <4>2
    <3> QED  BY <3>2, <3>3
  <2> QED  BY <1>2, <2>1, <2>2
<1>9. \A i \in 2..Len(k2) : i \in 1..Len(k2) /\ i >= 2
  OBVIOUS
<1> QED  BY <1>8, <1>9 DEF StacksAt

LEMMA TypesGrow ==
  ASSUME VInv, VInv', TInv, phase = "validate", NEW ins, WellFormed(ins), NEW m,
         Accepted(ins, m), Commit(ins, m), m.err = OK, ~m.dipped
  PROVE  Stacks(code', seen')
<1> DEFINE q == Len(code) + 1
           q2 == Len(code') + 1
<1>1. /\ Grown(code, seen, code', seen', ins, m) /\ v' = m
      /\ Len(ins) \in Nat /\ Len(code') = Len(code) + Len(ins) /\ Len(code) \in Nat /\ Len(ins) > 0
  <2>1. Grown(code, seen, code', seen', ins, m) /\ v' = m
    BY CommitGrows
  <2>2. Len(ins) \in Nat \ {0}
    BY WellFormedIs
  <2>3. Len(code) \in Nat
    BY DEF VInv, Boundaries, Readable
  <2> QED  BY <2>1, <2>2, <2>3 DEF Grown
<1>2. /\ v.controls = At(seen, q) /\ v.stack = Ops(seen, q) /\ v \in VState /\ Len(v.controls) > 0
      /\ Readable(code, seen) /\ \A p \in DOMAIN seen : FramesAt(code, seen, p)
      /\ q \in DOMAIN seen /\ DOMAIN seen \subseteq 1..q
  BY DEF VInv, Current, Boundaries, Readable
<1>3. Stacks(code, seen)
  <2>1. ~v.dipped
    BY DEF Accepted
  <2> QED  BY <2>1 DEF TInv
<1>4. Top(v).height <= Len(v.stack)
  <2>1. StacksAt(seen, q)
    BY <1>2, <1>3 DEF Stacks
  <2>2. Top(v) = v.controls[Len(v.controls)] /\ Len(v.controls) \in 1..Len(v.controls)
    BY <1>2, TopIs
  <2> QED  BY <1>2, <2>1, <2>2 DEF StacksAt
<1>5. /\ Typed(ins, 1, v.controls, m.controls, v.stack, m.stack)
      /\ Rests(v.controls, m.controls, v.stack, m.stack)
      /\ Moves(ins, 1, q, v.controls, m.controls)
  BY <1>4 DEF Accepted
<1>6. /\ DOMAIN seen' = DOMAIN seen \cup {q2} /\ \A r \in DOMAIN seen : seen'[r] = seen[r]
      /\ At(seen', q2) = m.controls /\ Ops(seen', q2) = m.stack
  BY <1>1 DEF Grown
<1>7. SameInstruction(ins, 1, code', q)
  BY <1>1, <1>2, InsSame
<1>8. After(code', q) = q2
  BY <1>1, <1>2, ReadNew
<1>9. At(seen', q) = v.controls /\ Ops(seen', q) = v.stack
  BY <1>2, <1>6 DEF At, Ops
<1>10. TypedAt(code', seen', q)
  <2>1. Opcode(ins, 1) = \h0E => Arg(ins, 1, 1) \in Nat
    <3> SUFFICES ASSUME Opcode(ins, 1) = \h0E PROVE Arg(ins, 1, 1) \in Nat
      OBVIOUS
    <3>1. ImmAt(ins, 1) = <<"depths">>
      BY ControlImmediates DEF ImmAt, ValidatorImm
    <3>2. ins[2].k = "u32" /\ 2 \in 1..Len(ins)
      BY <3>1, WellFormedIs DEF Decodes
    <3> QED  BY <3>2 DEF WellFormed, Carried, Arg
  <2>2. Typed(code', q, v.controls, m.controls, v.stack, m.stack)
    BY <1>5, <1>7, <2>1, TypedSame
  <2> QED  BY <1>5, <1>6, <1>8, <1>9, <2>2 DEF TypedAt
<1>11. StacksAt(seen', q2)
  <2>1. Moves(code', q, q, v.controls, m.controls)
    BY <1>5, <1>7, MovesSame
  <2>2. ASSUME NEW i \in 2..Len(v.controls)
        PROVE  Ops(seen', v.controls[i].opener) = Ops(seen, v.controls[i].opener)
    <3>1. NestedAt(code, seen, q, i)
      BY <1>2 DEF FramesAt
    <3> QED  BY <1>2, <1>6, <3>1 DEF NestedAt, Ops
  <2>3. /\ v.controls \in Seq(Frame) /\ v.stack \in Seq(ValueTypes)
        /\ m.controls \in Seq(Frame) /\ m.stack \in Seq(ValueTypes)
    BY <1>2 DEF VState, Accepted
  <2>4. StacksAt(seen, q)
    BY <1>2, <1>3 DEF Stacks
  <2> QED  BY <1>2, <1>5, <1>6, <1>9, <2>1, <2>2, <2>3, <2>4, StacksNew
<1>12. ASSUME NEW p \in DOMAIN seen'
       PROVE  StacksAt(seen', p) /\ (p <= Len(code') => TypedAt(code', seen', p))
  <2>1. CASE p = q2
    BY <1>1, <1>11, <2>1
  <2>2. CASE p = q
    BY <1>1, <1>2, <1>3, <1>10, <2>2, StacksKept DEF Stacks
  <2>3. CASE p \in DOMAIN seen /\ p # q
    <3>1. p <= Len(code)
      BY <1>1, <1>2, <2>3
    <3> QED  BY <1>1, <1>2, <1>3, <2>3, <3>1, StacksKept, TypedKept DEF Stacks
  <2> QED  BY <1>6, <2>1, <2>2, <2>3
<1> QED  BY <1>12 DEF Stacks

LEMMA TypesStart == ASSUME Init PROVE TInv
<1>1. /\ code = <<>> /\ seen[1].stack = <<>> /\ DOMAIN seen = {1}
      /\ Len(seen[1].controls) = 1 /\ seen[1].controls[1].height = 0
  BY DEF Init
<1>2. StacksAt(seen, 1)
  BY <1>1 DEF StacksAt, At, Ops
<1> QED  BY <1>1, <1>2 DEF TInv, Stacks

LEMMA TypesKeep == ASSUME VInv, VInv', TInv, [Next]_vars PROVE TInv'
<1>1. CASE ScanStep \/ RunStep \/ UNCHANGED vars
  <2>1. UNCHANGED <<code, v, seen>>
    BY <1>1, ScanFrame, RunKeeps DEF vars
  <2> QED  BY <2>1 DEF TInv
<1>2. CASE ValidateStep
  <2>1. PICK ins \in Offer(input, code) :
          (WellFormed(ins) /\ ValidateInstruction(ins)) \/ (~WellFormed(ins) /\ ValidateMalformed(ins))
    BY <1>2 DEF ValidateStep
  <2>2. phase = "validate"
    BY <1>2 DEF ValidateStep
  <2>3. ASSUME NEW m, Commit(ins, m), m.err # OK PROVE TInv'
    <3>1. v' = [v EXCEPT !.err = m.err] /\ UNCHANGED <<code, seen>>
      BY <2>3 DEF Commit
    <3>2. v'.dipped = v.dipped
      BY <3>1 DEF VInv, Current, VState
    <3> QED  BY <3>1, <3>2 DEF TInv
  <2>4. CASE WellFormed(ins) /\ ValidateInstruction(ins)
    <3>1. PICK m : Accepted(ins, m) /\ Commit(ins, m)
      BY <2>2, <2>4, StepDecided DEF Decided
    <3>2. CASE m.err = OK
      <4>1. v' = m
        BY <2>4, <3>1, <3>2, CommitGrows
      <4> QED  BY <2>2, <2>4, <3>1, <3>2, <4>1, TypesGrow DEF TInv
    <3> QED  BY <2>3, <3>1, <3>2
  <2>5. CASE ValidateMalformed(ins)
    <3>1. Fail(v, "MalformedImmediate").err # OK
      BY FailIs DEF VInv, Current, Rejections
    <3> QED  BY <2>3, <2>5, <3>1 DEF ValidateMalformed
  <2> QED  BY <2>1, <2>4, <2>5
<1> QED  BY <1>1, <1>2 DEF Next

-----------------------------------------------------------------------------
(* The interpreter's operand stack.                                        *)

\* A frame that worked on its operands only, and met nothing but a failed check of them.
Works(f, r) == /\ r \in XState /\ r.pc = f.pc /\ r.controls = f.controls
               /\ r.outcome \in {OK} \cup OperandErrors
               /\ f.outcome # OK => r = f

LEMMA WorksTrans ==
  ASSUME NEW f, NEW g, NEW r, Works(f, g), Works(g, r)
  PROVE  Works(f, r)
  BY DEF Works

LEMMA StuckIs ==
  ASSUME NEW f \in XState, NEW e \in Outcomes \cup LostErrors
  PROVE  /\ Stuck(f, e) \in XState /\ Stuck(f, e).outcome = e
         /\ Stuck(f, e).pc = f.pc /\ Stuck(f, e).controls = f.controls /\ Stuck(f, e).stack = f.stack
  BY DEF Stuck, XState

LEMMA StuckWorks ==
  ASSUME NEW f \in XState, NEW e \in OperandErrors, f.outcome = OK
  PROVE  Works(f, Stuck(f, e))
<1>1. e \in Outcomes \cup LostErrors
  BY DEF Outcomes
<1> QED  BY <1>1, StuckIs DEF Works

LEMMA StackIs ==
  ASSUME NEW f \in XState, NEW s \in Seq(ValueTypes)
  PROVE  LET r == [f EXCEPT !.stack = s]
         IN r \in XState /\ r.stack = s /\ r.pc = f.pc /\ r.controls = f.controls /\ r.outcome = f.outcome
  BY DEF XState

LEMMA StackWorks ==
  ASSUME NEW f \in XState, f.outcome = OK, NEW s \in Seq(ValueTypes)
  PROVE  LET r == [f EXCEPT !.stack = s] IN Works(f, r) /\ r.outcome = OK /\ r.stack = s
<1> DEFINE r == [f EXCEPT !.stack = s]
<1>1. r \in XState /\ r.stack = s /\ r.pc = f.pc /\ r.controls = f.controls /\ r.outcome = f.outcome
  BY StackIs
<1> HIDE DEF r
<1>2. Works(f, r) /\ r.outcome = OK /\ r.stack = s
  BY <1>1 DEF Works
<1> QED  BY <1>2 DEF r

\* ts were popped.
Without(s, t, ts) == Len(t) = Len(s) - Len(ts) /\ Below(t, s, Len(t))

LEMMA TypedPop ==
  ASSUME NEW f \in XState, f.outcome \in {OK} \cup OperandErrors, NEW T, NEW ts \in Seq(T)
  PROVE  LET r == PopTypedAll(f, ts)
         IN /\ Works(f, r)
            /\ f.outcome = OK /\ Takes(f.stack, ts) => r.outcome = OK /\ Without(f.stack, r.stack, ts)
<1> DEFINE r == PopTypedAll(f, ts)
           s == f.stack
           n == Len(ts)
<1>1. s \in Seq(ValueTypes) /\ n \in Nat /\ Len(s) \in Nat
  BY DEF XState
<1>2. CASE f.outcome # OK
  BY <1>2 DEF PopTypedAll, Works
<1>3. CASE f.outcome = OK /\ (Mismatch(s, ts, n) \/ n > Len(s))
  <2>1. r = Stuck(f, "ValueTypeMismatch") \/ r = Stuck(f, "StackUnderflow")
    BY <1>3 DEF PopTypedAll
  <2>2. Works(f, r)
    BY <1>3, <2>1, StuckWorks DEF OperandErrors
  <2>3. ~Takes(s, ts)
    BY <1>1, <1>3 DEF Takes, Mismatch
  <2> QED  BY <2>2, <2>3
<1>4. CASE f.outcome = OK /\ ~Mismatch(s, ts, n) /\ ~(n > Len(s))
  <2>1. r = [f EXCEPT !.stack = Drop(s, n)]
    BY <1>4 DEF PopTypedAll
  <2>2. /\ Drop(s, n) \in Seq(ValueTypes) /\ Len(Drop(s, n)) = Len(s) - n
        /\ \A i \in 1..(Len(s) - n) : Drop(s, n)[i] = s[i]
    <3>1. n \in 0..Len(s)
      BY <1>1, <1>4
    <3> HIDE DEF s, n
    <3> QED  BY <1>1, <3>1, DropIs
  <2>3. Works(f, r) /\ r.outcome = OK /\ r.stack = Drop(s, n)
    BY <1>4, <2>1, <2>2, StackWorks
  <2> HIDE DEF r, s, n
  <2>4. Without(s, r.stack, ts)
    BY <1>1, <1>4, <2>2, <2>3 DEF Without, Below, n
  <2> QED  BY <2>3, <2>4 DEF r, s, n
<1> QED  BY <1>2, <1>3, <1>4

LEMMA PopTypedIs ==
  ASSUME NEW f \in XState, NEW t
  PROVE  pop_typed(f, t) = PopTypedAll(f, <<t>>)
<1> DEFINE s == f.stack
<1>1. s \in Seq(ValueTypes) /\ Len(s) \in Nat
  BY DEF XState
<1>2. Mismatch(s, <<t>>, 1) <=> Len(s) > 0 /\ s[Len(s)] # t
  BY <1>1 DEF Mismatch
<1>3. Len(s) > 0 => Last(s) = s[Len(s)] /\ Front(s) = Drop(s, 1)
  BY DEF Last, Front, Drop
<1>4. s = <<>> <=> ~(Len(s) > 0)
  BY <1>1
<1> QED  BY <1>1, <1>2, <1>3, <1>4 DEF pop_typed, PopTypedAll

LEMMA PushedIs ==
  ASSUME NEW f \in XState, f.outcome \in {OK} \cup OperandErrors, NEW ts \in Seq(ValueTypes)
  PROVE  LET r == PushValues(f, ts)
         IN Works(f, r) /\ r.outcome = f.outcome /\ (f.outcome = OK => r.stack = f.stack \o ts)
<1>1. CASE f.outcome # OK
  BY <1>1 DEF PushValues, Works
<1>2. CASE f.outcome = OK
  <2>1. PushValues(f, ts) = [f EXCEPT !.stack = f.stack \o ts] /\ f.stack \in Seq(ValueTypes)
    BY <1>2 DEF PushValues, XState
  <2>2. f.stack \o ts \in Seq(ValueTypes)
    BY <2>1
  <2> QED  BY <1>2, <2>1, <2>2, StackWorks
<1> QED  BY <1>1, <1>2

LEMMA WithoutPush ==
  ASSUME NEW s \in Seq(ValueTypes), NEW t \in Seq(ValueTypes), NEW b \in Seq(ValueTypes),
         NEW T, NEW ts \in Seq(T), NEW us \in Seq(ValueTypes), Swap(s, b, ts, us), Without(s, t, ts)
  PROVE  t \o us = b
<1> DEFINE r == t \o us
<1>1. /\ r \in Seq(ValueTypes) /\ Len(r) = Len(t) + Len(us)
      /\ \A i \in 1..Len(t) : r[i] = t[i]
      /\ \A i \in 1..Len(us) : r[Len(t) + i] = us[i]
  BY ConcatIs
<1> HIDE DEF r
<1>2. /\ Len(t) = Len(s) - Len(ts) /\ Len(b) = Len(t) + Len(us)
      /\ \A i \in 1..Len(t) : b[i] = s[i] /\ t[i] = s[i]
      /\ \A i \in 1..Len(us) : b[Len(t) + i] = us[i]
  BY DEF Without, Below, Swap, Topped
<1>3. ASSUME NEW i \in 1..Len(r) PROVE r[i] = b[i]
  <2>1. CASE i <= Len(t)
    BY <1>1, <1>2, <2>1
  <2>2. CASE i > Len(t)
    <3>1. i - Len(t) \in 1..Len(us) /\ i = Len(t) + (i - Len(t))
      BY <1>1, <2>2
    <3> QED  BY <1>1, <1>2, <3>1
  <2> QED  BY <1>1, <2>1, <2>2
<1>4. r = b
  BY <1>1, <1>2, <1>3, SameSequence
<1> QED  BY <1>4 DEF r

\* An exchange of operands: pops and pushes in one.
LEMMA ExchangeIs ==
  ASSUME NEW f \in XState, f.outcome \in {OK} \cup OperandErrors,
         NEW T, NEW ts \in Seq(T), NEW us \in Seq(ValueTypes)
  PROVE  LET r == PushValues(PopTypedAll(f, ts), us)
         IN /\ Works(f, r)
            /\ \A b \in Seq(ValueTypes) :
                 f.outcome = OK /\ Swap(f.stack, b, ts, us) => r.outcome = OK /\ r.stack = b
<1> DEFINE g == PopTypedAll(f, ts)
           r == PushValues(g, us)
<1>1. /\ Works(f, g)
      /\ f.outcome = OK /\ Takes(f.stack, ts) => g.outcome = OK /\ Without(f.stack, g.stack, ts)
  BY TypedPop
<1>2. g \in XState /\ g.outcome \in {OK} \cup OperandErrors /\ f.stack \in Seq(ValueTypes)
      /\ g.stack \in Seq(ValueTypes)
  BY <1>1 DEF Works, XState
<1> HIDE DEF g
<1>3. Works(g, r) /\ r.outcome = g.outcome /\ (g.outcome = OK => r.stack = g.stack \o us)
  BY <1>2, PushedIs
<1> HIDE DEF r
<1>4. ASSUME NEW b \in Seq(ValueTypes), f.outcome = OK, Swap(f.stack, b, ts, us)
      PROVE  r.outcome = OK /\ r.stack = b
  <2>1. Takes(f.stack, ts)
    BY <1>4 DEF Swap
  <2> QED  BY <1>1, <1>2, <1>3, <1>4, <2>1, WithoutPush
<1>5. Works(f, r)
  BY <1>1, <1>3, WorksTrans
<1> QED  BY <1>4, <1>5 DEF g, r

-----------------------------------------------------------------------------
(* The interpreter at an instruction.                                      *)

Midway == Complete /\ SInv /\ TInv /\ XInv /\ AInv /\ phase = "run" /\ x.pc <= Len(code)

\* What the validator knew where the interpreter stands, and behind the instruction.
Behind == After(code, x.pc)
Controls == At(seen, x.pc)
ControlsBehind == At(seen, Behind)
Operands == Ops(seen, x.pc)
OperandsBehind == Ops(seen, Behind)
Fetched == [x EXCEPT !.pc = Behind]
Depth == Len(Controls)

Standing ==
  /\ x.pc \in DOMAIN seen /\ x.pc \in Nat /\ Len(code) \in Nat
  /\ code[x.pc].k = "op" /\ ReadableAt(code, seen, x.pc)
  /\ x \in XState /\ x.outcome = OK /\ Placed(x)
  /\ Depth \in Nat /\ Depth > 0 /\ Len(x.controls) = Depth
  /\ Controls \in Seq(Frame) /\ ControlsBehind \in Seq(Frame)
  /\ Behind \in DOMAIN seen /\ Behind \in Nat
  /\ Moves(code, x.pc, x.pc, Controls, ControlsBehind) /\ Names(code, x.pc, Depth)
  /\ Operands \in Seq(ValueTypes) /\ OperandsBehind \in Seq(ValueTypes)

Matching ==
  /\ Stacks(code, seen) /\ Agreed(x) /\ x.stack = Operands
  /\ \A i \in 1..Depth : ~Controls[i].unreachable /\ x.controls[i].height = Controls[i].height
  /\ Flows(code, x.pc, Controls, Operands, OperandsBehind)
  /\ Typed(code, x.pc, Controls, ControlsBehind, Operands, OperandsBehind)
  /\ Rests(Controls, ControlsBehind, Operands, OperandsBehind)
  /\ Controls[Depth].height <= Len(Operands)
  /\ \A i \in 1..Depth : Controls[i].height <= Controls[Depth].height

LEMMA StandingIs == ASSUME Midway PROVE Standing
<1>1. /\ VInv /\ x \in XState /\ x.outcome = OK /\ Placed(x) /\ phase = "run" /\ x.pc <= Len(code)
      /\ x.pc \in DOMAIN seen /\ Len(x.controls) = Len(At(seen, x.pc))
  BY DEF Midway, Complete, XInv, Placed
<1>2. /\ x.pc \in Nat /\ Len(code) \in Nat /\ ReadableAt(code, seen, x.pc)
      /\ FramesAt(code, seen, x.pc) /\ MovesAt(code, seen, x.pc) /\ NamesAt(code, seen, x.pc)
      /\ At(seen, x.pc) \in Seq(Frame) /\ Len(At(seen, x.pc)) \in Nat \ {0}
      /\ After(code, x.pc) \in DOMAIN seen /\ After(code, x.pc) \in Nat
      /\ FramesAt(code, seen, After(code, x.pc)) /\ At(seen, After(code, x.pc)) \in Seq(Frame)
      /\ code[x.pc].k = "op"
  BY <1>1, BoundaryIs
<1>3. Operands \in Seq(ValueTypes) /\ OperandsBehind \in Seq(ValueTypes)
  BY <1>2 DEF FramesAt, Operands, OperandsBehind, Behind
<1>4. Moves(code, x.pc, x.pc, Controls, ControlsBehind) /\ Names(code, x.pc, Depth)
  BY <1>2 DEF MovesAt, NamesAt, Controls, ControlsBehind, Behind, Depth
<1> QED  BY <1>1, <1>2, <1>3, <1>4 DEF Standing, Controls, ControlsBehind, Behind, Depth

LEMMA MatchingIs == ASSUME Midway, ~v.dipped PROVE Matching
<1>1. Standing /\ Stacks(code, seen) /\ Agreed(x) /\ x.pc <= Len(code)
  BY StandingIs DEF Midway, TInv, AInv
<1>2. /\ x.stack = Operands
      /\ \A i \in 1..Depth : ~Controls[i].unreachable /\ x.controls[i].height = Controls[i].height
  <2>1. x.pc \in Nat /\ Len(code) \in Nat /\ Len(x.controls) = Depth
    BY <1>1 DEF Standing
  <2>2. ~(x.pc > Len(code))
    BY <1>1, <2>1
  <2> QED  BY <1>1, <2>1, <2>2 DEF Agreed, Operands, Controls
<1>3. StacksAt(seen, x.pc) /\ TypedAt(code, seen, x.pc)
  BY <1>1 DEF Stacks, Standing
<1>4. /\ Typed(code, x.pc, Controls, ControlsBehind, Operands, OperandsBehind)
      /\ Rests(Controls, ControlsBehind, Operands, OperandsBehind)
  BY <1>3 DEF TypedAt, Controls, ControlsBehind, Operands, OperandsBehind, Behind
<1>5. Depth \in 1..Depth /\ Depth = Len(Controls)
  BY <1>1 DEF Standing, Depth
<1>6. Flows(code, x.pc, Controls, Operands, OperandsBehind)
  BY <1>2, <1>4, <1>5 DEF Typed
<1>7. /\ Controls[Depth].height <= Len(Operands)
      /\ \A i \in 1..Depth : Controls[i].height <= Controls[Depth].height
  BY <1>3, <1>5 DEF StacksAt, Controls, Operands
<1> QED  BY <1>1, <1>2, <1>4, <1>6, <1>7 DEF Matching

\* What the interpreter makes of the instruction: it keeps its place, and its operands
\* where none came from below a frame.
Onward(f) ==
  /\ f \in XState /\ f.outcome \in Outcomes
  /\ f.outcome = OK => Placed(f)
  /\ ~v.dipped => f.outcome \notin OperandErrors /\ (f.outcome = OK => Agreed(f))

LEMMA ContinueKeeps ==
  ASSUME VInv, SInv, TInv, XInv, AInv, phase = "run", NEW f, Onward(f), Continue(f)
  PROVE  XInv' /\ AInv'
<1>1. /\ x' = IF f.outcome = OK THEN f
              ELSE [pc |-> 0, stack |-> <<>>, controls |-> <<>>, outcome |-> f.outcome]
      /\ phase' = IF f.outcome = OK THEN "run" ELSE "done"
      /\ UNCHANGED <<code, v, seen, paired>>
  BY DEF Continue
<1>2. CASE f.outcome = OK
  <2>1. x' = f /\ phase' = "run"
    BY <1>1, <1>2
  <2>2. Placed(x)'
    BY <1>1, <1>2, <2>1 DEF Onward, Placed, PlacedFrame
  <2>3. XInv'
    BY <1>1, <1>2, <2>1, <2>2 DEF Onward, XInv
  <2>4. ~v.dipped => Agreed(x)'
    BY <1>1, <1>2, <2>1 DEF Onward, Agreed
  <2> QED  BY <1>1, <1>2, <2>1, <2>3, <2>4 DEF AInv, OK, OperandErrors
<1>3. CASE f.outcome # OK
  <2>1. /\ x' = [pc |-> 0, stack |-> <<>>, controls |-> <<>>, outcome |-> f.outcome]
        /\ phase' = "done" /\ f.outcome \in Outcomes
    BY <1>1, <1>3 DEF Onward
  <2>2. <<>> \in Seq(ValueTypes) /\ <<>> \in Seq(XFrame)
    OBVIOUS
  <2>3. x' \in XState /\ x'.outcome = f.outcome /\ x'.pc = 0
    BY <2>1, <2>2 DEF XState
  <2>4. XInv'
    BY <1>3, <2>1, <2>3 DEF XInv, OK
  <2> QED  BY <1>1, <1>3, <2>1, <2>3, <2>4 DEF AInv, Onward
<1> QED  BY <1>2, <1>3

LEMMA FetchedIs ==
  ASSUME Midway
  PROVE  /\ Fetched \in XState /\ Fetched.pc = Behind /\ Fetched.stack = x.stack
         /\ Fetched.controls = x.controls /\ Fetched.outcome = OK /\ x.stack \in Seq(ValueTypes)
         /\ x.controls \in Seq(XFrame)
<1>1. x \in XState /\ x.outcome = OK /\ Behind \in Nat
  BY StandingIs DEF Standing
<1> QED  BY <1>1 DEF Fetched, XState

\* It reads the immediates the validator read.
LEMMA FetchIs ==
  ASSUME Midway, NEW imm, SameCode(imm, ImmAt(code, x.pc))
  PROVE  Fetch(x.pc, imm) = Fetched
<1>1. /\ Decodes(code, x.pc, ImmAt(code, x.pc)) /\ WidthAt(code, x.pc) \in Nat /\ x.outcome = OK
      /\ Width(code, x.pc, ImmAt(code, x.pc)) = WidthAt(code, x.pc)
  BY StandingIs DEF Standing, ReadableAt, WidthAt
<1>2. Decodes(code, x.pc, imm) /\ Width(code, x.pc, imm) = WidthAt(code, x.pc)
  BY <1>1, SameCodeReads
<1>3. x.pc + 1 + Width(code, x.pc, imm) = Behind
  BY <1>2 DEF Behind, After
<1> QED  BY <1>1, <1>2, <1>3 DEF Fetch, Goto, Fetched

LEMMA SameCodeSelf == ASSUME NEW a PROVE SameCode(a, a)
  BY DEF SameCode

LEMMA FetchControlIs ==
  ASSUME Midway, Opcode(code, x.pc) \in ControlOps
  PROVE  FetchControl(x.pc) = Fetched
<1>1. ImmAt(code, x.pc) = ControlImm(Opcode(code, x.pc))
  BY DEF ImmAt, ValidatorImm
<1> QED  BY <1>1, FetchIs, SameCodeSelf DEF FetchControl

\* An immediate of the instruction is a value its encoding can carry.
LEMMA ImmediateIs ==
  ASSUME Midway, NEW i \in 1..WidthAt(code, x.pc)
  PROVE  /\ Carried(code[x.pc + i])
         /\ ImmAt(code, x.pc) # <<"depths">> => code[x.pc + i].k = Encoding(ImmAt(code, x.pc)[i])
         /\ ImmAt(code, x.pc) = <<"depths">> => code[x.pc + i].k = "u32"
<1>1. ReadableAt(code, seen, x.pc)
  BY StandingIs DEF Standing
<1>2. Decodes(code, x.pc, ImmAt(code, x.pc)) /\ WidthAt(code, x.pc) \in Nat
      /\ \A j \in 0..WidthAt(code, x.pc) : Carried(code[x.pc + j])
  BY <1>1 DEF ReadableAt
<1>3. i \in 0..WidthAt(code, x.pc)
  BY <1>2
<1>4. \A j \in 1..WidthAt(code, x.pc) :
        code[x.pc + j].k = IF ImmAt(code, x.pc) = <<"depths">> THEN "u32" ELSE Encoding(ImmAt(code, x.pc)[j])
  BY <1>2 DEF Decodes, WidthAt
<1> QED  BY <1>2, <1>3, <1>4

LEMMA PlacedSame ==
  ASSUME NEW f, NEW g, NEW h, NEW i, PlacedFrame(f, g, i), h.kind = g.kind, h.params = g.params,
         h.ends = g.ends, h.opener = g.opener
  PROVE  PlacedFrame(f, h, i)
  BY DEF PlacedFrame

\* Instructions the interpreter walks over.
LEMMA StayOn ==
  ASSUME Midway, Opcode(code, x.pc) \notin Openers \cup {\h05, \h0B} \cup Leaving,
         NEW f, Works(Fetched, f), ~v.dipped => f.outcome = OK /\ f.stack = OperandsBehind
  PROVE  Onward(f)
<1>1. /\ Depth \in Nat /\ Depth > 0 /\ Len(x.controls) = Depth /\ Placed(x)
      /\ Moves(code, x.pc, x.pc, Controls, ControlsBehind) /\ Behind \in DOMAIN seen
      /\ Depth = Len(Controls)
  BY StandingIs DEF Standing, Depth
<1>2. /\ f \in XState /\ f.pc = Behind /\ f.controls = x.controls
      /\ f.outcome \in {OK} \cup OperandErrors
  BY FetchedIs DEF Works
<1>3. StayMove(Opcode(code, x.pc), Controls, ControlsBehind)
  BY <1>1 DEF Moves
<1>4. Len(ControlsBehind) = Depth /\ \A i \in 1..Depth : ControlsBehind[i] = Controls[i]
  <2>1. /\ Len(ControlsBehind) = Depth /\ \A i \in 1..(Depth - 1) : ControlsBehind[i] = Controls[i]
        /\ ControlsBehind[Depth] = Controls[Depth]
    BY <1>1, <1>3 DEF StayMove
  <2> QED  BY <1>1, <2>1
<1>5. Placed(f)
  <2>1. \A i \in 1..Depth : PlacedFrame(x.controls[i], Controls[i], i)
    BY <1>1 DEF Placed, Controls
  <2> QED  BY <1>1, <1>2, <1>4, <2>1 DEF Placed, ControlsBehind
<1>6. Behind <= Len(code)
  <2>1. Len(At(seen, Behind)) > 0
    BY <1>1, <1>4 DEF ControlsBehind
  <2> QED  BY <1>1, <2>1, InsideIs DEF Midway
<1>7. ~v.dipped => Agreed(f)
  <2> SUFFICES ASSUME ~v.dipped PROVE Agreed(f)
    OBVIOUS
  <2>1. \A i \in 1..Depth : ~Controls[i].unreachable /\ x.controls[i].height = Controls[i].height
    BY MatchingIs DEF Matching
  <2>2. f.stack = Ops(seen, Behind) /\ ~(Behind > Len(code))
    BY <1>6, StandingIs DEF OperandsBehind, Standing
  <2> QED  BY <1>1, <1>2, <1>4, <2>1, <2>2 DEF Agreed, ControlsBehind
<1>8. f.outcome \in Outcomes /\ (~v.dipped => f.outcome \notin OperandErrors)
  BY <1>2 DEF Outcomes, OK, OperandErrors
<1> QED  BY <1>2, <1>5, <1>7, <1>8 DEF Onward

\* Instructions that end the frame.
LEMMA StopsOn ==
  ASSUME NEW f \in XState, f.outcome \in Outcomes, f.outcome # OK, ~v.dipped => f.outcome \notin OperandErrors
  PROVE  Onward(f)
  BY DEF Onward

LEMMA EndsWith ==
  ASSUME NEW f \in XState, NEW e \in {"return", "tailcall", "trap", "OutOfFuel"}
  PROVE  Onward(Stuck(f, e))
<1>1. e \in Outcomes /\ e # OK /\ e \notin OperandErrors
  BY DEF Outcomes, OK, OperandErrors
<1> QED  BY <1>1, StuckIs, StopsOn

\* An instruction of pops and pushes.
LEMMA ExchangeOn ==
  ASSUME Midway, Opcode(code, x.pc) \notin Openers \cup {\h05, \h0B} \cup Leaving,
         NEW T, NEW ts \in Seq(T), NEW us \in Seq(ValueTypes),
         ~v.dipped => Swap(Operands, OperandsBehind, ts, us)
  PROVE  Onward(PushValues(PopTypedAll(Fetched, ts), us))
<1>1. /\ Fetched \in XState /\ Fetched.outcome = OK /\ Fetched.stack = x.stack
      /\ OperandsBehind \in Seq(ValueTypes)
  BY FetchedIs, StandingIs DEF Standing
<1> DEFINE r == PushValues(PopTypedAll(Fetched, ts), us)
<1>2. /\ Works(Fetched, r)
      /\ Swap(Fetched.stack, OperandsBehind, ts, us) => r.outcome = OK /\ r.stack = OperandsBehind
  BY <1>1, ExchangeIs
<1> HIDE DEF r
<1>3. ~v.dipped => r.outcome = OK /\ r.stack = OperandsBehind
  BY <1>1, <1>2, MatchingIs DEF Matching
<1>4. Onward(r)
  BY <1>2, <1>3, StayOn
<1> QED  BY <1>4 DEF r

-----------------------------------------------------------------------------
(* Instructions without control flow.                                      *)

\* The step hands over a frame that goes on as it should.
Advances == \E f : Onward(f) /\ Continue(f)

LEMMA WithoutIs ==
  ASSUME NEW s \in Seq(ValueTypes), NEW t \in Seq(ValueTypes), NEW b \in Seq(ValueTypes),
         NEW T, NEW ts \in Seq(T), Swap(s, b, ts, <<>>), Without(s, t, ts)
  PROVE  t = b
<1>1. /\ Len(t) = Len(s) - Len(ts) /\ Len(b) = Len(t)
      /\ \A i \in 1..Len(t) : b[i] = s[i] /\ t[i] = s[i]
  BY DEF Without, Below, Swap, Topped
<1>2. \A i \in 1..Len(t) : t[i] = b[i]
  BY <1>1
<1> QED  BY <1>1, <1>2, SameSequence

LEMMA FetchedOn ==
  ASSUME Midway, ~v.dipped => Swap(Operands, OperandsBehind, <<>>, <<>>)
  PROVE  /\ Works(Fetched, Fetched) /\ Fetched.outcome = OK
         /\ ~v.dipped => Fetched.stack = OperandsBehind
<1>1. Fetched \in XState /\ Fetched.outcome = OK /\ Fetched.stack = x.stack
  BY FetchedIs
<1>2. ASSUME ~v.dipped PROVE Fetched.stack = OperandsBehind
  <2>1. /\ x.stack = Operands /\ Swap(Operands, OperandsBehind, <<>>, <<>>)
        /\ Operands \in Seq(ValueTypes) /\ OperandsBehind \in Seq(ValueTypes)
    BY <1>2, MatchingIs, StandingIs DEF Matching, Standing
  <2>2. Without(Operands, Operands, <<>>) /\ <<>> \in Seq({})
    BY <2>1 DEF Without, Below
  <2>3. Operands = OperandsBehind
    BY <2>1, <2>2, WithoutIs
  <2> QED  BY <1>1, <2>1, <2>3
<1> QED  BY <1>1, <1>2 DEF Works

LEMMA PoppedOn ==
  ASSUME Midway, NEW t, ~v.dipped => Swap(Operands, OperandsBehind, <<t>>, <<>>)
  PROVE  LET r == pop_typed(Fetched, t)
         IN Works(Fetched, r) /\ (~v.dipped => r.outcome = OK /\ r.stack = OperandsBehind)
<1> DEFINE r == PopTypedAll(Fetched, <<t>>)
<1>1. /\ Fetched \in XState /\ Fetched.outcome = OK /\ Fetched.stack = x.stack
      /\ OperandsBehind \in Seq(ValueTypes) /\ Operands \in Seq(ValueTypes)
  BY FetchedIs, StandingIs DEF Standing
<1>2. <<t>> \in Seq({t})
  OBVIOUS
<1>3. /\ Works(Fetched, r)
      /\ Takes(Fetched.stack, <<t>>) => r.outcome = OK /\ Without(Fetched.stack, r.stack, <<t>>)
  BY <1>1, <1>2, TypedPop
<1>4. pop_typed(Fetched, t) = r
  BY <1>1, PopTypedIs
<1> HIDE DEF r
<1>5. ASSUME ~v.dipped PROVE r.outcome = OK /\ r.stack = OperandsBehind
  <2>1. Fetched.stack = Operands /\ Swap(Operands, OperandsBehind, <<t>>, <<>>)
    BY <1>1, <1>5, MatchingIs DEF Matching
  <2>2. r.outcome = OK /\ Without(Operands, r.stack, <<t>>) /\ r.stack \in Seq(ValueTypes)
    BY <1>3, <2>1 DEF Swap, Works, XState
  <2> QED  BY <1>1, <1>2, <2>1, <2>2, WithoutIs
<1> QED  BY <1>3, <1>4, <1>5

LEMMA PopOn ==
  ASSUME Midway, Opcode(code, x.pc) \notin Openers \cup {\h05, \h0B} \cup Leaving,
         NEW t, ~v.dipped => Swap(Operands, OperandsBehind, <<t>>, <<>>)
  PROVE  Onward(pop_typed(Fetched, t))
<1> DEFINE r == pop_typed(Fetched, t)
<1>1. Works(Fetched, r) /\ (~v.dipped => r.outcome = OK /\ r.stack = OperandsBehind)
  BY PoppedOn
<1> HIDE DEF r
<1>2. Onward(r)
  BY <1>1, StayOn
<1> QED  BY <1>2 DEF r

LEMMA TrapOn ==
  ASSUME NEW f \in XState, f.outcome \in {OK} \cup OperandErrors, ~v.dipped => f.outcome = OK
  PROVE  Onward(Trap(f))
<1>1. CASE f.outcome = OK
  BY <1>1, EndsWith DEF Trap
<1>2. CASE f.outcome # OK
  BY <1>2, StopsOn DEF Trap, Outcomes
<1> QED  BY <1>1, <1>2

LEMMA UnreachableOn == ASSUME Midway, RunUnreachable PROVE Advances
<1>1. Onward(Trap(x))
  BY TrapOn, StandingIs DEF Standing
<1> QED  BY <1>1 DEF RunUnreachable, Advances

LEMMA FuelOn == ASSUME Midway, OutOfFuel PROVE Advances
<1>1. Onward(Stuck(x, "OutOfFuel"))
  BY EndsWith, StandingIs DEF Standing
<1> QED  BY <1>1 DEF OutOfFuel, Advances

LEMMA NopOn == ASSUME Midway, RunNop PROVE Advances
<1>1. Opcode(code, x.pc) = \h01 /\ Continue(FetchControl(x.pc))
  BY DEF RunNop, Running
<1>2. /\ Opcode(code, x.pc) \in ControlOps
      /\ Opcode(code, x.pc) \notin Openers \cup {\h05, \h0B} \cup Leaving
  BY <1>1 DEF ControlOps, Openers, Leaving
<1>3. FetchControl(x.pc) = Fetched
  BY <1>2, FetchControlIs
<1>4. ~v.dipped => Swap(Operands, OperandsBehind, <<>>, <<>>)
  BY <1>1, MatchingIs DEF Matching, Flows
<1>5. Onward(Fetched)
  BY <1>2, <1>4, FetchedOn, StayOn
<1> QED  BY <1>1, <1>3, <1>5 DEF Advances

LEMMA DropOn == ASSUME Midway, RunDrop PROVE Advances
<1> DEFINE s == x.stack
           r == IF s = <<>> THEN Stuck(Fetched, "StackUnderflow") ELSE [Fetched EXCEPT !.stack = Front(s)]
<1>1. Opcode(code, x.pc) = \h1A
  BY DEF RunDrop, Running
<1>2. /\ Opcode(code, x.pc) \in ControlOps
      /\ Opcode(code, x.pc) \notin Openers \cup {\h05, \h0B} \cup Leaving
  BY <1>1 DEF ControlOps, Openers, Leaving
<1>3. FetchControl(x.pc) = Fetched
  BY <1>2, FetchControlIs
<1>4. Fetched \in XState /\ Fetched.outcome = OK /\ Fetched.stack = s /\ s \in Seq(ValueTypes)
  BY FetchedIs
<1>5. Continue(r)
  BY <1>3, <1>4 DEF RunDrop
<1>6. Works(Fetched, r) /\ (Len(s) > 0 => r.outcome = OK /\ r.stack = Front(s))
  <2>1. CASE s = <<>>
    <3>1. r = Stuck(Fetched, "StackUnderflow")
      BY <2>1
    <3> QED  BY <1>4, <2>1, <3>1, StuckWorks DEF OperandErrors
  <2>2. CASE s # <<>>
    <3>1. Front(s) \in Seq(ValueTypes)
      BY <1>4, <2>2, FrontIs
    <3> QED  BY <1>4, <2>2, <3>1, StackWorks
  <2> QED  BY <2>1, <2>2
<1>7. ASSUME ~v.dipped PROVE Len(s) > 0 /\ Front(s) = OperandsBehind
  <2>1. /\ s = Operands /\ Swap(Operands, OperandsBehind, <<Operands[Len(Operands)]>>, <<>>)
        /\ Operands \in Seq(ValueTypes) /\ OperandsBehind \in Seq(ValueTypes)
    BY <1>1, <1>7, MatchingIs, StandingIs DEF Matching, Flows, Standing
  <2> DEFINE t == Operands[Len(Operands)]
  <2> HIDE DEF t, s
  <2>2. Len(s) > 0
    BY <2>1 DEF Swap, Takes, t
  <2>3. Without(s, Front(s), <<t>>) /\ Front(s) \in Seq(ValueTypes) /\ <<t>> \in Seq({t})
    BY <2>1, <2>2, FrontIs DEF Without, Below
  <2>4. Swap(s, OperandsBehind, <<t>>, <<>>)
    BY <2>1 DEF t
  <2> QED  BY <2>1, <2>2, <2>3, <2>4, WithoutIs
<1> HIDE DEF r, s
<1>8. Onward(r)
  BY <1>2, <1>6, <1>7, StayOn
<1> QED  BY <1>5, <1>8 DEF Advances

LEMMA SelectOn == ASSUME Midway, RunSelect PROVE Advances
<1> DEFINE f == pop_typed(Fetched, "i32")
           s == pop_typed(Fetched, "i32").stack
           n == Len(pop_typed(Fetched, "i32").stack)
           r == IF f.outcome # OK THEN f
                ELSE IF n < 2 THEN Stuck(f, "StackUnderflow")
                ELSE IF s[n] # s[n - 1] THEN Stuck(f, "ValueTypeMismatch")
                ELSE [f EXCEPT !.stack = Front(s)]
           a == Operands
           b == OperandsBehind
<1>1. Opcode(code, x.pc) = \h1B
  BY DEF RunSelect, Running
<1>2. /\ Opcode(code, x.pc) \in ControlOps
      /\ Opcode(code, x.pc) \notin Openers \cup {\h05, \h0B} \cup Leaving
  BY <1>1 DEF ControlOps, Openers, Leaving
<1>3. Continue(r)
  BY <1>2, FetchControlIs DEF RunSelect
<1>4. /\ Fetched \in XState /\ Fetched.outcome = OK /\ Fetched.stack = x.stack
      /\ a \in Seq(ValueTypes) /\ b \in Seq(ValueTypes)
  BY FetchedIs, StandingIs DEF Standing
<1>5. Works(Fetched, f) /\ (Takes(x.stack, <<"i32">>) => f.outcome = OK /\ Without(x.stack, s, <<"i32">>))
  <2>1. <<"i32">> \in Seq({"i32"})
    OBVIOUS
  <2> QED  BY <1>4, <2>1, TypedPop, PopTypedIs
<1>6. f \in XState /\ s \in Seq(ValueTypes) /\ n \in Nat /\ n = Len(s) /\ f.outcome \in {OK} \cup OperandErrors
  BY <1>5 DEF Works, XState
<1>7. ASSUME ~v.dipped
      PROVE  /\ f.outcome = OK /\ n >= 2 /\ s[n] = s[n - 1] /\ Front(s) = b
  <2> DEFINE t == a[Len(a) - 1]
  <2>1. x.stack = a /\ Swap(a, b, <<"i32", t, t>>, <<t>>)
    BY <1>1, <1>7, MatchingIs DEF Matching, Flows
  <2> HIDE DEF t, a, b
  <2>2. /\ Len(a) >= 3 /\ a[Len(a)] = "i32" /\ a[Len(a) - 1] = t /\ a[Len(a) - 2] = t
        /\ Len(b) = Len(a) - 2 /\ b[Len(a) - 2] = t
        /\ \A i \in 1..(Len(a) - 3) : b[i] = a[i]
    <3> DEFINE ts == <<"i32", t, t>>
               us == <<t>>
    <3>1. Len(ts) = 3 /\ ts[1] = "i32" /\ ts[2] = t /\ ts[3] = t /\ Len(us) = 1 /\ us[1] = t
      OBVIOUS
    <3> HIDE DEF ts, us
    <3>2. Takes(a, ts) /\ Topped(b, Len(a) - 3, us) /\ \A i \in 1..(Len(a) - 3) : b[i] = a[i]
      BY <2>1, <3>1 DEF Swap, ts, us
    <3>3. Len(a) >= 3 /\ a[Len(a) - 1 + 1] = "i32" /\ a[Len(a) - 2 + 1] = t /\ a[Len(a) - 3 + 1] = t
      BY <1>4, <3>1, <3>2 DEF Takes
    <3>4. Len(b) = Len(a) - 3 + 1 /\ b[Len(a) - 3 + 1] = t
      BY <3>1, <3>2 DEF Topped
    <3> QED  BY <1>4, <3>2, <3>3, <3>4
  <2>3. Takes(x.stack, <<"i32">>)
    BY <1>4, <2>1, <2>2 DEF Takes
  <2> HIDE DEF f, s, n
  <2>4. f.outcome = OK /\ n = Len(a) - 1 /\ \A i \in 1..n : s[i] = a[i]
    BY <1>4, <1>5, <1>6, <2>1, <2>2, <2>3 DEF Without, Below
  <2>5. n >= 2 /\ s[n] = s[n - 1]
    BY <1>4, <2>2, <2>4
  <2>6. Len(Front(s)) = Len(b) /\ \A i \in 1..Len(b) : Front(s)[i] = b[i]
    <3>1. /\ Front(s) \in Seq(ValueTypes) /\ Len(Front(s)) = n - 1
          /\ \A i \in 1..(n - 1) : Front(s)[i] = s[i]
      BY <1>6, <2>5, FrontIs
    <3>2. ASSUME NEW i \in 1..Len(b) PROVE Front(s)[i] = b[i]
      <4>1. Front(s)[i] = a[i]
        BY <1>4, <2>2, <2>4, <3>1
      <4>2. i = Len(a) - 2 \/ i \in 1..(Len(a) - 3)
        BY <1>4, <2>2
      <4>3. CASE i = Len(a) - 2
        BY <2>2, <4>1, <4>3
      <4>4. CASE i \in 1..(Len(a) - 3)
        BY <2>2, <4>1, <4>4
      <4> QED  BY <4>2, <4>3, <4>4
    <3> QED  BY <1>4, <2>2, <2>4, <3>1, <3>2
  <2>7. Front(s) = b
    BY <1>4, <1>6, <2>5, <2>6, FrontIs, SameSequence
  <2> QED  BY <2>4, <2>5, <2>7
<1>8. Works(Fetched, r) /\ (f.outcome = OK /\ n >= 2 /\ s[n] = s[n - 1] => r.outcome = OK /\ r.stack = Front(s))
  <2> HIDE DEF f, s, n
  <2>1. CASE f.outcome # OK
    BY <1>5, <2>1
  <2>2. CASE f.outcome = OK /\ (n < 2 \/ s[n] # s[n - 1])
    <3>1. r = Stuck(f, "StackUnderflow") \/ r = Stuck(f, "ValueTypeMismatch")
      BY <2>2
    <3>2. Works(f, r)
      BY <1>6, <2>2, <3>1, StuckWorks DEF OperandErrors
    <3> QED  BY <1>5, <1>6, <2>2, <3>2, WorksTrans
  <2>3. CASE f.outcome = OK /\ ~(n < 2) /\ s[n] = s[n - 1]
    <3>1. Front(s) \in Seq(ValueTypes)
      BY <1>6, <2>3, FrontIs
    <3>2. r = [f EXCEPT !.stack = Front(s)]
      BY <2>3
    <3>3. Works(f, r) /\ r.outcome = OK /\ r.stack = Front(s)
      BY <1>6, <2>3, <3>1, <3>2, StackWorks
    <3> QED  BY <1>5, <3>3, WorksTrans
  <2> QED  BY <2>1, <2>2, <2>3
<1> HIDE DEF r, f, s, n
<1>9. Onward(r)
  BY <1>2, <1>7, <1>8, StayOn
<1> QED  BY <1>3, <1>9 DEF Advances

LEMMA TypedSelectOn == ASSUME Midway, RunTypedSelect PROVE Advances
<1> DEFINE t == Arg(code, x.pc, 1)
<1>1. Opcode(code, x.pc) = \h1C
  BY DEF RunTypedSelect, Running
<1>2. /\ Opcode(code, x.pc) \in ControlOps
      /\ Opcode(code, x.pc) \notin Openers \cup {\h05, \h0B} \cup Leaving
  BY <1>1 DEF ControlOps, Openers, Leaving
<1>3. t \in ValueTypes
  <2>1. ImmAt(code, x.pc) = <<"seltype">> /\ 1 \in 1..WidthAt(code, x.pc)
    BY <1>1, <1>2, ControlImmediates, ControlWidths DEF ImmAt, ValidatorImm
  <2>2. Carried(code[x.pc + 1]) /\ code[x.pc + 1].k = "seltype"
    BY <2>1, ImmediateIs DEF Encoding
  <2> QED  BY <2>2 DEF Carried, Arg
<1>4. Continue(PushValues(PopTypedAll(Fetched, <<"i32", t, t>>), <<t>>))
  BY <1>2, FetchControlIs DEF RunTypedSelect
<1>5. ~v.dipped => Swap(Operands, OperandsBehind, <<"i32", t, t>>, <<t>>)
  BY <1>1, MatchingIs DEF Matching, Flows
<1> HIDE DEF t
<1>6. <<"i32", t, t>> \in Seq({"i32", t}) /\ <<t>> \in Seq(ValueTypes)
  BY <1>3
<1>7. Onward(PushValues(PopTypedAll(Fetched, <<"i32", t, t>>), <<t>>))
  BY <1>2, <1>5, <1>6, ExchangeOn
<1> QED  BY <1>4, <1>7 DEF Advances

\* An instruction that only pushes.
LEMMA PushOn ==
  ASSUME Midway, Opcode(code, x.pc) \notin Openers \cup {\h05, \h0B} \cup Leaving,
         NEW us \in Seq(ValueTypes), ~v.dipped => Swap(Operands, OperandsBehind, <<>>, us)
  PROVE  Onward(PushValues(Fetched, us))
<1> DEFINE r == PushValues(Fetched, us)
<1>1. /\ Fetched \in XState /\ Fetched.outcome = OK /\ Fetched.stack = x.stack
      /\ OperandsBehind \in Seq(ValueTypes) /\ Operands \in Seq(ValueTypes)
  BY FetchedIs, StandingIs DEF Standing
<1>2. Works(Fetched, r) /\ r.outcome = OK /\ r.stack = x.stack \o us
  BY <1>1, PushedIs
<1> HIDE DEF r
<1>3. ASSUME ~v.dipped PROVE r.stack = OperandsBehind
  <2>1. x.stack = Operands /\ Swap(Operands, OperandsBehind, <<>>, us)
    BY <1>3, MatchingIs DEF Matching
  <2>2. Without(Operands, Operands, <<>>) /\ <<>> \in Seq({})
    BY <1>1 DEF Without, Below
  <2>3. Operands \o us = OperandsBehind
    BY <1>1, <2>1, <2>2, WithoutPush
  <2> QED  BY <1>2, <2>1, <2>3
<1> QED  BY <1>2, <1>3, StayOn DEF r

LEMMA LocalOn == ASSUME Midway, RunLocal PROVE Advances
<1> DEFINE op == Opcode(code, x.pc)
           n == Arg(code, x.pc, 1)
           t == Locals[Arg(code, x.pc, 1)]
<1>1. op \in \h20..\h22
  BY DEF RunLocal, Running
<1>2. op \in ControlOps /\ op \notin Openers \cup {\h05, \h0B} \cup Leaving
  BY <1>1 DEF ControlOps, Openers, Leaving
<1>3. n \in DOMAIN Locals /\ t \in ValueTypes
  <2>1. n \in DOMAIN Locals
    BY <1>1, StandingIs DEF Standing, Names
  <2> QED  BY <2>1, ContextAssumption, ElementIs
<1>4. FetchControl(x.pc) = Fetched
  BY <1>2, FetchControlIs
<1>5. Fetched \in XState
  BY FetchedIs
<1> DEFINE r == CASE n \notin DOMAIN Locals -> Stuck(Fetched, "IndexOutOfBounds")
                  [] op = \h20 -> PushValues(Fetched, <<t>>)
                  [] op = \h21 -> pop_typed(Fetched, t)
                  [] op = \h22 -> PushValues(pop_typed(Fetched, t), <<t>>)
<1>6. Continue(r)
  BY <1>4 DEF RunLocal
<1> HIDE DEF n, t
<1>7. CASE op = \h20
  <2>1. r = PushValues(Fetched, <<t>>)
    BY <1>3, <1>7
  <2>2. ~v.dipped => Swap(Operands, OperandsBehind, <<>>, <<t>>)
    BY <1>7, MatchingIs DEF Matching, Flows, t
  <2>3. <<t>> \in Seq(ValueTypes)
    BY <1>3
  <2>4. Onward(r)
    BY <1>2, <2>1, <2>2, <2>3, PushOn
  <2> QED  BY <1>6, <2>4 DEF Advances
<1>8. CASE op = \h21
  <2>1. r = pop_typed(Fetched, t)
    BY <1>3, <1>8
  <2>2. ~v.dipped => Swap(Operands, OperandsBehind, <<t>>, <<>>)
    BY <1>8, MatchingIs DEF Matching, Flows, t
  <2>3. Onward(r)
    BY <1>2, <2>1, <2>2, PopOn
  <2> QED  BY <1>6, <2>3 DEF Advances
<1>9. CASE op = \h22
  <2>1. r = PushValues(PopTypedAll(Fetched, <<t>>), <<t>>)
    BY <1>3, <1>5, <1>9, PopTypedIs
  <2>2. ~v.dipped => Swap(Operands, OperandsBehind, <<t>>, <<t>>)
    BY <1>9, MatchingIs DEF Matching, Flows, t
  <2>3. <<t>> \in Seq(ValueTypes)
    BY <1>3
  <2>4. Onward(r)
    BY <1>2, <2>1, <2>2, <2>3, ExchangeOn
  <2> QED  BY <1>6, <2>4 DEF Advances
<1> QED  BY <1>1, <1>7, <1>8, <1>9

LEMMA GlobalOn == ASSUME Midway, RunGlobal PROVE Advances
<1> DEFINE op == Opcode(code, x.pc)
           n == Arg(code, x.pc, 1)
           g == Globals[Arg(code, x.pc, 1)]
<1>1. op \in {\h23, \h24}
  BY DEF RunGlobal, Running
<1>2. op \in ControlOps /\ op \notin Openers \cup {\h05, \h0B} \cup Leaving
  BY <1>1 DEF ControlOps, Openers, Leaving
<1>3. n \in DOMAIN Globals /\ g.type \in ValueTypes /\ (op = \h24 => g.mutable)
  <2>1. n \in DOMAIN Globals /\ (op = \h24 => g.mutable)
    BY <1>1, StandingIs DEF Standing, Names
  <2> DEFINE G == [type : ValueTypes, mutable : BOOLEAN]
  <2>2. Globals \in Seq(G)
    BY ContextAssumption
  <2> HIDE DEF G
  <2>3. g \in G
    BY <2>1, <2>2, ElementIs
  <2> QED  BY <2>1, <2>3 DEF G
<1>4. FetchControl(x.pc) = Fetched
  BY <1>2, FetchControlIs
<1> DEFINE r == CASE n \notin DOMAIN Globals -> Stuck(Fetched, "IndexOutOfBounds")
                  [] op = \h23 -> PushValues(Fetched, <<g.type>>)
                  [] OTHER -> IF g.mutable THEN pop_typed(Fetched, g.type)
                              ELSE Stuck(Fetched, "ImmutableGlobalSet")
<1>5. Continue(r)
  BY <1>4 DEF RunGlobal
<1> HIDE DEF n, g
<1>6. CASE op = \h23
  <2>1. r = PushValues(Fetched, <<g.type>>)
    BY <1>3, <1>6
  <2>2. ~v.dipped => Swap(Operands, OperandsBehind, <<>>, <<g.type>>)
    BY <1>6, MatchingIs DEF Matching, Flows, g
  <2>3. <<g.type>> \in Seq(ValueTypes)
    BY <1>3
  <2>4. Onward(r)
    BY <1>2, <2>1, <2>2, <2>3, PushOn
  <2> QED  BY <1>5, <2>4 DEF Advances
<1>7. CASE op = \h24
  <2>1. r = pop_typed(Fetched, g.type)
    BY <1>3, <1>7
  <2>2. ~v.dipped => Swap(Operands, OperandsBehind, <<g.type>>, <<>>)
    BY <1>7, MatchingIs DEF Matching, Flows, g
  <2>3. Onward(r)
    BY <1>2, <2>1, <2>2, PopOn
  <2> QED  BY <1>5, <2>3 DEF Advances
<1> QED  BY <1>1, <1>6, <1>7

\* What the interpreter knows of an opcode of its table.
LEMMA RuntimeRow ==
  ASSUME Midway, Opcode(code, x.pc) \notin ControlOps
  PROVE  LET op == Opcode(code, x.pc)
             e == RuntimeTable[Opcode(code, x.pc)]
             w == ValidatorTable[Opcode(code, x.pc)]
             vo(ts) == ValidatorOperands(code, x.pc, w.imm, ts)
         IN /\ op \in RuntimeOps /\ Fetch(x.pc, e.imm) = Fetched /\ IndicesInBounds(code, x.pc, e.imm)
            /\ RuntimeOperands(code, x.pc, e.imm, e.pops) = vo(w.pops)
            /\ RuntimeOperands(code, x.pc, e.imm, e.pushes) = vo(w.pushes)
            /\ vo(w.pops) \in Seq(ValueTypes) /\ vo(w.pushes) \in Seq(ValueTypes)
            /\ ~v.dipped => Swap(Operands, OperandsBehind, vo(w.pops), vo(w.pushes))
<1> DEFINE op == Opcode(code, x.pc)
           e == RuntimeTable[Opcode(code, x.pc)]
           w == ValidatorTable[Opcode(code, x.pc)]
           vo(ts) == ValidatorOperands(code, x.pc, w.imm, ts)
           ro(ts) == RuntimeOperands(code, x.pc, e.imm, ts)
<1>1. op \in ControlOps \cup ValidatorOps /\ Names(code, x.pc, Depth)
  BY StandingIs DEF Standing, ReadableAt
<1>2. /\ Known(op) /\ ImmAt(code, x.pc) = Imms(op) /\ op \in ValidatorOps
      /\ w.imm = Imms(op) /\ w.pops = Pops(op) /\ w.pushes = Pushes(op)
  BY <1>1, PlainWidth, ValidatorEntry
<1>3. /\ op \in RuntimeOps /\ e.pops = Pops(op) /\ e.pushes = Pushes(op)
      /\ e.imm = Imms(op) \/ (op = \hD2 /\ e.imm = <<"u32">>)
  BY <1>2, RuntimeEntry
<1>4. IndicesInBounds(code, x.pc, Imms(op))
  BY <1>1, <1>2 DEF Names
<1>5. w.pops \in Seq(OperandTypes) /\ w.pushes \in Seq(OperandTypes)
  BY <1>2, PopsShape, PushesShape
<1>6. vo(w.pops) \in Seq(ValueTypes) /\ vo(w.pushes) \in Seq(ValueTypes)
  BY <1>5, OperandsTyped
<1>7. ASSUME ~v.dipped PROVE Swap(Operands, OperandsBehind, vo(w.pops), vo(w.pushes))
  BY <1>7, MatchingIs DEF Matching, Flows
<1>8. /\ SameCode(e.imm, Imms(op)) /\ IndicesInBounds(code, x.pc, e.imm)
      /\ ro(e.pops) = vo(w.pops) /\ ro(e.pushes) = vo(w.pushes)
  <2>1. CASE e.imm = Imms(op)
    BY <1>2, <1>3, <1>4, <2>1, SameCodeSelf, OperandsAgree
  <2>2. CASE op = \hD2 /\ e.imm = <<"u32">>
    <3>1. Imms(\hD2) = <<"func">>
      BY DEF Imms, PlainImm
    <3>2. SameCode(<<"u32">>, <<"func">>)
      BY DEF SameCode, Encoding
    <3>3. DOMAIN SpaceSize = {"table", "data", "elem", "func"}
      BY ContextAssumption
    <3>4. \A n : InSpace("u32", n)
      BY <3>3 DEF InSpace
    <3>5. IndicesInBounds(code, x.pc, <<"u32">>)
      BY <3>4 DEF IndicesInBounds
    <3>6. Pops(\hD2) \in Seq(ValueTypes) /\ Pushes(\hD2) \in Seq(ValueTypes)
      <4>1. ~Addresses(\hD2) /\ \hD2 # 1010
        BY DEF Addresses
      <4> QED  BY <1>2, <2>2, <4>1, PlainOperands
    <3>7. \A ts \in Seq(ValueTypes) : ro(ts) = ts /\ vo(ts) = ts
      <4>1. \A t \in ValueTypes : t \notin {"addr", "dst", "src", "len"}
        BY DEF ValueTypes
      <4>2. \A c, p, imm : \A t \in ValueTypes : /\ RuntimeOperand(c, p, imm, t) = t
                                                 /\ ValidatorOperand(c, p, imm, t) = t
        BY <4>1 DEF RuntimeOperand, ValidatorOperand
      <4> HIDE DEF e, w
      <4> TAKE ts \in Seq(ValueTypes)
      <4>3. \A i \in DOMAIN ts : ts[i] \in ValueTypes
        OBVIOUS
      <4>4. ro(ts) = [i \in DOMAIN ts |-> ts[i]] /\ vo(ts) = [i \in DOMAIN ts |-> ts[i]]
        BY <4>2, <4>3 DEF RuntimeOperands, ValidatorOperands
      <4> QED  BY <4>4
    <3> QED  BY <1>2, <1>3, <2>2, <3>1, <3>2, <3>5, <3>6, <3>7
  <2> QED  BY <1>3, <2>1, <2>2
<1>9. Fetch(x.pc, e.imm) = Fetched
  BY <1>2, <1>8, FetchIs
<1> QED  BY <1>3, <1>6, <1>7, <1>8, <1>9

LEMMA PlainOn == ASSUME Midway, RunPlain PROVE Advances
<1> DEFINE e == RuntimeTable[Opcode(code, x.pc)]
           w == ValidatorTable[Opcode(code, x.pc)]
           ts == ValidatorOperands(code, x.pc, w.imm, w.pops)
           us == ValidatorOperands(code, x.pc, w.imm, w.pushes)
           popped == PopTypedAll(Fetched, ts)
<1>1. code[x.pc].k = "op" /\ Opcode(code, x.pc) \notin ControlOps
      /\ Opcode(code, x.pc) \in ControlOps \cup ValidatorOps
  BY StandingIs DEF Standing, ReadableAt, RunPlain
<1>2. /\ Opcode(code, x.pc) \in RuntimeOps /\ Fetch(x.pc, e.imm) = Fetched
      /\ IndicesInBounds(code, x.pc, e.imm)
      /\ RuntimeOperands(code, x.pc, e.imm, e.pops) = ts
      /\ RuntimeOperands(code, x.pc, e.imm, e.pushes) = us
      /\ ts \in Seq(ValueTypes) /\ us \in Seq(ValueTypes)
      /\ ~v.dipped => Swap(Operands, OperandsBehind, ts, us)
  BY <1>1, RuntimeRow
<1>3. Fetched.outcome = OK /\ Fetched \in XState /\ Fetched.stack = x.stack
  BY FetchedIs
<1>4. Opcode(code, x.pc) \notin Openers \cup {\h05, \h0B} \cup Leaving
  BY <1>1, ControlImmediates DEF Leaving, ControlOps
<1>5. PICK completes \in BOOLEAN :
        Continue(IF completes \/ ~e.traps THEN PushValues(popped, us) ELSE Trap(popped))
  <2>1. PICK completes \in BOOLEAN :
          LET f == Fetch(x.pc, e.imm)
              popped2 == IF f.outcome # OK THEN f
                         ELSE IF ~IndicesInBounds(code, x.pc, e.imm)
                         THEN Stuck(f, "IndexOutOfBounds")
                         ELSE PopTypedAll(f, RuntimeOperands(code, x.pc, e.imm, e.pops))
          IN Continue(IF completes \/ ~e.traps
                      THEN PushValues(popped2, RuntimeOperands(code, x.pc, e.imm, e.pushes))
                      ELSE Trap(popped2))
    BY <1>1, <1>2 DEF RunPlain
  <2> WITNESS completes \in BOOLEAN
  <2> HIDE DEF e, w, ts, us
  <2> QED  BY <1>2, <1>3, <2>1
<1> HIDE DEF e, w, ts, us
<1>6. Onward(PushValues(popped, us))
  BY <1>2, <1>4, ExchangeOn
<1>7. Onward(Trap(popped))
  <2>1. /\ Works(Fetched, popped)
        /\ Takes(Fetched.stack, ts) => popped.outcome = OK
    BY <1>2, <1>3, TypedPop
  <2>2. ASSUME ~v.dipped PROVE popped.outcome = OK
    <3>1. Takes(Fetched.stack, ts)
      BY <1>2, <1>3, <2>2, MatchingIs DEF Matching, Swap
    <3> QED  BY <2>1, <3>1
  <2> HIDE DEF popped
  <2> QED  BY <2>1, <2>2, TrapOn DEF Works
<1> QED  BY <1>5, <1>6, <1>7 DEF Advances

-----------------------------------------------------------------------------
(* Calls.                                                                  *)

LEMMA ArgumentsTaken ==
  ASSUME NEW f \in XState, f.outcome \in {OK} \cup OperandErrors, NEW params \in Seq(ValueTypes)
  PROVE  LET r == TakeArguments(f, params)
         IN /\ Works(f, r)
            /\ f.outcome = OK /\ Takes(f.stack, Reverse(params)) =>
                 r.outcome = OK /\ Without(f.stack, r.stack, params)
<1> DEFINE r == TakeArguments(f, params)
           s == f.stack
           n == Len(params)
<1>1. s \in Seq(ValueTypes) /\ n \in Nat /\ Len(s) \in Nat
  BY DEF XState
<1>2. CASE f.outcome # OK
  BY <1>2 DEF TakeArguments, Works
<1>3. CASE f.outcome = OK /\ Len(s) < n
  <2>1. r = Stuck(f, "StackUnderflow")
    BY <1>3 DEF TakeArguments
  <2>2. ~Takes(s, Reverse(params))
    BY <1>1, <1>3, ReverseIs DEF Takes
  <2> QED  BY <1>3, <2>1, <2>2, StuckWorks DEF OperandErrors
<1>4. CASE f.outcome = OK /\ ~(Len(s) < n)
  <2>1. n \in 0..Len(s)
    BY <1>1, <1>4
  <2>2. LastN(s, n) \in Seq(ValueTypes) /\ Len(LastN(s, n)) = n
        /\ \A i \in 1..n : LastN(s, n)[i] = s[Len(s) - n + i]
    <3> HIDE DEF s, n
    <3> QED  BY <1>1, <2>1, LastNIs
  <2>3. Takes(s, Reverse(params)) => LastN(s, n) = params
    <3> SUFFICES ASSUME Takes(s, Reverse(params)) PROVE LastN(s, n) = params
      OBVIOUS
    <3> DEFINE t == Reverse(params)
    <3>1. Len(t) = n /\ \A i \in 1..n : t[i] = params[n - i + 1]
      BY ReverseIs
    <3> HIDE DEF t, s
    <3>2. \A i \in 1..n : s[Len(s) - i + 1] = t[i]
      BY <3>1 DEF Takes, t, s
    <3>3. ASSUME NEW i \in 1..n PROVE LastN(s, n)[i] = params[i]
      <4>1. n - i + 1 \in 1..n /\ Len(s) - (n - i + 1) + 1 = Len(s) - n + i /\ n - (n - i + 1) + 1 = i
        BY <1>1
      <4> HIDE DEF n
      <4>2. LastN(s, n)[i] = s[Len(s) - n + i]
        BY <2>2
      <4>3. s[Len(s) - (n - i + 1) + 1] = t[n - i + 1] /\ t[n - i + 1] = params[n - (n - i + 1) + 1]
        BY <3>1, <3>2, <4>1
      <4> QED  BY <4>1, <4>2, <4>3
    <3> QED  BY <2>2, <3>3, SameSequence
  <2>4. CASE LastN(s, n) # params
    <3>1. r = Stuck(f, "ValueTypeMismatch")
      BY <1>4, <2>4 DEF TakeArguments
    <3> QED  BY <1>4, <2>3, <2>4, <3>1, StuckWorks DEF OperandErrors
  <2>5. CASE LastN(s, n) = params
    <3>1. r = [f EXCEPT !.stack = Truncate(s, Len(s) - n)]
      BY <1>4, <2>5 DEF TakeArguments
    <3>2. /\ Truncate(s, Len(s) - n) \in Seq(ValueTypes) /\ Len(Truncate(s, Len(s) - n)) = Len(s) - n
          /\ \A i \in 1..(Len(s) - n) : Truncate(s, Len(s) - n)[i] = s[i]
      <4> DEFINE h == Len(s) - n
      <4>1. h \in Nat /\ h <= Len(s)
        BY <1>1, <2>1
      <4> HIDE DEF h, s
      <4>2. /\ Truncate(s, h) \in Seq(ValueTypes) /\ Len(Truncate(s, h)) = h
            /\ \A i \in 1..h : Truncate(s, h)[i] = s[i]
        BY <1>1, <4>1, TruncateIs
      <4> QED  BY <4>2 DEF h
    <3>3. Works(f, r) /\ r.outcome = OK /\ r.stack = Truncate(s, Len(s) - n)
      BY <1>4, <3>1, <3>2, StackWorks
    <3>4. Without(s, Truncate(s, Len(s) - n), params)
      BY <1>1, <2>1, <3>2 DEF Without, Below
    <3> QED  BY <3>3, <3>4
  <2> QED  BY <2>4, <2>5
<1> QED  BY <1>2, <1>3, <1>4

LEMMA PrefixIs ==
  ASSUME NEW S, NEW s \in Seq(S), NEW a \in S, NEW r, r = <<a>> \o s
  PROVE  /\ r \in Seq(S) /\ Len(r) = Len(s) + 1 /\ r[1] = a
         /\ \A i \in 1..Len(s) : r[i + 1] = s[i]
  OBVIOUS

\* The callee's arguments leave the stack, a table index before them.
Called(f) ==
  /\ Works(Fetched, f)
  /\ ~v.dipped /\ Takes(Operands, CallPops(code, x.pc)) =>
       f.outcome = OK /\ Without(Operands, f.stack, CallPops(code, x.pc))

LEMMA CalleeKnown ==
  ASSUME Midway, Opcode(code, x.pc) \in \h10..\h13
  PROVE  LET ty == CalleeAt(code, x.pc)
             c == Callee(Fetched, x.pc)
         IN /\ ty \in [params : Seq(ValueTypes), results : Seq(ValueTypes)] /\ c.type = ty
            /\ Opcode(code, x.pc) \in {\h10, \h12} => c.f = Fetched /\ CallPops(code, x.pc) = Reverse(ty.params)
            /\ Opcode(code, x.pc) \in {\h11, \h13} =>
                 c.f = pop_typed(Fetched, "i32") /\ CallPops(code, x.pc) = <<"i32">> \o Reverse(ty.params)
            /\ Opcode(code, x.pc) \in {\h12, \h13} => ty.results = Results
<1> DEFINE op == Opcode(code, x.pc)
           n == Arg(code, x.pc, 1)
<1>1. Names(code, x.pc, Depth)
  BY StandingIs DEF Standing
<1>2. CASE op \in {\h10, \h12}
  <2>1. n \in DOMAIN Functions /\ CalleeAt(code, x.pc) = Types[Functions[n]]
        /\ (op = \h12 => Types[Functions[n]].results = Results)
    BY <1>1, <1>2 DEF Names, CalleeAt
  <2>2. Types[Functions[n]] \in [params : Seq(ValueTypes), results : Seq(ValueTypes)]
    BY <2>1, TypesAre
  <2>3. op \notin {\h11, \h13}
    BY <1>2
  <2> HIDE DEF n
  <2>4. Callee(Fetched, x.pc) = [f |-> Fetched, type |-> Types[Functions[n]]]
    BY <1>2, <2>1 DEF Callee, n
  <2> QED  BY <1>2, <2>1, <2>2, <2>3, <2>4 DEF CallPops
<1>3. CASE op \in {\h11, \h13}
  <2>1. op \notin {\h10, \h12}
    BY <1>3
  <2>2. n \in DOMAIN Types /\ InSpace("table", Arg(code, x.pc, 2)) /\ CalleeAt(code, x.pc) = Types[n]
        /\ (op = \h13 => Types[n].results = Results)
    BY <1>1, <1>3, <2>1 DEF Names, CalleeAt
  <2>3. Types[n] \in [params : Seq(ValueTypes), results : Seq(ValueTypes)]
    BY <2>2, TypesAre
  <2> HIDE DEF n
  <2>4. Callee(Fetched, x.pc) = [f |-> pop_typed(Fetched, "i32"), type |-> Types[n]]
    BY <2>1, <2>2 DEF Callee, n
  <2> QED  BY <1>3, <2>1, <2>2, <2>3, <2>4 DEF CallPops
<1>4. op \in {\h10, \h12} \/ op \in {\h11, \h13}
  OBVIOUS
<1> QED  BY <1>2, <1>3, <1>4

LEMMA CalledIs ==
  ASSUME Midway, Opcode(code, x.pc) \in \h10..\h13
  PROVE  LET c == Callee(Fetched, x.pc)
         IN /\ Works(Fetched, c.f) /\ Called(TakeArguments(c.f, c.type.params))
            /\ CallPops(code, x.pc) \in Seq(ValueTypes) /\ c.type.results \in Seq(ValueTypes)
            /\ c.type = CalleeAt(code, x.pc)
<1> DEFINE ty == CalleeAt(code, x.pc)
           c == Callee(Fetched, x.pc)
           rs == Reverse(CalleeAt(code, x.pc).params)
           pops == CallPops(code, x.pc)
           f == c.f
           r == TakeArguments(f, ty.params)
           a == Operands
<1>1. /\ Fetched \in XState /\ Fetched.outcome = OK /\ Fetched.stack = x.stack /\ a \in Seq(ValueTypes)
  BY FetchedIs, StandingIs DEF Standing
<1>2. /\ ty \in [params : Seq(ValueTypes), results : Seq(ValueTypes)] /\ c.type = ty
      /\ Opcode(code, x.pc) \in {\h10, \h12} => f = Fetched /\ pops = rs
      /\ Opcode(code, x.pc) \in {\h11, \h13} => f = pop_typed(Fetched, "i32") /\ pops = <<"i32">> \o rs
  BY CalleeKnown
<1>3. /\ ty.params \in Seq(ValueTypes) /\ ty.results \in Seq(ValueTypes)
      /\ rs \in Seq(ValueTypes) /\ Len(rs) = Len(ty.params)
  BY <1>2, ReverseSignature
<1> HIDE DEF ty, c, rs, pops, f
<1>4. CASE Opcode(code, x.pc) \in {\h10, \h12}
  <2>1. f = Fetched /\ pops = rs
    BY <1>2, <1>4
  <2>2. Works(Fetched, f)
    BY <1>1, <2>1 DEF Works
  <2>3. /\ Works(Fetched, r)
        /\ Takes(x.stack, rs) => r.outcome = OK /\ Without(x.stack, r.stack, ty.params)
    BY <1>1, <1>3, <2>1, ArgumentsTaken DEF rs, ty
  <2> HIDE DEF r
  <2>4. ASSUME ~v.dipped, Takes(a, pops) PROVE r.outcome = OK /\ Without(a, r.stack, pops)
    <3>1. x.stack = a
      BY <2>4, MatchingIs DEF Matching
    <3> QED  BY <1>3, <2>1, <2>3, <2>4, <3>1 DEF Without
  <2> QED  BY <1>2, <1>3, <2>1, <2>2, <2>3, <2>4 DEF Called, r, c, f, pops, ty
<1>5. CASE Opcode(code, x.pc) \in {\h11, \h13}
  <2>1. f = PopTypedAll(Fetched, <<"i32">>) /\ pops = <<"i32">> \o rs /\ <<"i32">> \in Seq(ValueTypes)
    BY <1>1, <1>2, <1>5, PopTypedIs DEF ValueTypes
  <2>2. /\ Works(Fetched, f)
        /\ Takes(x.stack, <<"i32">>) => f.outcome = OK /\ Without(x.stack, f.stack, <<"i32">>)
    BY <1>1, <2>1, TypedPop
  <2>3. f \in XState /\ f.outcome \in {OK} \cup OperandErrors /\ f.stack \in Seq(ValueTypes)
    BY <2>2 DEF Works, XState
  <2>4. /\ Works(f, r)
        /\ f.outcome = OK /\ Takes(f.stack, rs) => r.outcome = OK /\ Without(f.stack, r.stack, ty.params)
    BY <1>3, <2>3, ArgumentsTaken DEF rs, ty
  <2> HIDE DEF r
  <2>5. /\ pops \in Seq(ValueTypes) /\ Len(pops) = Len(rs) + 1 /\ pops[1] = "i32"
        /\ \A i \in 1..Len(rs) : pops[i + 1] = rs[i]
    <3>1. "i32" \in ValueTypes
      BY DEF ValueTypes
    <3> QED  BY <1>3, <2>1, <3>1, PrefixIs
  <2>6. ASSUME ~v.dipped, Takes(a, pops) PROVE r.outcome = OK /\ Without(a, r.stack, pops)
    <3>1. x.stack = a
      BY <2>6, MatchingIs DEF Matching
    <3>2. Len(rs) + 1 <= Len(a) /\ \A i \in 1..(Len(rs) + 1) : a[Len(a) - i + 1] = pops[i]
      BY <2>5, <2>6 DEF Takes
    <3>3. Len(rs) \in Nat /\ Len(a) \in Nat
      BY <1>1, <1>3
    <3> HIDE DEF a
    <3>4. Takes(a, <<"i32">>)
      <4>1. a[Len(a) - 1 + 1] = "i32" /\ Len(a) >= 1
        BY <2>5, <3>2, <3>3
      <4> QED  BY <4>1 DEF Takes
    <3>5. f.outcome = OK /\ Len(f.stack) = Len(a) - 1 /\ \A i \in 1..(Len(a) - 1) : f.stack[i] = a[i]
      BY <2>2, <3>1, <3>4 DEF Without, Below
    <3>6. Takes(f.stack, rs)
      <4>1. ASSUME NEW i \in 1..Len(rs) PROVE f.stack[Len(f.stack) - i + 1] = rs[i]
        <5>1. /\ Len(f.stack) - i + 1 = Len(a) - i /\ Len(a) - i \in 1..(Len(a) - 1)
              /\ i + 1 \in 1..(Len(rs) + 1) /\ Len(a) - (i + 1) + 1 = Len(a) - i
          BY <3>2, <3>3, <3>5
        <5>2. a[Len(a) - (i + 1) + 1] = pops[i + 1] /\ pops[i + 1] = rs[i]
          BY <2>5, <3>2, <5>1
        <5> DEFINE j == Len(a) - i
        <5> HIDE DEF j, f
        <5>3. f.stack[j] = a[j]
          BY <3>5, <5>1 DEF j
        <5>4. Len(f.stack) - i + 1 = j /\ Len(a) - (i + 1) + 1 = j
          BY <5>1 DEF j
        <5> QED  BY <5>2, <5>3, <5>4
      <4> QED  BY <3>2, <3>3, <3>5, <4>1 DEF Takes
    <3>7. r.outcome = OK /\ Without(f.stack, r.stack, ty.params)
      BY <2>4, <3>5, <3>6
    <3>8. Len(r.stack) = Len(a) - Len(pops) /\ Below(r.stack, a, Len(r.stack))
      <4>1. Len(r.stack) = Len(f.stack) - Len(rs) /\ \A i \in 1..Len(r.stack) : r.stack[i] = f.stack[i]
        BY <1>3, <3>7 DEF Without, Below
      <4>2. Len(r.stack) = Len(a) - Len(pops) /\ Len(r.stack) \in Nat /\ Len(r.stack) <= Len(a) - 1
        BY <2>5, <3>2, <3>3, <3>5, <4>1
      <4>3. \A i \in 1..Len(r.stack) : r.stack[i] = a[i]
        BY <3>5, <4>1, <4>2
      <4> QED  BY <3>3, <4>2, <4>3 DEF Below
    <3> QED  BY <3>7, <3>8 DEF Without
  <2>7. Works(Fetched, r)
    BY <2>2, <2>4, WorksTrans
  <2> QED  BY <1>2, <1>3, <2>2, <2>5, <2>6, <2>7 DEF Called, r, c, f, pops, ty
<1>6. Opcode(code, x.pc) \in {\h10, \h12} \/ Opcode(code, x.pc) \in {\h11, \h13}
  OBVIOUS
<1> QED  BY <1>4, <1>5, <1>6

LEMMA CallOn == ASSUME Midway, RunCall PROVE Advances
<1> DEFINE c == Callee(Fetched, x.pc)
           r == TakeArguments(c.f, c.type.params)
           us == c.type.results
<1>1. Opcode(code, x.pc) \in {\h10, \h11}
  BY DEF RunCall, Running
<1>2. /\ Opcode(code, x.pc) \in ControlOps /\ Opcode(code, x.pc) \in \h10..\h13
      /\ Opcode(code, x.pc) \notin Openers \cup {\h05, \h0B} \cup Leaving
  BY <1>1 DEF ControlOps, Openers, Leaving
<1>3. FetchControl(x.pc) = Fetched
  BY <1>2, FetchControlIs
<1>4. /\ Called(r) /\ us \in Seq(ValueTypes) /\ c.type = CalleeAt(code, x.pc)
      /\ CallPops(code, x.pc) \in Seq(ValueTypes)
  BY <1>2, CalledIs
<1>5. Continue(PushValues(r, us)) \/ Continue(Trap(r))
  BY <1>3 DEF RunCall
<1> HIDE DEF r, us, c
<1>6. r \in XState /\ r.outcome \in {OK} \cup OperandErrors /\ Works(Fetched, r)
      /\ r.stack \in Seq(ValueTypes)
  BY <1>4 DEF Called, Works, XState
<1>7. /\ Operands \in Seq(ValueTypes) /\ OperandsBehind \in Seq(ValueTypes)
  BY StandingIs DEF Standing
<1>8. ASSUME ~v.dipped
      PROVE  /\ r.outcome = OK /\ Without(Operands, r.stack, CallPops(code, x.pc))
             /\ Swap(Operands, OperandsBehind, CallPops(code, x.pc), us)
  <2>1. Swap(Operands, OperandsBehind, CallPops(code, x.pc), CalleeAt(code, x.pc).results)
    BY <1>1, <1>8, MatchingIs DEF Matching, Flows
  <2>2. Takes(Operands, CallPops(code, x.pc))
    BY <2>1 DEF Swap
  <2> QED  BY <1>4, <1>8, <2>1, <2>2 DEF Called, us
<1>9. Onward(Trap(r))
  BY <1>6, <1>8, TrapOn
<1> DEFINE g == PushValues(r, us)
<1>10. /\ Works(r, g) /\ g.outcome = r.outcome /\ (r.outcome = OK => g.stack = r.stack \o us)
  BY <1>4, <1>6, PushedIs
<1> HIDE DEF g
<1>11. Works(Fetched, g)
  BY <1>6, <1>10, WorksTrans
<1>12. ASSUME ~v.dipped PROVE g.outcome = OK /\ g.stack = OperandsBehind
  <2>1. r.stack \o us = OperandsBehind
    BY <1>4, <1>6, <1>7, <1>8, <1>12, WithoutPush
  <2> QED  BY <1>8, <1>10, <1>12, <2>1
<1>13. Onward(g)
  BY <1>2, <1>11, <1>12, StayOn
<1> QED  BY <1>5, <1>9, <1>13 DEF Advances, g

LEMMA ReturnCallOn == ASSUME Midway, RunReturnCall PROVE Advances
<1> DEFINE c == Callee(Fetched, x.pc)
           r == TakeArguments(c.f, c.type.params)
<1>1. Opcode(code, x.pc) \in {\h12, \h13}
  BY DEF RunReturnCall, Running
<1>2. Opcode(code, x.pc) \in ControlOps /\ Opcode(code, x.pc) \in \h10..\h13
  BY <1>1 DEF ControlOps
<1>3. FetchControl(x.pc) = Fetched
  BY <1>2, FetchControlIs
<1>4. Called(r) /\ c.type = CalleeAt(code, x.pc) /\ CalleeAt(code, x.pc).results = Results
  BY <1>1, <1>2, CalledIs, CalleeKnown
<1>5. \E found \in BOOLEAN :
        Continue(IF c.f.outcome = OK /\ c.type.results # Results THEN Stuck(c.f, "ControlInvariant")
                 ELSE IF r.outcome # OK THEN r
                 ELSE IF found \/ Opcode(code, x.pc) = \h12 THEN Stuck(r, "tailcall") ELSE Trap(r))
  BY <1>3 DEF RunReturnCall
<1> HIDE DEF r, c
<1>6. \/ r.outcome # OK /\ Continue(r)
      \/ r.outcome = OK /\ (Continue(Stuck(r, "tailcall")) \/ Continue(Trap(r)))
  BY <1>4, <1>5
<1>7. r \in XState /\ r.outcome \in {OK} \cup OperandErrors
  BY <1>4 DEF Called, Works
<1>8. ASSUME ~v.dipped PROVE r.outcome = OK
  <2>1. Takes(Operands, CallPops(code, x.pc))
    BY <1>1, <1>8, MatchingIs DEF Matching, Flows
  <2> QED  BY <1>4, <1>8, <2>1 DEF Called
<1>9. CASE r.outcome # OK
  <2>1. Onward(r)
    BY <1>7, <1>8, <1>9, StopsOn DEF Outcomes
  <2> QED  BY <1>6, <1>9, <2>1 DEF Advances
<1>10. CASE r.outcome = OK
  <2>1. Onward(Stuck(r, "tailcall")) /\ Onward(Trap(r))
    BY <1>7, <1>8, EndsWith, TrapOn
  <2> QED  BY <1>6, <1>10, <2>1 DEF Advances
<1> QED  BY <1>9, <1>10

-----------------------------------------------------------------------------
(* Blocks.                                                                 *)

LEMMA AppendIs ==
  ASSUME NEW S, NEW s \in Seq(S), NEW a \in S
  PROVE  /\ Append(s, a) \in Seq(S) /\ Len(Append(s, a)) = Len(s) + 1
         /\ Append(s, a)[Len(s) + 1] = a
         /\ \A i \in 1..Len(s) : Append(s, a)[i] = s[i]
  OBVIOUS

\* The frame an opener pushes over the operands s.
FrameOf(s) ==
  LET p   == x.pc
      sig == Signature(code, p)
  IN [kind |-> KindOf(Opcode(code, p)), body_pc |-> p + 2, end_pc |-> paired[p].end_pc,
      height |-> Len(s) - Len(sig.params), params |-> sig.params, results |-> sig.results]

\* The scanner's entry for an opener.
OpenerKnown ==
  /\ Behind = x.pc + 2 /\ Behind <= Len(code)
  /\ x.pc \in DOMAIN paired /\ x.pc \in DOMAIN sc.openers /\ sc.openers[x.pc] = InfoOf(x.pc)
  /\ paired[x.pc].end_pc \in Nat
  /\ Signature(code, x.pc) \in [params : Seq(ValueTypes), results : Seq(ValueTypes)]
  /\ OpenMove(code, x.pc, x.pc, Controls, ControlsBehind)
  /\ Len(ControlsBehind) = Depth + 1

LEMMA OpenerIs == ASSUME Midway, Opcode(code, x.pc) \in Openers PROVE OpenerKnown
<1>1. /\ VInv /\ SInv /\ Complete /\ phase = "run" /\ x.pc <= Len(code) /\ Len(v.controls) = 0
      /\ Boundaries(code, seen) /\ Pairing(code, seen, paired, v.controls)
      /\ Readable(code, seen) /\ DOMAIN seen \subseteq 1..(Len(code) + 1)
  BY DEF Midway, Complete, VInv, Boundaries, Readable
<1>2. /\ x.pc \in DOMAIN seen /\ x.pc \in Nat /\ Len(code) \in Nat /\ Depth \in Nat /\ Depth > 0
      /\ Moves(code, x.pc, x.pc, Controls, ControlsBehind) /\ Behind \in DOMAIN seen
      /\ Depth = Len(Controls) /\ ControlsBehind \in Seq(Frame)
  BY StandingIs DEF Standing, Depth
<1>3. Behind = x.pc + 2
  BY <1>1, <1>2, OpenerWidth DEF Behind
<1>4. OpenMove(code, x.pc, x.pc, Controls, ControlsBehind)
  BY <1>2 DEF Moves
<1>5. Len(ControlsBehind) = Depth + 1 /\ Arg(code, x.pc, 1) \in DOMAIN Types
  BY <1>2, <1>4 DEF OpenMove
<1>6. Behind <= Len(code)
  <2>1. Len(At(seen, Behind)) > 0
    BY <1>2, <1>5 DEF ControlsBehind
  <2> QED  BY <1>1, <1>2, <2>1, InsideIs
<1>7. Signature(code, x.pc) \in [params : Seq(ValueTypes), results : Seq(ValueTypes)]
  BY <1>5, TypesAre DEF Signature
<1>8. x.pc \in DOMAIN paired
  BY <1>1, <1>2 DEF Pairing
<1>9. paired[x.pc].end_pc \in DOMAIN seen /\ paired[x.pc].end_pc <= Len(code)
  BY <1>1, <1>8 DEF Pairing
<1>10. Scanned(sc.pc, sc.pending, sc.openers) /\ sc.pc = Len(code) + 1
  BY <1>1 DEF SInv
<1>11. paired[x.pc].end_pc \in Nat /\ paired[x.pc].end_pc < sc.pc
  BY <1>1, <1>2, <1>9, <1>10
<1>12. x.pc \in DOMAIN sc.openers /\ sc.openers[x.pc] = InfoOf(x.pc)
  BY <1>8, <1>10, <1>11 DEF Scanned
<1> QED  BY <1>3, <1>4, <1>5, <1>6, <1>7, <1>8, <1>11, <1>12 DEF OpenerKnown

\* What entering a frame comes to.
LEMMA EnterFrameIs ==
  ASSUME Midway, Opcode(code, x.pc) \in Openers, NEW g, Works(Fetched, g)
  PROVE  LET sig == Signature(code, x.pc)
             f   == EnterFrame(g, x.pc, KindOf(Opcode(code, x.pc)))
         IN \/ f.outcome \in OperandErrors /\ f \in XState
               /\ ~(g.outcome = OK /\ Len(sig.params) <= Len(g.stack)
                    /\ LastN(g.stack, Len(sig.params)) = sig.params)
            \/ /\ g.outcome = OK /\ Len(sig.params) <= Len(g.stack)
               /\ f = [g EXCEPT !.pc = Behind, !.controls = Append(x.controls, FrameOf(g.stack))]
<1> DEFINE sig == Signature(code, x.pc)
           f   == EnterFrame(g, x.pc, KindOf(Opcode(code, x.pc)))
           info == sc.openers[x.pc]
           n == Len(Signature(code, x.pc).params)
<1>1. OpenerKnown
  BY OpenerIs
<1>2. x.pc \in DOMAIN sc.openers /\ info = InfoOf(x.pc) /\ Behind = x.pc + 2
  BY <1>1 DEF OpenerKnown
<1>3. /\ info.kind = KindOf(Opcode(code, x.pc)) /\ info.body_pc = Behind
      /\ info.end_pc = paired[x.pc].end_pc /\ info.signature = sig
  BY <1>2 DEF InfoOf
<1>4. /\ g \in XState /\ g.controls = x.controls /\ g.outcome \in {OK} \cup OperandErrors
      /\ g.stack \in Seq(ValueTypes) /\ Len(g.stack) \in Nat /\ n \in Nat
  BY <1>1, FetchedIs DEF Works, XState, OpenerKnown
<1>5. CASE g.outcome # OK
  <2>1. f = g
    BY <1>5 DEF EnterFrame
  <2> QED  BY <1>4, <1>5, <2>1
<1>6. CASE g.outcome = OK /\ Len(g.stack) < n
  <2>1. f = Stuck(g, "StackUnderflow")
    BY <1>2, <1>3, <1>6 DEF EnterFrame
  <2>2. f \in XState /\ f.outcome \in OperandErrors
    BY <1>4, <2>1, StuckIs DEF OperandErrors, Outcomes
  <2>3. ~(n <= Len(g.stack))
    BY <1>4, <1>6
  <2> QED  BY <2>2, <2>3
<1>7. CASE g.outcome = OK /\ ~(Len(g.stack) < n) /\ LastN(g.stack, n) # sig.params
  <2>1. f = Stuck(g, "ValueTypeMismatch")
    BY <1>2, <1>3, <1>7 DEF EnterFrame
  <2>2. f \in XState /\ f.outcome \in OperandErrors
    BY <1>4, <2>1, StuckIs DEF OperandErrors, Outcomes
  <2> QED  BY <1>7, <2>2
<1>8. CASE g.outcome = OK /\ ~(Len(g.stack) < n) /\ LastN(g.stack, n) = sig.params
  <2>1. f = [g EXCEPT !.pc = info.body_pc,
                      !.controls = Append(@,
                         [kind |-> KindOf(Opcode(code, x.pc)), body_pc |-> info.body_pc,
                          end_pc |-> info.end_pc, height |-> Len(g.stack) - n,
                          params |-> sig.params, results |-> sig.results])]
    BY <1>2, <1>3, <1>8 DEF EnterFrame
  <2>2. FrameOf(g.stack) = [kind |-> KindOf(Opcode(code, x.pc)), body_pc |-> info.body_pc,
                            end_pc |-> info.end_pc, height |-> Len(g.stack) - n,
                            params |-> sig.params, results |-> sig.results]
    BY <1>2, <1>3 DEF FrameOf
  <2>3. f = [g EXCEPT !.pc = Behind, !.controls = Append(x.controls, FrameOf(g.stack))]
    BY <1>3, <1>4, <2>1, <2>2
  <2>4. n <= Len(g.stack)
    BY <1>4, <1>8
  <2> QED  BY <1>8, <2>3, <2>4
<1> QED  BY <1>5, <1>6, <1>7, <1>8

\* Entering keeps the place, and the operands the opener's parameters are among.
LEMMA EnteredIs ==
  ASSUME Midway, Opcode(code, x.pc) \in Openers, NEW g, Works(Fetched, g), g.outcome = OK,
         Len(Signature(code, x.pc).params) <= Len(g.stack)
  PROVE  LET r == [g EXCEPT !.pc = Behind, !.controls = Append(x.controls, FrameOf(g.stack))]
         IN /\ r \in XState /\ r.outcome = OK /\ r.pc = Behind /\ r.stack = g.stack
            /\ r.controls = Append(x.controls, FrameOf(g.stack))
            /\ r.controls \in Seq(XFrame) /\ Len(r.controls) = Depth + 1
            /\ \A i \in 1..Depth : r.controls[i] = x.controls[i]
            /\ r.controls[Depth + 1] = FrameOf(g.stack)
            /\ Placed(r)
<1> DEFINE fr == FrameOf(g.stack)
           cs == Append(x.controls, fr)
           r == [g EXCEPT !.pc = Behind, !.controls = cs]
           sig == Signature(code, x.pc)
<1>1. /\ OpenerKnown /\ x.controls \in Seq(XFrame) /\ Len(x.controls) = Depth /\ Depth \in Nat
      /\ x.pc \in Nat /\ Behind \in DOMAIN seen /\ Behind \in Nat /\ Placed(x) /\ Depth > 0
      /\ Depth = Len(Controls)
  BY OpenerIs, FetchedIs, StandingIs DEF Standing, Depth
<1>2. /\ g \in XState /\ g.controls = x.controls /\ g.stack \in Seq(ValueTypes)
      /\ Len(g.stack) \in Nat /\ Len(sig.params) \in Nat
  BY <1>1, FetchedIs DEF Works, XState, OpenerKnown
<1>3. fr \in XFrame
  <2>1. Len(g.stack) - Len(sig.params) \in Nat
    BY <1>2
  <2>2. sig.params \in Seq(ValueTypes) /\ sig.results \in Seq(ValueTypes) /\ paired[x.pc].end_pc \in Nat
        /\ x.pc + 2 \in Nat
    BY <1>1 DEF OpenerKnown
  <2>3. KindOf(Opcode(code, x.pc)) \in {"function", "block", "loop", "if"}
    BY DEF KindOf
  <2> QED  BY <2>1, <2>2, <2>3 DEF FrameOf, XFrame
<1> HIDE DEF fr
<1>4. /\ cs \in Seq(XFrame) /\ Len(cs) = Depth + 1 /\ cs[Depth + 1] = fr
      /\ \A i \in 1..Depth : cs[i] = x.controls[i]
  <2>1. /\ cs \in Seq(XFrame) /\ Len(cs) = Len(x.controls) + 1 /\ cs[Len(x.controls) + 1] = fr
        /\ \A i \in 1..Len(x.controls) : cs[i] = x.controls[i]
    BY <1>1, <1>3, AppendIs
  <2> QED  BY <1>1, <2>1
<1> HIDE DEF cs
<1>5. r \in XState /\ r.outcome = OK /\ r.pc = Behind /\ r.stack = g.stack /\ r.controls = cs
  BY <1>1, <1>2, <1>4 DEF XState
<1> HIDE DEF r
<1>6. /\ Len(ControlsBehind) = Depth + 1
      /\ \A j \in 1..Depth : ControlsBehind[j] = Controls[j]
      /\ LET h == ControlsBehind[Depth + 1]
         IN /\ h.kind = KindOf(Opcode(code, x.pc)) /\ h.opener = x.pc
            /\ h.params = sig.params /\ h.ends = sig.results
  BY <1>1 DEF OpenerKnown, OpenMove
<1>7. PlacedFrame(fr, ControlsBehind[Depth + 1], Depth + 1)
  <2>1. /\ fr.kind = KindOf(Opcode(code, x.pc)) /\ fr.params = sig.params /\ fr.results = sig.results
        /\ fr.end_pc = paired[x.pc].end_pc /\ fr.body_pc = x.pc + 2
    BY DEF fr, FrameOf
  <2>2. Depth + 1 # 1
    BY <1>1
  <2> QED  BY <1>6, <2>1, <2>2 DEF PlacedFrame
<1>8. \A i \in 1..Depth : PlacedFrame(x.controls[i], Controls[i], i)
  BY <1>1 DEF Placed, Controls
<1>9. Placed(r)
  <2>1. ASSUME NEW i \in 1..(Depth + 1) PROVE PlacedFrame(cs[i], ControlsBehind[i], i)
    <3>1. CASE i = Depth + 1
      BY <1>4, <1>7, <3>1
    <3>2. CASE i # Depth + 1
      <4>1. i \in 1..Depth
        BY <1>1, <3>2
      <4> QED  BY <1>4, <1>6, <1>8, <4>1
    <3> QED  BY <3>1, <3>2
  <2> QED  BY <1>1, <1>4, <1>5, <1>6, <2>1 DEF Placed, ControlsBehind
<1> QED  BY <1>4, <1>5, <1>9 DEF r, cs, fr

LEMMA EnterOn ==
  ASSUME Midway, Opcode(code, x.pc) \in Openers, NEW g, Works(Fetched, g),
         ~v.dipped => g.outcome = OK /\ g.stack = OperandsBehind
  PROVE  Onward(EnterFrame(g, x.pc, KindOf(Opcode(code, x.pc))))
<1> DEFINE f == EnterFrame(g, x.pc, KindOf(Opcode(code, x.pc)))
           params == Signature(code, x.pc).params
           b == OperandsBehind
           n == Len(params)
<1> SUFFICES Onward(f)
  OBVIOUS
<1> HIDE DEF f
<1>1. /\ OpenerKnown /\ Depth \in Nat /\ Depth > 0 /\ Depth = Len(Controls)
      /\ ControlsBehind \in Seq(Frame) /\ b \in Seq(ValueTypes)
      /\ Behind \in Nat /\ Len(code) \in Nat
  BY OpenerIs, StandingIs DEF Standing, Depth
<1>2. params \in Seq(ValueTypes) /\ n \in Nat /\ ControlsBehind[Depth + 1].height \in Nat
  <2>1. params \in Seq(ValueTypes) /\ Len(ControlsBehind) = Depth + 1
    BY <1>1 DEF OpenerKnown
  <2>2. ControlsBehind[Depth + 1] \in Frame
    BY <1>1, <2>1
  <2> QED  BY <2>1, <2>2 DEF Frame
<1>3. ASSUME ~v.dipped
      PROVE  /\ g.outcome = OK /\ n <= Len(g.stack) /\ LastN(g.stack, n) = params
             /\ Len(g.stack) - n = ControlsBehind[Depth + 1].height
             /\ \A i \in 1..Depth : /\ ~Controls[i].unreachable
                                    /\ x.controls[i].height = Controls[i].height
  <2> DEFINE h == ControlsBehind[Depth + 1].height
  <2>1. /\ Typed(code, x.pc, Controls, ControlsBehind, Operands, b)
        /\ \A i \in 1..Depth : /\ ~Controls[i].unreachable
                               /\ x.controls[i].height = Controls[i].height
    BY <1>3, MatchingIs DEF Matching
  <2>2. Topped(b, h, params)
    BY <1>1, <2>1 DEF Typed
  <2> HIDE DEF h, params, b
  <2>3. Len(b) = h + n /\ (\A j \in 1..n : b[h + j] = params[j]) /\ h \in Nat /\ Len(b) \in Nat
    BY <1>1, <1>2, <2>2 DEF Topped, h
  <2>4. n \in 0..Len(b) /\ Len(b) - n = h
    BY <1>2, <2>3
  <2>5. /\ LastN(b, n) \in Seq(ValueTypes) /\ Len(LastN(b, n)) = n
        /\ \A i \in 1..n : LastN(b, n)[i] = b[Len(b) - n + i]
    <3> HIDE DEF n
    <3> QED  BY <1>1, <2>4, LastNIs
  <2>6. LastN(b, n) = params
    BY <1>2, <2>3, <2>4, <2>5, SameSequence
  <2>7. g.outcome = OK /\ g.stack = b
    BY <1>3 DEF b
  <2> QED  BY <2>1, <2>4, <2>6, <2>7 DEF h
<1>4. CASE g.outcome = OK /\ n <= Len(g.stack)
           /\ f = [g EXCEPT !.pc = Behind, !.controls = Append(x.controls, FrameOf(g.stack))]
  <2>1. /\ f \in XState /\ f.outcome = OK /\ f.pc = Behind /\ f.stack = g.stack
        /\ Len(f.controls) = Depth + 1
        /\ \A i \in 1..Depth : f.controls[i] = x.controls[i]
        /\ f.controls[Depth + 1] = FrameOf(g.stack)
        /\ Placed(f)
    BY <1>4, EnteredIs
  <2>2. ASSUME ~v.dipped PROVE Agreed(f)
    <3>1. ~(Behind > Len(code)) /\ OpenMove(code, x.pc, x.pc, Controls, ControlsBehind)
      BY <1>1 DEF OpenerKnown
    <3>2. /\ \A j \in 1..Depth : ControlsBehind[j] = Controls[j]
          /\ ~ControlsBehind[Depth + 1].unreachable
      BY <1>1, <3>1 DEF OpenMove
    <3>3. FrameOf(g.stack).height = ControlsBehind[Depth + 1].height
      BY <1>3, <2>2 DEF FrameOf
    <3>4. ASSUME NEW i \in 1..(Depth + 1)
          PROVE  ~ControlsBehind[i].unreachable /\ f.controls[i].height = ControlsBehind[i].height
      <4>1. CASE i = Depth + 1
        BY <2>1, <3>2, <3>3, <4>1
      <4>2. CASE i # Depth + 1
        <5>1. i \in 1..Depth
          BY <1>1, <4>2
        <5> QED  BY <1>3, <2>1, <2>2, <3>2, <5>1
      <4> QED  BY <4>1, <4>2
    <3> QED  BY <2>1, <2>2, <3>1, <3>4 DEF Agreed, ControlsBehind, OperandsBehind
  <2>3. f.outcome \in Outcomes /\ f.outcome \notin OperandErrors
    BY <2>1 DEF Outcomes, OK, OperandErrors
  <2> QED  BY <2>1, <2>2, <2>3 DEF Onward
<1>5. CASE f.outcome \in OperandErrors /\ f \in XState
           /\ ~(g.outcome = OK /\ n <= Len(g.stack) /\ LastN(g.stack, n) = params)
  <2>1. v.dipped
    BY <1>3, <1>5
  <2>2. f.outcome \in Outcomes /\ f.outcome # OK
    BY <1>5 DEF Outcomes, OK, OperandErrors
  <2> QED  BY <1>5, <2>1, <2>2, StopsOn
<1>6. \/ f.outcome \in OperandErrors /\ f \in XState
         /\ ~(g.outcome = OK /\ n <= Len(g.stack) /\ LastN(g.stack, n) = params)
      \/ /\ g.outcome = OK /\ n <= Len(g.stack)
         /\ f = [g EXCEPT !.pc = Behind, !.controls = Append(x.controls, FrameOf(g.stack))]
  BY EnterFrameIs DEF f
<1> QED  BY <1>4, <1>5, <1>6

LEMMA OpenerOn == ASSUME Midway, RunOpener PROVE Advances
<1> DEFINE f == EnterFrame(Fetched, x.pc, KindOf(Opcode(code, x.pc)))
<1>1. Opcode(code, x.pc) \in {\h02, \h03}
  BY DEF RunOpener, Running
<1>2. /\ Opcode(code, x.pc) \in ControlOps /\ Opcode(code, x.pc) \in Openers
      /\ KindOf(Opcode(code, x.pc)) = IF Opcode(code, x.pc) = \h02 THEN "block" ELSE "loop"
  BY <1>1 DEF ControlOps, Openers, KindOf
<1>3. FetchControl(x.pc) = Fetched
  BY <1>2, FetchControlIs
<1>4. Continue(f)
  BY <1>2, <1>3 DEF RunOpener
<1>5. ~v.dipped => Swap(Operands, OperandsBehind, <<>>, <<>>)
  BY <1>1, MatchingIs DEF Matching, Flows
<1>6. Onward(f)
  BY <1>2, <1>5, FetchedOn, EnterOn
<1> QED  BY <1>4, <1>6 DEF Advances

\* A control stack that belongs to boundary p, as the interpreter has it.
Fitting(k, p) ==
  /\ p \in DOMAIN seen /\ Len(k) = Len(At(seen, p))
  /\ \A i \in 1..Len(k) : PlacedFrame(k[i], At(seen, p)[i], i)
  /\ ~v.dipped => \A i \in 1..Len(k) : /\ ~At(seen, p)[i].unreachable
                                       /\ k[i].height = At(seen, p)[i].height

\* Going to another boundary under the same frames, or the outer ones of them.
LEMMA LandOn ==
  ASSUME NEW k, NEW p, Fitting(k, p), NEW r \in DOMAIN seen, NEW n \in Nat, n <= Len(k),
         Len(k) \in Nat, Len(At(seen, r)) = n,
         \A j \in 1..n : \/ At(seen, r)[j] = At(seen, p)[j]
                         \/ SameFrame(At(seen, r)[j], At(seen, p)[j]) /\ ~At(seen, r)[j].unreachable,
         NEW f \in XState, f.outcome = OK, f.pc = r, Len(f.controls) = n,
         \A j \in 1..n : f.controls[j] = k[j],
         ~v.dipped => f.stack = IF r > Len(code) THEN Results ELSE Ops(seen, r)
  PROVE  Onward(f)
<1>1. ASSUME NEW j \in 1..n PROVE PlacedFrame(f.controls[j], At(seen, r)[j], j)
  <2>1. j \in 1..Len(k)
    OBVIOUS
  <2>2. PlacedFrame(f.controls[j], At(seen, p)[j], j)
    BY <2>1 DEF Fitting
  <2>3. /\ At(seen, r)[j].kind = At(seen, p)[j].kind /\ At(seen, r)[j].params = At(seen, p)[j].params
        /\ At(seen, r)[j].ends = At(seen, p)[j].ends /\ At(seen, r)[j].opener = At(seen, p)[j].opener
    BY DEF SameFrame
  <2> QED  BY <2>2, <2>3, PlacedSame
<1>2. ASSUME ~v.dipped, NEW j \in 1..n
      PROVE  ~At(seen, r)[j].unreachable /\ f.controls[j].height = At(seen, r)[j].height
  <2>1. j \in 1..Len(k)
    OBVIOUS
  <2>2. ~At(seen, p)[j].unreachable /\ f.controls[j].height = At(seen, p)[j].height
    BY <1>2, <2>1 DEF Fitting
  <2> QED  BY <2>2 DEF SameFrame
<1>3. Placed(f)
  BY <1>1 DEF Placed
<1>4. ~v.dipped => Agreed(f)
  BY <1>2 DEF Agreed
<1>5. f.outcome \in Outcomes /\ f.outcome \notin OperandErrors
  BY DEF Outcomes, OK, OperandErrors
<1> QED  BY <1>3, <1>4, <1>5 DEF Onward

LEMMA FittingIs ==
  ASSUME NEW f, Onward(f), f.outcome = OK
  PROVE  Fitting(f.controls, f.pc)
  BY DEF Onward, Placed, Agreed, Fitting

LEMMA GotoIs ==
  ASSUME NEW f \in XState, f.outcome = OK, NEW r \in Nat
  PROVE  /\ Goto(f, r) \in XState /\ Goto(f, r).outcome = OK /\ Goto(f, r).pc = r
         /\ Goto(f, r).controls = f.controls /\ Goto(f, r).stack = f.stack
<1>1. Goto(f, r) = [f EXCEPT !.pc = r]
  BY DEF Goto
<1> QED  BY <1>1 DEF XState

\* The interpreter state f with another stack, control stack and position.
Moved(f, s, k, r) == [f EXCEPT !.stack = s, !.controls = k, !.pc = r]
MovedSo(f, s, k, r) ==
  LET g == Moved(f, s, k, r)
  IN g \in XState /\ g.outcome = f.outcome /\ g.pc = r /\ g.controls = k /\ g.stack = s
LEMMA MovedIs ==
  ASSUME NEW f \in XState, NEW s \in Seq(ValueTypes), NEW k \in Seq(XFrame), NEW r \in Nat
  PROVE  MovedSo(f, s, k, r)
  BY DEF XState, MovedSo, Moved

\* An if whose condition is false: the frame is entered, and left for the second arm ...
LEMMA SecondArm ==
  ASSUME Midway, Opcode(code, x.pc) = \h04, NEW f, Onward(f), f.outcome = OK, f.pc = Behind,
         Len(f.controls) = Depth + 1, paired[x.pc].else_pc # 0
  PROVE  Onward(Goto(f, paired[x.pc].else_pc + 1))
<1> DEFINE q == paired[x.pc].else_pc
           r == paired[x.pc].else_pc + 1
           i == Depth + 1
           g == Goto(f, r)
           h == At(seen, Behind)[Depth + 1].height
           params == At(seen, Behind)[Depth + 1].params
<1>1. Complete /\ Depth \in Nat /\ Depth > 0 /\ Behind \in DOMAIN seen /\ Depth = Len(Controls)
  BY StandingIs DEF Standing, Midway, Depth
<1>2. OpenerKnown
  BY OpenerIs DEF Openers
<1>3. Len(At(seen, Behind)) = i /\ i \in 2..Len(At(seen, Behind)) /\ At(seen, Behind)[i].opener = x.pc
      /\ Behind = x.pc + 2 /\ Behind <= Len(code)
  BY <1>1, <1>2 DEF OpenerKnown, OpenMove, ControlsBehind
<1>4. ElseOf(Behind, i)
  BY <1>1, <1>3, ElseIs
<1>5. /\ r \in DOMAIN seen /\ q \in Nat /\ r <= Len(code) /\ Len(At(seen, r)) = i
      /\ SamePrefix(At(seen, Behind), At(seen, r), i - 1)
      /\ SameFrame(At(seen, r)[i], At(seen, Behind)[i]) /\ ~At(seen, r)[i].unreachable
  BY <1>3, <1>4 DEF ElseOf
<1>6. f \in XState /\ Fitting(f.controls, Behind)
  BY FittingIs DEF Onward
<1>7. /\ g \in XState /\ g.outcome = OK /\ g.pc = r /\ g.controls = f.controls /\ g.stack = f.stack
  <2>1. r \in Nat
    BY <1>5
  <2> HIDE DEF r
  <2> QED  BY <1>6, <2>1, GotoIs
<1>8. ASSUME ~v.dipped PROVE f.stack = Ops(seen, r)
  <2>1. LandingOf(Behind, i)
    BY <1>1, <1>3, <1>8, LandingIs, MatchingIs DEF Matching
  <2>2. /\ h \in Nat /\ Ops(seen, Behind) \in Seq(ValueTypes) /\ Ops(seen, r) \in Seq(ValueTypes)
        /\ Topped(Ops(seen, Behind), h, params)
        /\ Below(Ops(seen, Behind), Ops(seen, r), h) /\ Topped(Ops(seen, r), h, params)
    BY <1>3, <2>1 DEF LandingOf
  <2>3. params \in Seq(ValueTypes)
    BY <1>1, <1>2 DEF OpenerKnown, OpenMove, ControlsBehind
  <2> HIDE DEF h, params, r
  <2>4. Ops(seen, Behind) = Ops(seen, r)
    BY <2>2, <2>3, SameOperands
  <2>5. f.stack = Ops(seen, Behind)
    BY <1>3, <1>8, StandingIs DEF Onward, Agreed, Standing
  <2> QED  BY <2>4, <2>5
<1> SUFFICES Onward(g)
  OBVIOUS
<1> HIDE DEF g, r
<1>9. ~(r > Len(code))
  BY <1>5, StandingIs DEF Standing, r
<1>10. ASSUME NEW j \in 1..i
       PROVE  \/ At(seen, r)[j] = At(seen, Behind)[j]
              \/ SameFrame(At(seen, r)[j], At(seen, Behind)[j]) /\ ~At(seen, r)[j].unreachable
  <2>1. CASE j = i
    BY <1>5, <2>1
  <2>2. CASE j # i
    <3>1. j \in 1..(i - 1)
      BY <1>1, <2>2
    <3> QED  BY <1>5, <3>1 DEF SamePrefix
  <2> QED  BY <2>1, <2>2
<1>11. i \in Nat /\ Len(f.controls) = i
  BY <1>1
<1> HIDE DEF i
<1> QED  BY <1>5, <1>6, <1>7, <1>8, <1>9, <1>10, <1>11, LandOn

\* ... or behind its end, without the parameters, where there is none.
LEMMA NoSecondArm ==
  ASSUME Midway, Opcode(code, x.pc) = \h04, NEW f, Onward(f), f.outcome = OK, f.pc = Behind,
         Len(f.controls) = Depth + 1, paired[x.pc].else_pc = 0
  PROVE  Onward([f EXCEPT !.stack = Truncate(@, Last(f.controls).height),
                          !.controls = Front(@), !.pc = paired[x.pc].end_pc + 1])
<1> DEFINE e == paired[x.pc].end_pc
           r == paired[x.pc].end_pc + 1
           i == Depth + 1
           h == At(seen, Behind)[Depth + 1].height
           s == Truncate(f.stack, Last(f.controls).height)
           g == [f EXCEPT !.stack = s, !.controls = Front(f.controls), !.pc = r]
<1>1. Complete /\ Depth \in Nat /\ Depth > 0 /\ Behind \in DOMAIN seen /\ Depth = Len(Controls)
  BY StandingIs DEF Standing, Midway, Depth
<1>2. OpenerKnown
  BY OpenerIs DEF Openers
<1>3. /\ Len(At(seen, Behind)) = i /\ i \in 2..Len(At(seen, Behind)) /\ At(seen, Behind)[i].opener = x.pc
      /\ Behind = x.pc + 2 /\ Behind <= Len(code) /\ At(seen, Behind)[i].kind = "if"
  BY <1>1, <1>2 DEF OpenerKnown, OpenMove, ControlsBehind, KindOf
<1>4. EndOf(Behind, i)
  BY <1>1, <1>3, EndIs
<1>5. /\ r \in DOMAIN seen /\ e \in Nat /\ r <= Len(code) /\ Len(At(seen, r)) = Depth
      /\ SamePrefix(At(seen, Behind), At(seen, r), Depth)
      /\ At(seen, Behind)[i].ends = <<>>
  <2>1. /\ r \in DOMAIN seen /\ e \in Nat /\ r <= Len(code) /\ Len(At(seen, r)) = i - 1
        /\ SamePrefix(At(seen, Behind), At(seen, r), i - 1)
        /\ SameFrame(At(seen, e)[i], At(seen, Behind)[i])
        /\ At(seen, e)[i].seen_else = 0
        /\ At(seen, e)[i].kind = "if" /\ At(seen, e)[i].seen_else = 0 => At(seen, e)[i].ends = <<>>
    BY <1>3, <1>4 DEF EndOf
  <2>2. At(seen, Behind)[i].ends = <<>>
    BY <1>3, <2>1 DEF SameFrame
  <2>3. i - 1 = Depth
    BY <1>1
  <2> QED  BY <2>1, <2>2, <2>3
<1>6. f \in XState /\ Fitting(f.controls, Behind) /\ f.stack \in Seq(ValueTypes) /\ f.controls \in Seq(XFrame)
  BY FittingIs DEF Onward, XState
<1> DEFINE k == f.controls
<1>7. Last(k) = k[i] /\ k[i].height \in Nat
  <2>1. Len(k) > 0 /\ i = Len(k)
    BY <1>1
  <2> HIDE DEF k, i
  <2>2. Last(k) = k[i] /\ Last(k) \in XFrame
    BY <1>6, <2>1, LastIs DEF k
  <2> QED  BY <2>2 DEF XFrame
<1>8. /\ Front(k) \in Seq(XFrame) /\ Len(Front(k)) = Depth
      /\ \A j \in 1..Depth : Front(k)[j] = k[j]
  <2>1. Len(k) > 0 /\ Len(k) = Depth + 1
    BY <1>1
  <2> HIDE DEF k
  <2>2. /\ Front(k) \in Seq(XFrame) /\ Len(Front(k)) = Len(k) - 1
        /\ \A j \in 1..(Len(k) - 1) : Front(k)[j] = k[j]
    BY <1>6, <2>1, FrontIs DEF k
  <2> QED  BY <1>1, <2>1, <2>2
<1>9. s \in Seq(ValueTypes)
  BY <1>6, <1>7, TruncateIs
<1>10. /\ g \in XState /\ g.outcome = OK /\ g.pc = r /\ g.controls = Front(f.controls) /\ g.stack = s
  <2>1. r \in Nat
    BY <1>5
  <2> DEFINE k2 == Front(k)
  <2>2. k2 \in Seq(XFrame)
    BY <1>8
  <2>3. f \in XState /\ f.outcome = OK
    BY <1>6
  <2>4. g = Moved(f, s, k2, r)
    BY DEF Moved
  <2> HIDE DEF r, s, k2, g
  <2>5. MovedSo(f, s, k2, r)
    BY <1>9, <2>1, <2>2, <2>3, MovedIs
  <2>6. g \in XState /\ g.outcome = f.outcome /\ g.pc = r /\ g.controls = k2 /\ g.stack = s
    BY <2>4, <2>5 DEF MovedSo
  <2> QED  BY <2>3, <2>6 DEF k2
<1>11. ASSUME ~v.dipped PROVE s = Ops(seen, r)
  <2>1. LandingOf(Behind, i)
    BY <1>1, <1>3, <1>11, LandingIs, MatchingIs DEF Matching
  <2>2. /\ h \in Nat /\ h <= Len(Ops(seen, Behind)) /\ Ops(seen, Behind) \in Seq(ValueTypes)
        /\ Ops(seen, r) \in Seq(ValueTypes)
        /\ Below(Ops(seen, Behind), Ops(seen, r), h) /\ Topped(Ops(seen, r), h, <<>>)
    BY <1>3, <1>5, <2>1 DEF LandingOf
  <2>3. f.stack = Ops(seen, Behind)
    BY <1>3, <1>11, StandingIs DEF Onward, Agreed, Standing
  <2>4. Last(f.controls).height = h
    <3>1. i \in 1..Len(f.controls)
      BY <1>1
    <3> QED  BY <1>6, <1>7, <1>11, <3>1 DEF Fitting
  <2> DEFINE b == Ops(seen, Behind)
  <2> HIDE DEF h, r, b
  <2>5. /\ Truncate(b, h) \in Seq(ValueTypes)
        /\ Len(Truncate(b, h)) = IF h < Len(b) THEN h ELSE Len(b)
        /\ \A j \in 1..Len(Truncate(b, h)) : Truncate(b, h)[j] = b[j]
    BY <2>2, TruncateIs DEF b
  <2>6. Len(Truncate(b, h)) = h /\ Len(Ops(seen, r)) = h /\ \A j \in 1..h : b[j] = Ops(seen, r)[j]
    BY <2>2, <2>5 DEF Below, Topped, b
  <2>7. Truncate(b, h) = Ops(seen, r)
    BY <2>2, <2>5, <2>6, SameSequence
  <2> QED  BY <2>3, <2>4, <2>7 DEF b
<1> SUFFICES Onward(g)
  OBVIOUS
<1> HIDE DEF g, r, s
<1>12. ~(r > Len(code))
  BY <1>5, StandingIs DEF Standing, r
<1>13. \A j \in 1..Depth : At(seen, r)[j] = At(seen, Behind)[j]
  BY <1>5 DEF SamePrefix
<1>14. Len(k) \in Nat /\ Depth <= Len(k)
  BY <1>1
<1>15. Fitting(k, Behind) /\ r \in DOMAIN seen /\ Len(At(seen, r)) = Depth
  BY <1>5, <1>6
<1>16. /\ Len(g.controls) = Depth /\ \A j \in 1..Depth : g.controls[j] = k[j]
  BY <1>8, <1>10
<1> HIDE DEF k
<1> QED  BY <1>1, <1>10, <1>11, <1>12, <1>13, <1>14, <1>15, <1>16, LandOn

LEMMA IfOn == ASSUME Midway, RunIf PROVE Advances
<1> DEFINE g == pop_typed(Fetched, "i32")
           f == EnterFrame(g, x.pc, KindOf(Opcode(code, x.pc)))
<1>1. Opcode(code, x.pc) = \h04
  BY DEF RunIf, Running
<1>2. /\ Opcode(code, x.pc) \in ControlOps /\ Opcode(code, x.pc) \in Openers
      /\ KindOf(Opcode(code, x.pc)) = "if"
  BY <1>1 DEF ControlOps, Openers, KindOf
<1>3. FetchControl(x.pc) = Fetched
  BY <1>2, FetchControlIs
<1>4. OpenerKnown
  BY <1>2, OpenerIs
<1>5. sc.openers[x.pc].else_pc = paired[x.pc].else_pc /\ sc.openers[x.pc].end_pc = paired[x.pc].end_pc
  BY <1>4 DEF OpenerKnown, InfoOf
<1>6. \E condition \in BOOLEAN :
        Continue(IF f.outcome # OK \/ condition THEN f
                 ELSE IF paired[x.pc].else_pc # 0 THEN Goto(f, paired[x.pc].else_pc + 1)
                 ELSE [f EXCEPT !.stack = Truncate(@, Last(f.controls).height),
                                !.controls = Front(@), !.pc = paired[x.pc].end_pc + 1])
  BY <1>2, <1>3, <1>5 DEF RunIf
<1>7. ~v.dipped => Swap(Operands, OperandsBehind, <<"i32">>, <<>>)
  BY <1>1, MatchingIs DEF Matching, Flows
<1>8. Works(Fetched, g) /\ (~v.dipped => g.outcome = OK /\ g.stack = OperandsBehind)
  BY <1>7, PoppedOn
<1> HIDE DEF g
<1>9. Onward(f)
  BY <1>2, <1>8, EnterOn
<1>10. ASSUME f.outcome = OK PROVE f.pc = Behind /\ Len(f.controls) = Depth + 1
  <2>1. /\ g.outcome = OK /\ Len(Signature(code, x.pc).params) <= Len(g.stack)
        /\ f = [g EXCEPT !.pc = Behind, !.controls = Append(x.controls, FrameOf(g.stack))]
    BY <1>2, <1>8, <1>10, EnterFrameIs DEF OK, OperandErrors
  <2> QED  BY <1>2, <1>8, <2>1, EnteredIs
<1> HIDE DEF f
<1>11. CASE Continue(f)
  BY <1>9, <1>11 DEF Advances
<1>12. CASE f.outcome = OK /\ paired[x.pc].else_pc # 0 /\ Continue(Goto(f, paired[x.pc].else_pc + 1))
  <2>1. Onward(Goto(f, paired[x.pc].else_pc + 1))
    BY <1>1, <1>9, <1>10, <1>12, SecondArm
  <2> QED  BY <1>12, <2>1 DEF Advances
<1>13. CASE f.outcome = OK /\ paired[x.pc].else_pc = 0
            /\ Continue([f EXCEPT !.stack = Truncate(@, Last(f.controls).height),
                                  !.controls = Front(@), !.pc = paired[x.pc].end_pc + 1])
  <2>1. Onward([f EXCEPT !.stack = Truncate(@, Last(f.controls).height),
                         !.controls = Front(@), !.pc = paired[x.pc].end_pc + 1])
    BY <1>1, <1>9, <1>10, <1>13, NoSecondArm
  <2> QED  BY <1>13, <2>1 DEF Advances
<1> QED  BY <1>6, <1>11, <1>12, <1>13

LEMMA HereFits == ASSUME Midway PROVE Fitting(x.controls, x.pc)
<1>1. /\ x.pc \in DOMAIN seen /\ Placed(x) /\ Len(x.controls) = Depth /\ Depth = Len(At(seen, x.pc))
  BY StandingIs DEF Standing, Depth, Controls
<1>2. ~v.dipped => \A i \in 1..Depth : /\ ~At(seen, x.pc)[i].unreachable
                                       /\ x.controls[i].height = At(seen, x.pc)[i].height
  BY MatchingIs DEF Matching, Controls
<1> QED  BY <1>1, <1>2 DEF Fitting, Placed

\* The innermost frame, as both know it.
Innermost ==
  LET f == x.controls[Depth]
      g == Controls[Depth]
  IN /\ Last(x.controls) = f /\ x.controls # <<>> /\ f \in XFrame /\ g \in Frame
     /\ f.kind = g.kind /\ f.params = g.params /\ f.results = g.ends
     /\ f.end_pc = IF Depth = 1 THEN Len(code) ELSE paired[g.opener].end_pc
     /\ Depth > 1 => f.body_pc = g.opener + 2
     /\ ~v.dipped => f.height = g.height

LEMMA InnermostIs == ASSUME Midway PROVE Innermost
<1>1. /\ x.controls \in Seq(XFrame) /\ Len(x.controls) = Depth /\ Depth \in Nat /\ Depth > 0
      /\ Controls \in Seq(Frame) /\ Depth = Len(Controls) /\ Fitting(x.controls, x.pc)
  BY StandingIs, FetchedIs, HereFits DEF Standing, Depth
<1>2. Depth \in 1..Len(x.controls)
  BY <1>1
<1>3. Last(x.controls) = x.controls[Depth] /\ x.controls[Depth] \in XFrame
  <2> DEFINE k == x.controls
  <2>1. k \in Seq(XFrame) /\ Len(k) > 0 /\ Len(k) = Depth
    BY <1>1
  <2> HIDE DEF k
  <2>2. Last(k) = k[Len(k)] /\ Last(k) \in XFrame
    BY <2>1, LastIs
  <2> QED  BY <2>1, <2>2 DEF k
<1>4. Controls[Depth] \in Frame /\ x.controls # <<>>
  BY <1>1
<1>5. PlacedFrame(x.controls[Depth], Controls[Depth], Depth)
      /\ (~v.dipped => x.controls[Depth].height = Controls[Depth].height)
  BY <1>1, <1>2 DEF Fitting, Controls
<1> QED  BY <1>1, <1>3, <1>4, <1>5 DEF Innermost, PlacedFrame

\* What leaving the innermost frame comes to.
LEMMA ExitIs ==
  ASSUME Midway
  PROVE  LET fr == x.controls[Depth]
             f  == exit_control_frame(x)
         IN \/ f.outcome \in OperandErrors /\ f \in XState /\ ~Topped(x.stack, fr.height, fr.results)
            \/ f = [x EXCEPT !.controls = Front(x.controls)]
<1> DEFINE fr == x.controls[Depth]
           f  == exit_control_frame(x)
           s  == x.stack
           h  == fr.height
           ts == fr.results
           tail == SubSeq(s, h + 1, Len(s))
<1>1. /\ x \in XState /\ s \in Seq(ValueTypes) /\ Last(x.controls) = fr
      /\ h \in Nat /\ ts \in Seq(ValueTypes) /\ Len(s) \in Nat /\ Len(ts) \in Nat
  <2>1. x \in XState /\ s \in Seq(ValueTypes)
    BY StandingIs, FetchedIs DEF Standing
  <2>2. Last(x.controls) = fr /\ fr \in XFrame
    BY InnermostIs DEF Innermost
  <2> QED  BY <2>1, <2>2 DEF XFrame
<1> HIDE DEF fr
<1>2. CASE Len(s) # h + Len(ts)
  <2>1. f = Stuck(x, "ControlStackMismatch")
    BY <1>1, <1>2 DEF exit_control_frame
  <2>2. ~Topped(s, h, ts)
    BY <1>2 DEF Topped
  <2>3. "ControlStackMismatch" \in OperandErrors /\ "ControlStackMismatch" \in Outcomes \cup LostErrors
    BY DEF OperandErrors, Outcomes
  <2> QED  BY <1>1, <2>1, <2>2, <2>3, StuckIs DEF fr
<1>3. CASE Len(s) = h + Len(ts) /\ tail # ts
  <2>1. f = Stuck(x, "ValueTypeMismatch")
    BY <1>1, <1>3 DEF exit_control_frame
  <2>2. ~Topped(s, h, ts)
    <3> SUFFICES ASSUME Topped(s, h, ts) PROVE tail = ts
      BY <1>3
    <3> HIDE DEF s, h, ts
    <3>1. h \in 0..Len(s)
      BY <1>1, <1>3
    <3>2. tail \in Seq(ValueTypes) /\ Len(tail) = Len(s) - h /\ \A i \in 1..(Len(s) - h) : tail[i] = s[h + i]
      BY <1>1, <3>1, TailIs
    <3>3. Len(s) - h = Len(ts)
      BY <1>1, <1>3
    <3> HIDE DEF tail
    <3>4. Len(tail) = Len(ts) /\ \A i \in 1..Len(tail) : tail[i] = ts[i]
      BY <3>2, <3>3 DEF Topped
    <3> QED  BY <1>1, <3>2, <3>4, SameSequence
  <2>3. "ValueTypeMismatch" \in OperandErrors /\ "ValueTypeMismatch" \in Outcomes \cup LostErrors
    BY DEF OperandErrors, Outcomes
  <2> QED  BY <1>1, <2>1, <2>2, <2>3, StuckIs DEF fr
<1>4. CASE Len(s) = h + Len(ts) /\ tail = ts
  BY <1>1, <1>4 DEF exit_control_frame
<1> QED  BY <1>2, <1>3, <1>4

LEMMA ExitOn ==
  ASSUME Midway, NEW r \in DOMAIN seen, Len(At(seen, r)) = Depth - 1,
         \A j \in 1..(Depth - 1) : At(seen, r)[j] = Controls[j],
         ~v.dipped => /\ Topped(Operands, Controls[Depth].height, Controls[Depth].ends)
                      /\ Operands = IF r > Len(code) THEN Results ELSE Ops(seen, r)
  PROVE  Onward(Goto(exit_control_frame(x), r))
<1> DEFINE f == exit_control_frame(x)
           fr == x.controls[Depth]
           k == x.controls
           n == Depth - 1
<1>1. /\ x \in XState /\ x.outcome = OK /\ Innermost /\ Fitting(k, x.pc) /\ k \in Seq(XFrame)
      /\ Len(k) = Depth /\ Depth \in Nat /\ Depth > 0 /\ x.stack \in Seq(ValueTypes)
  BY StandingIs, FetchedIs, InnermostIs, HereFits DEF Standing
<1>2. r \in Nat
  BY InsideIs DEF Midway
<1>3. /\ Front(k) \in Seq(XFrame) /\ Len(Front(k)) = Depth - 1
      /\ \A j \in 1..(Depth - 1) : Front(k)[j] = k[j]
  <2>1. Len(k) > 0
    BY <1>1
  <2> HIDE DEF k
  <2>2. /\ Front(k) \in Seq(XFrame) /\ Len(Front(k)) = Len(k) - 1
        /\ \A j \in 1..(Len(k) - 1) : Front(k)[j] = k[j]
    BY <1>1, <2>1, FrontIs
  <2> QED  BY <1>1, <2>2
<1>4. \/ f.outcome \in OperandErrors /\ f \in XState /\ ~Topped(x.stack, fr.height, fr.results)
      \/ f = [x EXCEPT !.controls = Front(k)]
  BY ExitIs
<1>5. CASE f.outcome \in OperandErrors /\ f \in XState /\ ~Topped(x.stack, fr.height, fr.results)
  <2> HIDE DEF f
  <2>1. v.dipped
    <3> SUFFICES ASSUME ~v.dipped PROVE FALSE
      OBVIOUS
    <3>1. x.stack = Operands
      BY MatchingIs DEF Matching
    <3>2. fr.height = Controls[Depth].height /\ fr.results = Controls[Depth].ends
      BY <1>1 DEF Innermost
    <3> QED  BY <1>5, <3>1, <3>2
  <2>2. f.outcome # OK /\ f.outcome \in Outcomes
    BY <1>5 DEF OK, OperandErrors, Outcomes
  <2>3. Goto(f, r) = f
    BY <2>2 DEF Goto
  <2>4. Onward(f)
    BY <1>5, <2>1, <2>2, StopsOn
  <2> QED  BY <2>3, <2>4 DEF f
<1>6. CASE f = [x EXCEPT !.controls = Front(k)]
  <2> DEFINE g == Goto(f, r)
             k2 == Front(k)
  <2>1. g = Moved(x, x.stack, k2, r)
    BY <1>1, <1>6 DEF Goto, Moved, XState
  <2> HIDE DEF g, k2
  <2>2. MovedSo(x, x.stack, k2, r)
    BY <1>1, <1>2, <1>3, MovedIs DEF k2
  <2>3. g \in XState /\ g.outcome = OK /\ g.pc = r /\ g.controls = k2 /\ g.stack = x.stack
    BY <1>1, <2>1, <2>2 DEF MovedSo
  <2>4. Len(g.controls) = n /\ \A j \in 1..n : g.controls[j] = k[j]
    BY <1>3, <2>3 DEF k2
  <2>5. ~v.dipped => g.stack = IF r > Len(code) THEN Results ELSE Ops(seen, r)
    BY <2>3, MatchingIs DEF Matching
  <2>6. n \in Nat /\ n <= Len(k) /\ Len(k) \in Nat
    BY <1>1
  <2>7. \A j \in 1..n : At(seen, r)[j] = At(seen, x.pc)[j]
    BY DEF Controls
  <2>8. Len(At(seen, r)) = n /\ Fitting(k, x.pc)
    BY <1>1
  <2> HIDE DEF n, k
  <2>9. Onward(g)
    BY <2>3, <2>4, <2>5, <2>6, <2>7, <2>8, LandOn
  <2> QED  BY <2>9 DEF g
<1> QED  BY <1>4, <1>5, <1>6

\* Leaving a block, at its end or where its first arm ends.
LEMMA LeaveOn ==
  ASSUME Midway, Depth > 1, Opcode(code, x.pc) \in {\h05, \h0B}
  PROVE  Onward(Goto(exit_control_frame(x), paired[Controls[Depth].opener].end_pc + 1))
<1> DEFINE r == paired[Controls[Depth].opener].end_pc + 1
           h == Controls[Depth].height
           ts == Controls[Depth].ends
<1>1. /\ Complete /\ x.pc \in DOMAIN seen /\ Depth = Len(At(seen, x.pc)) /\ Depth \in Nat
      /\ Depth \in 2..Len(At(seen, x.pc)) /\ x.pc \in Nat /\ Len(code) \in Nat
      /\ Controls[Depth] \in Frame
  <2>1. /\ Complete /\ x.pc \in DOMAIN seen /\ Depth = Len(At(seen, x.pc)) /\ Depth \in Nat
        /\ x.pc \in Nat /\ Len(code) \in Nat /\ Controls[Depth] \in Frame
    BY StandingIs, InnermostIs DEF Standing, Midway, Depth, Controls, Innermost
  <2> QED  BY <2>1
<1>2. EndOf(x.pc, Depth)
  BY <1>1, EndIs
<1>3. /\ r \in DOMAIN seen /\ r <= Len(code) /\ Len(At(seen, r)) = Depth - 1 /\ r \in Nat
      /\ SamePrefix(Controls, At(seen, r), Depth - 1)
  BY <1>2 DEF EndOf, Controls
<1>4. ASSUME ~v.dipped PROVE Topped(Operands, h, ts) /\ Operands = Ops(seen, r)
  <2>1. Topped(Operands, h, ts)
    BY <1>1, <1>4, MatchingIs DEF Matching, Flows, Depth
  <2>2. LandingOf(x.pc, Depth)
    BY <1>1, <1>4, LandingIs, MatchingIs DEF Matching
  <2>3. /\ h \in Nat /\ Operands \in Seq(ValueTypes) /\ Ops(seen, r) \in Seq(ValueTypes)
        /\ Below(Operands, Ops(seen, r), h) /\ Topped(Ops(seen, r), h, ts)
    BY <2>2 DEF LandingOf, Operands, Controls
  <2>4. ts \in Seq(ValueTypes)
    BY <1>1 DEF Frame
  <2> HIDE DEF h, ts, r
  <2>5. Operands = Ops(seen, r)
    BY <2>1, <2>3, <2>4, SameOperands
  <2> QED  BY <2>1, <2>5
<1> HIDE DEF r
<1>5. ~(r > Len(code))
  BY <1>1, <1>3
<1>6. Onward(Goto(exit_control_frame(x), r))
  BY <1>3, <1>4, <1>5, ExitOn DEF SamePrefix
<1> QED  BY <1>6 DEF r

LEMMA ElseOn == ASSUME Midway, RunElse PROVE Advances
<1> DEFINE fr == x.controls[Depth]
<1>1. Opcode(code, x.pc) = \h05
  BY DEF RunElse, Running
<1>2. /\ Moves(code, x.pc, x.pc, Controls, ControlsBehind) /\ Depth = Len(Controls)
      /\ x.pc \in DOMAIN seen /\ Depth \in Nat /\ Depth > 0 /\ Complete /\ Depth = Len(At(seen, x.pc))
  BY StandingIs DEF Standing, Depth, Midway, Controls
<1>20. Depth \in Nat /\ Depth > 0
  BY <1>2
<1>3. Controls[Depth].kind = "if"
  BY <1>1, <1>2 DEF Moves, ElseMove
<1>4. Depth > 1
  <2>1. FramesAt(code, seen, x.pc)
    BY <1>2 DEF Complete, VInv, Boundaries
  <2>2. /\ Controls = At(seen, x.pc) /\ Depth \in 1..Len(At(seen, x.pc))
        /\ \A i \in 1..Len(At(seen, x.pc)) : At(seen, x.pc)[i].kind = "function" <=> i = 1
    BY <1>2, <2>1 DEF FramesAt, Controls
  <2>3. Controls[Depth].kind = "function" <=> Depth = 1
    BY <2>2
  <2> QED  BY <1>20, <1>3, <2>3
<1>5. /\ Last(x.controls).kind = "if" /\ x.controls # <<>>
      /\ Last(x.controls).end_pc = paired[Controls[Depth].opener].end_pc
  <2>1. /\ Last(x.controls) = fr /\ x.controls # <<>> /\ fr.kind = Controls[Depth].kind
        /\ fr.end_pc = IF Depth = 1 THEN Len(code) ELSE paired[Controls[Depth].opener].end_pc
    BY InnermostIs DEF Innermost
  <2> HIDE DEF fr
  <2>2. Depth # 1
    BY <1>20, <1>4
  <2> QED  BY <1>3, <2>1, <2>2
<1>6. Continue(Goto(exit_control_frame(x), paired[Controls[Depth].opener].end_pc + 1))
  BY <1>5 DEF RunElse
<1>7. Onward(Goto(exit_control_frame(x), paired[Controls[Depth].opener].end_pc + 1))
  BY <1>1, <1>4, LeaveOn
<1> QED  BY <1>6, <1>7 DEF Advances

LEMMA EndOn == ASSUME Midway, RunEnd PROVE Advances
<1> DEFINE fr == x.controls[Depth]
<1>1. Opcode(code, x.pc) = \h0B
  BY DEF RunEnd, Running
<1>2. /\ Moves(code, x.pc, x.pc, Controls, ControlsBehind) /\ Depth = Len(Controls)
      /\ x.pc \in DOMAIN seen /\ Depth \in Nat /\ Depth > 0 /\ Complete /\ Depth = Len(At(seen, x.pc))
      /\ x.pc <= Len(code) /\ x.pc \in Nat /\ Len(code) \in Nat /\ Behind \in DOMAIN seen
      /\ Controls = At(seen, x.pc) /\ ReadableAt(code, seen, x.pc)
  BY StandingIs DEF Standing, Depth, Midway, Controls
<1>20. Depth \in Nat /\ Depth > 0
  BY <1>2
<1>3. /\ Last(x.controls) = fr /\ x.controls # <<>>
      /\ fr.end_pc = IF Depth = 1 THEN Len(code) ELSE paired[Controls[Depth].opener].end_pc
  BY InnermostIs DEF Innermost
<1> HIDE DEF fr
<1>4. EndMove(Controls, ControlsBehind)
  BY <1>1, <1>2 DEF Moves
<1>5. /\ Len(ControlsBehind) = Depth - 1
      /\ \A j \in 1..(Depth - 1) : ControlsBehind[j] = Controls[j]
  BY <1>2, <1>4 DEF EndMove
<1>6. CASE Depth > 1
  <2>1. paired[Controls[Depth].opener].end_pc = x.pc
    BY <1>1, <1>2, <1>6 DEF Complete, VInv, Pairing
  <2>2. Depth # 1
    BY <1>20, <1>6
  <2>3. Continue(Goto(exit_control_frame(x), x.pc + 1))
    BY <1>3, <2>1, <2>2 DEF RunEnd
  <2>4. Onward(Goto(exit_control_frame(x), x.pc + 1))
    BY <1>1, <1>6, <2>1, LeaveOn
  <2> QED  BY <2>3, <2>4 DEF Advances
<1>7. CASE Depth = 1
  <2>1. Behind = x.pc + 1
    <3>1. WidthAt(code, x.pc) = 0
      BY <1>1, <1>2, ControlWidths DEF ReadableAt
    <3> QED  BY <1>2, <3>1 DEF Behind, After
  <2>2. Behind = Len(code) + 1
    <3>1. Len(At(seen, Behind)) = 0
      BY <1>5, <1>7 DEF ControlsBehind
    <3> QED  BY <1>2, <3>1, InsideIs
  <2>3. fr.end_pc = x.pc
    BY <1>2, <1>3, <1>7, <2>1, <2>2
  <2>4. Continue(Goto(exit_control_frame(x), Behind))
    BY <1>3, <2>1, <2>3 DEF RunEnd
  <2>5. ASSUME ~v.dipped
        PROVE  Topped(Operands, Controls[Depth].height, Controls[Depth].ends) /\ Operands = Results
    <3>1. Topped(Operands, Controls[Depth].height, Controls[Depth].ends)
      BY <1>1, <1>2, <2>5, MatchingIs DEF Matching, Flows
    <3>2. FramesAt(code, seen, x.pc)
      BY <1>2 DEF Complete, VInv, Boundaries
    <3>3. Controls[Depth].height = 0 /\ Controls[Depth].ends = Results /\ Operands \in Seq(ValueTypes)
      BY <1>2, <1>7, <3>2 DEF FramesAt, Operands
    <3>4. Results \in Seq(ValueTypes)
      BY ContextAssumption
    <3>5. Len(Operands) = Len(Results) /\ \A i \in 1..Len(Results) : Operands[i] = Results[i]
      BY <3>1, <3>3, <3>4 DEF Topped
    <3>6. Operands = Results
      BY <3>3, <3>4, <3>5, SameSequence
    <3> QED  BY <3>1, <3>6
  <2>6. Behind > Len(code) /\ At(seen, Behind) = ControlsBehind
    BY <1>2, <2>2 DEF ControlsBehind
  <2>7. Onward(Goto(exit_control_frame(x), Behind))
    BY <1>2, <1>5, <2>5, <2>6, ExitOn
  <2> QED  BY <2>4, <2>7 DEF Advances
<1> QED  BY <1>20, <1>6, <1>7

-----------------------------------------------------------------------------
(* Branches.                                                               *)

\* Where a branch to frame i leads: the boundary, and how many frames are left there.
TargetPc(i) ==
  LET f == Controls[i]
  IN IF i = 1 THEN Len(code) + 1
     ELSE IF f.kind = "loop" THEN f.opener + 2 ELSE paired[f.opener].end_pc + 1
TargetDepth(i) == IF Controls[i].kind = "loop" THEN i ELSE i - 1

Target(i) ==
  LET f == x.controls[i]
      g == Controls[i]
      r == TargetPc(i)
      n == TargetDepth(i)
  IN /\ r \in DOMAIN seen /\ r \in Nat /\ n \in Nat /\ n <= Depth /\ Len(At(seen, r)) = n
     /\ \A j \in 1..n : \/ At(seen, r)[j] = Controls[j]
                        \/ SameFrame(At(seen, r)[j], Controls[j]) /\ ~At(seen, r)[j].unreachable
     /\ f.kind \in {"function", "loop", "block", "if"}
     /\ f.kind = "loop" => r = f.body_pc /\ n = i
     /\ f.kind \in {"block", "if"} => r = f.end_pc + 1 /\ n = i - 1
     /\ f.kind = "function" => r = Len(code) + 1 /\ n = 0
     /\ f.height \in Nat /\ RuntimeLabel(f) = LabelTypes(g) /\ LabelTypes(g) \in Seq(ValueTypes)

LEMMA TargetIs == ASSUME Midway, NEW i \in 1..Depth PROVE Target(i)
<1> DEFINE f == x.controls[i]
           g == Controls[i]
           r == TargetPc(i)
           n == TargetDepth(i)
<1>1. /\ Complete /\ x.pc \in DOMAIN seen /\ Len(code) + 1 \in DOMAIN seen /\ Len(code) + 1 \in Nat
      /\ Controls \in Seq(Frame) /\ x.controls \in Seq(XFrame) /\ Len(x.controls) = Len(Controls)
      /\ Controls = At(seen, x.pc) /\ FramesAt(code, seen, x.pc)
      /\ Len(At(seen, Len(code) + 1)) = 0 /\ Fitting(x.controls, x.pc)
  <2>1. /\ Complete /\ x.pc \in DOMAIN seen /\ Len(code) \in Nat /\ Fitting(x.controls, x.pc)
        /\ Controls \in Seq(Frame) /\ x.controls \in Seq(XFrame) /\ Len(x.controls) = Len(Controls)
    BY StandingIs, FetchedIs, HereFits DEF Standing, Midway, Depth
  <2>2. Len(code) + 1 \in DOMAIN seen /\ FramesAt(code, seen, x.pc)
    BY <2>1 DEF Complete, VInv, Boundaries, Readable
  <2> QED  BY <2>1, <2>2, InsideIs DEF Controls
<1>2. /\ i \in Nat /\ i >= 1 /\ i <= Len(Controls) /\ Len(Controls) \in Nat
      /\ i \in 1..Len(x.controls) /\ i \in 1..Len(Controls)
  BY <1>1 DEF Depth
<1>3. f \in XFrame /\ g \in Frame /\ (g.kind = "function" <=> i = 1)
  BY <1>1, <1>2 DEF FramesAt
<1>4. /\ f.kind = g.kind /\ f.params = g.params /\ f.results = g.ends
      /\ f.end_pc = IF i = 1 THEN Len(code) ELSE paired[g.opener].end_pc
      /\ i > 1 => f.body_pc = g.opener + 2
  <2>1. PlacedFrame(f, At(seen, x.pc)[i], i)
    BY <1>1, <1>2 DEF Fitting
  <2> QED  BY <1>1, <2>1 DEF PlacedFrame
<1>5. /\ f.kind \in {"function", "loop", "block", "if"} /\ f.height \in Nat
      /\ RuntimeLabel(f) = LabelTypes(g) /\ LabelTypes(g) \in Seq(ValueTypes)
  <2>1. f.kind \in {"function", "loop", "block", "if"} /\ f.height \in Nat
        /\ g.params \in Seq(ValueTypes) /\ g.ends \in Seq(ValueTypes)
    BY <1>3 DEF XFrame, Frame
  <2> QED  BY <1>4, <2>1 DEF RuntimeLabel, LabelTypes
<1>6. CASE i = 1
  <2>1. g.kind = "function" /\ f.kind = "function"
    BY <1>3, <1>4, <1>6
  <2>2. r = Len(code) + 1 /\ n = 0
    BY <1>6, <2>1 DEF TargetPc, TargetDepth
  <2>3. r \in DOMAIN seen /\ r \in Nat /\ Len(At(seen, r)) = 0 /\ 0 <= Depth
    BY <1>1, <1>2, <2>2 DEF Depth
  <2> HIDE DEF f, g, r, n
  <2> QED  BY <1>5, <2>1, <2>2, <2>3 DEF Target, f, g, r, n
<1>7. CASE i # 1 /\ g.kind = "loop"
  <2>1. i \in 2..Len(At(seen, x.pc))
    BY <1>1, <1>2, <1>7
  <2>2. HomeOf(x.pc, i)
    BY <1>1, <2>1, HomeIs
  <2>3. r = g.opener + 2 /\ n = i /\ f.body_pc = r /\ f.kind = "loop"
    BY <1>2, <1>4, <1>7 DEF TargetPc, TargetDepth
  <2>4. /\ r \in DOMAIN seen /\ g.opener \in Nat /\ Len(At(seen, r)) = i
        /\ SamePrefix(Controls, At(seen, r), i - 1) /\ SameFrame(At(seen, r)[i], g)
        /\ ~At(seen, r)[i].unreachable
    BY <1>1, <2>2, <2>3 DEF HomeOf
  <2>5. ASSUME NEW j \in 1..i
        PROVE  \/ At(seen, r)[j] = Controls[j]
               \/ SameFrame(At(seen, r)[j], Controls[j]) /\ ~At(seen, r)[j].unreachable
    <3>1. CASE j = i
      BY <2>4, <3>1
    <3>2. CASE j # i
      <4>1. j \in 1..(i - 1)
        BY <1>2, <3>2
      <4> QED  BY <2>4, <4>1 DEF SamePrefix
    <3> QED  BY <3>1, <3>2
  <2>6. r \in Nat /\ n \in Nat /\ n <= Depth
    BY <1>2, <2>3, <2>4 DEF Depth
  <2> HIDE DEF f, g, r, n
  <2> QED  BY <1>5, <2>3, <2>4, <2>5, <2>6 DEF Target, f, g, r, n
<1>8. CASE i # 1 /\ g.kind # "loop"
  <2>1. i \in 2..Len(At(seen, x.pc))
    BY <1>1, <1>2, <1>8
  <2>2. EndOf(x.pc, i)
    BY <1>1, <2>1, EndIs
  <2>3. r = paired[g.opener].end_pc + 1 /\ n = i - 1 /\ f.end_pc + 1 = r /\ f.kind \in {"block", "if"}
    BY <1>2, <1>3, <1>4, <1>5, <1>8 DEF TargetPc, TargetDepth
  <2>4. /\ r \in DOMAIN seen /\ paired[g.opener].end_pc \in Nat /\ Len(At(seen, r)) = i - 1
        /\ SamePrefix(Controls, At(seen, r), i - 1)
    BY <1>1, <2>2, <2>3 DEF EndOf
  <2>5. \A j \in 1..n : At(seen, r)[j] = Controls[j]
    BY <2>3, <2>4 DEF SamePrefix
  <2>6. r \in Nat /\ n \in Nat /\ n <= Depth
    BY <1>2, <2>3, <2>4 DEF Depth
  <2> HIDE DEF f, g, r, n
  <2> QED  BY <1>5, <2>3, <2>4, <2>5, <2>6 DEF Target, f, g, r, n
<1> QED  BY <1>6, <1>7, <1>8

\* The operands there: what lies below the frame, and its label's types.
LandsAt(i) ==
  LET h  == Controls[i].height
      ts == LabelTypes(Controls[i])
      r  == TargetPc(i)
  IN /\ h \in Nat /\ h <= Controls[Depth].height /\ h <= Len(Operands)
     /\ x.controls[i].height = h
     /\ IF r > Len(code) THEN h = 0 /\ ts = Results
        ELSE /\ Ops(seen, r) \in Seq(ValueTypes)
             /\ Below(Operands, Ops(seen, r), h) /\ Topped(Ops(seen, r), h, ts)

LEMMA LandsIs == ASSUME Midway, ~v.dipped, NEW i \in 1..Depth PROVE LandsAt(i)
<1> DEFINE g  == Controls[i]
           h  == Controls[i].height
           ts == LabelTypes(Controls[i])
           r  == TargetPc(i)
<1>1. /\ Complete /\ x.pc \in DOMAIN seen /\ Len(code) \in Nat /\ Controls \in Seq(Frame)
      /\ Controls = At(seen, x.pc) /\ FramesAt(code, seen, x.pc) /\ Operands \in Seq(ValueTypes)
  <2>1. Complete /\ x.pc \in DOMAIN seen /\ Len(code) \in Nat /\ Controls \in Seq(Frame)
        /\ Operands \in Seq(ValueTypes)
    BY StandingIs DEF Standing, Midway
  <2> QED  BY <2>1 DEF Complete, VInv, Boundaries, Controls
<1>2. /\ i \in Nat /\ i >= 1 /\ i <= Len(Controls) /\ Len(Controls) \in Nat /\ i \in 1..Len(Controls)
  BY <1>1 DEF Depth
<1>3. g \in Frame /\ (g.kind = "function" <=> i = 1) /\ (i = 1 => h = 0 /\ g.ends = Results)
  BY <1>1, <1>2 DEF FramesAt
<1>4. /\ Stacks(code, seen) /\ h <= Controls[Depth].height /\ x.controls[i].height = h
      /\ Controls[Depth].height <= Len(Operands)
  BY MatchingIs DEF Matching
<1>5. h \in Nat /\ Len(Operands) \in Nat /\ h <= Len(Operands)
  <2>1. h \in Nat
    BY <1>3 DEF Frame
  <2>2. Controls[Depth].height \in Nat
    BY InnermostIs DEF Innermost, Frame
  <2> QED  BY <1>1, <1>4, <2>1, <2>2
<1>6. CASE i = 1
  <2>1. ts = Results /\ h = 0 /\ r = Len(code) + 1
    BY <1>3, <1>6 DEF LabelTypes, TargetPc
  <2>2. r > Len(code)
    BY <1>1, <2>1
  <2> HIDE DEF h, ts, r
  <2> QED  BY <1>4, <1>5, <2>1, <2>2 DEF LandsAt, h, ts, r
<1>7. CASE i # 1 /\ g.kind = "loop"
  <2>1. i \in 2..Len(At(seen, x.pc))
    BY <1>1, <1>2, <1>7
  <2>2. HomeOf(x.pc, i) /\ LandingOf(x.pc, i)
    BY <1>1, <1>4, <2>1, HomeIs, LandingIs
  <2>3. r = g.opener + 2 /\ ts = g.params
    BY <1>2, <1>7 DEF TargetPc, LabelTypes
  <2>4. g.opener \in Nat /\ r <= Len(code)
    BY <1>1, <2>2, <2>3 DEF HomeOf
  <2>5. Ops(seen, r) \in Seq(ValueTypes) /\ Below(Operands, Ops(seen, r), h) /\ Topped(Ops(seen, r), h, ts)
    BY <1>1, <2>2, <2>3 DEF LandingOf, Operands
  <2>6. ~(r > Len(code))
    BY <1>1, <2>3, <2>4
  <2> HIDE DEF h, ts, r
  <2> QED  BY <1>4, <1>5, <2>5, <2>6 DEF LandsAt, h, ts, r
<1>8. CASE i # 1 /\ g.kind # "loop"
  <2>1. i \in 2..Len(At(seen, x.pc))
    BY <1>1, <1>2, <1>8
  <2>2. EndOf(x.pc, i) /\ LandingOf(x.pc, i)
    BY <1>1, <1>4, <2>1, EndIs, LandingIs
  <2>3. r = paired[g.opener].end_pc + 1 /\ ts = g.ends
    BY <1>2, <1>8 DEF TargetPc, LabelTypes
  <2>4. paired[g.opener].end_pc \in Nat /\ r <= Len(code)
    BY <1>1, <2>2, <2>3 DEF EndOf
  <2>5. Ops(seen, r) \in Seq(ValueTypes) /\ Below(Operands, Ops(seen, r), h) /\ Topped(Ops(seen, r), h, ts)
    BY <1>1, <2>2, <2>3 DEF LandingOf, Operands
  <2>6. ~(r > Len(code))
    BY <1>1, <2>3, <2>4
  <2> HIDE DEF h, ts, r
  <2> QED  BY <1>4, <1>5, <2>5, <2>6 DEF LandsAt, h, ts, r
<1> QED  BY <1>6, <1>7, <1>8

\* What a branch comes to.
Landed(f, i) ==
  Truncate(f.stack, x.controls[i].height) \o LastN(f.stack, Len(LabelTypes(Controls[i])))
Holds(f, i) ==
  LET ts == LabelTypes(Controls[i])
  IN /\ Len(ts) + x.controls[Depth].height <= Len(f.stack)
     /\ LastN(f.stack, Len(ts)) = ts
LEMMA BranchIs ==
  ASSUME Midway, NEW f \in XState, f.outcome = OK, f.controls = x.controls,
         NEW depth \in Nat, depth < Depth
  PROVE  LET i == Depth - depth
             r == branch_to(f, depth)
         IN \/ r.outcome \in OperandErrors /\ r \in XState /\ ~Holds(f, i)
            \/ /\ r = Moved(f, Landed(f, i), SubSeq(x.controls, 1, TargetDepth(i)), TargetPc(i))
               /\ Len(LabelTypes(Controls[i])) <= Len(f.stack)
<1> DEFINE i == Depth - depth
           r == branch_to(f, depth)
           ts == LabelTypes(Controls[i])
           s == f.stack
           fr == x.controls[i]
           above == Len(s) - x.controls[Depth].height
           values == LastN(s, Len(ts))
           landed == Landed(f, i)
<1>1. /\ Len(x.controls) = Depth /\ Depth \in Nat /\ s \in Seq(ValueTypes) /\ Len(s) \in Nat
  BY StandingIs DEF Standing, XState
<1>2. i \in 1..Depth
  BY <1>1
<1>3. Target(i) /\ Innermost
  BY <1>2, TargetIs, InnermostIs
<1>4. /\ RuntimeLabel(fr) = ts /\ ts \in Seq(ValueTypes) /\ fr.height \in Nat /\ Len(ts) \in Nat
      /\ Last(x.controls) = x.controls[Depth] /\ x.controls[Depth].height \in Nat
      /\ fr.kind \in {"function", "loop", "block", "if"}
      /\ fr.kind = "loop" => TargetPc(i) = fr.body_pc /\ TargetDepth(i) = i
      /\ fr.kind \in {"block", "if"} => TargetPc(i) = fr.end_pc + 1 /\ TargetDepth(i) = i - 1
      /\ fr.kind = "function" => TargetPc(i) = Len(code) + 1 /\ TargetDepth(i) = 0
  BY <1>3 DEF Target, Innermost, XFrame
<1>5. ~(depth >= Len(f.controls)) /\ Len(f.controls) - depth = i
  BY <1>1
<1>6. landed = Truncate(s, fr.height) \o values
  BY DEF Landed
<1>7. r = IF (IF above < 0 THEN 0 ELSE above) < Len(ts) THEN Stuck(f, "StackUnderflow")
          ELSE IF values # ts THEN Stuck(f, "ValueTypeMismatch")
          ELSE CASE fr.kind = "loop" ->
                      [f EXCEPT !.stack = landed, !.controls = SubSeq(@, 1, i), !.pc = fr.body_pc]
                 [] fr.kind \in {"block", "if"} ->
                      [f EXCEPT !.stack = landed, !.controls = SubSeq(@, 1, i - 1), !.pc = fr.end_pc + 1]
                 [] fr.kind = "function" ->
                      [f EXCEPT !.stack = landed, !.controls = <<>>, !.pc = Len(code) + 1]
  BY <1>4, <1>5, <1>6 DEF branch_to
<1> HIDE DEF r, ts, s, fr, values, landed, i
<1>8. CASE (IF above < 0 THEN 0 ELSE above) < Len(ts)
  <2>1. r = Stuck(f, "StackUnderflow")
    BY <1>7, <1>8
  <2>2. ~(Len(ts) + x.controls[Depth].height <= Len(s))
    BY <1>1, <1>4, <1>8
  <2>3. ~Holds(f, i)
    BY <2>2 DEF Holds, ts, s
  <2>4. r \in XState /\ r.outcome \in OperandErrors
    BY <2>1, StuckIs DEF OperandErrors, Outcomes
  <2> QED  BY <2>3, <2>4 DEF r, i
<1>9. CASE ~((IF above < 0 THEN 0 ELSE above) < Len(ts)) /\ values # ts
  <2>1. r = Stuck(f, "ValueTypeMismatch")
    BY <1>7, <1>9
  <2>2. ~Holds(f, i)
    BY <1>9 DEF Holds, ts, s, values
  <2>3. r \in XState /\ r.outcome \in OperandErrors
    BY <2>1, StuckIs DEF OperandErrors, Outcomes
  <2> QED  BY <2>2, <2>3 DEF r, i
<1>10. CASE ~((IF above < 0 THEN 0 ELSE above) < Len(ts)) /\ values = ts
  <2>1. Len(ts) <= Len(s)
    BY <1>1, <1>4, <1>10
  <2> DEFINE k == x.controls
             want == Moved(f, landed, SubSeq(k, 1, TargetDepth(i)), TargetPc(i))
  <2>2. ASSUME fr.kind = "loop" PROVE r = want
    <3>1. r = [f EXCEPT !.stack = landed, !.controls = SubSeq(f.controls, 1, i), !.pc = fr.body_pc]
      BY <1>7, <1>10, <2>2
    <3>2. r = Moved(f, landed, SubSeq(f.controls, 1, i), fr.body_pc)
      BY <3>1 DEF Moved
    <3> QED  BY <1>4, <2>2, <3>2
  <2>3. ASSUME fr.kind \in {"block", "if"} PROVE r = want
    <3>1. r = [f EXCEPT !.stack = landed, !.controls = SubSeq(f.controls, 1, i - 1), !.pc = fr.end_pc + 1]
      BY <1>7, <1>10, <2>3
    <3>2. r = Moved(f, landed, SubSeq(f.controls, 1, i - 1), fr.end_pc + 1)
      BY <3>1 DEF Moved
    <3> QED  BY <1>4, <2>3, <3>2
  <2>4. ASSUME fr.kind = "function" PROVE r = want
    <3>1. r = [f EXCEPT !.stack = landed, !.controls = <<>>, !.pc = Len(code) + 1]
      BY <1>7, <1>10, <2>4
    <3>2. SubSeq(k, 1, 0) = <<>>
      BY FetchedIs
    <3>3. r = Moved(f, landed, <<>>, Len(code) + 1)
      BY <3>1 DEF Moved
    <3> QED  BY <1>4, <2>4, <3>2, <3>3
  <2> HIDE DEF want
  <2>5. r = want
    BY <1>4, <2>2, <2>3, <2>4
  <2> QED  BY <2>1, <2>5 DEF want, r, ts, s, landed, i
<1> QED  BY <1>8, <1>9, <1>10

\* The top of an operand stack, taken off and put onto a lower floor.
LEMMA LandedIs ==
  ASSUME NEW s \in Seq(ValueTypes), NEW h \in Nat, NEW ts \in Seq(ValueTypes),
         Len(ts) <= Len(s), h <= Len(s), NEW t \in Seq(ValueTypes), LastN(s, Len(ts)) = ts,
         Below(s, t, h), Topped(t, h, ts)
  PROVE  Truncate(s, h) \o LastN(s, Len(ts)) = t
<1> DEFINE a == Truncate(s, h)
           r == a \o ts
<1>1. Len(s) \in Nat /\ Len(ts) \in Nat
  OBVIOUS
<1>2. a \in Seq(ValueTypes) /\ Len(a) = h /\ \A i \in 1..h : a[i] = s[i]
  <2>1. Len(a) = h
    BY <1>1, TruncateIs
  <2> QED  BY <2>1, TruncateIs
<1> HIDE DEF a
<1>3. /\ r \in Seq(ValueTypes) /\ Len(r) = Len(a) + Len(ts)
      /\ \A i \in 1..Len(a) : r[i] = a[i]
      /\ \A i \in 1..Len(ts) : r[Len(a) + i] = ts[i]
  <2>1. a \in Seq(ValueTypes) /\ ts \in Seq(ValueTypes)
    BY <1>2
  <2> QED  BY ONLY <2>1, ConcatIs
<1> HIDE DEF r
<1>4. Below(r, t, h)
  <2>1. h <= Len(r) /\ h <= Len(t)
    BY <1>1, <1>2, <1>3 DEF Below
  <2>2. \A i \in 1..h : r[i] = t[i]
    BY <1>2, <1>3 DEF Below
  <2> QED  BY <2>1, <2>2 DEF Below
<1>5. Topped(r, h, ts)
  BY <1>2, <1>3 DEF Topped
<1>6. r = t
  BY <1>3, <1>4, <1>5, SameOperands
<1> QED  BY <1>6 DEF r, a

LEMMA HoldsIs ==
  ASSUME Midway, ~v.dipped, NEW s \in Seq(ValueTypes), NEW f \in XState, f.stack = s,
         NEW depth \in Nat, depth < Depth, LabelFits(Controls, s, depth)
  PROVE  Holds(f, Depth - depth)
<1> DEFINE i == Depth - depth
           ts == LabelTypes(Controls[i])
<1>1. Depth \in Nat /\ i \in 1..Depth /\ Len(s) \in Nat
  <2>1. Depth \in Nat
    BY StandingIs DEF Standing
  <2> QED  BY <2>1
<1>2. ts \in Seq(ValueTypes) /\ x.controls[Depth].height = Controls[Depth].height
      /\ Controls[Depth].height \in Nat
  BY <1>1, TargetIs, InnermostIs DEF Target, Innermost, Frame
<1>3. /\ Len(ts) + Controls[Depth].height <= Len(s) /\ Topped(s, Len(s) - Len(ts), ts)
  BY DEF LabelFits, Depth
<1> HIDE DEF i, ts
<1>4. Len(ts) \in Nat /\ Len(ts) \in 0..Len(s)
  BY <1>1, <1>2, <1>3
<1>5. LastN(s, Len(ts)) \in Seq(ValueTypes) /\ Len(LastN(s, Len(ts))) = Len(ts)
      /\ \A j \in 1..Len(ts) : LastN(s, Len(ts))[j] = ts[j]
  BY <1>3, <1>4, LastNIs DEF Topped
<1>6. LastN(s, Len(ts)) = ts
  BY <1>2, <1>5, SameSequence
<1> QED  BY <1>2, <1>3, <1>6 DEF Holds, i, ts

\* A branch lands on the operands its target was validated with.
LEMMA LandsOn ==
  ASSUME Midway, ~v.dipped, NEW f \in XState, NEW depth \in Nat, depth < Depth,
         LabelFits(Controls, f.stack, depth), Below(Operands, f.stack, Controls[Depth].height)
  PROVE  LET r == TargetPc(Depth - depth)
         IN Landed(f, Depth - depth) = IF r > Len(code) THEN Results ELSE Ops(seen, r)
<1> DEFINE i == Depth - depth
           s == f.stack
           ts == LabelTypes(Controls[i])
           h == Controls[i].height
           r == TargetPc(i)
           t == IF r > Len(code) THEN Results ELSE Ops(seen, r)
<1>1. Depth \in Nat /\ i \in 1..Depth /\ s \in Seq(ValueTypes)
  <2>1. Depth \in Nat
    BY StandingIs DEF Standing
  <2> QED  BY <2>1 DEF XState
<1>2. ts \in Seq(ValueTypes) /\ Controls[Depth].height \in Nat
  BY <1>1, TargetIs, InnermostIs DEF Target, Innermost, Frame
<1>3. Holds(f, i)
  BY <1>1, HoldsIs
<1>4. Len(ts) <= Len(s) /\ LastN(s, Len(ts)) = ts
  <2>1. /\ Len(ts) + x.controls[Depth].height <= Len(s) /\ LastN(s, Len(ts)) = ts
        /\ x.controls[Depth].height = Controls[Depth].height
    BY <1>3, InnermostIs DEF Holds, Innermost
  <2> HIDE DEF ts, s
  <2> QED  BY <1>1, <1>2, <2>1
<1>5. LandsAt(i)
  BY <1>1, LandsIs
<1>6. /\ h \in Nat /\ h <= Controls[Depth].height /\ h <= Len(Operands)
      /\ x.controls[i].height = h
  BY <1>5 DEF LandsAt
<1>7. t \in Seq(ValueTypes) /\ Below(Operands, t, h) /\ Topped(t, h, ts)
  <2>1. CASE r > Len(code)
    <3>1. h = 0 /\ ts = Results /\ t = Results
      BY <1>5, <2>1 DEF LandsAt
    <3> HIDE DEF h, ts, t, r
    <3>2. Below(Operands, Results, 0) /\ Topped(Results, 0, Results)
      BY <1>2, <1>6, <3>1, StandingIs DEF Below, Topped, Standing
    <3> QED  BY <1>2, <3>1, <3>2
  <2>2. CASE ~(r > Len(code))
    BY <1>5, <2>2 DEF LandsAt
  <2> QED  BY <2>1, <2>2
<1>8. Landed(f, i) = Truncate(s, h) \o LastN(s, Len(ts))
  BY <1>6 DEF Landed
<1> HIDE DEF h, ts, t, r, s, i
<1>9. Below(s, t, h) /\ h <= Len(s)
  <2>1. Below(Operands, s, h)
    BY <1>2, <1>6, BelowLess DEF s
  <2>2. Below(s, t, h)
    BY <1>7, <2>1, BelowSym, BelowTrans
  <2> QED  BY <2>2 DEF Below
<1>10. Landed(f, i) = t
  BY <1>1, <1>2, <1>4, <1>6, <1>7, <1>8, <1>9, LandedIs
<1> QED  BY <1>10 DEF t, r, i

LEMMA BranchOn ==
  ASSUME Midway, NEW f \in XState, f.outcome \in {OK} \cup OperandErrors, f.controls = x.controls,
         NEW depth \in Nat, depth < Depth,
         ~v.dipped => /\ f.outcome = OK /\ LabelFits(Controls, f.stack, depth)
                      /\ Below(Operands, f.stack, Controls[Depth].height)
  PROVE  Onward(branch_to(f, depth))
<1> DEFINE i == Depth - depth
           g == branch_to(f, depth)
           r == TargetPc(i)
           n == TargetDepth(i)
           k == x.controls
           landed == Landed(f, i)
<1>1. ASSUME f.outcome # OK PROVE Onward(g)
  <2>1. g = f
    BY <1>1 DEF branch_to
  <2> QED  BY <1>1, <2>1, StopsOn DEF Outcomes
<1>2. ASSUME f.outcome = OK PROVE Onward(g)
  <2>1. /\ Depth \in Nat /\ i \in 1..Depth /\ f.stack \in Seq(ValueTypes) /\ k \in Seq(XFrame)
        /\ Len(k) = Depth
    <3>1. Depth \in Nat /\ Len(k) = Depth /\ k \in Seq(XFrame)
      BY StandingIs, FetchedIs DEF Standing
    <3> QED  BY <3>1 DEF XState
  <2>2. \/ g.outcome \in OperandErrors /\ g \in XState /\ ~Holds(f, i)
        \/ /\ g = Moved(f, landed, SubSeq(k, 1, n), r)
           /\ Len(LabelTypes(Controls[i])) <= Len(f.stack)
    BY <1>2, BranchIs
  <2>3. /\ Target(i) /\ Fitting(k, x.pc)
        /\ ~v.dipped => Holds(f, i) /\ landed = IF r > Len(code) THEN Results ELSE Ops(seen, r)
    BY <2>1, TargetIs, HereFits, HoldsIs, LandsOn
  <2>4. /\ r \in DOMAIN seen /\ r \in Nat /\ n \in Nat /\ n <= Depth /\ Len(At(seen, r)) = n
        /\ \A j \in 1..n : \/ At(seen, r)[j] = At(seen, x.pc)[j]
                           \/ SameFrame(At(seen, r)[j], At(seen, x.pc)[j]) /\ ~At(seen, r)[j].unreachable
        /\ k[i].height \in Nat /\ LabelTypes(Controls[i]) \in Seq(ValueTypes)
    BY <2>3 DEF Target, Controls
  <2>5. CASE g.outcome \in OperandErrors /\ g \in XState /\ ~Holds(f, i)
    <3>1. g.outcome \in Outcomes /\ g.outcome # OK
      BY <2>5 DEF Outcomes, OperandErrors, OK
    <3> QED  BY <2>3, <2>5, <3>1, StopsOn
  <2>6. CASE /\ g = Moved(f, landed, SubSeq(k, 1, n), r)
             /\ Len(LabelTypes(Controls[i])) <= Len(f.stack)
    <3> DEFINE ts == LabelTypes(Controls[i])
               s == f.stack
               h == k[i].height
               k2 == SubSeq(k, 1, n)
    <3>1. landed \in Seq(ValueTypes)
      <4>1. landed = Truncate(s, h) \o LastN(s, Len(ts))
        BY DEF Landed
      <4> HIDE DEF landed, s, h, ts
      <4>2. Len(ts) \in 0..Len(s)
        BY <2>1, <2>4, <2>6 DEF s, ts
      <4>3. Truncate(s, h) \in Seq(ValueTypes) /\ LastN(s, Len(ts)) \in Seq(ValueTypes)
        BY <2>1, <2>4, <4>2, TruncateIs, LastNIs DEF s, h
      <4> QED  BY <4>1, <4>3, ConcatIs
    <3>2. k2 \in Seq(XFrame) /\ Len(k2) = n /\ \A j \in 1..n : k2[j] = k[j]
      <4> HIDE DEF k, n
      <4> QED  BY <2>1, <2>4
    <3> HIDE DEF k2, landed, g
    <3>3. MovedSo(f, landed, k2, r)
      BY <2>4, <3>1, <3>2, MovedIs
    <3>4. g \in XState /\ g.outcome = OK /\ g.pc = r /\ g.controls = k2 /\ g.stack = landed
      BY <1>2, <2>6, <3>3 DEF MovedSo, k2
    <3> HIDE DEF k, r, n, i
    <3> QED  BY <2>1, <2>3, <2>4, <3>2, <3>4, LandOn
  <2> QED  BY <2>2, <2>5, <2>6
<1> HIDE DEF g
<1>3. Onward(g)
  BY <1>1, <1>2
<1> QED  BY <1>3 DEF g

LEMMA BrOn == ASSUME Midway, RunBr PROVE Advances
<1> DEFINE depth == IF Opcode(code, x.pc) = \h0C THEN Arg(code, x.pc, 1) ELSE Len(x.controls) - 1
<1>1. Opcode(code, x.pc) \in {\h0C, \h0F}
  BY DEF RunBr, Running
<1>2. /\ Opcode(code, x.pc) \in ControlOps /\ FetchControl(x.pc) = Fetched
  <2>1. Opcode(code, x.pc) \in ControlOps
    BY <1>1 DEF ControlOps
  <2> QED  BY <2>1, FetchControlIs
<1>3. Continue(branch_to(Fetched, depth))
  BY <1>2 DEF RunBr
<1>4. Depth \in Nat /\ Depth > 0 /\ Len(x.controls) = Depth
  BY StandingIs DEF Standing
<1>7. /\ depth \in Nat /\ depth < Depth
      /\ ~v.dipped => LabelFits(Controls, Operands, depth)
  <2>1. CASE Opcode(code, x.pc) = \h0C
    <3>1. ImmAt(code, x.pc) = <<"u32">> /\ 1 \in 1..WidthAt(code, x.pc)
      BY <1>2, <2>1, ControlImmediates, ControlWidths DEF ImmAt, ValidatorImm
    <3>2. Carried(code[x.pc + 1]) /\ code[x.pc + 1].k = "u32"
      BY <3>1, ImmediateIs DEF Encoding
    <3>3. Arg(code, x.pc, 1) \in Nat
      BY <3>2 DEF Carried, Arg
    <3>4. Arg(code, x.pc, 1) < Depth
      BY <2>1, StandingIs DEF Standing, Names
    <3>5. ~v.dipped => LabelFits(Controls, Operands, Arg(code, x.pc, 1))
      BY <2>1, MatchingIs DEF Matching, Flows
    <3> QED  BY <2>1, <3>3, <3>4, <3>5
  <2>2. CASE Opcode(code, x.pc) = \h0F
    <3>1. depth = Depth - 1
      BY <1>4, <2>2
    <3>2. ~v.dipped => LabelFits(Controls, Operands, Len(Controls) - 1)
      BY <2>2, MatchingIs DEF Matching, Flows
    <3>3. ~v.dipped => LabelFits(Controls, Operands, depth)
      BY <3>1, <3>2 DEF Depth
    <3> HIDE DEF depth
    <3>4. depth \in Nat /\ depth < Depth
      BY <1>4, <3>1
    <3> QED  BY <3>3, <3>4
  <2> QED  BY <1>1, <2>1, <2>2
<1> HIDE DEF depth
<1>8. ~v.dipped => x.stack = Operands /\ Below(Operands, Operands, Controls[Depth].height)
  BY MatchingIs DEF Matching, Below
<1>9. Onward(branch_to(Fetched, depth))
  BY <1>7, <1>8, FetchedIs, BranchOn
<1> QED  BY <1>3, <1>9 DEF Advances

LEMMA BrIfOn == ASSUME Midway, RunBrIf PROVE Advances
<1> DEFINE n == Arg(code, x.pc, 1)
           f == pop_typed(Fetched, "i32")
<1>1. Opcode(code, x.pc) = \h0D
  BY DEF RunBrIf, Running
<1>2. /\ Opcode(code, x.pc) \in ControlOps /\ FetchControl(x.pc) = Fetched
      /\ Opcode(code, x.pc) \notin Openers \cup {\h05, \h0B} \cup Leaving
  <2>1. Opcode(code, x.pc) \in ControlOps
    BY <1>1 DEF ControlOps
  <2> QED  BY <1>1, <2>1, FetchControlIs DEF Openers, Leaving
<1>3. Continue(branch_to(f, n)) \/ Continue(f)
  BY <1>2 DEF RunBrIf
<1>4. ~v.dipped => /\ Swap(Operands, OperandsBehind, <<"i32">>, <<>>)
                   /\ LabelFits(Controls, OperandsBehind, n)
                   /\ Below(OperandsBehind, Operands, Controls[Depth].height)
  BY <1>1, MatchingIs DEF Matching, Flows, Rests, Depth
<1>5. n \in Nat /\ n < Depth
  <2>1. ImmAt(code, x.pc) = <<"u32">> /\ 1 \in 1..WidthAt(code, x.pc)
    BY <1>1, <1>2, ControlImmediates, ControlWidths DEF ImmAt, ValidatorImm
  <2>2. Carried(code[x.pc + 1]) /\ code[x.pc + 1].k = "u32"
    BY <2>1, ImmediateIs DEF Encoding
  <2>3. n \in Nat
    BY <2>2 DEF Carried, Arg
  <2> QED  BY <1>1, <2>3, StandingIs DEF Standing, Names
<1>6. Works(Fetched, f) /\ (~v.dipped => f.outcome = OK /\ f.stack = OperandsBehind)
  BY <1>4, PoppedOn
<1>7. Onward(f)
  BY <1>2, <1>4, PopOn
<1> HIDE DEF f, n
<1>8. f \in XState /\ f.outcome \in {OK} \cup OperandErrors /\ f.controls = x.controls
  BY <1>6, FetchedIs DEF Works
<1>9. ~v.dipped => Below(Operands, OperandsBehind, Controls[Depth].height)
  BY <1>4, BelowSym
<1>10. Onward(branch_to(f, n))
  BY <1>4, <1>5, <1>6, <1>8, <1>9, BranchOn
<1> QED  BY <1>3, <1>7, <1>10 DEF Advances

LEMMA BrTableOn == ASSUME Midway, RunBrTable PROVE Advances
<1> DEFINE f == pop_typed(Fetched, "i32")
<1>1. Opcode(code, x.pc) = \h0E
  BY DEF RunBrTable, Running
<1>2. /\ Opcode(code, x.pc) \in ControlOps /\ FetchControl(x.pc) = Fetched
  <2>1. Opcode(code, x.pc) \in ControlOps
    BY <1>1 DEF ControlOps
  <2> QED  BY <1>1, <2>1, FetchControlIs
<1>3. PICK i \in 1..(Arg(code, x.pc, 1) + 1) : Continue(branch_to(f, Arg(code, x.pc, i + 1)))
  BY <1>2 DEF RunBrTable
<1> DEFINE n == Arg(code, x.pc, i + 1)
<1>4. n \in Nat /\ n < Depth
  <2>1. ImmAt(code, x.pc) = <<"depths">> /\ WidthAt(code, x.pc) = Arg(code, x.pc, 1) + 2
    BY <1>1, <1>2, ControlImmediates, ControlWidths DEF ImmAt, ValidatorImm
  <2>2. Arg(code, x.pc, 1) \in Nat
    BY <2>1, StandingIs DEF Standing, ReadableAt
  <2>3. i + 1 \in 1..WidthAt(code, x.pc)
    BY <2>1, <2>2
  <2>4. Carried(code[x.pc + (i + 1)]) /\ code[x.pc + (i + 1)].k = "u32"
    BY <2>1, <2>3, ImmediateIs
  <2>5. n \in Nat
    BY <2>4 DEF Carried, Arg
  <2> QED  BY <1>1, <2>5, StandingIs DEF Standing, Names
<1>5. /\ f = PopTypedAll(Fetched, <<"i32">>) /\ <<"i32">> \in Seq({"i32"})
      /\ Fetched \in XState /\ Fetched.outcome = OK
  BY FetchedIs, PopTypedIs
<1>6. /\ Works(Fetched, f)
      /\ Takes(Fetched.stack, <<"i32">>) => f.outcome = OK /\ Without(Fetched.stack, f.stack, <<"i32">>)
  <2> DEFINE g == PopTypedAll(Fetched, <<"i32">>)
  <2>1. /\ Works(Fetched, g)
        /\ Takes(Fetched.stack, <<"i32">>) => g.outcome = OK /\ Without(Fetched.stack, g.stack, <<"i32">>)
    BY <1>5, TypedPop
  <2>2. f = g
    BY <1>5
  <2> HIDE DEF f, g
  <2> QED  BY <2>1, <2>2
<1> HIDE DEF f, n
<1>7. /\ f \in XState /\ f.outcome \in {OK} \cup OperandErrors /\ f.controls = x.controls
      /\ f.stack \in Seq(ValueTypes)
  BY <1>6, FetchedIs DEF Works, XState
<1>8. ASSUME ~v.dipped
      PROVE  /\ f.outcome = OK /\ LabelFits(Controls, f.stack, n)
             /\ Below(Operands, f.stack, Controls[Depth].height)
  <2>1. x.stack = Operands /\ Takes(Operands, <<"i32">>) /\ LabelFits(Controls, Front(Operands), n)
    BY <1>1, <1>8, MatchingIs DEF Matching, Flows, n
  <2>2. f.outcome = OK /\ Without(Operands, f.stack, <<"i32">>) /\ Operands \in Seq(ValueTypes)
    BY <1>6, <2>1, FetchedIs, StandingIs DEF Standing
  <2>3. Len(Operands) > 0 /\ Len(f.stack) = Len(Operands) - 1 /\ Below(f.stack, Operands, Len(f.stack))
    BY <2>1, <2>2 DEF Takes, Without
  <2>4. f.stack = Front(Operands)
    <3>1. /\ Front(Operands) \in Seq(ValueTypes) /\ Len(Front(Operands)) = Len(Operands) - 1
          /\ \A j \in 1..(Len(Operands) - 1) : Front(Operands)[j] = Operands[j]
      BY <2>2, <2>3, FrontIs
    <3>2. /\ Len(f.stack) = Len(Front(Operands))
          /\ \A j \in 1..Len(f.stack) : f.stack[j] = Front(Operands)[j]
      BY <2>3, <3>1 DEF Below
    <3> QED  BY <1>7, <3>1, <3>2, SameSequence
  <2>5. Controls[Depth].height \in Nat /\ Controls[Depth].height <= Len(f.stack)
    <3>1. Depth \in Nat /\ Controls[Depth].height \in Nat
      BY StandingIs, InnermostIs DEF Standing, Innermost, Frame
    <3> DEFINE ts == LabelTypes(Controls[Depth - n])
    <3>2. Len(ts) + Controls[Depth].height <= Len(f.stack)
      BY <2>1, <2>4 DEF LabelFits, Depth
    <3>3. Depth - n \in 1..Depth
      BY <1>4, <3>1
    <3>4. ts \in Seq(ValueTypes)
      BY <3>3, TargetIs DEF Target
    <3> HIDE DEF ts
    <3> QED  BY <1>7, <3>1, <3>2, <3>4
  <2>6. Below(f.stack, Operands, Controls[Depth].height)
    <3>1. Len(f.stack) \in Nat
      BY <1>7
    <3> QED  BY <2>3, <2>5, <3>1, BelowLess
  <2> QED  BY <2>1, <2>2, <2>4, <2>6, BelowSym
<1>9. Onward(branch_to(f, n))
  BY <1>4, <1>7, <1>8, BranchOn
<1> QED  BY <1>3, <1>9 DEF Advances, n

\* Past the last instruction the operands are the function's results.
LEMMA ReturnOn ==
  ASSUME VInv, XInv, AInv, RunReturn
  PROVE  Advances
<1> DEFINE e == CASE Len(x.stack) # Len(Results) -> "ResultArityMismatch"
                  [] x.stack # Results           -> "ValueTypeMismatch"
                  [] OTHER                       -> "return"
<1>1. phase = "run" /\ x.pc > Len(code) /\ Continue(Stuck(x, e))
  BY DEF RunReturn
<1>2. x \in XState /\ x.outcome = OK
  BY <1>1 DEF XInv
<1>3. e \in Outcomes /\ e # OK
  BY DEF Outcomes, OperandErrors, OK
<1>4. ~v.dipped => e = "return"
  <2>1. ~v.dipped => x.stack = Results
    BY <1>1 DEF AInv, Agreed
  <2> QED  BY <2>1
<1>5. ~v.dipped => e \notin OperandErrors
  BY <1>4 DEF OperandErrors
<1> HIDE DEF e
<1>6. Onward(Stuck(x, e))
  BY <1>2, <1>3, <1>5, StuckIs, StopsOn
<1> QED  BY <1>1, <1>6 DEF Advances

LEMMA RunOn == ASSUME VInv, SInv, TInv, XInv, AInv, RunStep PROVE Advances
<1>1. phase = "run"
  BY RunFrame
<1>2. CASE x.pc <= Len(code)
  <2>1. Midway
    BY <1>1, <1>2, CompleteIs DEF Midway
  <2>2. CASE OutOfFuel \/ RunUnreachable \/ RunNop \/ RunOpener \/ RunIf \/ RunElse \/ RunEnd
    BY <2>1, <2>2, FuelOn, UnreachableOn, NopOn, OpenerOn, IfOn, ElseOn, EndOn
  <2>3. CASE RunBr \/ RunBrIf \/ RunBrTable \/ RunCall \/ RunReturnCall
    BY <2>1, <2>3, BrOn, BrIfOn, BrTableOn, CallOn, ReturnCallOn
  <2>4. CASE RunDrop \/ RunSelect \/ RunTypedSelect \/ RunLocal \/ RunGlobal \/ RunPlain
    BY <2>1, <2>4, DropOn, SelectOn, TypedSelectOn, LocalOn, GlobalOn, PlainOn
  <2>5. CASE RunReturn
    BY <2>5, ReturnOn
  <2> QED  BY <2>2, <2>3, <2>4, <2>5 DEF RunStep
<1>3. CASE ~(x.pc <= Len(code))
  <2>1. RunReturn
    BY <1>3 DEF RunStep, OutOfFuel, RunUnreachable, RunNop, RunOpener, RunIf, RunElse, RunEnd,
       RunBr, RunBrIf, RunBrTable, RunCall, RunReturnCall, RunDrop, RunSelect, RunTypedSelect,
       RunLocal, RunGlobal, RunPlain, Running
  <2> QED  BY <2>1, ReturnOn
<1> QED  BY <1>2, <1>3

-----------------------------------------------------------------------------
(* The theorems.                                                           *)

\* What the validator starts from.
FunctionFrame == [kind |-> "function", height |-> 0, params |-> <<>>, ends |-> Results,
                  unreachable |-> FALSE, seen_else |-> 0, opener |-> 0]
FInv == seen[1].controls = <<FunctionFrame>> /\ seen[1].stack = <<>>

LEMMA FirstKeeps == ASSUME VInv, FInv, [Next]_vars PROVE FInv'
<1>1. 1 \in DOMAIN seen
  BY DEF VInv, Boundaries, Readable
<1>2. seen'[1] = seen[1]
  <2>1. CASE ValidateStep
    <3>1. PICK ins \in Offer(input, code) : \/ WellFormed(ins) /\ ValidateInstruction(ins)
                                            \/ ~WellFormed(ins) /\ ValidateMalformed(ins)
      BY <2>1 DEF ValidateStep
    <3>2. phase = "validate"
      BY <2>1 DEF ValidateStep
    <3>3. CASE WellFormed(ins) /\ ValidateInstruction(ins)
      <4>1. PICK m : Accepted(ins, m) /\ Commit(ins, m)
        BY <3>2, <3>3, StepDecided DEF Decided
      <4>2. CASE m.err = OK
        <5>1. Grown(code, seen, code', seen', ins, m)
          BY <3>3, <4>1, <4>2, CommitGrows
        <5> QED  BY <1>1, <5>1 DEF Grown
      <4>3. CASE m.err # OK
        BY <4>1, <4>3 DEF Commit
      <4> QED  BY <4>2, <4>3
    <3>4. CASE ValidateMalformed(ins)
      <4>1. Fail(v, "MalformedImmediate").err # OK
        BY FailIs DEF VInv, Current, Rejections
      <4> QED  BY <3>4, <4>1 DEF ValidateMalformed, Commit
    <3> QED  BY <3>1, <3>3, <3>4
  <2>2. CASE ScanStep \/ RunStep
    BY <2>2, ScanFrame, RunKeeps
  <2>3. CASE UNCHANGED vars
    BY <2>3 DEF vars
  <2> QED  BY <2>1, <2>2, <2>3 DEF Next
<1> QED  BY <1>2 DEF FInv

\* The interpreter starts where the validator did.
LEMMA EntryKeeps ==
  ASSUME VInv, SInv, FInv, XInv, AInv, ScanDone
  PROVE  XInv' /\ AInv'
<1> DEFINE fr == [kind |-> "function", body_pc |-> 1, end_pc |-> Len(code),
                  height |-> 0, params |-> <<>>, results |-> Results]
<1>1. /\ phase = "scan" /\ phase' = "run" /\ x' = [x EXCEPT !.controls = <<fr>>]
      /\ UNCHANGED <<code, v, seen, paired>>
  <2>1. phase = "scan" /\ UNCHANGED <<code, v, seen, paired>>
    BY ScanFrame DEF ScanStep
  <2> QED  BY <2>1, ScanDoneIs
<1>2. Complete /\ 1 \in DOMAIN seen /\ Len(code) \in Nat
  BY <1>1, CompleteIs DEF VInv, Boundaries, Readable
<1>3. At(seen, 1) = <<FunctionFrame>> /\ Ops(seen, 1) = <<>>
  BY DEF FInv, At, Ops
<1>4. ~(1 > Len(code))
  <2>1. Len(At(seen, Len(code) + 1)) = 0
    BY <1>2, InsideIs
  <2>2. Len(At(seen, 1)) = 1
    BY <1>3
  <2> QED  BY <1>2, <2>1, <2>2
<1>5. fr \in XFrame
  <2>1. Results \in Seq(ValueTypes) /\ <<>> \in Seq(ValueTypes)
    BY ContextAssumption
  <2> QED  BY <1>2, <2>1 DEF XFrame
<1>6. x \in XState /\ x.pc = 1 /\ x.stack = <<>> /\ x.outcome = OK
  BY <1>1 DEF XInv
<1> HIDE DEF fr
<1>7. <<fr>> \in Seq(XFrame) /\ Len(<<fr>>) = 1 /\ <<fr>>[1] = fr
  BY <1>5
<1> DEFINE k == <<fr>>
<1> HIDE DEF k
<1>8. x' \in XState /\ x'.pc = 1 /\ x'.stack = <<>> /\ x'.outcome = OK /\ x'.controls = k
  <2>1. k \in Seq(XFrame) /\ x' = [x EXCEPT !.controls = k]
    BY <1>1, <1>7 DEF k
  <2> QED  BY <1>6, <2>1 DEF XState
<1>9. Len(k) = 1 /\ k[1] = fr
  BY <1>7 DEF k
<1>10. Placed(x)'
  <2>1. PlacedFrame(fr, FunctionFrame, 1)
    BY DEF PlacedFrame, fr, FunctionFrame
  <2>2. Len(At(seen, 1)) = 1 /\ At(seen, 1)[1] = FunctionFrame
    BY <1>3
  <2>3. \A i \in 1..1 : i = 1
    OBVIOUS
  <2>4. PlacedFrame(k[1], At(seen, 1)[1], 1)
    BY <1>9, <2>1, <2>2
  <2>5. PlacedFrame(x.controls[1], At(seen, 1)[1], 1)'
    <3>1. x'.controls[1] = k[1]
      BY <1>8
    <3> HIDE DEF k
    <3> QED  BY <1>1, <2>4, <3>1 DEF PlacedFrame, At
  <2>6. /\ 1 \in DOMAIN seen' /\ Len(k) = Len(At(seen', 1))
    BY <1>1, <1>2, <1>9, <2>2
  <2> QED  BY <1>8, <1>9, <2>3, <2>5, <2>6 DEF Placed
<1>11. Agreed(x)'
  <2>1. ~(1 > Len(code')) /\ Ops(seen', 1) = <<>> /\ At(seen', 1) = <<FunctionFrame>>
    BY <1>1, <1>3, <1>4
  <2>2. ~At(seen', 1)[1].unreachable /\ k[1].height = At(seen', 1)[1].height
    BY <1>9, <2>1 DEF FunctionFrame, fr
  <2>3. \A i \in 1..1 : i = 1
    OBVIOUS
  <2> QED  BY <1>8, <1>9, <2>1, <2>2, <2>3 DEF Agreed
<1> QED  BY <1>1, <1>8, <1>10, <1>11 DEF XInv, AInv, Outcomes, OK, OperandErrors

\* Only the opcode of an instruction is a token of its kind.
LEMMA InsTokens ==
  ASSUME NEW ins, WellFormed(ins), NEW i \in 1..Len(ins), ins[i].k = "op"
  PROVE  ins[i].v \in Nat
<1> DEFINE op == Opcode(ins, 1)
           imm == ImmAt(ins, 1)
<1>1. /\ ins[1].v \in ControlOps \cup ValidatorOps /\ op = ins[1].v /\ Len(ins) \in Nat
      /\ WidthAt(ins, 1) = Len(ins) - 1 /\ WidthAt(ins, 1) \in Nat /\ Decodes(ins, 1, imm)
  BY WellFormedIs DEF Opcode
<1>2. CASE i = 1
  <2>1. CASE op \in ControlOps
    <3>1. \A n \in ControlOps : n \in Nat
      BY DEF ControlOps
    <3> HIDE DEF op
    <3> QED  BY <1>1, <1>2, <2>1, <3>1
  <2>2. CASE op \notin ControlOps
    <3>1. Known(op)
      BY <1>1, <2>2, PlainWidth
    <3> QED  BY <1>1, <1>2, <3>1 DEF Known
  <2> QED  BY <2>1, <2>2
<1>3. CASE i # 1
  <2>1. i - 1 \in 1..WidthAt(ins, 1) /\ 1 + (i - 1) = i
    BY <1>1, <1>3
  <2>2. \A j \in 1..WidthAt(ins, 1) :
          ins[1 + j].k = IF imm = <<"depths">> THEN "u32" ELSE Encoding(imm[j])
    BY <1>1 DEF Decodes, WidthAt
  <2>3. imm # <<"depths">> /\ Encoding(imm[i - 1]) = "op"
    BY <2>1, <2>2
  <2>4. imm[i - 1] = "op"
    BY <2>3 DEF Encoding
  <2>5. WidthAt(ins, 1) = Len(imm)
    BY <2>3 DEF WidthAt, Width
  <2>6. CASE op \in ControlOps
    <3>1. imm \in {<<"blocktype">>, <<"u32">>, <<"u32", "table">>, <<"seltype">>, <<>>}
      BY <2>3, <2>6 DEF ImmAt, ValidatorImm, ControlImm
    <3> HIDE DEF imm
    <3> QED  BY <1>1, <2>1, <2>4, <2>5, <3>1
  <2>7. CASE op \notin ControlOps
    <3>1. imm \in Seq(Immediate)
      BY <1>1, <2>7, PlainWidth
    <3>2. imm[i - 1] \in Immediate
      <4> HIDE DEF imm
      <4> QED  BY <1>1, <2>1, <2>5, <3>1
    <3> QED  BY <2>4, <3>2 DEF Immediate
  <2> QED  BY <2>6, <2>7
<1> QED  BY <1>2, <1>3

KInv == \A p \in 1..Len(code) : code[p].k = "op" => code[p].v \in Nat

LEMMA TokensKeep == ASSUME VInv, KInv, [Next]_vars PROVE KInv'
<1>1. CASE ValidateStep
  <2>1. PICK ins \in Offer(input, code) : \/ WellFormed(ins) /\ ValidateInstruction(ins)
                                          \/ ~WellFormed(ins) /\ ValidateMalformed(ins)
    BY <1>1 DEF ValidateStep
  <2>2. phase = "validate"
    BY <1>1 DEF ValidateStep
  <2>3. CASE WellFormed(ins) /\ ValidateInstruction(ins)
    <3>1. PICK m : Accepted(ins, m) /\ Commit(ins, m)
      BY <2>2, <2>3, StepDecided DEF Decided
    <3>2. CASE m.err = OK
      <4>1. Grown(code, seen, code', seen', ins, m) /\ Len(ins) \in Nat /\ Len(code) \in Nat
        <5>1. Grown(code, seen, code', seen', ins, m)
          BY <2>3, <3>1, <3>2, CommitGrows
        <5>2. Len(ins) \in Nat \ {0}
          BY <2>3, WellFormedIs
        <5> QED  BY <5>1, <5>2 DEF VInv, Boundaries, Readable
      <4>2. /\ Len(code') = Len(code) + Len(ins) /\ \A r \in 1..Len(code) : code'[r] = code[r]
            /\ \A i \in 1..Len(ins) : code'[Len(code) + i] = ins[i]
        BY <4>1 DEF Grown
      <4>3. ASSUME NEW p \in 1..Len(code'), code'[p].k = "op" PROVE code'[p].v \in Nat
        <5>1. CASE p <= Len(code)
          BY <4>1, <4>2, <4>3, <5>1 DEF KInv
        <5>2. CASE p > Len(code)
          <6>1. p - Len(code) \in 1..Len(ins) /\ p = Len(code) + (p - Len(code))
            BY <4>1, <4>2, <5>2
          <6>2. code'[p] = ins[p - Len(code)]
            BY <4>2, <6>1
          <6> QED  BY <2>3, <4>3, <6>1, <6>2, InsTokens
        <5> QED  BY <4>1, <4>2, <5>1, <5>2
      <4> QED  BY <4>3 DEF KInv
    <3>3. CASE m.err # OK
      BY <3>1, <3>3 DEF Commit, KInv
    <3> QED  BY <3>2, <3>3
  <2>4. CASE ValidateMalformed(ins)
    <3>1. Fail(v, "MalformedImmediate").err # OK
      BY FailIs DEF VInv, Current, Rejections
    <3> QED  BY <2>4, <3>1 DEF ValidateMalformed, Commit, KInv
  <2> QED  BY <2>1, <2>3, <2>4
<1>2. CASE ScanStep \/ RunStep \/ UNCHANGED vars
  <2>1. UNCHANGED code
    BY <1>2, ScanFrame, RunKeeps DEF vars
  <2> QED  BY <2>1 DEF KInv
<1> QED  BY <1>1, <1>2 DEF Next

LEMMA FrameKeeps ==
  ASSUME VInv, SInv, TInv, FInv, XInv, AInv, [Next]_vars
  PROVE  XInv' /\ AInv'
<1>1. CASE ValidateStep
  <2>1. phase = "validate" /\ phase' \in {"validate", "rejected", "scan"} /\ x' = x
    BY <1>1, ValidateFrame
  <2>2. x \in XState /\ x.outcome = OK /\ x.pc = 1 /\ x.controls = <<>> /\ x.stack = <<>>
    BY <2>1 DEF XInv
  <2>3. XInv'
    BY <2>1, <2>2 DEF XInv, Outcomes
  <2> QED  BY <2>1, <2>2, <2>3 DEF AInv, OK, OperandErrors
<1>2. CASE ScanOpener \/ ScanElse \/ ScanEnd \/ ScanOther
  <2>1. phase = "scan" /\ phase' = "scan" /\ x' = x
    BY <1>2 DEF ScanOpener, ScanElse, ScanEnd, ScanOther, Scanning, ScanTo, ScanFails
  <2>2. x \in XState /\ x.outcome = OK /\ x.pc = 1 /\ x.controls = <<>> /\ x.stack = <<>>
    BY <2>1 DEF XInv
  <2>3. XInv'
    BY <2>1, <2>2 DEF XInv, Outcomes
  <2> QED  BY <2>1, <2>2, <2>3 DEF AInv, OK, OperandErrors
<1>3. CASE ScanDone
  BY <1>3, EntryKeeps
<1>4. CASE RunStep
  <2>1. phase = "run"
    BY <1>4, RunFrame
  <2>2. PICK f : Onward(f) /\ Continue(f)
    BY <1>4, RunOn DEF Advances
  <2> QED  BY <2>1, <2>2, ContinueKeeps
<1>5. CASE UNCHANGED vars
  <2>1. UNCHANGED <<phase, code, v, seen, paired, x>>
    BY <1>5 DEF vars
  <2>2. Placed(x) => Placed(x)'
    BY <2>1 DEF Placed, PlacedFrame
  <2>3. Agreed(x) => Agreed(x)'
    BY <2>1 DEF Agreed
  <2> QED  BY <2>1, <2>2, <2>3 DEF XInv, AInv
<1> QED  BY <1>1, <1>2, <1>3, <1>4, <1>5 DEF Next, ScanStep

BodyInv == VInv /\ SInv /\ TInv /\ FInv /\ KInv /\ XInv /\ AInv

LEMMA BodyStarts == ASSUME Init PROVE BodyInv
<1>1. VInv /\ TInv
  BY StartsRight, TypesStart
<1>2. /\ phase = "validate" /\ code = <<>> /\ v.dipped = FALSE
      /\ sc = [pc |-> 1, pending |-> <<>>, openers |-> <<>>, err |-> OK]
      /\ x = [pc |-> 1, stack |-> <<>>, controls |-> <<>>, outcome |-> OK]
      /\ seen[1].stack = <<>> /\ seen[1].controls = <<FunctionFrame>>
  BY DEF Init, FunctionFrame
<1>3. SInv /\ FInv /\ KInv
  BY <1>2 DEF SInv, FInv, KInv
<1>4. <<>> \in Seq(ValueTypes) /\ <<>> \in Seq(XFrame) /\ OK \in Outcomes /\ OK \notin OperandErrors
  BY DEF Outcomes, OK, OperandErrors
<1>5. x \in XState
  BY <1>2, <1>4 DEF XState
<1>6. XInv /\ AInv
  BY <1>2, <1>4, <1>5 DEF XInv, AInv
<1> QED  BY <1>1, <1>3, <1>6 DEF BodyInv

LEMMA BodyKeeps == ASSUME BodyInv, [Next]_vars PROVE BodyInv'
<1>1. VInv /\ SInv /\ TInv /\ FInv /\ KInv /\ XInv /\ AInv
  BY DEF BodyInv
<1>2. VInv' /\ FInv' /\ KInv' /\ XInv' /\ AInv'
  BY <1>1, BodyStep, FirstKeeps, TokensKeep, FrameKeeps
<1>3. SInv' /\ TInv'
  BY <1>1, <1>2, ScannerKeeps, TypesKeep
<1> QED  BY <1>2, <1>3 DEF BodyInv

\* The validator, the scanner and the interpreter of one body, together: what each
\* knows at an instruction boundary, and that the interpreter stands at one.
THEOREM WholeInvariant == Spec => []BodyInv
<1>1. Init => BodyInv
  BY BodyStarts
<1>2. BodyInv /\ [Next]_vars => BodyInv'
  BY BodyKeeps
<1> QED  BY <1>1, <1>2, PTL DEF Spec

LEMMA TypesFromInv == ASSUME BodyInv PROVE TypeOK
<1>1. VInv /\ SInv /\ KInv /\ XInv
  BY DEF BodyInv
<1>2. /\ code \in Seq(Range(code)) /\ Len(code) \in Nat /\ DOMAIN seen \subseteq 1..(Len(code) + 1)
      /\ v \in VState /\ v.controls = At(seen, Len(code) + 1) /\ FramesAt(code, seen, Len(code) + 1)
      /\ Boundaries(code, seen) /\ Pairing(code, seen, paired, v.controls) /\ 1 \in DOMAIN seen
  BY <1>1 DEF VInv, Current, Boundaries, Readable
<1>3. phase \in {"validate", "scan", "run", "done", "rejected"}
  BY <1>1 DEF VInv, Current
<1>4. \A p \in DOMAIN code : code[p].k = "op" => code[p].v \in Nat
  BY <1>1, <1>2 DEF KInv
<1>5. v.stack \in Seq(ValueTypes) /\ v.dipped \in BOOLEAN /\ v.controls \in Seq(Frame)
  BY <1>2 DEF VState
<1>6. ASSUME NEW i \in DOMAIN v.controls
      PROVE  /\ v.controls[i].kind \in {"function", "block", "loop", "if"}
             /\ v.controls[i].height \in Nat
             /\ v.controls[i].kind = "function" <=> i = 1
  <2>1. i \in 1..Len(v.controls) /\ v.controls[i] \in Frame
    BY <1>5
  <2>2. v.controls[i].kind = "function" <=> i = 1
    BY <1>2, <2>1 DEF FramesAt
  <2> QED  BY <2>1, <2>2 DEF Frame
<1>7. phase = "validate" <=> v.controls # <<>> /\ v.err = OK
  <2>1. phase = "validate" <=> Len(v.controls) > 0 /\ v.err = OK
    BY <1>1 DEF VInv, Current
  <2>2. Len(v.controls) > 0 <=> v.controls # <<>>
    BY <1>5
  <2> QED  BY <2>1, <2>2
<1>8. sc.pc \in 1..(Len(code) + 1) /\ DOMAIN sc.openers \subseteq DOMAIN code
  <2>1. CASE phase \in {"validate", "rejected"}
    BY <1>1, <1>2, <2>1 DEF SInv
  <2>2. CASE phase \in {"scan", "run", "done"}
    <3>1. Scanned(sc.pc, sc.pending, sc.openers)
      BY <1>1, <2>2 DEF SInv
    <3>2. sc.pc \in DOMAIN seen /\ DOMAIN sc.openers \subseteq DOMAIN paired
      BY <3>1 DEF Scanned
    <3>3. ASSUME NEW o \in DOMAIN paired PROVE o \in DOMAIN code
      <4> DEFINE e == paired[o].end_pc
                 n == Len(At(seen, e))
      <4>1. e \in DOMAIN seen /\ e <= Len(code) /\ n > 1 /\ At(seen, e)[n].opener = o
        BY <1>2 DEF Pairing
      <4>2. FramesAt(code, seen, e) /\ At(seen, e) \in Seq(Frame)
        BY <1>2, <4>1 DEF Boundaries, FramesAt
      <4>3. n \in 2..Len(At(seen, e))
        <5> DEFINE k == At(seen, e)
        <5>1. k \in Seq(Frame)
          BY <4>2
        <5> HIDE DEF k
        <5>2. Len(k) \in Nat /\ (Len(k) > 1 => Len(k) \in 2..Len(k))
          BY <5>1
        <5> QED  BY <4>1, <5>2 DEF k
      <4>4. NestedAt(code, seen, e, n)
        BY <4>2, <4>3 DEF FramesAt
      <4>5. o \in DOMAIN seen /\ o < e
        BY <4>1, <4>4 DEF NestedAt
      <4> HIDE DEF e
      <4>6. o \in 1..Len(code)
        BY <1>2, <4>1, <4>5
      <4> QED  BY <1>2, <4>6
    <3> QED  BY <1>2, <3>2, <3>3
  <2> QED  BY <1>3, <2>1, <2>2
<1>9. /\ x.stack \in Seq(ValueTypes)
      /\ x.outcome \in {OK, "return", "tailcall", "trap", "OutOfFuel"} \cup LostErrors \cup OperandErrors
      /\ phase = "done" <=> x.outcome # OK
  BY <1>1 DEF XInv, XState, Outcomes
<1>10. x.pc \in 0..(Len(code) + 1)
  <2>1. CASE phase = "run"
    BY <1>1, <1>2, <2>1 DEF XInv, Placed
  <2>2. CASE phase # "run"
    BY <1>1, <1>2, <2>2 DEF XInv
  <2> QED  BY <2>1, <2>2
<1> QED  BY <1>3, <1>4, <1>5, <1>6, <1>7, <1>8, <1>9, <1>10 DEF TypeOK

LEMMA StackFromInv == ASSUME BodyInv PROVE StackAgrees
<1> SUFFICES ASSUME phase = "run", ~v.dipped
             PROVE  IF x.pc > Len(code) THEN x.stack = Results
                    ELSE LET known == seen[x.pc]
                         IN /\ x.pc \in DOMAIN seen
                            /\ x.stack = known.stack
                            /\ Len(x.controls) = Len(known.controls)
                            /\ \A i \in DOMAIN x.controls :
                                 /\ ~known.controls[i].unreachable
                                 /\ x.controls[i].kind = known.controls[i].kind
                                 /\ x.controls[i].height = known.controls[i].height
                                 /\ RuntimeLabel(x.controls[i]) = LabelTypes(known.controls[i])
  BY DEF StackAgrees
<1>1. Placed(x) /\ Agreed(x) /\ x.controls \in Seq(XFrame)
  BY DEF BodyInv, XInv, AInv, XState
<1>2. CASE x.pc > Len(code)
  BY <1>1, <1>2 DEF Agreed
<1>3. CASE ~(x.pc > Len(code))
  <2>1. /\ x.pc \in DOMAIN seen /\ x.stack = seen[x.pc].stack
        /\ Len(x.controls) = Len(seen[x.pc].controls)
    BY <1>1, <1>3 DEF Agreed, Placed, At, Ops
  <2>2. ASSUME NEW i \in DOMAIN x.controls
        PROVE  /\ ~seen[x.pc].controls[i].unreachable
               /\ x.controls[i].kind = seen[x.pc].controls[i].kind
               /\ x.controls[i].height = seen[x.pc].controls[i].height
               /\ RuntimeLabel(x.controls[i]) = LabelTypes(seen[x.pc].controls[i])
    <3>1. i \in 1..Len(x.controls)
      BY <1>1
    <3>2. PlacedFrame(x.controls[i], seen[x.pc].controls[i], i)
      BY <1>1, <3>1 DEF Placed, At
    <3>3. ~seen[x.pc].controls[i].unreachable /\ x.controls[i].height = seen[x.pc].controls[i].height
      BY <1>1, <3>1 DEF Agreed, At
    <3> QED  BY <3>2, <3>3 DEF PlacedFrame, RuntimeLabel, LabelTypes
  <2> QED  BY <1>3, <2>1, <2>2
<1> QED  BY <1>2, <1>3

LEMMA SoundFromInv == ASSUME BodyInv PROVE SoundWithinFrame
<1>1. x.outcome \in Outcomes /\ (~v.dipped => x.outcome \notin OperandErrors)
  BY DEF BodyInv, XInv, AInv
<1> QED  BY <1>1 DEF SoundWithinFrame, Outcomes, LostErrors, OperandErrors, OK

\* The states of the validator (ControlFrame), the scanner (PendingControl) and the
\* interpreter (GuestFrame) keep the shapes the code gives them, for every body.
THEOREM BodyTyped == Spec => []TypeOK
<1>1. BodyInv => TypeOK
  BY TypesFromInv
<1> QED  BY <1>1, WholeInvariant, PTL

\* Wherever execute_guest_frame stands in an accepted body that stays within its
\* frames, by whatever branches it came, its operands and its control frames are those
\* validate_code had there, and validate_code held no frame of them unreachable.
THEOREM InterpreterAgrees == Spec => []StackAgrees
<1>1. BodyInv => StackAgrees
  BY StackFromInv
<1> QED  BY <1>1, WholeInvariant, PTL

\* Soundness of validate_code for execute_guest_frame: no accepted body makes it lose
\* its place, and where no block popped an operand from below its frame none of its
\* stack checks fails.
THEOREM ValidationSound == Spec => []SoundWithinFrame
<1>1. BodyInv => SoundWithinFrame
  BY SoundFromInv
<1> QED  BY <1>1, WholeInvariant, PTL
===============================================================================
