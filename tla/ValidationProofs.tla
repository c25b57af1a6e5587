--------------------------- MODULE ValidationProofs ---------------------------
(***************************************************************************)
(* The validator's pass over a body and the scanner's after it, for every  *)
(* body, every type section and every size of the index spaces.            *)
(*                                                                         *)
(* The validator reveals a body front to back and only looks at its own    *)
(* control stack, so what it knows of a body is kept per instruction       *)
(* boundary: the instruction it read there, the control stack and operands *)
(* it had there, and how the instruction took them to the next boundary    *)
(* (VInv).  The scanner's pending openers are the control stack of the     *)
(* boundary it stands at (SInv).  For bodies that stay within their frames *)
(* the operands are typed as well (TInv).                                  *)
(***************************************************************************)
EXTENDS FunctionBody, OpcodesProofs

-----------------------------------------------------------------------------
(* The inductive invariant.                                                *)

Openers == {\h02, \h03, \h04}
Leaving == {\h00, \h0C, \h0E, \h0F, \h12, \h13}
KindOf(op) == IF op = \h02 THEN "block" ELSE IF op = \h03 THEN "loop" ELSE "if"

Frame == [kind : {"function", "block", "loop", "if"}, height : Nat,
          params : Seq(ValueTypes), ends : Seq(ValueTypes), unreachable : BOOLEAN,
          seen_else : Nat, opener : Nat]
Rejections ==
  {"OperandStackUnderflow", "TypeMismatch", "BranchDepthOutOfBounds", "StackHeightMismatch",
   "TailCallResultTypeMismatch", "BlockTypeIndexOutOfBounds", "UnexpectedElse",
   "DuplicateElse", "MissingElseForResult", "BranchTableTypeMismatch",
   "CallTargetOutOfBounds", "TableIndexOutOfBounds", "IndirectTypeIndexOutOfBounds",
   "LocalIndexOutOfBounds", "GlobalIndexOutOfBounds", "ImmutableGlobalSet",
   "IndexOutOfBounds", "MalformedImmediate"}
VState == [stack : Seq(ValueTypes), err : {OK} \cup Rejections, dipped : BOOLEAN, controls : Seq(Frame)]

\* The control stack and the operands the validator had at boundary p.
At(s, p) == s[p].controls
Ops(s, p) == s[p].stack

\* The boundary after the instruction at p.
ImmAt(c, p) == ValidatorImm(Opcode(c, p))
WidthAt(c, p) == Width(c, p, ImmAt(c, p))
After(c, p) == p + 1 + WidthAt(c, p)

\* Every boundary holds an instruction the validator could read, and the next
\* boundary is right behind it.
ReadableAt(c, s, p) ==
  /\ c[p].k = "op" /\ Opcode(c, p) \in ControlOps \cup ValidatorOps
  /\ WidthAt(c, p) \in Nat /\ Decodes(c, p, ImmAt(c, p))
  /\ ImmAt(c, p) = <<"depths">> => Arg(c, p, 1) \in Nat
  /\ \A i \in 0..WidthAt(c, p) : Carried(c[p + i])
  /\ After(c, p) \in DOMAIN s
  /\ \A r \in DOMAIN s : r <= p \/ After(c, p) <= r

Readable(c, s) ==
  /\ c \in Seq(Range(c))
  /\ DOMAIN s \subseteq 1..(Len(c) + 1)
  /\ 1 \in DOMAIN s /\ Len(c) + 1 \in DOMAIN s
  /\ \A p \in DOMAIN s : p <= Len(c) => ReadableAt(c, s, p)

\* Frame i of boundary p: it was opened by the opener it names, over the very
\* control stack that still lies below it, and took its else where it says.
Opened(c, s, o) == At(s, After(c, o))[Len(At(s, o)) + 1]
NestedAt(c, s, p, i) ==
  LET f == At(s, p)[i]
      o == At(s, p)[i].opener
      q == At(s, p)[i].seen_else
  IN /\ o \in DOMAIN s /\ o < p
     /\ Opcode(c, o) \in Openers /\ f.kind = KindOf(Opcode(c, o))
     /\ f.params = Signature(c, o).params /\ f.ends = Signature(c, o).results
     /\ f.height = Opened(c, s, o).height
     /\ Len(At(s, o)) = i - 1
     /\ \A j \in 1..(i - 1) : At(s, o)[j] = At(s, p)[j]
     /\ q # 0 => /\ f.kind = "if" /\ q \in DOMAIN s /\ q < p /\ Opcode(c, q) = \h05
                 /\ Len(At(s, q)) = i /\ At(s, q)[i].opener = o

FramesAt(c, s, p) ==
  /\ Ops(s, p) \in Seq(ValueTypes) /\ At(s, p) \in Seq(Frame)
  /\ p <= Len(c) => Len(At(s, p)) > 0
  /\ \A i \in 1..Len(At(s, p)) : At(s, p)[i].kind = "function" <=> i = 1
  /\ Len(At(s, p)) > 0 => At(s, p)[1].height = 0 /\ At(s, p)[1].ends = Results
  /\ \A i \in 2..Len(At(s, p)) : NestedAt(c, s, p, i)

\* How the instruction at p of c, read at boundary q, moves the control stack from k
\* to k2.
OpenMove(c, p, q, k, k2) ==
  LET f == k2[Len(k) + 1]
  IN /\ Arg(c, p, 1) \in DOMAIN Types
     /\ Len(k2) = Len(k) + 1 /\ \A j \in 1..Len(k) : k2[j] = k[j]
     /\ f.kind = KindOf(Opcode(c, p)) /\ f.opener = q
     /\ f.params = Signature(c, p).params /\ f.ends = Signature(c, p).results
     /\ f.seen_else = 0 /\ ~f.unreachable

ElseMove(q, k, k2) ==
  LET n == Len(k)
  IN /\ k[n].kind = "if" /\ k[n].seen_else = 0
     /\ Len(k2) = n /\ \A j \in 1..(n - 1) : k2[j] = k[j]
     /\ k2[n] = [k[n] EXCEPT !.unreachable = FALSE, !.seen_else = q]

EndMove(k, k2) ==
  LET n == Len(k)
  IN /\ Len(k2) = n - 1 /\ \A j \in 1..(n - 1) : k2[j] = k[j]
     /\ k[n].kind = "if" /\ k[n].seen_else = 0 => k[n].ends = <<>>

StayMove(op, k, k2) ==
  LET n == Len(k)
  IN /\ Len(k2) = n /\ \A j \in 1..(n - 1) : k2[j] = k[j]
     /\ k2[n] = IF op \in Leaving THEN [k[n] EXCEPT !.unreachable = TRUE] ELSE k[n]

Moves(c, p, q, k, k2) ==
  /\ Opcode(c, p) \in Openers => OpenMove(c, p, q, k, k2)
  /\ Opcode(c, p) = \h05 => ElseMove(q, k, k2)
  /\ Opcode(c, p) = \h0B => EndMove(k, k2)
  /\ Opcode(c, p) \notin Openers \cup {\h05, \h0B} => StayMove(Opcode(c, p), k, k2)

MovesAt(c, s, p) == Moves(c, p, p, At(s, p), At(s, After(c, p)))

\* What the instruction at p names exists, under a control stack of n frames.
Names(c, p, n) ==
  LET op == Opcode(c, p)
      a  == Arg(c, p, 1)
  IN /\ op \in {\h0C, \h0D} => a < n
     /\ op = \h0E => \A i \in 1..(a + 1) : Arg(c, p, i + 1) < n
     /\ op \in {\h10, \h12} => a \in DOMAIN Functions
     /\ op \in {\h11, \h13} => a \in DOMAIN Types /\ InSpace("table", Arg(c, p, 2))
     /\ op = \h12 => Types[Functions[a]].results = Results
     /\ op = \h13 => Types[a].results = Results
     /\ op \in \h20..\h22 => a \in DOMAIN Locals
     /\ op \in {\h23, \h24} => a \in DOMAIN Globals
     /\ op = \h24 => Globals[a].mutable
     /\ op \notin ControlOps => IndicesInBounds(c, p, ImmAt(c, p))

NamesAt(c, s, p) == Names(c, p, Len(At(s, p)))

\* Every end of a block is paired with the opener of its frame, and every opener is
\* paired or still open (k is the current control stack).
Pairing(c, s, pr, k) ==
  /\ \A o \in DOMAIN pr :
       LET e == pr[o].end_pc
           n == Len(At(s, pr[o].end_pc))
       IN /\ e \in DOMAIN s /\ e <= Len(c) /\ Opcode(c, e) = \h0B
          /\ n > 1 /\ At(s, e)[n].opener = o /\ At(s, e)[n].seen_else = pr[o].else_pc
  /\ \A p \in DOMAIN s :
       p <= Len(c) /\ Opcode(c, p) = \h0B /\ Len(At(s, p)) > 1 =>
         LET o == At(s, p)[Len(At(s, p))].opener IN o \in DOMAIN pr /\ pr[o].end_pc = p
  /\ \A i \in 2..Len(k) : k[i].opener \notin DOMAIN pr
  /\ \A o \in DOMAIN s :
       o <= Len(c) /\ Opcode(c, o) \in Openers =>
         o \in DOMAIN pr \/ \E i \in 2..Len(k) : k[i].opener = o

Current ==
  /\ phase \in {"validate", "scan", "run", "done", "rejected"}
  /\ v \in VState
  /\ v.controls = At(seen, Len(code) + 1) /\ v.stack = Ops(seen, Len(code) + 1)
  /\ phase = "validate" <=> Len(v.controls) > 0 /\ v.err = OK
  /\ phase = "rejected" <=> v.err # OK

Boundaries(c, s) ==
  /\ Readable(c, s)
  /\ \A p \in DOMAIN s : FramesAt(c, s, p)
  /\ \A p \in DOMAIN s : p <= Len(c) => MovesAt(c, s, p) /\ NamesAt(c, s, p)

VInv == Current /\ Boundaries(code, seen) /\ Pairing(code, seen, paired, v.controls)

\* The scanner.
Pending == [opener : Nat, body_pc : Nat, else_pc : Nat, kind : {"block", "loop", "if"},
            signature : [params : Seq(ValueTypes), results : Seq(ValueTypes)]]
PendingOf(f) == [opener |-> f.opener, body_pc |-> f.opener + 2, else_pc |-> f.seen_else,
                 signature |-> Signature(code, f.opener), kind |-> f.kind]
InfoOf(o) == [kind |-> KindOf(Opcode(code, o)), body_pc |-> o + 2,
              else_pc |-> paired[o].else_pc, end_pc |-> paired[o].end_pc,
              signature |-> Signature(code, o)]
Scanned(p, pending, openers) ==
  /\ p \in DOMAIN seen /\ pending \in Seq(Pending)
  /\ Len(pending) = IF Len(At(seen, p)) = 0 THEN 0 ELSE Len(At(seen, p)) - 1
  /\ \A i \in 1..Len(pending) : pending[i] = PendingOf(At(seen, p)[i + 1])
  /\ DOMAIN openers = {o \in DOMAIN paired : paired[o].end_pc < p}
  /\ \A o \in DOMAIN openers : openers[o] = InfoOf(o)
SInv ==
  /\ sc = [pc |-> sc.pc, pending |-> sc.pending, openers |-> sc.openers, err |-> OK]
  /\ phase \in {"validate", "rejected"} => sc.pc = 1 /\ DOMAIN sc.openers = {} /\ sc.pending = <<>>
  /\ phase \in {"scan", "run", "done"} => Scanned(sc.pc, sc.pending, sc.openers)
  /\ phase \in {"run", "done"} => sc.pc = Len(code) + 1

\* Operands, in bodies that stay within their frames.
Below(s, t, n) == n <= Len(s) /\ n <= Len(t) /\ \A i \in 1..n : s[i] = t[i]
Topped(s, n, ts) == Len(s) = n + Len(ts) /\ \A j \in 1..Len(ts) : s[n + j] = ts[j]
Takes(s, pops) == Len(pops) <= Len(s) /\ \A i \in 1..Len(pops) : s[Len(s) - i + 1] = pops[i]
Swap(s, t, pops, pushes) ==
  /\ Takes(s, pops) /\ Topped(t, Len(s) - Len(pops), pushes)
  /\ \A i \in 1..(Len(s) - Len(pops)) : t[i] = s[i]

StacksAt(s, p) ==
  /\ \A i \in 1..Len(At(s, p)) :
        /\ At(s, p)[i].height <= Len(Ops(s, p))
        /\ \A j \in 1..i : At(s, p)[j].height <= At(s, p)[i].height
  /\ \A i \in 2..Len(At(s, p)) :
       Below(Ops(s, p), Ops(s, At(s, p)[i].opener), At(s, p)[i].height)

CalleeAt(c, p) == IF Opcode(c, p) \in {\h10, \h12} THEN Types[Functions[Arg(c, p, 1)]]
                  ELSE Types[Arg(c, p, 1)]
CallPops(c, p) == IF Opcode(c, p) \in {\h10, \h12} THEN Reverse(CalleeAt(c, p).params)
                  ELSE <<"i32">> \o Reverse(CalleeAt(c, p).params)

LabelFits(k, s, depth) ==
  LET ts == LabelTypes(k[Len(k) - depth])
  IN Len(ts) + k[Len(k)].height <= Len(s) /\ Topped(s, Len(s) - Len(ts), ts)

\* What operands the instruction at p finds if control reaches it (a), and what it
\* leaves for the instruction behind it (b), under the control stack k.
Flows(c, p, k, a, b) ==
  LET op  == Opcode(c, p)
      n   == Arg(c, p, 1)
      top == k[Len(k)]
      e   == ValidatorTable[op]
  IN /\ op \in {\h01, \h02, \h03} => Swap(a, b, <<>>, <<>>)
     /\ op \in {\h04, \h0D} => Swap(a, b, <<"i32">>, <<>>)
     /\ op \in {\h05, \h0B} => Topped(a, top.height, top.ends)
     /\ op = \h0C => LabelFits(k, a, n)
     /\ op = \h0D => LabelFits(k, b, n)
     /\ op = \h0E => /\ Takes(a, <<"i32">>)
                     /\ \A i \in 1..(n + 1) : LabelFits(k, Front(a), Arg(c, p, i + 1))
     /\ op = \h0F => LabelFits(k, a, Len(k) - 1)
     /\ op \in {\h10, \h11} => Swap(a, b, CallPops(c, p), CalleeAt(c, p).results)
     /\ op \in {\h12, \h13} => Takes(a, CallPops(c, p))
     /\ op = \h1A => Swap(a, b, <<a[Len(a)]>>, <<>>)
     /\ op = \h1B => LET t == a[Len(a) - 1] IN Swap(a, b, <<"i32", t, t>>, <<t>>)
     /\ op = \h1C => Swap(a, b, <<"i32", n, n>>, <<n>>)
     /\ op = \h20 => Swap(a, b, <<>>, <<Locals[n]>>)
     /\ op = \h21 => Swap(a, b, <<Locals[n]>>, <<>>)
     /\ op = \h22 => Swap(a, b, <<Locals[n]>>, <<Locals[n]>>)
     /\ op = \h23 => Swap(a, b, <<>>, <<Globals[n].type>>)
     /\ op = \h24 => Swap(a, b, <<Globals[n].type>>, <<>>)
     /\ op \notin ControlOps =>
          Swap(a, b, ValidatorOperands(c, p, e.imm, e.pops),
                     ValidatorOperands(c, p, e.imm, e.pushes))

\* What it leaves above the floor of a frame, from k to k2.
Typed(c, p, k, k2, a, b) ==
  LET top == k[Len(k)]
  IN /\ Opcode(c, p) \in Openers => Topped(b, k2[Len(k) + 1].height, Signature(c, p).params)
     /\ Opcode(c, p) = \h05 => Topped(b, top.height, top.params)
     /\ Opcode(c, p) = \h0B /\ Len(k) > 1 => Topped(b, top.height, top.ends)
     /\ ~top.unreachable => Flows(c, p, k, a, b)

\* What it leaves alone below that floor.
Rests(k, k2, a, b) ==
  LET h == k[Len(k)].height
      f == k2[Len(k) + 1]
  IN /\ Below(b, a, h)
     /\ Len(k2) = Len(k) + 1 => h <= f.height /\ Below(b, a, f.height)

TypedAt(c, s, p) ==
  LET q == After(c, p)
  IN /\ Typed(c, p, At(s, p), At(s, q), Ops(s, p), Ops(s, q))
     /\ Rests(At(s, p), At(s, q), Ops(s, p), Ops(s, q))

Stacks(c, s) ==
  /\ \A p \in DOMAIN s : StacksAt(s, p)
  /\ \A p \in DOMAIN s : p <= Len(c) => TypedAt(c, s, p)

TInv == ~v.dipped => Stacks(code, seen)

-----------------------------------------------------------------------------
(* Sequences and maps.                                                     *)

LEMMA SameSequence ==
  ASSUME NEW S, NEW T, NEW s \in Seq(S), NEW t \in Seq(T), Len(s) = Len(t),
         \A i \in 1..Len(s) : s[i] = t[i]
  PROVE  s = t
  OBVIOUS

LEMMA DropIs ==
  ASSUME NEW S, NEW s \in Seq(S), NEW n \in 0..Len(s)
  PROVE  /\ Drop(s, n) \in Seq(S) /\ Len(Drop(s, n)) = Len(s) - n
         /\ \A i \in 1..(Len(s) - n) : Drop(s, n)[i] = s[i]
  BY DEF Drop

LEMMA FrontIs ==
  ASSUME NEW S, NEW s \in Seq(S), Len(s) > 0
  PROVE  /\ Front(s) \in Seq(S) /\ Len(Front(s)) = Len(s) - 1
         /\ \A i \in 1..(Len(s) - 1) : Front(s)[i] = s[i]
<1>1. Front(s) = Drop(s, 1)  BY DEF Front, Drop
<1> QED  BY <1>1, DropIs

LEMMA LastIs ==
  ASSUME NEW S, NEW s \in Seq(S), Len(s) > 0
  PROVE  Last(s) = s[Len(s)] /\ Last(s) \in S
  BY DEF Last

LEMMA TruncateIs ==
  ASSUME NEW S, NEW s \in Seq(S), NEW n \in Nat
  PROVE  /\ Truncate(s, n) \in Seq(S)
         /\ Len(Truncate(s, n)) = IF n < Len(s) THEN n ELSE Len(s)
         /\ \A i \in 1..Len(Truncate(s, n)) : Truncate(s, n)[i] = s[i]
  BY DEF Truncate

LEMMA TailIs ==
  ASSUME NEW S, NEW s \in Seq(S), NEW h \in 0..Len(s)
  PROVE  /\ SubSeq(s, h + 1, Len(s)) \in Seq(S) /\ Len(SubSeq(s, h + 1, Len(s))) = Len(s) - h
         /\ \A i \in 1..(Len(s) - h) : SubSeq(s, h + 1, Len(s))[i] = s[h + i]
  OBVIOUS

LEMMA LastNIs ==
  ASSUME NEW S, NEW s \in Seq(S), NEW n \in 0..Len(s)
  PROVE  /\ LastN(s, n) \in Seq(S) /\ Len(LastN(s, n)) = n
         /\ \A i \in 1..n : LastN(s, n)[i] = s[Len(s) - n + i]
  BY DEF LastN

LEMMA ReverseIs ==
  ASSUME NEW S, NEW s \in Seq(S)
  PROVE  /\ Reverse(s) \in Seq(S) /\ Len(Reverse(s)) = Len(s)
         /\ \A i \in 1..Len(s) : Reverse(s)[i] = s[Len(s) - i + 1]
  BY DEF Reverse

LEMMA ConcatIs ==
  ASSUME NEW S, NEW s \in Seq(S), NEW t \in Seq(S)
  PROVE  /\ s \o t \in Seq(S) /\ Len(s \o t) = Len(s) + Len(t)
         /\ \A i \in 1..Len(s) : (s \o t)[i] = s[i]
         /\ \A i \in 1..Len(t) : (s \o t)[Len(s) + i] = t[i]
  OBVIOUS

LEMMA RangeIs == ASSUME NEW S, NEW s \in Seq(S) PROVE s \in Seq(Range(s))
  BY DEF Range

LEMMA RangeSequence ==
  ASSUME NEW s, NEW t, s \in Seq(Range(s)), t \in Seq(Range(t))
  PROVE  /\ s \o t \in Seq(Range(s \o t)) /\ Len(s \o t) = Len(s) + Len(t)
         /\ \A i \in 1..Len(s) : (s \o t)[i] = s[i]
         /\ \A i \in 1..Len(t) : (s \o t)[Len(s) + i] = t[i]
<1> DEFINE S == Range(s) \cup Range(t)
<1>1. s \in Seq(S) /\ t \in Seq(S)
  OBVIOUS
<1> HIDE DEF S
<1>2. s \o t \in Seq(S)
  BY <1>1, ConcatIs
<1>3. s \o t \in Seq(Range(s \o t))
  BY <1>2, RangeIs
<1> QED  BY <1>1, <1>3, ConcatIs

LEMMA InsertIs ==
  ASSUME NEW f, NEW k, NEW r
  PROVE  /\ DOMAIN Insert(f, k, r) = DOMAIN f \cup {k} /\ Insert(f, k, r)[k] = r
         /\ \A i \in DOMAIN f : i # k => Insert(f, k, r)[i] = f[i]
  BY DEF Insert

-----------------------------------------------------------------------------
(* A body that grows by one instruction keeps what was known of the others. *)

Grown(c, s, c2, s2, ins, m) ==
  /\ c2 \in Seq(Range(c2)) /\ Len(c2) = Len(c) + Len(ins)
  /\ \A r \in 1..Len(c) : c2[r] = c[r]
  /\ \A i \in 1..Len(ins) : c2[Len(c) + i] = ins[i]
  /\ DOMAIN s2 = DOMAIN s \cup {Len(c2) + 1}
  /\ \A r \in DOMAIN s : s2[r] = s[r]
  /\ At(s2, Len(c2) + 1) = m.controls /\ Ops(s2, Len(c2) + 1) = m.stack

LEMMA WellFormedIs ==
  ASSUME NEW ins, WellFormed(ins)
  PROVE  /\ ins \in Seq(Range(ins)) /\ Len(ins) \in Nat \ {0}
         /\ ins[1].k = "op" /\ ins[1].v \in ControlOps \cup ValidatorOps
         /\ WidthAt(ins, 1) = Len(ins) - 1 /\ WidthAt(ins, 1) \in Nat
         /\ Decodes(ins, 1, ImmAt(ins, 1))
<1>1. /\ ins \in Seq(Range(ins)) /\ Len(ins) \in Nat \ {0}
      /\ ins[1].k = "op" /\ ins[1].v \in ControlOps \cup ValidatorOps
      /\ Decodes(ins, 1, ImmAt(ins, 1)) /\ Len(ins) = 1 + WidthAt(ins, 1)
      /\ \A i \in 1..Len(ins) : Carried(ins[i])
  BY DEF WellFormed, ImmAt, Opcode, WidthAt
<1>2. WidthAt(ins, 1) \in Nat
  <2>1. CASE ImmAt(ins, 1) = <<"depths">>
    <3>1. ins[2].k = "u32" /\ 2 \in 1..Len(ins)
      BY <1>1, <2>1 DEF Decodes
    <3>2. ins[2].v \in Nat
      BY <1>1, <3>1 DEF Carried
    <3> QED  BY <2>1, <3>2 DEF WidthAt, Width, Arg
  <2>2. CASE ImmAt(ins, 1) # <<"depths">>
    <3>1. WidthAt(ins, 1) = Len(ImmAt(ins, 1))
      BY <2>2 DEF WidthAt, Width
    <3> QED  BY <1>1, <3>1
  <2> QED  BY <2>1, <2>2
<1> QED  BY <1>1, <1>2

LEMMA CommitGrows ==
  ASSUME VInv, NEW ins, WellFormed(ins), NEW m, m.err = OK, Commit(ins, m)
  PROVE  /\ Grown(code, seen, code', seen', ins, m) /\ v' = m
         /\ UNCHANGED <<input, sc, x>>
         /\ phase' = IF m.controls = <<>> THEN "scan" ELSE "validate"
<1>1. ins \in Seq(Range(ins)) /\ Len(ins) \in Nat \ {0}
  BY WellFormedIs
<1>2. code \in Seq(Range(code)) /\ DOMAIN seen \subseteq 1..(Len(code) + 1)
  BY DEF VInv, Boundaries, Readable
<1>3. /\ code' = code \o ins /\ v' = m /\ UNCHANGED <<input, sc, x>>
      /\ phase' = IF m.controls = <<>> THEN "scan" ELSE "validate"
      /\ seen' = Insert(seen, Len(code) + Len(ins) + 1,
                        [stack |-> m.stack, controls |-> m.controls])
  BY DEF Commit
<1>4. /\ code' \in Seq(Range(code')) /\ Len(code') = Len(code) + Len(ins)
      /\ \A r \in 1..Len(code) : code'[r] = code[r]
      /\ \A i \in 1..Len(ins) : code'[Len(code) + i] = ins[i]
  BY <1>1, <1>2, <1>3, RangeSequence
<1>5. Len(code) + Len(ins) + 1 = Len(code') + 1 /\ Len(code') + 1 \notin DOMAIN seen
  BY <1>1, <1>2, <1>4
<1>6. /\ DOMAIN seen' = DOMAIN seen \cup {Len(code') + 1}
      /\ \A r \in DOMAIN seen : seen'[r] = seen[r]
      /\ seen'[Len(code') + 1] = [stack |-> m.stack, controls |-> m.controls]
  <2>1. \A r \in DOMAIN seen : r # Len(code) + Len(ins) + 1
    BY <1>5
  <2> DEFINE k == Len(code) + Len(ins) + 1
             r == [stack |-> m.stack, controls |-> m.controls]
  <2>2. seen' = Insert(seen, k, r) /\ k = Len(code') + 1 /\ \A i \in DOMAIN seen : i # k
    BY <1>3, <1>5, <2>1
  <2> HIDE DEF k, r
  <2>3. /\ DOMAIN seen' = DOMAIN seen \cup {k} /\ seen'[k] = r
        /\ \A i \in DOMAIN seen : seen'[i] = seen[i]
    BY <2>2 DEF Insert
  <2> QED  BY <2>2, <2>3 DEF r
<1> QED  BY <1>3, <1>4, <1>6 DEF Grown, At, Ops

LEMMA ReadKept ==
  ASSUME NEW c, NEW s, NEW c2, NEW s2, NEW ins, NEW m, Readable(c, s),
         Grown(c, s, c2, s2, ins, m), Len(ins) \in Nat, NEW p \in DOMAIN s, p <= Len(c)
  PROVE  /\ Opcode(c2, p) = Opcode(c, p) /\ ImmAt(c2, p) = ImmAt(c, p)
         /\ WidthAt(c2, p) = WidthAt(c, p) /\ After(c2, p) = After(c, p)
         /\ \A i \in 1..WidthAt(c, p) : Arg(c2, p, i) = Arg(c, p, i)
         /\ ReadableAt(c2, s2, p)
<1>1. /\ p \in 1..Len(c) /\ Len(c) \in Nat /\ Len(c2) = Len(c) + Len(ins)
      /\ \A r \in 1..Len(c) : c2[r] = c[r]
      /\ DOMAIN s \subseteq 1..(Len(c) + 1) /\ ReadableAt(c, s, p)
      /\ DOMAIN s2 = DOMAIN s \cup {Len(c2) + 1}
  BY DEF Readable, Grown
<1>2. WidthAt(c, p) \in Nat /\ p + WidthAt(c, p) <= Len(c)
  BY <1>1 DEF ReadableAt, Decodes, WidthAt
<1>3. \A i \in 0..WidthAt(c, p) : c2[p + i] = c[p + i]
  <2> TAKE i \in 0..WidthAt(c, p)
  <2>1. p + i \in 1..Len(c)
    BY <1>1, <1>2
  <2> QED  BY <1>1, <2>1
<1>4. c2[p] = c[p] /\ Opcode(c2, p) = Opcode(c, p) /\ ImmAt(c2, p) = ImmAt(c, p)
  BY <1>1 DEF Opcode, ImmAt
<1>5. ImmAt(c, p) = <<"depths">> => c2[p + 1] = c[p + 1]
  BY <1>1 DEF ReadableAt, Decodes
<1>6. WidthAt(c2, p) = WidthAt(c, p)
  BY <1>4, <1>5 DEF WidthAt, Width, Arg
<1>7. After(c2, p) = After(c, p)
  BY <1>6 DEF After
<1>8. \A i \in 1..WidthAt(c, p) : Arg(c2, p, i) = Arg(c, p, i)
  BY <1>2, <1>3 DEF Arg
<1>9. Decodes(c2, p, ImmAt(c2, p))
  <2>1. Decodes(c, p, ImmAt(c, p)) /\ Width(c, p, ImmAt(c, p)) = WidthAt(c, p)
        /\ Width(c2, p, ImmAt(c, p)) = WidthAt(c, p)
    BY <1>1, <1>4, <1>6 DEF ReadableAt, WidthAt
  <2>2. \A i \in 1..WidthAt(c, p) : c2[p + i].k = c[p + i].k
    BY <1>2, <1>3
  <2>3. ImmAt(c, p) = <<"depths">> => p < Len(c2) /\ c2[p + 1].k = "u32"
    BY <1>1, <1>5, <2>1 DEF Decodes
  <2>4. p + WidthAt(c, p) <= Len(c2)
    BY <1>1, <1>2
  <2>5. \A i \in 1..WidthAt(c, p) :
          c2[p + i].k = IF ImmAt(c, p) = <<"depths">> THEN "u32" ELSE Encoding(ImmAt(c, p)[i])
    BY <2>1, <2>2 DEF Decodes
  <2> QED  BY ONLY <2>1, <2>3, <2>4, <2>5, <1>4 DEF Decodes
<1>10. ReadableAt(c2, s2, p)
  <2>1. \A i \in 0..WidthAt(c2, p) : Carried(c2[p + i])
    BY <1>1, <1>3, <1>6 DEF ReadableAt
  <2>2. After(c2, p) \in DOMAIN s2 /\ \A r \in DOMAIN s2 : r <= p \/ After(c2, p) <= r
    BY <1>1, <1>2, <1>7 DEF ReadableAt, After
  <2>3. ImmAt(c2, p) = <<"depths">> => Arg(c2, p, 1) \in Nat
    BY <1>1, <1>4, <1>5 DEF ReadableAt, Arg
  <2> QED  BY <1>1, <1>2, <1>4, <1>6, <1>9, <2>1, <2>2, <2>3 DEF ReadableAt
<1> QED  BY <1>4, <1>6, <1>7, <1>8, <1>10
LEMMA ReadNew ==
  ASSUME NEW c, NEW s, NEW c2, NEW s2, NEW ins, NEW m, Readable(c, s),
         Grown(c, s, c2, s2, ins, m), WellFormed(ins)
  PROVE  LET p == Len(c) + 1
         IN /\ p \in DOMAIN s /\ Opcode(c2, p) = ins[1].v /\ ImmAt(c2, p) = ImmAt(ins, 1)
            /\ WidthAt(c2, p) = Len(ins) - 1 /\ After(c2, p) = Len(c2) + 1
            /\ \A i \in 1..(Len(ins) - 1) : Arg(c2, p, i) = ins[i + 1].v
            /\ ReadableAt(c2, s2, p)
<1> DEFINE p == Len(c) + 1
           w == Len(ins) - 1
<1>1. /\ Len(c) \in Nat /\ Len(c2) = Len(c) + Len(ins) /\ p \in DOMAIN s
      /\ \A i \in 1..Len(ins) : c2[Len(c) + i] = ins[i]
      /\ DOMAIN s \subseteq 1..(Len(c) + 1)
      /\ DOMAIN s2 = DOMAIN s \cup {Len(c2) + 1}
  BY DEF Readable, Grown
<1>2. /\ Len(ins) \in Nat \ {0} /\ w \in Nat
      /\ ins[1].k = "op" /\ ins[1].v \in ControlOps \cup ValidatorOps
      /\ WidthAt(ins, 1) = w /\ Decodes(ins, 1, ImmAt(ins, 1))
      /\ \A i \in 1..Len(ins) : Carried(ins[i])
  BY WellFormedIs DEF WellFormed
<1>3. \A i \in 0..w : c2[p + i] = ins[i + 1]
  <2> TAKE i \in 0..w
  <2>1. i + 1 \in 1..Len(ins) /\ p + i = Len(c) + (i + 1)
    BY <1>1, <1>2
  <2> QED  BY <1>1, <2>1
<1>4. c2[p] = ins[1] /\ Opcode(c2, p) = ins[1].v /\ ImmAt(c2, p) = ImmAt(ins, 1)
  BY <1>1, <1>2 DEF Opcode, ImmAt
<1>5. \A i \in 1..w : Arg(c2, p, i) = ins[i + 1].v /\ Arg(ins, 1, i) = ins[i + 1].v
  BY <1>2, <1>3 DEF Arg
<1>6. ImmAt(ins, 1) = <<"depths">> => c2[p + 1] = ins[2]
  BY <1>1, <1>2 DEF Decodes
<1>7. WidthAt(c2, p) = w
  BY <1>2, <1>4, <1>6 DEF WidthAt, Width, Arg
<1>8. After(c2, p) = Len(c2) + 1
  BY <1>1, <1>2, <1>7 DEF After
<1>9. Decodes(c2, p, ImmAt(c2, p))
  <2>1. /\ Decodes(ins, 1, ImmAt(ins, 1)) /\ Width(ins, 1, ImmAt(ins, 1)) = w
        /\ Width(c2, p, ImmAt(ins, 1)) = w
    BY <1>2, <1>4, <1>7 DEF WidthAt
  <2>2. \A i \in 1..w : c2[p + i].k = ins[1 + i].k
    BY <1>2, <1>3
  <2>3. ImmAt(ins, 1) = <<"depths">> => p < Len(c2) /\ c2[p + 1].k = "u32"
    BY <1>1, <1>2, <1>6, <2>1 DEF Decodes
  <2>4. p + w <= Len(c2)
    BY <1>1, <1>2
  <2>5. \A i \in 1..w :
          c2[p + i].k = IF ImmAt(ins, 1) = <<"depths">> THEN "u32" ELSE Encoding(ImmAt(ins, 1)[i])
    BY <2>1, <2>2 DEF Decodes
  <2> HIDE DEF p, w
  <2> QED  BY ONLY <2>1, <2>3, <2>4, <2>5, <1>4 DEF Decodes
<1>10. ReadableAt(c2, s2, p)
  <2>1. \A i \in 0..w : Carried(c2[p + i])
    BY <1>2, <1>3
  <2>2. After(c2, p) \in DOMAIN s2 /\ \A r \in DOMAIN s2 : r <= p \/ After(c2, p) <= r
    BY <1>1, <1>2, <1>8
  <2>3. ImmAt(c2, p) = <<"depths">> => Arg(c2, p, 1) \in Nat
    <3> SUFFICES ASSUME ImmAt(ins, 1) = <<"depths">> PROVE c2[p + 1].v \in Nat
      BY <1>4 DEF Arg
    <3>1. ins[2].k = "u32" /\ 2 \in 1..Len(ins)
      BY <1>2 DEF Decodes
    <3> QED  BY <1>2, <1>6, <3>1 DEF Carried
  <2> HIDE DEF p, w
  <2> QED  BY <1>2, <1>4, <1>7, <1>9, <2>1, <2>2, <2>3 DEF ReadableAt
<1> QED  BY <1>1, <1>4, <1>5, <1>7, <1>8, <1>10

LEMMA ReadableGrows ==
  ASSUME NEW c, NEW s, NEW c2, NEW s2, NEW ins, NEW m, Readable(c, s),
         Grown(c, s, c2, s2, ins, m), WellFormed(ins)
  PROVE  Readable(c2, s2)
<1>1. Len(ins) \in Nat \ {0}
  BY WellFormedIs
<1>2. /\ Len(c) \in Nat /\ Len(c2) = Len(c) + Len(ins) /\ c2 \in Seq(Range(c2))
      /\ DOMAIN s \subseteq 1..(Len(c) + 1) /\ 1 \in DOMAIN s
      /\ DOMAIN s2 = DOMAIN s \cup {Len(c2) + 1}
  BY DEF Readable, Grown
<1>3. ASSUME NEW p \in DOMAIN s2, p <= Len(c2)
      PROVE  ReadableAt(c2, s2, p)
  <2>1. p \in DOMAIN s /\ (p <= Len(c) \/ p = Len(c) + 1)
    BY <1>1, <1>2, <1>3
  <2> QED  BY <1>1, <2>1, ReadKept, ReadNew
<1> QED  BY <1>1, <1>2, <1>3 DEF Readable

\* An opener has one immediate.
LEMMA OpenerWidth ==
  ASSUME NEW c, NEW s, Readable(c, s), NEW p \in DOMAIN s, p <= Len(c),
         Opcode(c, p) \in Openers
  PROVE  ImmAt(c, p) = <<"blocktype">> /\ WidthAt(c, p) = 1 /\ After(c, p) = p + 2
<1>1. Opcode(c, p) \in ControlOps
  BY DEF Openers, ControlOps
<1>2. ControlImm(Opcode(c, p)) = <<"blocktype">>
  BY DEF ControlImm, Openers
<1>3. ImmAt(c, p) = <<"blocktype">>
  BY <1>1, <1>2 DEF ImmAt, ValidatorImm
<1>4. WidthAt(c, p) = 1
  BY <1>3 DEF WidthAt, Width
<1> QED  BY <1>3, <1>4 DEF After, Readable

LEMMA NestedKept ==
  ASSUME NEW c, NEW s, NEW c2, NEW s2, NEW ins, NEW m, Readable(c, s),
         Grown(c, s, c2, s2, ins, m), Len(ins) \in Nat,
         NEW p \in DOMAIN s, NEW i, NestedAt(c, s, p, i)
  PROVE  NestedAt(c2, s2, p, i)
<1> DEFINE f == At(s, p)[i]
           o == At(s, p)[i].opener
           q == At(s, p)[i].seen_else
<1>1. /\ Len(c) \in Nat /\ DOMAIN s \subseteq 1..(Len(c) + 1)
      /\ \A r \in DOMAIN s : s2[r] = s[r]
  BY DEF Readable, Grown
<1>2. /\ o \in DOMAIN s /\ o < p /\ o <= Len(c) /\ Opcode(c, o) \in Openers
      /\ Len(At(s, o)) = i - 1
  BY <1>1 DEF NestedAt
<1>3. /\ Opcode(c2, o) = Opcode(c, o) /\ After(c2, o) = After(c, o)
      /\ \A j \in 1..WidthAt(c, o) : Arg(c2, o, j) = Arg(c, o, j)
  BY <1>2, ReadKept
<1>4. WidthAt(c, o) = 1 /\ After(c, o) \in DOMAIN s
  BY <1>2, OpenerWidth DEF Readable, ReadableAt
<1>5. Signature(c2, o) = Signature(c, o)
  BY <1>3, <1>4 DEF Signature
<1>6. At(s2, p) = At(s, p) /\ At(s2, o) = At(s, o)
  BY <1>1, <1>2 DEF At
<1>7. Opened(c2, s2, o) = Opened(c, s, o)
  BY <1>1, <1>3, <1>4, <1>6 DEF Opened, At
<1>8. ASSUME q # 0
      PROVE  /\ f.kind = "if" /\ q \in DOMAIN s2 /\ q < p /\ Opcode(c2, q) = \h05
             /\ Len(At(s2, q)) = i /\ At(s2, q)[i].opener = o
  <2>1. /\ f.kind = "if" /\ q \in DOMAIN s /\ q < p /\ Opcode(c, q) = \h05
        /\ Len(At(s, q)) = i /\ At(s, q)[i].opener = o
    BY <1>8 DEF NestedAt
  <2>2. q <= Len(c) /\ q \in DOMAIN s2 /\ At(s2, q) = At(s, q)
    BY <1>1, <2>1 DEF Grown, At
  <2>3. Opcode(c2, q) = Opcode(c, q)
    BY <2>1, <2>2, ReadKept
  <2> QED  BY <2>1, <2>2, <2>3
<1>9. o \in DOMAIN s2
  BY <1>2 DEF Grown
<1> QED  BY <1>2, <1>3, <1>5, <1>6, <1>7, <1>8, <1>9 DEF NestedAt

LEMMA FramesKept ==
  ASSUME NEW c, NEW s, NEW c2, NEW s2, NEW ins, NEW m, Readable(c, s),
         Grown(c, s, c2, s2, ins, m), Len(ins) \in Nat,
         NEW p \in DOMAIN s, FramesAt(c, s, p), Len(At(s, p)) > 0
  PROVE  FramesAt(c2, s2, p)
<1>1. At(s2, p) = At(s, p) /\ Ops(s2, p) = Ops(s, p)
  BY DEF Grown, At, Ops
<1>2. \A i \in 2..Len(At(s, p)) : NestedAt(c2, s2, p, i)
  BY NestedKept DEF FramesAt
<1> QED  BY <1>1, <1>2 DEF FramesAt

LEMMA MovesKept ==
  ASSUME NEW c, NEW s, NEW c2, NEW s2, NEW ins, NEW m, Readable(c, s),
         Grown(c, s, c2, s2, ins, m), Len(ins) \in Nat,
         NEW p \in DOMAIN s, p <= Len(c), MovesAt(c, s, p)
  PROVE  MovesAt(c2, s2, p)
<1>1. /\ Opcode(c2, p) = Opcode(c, p) /\ After(c2, p) = After(c, p)
      /\ \A j \in 1..WidthAt(c, p) : Arg(c2, p, j) = Arg(c, p, j)
  BY ReadKept
<1>2. After(c, p) \in DOMAIN s
  BY DEF Readable, ReadableAt
<1>3. At(s2, p) = At(s, p) /\ At(s2, After(c, p)) = At(s, After(c, p))
  BY <1>2 DEF Grown, At
<1>4. Opcode(c, p) \in Openers =>
        Signature(c2, p) = Signature(c, p) /\ Arg(c2, p, 1) = Arg(c, p, 1)
  BY <1>1, OpenerWidth DEF Signature
<1> QED  BY <1>1, <1>3, <1>4 DEF MovesAt, Moves, OpenMove

-----------------------------------------------------------------------------
(* Where an instruction's immediates end.                                  *)

LEMMA ControlImmediates ==
  ASSUME NEW op
  PROVE  /\ op \in Openers \cup {\h05, \h0B} \cup {\h00, \h01, \h0F, \h1A, \h1B}
              \cup {\h0C, \h0D, \h10, \h12} \cup \h20..\h24 \cup {\h0E, \h11, \h13, \h1C}
            => op \in ControlOps
         /\ op \in Openers => ControlImm(op) = <<"blocktype">>
         /\ op \in {\h0C, \h0D, \h10, \h12} \cup \h20..\h24 => ControlImm(op) = <<"u32">>
         /\ op = \h0E => ControlImm(op) = <<"depths">>
         /\ op \in {\h11, \h13} => ControlImm(op) = <<"u32", "table">>
         /\ op = \h1C => ControlImm(op) = <<"seltype">>
         /\ op \in {\h00, \h01, \h05, \h0B, \h0F, \h1A, \h1B} => ControlImm(op) = <<>>
<1>1. op \in Openers => ControlImm(op) = <<"blocktype">>
  BY DEF ControlImm, Openers
<1>2. op \in {\h0C, \h0D, \h10, \h12} \cup \h20..\h24 => ControlImm(op) = <<"u32">>
  BY DEF ControlImm
<1>3. op = \h0E => ControlImm(op) = <<"depths">>
  BY DEF ControlImm
<1>4. op \in {\h11, \h13} => ControlImm(op) = <<"u32", "table">>
  BY DEF ControlImm
<1>5. op = \h1C => ControlImm(op) = <<"seltype">>
  BY DEF ControlImm
<1>6. op \in {\h00, \h01, \h05, \h0B, \h0F, \h1A, \h1B} => ControlImm(op) = <<>>
  BY DEF ControlImm
<1>7. op \in Openers \cup {\h05, \h0B} \cup {\h00, \h01, \h0F, \h1A, \h1B}
              \cup {\h0C, \h0D, \h10, \h12} \cup \h20..\h24 \cup {\h0E, \h11, \h13, \h1C}
            => op \in ControlOps
  BY DEF Openers, ControlOps
<1> QED  BY <1>1, <1>2, <1>3, <1>4, <1>5, <1>6, <1>7

LEMMA ControlWidths ==
  ASSUME NEW c, NEW p
  PROVE  /\ Opcode(c, p) \in Openers \cup {\h0C, \h0D, \h10, \h12} \cup \h20..\h24 \cup {\h1C}
            => WidthAt(c, p) = 1
         /\ Opcode(c, p) = \h0E => WidthAt(c, p) = Arg(c, p, 1) + 2
         /\ Opcode(c, p) \in {\h11, \h13} => WidthAt(c, p) = 2
         /\ Opcode(c, p) \in {\h00, \h01, \h05, \h0B, \h0F, \h1A, \h1B} => WidthAt(c, p) = 0
<1> DEFINE op == Opcode(c, p)
<1>1. op \in ControlOps => WidthAt(c, p) = Width(c, p, ControlImm(op))
  BY DEF WidthAt, ImmAt, ValidatorImm
<1>2. ASSUME op \in Openers \cup {\h0C, \h0D, \h10, \h12} \cup \h20..\h24 \cup {\h1C}
      PROVE  WidthAt(c, p) = 1
  <2>1. op \in ControlOps
    BY <1>2, ControlImmediates
  <2>2. ControlImm(op) = <<"blocktype">> \/ ControlImm(op) = <<"u32">> \/ ControlImm(op) = <<"seltype">>
    BY <1>2, ControlImmediates
  <2> HIDE DEF op
  <2>3. Width(c, p, ControlImm(op)) = 1
    BY <2>2 DEF Width
  <2> QED  BY <1>1, <2>1, <2>3
<1>3. ASSUME op = \h0E PROVE WidthAt(c, p) = Arg(c, p, 1) + 2
  <2>1. op \in ControlOps /\ ControlImm(op) = <<"depths">>
    BY <1>3, ControlImmediates
  <2> HIDE DEF op
  <2> QED  BY <1>1, <2>1 DEF Width
<1>4. ASSUME op \in {\h11, \h13} PROVE WidthAt(c, p) = 2
  <2>1. op \in ControlOps /\ ControlImm(op) = <<"u32", "table">>
    BY <1>4, ControlImmediates
  <2> HIDE DEF op
  <2> QED  BY <1>1, <2>1 DEF Width
<1>5. ASSUME op \in {\h00, \h01, \h05, \h0B, \h0F, \h1A, \h1B} PROVE WidthAt(c, p) = 0
  <2>1. op \in ControlOps /\ ControlImm(op) = <<>>
    BY <1>5, ControlImmediates
  <2> HIDE DEF op
  <2> QED  BY <1>1, <2>1 DEF Width
<1> QED  BY <1>2, <1>3, <1>4, <1>5

\* The validator's table names the immediates of every other opcode.
LEMMA PlainWidth ==
  ASSUME NEW c, NEW p, Opcode(c, p) \in ControlOps \cup ValidatorOps,
         Opcode(c, p) \notin ControlOps
  PROVE  /\ Known(Opcode(c, p)) /\ ImmAt(c, p) = Imms(Opcode(c, p))
         /\ ImmAt(c, p) = ValidatorTable[Opcode(c, p)].imm
         /\ ImmAt(c, p) \in Seq(Immediate) /\ ImmAt(c, p) # <<"depths">>
         /\ WidthAt(c, p) = Len(ImmAt(c, p))
<1>1. Known(Opcode(c, p)) /\ ValidatorTable[Opcode(c, p)].imm = Imms(Opcode(c, p))
  BY ValidatorEntry
<1>2. ImmAt(c, p) = ValidatorTable[Opcode(c, p)].imm
  BY DEF ImmAt, ValidatorImm
<1>3. ImmAt(c, p) \in Seq(Immediate) /\ ImmAt(c, p) # <<"depths">>
  BY <1>1, <1>2, ImmsShape
<1> QED  BY <1>1, <1>2, <1>3 DEF WidthAt, Width

\* Two instructions with the same opcode and the same immediates.
SameInstruction(c, p, c2, p2) ==
  /\ Opcode(c2, p2) = Opcode(c, p) /\ Opcode(c, p) \in ControlOps \cup ValidatorOps
  /\ WidthAt(c, p) \in Nat
  /\ \A i \in 1..WidthAt(c, p) : Arg(c2, p2, i) = Arg(c, p, i)

LEMMA NamesSame ==
  ASSUME NEW c, NEW p, NEW c2, NEW p2, NEW n, SameInstruction(c, p, c2, p2), Names(c, p, n),
         Opcode(c, p) = \h0E => Arg(c, p, 1) \in Nat
  PROVE  Names(c2, p2, n)
<1> DEFINE op == Opcode(c, p)
           same(i) == Arg(c2, p2, i) = Arg(c, p, i)
<1>1. /\ Opcode(c2, p2) = op /\ ImmAt(c2, p2) = ImmAt(c, p)
      /\ \A i \in 1..WidthAt(c, p) : same(i)
  BY DEF SameInstruction, ImmAt
<1>2. op \in {\h0C, \h0D, \h10, \h12} \cup \h20..\h24 => same(1)
  BY <1>1, ControlWidths
<1>3. op = \h0E => same(1) /\ \A i \in 1..(Arg(c, p, 1) + 1) : same(i + 1)
  BY <1>1, ControlWidths
<1>4. op \in {\h11, \h13} => same(1) /\ same(2)
  BY <1>1, ControlWidths
<1>5. ASSUME op \notin ControlOps PROVE IndicesInBounds(c2, p2, ImmAt(c2, p2))
  <2>1. ImmAt(c, p) \in Seq(Immediate) /\ WidthAt(c, p) = Len(ImmAt(c, p))
    BY <1>5, PlainWidth DEF SameInstruction
  <2>2. IndicesInBounds(c, p, ImmAt(c, p))
    BY <1>5 DEF Names
  <2> QED  BY <1>1, <2>1, <2>2 DEF IndicesInBounds
<1> HIDE DEF op
<1>6. op = \h0E => \A i \in 1..(Arg(c2, p2, 1) + 1) : Arg(c2, p2, i + 1) < n
  BY <1>3 DEF Names, op
<1>7. op \in {\h0C, \h0D, \h10, \h11, \h12, \h13} \cup \h20..\h24 => same(1)
  BY <1>2, <1>4
<1> QED  BY <1>1, <1>4, <1>5, <1>6, <1>7 DEF Names, op

LEMMA NamesKept ==
  ASSUME NEW c, NEW s, NEW c2, NEW s2, NEW ins, NEW m, Readable(c, s),
         Grown(c, s, c2, s2, ins, m), Len(ins) \in Nat,
         NEW p \in DOMAIN s, p <= Len(c), NamesAt(c, s, p)
  PROVE  NamesAt(c2, s2, p)
<1>1. ReadableAt(c, s, p) /\ At(s2, p) = At(s, p)
  BY DEF Readable, Grown, At
<1>2. SameInstruction(c, p, c2, p)
  BY <1>1, ReadKept DEF SameInstruction, ReadableAt
<1>3. Opcode(c, p) = \h0E => Arg(c, p, 1) \in Nat
  <2>1. Opcode(c, p) = \h0E => ImmAt(c, p) = <<"depths">>
    BY ControlImmediates DEF ImmAt, ValidatorImm
  <2> QED  BY <1>1, <2>1 DEF ReadableAt
<1> QED  BY <1>1, <1>2, <1>3, NamesSame DEF NamesAt

-----------------------------------------------------------------------------
(* The boundary behind the new instruction.                                *)

\* A step changes the control stack at its top only.
TopOnly(c, q, k, k2) ==
  /\ \A i \in 1..Len(k2) : i < Len(k) => k2[i] = k[i]
  /\ Len(k2) \in {Len(k) - 1, Len(k), Len(k) + 1}
  /\ Len(k2) = Len(k) + 1 => Opcode(c, q) \in Openers
  /\ \A i \in 1..Len(k2) : i <= Len(k) =>
       /\ k2[i].kind = k[i].kind /\ k2[i].height = k[i].height
       /\ k2[i].params = k[i].params /\ k2[i].ends = k[i].ends
       /\ k2[i].opener = k[i].opener
       /\ k2[i].seen_else = k[i].seen_else \/
          (k2[i].seen_else = q /\ k[i].kind = "if" /\ Opcode(c, q) = \h05 /\ i = Len(k))

LEMMA MovesShape ==
  ASSUME NEW c, NEW q, NEW k \in Seq(Frame), NEW k2 \in Seq(Frame), Len(k) > 0,
         Moves(c, q, q, k, k2)
  PROVE  TopOnly(c, q, k, k2)
<1> DEFINE op == Opcode(c, q)
           n == Len(k)
           Like(f, g) == /\ g.kind = f.kind /\ g.height = f.height /\ g.params = f.params
                         /\ g.ends = f.ends /\ g.opener = f.opener
                         /\ g.seen_else = f.seen_else \/
                              (g.seen_else = q /\ f.kind = "if" /\ op = \h05)
<1>1. k[n] \in Frame
  OBVIOUS
<1>2. CASE op \in Openers
  <2>1. Len(k2) = n + 1 /\ \A j \in 1..n : k2[j] = k[j]
    BY <1>2 DEF Moves, OpenMove
  <2> HIDE DEF op
  <2> QED  BY <1>2, <2>1 DEF op, TopOnly
<1>3. CASE op = \h05
  <2>1. Len(k2) = n /\ \A j \in 1..(n - 1) : k2[j] = k[j]
    BY <1>3 DEF Moves, ElseMove
  <2>2. /\ k2[n] = [k[n] EXCEPT !.unreachable = FALSE, !.seen_else = q]
    BY <1>3 DEF Moves, ElseMove
  <2>3. k[n].kind = "if"
    BY <1>3 DEF Moves, ElseMove
  <2>4. Like(k[n], k2[n])
    BY <1>1, <1>3, <2>2, <2>3 DEF Frame
  <2> QED  BY <1>3, <2>1, <2>3, <2>4 DEF TopOnly
<1>4. CASE op = \h0B
  BY <1>4 DEF Moves, EndMove, TopOnly
<1>5. CASE op \notin Openers \cup {\h05, \h0B}
  <2>1. Len(k2) = n /\ \A j \in 1..(n - 1) : k2[j] = k[j]
    BY <1>5 DEF Moves, StayMove
  <2>2. k2[n] = k[n] \/ k2[n] = [k[n] EXCEPT !.unreachable = TRUE]
    BY <1>5 DEF Moves, StayMove
  <2>3. Like(k[n], k2[n])
    BY <1>1, <1>5, <2>2 DEF Frame
  <2> QED  BY <1>5, <2>1, <2>3 DEF TopOnly
<1> QED  BY <1>2, <1>3, <1>4, <1>5

LEMMA FramesNew ==
  ASSUME NEW c, NEW s, NEW c2, NEW s2, NEW ins, NEW m, Boundaries(c, s),
         Grown(c, s, c2, s2, ins, m), WellFormed(ins), m \in VState,
         Len(At(s, Len(c) + 1)) > 0,
         Moves(c2, Len(c) + 1, Len(c) + 1, At(s, Len(c) + 1), m.controls)
  PROVE  FramesAt(c2, s2, Len(c2) + 1)
<1> DEFINE q == Len(c) + 1
           p == Len(c2) + 1
           k == At(s, Len(c) + 1)
           k2 == m.controls
           op == Opcode(c2, q)
<1>1. /\ Readable(c, s) /\ Len(ins) \in Nat \ {0} /\ Len(c) \in Nat
      /\ Len(c2) = Len(c) + Len(ins) /\ FramesAt(c, s, q)
      /\ At(s2, p) = k2 /\ Ops(s2, p) = m.stack /\ DOMAIN s2 = DOMAIN s \cup {p}
  BY WellFormedIs DEF Boundaries, Readable, Grown
<1>2. q \in DOMAIN s /\ q \in DOMAIN s2 /\ q < p /\ At(s2, q) = k /\ After(c2, q) = p
  <2>1. q \in DOMAIN s /\ After(c2, q) = p
    BY <1>1, ReadNew
  <2> QED  BY <1>1, <2>1 DEF Grown, At
<1>3. m.stack \in Seq(ValueTypes) /\ k2 \in Seq(Frame)
  BY DEF VState
<1>4. /\ k \in Seq(Frame) /\ Len(k) > 0
      /\ \A i \in 1..Len(k) : k[i].kind = "function" <=> i = 1
      /\ k[1].height = 0 /\ k[1].ends = Results
  BY <1>1 DEF FramesAt
<1>5. \A i \in 2..Len(k) : NestedAt(c2, s2, q, i)
  BY <1>1, <1>2, NestedKept DEF FramesAt
<1>6. Moves(c2, q, q, k, k2)
  OBVIOUS
<1> HIDE DEF q, p, k, k2
<1>7. TopOnly(c2, q, k, k2)
  BY <1>3, <1>4, <1>6, MovesShape
<1>8. Len(k2) = Len(k) + 1 => OpenMove(c2, q, q, k, k2)
  BY <1>6, <1>7 DEF Moves, TopOnly
<1>11. \A i \in 1..Len(k2) : k2[i].kind = "function" <=> i = 1
  <2>1. Len(k2) = Len(k) + 1 => k2[Len(k2)].kind # "function"
    BY <1>8 DEF OpenMove, KindOf
  <2> QED  BY <1>3, <1>4, <1>7, <2>1 DEF TopOnly
<1>12. Len(k2) > 0 => k2[1].height = 0 /\ k2[1].ends = Results
  BY <1>3, <1>4, <1>7 DEF TopOnly
<1>13. ASSUME NEW i \in 2..Len(k2) PROVE NestedAt(c2, s2, p, i)
  <2>1. CASE i <= Len(k)
    <3> DEFINE f == k[i]
               g == k2[i]
    <3>1. NestedAt(c2, s2, q, i) /\ At(s2, q) = k /\ At(s2, p) = k2
      BY <1>1, <1>2, <1>5, <2>1
    <3>2. \A j \in 1..(i - 1) : k2[j] = k[j]
      BY <1>3, <1>4, <1>7, <2>1 DEF TopOnly
    <3>3. /\ g.kind = f.kind /\ g.height = f.height /\ g.params = f.params
          /\ g.ends = f.ends /\ g.opener = f.opener
          /\ g.seen_else = f.seen_else \/
              (g.seen_else = q /\ f.kind = "if" /\ op = \h05 /\ i = Len(k))
      BY <1>3, <1>7, <2>1 DEF TopOnly
    <3>4. /\ f.opener \in DOMAIN s2 /\ f.opener < q /\ Opcode(c2, f.opener) \in Openers
          /\ f.kind = KindOf(Opcode(c2, f.opener))
          /\ f.params = Signature(c2, f.opener).params
          /\ f.ends = Signature(c2, f.opener).results
          /\ f.height = Opened(c2, s2, f.opener).height
          /\ Len(At(s2, f.opener)) = i - 1
          /\ \A j \in 1..(i - 1) : At(s2, f.opener)[j] = k[j]
      BY <3>1 DEF NestedAt
    <3>5. f.seen_else # 0 =>
             /\ f.kind = "if" /\ f.seen_else \in DOMAIN s2 /\ f.seen_else < q
             /\ Opcode(c2, f.seen_else) = \h05
             /\ Len(At(s2, f.seen_else)) = i /\ At(s2, f.seen_else)[i].opener = f.opener
      BY <3>1 DEF NestedAt
    <3>6. DOMAIN s2 \subseteq Nat /\ q \in Nat /\ p \in Nat
      BY <1>1, <1>2 DEF Readable, q, p
    <3>7. g.opener < p
      BY <1>2, <3>3, <3>4, <3>6
    <3>8. g.seen_else # 0 =>
             /\ g.kind = "if" /\ g.seen_else \in DOMAIN s2 /\ g.seen_else < p
             /\ Opcode(c2, g.seen_else) = \h05
             /\ Len(At(s2, g.seen_else)) = i /\ At(s2, g.seen_else)[i].opener = g.opener
      <4>1. CASE g.seen_else = f.seen_else
        BY <1>2, <3>3, <3>5, <3>6, <4>1
      <4>2. CASE g.seen_else = q /\ f.kind = "if" /\ op = \h05 /\ i = Len(k)
        BY <1>2, <3>3, <3>1, <4>2
      <4> QED  BY <3>3, <4>1, <4>2
    <3>9. \A j \in 1..(i - 1) : At(s2, f.opener)[j] = k2[j]
      BY <3>2, <3>4
    <3> HIDE DEF f
    <3> QED  BY <3>1, <3>3, <3>4, <3>7, <3>8, <3>9 DEF NestedAt
  <2>2. CASE i = Len(k) + 1
    <3>1. op \in Openers /\ OpenMove(c2, q, q, k, k2)
      BY <1>3, <1>4, <1>7, <1>8, <2>2 DEF TopOnly
    <3>2. Opened(c2, s2, q) = k2[i]
      BY <1>1, <1>2, <2>2 DEF Opened
    <3> QED  BY <1>1, <1>2, <1>4, <2>2, <3>1, <3>2 DEF NestedAt, OpenMove
  <2> QED  BY <1>3, <1>4, <1>7, <2>1, <2>2 DEF TopOnly
<1>14. p = Len(c2) + 1
  BY DEF p
<1> QED  BY <1>1, <1>3, <1>11, <1>12, <1>13, <1>14 DEF FramesAt
LEMMA BoundariesGrow ==
  ASSUME NEW c, NEW s, NEW c2, NEW s2, NEW ins, NEW m, Boundaries(c, s),
         Grown(c, s, c2, s2, ins, m), WellFormed(ins), m \in VState,
         Len(At(s, Len(c) + 1)) > 0,
         Moves(c2, Len(c) + 1, Len(c) + 1, At(s, Len(c) + 1), m.controls),
         Names(ins, 1, Len(At(s, Len(c) + 1)))
  PROVE  Boundaries(c2, s2)
<1> DEFINE q == Len(c) + 1
<1>1. /\ Readable(c, s) /\ Len(ins) \in Nat \ {0} /\ Len(c) \in Nat
      /\ Len(c2) = Len(c) + Len(ins) /\ DOMAIN s2 = DOMAIN s \cup {Len(c2) + 1}
      /\ DOMAIN s \subseteq 1..(Len(c) + 1) /\ q \in DOMAIN s
      /\ At(s2, Len(c2) + 1) = m.controls
  BY WellFormedIs DEF Boundaries, Readable, Grown
<1>2. Readable(c2, s2)
  BY <1>1, ReadableGrows
<1>3. ASSUME NEW p \in DOMAIN s PROVE FramesAt(c2, s2, p)
  <2>1. FramesAt(c, s, p) /\ (p <= Len(c) \/ p = q)
    BY <1>1 DEF Boundaries
  <2>2. Len(At(s, p)) > 0
    BY <2>1 DEF FramesAt
  <2> QED  BY <1>1, <2>1, <2>2, FramesKept
<1>4. FramesAt(c2, s2, Len(c2) + 1)
  BY FramesNew
<1>5. ASSUME NEW p \in DOMAIN s, p <= Len(c) PROVE MovesAt(c2, s2, p) /\ NamesAt(c2, s2, p)
  <2>1. MovesAt(c, s, p) /\ NamesAt(c, s, p)
    BY <1>5 DEF Boundaries
  <2> QED  BY <1>1, <1>5, <2>1, MovesKept, NamesKept
<1>6. MovesAt(c2, s2, q) /\ NamesAt(c2, s2, q)
  <2>1. At(s2, q) = At(s, q)
    BY <1>1 DEF Grown, At
  <2>2. /\ After(c2, q) = Len(c2) + 1 /\ Opcode(c2, q) = ins[1].v
        /\ \A i \in 1..(Len(ins) - 1) : Arg(c2, q, i) = ins[i + 1].v
    BY <1>1, ReadNew
  <2>3. /\ WidthAt(ins, 1) = Len(ins) - 1 /\ WidthAt(ins, 1) \in Nat
        /\ ins[1].v \in ControlOps \cup ValidatorOps
    BY WellFormedIs
  <2>4. SameInstruction(ins, 1, c2, q)
    <3>1. \A i \in 1..WidthAt(ins, 1) : Arg(ins, 1, i) = ins[i + 1].v
      BY <2>3 DEF Arg
    <3> QED  BY <2>2, <2>3, <3>1 DEF SameInstruction, Opcode
  <2>5. Opcode(ins, 1) = \h0E => Arg(ins, 1, 1) \in Nat
    <3>1. Opcode(ins, 1) = \h0E => ImmAt(ins, 1) = <<"depths">>
      BY ControlImmediates DEF ImmAt, ValidatorImm
    <3>2. ReadableAt(c2, s2, q) /\ ImmAt(c2, q) = ImmAt(ins, 1)
      BY <1>1, ReadNew
    <3>3. ImmAt(ins, 1) = <<"depths">> => Arg(c2, q, 1) \in Nat
      BY <3>2 DEF ReadableAt
    <3>4. ImmAt(ins, 1) = <<"depths">> => 2 <= Len(ins)
      BY <1>1, WellFormedIs DEF Decodes
    <3> QED  BY <1>1, <2>2, <3>1, <3>3, <3>4 DEF Arg
  <2> HIDE DEF q
  <2>6. Names(c2, q, Len(At(s, q)))
    BY <2>4, <2>5, NamesSame DEF q
  <2> QED  BY <1>1, <2>1, <2>2, <2>6 DEF MovesAt, NamesAt, q
<1>7. \A p \in DOMAIN s2 : p <= Len(c2) => p \in DOMAIN s /\ (p <= Len(c) \/ p = q)
  BY <1>1
<1> QED  BY <1>1, <1>2, <1>3, <1>4, <1>5, <1>6, <1>7 DEF Boundaries

LEMMA PairingGrows ==
  ASSUME NEW c, NEW s, NEW c2, NEW s2, NEW ins, NEW m, Boundaries(c, s),
         Grown(c, s, c2, s2, ins, m), WellFormed(ins), m \in VState,
         Len(At(s, Len(c) + 1)) > 0,
         Moves(c2, Len(c) + 1, Len(c) + 1, At(s, Len(c) + 1), m.controls),
         NEW pr, NEW pr2, Pairing(c, s, pr, At(s, Len(c) + 1)),
         pr2 = IF Len(m.controls) < Len(At(s, Len(c) + 1)) /\ m.controls # <<>>
               THEN Insert(pr, Last(At(s, Len(c) + 1)).opener,
                           [else_pc |-> Last(At(s, Len(c) + 1)).seen_else,
                            end_pc |-> Len(c) + 1])
               ELSE pr
  PROVE  Pairing(c2, s2, pr2, m.controls)
<1> DEFINE q == Len(c) + 1
           k == At(s, Len(c) + 1)
           k2 == m.controls
           n == Len(k)
           op == Opcode(c2, q)
           o1 == k[n].opener
           r1 == [else_pc |-> k[n].seen_else, end_pc |-> q]
<1>1. /\ Readable(c, s) /\ Len(ins) \in Nat \ {0} /\ Len(c) \in Nat
      /\ Len(c2) = Len(c) + Len(ins) /\ DOMAIN s2 = DOMAIN s \cup {Len(c2) + 1}
      /\ DOMAIN s \subseteq 1..(Len(c) + 1) /\ q \in DOMAIN s /\ FramesAt(c, s, q)
  BY WellFormedIs DEF Boundaries, Readable, Grown
<1>2. k \in Seq(Frame) /\ k2 \in Seq(Frame) /\ n \in Nat \ {0} /\ q \in Nat
  BY <1>1 DEF FramesAt, VState
<1>3. \A p \in DOMAIN s : At(s2, p) = At(s, p)
  BY DEF Grown, At
<1>4. \A p \in DOMAIN s : p <= Len(c) => Opcode(c2, p) = Opcode(c, p)
  BY <1>1, ReadKept
<1>5. \A p \in DOMAIN s2 : p <= Len(c2) => p \in DOMAIN s /\ (p <= Len(c) \/ p = q)
  BY <1>1
<1>6. TopOnly(c2, q, k, k2)
  BY <1>2, MovesShape
<1>7. op = \h0B <=> Len(k2) = n - 1
  <2>1. op \in Openers => Len(k2) = n + 1
    BY DEF Moves, OpenMove
  <2>2. op = \h05 => Len(k2) = n
    BY DEF Moves, ElseMove
  <2>3. op = \h0B => Len(k2) = n - 1
    BY DEF Moves, EndMove
  <2>4. op \notin Openers \cup {\h05, \h0B} => Len(k2) = n
    BY DEF Moves, StayMove
  <2> HIDE DEF op, n
  <2> QED  BY <1>2, <2>1, <2>2, <2>3, <2>4
<1>8. \A i \in 2..n : /\ Len(At(s, k[i].opener)) = i - 1 /\ k[i].opener \in DOMAIN s
                      /\ k[i].opener < q
  BY <1>1 DEF FramesAt, NestedAt
<1>9. \A o \in DOMAIN pr : o < q
  <2> TAKE o \in DOMAIN pr
  <2> DEFINE e == pr[o].end_pc
  <2>1. e \in DOMAIN s /\ e <= Len(c) /\ Len(At(s, e)) > 1 /\ At(s, e)[Len(At(s, e))].opener = o
    BY DEF Pairing
  <2>2. FramesAt(c, s, e)
    BY <2>1 DEF Boundaries
  <2>3. At(s, e) \in Seq(Frame)
    BY <2>2 DEF FramesAt
  <2>4. NestedAt(c, s, e, Len(At(s, e)))
    BY <2>1, <2>2, <2>3 DEF FramesAt
  <2>5. o \in DOMAIN s /\ o < e
    BY <2>1, <2>4 DEF NestedAt
  <2> QED  BY <1>1, <2>1, <2>5
<1>10. /\ \A o \in DOMAIN pr :
             LET e == pr[o].end_pc
                 h == Len(At(s, pr[o].end_pc))
             IN /\ e \in DOMAIN s /\ e <= Len(c) /\ Opcode(c, e) = \h0B
                /\ h > 1 /\ At(s, e)[h].opener = o /\ At(s, e)[h].seen_else = pr[o].else_pc
       /\ \A p \in DOMAIN s :
            p <= Len(c) /\ Opcode(c, p) = \h0B /\ Len(At(s, p)) > 1 =>
              LET o == At(s, p)[Len(At(s, p))].opener IN o \in DOMAIN pr /\ pr[o].end_pc = p
       /\ \A i \in 2..n : k[i].opener \notin DOMAIN pr
       /\ \A o \in DOMAIN s :
            o <= Len(c) /\ Opcode(c, o) \in Openers =>
              o \in DOMAIN pr \/ \E i \in 2..n : k[i].opener = o
  BY DEF Pairing
<1>11. pr2 = IF op = \h0B /\ n > 1 THEN Insert(pr, o1, r1) ELSE pr
  <2>1. Last(k) = k[n] /\ (k2 # <<>> <=> Len(k2) > 0)
    BY <1>2, LastIs
  <2> HIDE DEF k, k2, n, op
  <2>2. Len(k2) < n /\ k2 # <<>> <=> op = \h0B /\ n > 1
    BY <1>2, <1>6, <1>7, <2>1 DEF TopOnly, n
  <2>3. pr2 = IF Len(k2) < n /\ k2 # <<>> THEN Insert(pr, o1, r1) ELSE pr
    BY <2>1 DEF k, k2, n
  <2> QED  BY <2>2, <2>3
<1>12. op \in Openers => OpenMove(c2, q, q, k, k2)
  BY DEF Moves
<1> HIDE DEF q, k, k2, n, op
<1>13. n = Len(k) /\ op = Opcode(c2, q) /\ At(s2, q) = k /\ q = Len(c) + 1
  BY <1>1, <1>3 DEF n, op, k, q
<1>14. CASE op = \h0B /\ n > 1
  <2>1. /\ DOMAIN pr2 = DOMAIN pr \cup {o1} /\ o1 \notin DOMAIN pr
        /\ pr2[o1] = r1 /\ \A o \in DOMAIN pr : pr2[o] = pr[o]
    <3>1. pr2 = Insert(pr, o1, r1) /\ o1 \notin DOMAIN pr
      BY <1>2, <1>10, <1>11, <1>14
    <3> HIDE DEF r1, o1
    <3> QED  BY <3>1 DEF Insert
  <2>2. \A i \in 1..(n - 1) : k2[i] = k[i]
    BY <1>2, <1>6, <1>7, <1>13, <1>14 DEF TopOnly
  <2>3. r1.end_pc = q /\ r1.else_pc = k[n].seen_else
    OBVIOUS
  <2> HIDE DEF r1
  <2>4. \A o \in DOMAIN pr2 :
           LET e == pr2[o].end_pc
               h == Len(At(s2, pr2[o].end_pc))
           IN /\ e \in DOMAIN s2 /\ e <= Len(c2) /\ Opcode(c2, e) = \h0B
              /\ h > 1 /\ At(s2, e)[h].opener = o /\ At(s2, e)[h].seen_else = pr2[o].else_pc
    <3> TAKE o \in DOMAIN pr2
    <3>1. CASE o \in DOMAIN pr
      BY <1>1, <1>3, <1>4, <1>10, <2>1, <3>1
    <3>2. CASE o = o1
      <4>1. pr2[o].end_pc = q /\ pr2[o].else_pc = k[n].seen_else
        BY <2>1, <2>3, <3>2
      <4>2. q \in DOMAIN s2 /\ q <= Len(c2)
        BY <1>1, <1>13
      <4> QED  BY <1>13, <1>14, <3>2, <4>1, <4>2
    <3> QED  BY <2>1, <3>1, <3>2
  <2>5. \A p \in DOMAIN s2 :
          p <= Len(c2) /\ Opcode(c2, p) = \h0B /\ Len(At(s2, p)) > 1 =>
            LET o == At(s2, p)[Len(At(s2, p))].opener IN o \in DOMAIN pr2 /\ pr2[o].end_pc = p
    <3> SUFFICES ASSUME NEW p \in DOMAIN s2, p <= Len(c2), Opcode(c2, p) = \h0B,
                        Len(At(s2, p)) > 1
                 PROVE  LET o == At(s2, p)[Len(At(s2, p))].opener
                        IN o \in DOMAIN pr2 /\ pr2[o].end_pc = p
      OBVIOUS
    <3>1. CASE p \in DOMAIN s /\ p <= Len(c)
      BY <1>3, <1>4, <1>10, <2>1, <3>1
    <3>2. CASE p = q
      BY <1>13, <2>1, <2>3, <3>2
    <3> QED  BY <1>5, <3>1, <3>2
  <2>6. \A i \in 2..Len(k2) : k2[i].opener \notin DOMAIN pr2
    <3> TAKE i \in 2..Len(k2)
    <3>1. i \in 2..n /\ i # n /\ n \in 2..n /\ k2[i] = k[i]
      BY <1>2, <1>7, <1>13, <1>14, <2>2
    <3>2. k[i].opener # o1
      <4>1. Len(At(s, k[i].opener)) = i - 1 /\ Len(At(s, k[n].opener)) = n - 1
        BY <1>8, <3>1
      <4> QED  BY <1>2, <3>1, <4>1
    <3> QED  BY <1>10, <2>1, <3>1, <3>2
  <2>7. \A o \in DOMAIN s2 :
          o <= Len(c2) /\ Opcode(c2, o) \in Openers =>
            o \in DOMAIN pr2 \/ \E i \in 2..Len(k2) : k2[i].opener = o
    <3> SUFFICES ASSUME NEW o \in DOMAIN s2, o <= Len(c2), Opcode(c2, o) \in Openers
                 PROVE  o \in DOMAIN pr2 \/ \E i \in 2..Len(k2) : k2[i].opener = o
      OBVIOUS
    <3>1. o \in DOMAIN s /\ o <= Len(c) /\ Opcode(c, o) \in Openers
      <4>1. o # q
        BY <1>13, <1>14 DEF Openers
      <4> QED  BY <1>4, <1>5, <4>1
    <3>2. CASE o \in DOMAIN pr
      BY <2>1, <3>2
    <3>3. CASE \E i \in 2..n : k[i].opener = o
      <4>1. PICK i \in 2..n : k[i].opener = o
        BY <3>3
      <4>2. CASE i = n
        BY <2>1, <4>1, <4>2
      <4>3. CASE i # n
        <5>1. i \in 2..Len(k2) /\ k2[i].opener = o
          BY <1>2, <1>7, <1>13, <1>14, <2>2, <4>1, <4>3
        <5> QED  BY <5>1
      <4> QED  BY <4>2, <4>3
    <3> QED  BY <1>10, <3>1, <3>2, <3>3
  <2> QED  BY <2>4, <2>5, <2>6, <2>7 DEF Pairing, k2
<1>15. CASE ~(op = \h0B /\ n > 1)
  <2>1. pr2 = pr
    BY <1>11, <1>15
  <2>2. \A o \in DOMAIN pr :
           LET e == pr[o].end_pc
               h == Len(At(s2, pr[o].end_pc))
           IN /\ e \in DOMAIN s2 /\ e <= Len(c2) /\ Opcode(c2, e) = \h0B
              /\ h > 1 /\ At(s2, e)[h].opener = o /\ At(s2, e)[h].seen_else = pr[o].else_pc
    BY <1>1, <1>3, <1>4, <1>10
  <2>3. \A p \in DOMAIN s2 :
          p <= Len(c2) /\ Opcode(c2, p) = \h0B /\ Len(At(s2, p)) > 1 =>
            LET o == At(s2, p)[Len(At(s2, p))].opener IN o \in DOMAIN pr /\ pr[o].end_pc = p
    <3> SUFFICES ASSUME NEW p \in DOMAIN s2, p <= Len(c2), Opcode(c2, p) = \h0B,
                        Len(At(s2, p)) > 1
                 PROVE  LET o == At(s2, p)[Len(At(s2, p))].opener
                        IN o \in DOMAIN pr /\ pr[o].end_pc = p
      OBVIOUS
    <3>1. p # q
      BY <1>13, <1>15
    <3> QED  BY <1>3, <1>4, <1>5, <1>10, <3>1
  <2>4. \A i \in 2..Len(k2) : k2[i].opener \notin DOMAIN pr
    <3> TAKE i \in 2..Len(k2)
    <3>1. CASE i <= n
      BY <1>2, <1>6, <1>10, <1>13, <3>1 DEF TopOnly
    <3>2. CASE i = n + 1
      <4>1. k2[i].opener = q
        BY <1>2, <1>6, <1>12, <1>13, <3>2 DEF TopOnly, OpenMove
      <4> QED  BY <1>2, <1>9, <4>1
    <3> QED  BY <1>2, <1>6, <1>13, <3>1, <3>2 DEF TopOnly
  <2>5. \A o \in DOMAIN s2 :
          o <= Len(c2) /\ Opcode(c2, o) \in Openers =>
            o \in DOMAIN pr \/ \E i \in 2..Len(k2) : k2[i].opener = o
    <3> SUFFICES ASSUME NEW o \in DOMAIN s2, o <= Len(c2), Opcode(c2, o) \in Openers,
                        o \notin DOMAIN pr
                 PROVE  \E i \in 2..Len(k2) : k2[i].opener = o
      OBVIOUS
    <3>1. CASE o = q
      <4>1. OpenMove(c2, q, q, k, k2)
        BY <1>12, <1>13, <3>1
      <4>2. n + 1 \in 2..Len(k2) /\ k2[n + 1].opener = o
        BY <1>2, <1>13, <3>1, <4>1 DEF OpenMove
      <4> QED  BY <4>2
    <3>2. CASE o # q
      <4>1. PICK i \in 2..n : k[i].opener = o
        BY <1>4, <1>5, <1>10, <3>2
      <4>2. Len(k2) >= n
        BY <1>2, <1>6, <1>7, <1>13, <1>15, <4>1 DEF TopOnly
      <4>3. i \in 2..Len(k2) /\ k2[i].opener = o
        BY <1>2, <1>6, <1>13, <4>1, <4>2 DEF TopOnly
      <4> QED  BY <4>3
    <3> QED  BY <3>1, <3>2
  <2> QED  BY ONLY <2>1, <2>2, <2>3, <2>4, <2>5 DEF Pairing, k2
<1> QED  BY <1>14, <1>15

-----------------------------------------------------------------------------
(* The validator's operations.                                             *)

\* They leave the control stack alone and forget no error, ...
Quiet(m, n) == n \in VState /\ n.controls = m.controls /\ (n.err = OK => m.err = OK)

\* ... and unless they dip below the current frame they keep what lies there.
Kept(m, n) ==
  n.err = OK /\ ~n.dipped =>
    /\ ~m.dipped
    /\ Top(m).height <= Len(m.stack) =>
         Top(m).height <= Len(n.stack) /\ Below(n.stack, m.stack, Top(m).height)

\* Operands were popped: from a reachable frame ts, as they were asked for.
Popped(m, n, ts) ==
  n.err = OK =>
    /\ Below(n.stack, m.stack, Len(n.stack))
    /\ ~Top(m).unreachable => Takes(m.stack, ts) /\ Len(n.stack) = Len(m.stack) - Len(ts)

LEMMA TopIs ==
  ASSUME NEW m \in VState, Len(m.controls) > 0
  PROVE  Top(m) = m.controls[Len(m.controls)] /\ Top(m) \in Frame /\ Len(m.controls) \in Nat \ {0}
<1>1. m.controls \in Seq(Frame)
  BY DEF VState
<1> QED  BY <1>1, LastIs DEF Top

LEMMA FailIs ==
  ASSUME NEW m \in VState, NEW e \in Rejections
  PROVE  Fail(m, e) \in VState /\ Fail(m, e).err # OK /\ Fail(m, e).controls = m.controls
<1>1. e # OK
  BY DEF Rejections, OK
<1> QED  BY <1>1 DEF Fail, VState

LEMMA PopFails ==
  ASSUME NEW m \in VState, NEW n, NEW ts,
         n = Fail(m, "TypeMismatch") \/ n = Fail(m, "OperandStackUnderflow")
  PROVE  Quiet(m, n) /\ Kept(m, n) /\ Popped(m, n, ts)
<1>1. n \in VState /\ n.err # OK /\ n.controls = m.controls
  BY FailIs DEF Rejections
<1> QED  BY <1>1 DEF Quiet, Kept, Popped

LEMMA PushIs ==
  ASSUME NEW m \in VState, NEW ts \in Seq(ValueTypes), Len(m.controls) > 0
  PROVE  /\ Quiet(m, Push(m, ts)) /\ Kept(m, Push(m, ts))
         /\ Push(m, ts).err = m.err /\ Push(m, ts).dipped = m.dipped
         /\ m.err = OK => Push(m, ts).stack = m.stack \o ts
<1>1. m.stack \in Seq(ValueTypes) /\ Top(m) \in Frame /\ Top(m).height \in Nat
  BY TopIs DEF VState, Frame
<1>2. CASE m.err # OK
  BY <1>2 DEF Push, Quiet, Kept
<1>3. CASE m.err = OK
  <2>1. Push(m, ts) = [m EXCEPT !.stack = m.stack \o ts]
    BY <1>3 DEF Push
  <2>2. /\ Push(m, ts) \in VState /\ Push(m, ts).controls = m.controls
        /\ Push(m, ts).err = m.err /\ Push(m, ts).dipped = m.dipped
        /\ Push(m, ts).stack = m.stack \o ts
    <3>1. m.stack \o ts \in Seq(ValueTypes)
      BY <1>1, ConcatIs
    <3> QED  BY <2>1, <3>1 DEF VState
  <2>3. /\ Len(m.stack \o ts) = Len(m.stack) + Len(ts)
        /\ \A i \in 1..Len(m.stack) : (m.stack \o ts)[i] = m.stack[i]
    BY <1>1, ConcatIs
  <2>4. Kept(m, Push(m, ts))
    BY <1>1, <2>2, <2>3 DEF Kept, Below
  <2> QED  BY <1>3, <2>2, <2>4 DEF Quiet
<1> QED  BY <1>2, <1>3

LEMMA PopAllIs ==
  ASSUME NEW m \in VState, NEW T, NEW ts \in Seq(T), Len(m.controls) > 0
  PROVE  Quiet(m, PopAll(m, ts)) /\ Kept(m, PopAll(m, ts)) /\ Popped(m, PopAll(m, ts), ts)
<1> DEFINE n == Taken(m, ts)
           s == m.stack
<1>1. /\ s \in Seq(ValueTypes) /\ Top(m) \in Frame /\ Top(m).height \in Nat
      /\ Top(m).unreachable \in BOOLEAN
  BY TopIs DEF VState, Frame
<1>2. n \in 0..Len(ts) /\ (~Top(m).unreachable => n = Len(ts))
  BY <1>1 DEF Taken
<1> HIDE DEF n
<1>3. CASE m.err # OK
  BY <1>3 DEF PopAll, Quiet, Kept, Popped
<1>4. CASE m.err = OK /\ (Mismatch(s, ts, n) \/ n > Len(s))
  <2>1. PopAll(m, ts) = Fail(m, "TypeMismatch") \/ PopAll(m, ts) = Fail(m, "OperandStackUnderflow")
    BY <1>4 DEF PopAll, n
  <2> QED  BY <2>1, PopFails
<1>5. CASE m.err = OK /\ ~Mismatch(s, ts, n) /\ ~(n > Len(s))
  <2> DEFINE r == PopAll(m, ts)
  <2>1. r = [m EXCEPT !.stack = Drop(s, n),
                      !.dipped = m.dipped \/ (n > 0 /\ Len(s) - n < Top(m).height)]
    BY <1>5 DEF PopAll, n
  <2>2. n \in 0..Len(s)
    BY <1>1, <1>2, <1>5
  <2>3. /\ Drop(s, n) \in Seq(ValueTypes) /\ Len(Drop(s, n)) = Len(s) - n
        /\ \A i \in 1..(Len(s) - n) : Drop(s, n)[i] = s[i]
    BY <1>1, <2>2, DropIs
  <2>4. /\ r.stack = Drop(s, n) /\ r.controls = m.controls /\ r.err = m.err
        /\ ~r.dipped => ~m.dipped /\ ~(n > 0 /\ Len(s) - n < Top(m).height)
    BY <2>1 DEF VState
  <2>5. r \in VState
    BY <2>1, <2>3 DEF VState
  <2> HIDE DEF r, s
  <2>6. Quiet(m, r)
    BY <2>4, <2>5 DEF Quiet
  <2>7. Kept(m, r)
    BY <1>1, <2>2, <2>3, <2>4 DEF Kept, Below, s
  <2>8. Popped(m, r, ts)
    <3>1. Below(r.stack, s, Len(r.stack))
      BY <1>1, <2>2, <2>3, <2>4 DEF Below
    <3>2. ASSUME ~Top(m).unreachable PROVE Takes(s, ts) /\ Len(r.stack) = Len(s) - Len(ts)
      <4>1. n = Len(ts)
        BY <1>2, <3>2
      <4>2. Takes(s, ts)
        BY <1>1, <1>5, <2>2, <4>1 DEF Takes, Mismatch, s
      <4> QED  BY <2>3, <2>4, <4>1, <4>2
    <3> QED  BY <3>1, <3>2 DEF Popped, s
  <2> QED  BY <2>6, <2>7, <2>8 DEF r
<1> QED  BY <1>3, <1>4, <1>5

\* pop_expect and pop_any are pops of one operand.
LEMMA OnePopIs ==
  ASSUME NEW m \in VState, Len(m.controls) > 0
  PROVE  /\ \A t : /\ Quiet(m, pop_expect(m, t)) /\ Kept(m, pop_expect(m, t))
                   /\ Popped(m, pop_expect(m, t), <<t>>)
         /\ Quiet(m, pop_any(m)) /\ Kept(m, pop_any(m))
         /\ Popped(m, pop_any(m), <<Last(m.stack)>>)
<1> DEFINE s == m.stack
           taken == [m EXCEPT !.stack = Front(s), !.dipped = m.dipped \/ Len(s) <= Top(m).height]
<1>1. /\ s \in Seq(ValueTypes) /\ Top(m) \in Frame /\ Top(m).height \in Nat
      /\ Top(m).unreachable \in BOOLEAN
  BY TopIs DEF VState, Frame
<1>3. ASSUME m.err = OK, ~Polymorphic(m), s # <<>>, NEW t, Last(s) = t
      PROVE  Quiet(m, taken) /\ Kept(m, taken) /\ Popped(m, taken, <<t>>)
  <2>1. Len(s) > 0
    BY <1>1, <1>3
  <2>2. /\ Front(s) \in Seq(ValueTypes) /\ Len(Front(s)) = Len(s) - 1
        /\ \A i \in 1..(Len(s) - 1) : Front(s)[i] = s[i]
        /\ t = s[Len(s)]
    BY <1>1, <1>3, <2>1, FrontIs, LastIs
  <2>3. /\ taken.stack = Front(s) /\ taken.controls = m.controls /\ taken.err = m.err
        /\ ~taken.dipped => ~m.dipped /\ ~(Len(s) <= Top(m).height)
    BY DEF VState
  <2>4. taken \in VState
    BY <2>2 DEF VState
  <2> HIDE DEF taken, s
  <2>5. Quiet(m, taken)
    BY <2>3, <2>4 DEF Quiet
  <2>6. Kept(m, taken)
    BY <1>1, <2>1, <2>2, <2>3 DEF Kept, Below, s
  <2>7. Popped(m, taken, <<t>>)
    BY <1>1, <2>1, <2>2, <2>3 DEF Popped, Takes, Below, s
  <2> QED  BY <2>5, <2>6, <2>7
<1>4. ASSUME m.err # OK \/ Polymorphic(m), NEW t
      PROVE  Quiet(m, m) /\ Kept(m, m) /\ Popped(m, m, <<t>>)
  <2>1. Quiet(m, m)
    BY DEF Quiet
  <2>2. Kept(m, m)
    BY <1>1 DEF Kept, Below
  <2>3. Popped(m, m, <<t>>)
    BY <1>1, <1>4 DEF Popped, Polymorphic, Below
  <2> QED  BY <2>1, <2>2, <2>3
<1> HIDE DEF taken
<1>5. ASSUME NEW t
      PROVE  /\ Quiet(m, pop_expect(m, t)) /\ Kept(m, pop_expect(m, t))
             /\ Popped(m, pop_expect(m, t), <<t>>)
  <2>1. \/ (m.err # OK \/ Polymorphic(m)) /\ pop_expect(m, t) = m
        \/ pop_expect(m, t) = Fail(m, "OperandStackUnderflow")
        \/ pop_expect(m, t) = Fail(m, "TypeMismatch")
        \/ m.err = OK /\ ~Polymorphic(m) /\ s # <<>> /\ Last(s) = t /\ pop_expect(m, t) = taken
    BY DEF pop_expect, taken
  <2> QED  BY <1>3, <1>4, <2>1, PopFails
<1>6. /\ Quiet(m, pop_any(m)) /\ Kept(m, pop_any(m))
      /\ Popped(m, pop_any(m), <<Last(s)>>)
  <2>1. \/ (m.err # OK \/ Polymorphic(m)) /\ pop_any(m) = m
        \/ pop_any(m) = Fail(m, "OperandStackUnderflow")
        \/ m.err = OK /\ ~Polymorphic(m) /\ s # <<>> /\ pop_any(m) = taken
    BY DEF pop_any, taken
  <2> QED  BY <1>3, <1>4, <2>1, PopFails
<1> QED  BY <1>5, <1>6

LEMMA QuietTop ==
  ASSUME NEW m, NEW n, Quiet(m, n)
  PROVE  Top(n) = Top(m) /\ Len(n.controls) = Len(m.controls)
  BY DEF Quiet, Top

LEMMA QuietTrans ==
  ASSUME NEW m, NEW n, NEW r, Quiet(m, n), Quiet(n, r)
  PROVE  Quiet(m, r)
  BY DEF Quiet

LEMMA KeptTrans ==
  ASSUME NEW m, NEW n, NEW r, Quiet(m, n), Quiet(n, r), Kept(m, n), Kept(n, r)
  PROVE  Kept(m, r)
<1>1. Top(n) = Top(m) /\ (r.err = OK => n.err = OK)
  BY QuietTop DEF Quiet
<1> QED  BY <1>1 DEF Kept, Below

LEMMA PeekIs ==
  ASSUME NEW m \in VState, Len(m.controls) > 0, NEW t
  PROVE  /\ Quiet(m, peek_expect(m, t)) /\ Kept(m, peek_expect(m, t))
         /\ peek_expect(m, t).err = OK =>
              peek_expect(m, t) = m /\ (~Top(m).unreachable => Takes(m.stack, <<t>>))
<1> DEFINE n == peek_expect(m, t)
<1>1. m.stack \in Seq(ValueTypes) /\ Top(m).height \in Nat
  BY TopIs DEF VState, Frame
<1>2. \/ (m.err # OK \/ Polymorphic(m)) /\ n = m
      \/ n = Fail(m, "OperandStackUnderflow")
      \/ n = Fail(m, "TypeMismatch")
      \/ m.err = OK /\ m.stack # <<>> /\ Last(m.stack) = t /\ n = m
  BY DEF peek_expect
<1>3. Quiet(m, m) /\ Kept(m, m)
  BY <1>1 DEF Quiet, Kept, Below
<1>4. CASE n = Fail(m, "OperandStackUnderflow") \/ n = Fail(m, "TypeMismatch")
  <2>1. n.err # OK
    BY <1>4, FailIs DEF Rejections
  <2> QED  BY <1>4, <2>1, PopFails
<1>5. CASE (m.err # OK \/ Polymorphic(m)) /\ n = m
  BY <1>3, <1>5 DEF Polymorphic
<1>6. CASE m.err = OK /\ m.stack # <<>> /\ Last(m.stack) = t /\ n = m
  <2>1. Len(m.stack) > 0
    BY <1>1, <1>6
  <2>2. m.stack[Len(m.stack)] = t
    BY <1>1, <1>6, <2>1, LastIs
  <2>3. Takes(m.stack, <<t>>)
    BY <1>1, <2>1, <2>2 DEF Takes
  <2> HIDE DEF n
  <2> QED  BY <1>3, <1>6, <2>3 DEF n
<1> QED  BY <1>2, <1>4, <1>5, <1>6

\* mark_unreachable cuts the stack to the floor of the frame it marks.
Marked(m, n) ==
  /\ n \in VState /\ (n.err = OK => m.err = OK)
  /\ n.err = OK =>
       /\ Len(n.controls) = Len(m.controls)
       /\ \A j \in 1..(Len(m.controls) - 1) : n.controls[j] = m.controls[j]
       /\ n.controls[Len(m.controls)] = [m.controls[Len(m.controls)] EXCEPT !.unreachable = TRUE]
       /\ (n.dipped <=> m.dipped) /\ n.stack = Truncate(m.stack, Top(m).height)

LEMMA MarkIs ==
  ASSUME NEW m \in VState, Len(m.controls) > 0
  PROVE  Marked(m, mark_unreachable(m))
<1> DEFINE n == mark_unreachable(m)
           k == m.controls
<1>1. CASE m.err # OK
  BY <1>1 DEF mark_unreachable, Marked
<1>2. CASE m.err = OK
  <2>1. /\ k \in Seq(Frame) /\ Len(k) \in Nat \ {0} /\ k[Len(k)] \in Frame
        /\ m.stack \in Seq(ValueTypes) /\ Top(m) = k[Len(k)] /\ Top(m).height \in Nat
    BY TopIs DEF VState, Frame
  <2>2. n = [m EXCEPT !.stack = Truncate(m.stack, Top(m).height),
                      !.controls = [k EXCEPT ![Len(k)] = [k[Len(k)] EXCEPT !.unreachable = TRUE]]]
    BY <1>2, <2>1 DEF mark_unreachable, VState
  <2> DEFINE k2 == [k EXCEPT ![Len(k)] = [k[Len(k)] EXCEPT !.unreachable = TRUE]]
  <2>3. [k[Len(k)] EXCEPT !.unreachable = TRUE] \in Frame
    BY <2>1 DEF Frame
  <2>4. /\ k2 \in Seq(Frame) /\ Len(k2) = Len(k) /\ \A j \in 1..(Len(k) - 1) : k2[j] = k[j]
        /\ k2[Len(k)] = [k[Len(k)] EXCEPT !.unreachable = TRUE]
    BY <2>1, <2>3
  <2>5. Truncate(m.stack, Top(m).height) \in Seq(ValueTypes)
    BY <2>1, TruncateIs
  <2> HIDE DEF k2
  <2>6. /\ n.err = m.err /\ n.dipped = m.dipped /\ n.controls = k2
        /\ n.stack = Truncate(m.stack, Top(m).height)
    BY <2>2 DEF VState, k2
  <2>7. n \in VState
    BY <2>2, <2>4, <2>5 DEF VState, k2
  <2> QED  BY <1>2, <2>4, <2>6, <2>7 DEF Marked
<1> QED  BY <1>1, <1>2

LEMMA LabelTyped ==
  ASSUME NEW f \in Frame
  PROVE  LabelTypes(f) \in Seq(ValueTypes)
  BY DEF LabelTypes, Frame

LEMMA RequireIs ==
  ASSUME NEW m \in VState, Len(m.controls) > 0, NEW depth \in Nat
  PROVE  LET n == require_label_values(m, depth)
         IN /\ Quiet(m, n) /\ Kept(m, n)
            /\ n.err = OK => n = m /\ depth < Len(m.controls)
            /\ n.err = OK /\ ~Top(m).unreachable /\ Top(m).height <= Len(m.stack) =>
                 LabelFits(m.controls, m.stack, depth)
<1> DEFINE n == require_label_values(m, depth)
           k == m.controls
           want == LabelTypes(k[ControlAt(m, depth)])
           above == Len(m.stack) - Top(m).height
<1>1. /\ m.stack \in Seq(ValueTypes) /\ Top(m).height \in Nat /\ k \in Seq(Frame)
      /\ Top(m) = k[Len(k)] /\ Len(k) \in Nat \ {0}
  BY TopIs DEF VState, Frame
<1>2. Quiet(m, m) /\ Kept(m, m)
  BY <1>1 DEF Quiet, Kept, Below
<1>3. CASE m.err # OK
  <2>1. n = m
    BY <1>3 DEF require_label_values
  <2> QED  BY <1>2, <1>3, <2>1
<1>4. ASSUME NEW e \in Rejections, n = Fail(m, e)
      PROVE  Quiet(m, n) /\ Kept(m, n) /\ n.err # OK
  BY <1>4, FailIs DEF Quiet, Kept
<1>5. CASE m.err = OK /\ ControlAt(m, depth) = 0
  <2>1. n = Fail(m, "BranchDepthOutOfBounds")
    BY <1>5 DEF require_label_values
  <2> QED  BY <1>4, <2>1 DEF Rejections
<1>6. CASE m.err = OK /\ ControlAt(m, depth) # 0
  <2>1. depth < Len(k) /\ ControlAt(m, depth) = Len(k) - depth
    BY <1>1, <1>6 DEF ControlAt
  <2>2. k[Len(k) - depth] \in Frame
    BY <1>1, <2>1
  <2>3. want = LabelTypes(k[Len(k) - depth]) /\ want \in Seq(ValueTypes)
    BY <2>1, <2>2, LabelTyped
  <2>4. \/ n = Fail(m, "OperandStackUnderflow") \/ n = Fail(m, "TypeMismatch")
        \/ n = m /\ Polymorphic(m)
        \/ n = m /\ ~((IF above < 0 THEN 0 ELSE above) < Len(want))
                 /\ LastN(m.stack, Len(want)) = want
    BY <1>6 DEF require_label_values
  <2>5. CASE n = Fail(m, "OperandStackUnderflow") \/ n = Fail(m, "TypeMismatch")
    <3>1. "OperandStackUnderflow" \in Rejections /\ "TypeMismatch" \in Rejections
      BY DEF Rejections
    <3> QED  BY <1>4, <2>5, <3>1
  <2>6. CASE n = m /\ Polymorphic(m)
    BY <1>2, <2>1, <2>6 DEF Polymorphic
  <2>7. CASE n = m /\ ~((IF above < 0 THEN 0 ELSE above) < Len(want))
               /\ LastN(m.stack, Len(want)) = want
    <3> SUFFICES ASSUME Top(m).height <= Len(m.stack)
                 PROVE  LabelFits(k, m.stack, depth)
      BY <1>2, <2>1, <2>7
    <3>1. Len(want) <= Len(m.stack) - Top(m).height /\ Len(want) \in Nat
      BY <1>1, <2>3, <2>7
    <3>2. Len(want) \in 0..Len(m.stack)
      BY <1>1, <3>1
    <3> HIDE DEF want
    <3>3. \A i \in 1..Len(want) : want[i] = m.stack[Len(m.stack) - Len(want) + i]
      <4>1. \A i \in 1..Len(want) :
              LastN(m.stack, Len(want))[i] = m.stack[Len(m.stack) - Len(want) + i]
        BY <1>1, <3>2, LastNIs
      <4>2. LastN(m.stack, Len(want)) = want
        BY <2>7
      <4> QED  BY ONLY <4>1, <4>2
    <3>4. Topped(m.stack, Len(m.stack) - Len(want), want)
      BY <1>1, <3>2, <3>3 DEF Topped
    <3>5. Len(want) + k[Len(k)].height <= Len(m.stack)
      BY <1>1, <3>1
    <3> QED  BY ONLY <2>3, <3>4, <3>5 DEF LabelFits
  <2> QED  BY <2>4, <2>5, <2>6, <2>7
<1> QED  BY <1>3, <1>5, <1>6

\* enter_control: the operands are the ones left by the pop of the parameters, with
\* the parameters on top again, and the new frame stands between the two.
Entered(m, n, kind, sig, opener) ==
  /\ n \in VState /\ (n.err = OK => m.err = OK)
  /\ n.err = OK =>
       LET f == n.controls[Len(m.controls) + 1]
       IN /\ Len(n.controls) = Len(m.controls) + 1
          /\ \A j \in 1..Len(m.controls) : n.controls[j] = m.controls[j]
          /\ f.kind = kind /\ f.params = sig.params /\ f.ends = sig.results
          /\ ~f.unreachable /\ f.seen_else = 0 /\ f.opener = opener
          /\ Topped(n.stack, f.height, sig.params) /\ Below(n.stack, m.stack, f.height)
          /\ ~n.dipped =>
               /\ ~m.dipped
               /\ Top(m).height <= Len(m.stack) =>
                    /\ Top(m).height <= f.height /\ f.height <= Len(n.stack)
                    /\ Below(n.stack, m.stack, Top(m).height)
          /\ ~Top(m).unreachable => n.stack = m.stack

LEMMA EnterIs ==
  ASSUME NEW m \in VState, Len(m.controls) > 0, NEW kind \in {"block", "loop", "if"},
         NEW sig \in [params : Seq(ValueTypes), results : Seq(ValueTypes)], NEW opener \in Nat
  PROVE  Entered(m, EnterControl(m, kind, sig, opener), kind, sig, opener)
<1> DEFINE p == PopParams(m, sig.params)
           n == EnterControl(m, kind, sig, opener)
           f == [kind |-> kind, height |-> Len(p.stack), params |-> sig.params,
                 ends |-> sig.results, unreachable |-> FALSE, seen_else |-> 0, opener |-> opener]
<1>1. /\ sig.params \in Seq(ValueTypes) /\ sig.results \in Seq(ValueTypes)
      /\ Reverse(sig.params) \in Seq(ValueTypes) /\ Len(Reverse(sig.params)) = Len(sig.params)
      /\ \A i \in 1..Len(sig.params) :
           Reverse(sig.params)[i] = sig.params[Len(sig.params) - i + 1]
  BY ReverseIs
<1>2. Quiet(m, p) /\ Kept(m, p) /\ Popped(m, p, Reverse(sig.params))
  BY <1>1, PopAllIs DEF PopParams
<1>3. p \in VState /\ p.controls = m.controls /\ (p.err = OK => m.err = OK)
  BY <1>2 DEF Quiet
<1> HIDE DEF p
<1>4. CASE p.err # OK
  <2>1. n = p
    BY <1>4 DEF EnterControl, p
  <2> QED  BY <1>3, <1>4, <2>1 DEF Entered
<1>5. CASE p.err = OK
  <2>1. n = [p EXCEPT !.stack = p.stack \o sig.params, !.controls = Append(p.controls, f)]
    BY <1>5 DEF EnterControl, p
  <2>2. p.stack \in Seq(ValueTypes) /\ p.controls \in Seq(Frame) /\ m.stack \in Seq(ValueTypes)
    BY <1>3 DEF VState
  <2>3. f \in Frame
    BY <1>1, <2>2 DEF Frame
  <2>4. /\ f.kind = kind /\ f.params = sig.params /\ f.ends = sig.results
        /\ ~f.unreachable /\ f.seen_else = 0 /\ f.opener = opener /\ f.height = Len(p.stack)
    OBVIOUS
  <2> HIDE DEF f
  <2> DEFINE k2 == Append(p.controls, f)
             s2 == p.stack \o sig.params
  <2>5. /\ k2 \in Seq(Frame) /\ Len(k2) = Len(m.controls) + 1
        /\ \A j \in 1..Len(m.controls) : k2[j] = m.controls[j]
        /\ k2[Len(m.controls) + 1] = f
    BY <1>3, <2>2, <2>3
  <2>6. /\ s2 \in Seq(ValueTypes) /\ Len(s2) = Len(p.stack) + Len(sig.params)
        /\ \A i \in 1..Len(p.stack) : s2[i] = p.stack[i]
        /\ \A i \in 1..Len(sig.params) : s2[Len(p.stack) + i] = sig.params[i]
    BY <1>1, <2>2, ConcatIs
  <2> HIDE DEF k2, s2
  <2>7. n.stack = s2 /\ n.controls = k2 /\ n.err = p.err /\ n.dipped = p.dipped
    BY <1>3, <2>1 DEF VState, k2, s2
  <2>8. n \in VState
    BY <1>3, <2>1, <2>5, <2>6 DEF VState, k2, s2
  <2> HIDE DEF n
  <2>9. Topped(n.stack, f.height, sig.params) /\ Below(n.stack, m.stack, f.height)
    <3>1. Below(p.stack, m.stack, Len(p.stack))
      BY <1>2, <1>5 DEF Popped
    <3>2. Topped(n.stack, f.height, sig.params)
      BY <2>4, <2>6, <2>7 DEF Topped
    <3>3. Below(n.stack, m.stack, f.height)
      BY <1>1, <2>2, <2>4, <2>6, <2>7, <3>1 DEF Below
    <3> QED  BY <3>2, <3>3
  <2>10. ASSUME ~n.dipped
         PROVE  /\ ~m.dipped
                /\ Top(m).height <= Len(m.stack) =>
                     /\ Top(m).height <= f.height /\ f.height <= Len(n.stack)
                     /\ Below(n.stack, m.stack, Top(m).height)
    <3>1. Top(m).height \in Nat
      BY TopIs DEF Frame
    <3>2. ~p.dipped
      BY <2>7, <2>10
    <3>3. /\ ~m.dipped
          /\ Top(m).height <= Len(m.stack) =>
                Top(m).height <= Len(p.stack) /\ Below(p.stack, m.stack, Top(m).height)
      BY <1>2, <1>5, <3>2 DEF Kept
    <3> QED  BY <1>1, <2>2, <2>4, <2>6, <2>7, <3>1, <3>3 DEF Below
  <2>11. ASSUME ~Top(m).unreachable PROVE n.stack = m.stack
    <3> DEFINE w == sig.params
    <3>1. /\ Takes(m.stack, Reverse(w)) /\ Len(p.stack) = Len(m.stack) - Len(w)
          /\ \A i \in 1..Len(p.stack) : p.stack[i] = m.stack[i]
      BY <1>1, <1>2, <1>5, <2>11 DEF Popped, Below
    <3>2. Len(w) \in Nat /\ Len(w) <= Len(m.stack) /\ Len(s2) = Len(m.stack)
      BY <1>1, <2>2, <2>6, <3>1 DEF Takes
    <3>3. \A i \in 1..Len(w) : m.stack[Len(m.stack) - Len(w) + i] = w[i]
      <4> TAKE i \in 1..Len(w)
      <4>1. Len(w) - i + 1 \in 1..Len(w) /\ Len(m.stack) \in Nat
        BY <2>2, <3>2
      <4>2. m.stack[Len(m.stack) - (Len(w) - i + 1) + 1] = Reverse(w)[Len(w) - i + 1]
        BY <1>1, <3>1, <4>1 DEF Takes
      <4>3. Reverse(w)[Len(w) - i + 1] = w[Len(w) - (Len(w) - i + 1) + 1]
        BY <1>1, <4>1
      <4>4. /\ Len(w) - (Len(w) - i + 1) + 1 = i
            /\ Len(m.stack) - (Len(w) - i + 1) + 1 = Len(m.stack) - Len(w) + i
        BY <3>2, <4>1
      <4> QED  BY <4>2, <4>3, <4>4
    <3>4. ASSUME NEW i \in 1..Len(s2) PROVE s2[i] = m.stack[i]
      <4>1. CASE i <= Len(p.stack)
        BY <2>2, <2>6, <3>1, <4>1
      <4>2. CASE i > Len(p.stack)
        <5>1. i - Len(p.stack) \in 1..Len(w) /\ i = Len(p.stack) + (i - Len(p.stack))
          BY <2>2, <2>6, <3>2, <4>2
        <5>2. s2[i] = w[i - Len(p.stack)]
          BY <2>6, <5>1
        <5> QED  BY <3>1, <3>3, <5>1, <5>2
      <4> QED  BY <2>2, <4>1, <4>2
    <3>5. s2 = m.stack
      BY <2>2, <2>6, <3>2, <3>4, SameSequence
    <3> QED  BY <2>7, <3>5
  <2>12. Entered(m, n, kind, sig, opener)
    BY <1>3, <2>4, <2>5, <2>7, <2>8, <2>9, <2>10, <2>11 DEF Entered
  <2> QED  BY <2>12 DEF n
<1> QED  BY <1>4, <1>5

LEMMA FinishIs ==
  ASSUME NEW m \in VState, Len(m.controls) > 0
  PROVE  LET n == finish_frame(m)
         IN /\ Quiet(m, n) /\ (n.dipped <=> m.dipped)
            /\ n.err = OK /\ ~Top(m).unreachable =>
                 n = m /\ Topped(m.stack, Top(m).height, Top(m).ends)
            /\ Top(m).height <= Len(m.stack) =>
                 /\ Top(m).height <= Len(n.stack) /\ Below(n.stack, m.stack, Top(m).height)
<1> DEFINE n == finish_frame(m)
           h == Top(m).height
           w == Top(m).ends
<1>1. /\ m.stack \in Seq(ValueTypes) /\ Top(m) \in Frame /\ h \in Nat /\ w \in Seq(ValueTypes)
  BY TopIs DEF VState, Frame
<1>2. Quiet(m, m)
  BY DEF Quiet
<1>3. CASE Top(m).unreachable
  <2>1. n = [m EXCEPT !.stack = Truncate(m.stack, h)]
    BY <1>3 DEF finish_frame
  <2>2. /\ Truncate(m.stack, h) \in Seq(ValueTypes)
        /\ Len(Truncate(m.stack, h)) = IF h < Len(m.stack) THEN h ELSE Len(m.stack)
        /\ \A i \in 1..Len(Truncate(m.stack, h)) : Truncate(m.stack, h)[i] = m.stack[i]
    BY <1>1, TruncateIs
  <2>3. /\ n.stack = Truncate(m.stack, h) /\ n.controls = m.controls /\ n.err = m.err
        /\ n.dipped = m.dipped
    BY <2>1 DEF VState
  <2>4. n \in VState
    BY <2>1, <2>2 DEF VState
  <2> HIDE DEF n
  <2>5. h <= Len(m.stack) => h <= Len(n.stack) /\ Below(n.stack, m.stack, h)
    BY <1>1, <2>2, <2>3 DEF Below
  <2> QED  BY <1>3, <2>3, <2>4, <2>5 DEF Quiet, n
<1>4. CASE ~Top(m).unreachable /\ Len(m.stack) = h + Len(w)
           /\ SubSeq(m.stack, h + 1, Len(m.stack)) = w
  <2>1. n = m
    BY <1>4 DEF finish_frame
  <2>2. \A j \in 1..Len(w) : SubSeq(m.stack, h + 1, Len(m.stack))[j] = m.stack[h + j]
    <3>1. h \in 0..Len(m.stack) /\ Len(m.stack) - h = Len(w)
      BY <1>1, <1>4
    <3> HIDE DEF h, w
    <3> QED  BY <1>1, <3>1, TailIs
  <2>3. Topped(m.stack, h, w)
    BY <1>4, <2>2 DEF Topped
  <2>4. Below(m.stack, m.stack, h)
    BY <1>1, <1>4 DEF Below
  <2> HIDE DEF n, h, w
  <2> QED  BY <1>2, <2>1, <2>3, <2>4 DEF n, h, w
<1>5. CASE ~Top(m).unreachable /\ ~(Len(m.stack) = h + Len(w)
           /\ SubSeq(m.stack, h + 1, Len(m.stack)) = w)
  <2>1. n = Fail(m, "StackHeightMismatch") \/ n = Fail(m, "TypeMismatch")
    BY <1>5 DEF finish_frame
  <2>2. /\ n \in VState /\ n.err # OK /\ n.controls = m.controls
        /\ n.stack = m.stack /\ n.dipped = m.dipped
    <3>1. n \in VState /\ n.err # OK /\ n.controls = m.controls
      BY <2>1, FailIs DEF Rejections
    <3> QED  BY <2>1, <3>1 DEF Fail, VState
  <2>3. h <= Len(m.stack) => Below(m.stack, m.stack, h)
    BY <1>1 DEF Below
  <2> HIDE DEF n
  <2> QED  BY <2>2, <2>3 DEF Quiet, n
<1> QED  BY <1>3, <1>4, <1>5

LEMMA PoppedTrans ==
  ASSUME NEW m, NEW n, NEW r, NEW T, NEW ts \in Seq(T), NEW us \in Seq(T),
         Quiet(m, n), Quiet(n, r), Popped(m, n, ts), Popped(n, r, us), m.stack \in Seq(ValueTypes)
  PROVE  Popped(m, r, ts \o us)
<1>1. Top(n) = Top(m) /\ (r.err = OK => n.err = OK)
  BY QuietTop DEF Quiet
<1>2. n.stack \in Seq(ValueTypes) /\ r.stack \in Seq(ValueTypes)
  BY DEF Quiet, VState
<1>3. /\ Len(ts \o us) = Len(ts) + Len(us)
      /\ \A i \in 1..Len(ts) : (ts \o us)[i] = ts[i]
      /\ \A i \in 1..Len(us) : (ts \o us)[Len(ts) + i] = us[i]
  BY ConcatIs
<1> SUFFICES ASSUME r.err = OK
             PROVE  /\ Below(r.stack, m.stack, Len(r.stack))
                    /\ ~Top(m).unreachable =>
                         Takes(m.stack, ts \o us) /\ Len(r.stack) = Len(m.stack) - Len(ts \o us)
  BY DEF Popped
<1>4. Below(r.stack, n.stack, Len(r.stack)) /\ Below(n.stack, m.stack, Len(n.stack))
  BY <1>1 DEF Popped
<1>5. Below(r.stack, m.stack, Len(r.stack))
  BY <1>2, <1>4 DEF Below
<1>6. ASSUME ~Top(m).unreachable
      PROVE  Takes(m.stack, ts \o us) /\ Len(r.stack) = Len(m.stack) - Len(ts \o us)
  <2>1. /\ Takes(m.stack, ts) /\ Len(n.stack) = Len(m.stack) - Len(ts)
        /\ Takes(n.stack, us) /\ Len(r.stack) = Len(n.stack) - Len(us)
    BY <1>1, <1>6 DEF Popped
  <2>2. Len(ts) + Len(us) <= Len(m.stack)
    BY <1>2, <2>1 DEF Takes
  <2>3. ASSUME NEW i \in 1..(Len(ts) + Len(us))
        PROVE  m.stack[Len(m.stack) - i + 1] = (ts \o us)[i]
    <3>1. CASE i <= Len(ts)
      BY <1>3, <2>1, <3>1 DEF Takes
    <3>2. CASE i > Len(ts)
      <4>1. i - Len(ts) \in 1..Len(us) /\ Len(ts) + (i - Len(ts)) = i
        BY <3>2
      <4>2. (ts \o us)[i] = us[i - Len(ts)]
        BY <1>3, <4>1
      <4>3. n.stack[Len(n.stack) - (i - Len(ts)) + 1] = us[i - Len(ts)]
        BY <2>1, <4>1 DEF Takes
      <4>4. Len(n.stack) - (i - Len(ts)) + 1 = Len(m.stack) - i + 1
            /\ Len(m.stack) - i + 1 \in 1..Len(n.stack)
        BY <1>2, <2>1, <2>2, <3>2, <4>1
      <4>5. m.stack[Len(m.stack) - i + 1] = n.stack[Len(m.stack) - i + 1]
        BY <1>4, <4>4 DEF Below
      <4> QED  BY <4>2, <4>3, <4>4, <4>5
    <3> QED  BY <3>1, <3>2
  <2> QED  BY <1>2, <1>3, <2>1, <2>2, <2>3 DEF Takes
<1> QED  BY <1>5, <1>6

\* A pop and a push exchange operands.
LEMMA PopPush ==
  ASSUME NEW m \in VState, NEW p, NEW T, NEW ts \in Seq(T), NEW us \in Seq(ValueTypes), Len(m.controls) > 0,
         Quiet(m, p), Kept(m, p), Popped(m, p, ts)
  PROVE  LET n == Push(p, us)
         IN /\ Quiet(m, n) /\ Kept(m, n)
            /\ n.err = OK /\ ~Top(m).unreachable => Swap(m.stack, n.stack, ts, us)
<1> DEFINE n == Push(p, us)
<1>1. p \in VState /\ Len(p.controls) > 0 /\ m.stack \in Seq(ValueTypes) /\ p.stack \in Seq(ValueTypes)
  BY DEF Quiet, VState
<1>2. Quiet(p, n) /\ Kept(p, n) /\ n.err = p.err /\ (p.err = OK => n.stack = p.stack \o us)
  BY <1>1, PushIs
<1> HIDE DEF n
<1>3. Quiet(m, n) /\ Kept(m, n)
  BY <1>2, QuietTrans, KeptTrans
<1>4. ASSUME n.err = OK, ~Top(m).unreachable PROVE Swap(m.stack, n.stack, ts, us)
  <2>1. /\ Takes(m.stack, ts) /\ Len(p.stack) = Len(m.stack) - Len(ts)
        /\ Below(p.stack, m.stack, Len(p.stack)) /\ n.stack = p.stack \o us
    BY <1>2, <1>4 DEF Popped
  <2>2. /\ Len(n.stack) = Len(p.stack) + Len(us)
        /\ \A i \in 1..Len(p.stack) : n.stack[i] = p.stack[i]
        /\ \A i \in 1..Len(us) : n.stack[Len(p.stack) + i] = us[i]
    <3> DEFINE r == p.stack \o us
    <3>1. /\ Len(r) = Len(p.stack) + Len(us)
          /\ \A i \in 1..Len(p.stack) : r[i] = p.stack[i]
          /\ \A i \in 1..Len(us) : r[Len(p.stack) + i] = us[i]
      BY <1>1, ConcatIs
    <3> HIDE DEF r
    <3> QED  BY <2>1, <3>1 DEF r
  <2>3. Topped(n.stack, Len(m.stack) - Len(ts), us)
    BY <2>1, <2>2 DEF Topped
  <2>4. \A i \in 1..(Len(m.stack) - Len(ts)) : n.stack[i] = m.stack[i]
    BY <2>1, <2>2 DEF Below
  <2> QED  BY <2>1, <2>3, <2>4 DEF Swap
<1> QED  BY <1>3, <1>4 DEF n

\* A pop exchanges operands for none.
LEMMA PopSwap ==
  ASSUME NEW m \in VState, NEW n, NEW T, NEW ts \in Seq(T), Quiet(m, n), Popped(m, n, ts), n.err = OK,
         ~Top(m).unreachable
  PROVE  Swap(m.stack, n.stack, ts, <<>>)
<1>1. m.stack \in Seq(ValueTypes) /\ n.stack \in Seq(ValueTypes)
  BY DEF Quiet, VState
<1>2. /\ Takes(m.stack, ts) /\ Len(n.stack) = Len(m.stack) - Len(ts)
      /\ Below(n.stack, m.stack, Len(n.stack))
  BY DEF Popped
<1> QED  BY <1>1, <1>2 DEF Swap, Topped, Below

LEMMA SelfSwap ==
  ASSUME NEW s \in Seq(ValueTypes)
  PROVE  Swap(s, s, <<>>, <<>>)
  BY DEF Swap, Takes, Topped

LEMMA OneTaken ==
  ASSUME NEW s \in Seq(ValueTypes), NEW t, Takes(s, <<t>>)
  PROVE  t \in ValueTypes /\ Swap(s, s, <<t>>, <<t>>) /\ Len(s) > 0 /\ s[Len(s)] = t
<1>1. Len(s) > 0 /\ s[Len(s)] = t
  BY DEF Takes
<1> QED  BY <1>1 DEF Swap, Takes, Topped

-----------------------------------------------------------------------------
(* One instruction of the validator: what it does to a state it accepts.   *)

Accepted(ins, m) ==
  /\ m \in VState
  /\ m.err = OK =>
       /\ Moves(ins, 1, Len(code) + 1, v.controls, m.controls)
       /\ Names(ins, 1, Len(v.controls))
       /\ ~m.dipped =>
            /\ ~v.dipped
            /\ Top(v).height <= Len(v.stack) =>
                 /\ Typed(ins, 1, v.controls, m.controls, v.stack, m.stack)
                 /\ Rests(v.controls, m.controls, v.stack, m.stack)

Ready(ins) == WellFormed(ins) /\ v \in VState /\ Len(v.controls) > 0 /\ code \in Seq(Range(code))

LEMMA RejectAccepted ==
  ASSUME NEW ins, Ready(ins), NEW e \in Rejections
  PROVE  Accepted(ins, Fail(v, e))
  BY FailIs DEF Accepted, Ready

LEMMA InsIs ==
  ASSUME NEW ins, Ready(ins)
  PROVE  /\ Opcode(ins, 1) = ins[1].v /\ Arg(ins, 1, 1) = ins[2].v /\ Arg(ins, 1, 2) = ins[3].v
         /\ v.stack \in Seq(ValueTypes) /\ v.controls \in Seq(Frame) /\ Len(v.controls) \in Nat \ {0}
         /\ Top(v) = v.controls[Len(v.controls)] /\ Top(v) \in Frame /\ Top(v).height \in Nat
         /\ Len(code) \in Nat
<1>1. v \in VState /\ Len(v.controls) > 0 /\ code \in Seq(Range(code))
  BY DEF Ready
<1>2. Top(v) = v.controls[Len(v.controls)] /\ Top(v) \in Frame /\ Len(v.controls) \in Nat \ {0}
  BY <1>1, TopIs
<1> QED  BY <1>1, <1>2 DEF Opcode, Arg, VState, Frame

\* Instructions that leave the control stack alone.
Staying == (ControlOps \cup ValidatorOps) \ (Openers \cup {\h05, \h0B} \cup Leaving)

LEMMA StayAccepted ==
  ASSUME NEW ins, Ready(ins), NEW m, Quiet(v, m), Kept(v, m), ins[1].v \in Staying,
         m.err = OK => Names(ins, 1, Len(v.controls)),
         m.err = OK /\ ~m.dipped /\ ~Top(v).unreachable /\ Top(v).height <= Len(v.stack) =>
           Flows(ins, 1, v.controls, v.stack, m.stack)
  PROVE  Accepted(ins, m)
<1>1. ins[1].v \notin Openers \cup {\h05, \h0B} /\ ins[1].v \notin Leaving
  BY DEF Staying
<1>2. m.controls = v.controls /\ m \in VState
  BY DEF Quiet
<1>3. Moves(ins, 1, Len(code) + 1, v.controls, m.controls)
  BY <1>1, <1>2, InsIs DEF Moves, StayMove
<1>4. ASSUME m.err = OK, ~m.dipped, Top(v).height <= Len(v.stack)
      PROVE  /\ Typed(ins, 1, v.controls, m.controls, v.stack, m.stack)
             /\ Rests(v.controls, m.controls, v.stack, m.stack)
  <2>1. Typed(ins, 1, v.controls, m.controls, v.stack, m.stack)
    BY <1>1, <1>4, InsIs DEF Typed
  <2>2. Below(m.stack, v.stack, Top(v).height)
    BY <1>4 DEF Kept
  <2>3. Rests(v.controls, m.controls, v.stack, m.stack)
    BY <1>2, <2>2, InsIs DEF Rests
  <2> QED  BY <2>1, <2>3
<1> QED  BY <1>2, <1>3, <1>4 DEF Accepted, Kept

\* Instructions nothing is reached behind.
LEMMA LeaveAccepted ==
  ASSUME NEW ins, Ready(ins), NEW w, Quiet(v, w), Kept(v, w), NEW m, Marked(w, m),
         ins[1].v \in Leaving,
         m.err = OK => Names(ins, 1, Len(v.controls)),
         m.err = OK /\ ~m.dipped /\ ~Top(v).unreachable /\ Top(v).height <= Len(v.stack) =>
           Flows(ins, 1, v.controls, v.stack, m.stack)
  PROVE  Accepted(ins, m)
<1>1. ins[1].v \notin Openers \cup {\h05, \h0B}
  BY DEF Leaving, Openers
<1>2. w.controls = v.controls /\ w \in VState /\ m \in VState /\ w.stack \in Seq(ValueTypes)
      /\ (m.err = OK => w.err = OK)
  BY DEF Quiet, Marked, VState
<1>3. ASSUME m.err = OK PROVE Moves(ins, 1, Len(code) + 1, v.controls, m.controls)
  BY <1>1, <1>2, <1>3, InsIs DEF Moves, StayMove, Marked
<1>4. ASSUME m.err = OK, ~m.dipped PROVE ~v.dipped /\ ~w.dipped
  BY <1>2, <1>4 DEF Marked, Kept
<1>5. ASSUME m.err = OK, ~m.dipped, Top(v).height <= Len(v.stack)
      PROVE  /\ Typed(ins, 1, v.controls, m.controls, v.stack, m.stack)
             /\ Rests(v.controls, m.controls, v.stack, m.stack)
  <2>1. Typed(ins, 1, v.controls, m.controls, v.stack, m.stack)
    BY <1>1, <1>5, InsIs DEF Typed
  <2>2. Below(w.stack, v.stack, Top(v).height) /\ Top(v).height <= Len(w.stack)
    BY <1>2, <1>4, <1>5 DEF Kept
  <2>3. m.stack = Truncate(w.stack, Top(v).height) /\ Len(m.controls) = Len(v.controls)
    BY <1>2, <1>5, QuietTop DEF Marked
  <2>4. Below(m.stack, v.stack, Top(v).height)
    <3>1. /\ Len(m.stack) = Top(v).height
          /\ \A i \in 1..Top(v).height : m.stack[i] = w.stack[i]
      BY <1>2, <2>2, <2>3, InsIs, TruncateIs
    <3> QED  BY <2>2, <3>1, InsIs DEF Below
  <2>5. Rests(v.controls, m.controls, v.stack, m.stack)
    BY <2>3, <2>4, InsIs DEF Rests
  <2> QED  BY <2>1, <2>5
<1> QED  BY <1>2, <1>3, <1>4, <1>5 DEF Accepted

LEMMA VerdictFacts ==
  ASSUME NEW ins, Ready(ins)
  PROVE  /\ Quiet(v, v) /\ Kept(v, v)
         /\ v.err = OK => TRUE
  BY InsIs DEF Quiet, Kept, Below, Ready

LEMMA StayingOps ==
  /\ {\h01, \h0D, \h10, \h11, \h1A, \h1B, \h1C} \cup \h20..\h24 \subseteq Staying
  /\ \A op \in ValidatorOps : op \notin ControlOps /\ op \in Staying
<1>1. {\h01, \h0D, \h10, \h11, \h1A, \h1B, \h1C} \cup \h20..\h24 \subseteq Staying
  BY DEF Staying, ControlOps, Openers, Leaving
<1>2. ASSUME NEW op \in ValidatorOps PROVE op \notin ControlOps /\ op \in Staying
  <2>1. Known(op)
    BY ValidatorEntry
  <2>2. op \in Nat /\ (op < 1000 => op \in PlainSubs)
    BY <2>1 DEF Known, PlainSubs, BulkSubs, SimdSubs
  <2>3. op \notin ControlOps
    BY <2>2 DEF ControlOps, PlainSubs
  <2> QED  BY <2>3 DEF Staying, ControlOps, Openers, Leaving
<1> QED  BY <1>1, <1>2

\* An index immediate is a number.
LEMMA IndexIs ==
  ASSUME NEW ins, Ready(ins), ins[1].v \in {\h0C, \h0D, \h10, \h11, \h12, \h13} \cup \h20..\h24
  PROVE  ins[2].v \in Nat
<1> DEFINE op == ins[1].v
           imm == ControlImm(ins[1].v)
<1>1. /\ Decodes(ins, 1, ImmAt(ins, 1)) /\ \A i \in DOMAIN ins : Carried(ins[i])
      /\ ins \in Seq(Range(ins))
  BY WellFormedIs DEF Ready, WellFormed
<1>2. op \in ControlOps /\ (imm = <<"u32">> \/ imm = <<"u32", "table">>)
  BY ControlImmediates
<1>3. ImmAt(ins, 1) = imm
  BY <1>2 DEF ImmAt, ValidatorImm, Opcode
<1>4. Len(imm) >= 1 /\ imm[1] = "u32" /\ imm # <<"depths">> /\ Len(imm) \in Nat
  BY <1>2
<1> HIDE DEF imm
<1>5. Width(ins, 1, imm) = Len(imm)
  BY <1>4 DEF Width
<1>6. ins[1 + 1].k = Encoding("u32") /\ 1 + Len(imm) <= Len(ins)
  BY <1>1, <1>3, <1>4, <1>5 DEF Decodes
<1>7. ins[2].k = "u32" /\ 2 \in DOMAIN ins
  BY <1>1, <1>4, <1>6 DEF Encoding
<1> QED  BY <1>1, <1>7 DEF Carried

\* What an instruction names, by its opcode.
LEMMA NamesOf ==
  ASSUME NEW c, NEW p, NEW n
  PROVE  /\ Opcode(c, p) \in Openers \cup {\h00, \h01, \h05, \h0B, \h0F, \h1A, \h1B, \h1C} => Names(c, p, n)
         /\ Opcode(c, p) \in {\h0C, \h0D} /\ Arg(c, p, 1) < n => Names(c, p, n)
         /\ Opcode(c, p) = \h0E /\ (\A i \in 1..(Arg(c, p, 1) + 1) : Arg(c, p, i + 1) < n) => Names(c, p, n)
         /\ Opcode(c, p) \in \h20..\h22 /\ Arg(c, p, 1) \in DOMAIN Locals => Names(c, p, n)
         /\ Opcode(c, p) = \h23 /\ Arg(c, p, 1) \in DOMAIN Globals => Names(c, p, n)
         /\ /\ Opcode(c, p) = \h24 /\ Arg(c, p, 1) \in DOMAIN Globals
            /\ Globals[Arg(c, p, 1)].mutable
            => Names(c, p, n)
         /\ Opcode(c, p) = \h10 /\ Arg(c, p, 1) \in DOMAIN Functions => Names(c, p, n)
         /\ /\ Opcode(c, p) = \h12 /\ Arg(c, p, 1) \in DOMAIN Functions
            /\ Types[Functions[Arg(c, p, 1)]].results = Results
            => Names(c, p, n)
         /\ /\ Opcode(c, p) = \h11 /\ Arg(c, p, 1) \in DOMAIN Types
            /\ InSpace("table", Arg(c, p, 2))
            => Names(c, p, n)
         /\ /\ Opcode(c, p) = \h13 /\ Arg(c, p, 1) \in DOMAIN Types
            /\ InSpace("table", Arg(c, p, 2)) /\ Types[Arg(c, p, 1)].results = Results
            => Names(c, p, n)
<1> DEFINE op == Opcode(c, p)
           a  == Arg(c, p, 1)
<1>1. ASSUME op \in {\h02, \h03, \h04, \h00, \h01, \h05, \h0B, \h0F, \h1A, \h1B, \h1C} PROVE Names(c, p, n)
  BY <1>1 DEF Names, ControlOps
<1>2. ASSUME op \in {\h0C, \h0D}, a < n PROVE Names(c, p, n)
  BY <1>2 DEF Names, ControlOps
<1>3. ASSUME op = \h0E, \A i \in 1..(a + 1) : Arg(c, p, i + 1) < n PROVE Names(c, p, n)
  BY <1>3 DEF Names, ControlOps
<1>4. ASSUME op \in \h20..\h22, a \in DOMAIN Locals PROVE Names(c, p, n)
  BY <1>4 DEF Names, ControlOps
<1>5. ASSUME op = \h23, a \in DOMAIN Globals PROVE Names(c, p, n)
  BY <1>5 DEF Names, ControlOps
<1>6. ASSUME op = \h24, a \in DOMAIN Globals, Globals[a].mutable PROVE Names(c, p, n)
  BY <1>6 DEF Names, ControlOps
<1>7. ASSUME op = \h10, a \in DOMAIN Functions PROVE Names(c, p, n)
  BY <1>7 DEF Names, ControlOps
<1>8. ASSUME op = \h12, a \in DOMAIN Functions, Types[Functions[a]].results = Results PROVE Names(c, p, n)
  BY <1>8 DEF Names, ControlOps
<1>9. ASSUME op = \h11, a \in DOMAIN Types, InSpace("table", Arg(c, p, 2)) PROVE Names(c, p, n)
  BY <1>9 DEF Names, ControlOps
<1>10. ASSUME op = \h13, a \in DOMAIN Types, InSpace("table", Arg(c, p, 2)), Types[a].results = Results
       PROVE Names(c, p, n)
  BY <1>10 DEF Names, ControlOps
<1>11. Openers \cup {\h00, \h01, \h05, \h0B, \h0F, \h1A, \h1B, \h1C} =
         {\h02, \h03, \h04, \h00, \h01, \h05, \h0B, \h0F, \h1A, \h1B, \h1C}
  BY DEF Openers
<1> QED  BY <1>1, <1>2, <1>3, <1>4, <1>5, <1>6, <1>7, <1>8, <1>9, <1>10, <1>11

\* What operands it finds and leaves, by its opcode.
LEMMA FlowsOf ==
  ASSUME NEW c, NEW p, NEW k, NEW a, NEW b
  PROVE  /\ Opcode(c, p) \in {\h01, \h02, \h03} /\ Swap(a, b, <<>>, <<>>) => Flows(c, p, k, a, b)
         /\ Opcode(c, p) = \h04 /\ Swap(a, b, <<"i32">>, <<>>) => Flows(c, p, k, a, b)
         /\ /\ Opcode(c, p) = \h0D /\ Swap(a, b, <<"i32">>, <<>>) /\ LabelFits(k, b, Arg(c, p, 1))
            => Flows(c, p, k, a, b)
         /\ /\ Opcode(c, p) \in {\h05, \h0B} /\ Topped(a, k[Len(k)].height, k[Len(k)].ends)
            => Flows(c, p, k, a, b)
         /\ Opcode(c, p) = \h0C /\ LabelFits(k, a, Arg(c, p, 1)) => Flows(c, p, k, a, b)
         /\ Opcode(c, p) = \h00 => Flows(c, p, k, a, b)
         /\ Opcode(c, p) = \h0F /\ LabelFits(k, a, Len(k) - 1) => Flows(c, p, k, a, b)
         /\ /\ Opcode(c, p) = \h0E /\ Takes(a, <<"i32">>)
            /\ \A i \in 1..(Arg(c, p, 1) + 1) : LabelFits(k, Front(a), Arg(c, p, i + 1))
            => Flows(c, p, k, a, b)
         /\ /\ Opcode(c, p) \in {\h10, \h11} /\ Swap(a, b, CallPops(c, p), CalleeAt(c, p).results)
            => Flows(c, p, k, a, b)
         /\ Opcode(c, p) \in {\h12, \h13} /\ Takes(a, CallPops(c, p)) => Flows(c, p, k, a, b)
<1> DEFINE op == Opcode(c, p)
           n  == Arg(c, p, 1)
<1>1. ASSUME op \in {\h01, \h02, \h03}, Swap(a, b, <<>>, <<>>) PROVE Flows(c, p, k, a, b)
  <2>1. CASE op = \h01  BY <1>1, <2>1 DEF Flows, ControlOps
  <2>2. CASE op = \h02  BY <1>1, <2>2 DEF Flows, ControlOps
  <2>3. CASE op = \h03  BY <1>1, <2>3 DEF Flows, ControlOps
  <2> QED  BY <1>1, <2>1, <2>2, <2>3
<1>2. ASSUME op = \h04, Swap(a, b, <<"i32">>, <<>>) PROVE Flows(c, p, k, a, b)
  BY <1>2 DEF Flows, ControlOps
<1>3. ASSUME op = \h0D, Swap(a, b, <<"i32">>, <<>>), LabelFits(k, b, n) PROVE Flows(c, p, k, a, b)
  BY <1>3 DEF Flows, ControlOps
<1>4. ASSUME op \in {\h05, \h0B}, Topped(a, k[Len(k)].height, k[Len(k)].ends)
      PROVE Flows(c, p, k, a, b)
  <2>1. CASE op = \h05  BY <1>4, <2>1 DEF Flows, ControlOps
  <2>2. CASE op = \h0B  BY <1>4, <2>2 DEF Flows, ControlOps
  <2> QED  BY <1>4, <2>1, <2>2
<1>5. ASSUME op = \h0C, LabelFits(k, a, n) PROVE Flows(c, p, k, a, b)
  BY <1>5 DEF Flows, ControlOps
<1>6. ASSUME op = \h00 PROVE Flows(c, p, k, a, b)
  BY <1>6 DEF Flows, ControlOps
<1>7. ASSUME op = \h0F, LabelFits(k, a, Len(k) - 1) PROVE Flows(c, p, k, a, b)
  BY <1>7 DEF Flows, ControlOps
<1>8. ASSUME op = \h0E, Takes(a, <<"i32">>),
             \A i \in 1..(n + 1) : LabelFits(k, Front(a), Arg(c, p, i + 1))
      PROVE Flows(c, p, k, a, b)
  BY <1>8 DEF Flows, ControlOps
<1>9. ASSUME op \in {\h10, \h11}, Swap(a, b, CallPops(c, p), CalleeAt(c, p).results)
      PROVE Flows(c, p, k, a, b)
  <2>1. CASE op = \h10  BY <1>9, <2>1 DEF Flows, ControlOps
  <2>2. CASE op = \h11  BY <1>9, <2>2 DEF Flows, ControlOps
  <2> QED  BY <1>9, <2>1, <2>2
<1>10. ASSUME op \in {\h12, \h13}, Takes(a, CallPops(c, p)) PROVE Flows(c, p, k, a, b)
  BY <1>10 DEF Flows, ControlOps
<1> QED  BY <1>1, <1>2, <1>3, <1>4, <1>5, <1>6, <1>7, <1>8, <1>9, <1>10

LEMMA OperandFlows ==
  ASSUME NEW c, NEW p, NEW k, NEW a, NEW b
  PROVE  /\ Opcode(c, p) = \h1A /\ Swap(a, b, <<a[Len(a)]>>, <<>>) => Flows(c, p, k, a, b)
         /\ /\ Opcode(c, p) = \h1B
            /\ Swap(a, b, <<"i32", a[Len(a) - 1], a[Len(a) - 1]>>, <<a[Len(a) - 1]>>)
            => Flows(c, p, k, a, b)
         /\ /\ Opcode(c, p) = \h1C
            /\ Swap(a, b, <<"i32", Arg(c, p, 1), Arg(c, p, 1)>>, <<Arg(c, p, 1)>>)
            => Flows(c, p, k, a, b)
         /\ Opcode(c, p) = \h20 /\ Swap(a, b, <<>>, <<Locals[Arg(c, p, 1)]>>) => Flows(c, p, k, a, b)
         /\ Opcode(c, p) = \h21 /\ Swap(a, b, <<Locals[Arg(c, p, 1)]>>, <<>>) => Flows(c, p, k, a, b)
         /\ /\ Opcode(c, p) = \h22 /\ Swap(a, b, <<Locals[Arg(c, p, 1)]>>, <<Locals[Arg(c, p, 1)]>>)
            => Flows(c, p, k, a, b)
         /\ Opcode(c, p) = \h23 /\ Swap(a, b, <<>>, <<Globals[Arg(c, p, 1)].type>>) => Flows(c, p, k, a, b)
         /\ Opcode(c, p) = \h24 /\ Swap(a, b, <<Globals[Arg(c, p, 1)].type>>, <<>>) => Flows(c, p, k, a, b)
<1> DEFINE op == Opcode(c, p)
           n  == Arg(c, p, 1)
           t  == a[Len(a) - 1]
<1>1. ASSUME op = \h1A, Swap(a, b, <<a[Len(a)]>>, <<>>) PROVE Flows(c, p, k, a, b)
  BY <1>1 DEF Flows, ControlOps
<1>2. ASSUME op = \h1B, Swap(a, b, <<"i32", t, t>>, <<t>>) PROVE Flows(c, p, k, a, b)
  BY <1>2 DEF Flows, ControlOps
<1>3. ASSUME op = \h1C, Swap(a, b, <<"i32", n, n>>, <<n>>) PROVE Flows(c, p, k, a, b)
  BY <1>3 DEF Flows, ControlOps
<1>4. ASSUME op = \h20, Swap(a, b, <<>>, <<Locals[n]>>) PROVE Flows(c, p, k, a, b)
  BY <1>4 DEF Flows, ControlOps
<1>5. ASSUME op = \h21, Swap(a, b, <<Locals[n]>>, <<>>) PROVE Flows(c, p, k, a, b)
  BY <1>5 DEF Flows, ControlOps
<1>6. ASSUME op = \h22, Swap(a, b, <<Locals[n]>>, <<Locals[n]>>) PROVE Flows(c, p, k, a, b)
  BY <1>6 DEF Flows, ControlOps
<1>7. ASSUME op = \h23, Swap(a, b, <<>>, <<Globals[n].type>>) PROVE Flows(c, p, k, a, b)
  BY <1>7 DEF Flows, ControlOps
<1>8. ASSUME op = \h24, Swap(a, b, <<Globals[n].type>>, <<>>) PROVE Flows(c, p, k, a, b)
  BY <1>8 DEF Flows, ControlOps
<1> QED  BY <1>1, <1>2, <1>3, <1>4, <1>5, <1>6, <1>7, <1>8

LEMMA NopAccepted ==
  ASSUME NEW ins, Ready(ins), ins[1].v = \h01
  PROVE  Accepted(ins, v)
<1>1. Opcode(ins, 1) = \h01 /\ v.stack \in Seq(ValueTypes)
  BY InsIs
<1>2. Names(ins, 1, Len(v.controls))
  BY <1>1, NamesOf
<1>3. Flows(ins, 1, v.controls, v.stack, v.stack)
  BY <1>1, SelfSwap, FlowsOf
<1> QED  BY <1>2, <1>3, VerdictFacts, StayAccepted, StayingOps

LEMMA UnreachableAccepted ==
  ASSUME NEW ins, Ready(ins), ins[1].v = \h00
  PROVE  Accepted(ins, mark_unreachable(v))
<1>1. Opcode(ins, 1) = \h00
  BY InsIs
<1>2. Names(ins, 1, Len(v.controls)) /\ \A b : Flows(ins, 1, v.controls, v.stack, b)
  BY <1>1, NamesOf, FlowsOf
<1>3. Marked(v, mark_unreachable(v))
  BY MarkIs DEF Ready
<1>4. ins[1].v \in Leaving
  BY DEF Leaving
<1> QED  BY <1>2, <1>3, <1>4, VerdictFacts, LeaveAccepted

LEMMA BrAccepted ==
  ASSUME NEW ins, Ready(ins), ins[1].v = \h0C
  PROVE  Accepted(ins, mark_unreachable(require_label_values(v, ins[2].v)))
<1> DEFINE w == require_label_values(v, ins[2].v)
           m == mark_unreachable(w)
<1>1. ins[2].v \in Nat /\ Opcode(ins, 1) = \h0C /\ Arg(ins, 1, 1) = ins[2].v
  BY IndexIs, InsIs
<1>2. /\ Quiet(v, w) /\ Kept(v, w) /\ (w.err = OK => ins[2].v < Len(v.controls))
      /\ w.err = OK /\ ~Top(v).unreachable /\ Top(v).height <= Len(v.stack) =>
           LabelFits(v.controls, v.stack, ins[2].v)
  BY <1>1, RequireIs DEF Ready
<1> HIDE DEF w
<1>3. Marked(w, m)
  BY <1>2, MarkIs DEF Quiet, Ready
<1> HIDE DEF m
<1>4. m.err = OK => w.err = OK
  BY <1>3 DEF Marked
<1>5. m.err = OK => Names(ins, 1, Len(v.controls))
  BY <1>1, <1>2, <1>4, NamesOf
<1>6. m.err = OK /\ ~Top(v).unreachable /\ Top(v).height <= Len(v.stack) =>
        Flows(ins, 1, v.controls, v.stack, m.stack)
  BY <1>1, <1>2, <1>4, FlowsOf
<1>7. ins[1].v \in Leaving
  BY DEF Leaving
<1>8. Accepted(ins, m)
  BY <1>2, <1>3, <1>5, <1>6, <1>7, LeaveAccepted
<1> QED  BY <1>8 DEF m, w

LEMMA ReturnAccepted ==
  ASSUME NEW ins, Ready(ins), ins[1].v = \h0F
  PROVE  Accepted(ins, mark_unreachable(require_label_values(v, Len(v.controls) - 1)))
<1> DEFINE d == Len(v.controls) - 1
           w == require_label_values(v, d)
           m == mark_unreachable(w)
<1>1. d \in Nat /\ Opcode(ins, 1) = \h0F
  BY InsIs
<1>2. /\ Quiet(v, w) /\ Kept(v, w)
      /\ w.err = OK /\ ~Top(v).unreachable /\ Top(v).height <= Len(v.stack) =>
           LabelFits(v.controls, v.stack, d)
  <2> HIDE DEF d
  <2> QED  BY <1>1, RequireIs DEF Ready
<1> HIDE DEF w
<1>3. Marked(w, m)
  BY <1>2, MarkIs DEF Quiet, Ready
<1> HIDE DEF m
<1>4. m.err = OK => w.err = OK
  BY <1>3 DEF Marked
<1>5. Names(ins, 1, Len(v.controls))
  BY <1>1, NamesOf
<1>6. m.err = OK /\ ~Top(v).unreachable /\ Top(v).height <= Len(v.stack) =>
        Flows(ins, 1, v.controls, v.stack, m.stack)
  BY <1>1, <1>2, <1>4, FlowsOf
<1>7. ins[1].v \in Leaving
  BY DEF Leaving
<1>8. Accepted(ins, m)
  BY <1>2, <1>3, <1>5, <1>6, <1>7, LeaveAccepted
<1> QED  BY <1>8 DEF m, w, d

LEMMA BrIfAccepted ==
  ASSUME NEW ins, Ready(ins), ins[1].v = \h0D
  PROVE  Accepted(ins, require_label_values(pop_expect(v, "i32"), ins[2].v))
<1> DEFINE w == pop_expect(v, "i32")
           m == require_label_values(w, ins[2].v)
<1>1. /\ ins[2].v \in Nat /\ Opcode(ins, 1) = \h0D /\ Arg(ins, 1, 1) = ins[2].v
      /\ v.stack \in Seq(ValueTypes) /\ Top(v).height \in Nat
  BY IndexIs, InsIs
<1>2. Quiet(v, w) /\ Kept(v, w) /\ Popped(v, w, <<"i32">>)
  BY OnePopIs DEF Ready
<1> HIDE DEF w
<1>3. w \in VState /\ w.controls = v.controls /\ Len(w.controls) > 0 /\ Top(w) = Top(v)
  BY <1>2, QuietTop DEF Quiet, Ready
<1>4. /\ Quiet(w, m) /\ Kept(w, m)
      /\ (m.err = OK => m = w /\ ins[2].v < Len(w.controls))
      /\ m.err = OK /\ ~Top(w).unreachable /\ Top(w).height <= Len(w.stack) =>
           LabelFits(w.controls, w.stack, ins[2].v)
  BY <1>1, <1>3, RequireIs
<1> HIDE DEF m
<1>5. Quiet(v, m) /\ Kept(v, m)
  BY <1>2, <1>4, QuietTrans, KeptTrans
<1>6. m.err = OK => Names(ins, 1, Len(v.controls))
  BY <1>1, <1>3, <1>4, NamesOf
<1>7. ASSUME m.err = OK, ~m.dipped, ~Top(v).unreachable, Top(v).height <= Len(v.stack)
      PROVE  Flows(ins, 1, v.controls, v.stack, m.stack)
  <2>1. Top(v).height <= Len(w.stack) /\ w.err = OK /\ m = w
    BY <1>2, <1>4, <1>7 DEF Kept
  <2>2. LabelFits(v.controls, m.stack, ins[2].v)
    BY <1>3, <1>4, <1>7, <2>1
  <2>3. Swap(v.stack, m.stack, <<"i32">>, <<>>)
    <3>1. v \in VState /\ <<"i32">> \in Seq({"i32"}) /\ Popped(v, m, <<"i32">>) /\ Quiet(v, m)
      BY <1>2, <2>1 DEF Ready
    <3> QED  BY <1>7, <3>1, PopSwap
  <2> QED  BY <1>1, <2>2, <2>3, FlowsOf
<1>8. Accepted(ins, m)
  BY <1>5, <1>6, <1>7, StayAccepted, StayingOps
<1> QED  BY <1>8 DEF m, w

\* Every depth of a br_table has the label of the first.
LEMMA LabelsAgree ==
  ASSUME NEW k, NEW s, NEW d, NEW e,
         LabelTypes(k[Len(k) - d]) = LabelTypes(k[Len(k) - e]), LabelFits(k, s, e)
  PROVE  LabelFits(k, s, d)
  BY DEF LabelFits

LEMMA FloorAbove ==
  ASSUME NEW w, Quiet(v, w), Kept(v, w), w.err = OK, ~w.dipped, Top(v).height <= Len(v.stack)
  PROVE  Top(v).height <= Len(w.stack)
  BY DEF Kept

\* A br_table's depths: Arg + 1 of them, all numbers.
LEMMA DepthsAre ==
  ASSUME NEW ins, Ready(ins), ins[1].v = \h0E
  PROVE  /\ Arg(ins, 1, 1) \in Nat /\ Len(ins) = Arg(ins, 1, 1) + 3
         /\ \A i \in 1..(Len(ins) - 2) : ins[i + 2].v \in Nat
<1>1. /\ Decodes(ins, 1, ImmAt(ins, 1)) /\ \A i \in DOMAIN ins : Carried(ins[i])
      /\ ins \in Seq(Range(ins)) /\ Len(ins) = 1 + WidthAt(ins, 1)
      /\ Len(ins) \in Nat
  BY WellFormedIs DEF Ready, WellFormed
<1>2. ins[1].v \in ControlOps /\ ControlImm(ins[1].v) = <<"depths">>
  BY ControlImmediates
<1>3. ImmAt(ins, 1) = <<"depths">>
  BY <1>2 DEF ImmAt, ValidatorImm, Opcode
<1>4. WidthAt(ins, 1) = Arg(ins, 1, 1) + 2 /\ ins[2].k = "u32" /\ 2 \in DOMAIN ins
  BY <1>1, <1>3 DEF WidthAt, Width, Decodes
<1>5. Arg(ins, 1, 1) \in Nat
  BY <1>1, <1>4 DEF Carried, Arg
<1>6. ASSUME NEW i \in 1..(Len(ins) - 2) PROVE ins[i + 2].v \in Nat
  <2>1. i + 1 \in 1..WidthAt(ins, 1) /\ 1 + (i + 1) = i + 2 /\ i + 2 \in DOMAIN ins
    <3>1. DOMAIN ins = 1..Len(ins) /\ WidthAt(ins, 1) = Len(ins) - 1
      BY <1>1, <1>4, <1>5
    <3> QED  BY <1>1, <1>6, <3>1
  <2>2. ins[1 + (i + 1)].k = "u32"
    BY <1>1, <1>3, <2>1 DEF Decodes, WidthAt
  <2> QED  BY <1>1, <2>1, <2>2 DEF Carried
<1> QED  BY <1>1, <1>4, <1>5, <1>6

LEMMA BrTableAccepted ==
  ASSUME NEW ins, Ready(ins), ins[1].v = \h0E,
         \A i \in 1..(Len(ins) - 2) : ControlAt(v, ins[i + 2].v) # 0,
         \A i \in 1..(Len(ins) - 2) : LabelTypes(v.controls[ControlAt(v, ins[i + 2].v)])
                                        = LabelTypes(v.controls[ControlAt(v, ins[3].v)])
  PROVE  Accepted(ins, mark_unreachable(
                         require_label_values(pop_expect(v, "i32"), ins[Len(ins)].v)))
<1> DEFINE w == pop_expect(v, "i32")
           d == ins[Len(ins)].v
           r == require_label_values(w, d)
           m == mark_unreachable(r)
           k == v.controls
<1>1. /\ Opcode(ins, 1) = \h0E /\ v.stack \in Seq(ValueTypes) /\ Top(v).height \in Nat
      /\ Len(k) \in Nat
  BY InsIs
<1>2. /\ Arg(ins, 1, 1) \in Nat /\ Len(ins) = Arg(ins, 1, 1) + 3
      /\ \A i \in 1..(Len(ins) - 2) : ins[i + 2].v \in Nat
  BY DepthsAre
<1>3. d \in Nat
  <2>1. Len(ins) - 2 \in 1..(Len(ins) - 2) /\ Len(ins) - 2 + 2 = Len(ins)
    BY <1>2
  <2>2. ins[Len(ins) - 2 + 2].v \in Nat
    BY <1>2, <2>1
  <2> QED  BY <2>1, <2>2
<1>4. Quiet(v, w) /\ Kept(v, w) /\ Popped(v, w, <<"i32">>)
  BY OnePopIs DEF Ready
<1> HIDE DEF w, d
<1>5. w \in VState /\ w.controls = k /\ Len(w.controls) > 0 /\ Top(w) = Top(v)
  BY <1>4, QuietTop DEF Quiet, Ready
<1>6. /\ Quiet(w, r) /\ Kept(w, r) /\ (r.err = OK => r = w)
      /\ r.err = OK /\ ~Top(w).unreachable /\ Top(w).height <= Len(w.stack) =>
           LabelFits(w.controls, w.stack, d)
  BY <1>3, <1>5, RequireIs
<1> HIDE DEF r
<1>7. Quiet(v, r) /\ Kept(v, r)
  BY <1>4, <1>6, QuietTrans, KeptTrans
<1>8. Marked(r, m)
  BY <1>5, <1>6, MarkIs DEF Quiet
<1> HIDE DEF m
<1>9. \A i \in 1..(Len(ins) - 2) :
        /\ ins[i + 2].v < Len(k) /\ ControlAt(v, ins[i + 2].v) = Len(k) - ins[i + 2].v
  BY DEF ControlAt
<1>10. \A i \in 1..(Arg(ins, 1, 1) + 1) : Arg(ins, 1, i + 1) < Len(k)
  <2> TAKE i \in 1..(Arg(ins, 1, 1) + 1)
  <2>1. i \in 1..(Len(ins) - 2) /\ 1 + (i + 1) = i + 2
    BY <1>2
  <2> QED  BY <1>9, <2>1 DEF Arg
<1>11. Names(ins, 1, Len(k))
  BY <1>1, <1>10, NamesOf
<1>12. ASSUME m.err = OK, ~m.dipped, ~Top(v).unreachable, Top(v).height <= Len(v.stack)
       PROVE  Flows(ins, 1, k, v.stack, m.stack)
  <2>1. r.err = OK /\ ~r.dipped /\ r = w
    BY <1>6, <1>8, <1>12 DEF Marked
  <2>2. Top(v).height <= Len(w.stack) /\ w.err = OK /\ w.stack \in Seq(ValueTypes)
    BY <1>4, <1>5, <1>12, <2>1, FloorAbove DEF VState
  <2>3. LabelFits(k, w.stack, d)
    BY <1>5, <1>6, <1>12, <2>1, <2>2
  <2>4. /\ Takes(v.stack, <<"i32">>) /\ Len(w.stack) = Len(v.stack) - 1
        /\ Below(w.stack, v.stack, Len(w.stack))
    BY <1>4, <1>12, <2>2 DEF Popped
  <2>5. w.stack = Front(v.stack)
    <3>1. Len(v.stack) > 0
      BY <1>1, <2>4 DEF Takes
    <3>2. /\ Front(v.stack) \in Seq(ValueTypes) /\ Len(Front(v.stack)) = Len(v.stack) - 1
          /\ \A i \in 1..(Len(v.stack) - 1) : Front(v.stack)[i] = v.stack[i]
      BY <1>1, <3>1, FrontIs
    <3>3. \A i \in 1..Len(w.stack) : w.stack[i] = Front(v.stack)[i]
      BY <2>2, <2>4, <3>2 DEF Below
    <3> QED  BY <2>2, <2>4, <3>2, <3>3, SameSequence
  <2>6. \A i \in 1..(Arg(ins, 1, 1) + 1) : LabelFits(k, Front(v.stack), Arg(ins, 1, i + 1))
    <3> TAKE i \in 1..(Arg(ins, 1, 1) + 1)
    <3>1. i \in 1..(Len(ins) - 2) /\ 1 + (i + 1) = i + 2 /\ 1 \in 1..(Len(ins) - 2)
          /\ Len(ins) - 2 \in 1..(Len(ins) - 2) /\ Len(ins) - 2 + 2 = Len(ins)
      BY <1>2
    <3>2. /\ LabelTypes(k[Len(k) - ins[i + 2].v]) = LabelTypes(k[ControlAt(v, ins[3].v)])
          /\ LabelTypes(k[Len(k) - d]) = LabelTypes(k[ControlAt(v, ins[3].v)])
      <4>1. \A j \in 1..(Len(ins) - 2) :
              LabelTypes(k[Len(k) - ins[j + 2].v]) = LabelTypes(k[ControlAt(v, ins[3].v)])
        <5> TAKE j \in 1..(Len(ins) - 2)
        <5>1. /\ ControlAt(v, ins[j + 2].v) = Len(k) - ins[j + 2].v
              /\ LabelTypes(k[ControlAt(v, ins[j + 2].v)]) = LabelTypes(k[ControlAt(v, ins[3].v)])
          BY <1>9
        <5> QED  BY <5>1
      <4>2. LabelTypes(k[Len(k) - ins[Len(ins) - 2 + 2].v]) = LabelTypes(k[ControlAt(v, ins[3].v)])
        BY <3>1, <4>1
      <4>3. d = ins[Len(ins) - 2 + 2].v
        BY <3>1 DEF d
      <4> QED  BY <3>1, <4>1, <4>2, <4>3
    <3>3. LabelFits(k, w.stack, ins[i + 2].v)
      BY <2>3, <3>2, LabelsAgree
    <3> QED  BY <2>5, <3>1, <3>3 DEF Arg
  <2> QED  BY <1>1, <2>4, <2>6, FlowsOf
<1>13. ins[1].v \in Leaving
  BY DEF Leaving
<1>14. Accepted(ins, m)
  BY <1>7, <1>8, <1>11, <1>12, <1>13, LeaveAccepted
<1> QED  BY <1>14 DEF m, r, w, d

\* call and call_indirect, with a signature that exists.
LEMMA ReverseSignature ==
  ASSUME NEW ty \in [params : Seq(ValueTypes), results : Seq(ValueTypes)]
  PROVE  /\ ty.params \in Seq(ValueTypes) /\ ty.results \in Seq(ValueTypes)
         /\ Reverse(ty.params) \in Seq(ValueTypes) /\ Len(Reverse(ty.params)) = Len(ty.params)
  BY ReverseIs

\* The operands below the result of a pop are taken over by a call: the whole
\* exchange, seen from before the pop.
CallFacts(m, n, pops, results) ==
  /\ Quiet(m, n) /\ Kept(m, n)
  /\ n.err = OK /\ ~Top(m).unreachable => Swap(m.stack, n.stack, pops, results)

LEMMA CallIs ==
  ASSUME NEW m \in VState, NEW w, Len(m.controls) > 0, NEW T, NEW ts \in Seq(T),
         ValueTypes \subseteq T, Quiet(m, w), Kept(m, w), Popped(m, w, ts),
         NEW ty \in [params : Seq(ValueTypes), results : Seq(ValueTypes)]
  PROVE  CallFacts(m, apply_call_signature(w, ty), ts \o Reverse(ty.params), ty.results)
<1> DEFINE p == PopParams(w, ty.params)
           us == Reverse(ty.params)
<1>1. ty.results \in Seq(ValueTypes) /\ us \in Seq(ValueTypes)
  BY ReverseSignature
<1>2. us \in Seq(T)
  BY <1>1
<1>3. w \in VState /\ Len(w.controls) > 0 /\ m.stack \in Seq(ValueTypes)
  BY DEF Quiet, VState
<1>4. Quiet(w, p) /\ Kept(w, p) /\ Popped(w, p, us)
  BY <1>1, <1>3, PopAllIs DEF PopParams
<1> HIDE DEF p, us
<1>5. Quiet(m, p) /\ Kept(m, p) /\ Popped(m, p, ts \o us)
  BY <1>2, <1>3, <1>4, QuietTrans, KeptTrans, PoppedTrans
<1>6. ts \o us \in Seq(T)
  BY <1>2, ConcatIs
<1> DEFINE n == Push(p, ty.results)
           pops == ts \o us
<1> HIDE DEF pops
<1>7. /\ Quiet(m, n) /\ Kept(m, n)
      /\ n.err = OK /\ ~Top(m).unreachable => Swap(m.stack, n.stack, pops, ty.results)
  <2>1. pops \in Seq(T) /\ Popped(m, p, pops)
    BY <1>5, <1>6 DEF pops
  <2> QED  BY <1>1, <1>5, <2>1, PopPush
<1>8. CallFacts(m, n, pops, ty.results)
  BY ONLY <1>7 DEF CallFacts
<1>9. apply_call_signature(w, ty) = n
  BY DEF apply_call_signature, p
<1> QED  BY <1>8, <1>9 DEF pops, us

\* The tail calls: the arguments are popped and nothing is reached behind.
LEMMA TailCallIs ==
  ASSUME NEW m \in VState, NEW w, Len(m.controls) > 0, NEW T, NEW ts \in Seq(T),
         ValueTypes \subseteq T, Quiet(m, w), Kept(m, w), Popped(m, w, ts),
         NEW ty \in [params : Seq(ValueTypes), results : Seq(ValueTypes)]
  PROVE  LET n == apply_tail_call_signature(w, ty)
         IN \/ n \in VState /\ n.err # OK
            \/ /\ ty.results = Results
               /\ \E p : /\ Quiet(m, p) /\ Kept(m, p) /\ Marked(p, n)
                         /\ Popped(m, p, ts \o Reverse(ty.params))
<1> DEFINE p == PopParams(w, ty.params)
           us == Reverse(ty.params)
<1>1. us \in Seq(ValueTypes)
  BY ReverseSignature
<1>2. us \in Seq(T)
  BY <1>1
<1>3. w \in VState /\ Len(w.controls) > 0 /\ m.stack \in Seq(ValueTypes)
  BY DEF Quiet, VState
<1>4. Quiet(w, p) /\ Kept(w, p) /\ Popped(w, p, us)
  BY <1>1, <1>3, PopAllIs DEF PopParams
<1> HIDE DEF p, us
<1>5. Quiet(m, p) /\ Kept(m, p) /\ Popped(m, p, ts \o us)
  BY <1>2, <1>3, <1>4, QuietTrans, KeptTrans, PoppedTrans
<1>6. Marked(p, mark_unreachable(p))
  BY <1>3, <1>4, MarkIs DEF Quiet
<1> DEFINE n == apply_tail_call_signature(w, ty)
<1>7. \/ w.err # OK /\ n = w
      \/ n = Fail(w, "TailCallResultTypeMismatch")
      \/ ty.results = Results /\ n = mark_unreachable(p)
  BY DEF apply_tail_call_signature, p
<1>8. "TailCallResultTypeMismatch" \in Rejections
  BY DEF Rejections
<1> HIDE DEF n
<1>9. CASE n = Fail(w, "TailCallResultTypeMismatch")
  <2>1. n \in VState /\ n.err # OK
    BY <1>3, <1>8, <1>9, FailIs
  <2> QED  BY <2>1 DEF n
<1>10. CASE w.err # OK /\ n = w
  BY <1>3, <1>10 DEF n
<1>11. CASE ty.results = Results /\ n = mark_unreachable(p)
  BY <1>5, <1>6, <1>11 DEF n, us
<1> QED  BY <1>7, <1>9, <1>10, <1>11

LEMMA ElementIs ==
  ASSUME NEW T, NEW s \in Seq(T), NEW i \in DOMAIN s
  PROVE  s[i] \in T
  OBVIOUS

LEMMA TypesAre ==
  /\ \A n \in DOMAIN Types : Types[n] \in [params : Seq(ValueTypes), results : Seq(ValueTypes)]
  /\ \A n \in DOMAIN Functions : Functions[n] \in DOMAIN Types
<1> DEFINE T == [params : Seq(ValueTypes), results : Seq(ValueTypes)]
           D == DOMAIN Types
<1>1. Types \in Seq(T) /\ Functions \in Seq(D)
  BY ContextAssumption
<1>2. \A n \in D : Types[n] \in T
  <2> HIDE DEF T
  <2> QED  BY <1>1, ElementIs
<1>3. \A n \in DOMAIN Functions : Functions[n] \in D
  <2> HIDE DEF D
  <2> QED  BY <1>1, ElementIs
<1> QED  BY <1>2, <1>3

\* What a call names, with the operands of its callee.
LEMMA CalleeIs ==
  ASSUME NEW ins, Ready(ins)
  PROVE  /\ ins[1].v \in {\h10, \h12} /\ ins[2].v \in DOMAIN Functions =>
              /\ CalleeAt(ins, 1) = Types[Functions[ins[2].v]]
              /\ CallPops(ins, 1) = Reverse(Types[Functions[ins[2].v]].params)
              /\ Types[Functions[ins[2].v]] \in [params : Seq(ValueTypes), results : Seq(ValueTypes)]
         /\ ins[1].v \in {\h11, \h13} /\ ins[2].v \in DOMAIN Types =>
              /\ CalleeAt(ins, 1) = Types[ins[2].v]
              /\ CallPops(ins, 1) = <<"i32">> \o Reverse(Types[ins[2].v].params)
              /\ Types[ins[2].v] \in [params : Seq(ValueTypes), results : Seq(ValueTypes)]
<1>1. Opcode(ins, 1) = ins[1].v /\ Arg(ins, 1, 1) = ins[2].v
  BY InsIs
<1>2. ASSUME ins[1].v \in {\h10, \h12}, ins[2].v \in DOMAIN Functions
      PROVE  /\ CalleeAt(ins, 1) = Types[Functions[ins[2].v]]
             /\ CallPops(ins, 1) = Reverse(Types[Functions[ins[2].v]].params)
             /\ Types[Functions[ins[2].v]] \in [params : Seq(ValueTypes), results : Seq(ValueTypes)]
  <2>1. Types[Functions[ins[2].v]] \in [params : Seq(ValueTypes), results : Seq(ValueTypes)]
    BY <1>2, TypesAre
  <2>2. CalleeAt(ins, 1) = Types[Functions[ins[2].v]]
    BY <1>1, <1>2 DEF CalleeAt
  <2>3. CallPops(ins, 1) = Reverse(CalleeAt(ins, 1).params)
    BY <1>1, <1>2 DEF CallPops
  <2> QED  BY <2>1, <2>2, <2>3
<1>3. ASSUME ins[1].v \in {\h11, \h13}, ins[2].v \in DOMAIN Types
      PROVE  /\ CalleeAt(ins, 1) = Types[ins[2].v]
             /\ CallPops(ins, 1) = <<"i32">> \o Reverse(Types[ins[2].v].params)
             /\ Types[ins[2].v] \in [params : Seq(ValueTypes), results : Seq(ValueTypes)]
  <2>1. ins[1].v \notin {\h10, \h12}
    BY <1>3
  <2>2. Types[ins[2].v] \in [params : Seq(ValueTypes), results : Seq(ValueTypes)]
    BY <1>3, TypesAre
  <2> QED  BY <1>1, <2>1, <2>2 DEF CalleeAt, CallPops
<1> QED  BY <1>2, <1>3

LEMMA EmptyPop ==
  ASSUME NEW m \in VState, Len(m.controls) > 0
  PROVE  /\ Quiet(m, m) /\ Kept(m, m) /\ Popped(m, m, <<>>)
         /\ \A T, us : us \in Seq(T) => <<>> \in Seq(T) /\ <<>> \o us = us
<1>1. m.stack \in Seq(ValueTypes) /\ Top(m).height \in Nat
  BY TopIs DEF VState, Frame
<1> QED  BY <1>1 DEF Quiet, Kept, Popped, Below, Takes

LEMMA CallAccepted ==
  ASSUME NEW ins, Ready(ins), ins[1].v = \h10, ins[2].v \in DOMAIN Functions
  PROVE  Accepted(ins, apply_call_signature(v, Types[Functions[ins[2].v]]))
<1> DEFINE ty == Types[Functions[ins[2].v]]
           m  == apply_call_signature(v, ty)
           us == Reverse(ty.params)
<1>1. Opcode(ins, 1) = \h10 /\ Arg(ins, 1, 1) = ins[2].v
  BY InsIs
<1>2. /\ CalleeAt(ins, 1) = ty /\ CallPops(ins, 1) = us
      /\ ty \in [params : Seq(ValueTypes), results : Seq(ValueTypes)]
  BY CalleeIs
<1> HIDE DEF ty
<1>3. us \in Seq(ValueTypes) /\ <<>> \o us = us /\ <<>> \in Seq(ValueTypes)
  BY <1>2, ReverseSignature
<1>4. CallFacts(v, m, <<>> \o us, ty.results)
  BY <1>2, <1>3, EmptyPop, CallIs DEF Ready
<1> HIDE DEF m, us
<1>5. CallFacts(v, m, us, ty.results)
  BY <1>3, <1>4
<1>6. Names(ins, 1, Len(v.controls))
  BY <1>1, NamesOf
<1>7. ASSUME m.err = OK, ~Top(v).unreachable PROVE Flows(ins, 1, v.controls, v.stack, m.stack)
  BY <1>1, <1>2, <1>5, <1>7, FlowsOf DEF CallFacts
<1>8. Accepted(ins, m)
  BY <1>5, <1>6, <1>7, StayAccepted, StayingOps DEF CallFacts
<1> QED  BY <1>8 DEF m, ty

LEMMA CallIndirectAccepted ==
  ASSUME NEW ins, Ready(ins), ins[1].v = \h11, ins[2].v \in DOMAIN Types, InSpace("table", ins[3].v)
  PROVE  Accepted(ins, apply_call_signature(pop_expect(v, "i32"), Types[ins[2].v]))
<1> DEFINE ty == Types[ins[2].v]
           w  == pop_expect(v, "i32")
           m  == apply_call_signature(w, ty)
           us == <<"i32">> \o Reverse(ty.params)
           T  == ValueTypes \cup {"i32"}
<1>1. Opcode(ins, 1) = \h11 /\ Arg(ins, 1, 1) = ins[2].v /\ Arg(ins, 1, 2) = ins[3].v
  BY InsIs
<1>2. /\ CalleeAt(ins, 1) = ty /\ CallPops(ins, 1) = us
      /\ ty \in [params : Seq(ValueTypes), results : Seq(ValueTypes)]
  BY CalleeIs
<1>3. Quiet(v, w) /\ Kept(v, w) /\ Popped(v, w, <<"i32">>)
  BY OnePopIs DEF Ready
<1> HIDE DEF ty, w
<1>4. CallFacts(v, m, us, ty.results)
  <2>1. <<"i32">> \in Seq(T) /\ ValueTypes \subseteq T
    OBVIOUS
  <2> HIDE DEF T
  <2> QED  BY <1>2, <1>3, <2>1, CallIs DEF Ready
<1> HIDE DEF m, us
<1>6. Names(ins, 1, Len(v.controls))
  BY <1>1, NamesOf
<1>7. ASSUME m.err = OK, ~Top(v).unreachable PROVE Flows(ins, 1, v.controls, v.stack, m.stack)
  BY <1>1, <1>2, <1>4, <1>7, FlowsOf DEF CallFacts
<1>8. Accepted(ins, m)
  BY <1>4, <1>6, <1>7, StayAccepted, StayingOps DEF CallFacts
<1> QED  BY <1>8 DEF m, ty, w

\* The common part of both tail calls.
LEMMA TailAccepted ==
  ASSUME NEW ins, Ready(ins), ins[1].v \in {\h12, \h13}, NEW w, NEW T, NEW ts \in Seq(T),
         ValueTypes \subseteq T, Quiet(v, w), Kept(v, w), Popped(v, w, ts),
         NEW ty \in [params : Seq(ValueTypes), results : Seq(ValueTypes)],
         CallPops(ins, 1) = ts \o Reverse(ty.params),
         ty.results = Results => Names(ins, 1, Len(v.controls))
  PROVE  Accepted(ins, apply_tail_call_signature(w, ty))
<1> DEFINE n == apply_tail_call_signature(w, ty)
           us == ts \o Reverse(ty.params)
<1>1. Opcode(ins, 1) \in {\h12, \h13}
  BY InsIs
<1>2. \/ n \in VState /\ n.err # OK
      \/ /\ ty.results = Results
         /\ \E p : Quiet(v, p) /\ Kept(v, p) /\ Marked(p, n) /\ Popped(v, p, us)
  BY TailCallIs DEF Ready
<1> HIDE DEF n, us
<1>3. CASE n \in VState /\ n.err # OK
  BY <1>3 DEF Accepted, n
<1>4. CASE /\ ty.results = Results
           /\ \E p : Quiet(v, p) /\ Kept(v, p) /\ Marked(p, n) /\ Popped(v, p, us)
  <2>1. PICK p : Quiet(v, p) /\ Kept(v, p) /\ Marked(p, n) /\ Popped(v, p, us)
    BY <1>4
  <2>2. n.err = OK => p.err = OK
    BY <2>1 DEF Marked
  <2>3. ASSUME n.err = OK, ~Top(v).unreachable PROVE Flows(ins, 1, v.controls, v.stack, n.stack)
    <3>1. Takes(v.stack, CallPops(ins, 1))
      BY <2>1, <2>2, <2>3 DEF Popped, us
    <3> QED  BY <1>1, <3>1, FlowsOf
  <2>4. ins[1].v \in Leaving
    BY DEF Leaving
  <2>5. Accepted(ins, n)
    BY <1>4, <2>1, <2>3, <2>4, LeaveAccepted
  <2> QED  BY <2>5 DEF n
<1> QED  BY <1>2, <1>3, <1>4

LEMMA TailCallAccepted ==
  ASSUME NEW ins, Ready(ins), ins[1].v = \h12, ins[2].v \in DOMAIN Functions
  PROVE  Accepted(ins, apply_tail_call_signature(v, Types[Functions[ins[2].v]]))
<1> DEFINE ty == Types[Functions[ins[2].v]]
           us == Reverse(ty.params)
<1>1. Opcode(ins, 1) = \h12 /\ Arg(ins, 1, 1) = ins[2].v
  BY InsIs
<1>2. /\ CallPops(ins, 1) = us /\ ty \in [params : Seq(ValueTypes), results : Seq(ValueTypes)]
  BY CalleeIs
<1>3. ty.results = Results => Names(ins, 1, Len(v.controls))
  BY <1>1, NamesOf
<1> HIDE DEF ty
<1>4. us \in Seq(ValueTypes) /\ <<>> \o us = us /\ <<>> \in Seq(ValueTypes)
  BY <1>2, ReverseSignature
<1>5. Quiet(v, v) /\ Kept(v, v) /\ Popped(v, v, <<>>)
  BY EmptyPop DEF Ready
<1>6. Accepted(ins, apply_tail_call_signature(v, ty))
  BY <1>2, <1>3, <1>4, <1>5, TailAccepted
<1> QED  BY <1>6 DEF ty

LEMMA TailCallIndirectAccepted ==
  ASSUME NEW ins, Ready(ins), ins[1].v = \h13, ins[2].v \in DOMAIN Types, InSpace("table", ins[3].v)
  PROVE  Accepted(ins, apply_tail_call_signature(pop_expect(v, "i32"), Types[ins[2].v]))
<1> DEFINE ty == Types[ins[2].v]
           w  == pop_expect(v, "i32")
           us == Reverse(ty.params)
           T  == ValueTypes \cup {"i32"}
<1>1. Opcode(ins, 1) = \h13 /\ Arg(ins, 1, 1) = ins[2].v /\ Arg(ins, 1, 2) = ins[3].v
  BY InsIs
<1>2. CallPops(ins, 1) = <<"i32">> \o us /\ ty \in [params : Seq(ValueTypes), results : Seq(ValueTypes)]
  BY CalleeIs
<1>3. ty.results = Results => Names(ins, 1, Len(v.controls))
  BY <1>1, NamesOf
<1>4. Quiet(v, w) /\ Kept(v, w) /\ Popped(v, w, <<"i32">>)
  BY OnePopIs DEF Ready
<1> HIDE DEF ty, w
<1>5. <<"i32">> \in Seq(T) /\ ValueTypes \subseteq T
  OBVIOUS
<1> HIDE DEF T
<1>6. Accepted(ins, apply_tail_call_signature(w, ty))
  BY <1>2, <1>3, <1>4, <1>5, TailAccepted
<1> QED  BY <1>6 DEF ty, w

LEMMA DropAccepted ==
  ASSUME NEW ins, Ready(ins), ins[1].v = \h1A
  PROVE  Accepted(ins, pop_any(v))
<1> DEFINE m == pop_any(v)
           t == v.stack[Len(v.stack)]
           T == {Last(v.stack)}
<1>1. Opcode(ins, 1) = \h1A /\ v.stack \in Seq(ValueTypes)
  BY InsIs
<1>2. Quiet(v, m) /\ Kept(v, m) /\ Popped(v, m, <<Last(v.stack)>>)
  BY OnePopIs DEF Ready
<1>3. Names(ins, 1, Len(v.controls))
  BY <1>1, NamesOf
<1> HIDE DEF m
<1>4. ASSUME m.err = OK, ~Top(v).unreachable PROVE Flows(ins, 1, v.controls, v.stack, m.stack)
  <2>1. <<Last(v.stack)>> \in Seq(T)
    OBVIOUS
  <2>2. Swap(v.stack, m.stack, <<Last(v.stack)>>, <<>>)
    BY <1>2, <1>4, <2>1, PopSwap DEF Ready
  <2>3. Last(v.stack) = t
    BY DEF Last
  <2> QED  BY <1>1, <2>2, <2>3, OperandFlows
<1>5. Accepted(ins, m)
  BY <1>2, <1>3, <1>4, StayAccepted, StayingOps
<1> QED  BY <1>5 DEF m

\* The type a select finds: none at the floor of an unreachable frame.
LEMMA AnyTypeIs ==
  ASSUME NEW m \in VState
  PROVE  /\ AnyType(m) # "none" => AnyType(m) \in ValueTypes
         /\ m.err = OK /\ ~Polymorphic(m) /\ Len(m.stack) > 0 =>
              AnyType(m) # "none" /\ AnyType(m) = m.stack[Len(m.stack)]
<1>1. m.stack \in Seq(ValueTypes)
  BY DEF VState
<1>2. "none" \notin ValueTypes
  BY DEF ValueTypes
<1>3. ASSUME Len(m.stack) > 0 PROVE Last(m.stack) \in ValueTypes /\ Last(m.stack) = m.stack[Len(m.stack)]
  BY <1>1, <1>3, LastIs
<1>4. ASSUME AnyType(m) # "none" PROVE AnyType(m) \in ValueTypes
  <2>1. m.stack # <<>> /\ AnyType(m) = Last(m.stack)
    BY <1>4 DEF AnyType
  <2>2. Len(m.stack) > 0
    BY <1>1, <2>1
  <2> QED  BY <1>3, <2>1, <2>2
<1>5. ASSUME m.err = OK, ~Polymorphic(m), Len(m.stack) > 0
      PROVE  AnyType(m) # "none" /\ AnyType(m) = m.stack[Len(m.stack)]
  <2>1. m.stack # <<>>
    BY <1>1, <1>5
  <2>2. AnyType(m) = Last(m.stack)
    BY <1>5, <2>1 DEF AnyType
  <2> QED  BY <1>2, <1>3, <1>5, <2>2
<1> QED  BY <1>4, <1>5

\* What ValidateSelect leaves, from its three pops.
Selected(c, first, second) ==
  IF c.err # OK THEN c
  ELSE IF "none" \notin {first, second} /\ first # second THEN Fail(c, "TypeMismatch")
  ELSE IF first # "none" THEN Push(c, <<first>>)
  ELSE IF second # "none" THEN Push(c, <<second>>) ELSE c

LEMMA SelectAccepted ==
  ASSUME NEW ins, Ready(ins), ins[1].v = \h1B
  PROVE  LET a == pop_expect(v, "i32")
             b == pop_any(a)
         IN Accepted(ins, Selected(pop_any(b), AnyType(b), AnyType(a)))
<1> DEFINE a == pop_expect(v, "i32")
           b == pop_any(a)
           c == pop_any(b)
           second == AnyType(a)
           first  == AnyType(b)
           m == Selected(c, first, second)
<1>1. Opcode(ins, 1) = \h1B /\ v.stack \in Seq(ValueTypes) /\ Top(v).height \in Nat
  BY InsIs
<1>2. Quiet(v, a) /\ Kept(v, a) /\ Popped(v, a, <<"i32">>)
  BY OnePopIs DEF Ready
<1> HIDE DEF a
<1>3. a \in VState /\ Len(a.controls) > 0 /\ Top(a) = Top(v) /\ a.stack \in Seq(ValueTypes)
  BY <1>2, QuietTop DEF Quiet, Ready, VState
<1>4. Quiet(a, b) /\ Kept(a, b) /\ Popped(a, b, <<Last(a.stack)>>)
  BY <1>3, OnePopIs
<1> HIDE DEF b
<1>5. b \in VState /\ Len(b.controls) > 0 /\ Top(b) = Top(v) /\ b.stack \in Seq(ValueTypes)
  BY <1>3, <1>4, QuietTop DEF Quiet, VState
<1>6. Quiet(b, c) /\ Kept(b, c) /\ Popped(b, c, <<Last(b.stack)>>)
  BY <1>5, OnePopIs
<1> HIDE DEF c
<1>7. c \in VState /\ Len(c.controls) > 0
  BY <1>5, <1>6, QuietTop DEF Quiet
<1>8. /\ Quiet(v, b) /\ Kept(v, b) /\ Quiet(v, c) /\ Kept(v, c)
  BY <1>2, <1>4, <1>6, QuietTrans, KeptTrans
<1>9. /\ first # "none" => first \in ValueTypes
      /\ second # "none" => second \in ValueTypes
  BY <1>3, <1>5, AnyTypeIs
<1> HIDE DEF first, second
<1>10. Quiet(v, m) /\ Kept(v, m) /\ (m.err = OK => c.err = OK)
  <2>1. \/ m = c
        \/ m = Fail(c, "TypeMismatch")
        \/ first # "none" /\ m = Push(c, <<first>>)
        \/ second # "none" /\ m = Push(c, <<second>>)
    BY DEF Selected
  <2> HIDE DEF m
  <2>2. CASE m = c
    BY <1>8, <2>2
  <2>3. CASE m = Fail(c, "TypeMismatch")
    <3>1. Quiet(c, m) /\ Kept(c, m) /\ m.err # OK
      BY <1>7, <2>3, PopFails, FailIs DEF Rejections
    <3> QED  BY <1>8, <3>1, QuietTrans, KeptTrans
  <2>4. ASSUME NEW t \in ValueTypes, m = Push(c, <<t>>)
        PROVE  Quiet(v, m) /\ Kept(v, m) /\ (m.err = OK => c.err = OK)
    <3>1. Quiet(c, m) /\ Kept(c, m) /\ m.err = c.err
      <4>1. <<t>> \in Seq(ValueTypes)
        OBVIOUS
      <4> QED  BY <1>7, <2>4, <4>1, PushIs
    <3> QED  BY <1>8, <3>1, QuietTrans, KeptTrans
  <2> QED  BY <1>9, <2>1, <2>2, <2>3, <2>4
<1>11. ASSUME m.err = OK, ~Top(v).unreachable PROVE Flows(ins, 1, v.controls, v.stack, m.stack)
  <2> DEFINE t == v.stack[Len(v.stack) - 1]
             n == Len(v.stack)
  <2>1. c.err = OK /\ b.err = OK /\ a.err = OK
    BY <1>2, <1>4, <1>6, <1>10, <1>11 DEF Quiet
  <2>2. /\ Takes(v.stack, <<"i32">>) /\ Len(a.stack) = n - 1
        /\ \A i \in 1..(n - 1) : a.stack[i] = v.stack[i]
    BY <1>2, <1>11, <2>1 DEF Popped, Below
  <2>3. /\ Takes(a.stack, <<Last(a.stack)>>) /\ Len(b.stack) = Len(a.stack) - 1
        /\ \A i \in 1..(Len(a.stack) - 1) : b.stack[i] = a.stack[i]
    BY <1>3, <1>4, <1>11, <2>1 DEF Popped, Below
  <2>4. /\ Takes(b.stack, <<Last(b.stack)>>) /\ Len(c.stack) = Len(b.stack) - 1
        /\ \A i \in 1..(Len(b.stack) - 1) : c.stack[i] = b.stack[i]
    BY <1>5, <1>6, <1>11, <2>1 DEF Popped, Below
  <2>5. n \in Nat /\ n >= 3 /\ Len(a.stack) = n - 1 /\ Len(b.stack) = n - 2 /\ Len(c.stack) = n - 3
    BY <1>1, <1>3, <1>5, <2>2, <2>3, <2>4 DEF Takes
  <2>6. /\ first = b.stack[n - 2] /\ first # "none"
        /\ second = a.stack[n - 1] /\ second # "none"
    <3>1. ~Polymorphic(a) /\ ~Polymorphic(b)
      BY <1>3, <1>5, <1>11 DEF Polymorphic
    <3>2. Len(a.stack) > 0 /\ Len(b.stack) > 0
      BY <2>5
    <3> QED  BY <1>3, <1>5, <2>1, <2>5, <3>1, <3>2, AnyTypeIs DEF first, second
  <2>7. first = second /\ m = Push(c, <<first>>)
    <3>1. first # second => m = Fail(c, "TypeMismatch")
      BY <2>1, <2>6 DEF Selected
    <3>2. Fail(c, "TypeMismatch").err # OK
      BY <1>7, FailIs DEF Rejections
    <3>3. first = second
      BY <1>11, <3>1, <3>2
    <3> QED  BY <2>1, <2>6, <3>3 DEF Selected
  <2>8. /\ second = t /\ v.stack[n] = "i32" /\ v.stack[n - 1] = t /\ v.stack[n - 2] = t
    <3>1. v.stack[n] = "i32"
      BY <2>2, <2>5 DEF Takes
    <3>2. a.stack[n - 1] = v.stack[n - 1]
      BY <2>2, <2>5
    <3>3. b.stack[n - 2] = a.stack[n - 2] /\ a.stack[n - 2] = v.stack[n - 2]
      <4>1. n - 2 \in 1..(n - 1) /\ n - 2 \in 1..(Len(a.stack) - 1)
        BY <2>5
      <4> QED  BY <2>2, <2>3, <4>1
    <3> QED  BY <2>6, <2>7, <3>1, <3>2, <3>3
  <2> HIDE DEF m, t
  <2>9. Popped(v, c, <<"i32", t, t>>)
    <3>1. Takes(v.stack, <<"i32", t, t>>)
      BY <2>5, <2>8 DEF Takes
    <3>2. Len(c.stack) = n - Len(<<"i32", t, t>>)
      BY <2>5
    <3>3. Below(c.stack, v.stack, Len(c.stack))
      <4>1. ASSUME NEW i \in 1..(n - 3) PROVE c.stack[i] = v.stack[i]
        <5>1. i \in 1..(n - 1) /\ i \in 1..(Len(a.stack) - 1) /\ i \in 1..(Len(b.stack) - 1)
          BY <2>5
        <5> QED  BY <2>2, <2>3, <2>4, <5>1
      <4> QED  BY <2>5, <4>1 DEF Below
    <3> QED  BY <3>1, <3>2, <3>3 DEF Popped
  <2>10. Swap(v.stack, m.stack, <<"i32", t, t>>, <<t>>)
    <3>1. <<first>> \in Seq(ValueTypes) /\ <<"i32", t, t>> \in Seq({"i32", t})
      BY <1>9, <2>6
    <3>2. LET r == Push(c, <<first>>)
          IN r.err = OK /\ ~Top(v).unreachable => Swap(v.stack, r.stack, <<"i32", t, t>>, <<first>>)
      BY <1>8, <2>9, <3>1, PopPush DEF Ready
    <3> QED  BY <1>11, <2>7, <2>8, <3>2
  <2> QED  BY <1>1, <2>10, OperandFlows DEF t
<1>12. Names(ins, 1, Len(v.controls))
  BY <1>1, NamesOf
<1> HIDE DEF m
<1>13. Accepted(ins, m)
  BY <1>10, <1>11, <1>12, StayAccepted, StayingOps
<1> QED  BY <1>13 DEF m, c, first, second, b, a

LEMMA TypedSelectAccepted ==
  ASSUME NEW ins, Ready(ins), ins[1].v = \h1C
  PROVE  Accepted(ins, Push(PopAll(v, <<"i32", ins[2].v, ins[2].v>>), <<ins[2].v>>))
<1> DEFINE t == ins[2].v
           ts == <<"i32", t, t>>
           T == {"i32", t}
           p == PopAll(v, ts)
           m == Push(p, <<t>>)
<1>1. Opcode(ins, 1) = \h1C /\ Arg(ins, 1, 1) = t
  BY InsIs
<1>2. t \in ValueTypes
  <2>1. /\ Decodes(ins, 1, ImmAt(ins, 1)) /\ \A i \in DOMAIN ins : Carried(ins[i])
        /\ ins \in Seq(Range(ins))
    BY WellFormedIs DEF Ready, WellFormed
  <2>2. ins[1].v \in ControlOps /\ ControlImm(ins[1].v) = <<"seltype">>
    BY ControlImmediates
  <2>3. ImmAt(ins, 1) = <<"seltype">>
    BY <2>2 DEF ImmAt, ValidatorImm, Opcode
  <2>4. Decodes(ins, 1, <<"seltype">>)
    BY <2>1, <2>3
  <2>5. Width(ins, 1, <<"seltype">>) = 1 /\ <<"seltype">> # <<"depths">>
    BY DEF Width
  <2>6. 1 + 1 <= Len(ins) /\ ins[1 + 1].k = Encoding(<<"seltype">>[1])
    BY <2>4, <2>5 DEF Decodes
  <2>7. ins[2].k = "seltype" /\ 2 \in DOMAIN ins
    BY <2>1, <2>6 DEF Encoding
  <2> QED  BY <2>1, <2>7 DEF Carried
<1>3. ts \in Seq(T) /\ <<t>> \in Seq(ValueTypes)
  BY <1>2
<1> HIDE DEF ts, T
<1>4. Quiet(v, p) /\ Kept(v, p) /\ Popped(v, p, ts)
  BY <1>3, PopAllIs DEF Ready
<1> HIDE DEF p
<1>5. /\ Quiet(v, m) /\ Kept(v, m)
      /\ m.err = OK /\ ~Top(v).unreachable => Swap(v.stack, m.stack, ts, <<t>>)
  BY <1>3, <1>4, PopPush DEF Ready
<1>6. Names(ins, 1, Len(v.controls))
  BY <1>1, NamesOf
<1> HIDE DEF m, t
<1>7. ASSUME m.err = OK, ~Top(v).unreachable PROVE Flows(ins, 1, v.controls, v.stack, m.stack)
  BY <1>1, <1>5, <1>7, OperandFlows DEF ts
<1>8. Accepted(ins, m)
  BY <1>5, <1>6, <1>7, StayAccepted, StayingOps
<1> QED  BY <1>8 DEF m, p, ts, t

\* local.get and global.get push what they name, ...
LEMMA GetIs ==
  ASSUME NEW m \in VState, Len(m.controls) > 0, NEW t \in ValueTypes
  PROVE  LET n == Push(m, <<t>>)
         IN /\ Quiet(m, n) /\ Kept(m, n)
            /\ n.err = OK /\ ~Top(m).unreachable => Swap(m.stack, n.stack, <<>>, <<t>>)
<1>1. <<t>> \in Seq(ValueTypes) /\ <<>> \in Seq(ValueTypes)
  OBVIOUS
<1>2. Quiet(m, m) /\ Kept(m, m) /\ Popped(m, m, <<>>)
  BY EmptyPop
<1> QED  BY <1>1, <1>2, PopPush

\* ... and local.set and global.set pop it.
LEMMA SetIs ==
  ASSUME NEW m \in VState, Len(m.controls) > 0, NEW t
  PROVE  LET n == pop_expect(m, t)
         IN /\ Quiet(m, n) /\ Kept(m, n)
            /\ n.err = OK /\ ~Top(m).unreachable => Swap(m.stack, n.stack, <<t>>, <<>>)
<1>1. <<t>> \in Seq({t})
  OBVIOUS
<1> DEFINE n == pop_expect(m, t)
<1>2. Quiet(m, n) /\ Kept(m, n) /\ Popped(m, n, <<t>>)
  BY OnePopIs
<1> HIDE DEF n
<1>3. n.err = OK /\ ~Top(m).unreachable => Swap(m.stack, n.stack, <<t>>, <<>>)
  BY <1>1, <1>2, PopSwap
<1> QED  BY <1>2, <1>3 DEF n

LEMMA LocalAccepted ==
  ASSUME NEW ins, Ready(ins), ins[1].v \in {\h20, \h21, \h22}, ins[2].v \in DOMAIN Locals
  PROVE  LET t == Locals[ins[2].v]
         IN Accepted(ins, CASE ins[1].v = \h20 -> Push(v, <<t>>)
                            [] ins[1].v = \h21 -> pop_expect(v, t)
                            [] ins[1].v = \h22 -> peek_expect(v, t))
<1> DEFINE t == Locals[ins[2].v]
<1>1. Opcode(ins, 1) = ins[1].v /\ Arg(ins, 1, 1) = ins[2].v /\ v.stack \in Seq(ValueTypes)
  BY InsIs
<1>2. v \in VState /\ Len(v.controls) > 0 /\ t \in ValueTypes
  BY ContextAssumption, ElementIs DEF Ready
<1>3. Names(ins, 1, Len(v.controls))
  <2>1. Opcode(ins, 1) \in \h20..\h22
    BY <1>1
  <2> QED  BY <1>1, <2>1, NamesOf
<1>4. ins[1].v \in Staying
  BY StayingOps
<1> DEFINE m(op) == CASE op = \h20 -> Push(v, <<t>>)
                      [] op = \h21 -> pop_expect(v, t)
                      [] op = \h22 -> peek_expect(v, t)
<1>5. CASE ins[1].v = \h20
  <2> DEFINE r == Push(v, <<t>>)
  <2>1. /\ Quiet(v, r) /\ Kept(v, r)
        /\ r.err = OK /\ ~Top(v).unreachable => Swap(v.stack, r.stack, <<>>, <<t>>)
    <3> HIDE DEF t
    <3> QED  BY <1>2, GetIs
  <2> HIDE DEF r
  <2>2. ASSUME r.err = OK, ~Top(v).unreachable PROVE Flows(ins, 1, v.controls, v.stack, r.stack)
    BY <1>1, <1>5, <2>1, <2>2, OperandFlows
  <2>3. Accepted(ins, r)
    BY <1>3, <1>4, <2>1, <2>2, StayAccepted
  <2> QED  BY <1>5, <2>3 DEF r
<1>6. CASE ins[1].v = \h21
  <2> DEFINE r == pop_expect(v, t)
  <2>1. /\ Quiet(v, r) /\ Kept(v, r)
        /\ r.err = OK /\ ~Top(v).unreachable => Swap(v.stack, r.stack, <<t>>, <<>>)
    <3> HIDE DEF t
    <3> QED  BY <1>2, SetIs
  <2> HIDE DEF r
  <2>2. ASSUME r.err = OK, ~Top(v).unreachable PROVE Flows(ins, 1, v.controls, v.stack, r.stack)
    BY <1>1, <1>6, <2>1, <2>2, OperandFlows
  <2>3. Accepted(ins, r)
    BY <1>3, <1>4, <2>1, <2>2, StayAccepted
  <2> QED  BY <1>6, <2>3 DEF r
<1>7. CASE ins[1].v = \h22
  <2> DEFINE r == peek_expect(v, t)
  <2>1. /\ Quiet(v, r) /\ Kept(v, r)
        /\ r.err = OK => r = v /\ (~Top(v).unreachable => Takes(v.stack, <<t>>))
    <3> HIDE DEF t
    <3> QED  BY <1>2, PeekIs
  <2> HIDE DEF r
  <2>2. ASSUME r.err = OK, ~Top(v).unreachable PROVE Flows(ins, 1, v.controls, v.stack, r.stack)
    <3>1. Swap(v.stack, r.stack, <<t>>, <<t>>)
      BY <1>1, <2>1, <2>2, OneTaken
    <3> QED  BY <1>1, <1>7, <3>1, OperandFlows
  <2>3. Accepted(ins, r)
    BY <1>3, <1>4, <2>1, <2>2, StayAccepted
  <2> QED  BY <1>7, <2>3 DEF r
<1> QED  BY <1>5, <1>6, <1>7

LEMMA GlobalAccepted ==
  ASSUME NEW ins, Ready(ins), ins[2].v \in DOMAIN Globals
  PROVE  LET g == Globals[ins[2].v]
         IN /\ ins[1].v = \h23 => Accepted(ins, Push(v, <<g.type>>))
            /\ ins[1].v = \h24 /\ g.mutable => Accepted(ins, pop_expect(v, g.type))
<1> DEFINE t == Globals[ins[2].v].type
<1>1. Opcode(ins, 1) = ins[1].v /\ Arg(ins, 1, 1) = ins[2].v /\ v.stack \in Seq(ValueTypes)
  BY InsIs
<1>2. v \in VState /\ Len(v.controls) > 0 /\ t \in ValueTypes
  <2> DEFINE G == [type : ValueTypes, mutable : BOOLEAN]
  <2>1. Globals \in Seq(G)
    BY ContextAssumption
  <2>2. Globals[ins[2].v] \in G
    <3> HIDE DEF G
    <3> QED  BY <2>1, ElementIs
  <2> QED  BY <2>2 DEF Ready
<1>3. ASSUME ins[1].v = \h23 PROVE Accepted(ins, Push(v, <<t>>))
  <2> DEFINE r == Push(v, <<t>>)
  <2>1. /\ Quiet(v, r) /\ Kept(v, r)
        /\ r.err = OK /\ ~Top(v).unreachable => Swap(v.stack, r.stack, <<>>, <<t>>)
    <3> HIDE DEF t
    <3> QED  BY <1>2, GetIs
  <2> HIDE DEF r
  <2>2. ASSUME r.err = OK, ~Top(v).unreachable PROVE Flows(ins, 1, v.controls, v.stack, r.stack)
    BY <1>1, <1>3, <2>1, <2>2, OperandFlows
  <2>3. Names(ins, 1, Len(v.controls))
    BY <1>1, <1>3, NamesOf
  <2>4. Accepted(ins, r)
    BY <1>3, <2>1, <2>2, <2>3, StayAccepted, StayingOps
  <2> QED  BY <2>4 DEF r
<1>4. ASSUME ins[1].v = \h24, Globals[ins[2].v].mutable PROVE Accepted(ins, pop_expect(v, t))
  <2> DEFINE r == pop_expect(v, t)
  <2>1. /\ Quiet(v, r) /\ Kept(v, r)
        /\ r.err = OK /\ ~Top(v).unreachable => Swap(v.stack, r.stack, <<t>>, <<>>)
    <3> HIDE DEF t
    <3> QED  BY <1>2, SetIs
  <2> HIDE DEF r
  <2>2. ASSUME r.err = OK, ~Top(v).unreachable PROVE Flows(ins, 1, v.controls, v.stack, r.stack)
    BY <1>1, <1>4, <2>1, <2>2, OperandFlows
  <2>3. Names(ins, 1, Len(v.controls))
    BY <1>1, <1>4, NamesOf
  <2>4. Accepted(ins, r)
    BY <1>4, <2>1, <2>2, <2>3, StayAccepted, StayingOps
  <2> QED  BY <2>4 DEF r
<1> QED  BY <1>3, <1>4

\* The operands of a table's row are value types once addresses are resolved.
LEMMA OperandsTyped ==
  ASSUME NEW c, NEW p, NEW imm, NEW ts \in Seq(OperandTypes)
  PROVE  ValidatorOperands(c, p, imm, ts) \in Seq(ValueTypes)
<1>1. \A t \in OperandTypes : ValidatorOperand(c, p, imm, t) \in ValueTypes
  BY DEF OperandTypes, ValueTypes, ValidatorOperand, address_type
<1> QED  BY <1>1 DEF ValidatorOperands

LEMMA PlainAccepted ==
  ASSUME NEW ins, Ready(ins), ins[1].v \in ValidatorOps,
         IndicesInBounds(ins, 1, ValidatorTable[ins[1].v].imm)
  PROVE  LET e == ValidatorTable[ins[1].v]
         IN Accepted(ins, Push(PopAll(v, ValidatorOperands(ins, 1, e.imm, e.pops)),
                               ValidatorOperands(ins, 1, e.imm, e.pushes)))
<1> DEFINE e == ValidatorTable[ins[1].v]
           ts == ValidatorOperands(ins, 1, e.imm, e.pops)
           us == ValidatorOperands(ins, 1, e.imm, e.pushes)
           p == PopAll(v, ts)
           m == Push(p, us)
<1>1. Opcode(ins, 1) = ins[1].v
  BY InsIs
<1>2. /\ e.pops \in Seq(OperandTypes) /\ e.pushes \in Seq(OperandTypes)
      /\ ins[1].v \notin ControlOps /\ ins[1].v \in Staying
  BY ValidatorEntry, PopsShape, PushesShape, StayingOps
<1> HIDE DEF e
<1>3. ts \in Seq(ValueTypes) /\ us \in Seq(ValueTypes)
  BY <1>2, OperandsTyped
<1> HIDE DEF ts, us
<1>4. Quiet(v, p) /\ Kept(v, p) /\ Popped(v, p, ts)
  BY <1>3, PopAllIs DEF Ready
<1> HIDE DEF p
<1>5. /\ Quiet(v, m) /\ Kept(v, m)
      /\ m.err = OK /\ ~Top(v).unreachable => Swap(v.stack, m.stack, ts, us)
  BY <1>3, <1>4, PopPush DEF Ready
<1> HIDE DEF m
<1>6. Names(ins, 1, Len(v.controls))
  <2>1. ImmAt(ins, 1) = e.imm
    BY <1>1, <1>2 DEF ImmAt, ValidatorImm, e
  <2>2. IndicesInBounds(ins, 1, ImmAt(ins, 1))
    BY <2>1 DEF e
  <2>3. \A op \in {\h0C, \h0D, \h0E, \h10, \h12, \h11, \h13, \h23, \h24} \cup \h20..\h22 : op \in ControlOps
    BY DEF ControlOps
  <2> QED  BY <1>1, <1>2, <2>2, <2>3 DEF Names
<1>7. ASSUME m.err = OK, ~Top(v).unreachable PROVE Flows(ins, 1, v.controls, v.stack, m.stack)
  <2>1. Swap(v.stack, m.stack, ts, us)
    BY <1>5, <1>7
  <2>2. /\ \h01 \in ControlOps /\ \h02 \in ControlOps /\ \h03 \in ControlOps /\ \h04 \in ControlOps
        /\ \h05 \in ControlOps /\ \h0B \in ControlOps /\ \h0C \in ControlOps /\ \h0D \in ControlOps
        /\ \h0E \in ControlOps /\ \h0F \in ControlOps /\ \h10 \in ControlOps /\ \h11 \in ControlOps
        /\ \h12 \in ControlOps /\ \h13 \in ControlOps /\ \h1A \in ControlOps /\ \h1B \in ControlOps
        /\ \h1C \in ControlOps /\ \h20 \in ControlOps /\ \h21 \in ControlOps /\ \h22 \in ControlOps
        /\ \h23 \in ControlOps /\ \h24 \in ControlOps
    BY DEF ControlOps
  <2> DEFINE op == Opcode(ins, 1)
  <2>3. /\ op \notin {\h01, \h02, \h03} /\ op \notin {\h04, \h0D} /\ op \notin {\h05, \h0B}
        /\ op # \h0C /\ op # \h0D /\ op # \h0E /\ op # \h0F /\ op \notin {\h10, \h11}
        /\ op \notin {\h12, \h13} /\ op # \h1A /\ op # \h1B /\ op # \h1C /\ op # \h20
        /\ op # \h21 /\ op # \h22 /\ op # \h23 /\ op # \h24
    BY <1>1, <1>2, <2>2
  <2>4. Swap(v.stack, m.stack, ValidatorOperands(ins, 1, ValidatorTable[op].imm, ValidatorTable[op].pops),
                               ValidatorOperands(ins, 1, ValidatorTable[op].imm, ValidatorTable[op].pushes))
    BY <1>1, <2>1 DEF ts, us, e
  <2> QED  BY ONLY <2>3, <2>4 DEF Flows
<1>8. Accepted(ins, m)
  BY <1>2, <1>5, <1>6, <1>7, StayAccepted
<1> QED  BY <1>8 DEF m, p, ts, us, e

\* The openers, from the state before the parameters are popped.
LEMMA OpenAccepted ==
  ASSUME NEW ins, Ready(ins), ins[1].v \in Openers, ins[2].v \in DOMAIN Types,
         NEW w, Quiet(v, w), Kept(v, w),
         w.err = OK => Below(w.stack, v.stack, Len(w.stack)),
         NEW m, Entered(w, m, KindOf(ins[1].v), Types[ins[2].v], Len(code) + 1),
         m.err = OK /\ ~m.dipped /\ ~Top(v).unreachable /\ Top(v).height <= Len(v.stack) =>
           Flows(ins, 1, v.controls, v.stack, m.stack)
  PROVE  Accepted(ins, m)
<1> DEFINE sig == Types[ins[2].v]
           q == Len(code) + 1
           k == v.controls
           f == m.controls[Len(k) + 1]
<1>1. /\ Opcode(ins, 1) = ins[1].v /\ Arg(ins, 1, 1) = ins[2].v /\ v.stack \in Seq(ValueTypes)
      /\ k \in Seq(Frame) /\ Len(k) \in Nat \ {0} /\ Top(v) = k[Len(k)] /\ Top(v).height \in Nat
      /\ Signature(ins, 1) = sig
  BY InsIs DEF Signature
<1>2. /\ w \in VState /\ w.controls = k /\ Top(w) = Top(v) /\ w.stack \in Seq(ValueTypes)
  BY QuietTop DEF Quiet, VState
<1>3. /\ m \in VState /\ (m.err = OK => w.err = OK)
      /\ m.err = OK =>
           /\ Len(m.controls) = Len(k) + 1 /\ \A j \in 1..Len(k) : m.controls[j] = k[j]
           /\ f.kind = KindOf(ins[1].v) /\ f.params = sig.params /\ f.ends = sig.results
           /\ ~f.unreachable /\ f.seen_else = 0 /\ f.opener = q
           /\ Topped(m.stack, f.height, sig.params) /\ Below(m.stack, w.stack, f.height)
           /\ ~m.dipped =>
                /\ ~w.dipped
                /\ Top(v).height <= Len(w.stack) =>
                     /\ Top(v).height <= f.height /\ f.height <= Len(m.stack)
                     /\ Below(m.stack, w.stack, Top(v).height)
  <2> HIDE DEF sig, q, f
  <2>1. Entered(w, m, KindOf(ins[1].v), sig, q)
    BY DEF sig, q
  <2> QED  BY <1>2, <2>1 DEF Entered, f
<1>4. ins[1].v \notin {\h05, \h0B}
  BY DEF Openers
<1>5. ASSUME m.err = OK PROVE OpenMove(ins, 1, q, k, m.controls)
  <2>1. Arg(ins, 1, 1) \in DOMAIN Types
    BY <1>1
  <2> HIDE DEF f, q, sig
  <2> QED  BY <1>1, <1>3, <1>5, <2>1 DEF OpenMove, f
<1>6. ASSUME m.err = OK PROVE Moves(ins, 1, q, k, m.controls)
  BY <1>1, <1>4, <1>5, <1>6 DEF Moves
<1>7. Names(ins, 1, Len(k))
  BY <1>1, NamesOf
<1>8. ASSUME m.err = OK, ~m.dipped PROVE ~v.dipped /\ ~w.dipped
  BY <1>3, <1>8 DEF Kept
<1>9. ASSUME m.err = OK, ~m.dipped, Top(v).height <= Len(v.stack)
      PROVE  /\ Typed(ins, 1, k, m.controls, v.stack, m.stack)
             /\ Rests(k, m.controls, v.stack, m.stack)
  <2>1. w.err = OK /\ ~w.dipped /\ Top(v).height <= Len(w.stack) /\ Below(w.stack, v.stack, Top(v).height)
    BY <1>3, <1>8, <1>9 DEF Kept
  <2>2. Typed(ins, 1, k, m.controls, v.stack, m.stack)
    <3>1. Topped(m.stack, m.controls[Len(k) + 1].height, Signature(ins, 1).params)
      BY <1>1, <1>3, <1>9
    <3>2. ~k[Len(k)].unreachable => Flows(ins, 1, k, v.stack, m.stack)
      BY <1>1, <1>9
    <3> QED  BY <1>1, <1>4, <3>1, <3>2 DEF Typed
  <2>3. Rests(k, m.controls, v.stack, m.stack)
    <3>1. /\ Top(v).height <= f.height /\ Below(m.stack, w.stack, f.height)
          /\ Below(m.stack, w.stack, Top(v).height) /\ f.height \in Nat
      <4>1. m.controls \in Seq(Frame) /\ Len(k) + 1 \in 1..Len(m.controls)
        BY <1>1, <1>3, <1>9 DEF VState
      <4>2. f \in Frame
        BY <4>1
      <4>3. f.height \in Nat
        BY <4>2 DEF Frame
      <4> QED  BY <1>3, <1>9, <2>1, <4>3
    <3> HIDE DEF f
    <3>2. Below(m.stack, v.stack, Top(v).height)
      BY <1>1, <2>1, <3>1 DEF Below
    <3>3. Below(m.stack, v.stack, f.height)
      <4>1. Below(w.stack, v.stack, Len(w.stack)) /\ f.height <= Len(w.stack) /\ Len(w.stack) \in Nat
        BY <1>2, <2>1, <3>1 DEF Below
      <4> QED  BY <3>1, <4>1 DEF Below
    <3> QED  BY <1>1, <3>1, <3>2, <3>3 DEF Rests, f
  <2> QED  BY <2>2, <2>3
<1> QED  BY <1>3, <1>6, <1>7, <1>8, <1>9 DEF Accepted

LEMMA OpenerAccepted ==
  ASSUME NEW ins, Ready(ins), ins[1].v \in {\h02, \h03}, BlockTypeKnown(ins)
  PROVE  Accepted(ins, EnterControl(v, IF ins[1].v = \h02 THEN "block" ELSE "loop",
                                    Signature(ins, 1), Len(code) + 1))
<1> DEFINE sig == Types[ins[2].v]
           kind == KindOf(ins[1].v)
           q == Len(code) + 1
           m == EnterControl(v, kind, sig, q)
<1>1. /\ ins[2].v \in DOMAIN Types /\ ins[1].v \in Openers
      /\ kind = IF ins[1].v = \h02 THEN "block" ELSE "loop"
  BY DEF BlockTypeKnown, Openers, KindOf
<1>2. /\ Opcode(ins, 1) = ins[1].v /\ Signature(ins, 1) = sig /\ v.stack \in Seq(ValueTypes)
      /\ v.controls \in Seq(Frame) /\ q \in Nat /\ Top(v).height \in Nat
  BY InsIs DEF Signature
<1>3. sig \in [params : Seq(ValueTypes), results : Seq(ValueTypes)] /\ kind \in {"block", "loop", "if"}
  BY <1>1, TypesAre
<1> HIDE DEF kind, sig, q
<1>4. Entered(v, m, kind, sig, q)
  BY <1>2, <1>3, EnterIs DEF Ready
<1> HIDE DEF m
<1>5. ASSUME m.err = OK, ~Top(v).unreachable PROVE Flows(ins, 1, v.controls, v.stack, m.stack)
  <2>1. m.stack = v.stack
    BY <1>4, <1>5 DEF Entered
  <2>2. Swap(v.stack, m.stack, <<>>, <<>>)
    BY <1>2, <2>1, SelfSwap
  <2>3. Opcode(ins, 1) \in {\h01, \h02, \h03}
    BY <1>2
  <2> QED  BY <2>2, <2>3, FlowsOf
<1>6. Below(v.stack, v.stack, Len(v.stack))
  BY <1>2 DEF Below
<1>7. Accepted(ins, m)
  BY <1>1, <1>4, <1>5, <1>6, VerdictFacts, OpenAccepted DEF kind, sig, q
<1>8. m = EnterControl(v, IF ins[1].v = \h02 THEN "block" ELSE "loop", Signature(ins, 1), Len(code) + 1)
  BY <1>1, <1>2 DEF m, q
<1> QED  BY <1>7, <1>8

LEMMA IfAccepted ==
  ASSUME NEW ins, Ready(ins), ins[1].v = \h04, BlockTypeKnown(ins)
  PROVE  Accepted(ins, EnterControl(pop_expect(v, "i32"), "if", Signature(ins, 1), Len(code) + 1))
<1> DEFINE sig == Types[ins[2].v]
           q == Len(code) + 1
           w == pop_expect(v, "i32")
           m == EnterControl(w, "if", sig, q)
<1>1. ins[2].v \in DOMAIN Types /\ ins[1].v \in Openers /\ KindOf(ins[1].v) = "if"
  BY DEF BlockTypeKnown, Openers, KindOf
<1>2. /\ Opcode(ins, 1) = \h04 /\ Signature(ins, 1) = sig /\ v.stack \in Seq(ValueTypes)
      /\ v.controls \in Seq(Frame) /\ q \in Nat
  BY InsIs DEF Signature
<1>3. sig \in [params : Seq(ValueTypes), results : Seq(ValueTypes)]
  BY <1>1, TypesAre
<1>4. Quiet(v, w) /\ Kept(v, w) /\ Popped(v, w, <<"i32">>)
  BY OnePopIs DEF Ready
<1> HIDE DEF sig, q, w
<1>5. w \in VState /\ Len(w.controls) > 0 /\ Top(w) = Top(v)
  BY <1>4, QuietTop DEF Quiet, Ready
<1>6. Entered(w, m, "if", sig, q)
  BY <1>2, <1>3, <1>5, EnterIs
<1> HIDE DEF m
<1>7. ASSUME m.err = OK, ~Top(v).unreachable PROVE Flows(ins, 1, v.controls, v.stack, m.stack)
  <2>1. m.stack = w.stack /\ w.err = OK
    BY <1>5, <1>6, <1>7 DEF Entered
  <2>2. <<"i32">> \in Seq({"i32"})
    OBVIOUS
  <2>3. Swap(v.stack, m.stack, <<"i32">>, <<>>)
    BY <1>4, <1>7, <2>1, <2>2, PopSwap DEF Ready
  <2> QED  BY <1>2, <2>3, FlowsOf
<1>8. w.err = OK => Below(w.stack, v.stack, Len(w.stack))
  BY <1>4 DEF Popped
<1>9. Accepted(ins, m)
  BY <1>1, <1>4, <1>6, <1>7, <1>8, OpenAccepted DEF sig, q
<1> QED  BY <1>2, <1>9 DEF m, q, w

\* At an else and at an end the stack is cut to the floor and gets the frame's types.
LEMMA CutIs ==
  ASSUME NEW s \in Seq(ValueTypes), NEW h \in Nat, NEW ts \in Seq(ValueTypes), NEW a
  PROVE  LET t == Truncate(s, h) \o ts
         IN /\ t \in Seq(ValueTypes)
            /\ h <= Len(s) => Topped(t, h, ts) /\ (Below(s, a, h) => Below(t, a, h))
<1> DEFINE c == Truncate(s, h)
           t == c \o ts
<1>1. /\ c \in Seq(ValueTypes) /\ (h <= Len(s) => Len(c) = h)
      /\ \A i \in 1..Len(c) : c[i] = s[i]
  BY TruncateIs
<1> HIDE DEF c
<1>2. /\ t \in Seq(ValueTypes) /\ Len(t) = Len(c) + Len(ts)
      /\ \A i \in 1..Len(c) : t[i] = c[i]
      /\ \A i \in 1..Len(ts) : t[Len(c) + i] = ts[i]
  BY <1>1, ConcatIs
<1> HIDE DEF t
<1>3. h <= Len(s) => Topped(t, h, ts)
  BY <1>1, <1>2 DEF Topped
<1>4. h <= Len(s) /\ Below(s, a, h) => Below(t, a, h)
  BY <1>1, <1>2 DEF Below
<1> QED  BY <1>2, <1>3, <1>4 DEF t, c

LEMMA ElseAccepted ==
  ASSUME NEW ins, Ready(ins), ins[1].v = \h05, Top(v).kind = "if", Top(v).seen_else = 0,
         NEW done, done = finish_frame(v), done.err = OK
  PROVE  Accepted(ins, [done EXCEPT
                          !.stack = Truncate(@, Top(v).height) \o Top(v).params,
                          !.controls[Len(v.controls)].unreachable = FALSE,
                          !.controls[Len(v.controls)].seen_else = Len(code) + 1])
<1> DEFINE q == Len(code) + 1
           k == v.controls
           n == Len(k)
           h == Top(v).height
           f == [k[n] EXCEPT !.unreachable = FALSE, !.seen_else = q]
           k2 == [k EXCEPT ![n] = f]
           s2 == Truncate(done.stack, h) \o Top(v).params
           m == [done EXCEPT
                   !.stack = Truncate(@, Top(v).height) \o Top(v).params,
                   !.controls[Len(v.controls)].unreachable = FALSE,
                   !.controls[Len(v.controls)].seen_else = Len(code) + 1]
<1>1. /\ Opcode(ins, 1) = \h05 /\ v.stack \in Seq(ValueTypes) /\ k \in Seq(Frame)
      /\ n \in Nat \ {0} /\ Top(v) = k[n] /\ Top(v) \in Frame /\ h \in Nat /\ q \in Nat
      /\ Top(v).params \in Seq(ValueTypes)
  <2>1. Top(v) \in Frame
    BY InsIs
  <2>2. Top(v).params \in Seq(ValueTypes)
    BY <2>1 DEF Frame
  <2> QED  BY <2>1, <2>2, InsIs
<1>2. /\ Quiet(v, done) /\ (done.dipped <=> v.dipped)
      /\ ~Top(v).unreachable => Topped(v.stack, h, Top(v).ends)
      /\ h <= Len(v.stack) => h <= Len(done.stack) /\ Below(done.stack, v.stack, h)
  <2> DEFINE r == finish_frame(v)
  <2>1. /\ Quiet(v, r) /\ (r.dipped <=> v.dipped)
        /\ r.err = OK /\ ~Top(v).unreachable => Topped(v.stack, h, Top(v).ends)
        /\ h <= Len(v.stack) => h <= Len(r.stack) /\ Below(r.stack, v.stack, h)
    BY FinishIs DEF Ready
  <2> HIDE DEF r
  <2>2. r = done
    BY DEF r
  <2> QED  BY <2>1, <2>2
<1>3. done \in VState /\ done.controls = k /\ done.stack \in Seq(ValueTypes)
  BY <1>2 DEF Quiet, VState
<1>5. /\ s2 \in Seq(ValueTypes)
      /\ h <= Len(done.stack) =>
           /\ Topped(s2, h, Top(v).params)
           /\ Below(done.stack, v.stack, h) => Below(s2, v.stack, h)
  <2> HIDE DEF h
  <2> QED  BY <1>1, <1>3, CutIs
<1>6. f \in Frame
  BY <1>1 DEF Frame
<1> HIDE DEF s2
<1>7. /\ k2 \in Seq(Frame) /\ Len(k2) = n /\ k2[n] = f
      /\ \A j \in 1..(n - 1) : k2[j] = k[j]
  <2> HIDE DEF f
  <2> QED  BY <1>1, <1>6
<1>8. m \in VState /\ m.controls = k2 /\ m.stack = s2 /\ (m.dipped <=> done.dipped)
  <2> DEFINE m1 == [done EXCEPT !.stack = Truncate(@, Top(v).height) \o Top(v).params]
             g  == [k[n] EXCEPT !.unreachable = FALSE]
             k1 == [k EXCEPT ![n] = g]
             m2 == [m1 EXCEPT !.controls[Len(v.controls)].unreachable = FALSE]
  <2>1. m = [m2 EXCEPT !.controls[Len(v.controls)].seen_else = Len(code) + 1]
    OBVIOUS
  <2>2. m1 \in VState /\ m1.controls = k /\ m1.stack = s2 /\ m1.dipped = done.dipped
    <3>1. m1 = [done EXCEPT !.stack = s2]
      BY DEF s2
    <3> QED  BY <1>3, <1>5, <3>1 DEF VState
  <2> HIDE DEF m1, m
  <2>3. g \in Frame /\ n \in 1..Len(k)
    <3>1. k[n] \in Frame /\ n \in 1..Len(k)
      BY <1>1
    <3>2. g \in Frame
      BY <3>1 DEF Frame
    <3> QED  BY <3>1, <3>2
  <2>4. m2 = [m1 EXCEPT !.controls = k1]
    BY <2>2
  <2>5. k1 \in Seq(Frame) /\ k1[n] = g /\ Len(k1) = n
    <3> HIDE DEF g
    <3> QED  BY <1>1, <2>3
  <2> HIDE DEF k1, m2
  <2>6. m2 \in VState /\ m2.controls = k1 /\ m2.stack = s2 /\ m2.dipped = done.dipped
    BY <2>2, <2>4, <2>5 DEF VState
  <2>7. m = [m2 EXCEPT !.controls = [k1 EXCEPT ![n] = [g EXCEPT !.seen_else = q]]]
    BY <2>1, <2>5, <2>6
  <2>8. [k1 EXCEPT ![n] = [g EXCEPT !.seen_else = q]] = k2
    <3>1. [g EXCEPT !.seen_else = q] = f
      BY <1>1 DEF Frame
    <3>2. [k1 EXCEPT ![n] = f] = k2
      <4> HIDE DEF f, g
      <4> QED  BY <1>1, <1>6, <2>3, <2>5 DEF k1
    <3> QED  BY <3>1, <3>2
  <2>9. m = [m2 EXCEPT !.controls = k2]
    BY <2>7, <2>8
  <2> HIDE DEF k2
  <2> QED  BY <1>7, <2>6, <2>9 DEF VState
<1> HIDE DEF m, k2
<1>9. Moves(ins, 1, q, k, m.controls)
  <2>1. ElseMove(q, k, m.controls)
    BY <1>1, <1>7, <1>8 DEF ElseMove
  <2>2. \h05 \notin Openers /\ \h05 # \h0B
    BY DEF Openers
  <2> QED  BY <1>1, <2>1, <2>2 DEF Moves
<1>10. Names(ins, 1, n)
  BY <1>1, NamesOf
<1>11. ASSUME h <= Len(v.stack)
       PROVE  Typed(ins, 1, k, m.controls, v.stack, m.stack) /\ Rests(k, m.controls, v.stack, m.stack)
  <2>1. Topped(m.stack, h, Top(v).params) /\ Below(m.stack, v.stack, h)
    BY <1>2, <1>5, <1>8, <1>11
  <2>2. ~k[n].unreachable => Flows(ins, 1, k, v.stack, m.stack)
    BY <1>1, <1>2, FlowsOf
  <2>3. \h05 \notin Openers /\ \h05 # \h0B
    BY DEF Openers
  <2>4. Typed(ins, 1, k, m.controls, v.stack, m.stack)
    BY <1>1, <2>1, <2>2, <2>3 DEF Typed
  <2>5. Rests(k, m.controls, v.stack, m.stack)
    BY <1>1, <1>7, <1>8, <2>1 DEF Rests
  <2> QED  BY <2>4, <2>5
<1>12. Accepted(ins, m)
  BY <1>2, <1>8, <1>9, <1>10, <1>11 DEF Accepted
<1> QED  BY <1>12 DEF m

LEMMA EndAccepted ==
  ASSUME NEW ins, Ready(ins), ins[1].v = \h0B,
         Top(v).kind = "function" <=> Len(v.controls) = 1,
         Top(v).kind = "if" /\ Top(v).seen_else = 0 => Top(v).ends = <<>>,
         NEW done, done = finish_frame(v), done.err = OK
  PROVE  Accepted(ins, [done EXCEPT
                          !.controls = Front(@),
                          !.stack = IF Top(v).kind = "function" THEN @
                                    ELSE Truncate(@, Top(v).height) \o Top(v).ends])
<1> DEFINE q == Len(code) + 1
           k == v.controls
           n == Len(k)
           h == Top(v).height
           k2 == Front(k)
           s2 == IF Top(v).kind = "function" THEN done.stack
                 ELSE Truncate(done.stack, h) \o Top(v).ends
           m == [done EXCEPT
                   !.controls = Front(@),
                   !.stack = IF Top(v).kind = "function" THEN @
                             ELSE Truncate(@, Top(v).height) \o Top(v).ends]
<1>1. /\ Opcode(ins, 1) = \h0B /\ v.stack \in Seq(ValueTypes) /\ k \in Seq(Frame)
      /\ n \in Nat \ {0} /\ Top(v) = k[n] /\ Top(v) \in Frame /\ h \in Nat /\ q \in Nat
      /\ Top(v).ends \in Seq(ValueTypes)
  <2>1. Top(v) \in Frame
    BY InsIs
  <2>2. Top(v).ends \in Seq(ValueTypes)
    BY <2>1 DEF Frame
  <2> QED  BY <2>1, <2>2, InsIs
<1>2. /\ Quiet(v, done) /\ (done.dipped <=> v.dipped)
      /\ ~Top(v).unreachable => Topped(v.stack, h, Top(v).ends)
      /\ h <= Len(v.stack) => h <= Len(done.stack) /\ Below(done.stack, v.stack, h)
  <2> DEFINE r == finish_frame(v)
  <2>1. /\ Quiet(v, r) /\ (r.dipped <=> v.dipped)
        /\ r.err = OK /\ ~Top(v).unreachable => Topped(v.stack, h, Top(v).ends)
        /\ h <= Len(v.stack) => h <= Len(r.stack) /\ Below(r.stack, v.stack, h)
    BY FinishIs DEF Ready
  <2> HIDE DEF r
  <2>2. r = done
    BY DEF r
  <2> QED  BY <2>1, <2>2
<1>3. done \in VState /\ done.controls = k /\ done.stack \in Seq(ValueTypes)
  BY <1>2 DEF Quiet, VState
<1>4. m = [done EXCEPT !.stack = s2, !.controls = k2]
  BY <1>3 DEF VState
<1>5. /\ s2 \in Seq(ValueTypes)
      /\ h <= Len(v.stack) => Below(s2, v.stack, h) /\ (n > 1 => Topped(s2, h, Top(v).ends))
  <2>1. CASE Top(v).kind = "function"
    BY <1>1, <1>2, <1>3, <2>1
  <2>2. CASE Top(v).kind # "function"
    <3> DEFINE t == Truncate(done.stack, h) \o Top(v).ends
    <3>1. /\ t \in Seq(ValueTypes)
          /\ h <= Len(done.stack) =>
               /\ Topped(t, h, Top(v).ends)
               /\ Below(done.stack, v.stack, h) => Below(t, v.stack, h)
      <4> HIDE DEF h
      <4> QED  BY <1>1, <1>3, CutIs
    <3> HIDE DEF t
    <3>2. s2 = t
      BY <2>2 DEF t
    <3> QED  BY <1>2, <3>1, <3>2
  <2> QED  BY <2>1, <2>2
<1> HIDE DEF s2
<1>7. k2 \in Seq(Frame) /\ Len(k2) = n - 1 /\ \A j \in 1..(n - 1) : k2[j] = k[j]
  BY <1>1, FrontIs
<1> HIDE DEF k2
<1>8. m \in VState /\ m.controls = k2 /\ m.stack = s2 /\ (m.dipped <=> done.dipped)
  BY <1>3, <1>4, <1>5, <1>7 DEF VState
<1> HIDE DEF m
<1>9. Moves(ins, 1, q, k, m.controls)
  <2>1. EndMove(k, m.controls)
    BY <1>1, <1>7, <1>8 DEF EndMove
  <2>2. \h0B \notin Openers /\ \h05 # \h0B
    BY DEF Openers
  <2> QED  BY <1>1, <2>1, <2>2 DEF Moves
<1>10. Names(ins, 1, n)
  BY <1>1, NamesOf
<1>11. ASSUME h <= Len(v.stack)
       PROVE  Typed(ins, 1, k, m.controls, v.stack, m.stack) /\ Rests(k, m.controls, v.stack, m.stack)
  <2>1. (n > 1 => Topped(m.stack, h, Top(v).ends)) /\ Below(m.stack, v.stack, h)
    BY <1>5, <1>8, <1>11
  <2>2. ~k[n].unreachable => Flows(ins, 1, k, v.stack, m.stack)
    BY <1>1, <1>2, FlowsOf
  <2>3. \h0B \notin Openers /\ \h05 # \h0B
    BY DEF Openers
  <2>4. Typed(ins, 1, k, m.controls, v.stack, m.stack)
    BY <1>1, <2>1, <2>2, <2>3 DEF Typed
  <2>5. Rests(k, m.controls, v.stack, m.stack)
    BY <1>1, <1>7, <1>8, <2>1 DEF Rests
  <2> QED  BY <2>4, <2>5
<1>12. Accepted(ins, m)
  BY <1>2, <1>8, <1>9, <1>10, <1>11 DEF Accepted
<1> QED  BY <1>12 DEF m

LEMMA FinishRejected ==
  ASSUME NEW ins, Ready(ins), finish_frame(v).err # OK
  PROVE  Accepted(ins, finish_frame(v))
<1>1. Quiet(v, finish_frame(v))
  BY FinishIs DEF Ready
<1> QED  BY <1>1 DEF Accepted, Quiet

\* What an instruction does to the validator, whichever it is: it commits a verdict
\* of the kind Accepted describes.
Decided(ins) == \E m : Accepted(ins, m) /\ Commit(ins, m)

LEMMA BlocksDecided ==
  ASSUME NEW ins, Ready(ins), Top(v).kind = "function" <=> Len(v.controls) = 1,
         ValidateOpener(ins) \/ ValidateIf(ins) \/ ValidateElse(ins) \/ ValidateEnd(ins)
  PROVE  Decided(ins)
<1>1. "BlockTypeIndexOutOfBounds" \in Rejections /\ "UnexpectedElse" \in Rejections
      /\ "DuplicateElse" \in Rejections /\ "MissingElseForResult" \in Rejections
  BY DEF Rejections
<1>2. CASE ValidateOpener(ins)
  <2>1. ins[1].v \in {\h02, \h03}
    BY <1>2 DEF ValidateOpener, Reads
  <2>2. CASE BlockTypeKnown(ins)
    BY <1>2, <2>1, <2>2, OpenerAccepted DEF ValidateOpener, Decided
  <2>3. CASE ~BlockTypeKnown(ins)
    BY <1>1, <1>2, <2>3, RejectAccepted DEF ValidateOpener, Decided
  <2> QED  BY <2>2, <2>3
<1>3. CASE ValidateIf(ins)
  <2>1. ins[1].v = \h04
    BY <1>3 DEF ValidateIf, Reads
  <2>2. CASE BlockTypeKnown(ins)
    BY <1>3, <2>1, <2>2, IfAccepted DEF ValidateIf, Decided
  <2>3. CASE ~BlockTypeKnown(ins)
    BY <1>1, <1>3, <2>3, RejectAccepted DEF ValidateIf, Decided
  <2> QED  BY <2>2, <2>3
<1>4. CASE ValidateElse(ins)
  <2>1. ins[1].v = \h05
    BY <1>4 DEF ValidateElse, Reads
  <2>2. CASE Top(v).kind # "if"
    BY <1>1, <1>4, <2>2, RejectAccepted DEF ValidateElse, Decided
  <2>3. CASE Top(v).kind = "if" /\ Top(v).seen_else # 0
    BY <1>1, <1>4, <2>3, RejectAccepted DEF ValidateElse, Decided
  <2>4. CASE Top(v).kind = "if" /\ Top(v).seen_else = 0 /\ finish_frame(v).err # OK
    BY <1>4, <2>4, FinishRejected DEF ValidateElse, Decided
  <2>5. CASE Top(v).kind = "if" /\ Top(v).seen_else = 0 /\ finish_frame(v).err = OK
    <3> DEFINE done == finish_frame(v)
               m == [done EXCEPT
                       !.stack = Truncate(@, Top(v).height) \o Top(v).params,
                       !.controls[Len(v.controls)].unreachable = FALSE,
                       !.controls[Len(v.controls)].seen_else = Len(code) + 1]
    <3>1. Commit(ins, m)
      BY <1>4, <2>5 DEF ValidateElse
    <3>2. Accepted(ins, m)
      BY <2>1, <2>5, ElseAccepted
    <3> HIDE DEF m
    <3> QED  BY <3>1, <3>2 DEF Decided
  <2> QED  BY <2>2, <2>3, <2>4, <2>5
<1>5. CASE ValidateEnd(ins)
  <2>1. ins[1].v = \h0B
    BY <1>5 DEF ValidateEnd, Reads
  <2>2. CASE Top(v).kind = "if" /\ Top(v).ends # <<>> /\ Top(v).seen_else = 0
    BY <1>1, <1>5, <2>2, RejectAccepted DEF ValidateEnd, Decided
  <2>3. CASE ~(Top(v).kind = "if" /\ Top(v).ends # <<>> /\ Top(v).seen_else = 0)
             /\ finish_frame(v).err # OK
    BY <1>5, <2>3, FinishRejected DEF ValidateEnd, Decided
  <2>4. CASE ~(Top(v).kind = "if" /\ Top(v).ends # <<>> /\ Top(v).seen_else = 0)
             /\ finish_frame(v).err = OK
    <3> DEFINE done == finish_frame(v)
               m == [done EXCEPT
                       !.controls = Front(@),
                       !.stack = IF Top(v).kind = "function" THEN @
                                 ELSE Truncate(@, Top(v).height) \o Top(v).ends]
    <3>1. Commit(ins, m)
      BY <1>5, <2>4 DEF ValidateEnd
    <3>2. Accepted(ins, m)
      BY <2>1, <2>4, EndAccepted
    <3> HIDE DEF m
    <3> QED  BY <3>1, <3>2 DEF Decided
  <2> QED  BY <2>2, <2>3, <2>4
<1> QED  BY <1>2, <1>3, <1>4, <1>5

LEMMA BranchesDecided ==
  ASSUME NEW ins, Ready(ins),
         \/ ValidateUnreachable(ins) \/ ValidateNop(ins) \/ ValidateBr(ins) \/ ValidateBrIf(ins)
         \/ ValidateBrTable(ins) \/ ValidateReturn(ins)
  PROVE  Decided(ins)
<1>1. "BranchDepthOutOfBounds" \in Rejections /\ "BranchTableTypeMismatch" \in Rejections
  BY DEF Rejections
<1>2. CASE ValidateUnreachable(ins)
  BY <1>2, UnreachableAccepted DEF ValidateUnreachable, Reads, Decided
<1>3. CASE ValidateNop(ins)
  BY <1>3, NopAccepted DEF ValidateNop, Reads, Decided
<1>4. CASE ValidateBr(ins)
  BY <1>4, BrAccepted DEF ValidateBr, Reads, Decided
<1>5. CASE ValidateBrIf(ins)
  BY <1>5, BrIfAccepted DEF ValidateBrIf, Reads, Decided
<1>6. CASE ValidateReturn(ins)
  BY <1>6, ReturnAccepted DEF ValidateReturn, Reads, Decided
<1>7. CASE ValidateBrTable(ins)
  <2> DEFINE n == Len(ins) - 2
             depths == [i \in 1..n |-> ins[i + 2].v]
             at(i) == ControlAt(v, depths[i])
             label(i) == LabelTypes(v.controls[at(i)])
             m == IF \E i \in DOMAIN depths : at(i) = 0
                  THEN Fail(v, "BranchDepthOutOfBounds")
                  ELSE IF \E i \in DOMAIN depths : label(i) # label(1)
                  THEN Fail(v, "BranchTableTypeMismatch")
                  ELSE mark_unreachable(require_label_values(pop_expect(v, "i32"), Last(depths)))
  <2>1. ins[1].v = \h0E /\ Commit(ins, m)
    BY <1>7 DEF ValidateBrTable, Reads
  <2>2. n \in Nat \ {0} /\ 1 \in 1..n /\ n \in 1..n /\ n + 2 = Len(ins)
    BY <2>1, DepthsAre
  <2>3. /\ DOMAIN depths = 1..n /\ Len(depths) = n
        /\ \A i \in 1..n : at(i) = ControlAt(v, ins[i + 2].v)
        /\ at(1) = ControlAt(v, ins[3].v)
    BY <2>2
  <2>4. Last(depths) = ins[Len(ins)].v
    BY <2>2, <2>3 DEF Last
  <2>5. \/ m = Fail(v, "BranchDepthOutOfBounds")
        \/ m = Fail(v, "BranchTableTypeMismatch")
        \/ /\ \A i \in 1..n : ControlAt(v, ins[i + 2].v) # 0
           /\ \A i \in 1..n : LabelTypes(v.controls[ControlAt(v, ins[i + 2].v)])
                                = LabelTypes(v.controls[ControlAt(v, ins[3].v)])
           /\ m = mark_unreachable(require_label_values(pop_expect(v, "i32"), ins[Len(ins)].v))
    <3>1. CASE \E i \in DOMAIN depths : at(i) = 0
      BY <3>1
    <3>2. CASE ~(\E i \in DOMAIN depths : at(i) = 0) /\ \E i \in DOMAIN depths : label(i) # label(1)
      BY <3>2
    <3>3. CASE ~(\E i \in DOMAIN depths : at(i) = 0) /\ ~\E i \in DOMAIN depths : label(i) # label(1)
      <4>1. m = mark_unreachable(require_label_values(pop_expect(v, "i32"), ins[Len(ins)].v))
        BY <2>4, <3>3
      <4>2. \A i \in 1..n : ControlAt(v, ins[i + 2].v) # 0
        BY <2>3, <3>3
      <4>3. \A i \in 1..n : LabelTypes(v.controls[ControlAt(v, ins[i + 2].v)])
                              = LabelTypes(v.controls[ControlAt(v, ins[3].v)])
        <5> TAKE i \in 1..n
        <5>1. label(i) = label(1)
          BY <2>3, <3>3
        <5> QED  BY <2>3, <5>1
      <4> QED  BY <4>1, <4>2, <4>3
    <3> QED  BY <3>1, <3>2, <3>3
  <2> HIDE DEF m
  <2>6. Accepted(ins, m)
    BY <1>1, <2>1, <2>5, RejectAccepted, BrTableAccepted
  <2> QED  BY <2>1, <2>6 DEF Decided
<1> QED  BY <1>2, <1>3, <1>4, <1>5, <1>6, <1>7

LEMMA OperandsDecided ==
  ASSUME NEW ins, Ready(ins),
         \/ ValidateCall(ins) \/ ValidateCallIndirect(ins) \/ ValidateDrop(ins)
         \/ ValidateSelect(ins) \/ ValidateTypedSelect(ins) \/ ValidateLocal(ins)
         \/ ValidateGlobal(ins) \/ ValidatePlain(ins)
  PROVE  Decided(ins)
<1>1. "CallTargetOutOfBounds" \in Rejections /\ "TableIndexOutOfBounds" \in Rejections
      /\ "IndirectTypeIndexOutOfBounds" \in Rejections /\ "LocalIndexOutOfBounds" \in Rejections
      /\ "GlobalIndexOutOfBounds" \in Rejections /\ "ImmutableGlobalSet" \in Rejections
      /\ "IndexOutOfBounds" \in Rejections
  BY DEF Rejections
<1>2. CASE ValidateCall(ins)
  <2>1. ins[1].v = \h10 \/ ins[1].v = \h12
    BY <1>2 DEF ValidateCall, Reads
  <2>2. CASE ins[2].v \notin DOMAIN Functions
    BY <1>1, <1>2, <2>2, RejectAccepted DEF ValidateCall, Decided
  <2>3. CASE ins[2].v \in DOMAIN Functions /\ ins[1].v = \h10
    BY <1>2, <2>3, CallAccepted DEF ValidateCall, Decided
  <2>4. CASE ins[2].v \in DOMAIN Functions /\ ins[1].v = \h12
    BY <1>2, <2>4, TailCallAccepted DEF ValidateCall, Decided
  <2> QED  BY <2>1, <2>2, <2>3, <2>4
<1>3. CASE ValidateCallIndirect(ins)
  <2>1. ins[1].v = \h11 \/ ins[1].v = \h13
    BY <1>3 DEF ValidateCallIndirect, Reads
  <2>2. CASE ~InSpace("table", ins[3].v)
    BY <1>1, <1>3, <2>2, RejectAccepted DEF ValidateCallIndirect, Decided
  <2>3. CASE InSpace("table", ins[3].v) /\ ins[2].v \notin DOMAIN Types
    BY <1>1, <1>3, <2>3, RejectAccepted DEF ValidateCallIndirect, Decided
  <2>4. CASE InSpace("table", ins[3].v) /\ ins[2].v \in DOMAIN Types /\ ins[1].v = \h11
    BY <1>3, <2>4, CallIndirectAccepted DEF ValidateCallIndirect, Decided
  <2>5. CASE InSpace("table", ins[3].v) /\ ins[2].v \in DOMAIN Types /\ ins[1].v = \h13
    BY <1>3, <2>5, TailCallIndirectAccepted DEF ValidateCallIndirect, Decided
  <2> QED  BY <2>1, <2>2, <2>3, <2>4, <2>5
<1>4. CASE ValidateDrop(ins)
  BY <1>4, DropAccepted DEF ValidateDrop, Reads, Decided
<1>5. CASE ValidateSelect(ins)
  <2> DEFINE a == pop_expect(v, "i32")
             b == pop_any(a)
             m == Selected(pop_any(b), AnyType(b), AnyType(a))
  <2>1. ins[1].v = \h1B /\ Commit(ins, m)
    BY <1>5 DEF ValidateSelect, Reads, Selected
  <2>2. Accepted(ins, m)
    BY <2>1, SelectAccepted
  <2> HIDE DEF m
  <2> QED  BY <2>1, <2>2 DEF Decided
<1>6. CASE ValidateTypedSelect(ins)
  BY <1>6, TypedSelectAccepted DEF ValidateTypedSelect, Reads, Decided
<1>7. CASE ValidateLocal(ins)
  <2>1. ins[1].v \in {\h20, \h21, \h22}
    BY <1>7 DEF ValidateLocal, Reads
  <2>2. CASE ins[2].v \notin DOMAIN Locals
    BY <1>1, <1>7, <2>2, RejectAccepted DEF ValidateLocal, Decided
  <2>3. CASE ins[2].v \in DOMAIN Locals
    <3> DEFINE t == Locals[ins[2].v]
               m == CASE ins[1].v = \h20 -> Push(v, <<t>>)
                      [] ins[1].v = \h21 -> pop_expect(v, t)
                      [] ins[1].v = \h22 -> peek_expect(v, t)
    <3>1. Commit(ins, m)
      BY <1>7, <2>3 DEF ValidateLocal
    <3>2. Accepted(ins, m)
      BY <2>1, <2>3, LocalAccepted
    <3> HIDE DEF m
    <3> QED  BY <3>1, <3>2 DEF Decided
  <2> QED  BY <2>2, <2>3
<1>8. CASE ValidateGlobal(ins)
  <2> DEFINE g == Globals[ins[2].v]
  <2>1. ins[1].v = \h23 \/ ins[1].v = \h24
    BY <1>8 DEF ValidateGlobal, Reads
  <2>2. CASE ins[2].v \notin DOMAIN Globals
    BY <1>1, <1>8, <2>2, RejectAccepted DEF ValidateGlobal, Decided
  <2>3. CASE ins[2].v \in DOMAIN Globals /\ ins[1].v = \h23
    BY <1>8, <2>3, GlobalAccepted DEF ValidateGlobal, Decided
  <2>4. CASE ins[2].v \in DOMAIN Globals /\ ins[1].v = \h24 /\ ~g.mutable
    BY <1>1, <1>8, <2>4, RejectAccepted DEF ValidateGlobal, Decided
  <2>5. CASE ins[2].v \in DOMAIN Globals /\ ins[1].v = \h24 /\ g.mutable
    BY <1>8, <2>5, GlobalAccepted DEF ValidateGlobal, Decided
  <2> QED  BY <2>1, <2>2, <2>3, <2>4, <2>5
<1>9. CASE ValidatePlain(ins)
  <2> DEFINE e == ValidatorTable[ins[1].v]
  <2>1. ins[1].v \in ValidatorOps
    BY <1>9 DEF ValidatePlain, Reads
  <2>2. CASE ~IndicesInBounds(ins, 1, e.imm)
    BY <1>1, <1>9, <2>2, RejectAccepted DEF ValidatePlain, Decided
  <2>3. CASE IndicesInBounds(ins, 1, e.imm)
    BY <1>9, <2>1, <2>3, PlainAccepted DEF ValidatePlain, Decided
  <2> QED  BY <2>2, <2>3
<1> QED  BY <1>2, <1>3, <1>4, <1>5, <1>6, <1>7, <1>8, <1>9

-----------------------------------------------------------------------------
(* The validator's step.                                                   *)

LEMMA InsSame ==
  ASSUME NEW c, NEW s, NEW c2, NEW s2, NEW ins, NEW m, Readable(c, s),
         Grown(c, s, c2, s2, ins, m), WellFormed(ins)
  PROVE  SameInstruction(ins, 1, c2, Len(c) + 1)
<1>1. /\ Opcode(c2, Len(c) + 1) = ins[1].v
      /\ \A i \in 1..(Len(ins) - 1) : Arg(c2, Len(c) + 1, i) = ins[i + 1].v
  BY ReadNew
<1>2. /\ WidthAt(ins, 1) = Len(ins) - 1 /\ WidthAt(ins, 1) \in Nat
      /\ ins[1].v \in ControlOps \cup ValidatorOps
  BY WellFormedIs
<1>3. \A i \in 1..WidthAt(ins, 1) : Arg(ins, 1, i) = ins[i + 1].v
  BY <1>2 DEF Arg
<1> QED  BY <1>1, <1>2, <1>3 DEF SameInstruction, Opcode

LEMMA MovesSame ==
  ASSUME NEW c, NEW p, NEW c2, NEW p2, SameInstruction(c, p, c2, p2), NEW q, NEW k, NEW k2,
         Moves(c, p, q, k, k2)
  PROVE  Moves(c2, p2, q, k, k2)
<1>1. Opcode(c2, p2) = Opcode(c, p)
  BY DEF SameInstruction
<1>2. Opcode(c, p) \in Openers => Arg(c2, p2, 1) = Arg(c, p, 1) /\ Signature(c2, p2) = Signature(c, p)
  BY ControlWidths DEF SameInstruction, Signature
<1> QED  BY <1>1, <1>2 DEF Moves, OpenMove

\* What holds of an accepted instruction where the validator committed it.
LEMMA CommitKeeps ==
  ASSUME VInv, phase = "validate", NEW ins, WellFormed(ins), NEW m, Accepted(ins, m), Commit(ins, m)
  PROVE  VInv'
<1>1. /\ v \in VState /\ v.controls = At(seen, Len(code) + 1) /\ v.stack = Ops(seen, Len(code) + 1)
      /\ Len(v.controls) > 0 /\ v.err = OK /\ m \in VState
      /\ Boundaries(code, seen) /\ Pairing(code, seen, paired, v.controls) /\ Readable(code, seen)
  BY DEF VInv, Current, Accepted, Boundaries
<1>2. CASE m.err # OK
  <2>1. /\ phase' = "rejected" /\ v' = [v EXCEPT !.err = m.err] /\ UNCHANGED <<code, seen, paired>>
    BY <1>2 DEF Commit
  <2>2. v' \in VState /\ v'.controls = v.controls /\ v'.stack = v.stack /\ v'.err # OK
    BY <1>1, <1>2, <2>1 DEF VState
  <2>3. Current'
    BY <1>1, <2>1, <2>2 DEF Current
  <2> QED  BY <1>1, <2>1, <2>2, <2>3 DEF VInv
<1>3. CASE m.err = OK
  <2>1. /\ Grown(code, seen, code', seen', ins, m) /\ v' = m
        /\ phase' = IF m.controls = <<>> THEN "scan" ELSE "validate"
    BY <1>3, CommitGrows
  <2>2. Moves(ins, 1, Len(code) + 1, v.controls, m.controls) /\ Names(ins, 1, Len(v.controls))
    BY <1>3 DEF Accepted
  <2>3. Moves(code', Len(code) + 1, Len(code) + 1, v.controls, m.controls)
    <3>1. SameInstruction(ins, 1, code', Len(code) + 1)
      BY <1>1, <2>1, InsSame
    <3> QED  BY <2>2, <3>1, MovesSame
  <2>4. Boundaries(code', seen')
    BY <1>1, <2>1, <2>2, <2>3, BoundariesGrow
  <2>5. Pairing(code', seen', paired', m.controls)
    <3>1. paired' = IF Len(m.controls) < Len(v.controls) /\ m.controls # <<>>
                    THEN Insert(paired, Top(v).opener,
                                [else_pc |-> Top(v).seen_else, end_pc |-> Len(code) + 1])
                    ELSE paired
      BY <1>3 DEF Commit
    <3>2. Top(v) = Last(At(seen, Len(code) + 1))
      BY <1>1 DEF Top
    <3> QED  BY <1>1, <2>1, <2>3, <3>1, <3>2, PairingGrows
  <2>6. Current'
    <3>1. /\ v' = m /\ v'.controls = At(seen', Len(code') + 1) /\ v'.stack = Ops(seen', Len(code') + 1)
      BY <2>1 DEF Grown
    <3>2. m.controls \in Seq(Frame) /\ (m.controls = <<>> <=> Len(m.controls) = 0)
      BY <1>1 DEF VState
    <3>3. Len(m.controls) \in Nat
      BY <3>2
    <3>4. phase' = "validate" <=> Len(v'.controls) > 0 /\ v'.err = OK
      BY <1>3, <2>1, <3>2, <3>3
    <3>5. phase' \in {"validate", "scan"} /\ v'.err = OK /\ v' \in VState
      BY <1>1, <1>3, <2>1
    <3> QED  BY <3>1, <3>4, <3>5 DEF Current
  <2> QED  BY <2>1, <2>4, <2>5, <2>6 DEF VInv
<1> QED  BY <1>2, <1>3

LEMMA StepDecided ==
  ASSUME VInv, phase = "validate", NEW ins, WellFormed(ins), ValidateInstruction(ins)
  PROVE  Decided(ins)
<1>1. /\ v \in VState /\ v.controls = At(seen, Len(code) + 1) /\ Len(v.controls) > 0
      /\ Readable(code, seen) /\ FramesAt(code, seen, Len(code) + 1)
  BY DEF VInv, Current, Boundaries, Readable
<1>2. Ready(ins)
  BY <1>1 DEF Ready, Readable
<1>3. Top(v).kind = "function" <=> Len(v.controls) = 1
  <2>1. \A i \in 1..Len(v.controls) : v.controls[i].kind = "function" <=> i = 1
    BY <1>1 DEF FramesAt
  <2>2. Top(v) = v.controls[Len(v.controls)] /\ Len(v.controls) \in 1..Len(v.controls)
    BY <1>1, TopIs
  <2> QED  BY <2>1, <2>2
<1> QED  BY <1>2, <1>3, BlocksDecided, BranchesDecided, OperandsDecided DEF ValidateInstruction

LEMMA ValidateKeeps == ASSUME VInv, ValidateStep PROVE VInv'
<1>1. PICK ins \in Offer(input, code) :
        (WellFormed(ins) /\ ValidateInstruction(ins)) \/ (~WellFormed(ins) /\ ValidateMalformed(ins))
  BY DEF ValidateStep
<1>2. phase = "validate"
  BY DEF ValidateStep
<1>3. CASE WellFormed(ins) /\ ValidateInstruction(ins)
  <2>1. PICK m : Accepted(ins, m) /\ Commit(ins, m)
    BY <1>2, <1>3, StepDecided DEF Decided
  <2> QED  BY <1>2, <1>3, <2>1, CommitKeeps
<1>4. CASE ValidateMalformed(ins)
  <2>1. v \in VState /\ "MalformedImmediate" \in Rejections
    BY DEF VInv, Current, Rejections
  <2>2. /\ Fail(v, "MalformedImmediate").err # OK
        /\ Fail(v, "MalformedImmediate").err \in {OK} \cup Rejections
    BY <2>1, FailIs DEF VState
  <2> DEFINE m == Fail(v, "MalformedImmediate")
  <2>3. /\ phase' = "rejected" /\ v' = [v EXCEPT !.err = m.err] /\ UNCHANGED <<code, seen, paired>>
    BY <1>4, <2>2 DEF ValidateMalformed, Commit
  <2> HIDE DEF m
  <2>4. v' \in VState /\ v'.controls = v.controls /\ v'.stack = v.stack /\ v'.err # OK
    BY <2>1, <2>2, <2>3 DEF VState, m
  <2>5. Current'
    BY <2>3, <2>4 DEF Current, VInv
  <2> QED  BY <2>3, <2>4, <2>5 DEF VInv
<1> QED  BY <1>1, <1>3, <1>4

LEMMA StartsRight == ASSUME Init PROVE VInv
<1> DEFINE f == [kind |-> "function", height |-> 0, params |-> <<>>, ends |-> Results,
                 unreachable |-> FALSE, seen_else |-> 0, opener |-> 0]
           k == <<f>>
<1>1. /\ phase = "validate" /\ code = <<>> /\ paired = <<>>
      /\ v = [stack |-> <<>>, err |-> OK, dipped |-> FALSE, controls |-> k]
      /\ seen = <<[stack |-> <<>>, controls |-> k]>>
  BY DEF Init
<1>2. f \in Frame /\ f.kind = "function" /\ f.height = 0 /\ f.ends = Results
  BY ContextAssumption DEF Frame
<1> HIDE DEF f
<1>3. k \in Seq(Frame) /\ Len(k) = 1 /\ k[1] = f
  BY <1>2
<1> HIDE DEF k
<1>4. v \in VState
  BY <1>1, <1>3 DEF VState
<1>5. Len(code) = 0 /\ DOMAIN seen = {1} /\ At(seen, 1) = k /\ Ops(seen, 1) = <<>>
  BY <1>1 DEF At, Ops
<1>6. code \in Seq(Range(code))
  BY <1>1
<1>7. Current
  BY <1>1, <1>3, <1>4, <1>5 DEF Current
<1>8. FramesAt(code, seen, 1)
  <2>1. \A i \in 1..Len(k) : k[i].kind = "function" <=> i = 1
    BY <1>2, <1>3
  <2>2. \A i \in 2..Len(k) : NestedAt(code, seen, 1, i)
    BY <1>3
  <2>3. Ops(seen, 1) \in Seq(ValueTypes) /\ At(seen, 1) = k /\ ~(1 <= Len(code))
    <3>1. <<>> \in Seq(ValueTypes)
      OBVIOUS
    <3>2. ~(1 <= 0)
      OBVIOUS
    <3>3. Ops(seen, 1) \in Seq(ValueTypes)
      BY ONLY <1>5, <3>1
    <3>4. ~(1 <= Len(code))
      BY ONLY <1>5, <3>2
    <3> QED  BY ONLY <1>5, <3>3, <3>4
  <2>4. k[1].height = 0 /\ k[1].ends = Results
    BY <1>2, <1>3
  <2> QED  BY ONLY <1>3, <2>1, <2>2, <2>3, <2>4 DEF FramesAt
<1>9. Readable(code, seen)
  BY <1>5, <1>6 DEF Readable
<1>10. Boundaries(code, seen)
  BY <1>5, <1>8, <1>9 DEF Boundaries
<1>11. Pairing(code, seen, paired, v.controls)
  BY <1>1, <1>3, <1>5 DEF Pairing
<1> QED  BY <1>7, <1>10, <1>11 DEF VInv

LEMMA ScanFrame ==
  ASSUME ScanStep
  PROVE  phase = "scan" /\ phase' \in {"scan", "run"} /\ UNCHANGED <<input, code, v, seen, paired>>
  BY DEF ScanStep, ScanOpener, ScanElse, ScanEnd, ScanOther, ScanDone, Scanning, ScanFails, ScanTo

LEMMA RunFrame ==
  ASSUME RunStep
  PROVE  phase = "run" /\ \E f : Continue(f)
<1>1. CASE OutOfFuel \/ RunReturn
  BY <1>1 DEF OutOfFuel, RunReturn
<1>2. CASE RunUnreachable \/ RunNop \/ RunOpener \/ RunIf \/ RunElse \/ RunEnd
  BY <1>2 DEF RunUnreachable, RunNop, RunOpener, RunIf, RunElse, RunEnd, Running
<1>3. CASE RunBr \/ RunBrIf \/ RunBrTable
  BY <1>3 DEF RunBr, RunBrIf, RunBrTable, Running
<1>4. CASE RunCall \/ RunReturnCall
  BY <1>4 DEF RunCall, RunReturnCall, Running
<1>5. CASE RunDrop \/ RunSelect \/ RunTypedSelect \/ RunLocal \/ RunGlobal
  BY <1>5 DEF RunDrop, RunSelect, RunTypedSelect, RunLocal, RunGlobal, Running
<1>6. CASE RunPlain
  <2>1. phase = "run"
    BY <1>6 DEF RunPlain
  <2>2. PICK completes \in BOOLEAN :
          LET p == x.pc IN
          IF code[p].k # "op" THEN Continue(Stuck(x, "Desync"))
          ELSE IF Opcode(code, p) \notin RuntimeOps
          THEN Continue(Stuck(x, "UnsupportedOpcode"))
          ELSE LET e == RuntimeTable[Opcode(code, p)]
                   f == Fetch(p, e.imm)
                   popped == IF f.outcome # OK THEN f
                             ELSE IF ~IndicesInBounds(code, p, e.imm)
                             THEN Stuck(f, "IndexOutOfBounds")
                             ELSE PopTypedAll(f, RuntimeOperands(code, p, e.imm, e.pops))
               IN Continue(IF completes \/ ~e.traps
                           THEN PushValues(popped, RuntimeOperands(code, p, e.imm, e.pushes))
                           ELSE Trap(popped))
    BY <1>6 DEF RunPlain
  <2> QED  BY <2>1, <2>2
<1> QED  BY <1>1, <1>2, <1>3, <1>4, <1>5, <1>6 DEF RunStep

LEMMA RunKeeps ==
  ASSUME RunStep
  PROVE  phase = "run" /\ phase' \in {"run", "done"} /\ UNCHANGED <<input, code, v, sc, seen, paired>>
<1>1. phase = "run" /\ \E f : Continue(f)
  BY RunFrame
<1> QED  BY <1>1 DEF Continue

LEMMA BodyStep == ASSUME VInv, [Next]_vars PROVE VInv'
<1>1. CASE ValidateStep
  BY <1>1, ValidateKeeps
<1>2. CASE ScanStep \/ RunStep
  <2>1. /\ UNCHANGED <<code, v, seen, paired>> /\ phase \notin {"validate", "rejected"}
        /\ phase' \in {"scan", "run", "done"}
    BY <1>2, ScanFrame, RunKeeps
  <2>2. Current'
    BY <2>1 DEF VInv, Current
  <2> QED  BY <2>1, <2>2 DEF VInv
<1>3. CASE UNCHANGED vars
  <2>1. UNCHANGED <<phase, code, v, seen, paired>>
    BY <1>3 DEF vars
  <2>2. Current'
    BY <2>1 DEF VInv, Current
  <2> QED  BY <2>1, <2>2 DEF VInv
<1> QED  BY <1>1, <1>2, <1>3 DEF Next

\* The validator's control stack at every instruction boundary it ever passed is the
\* one the instructions before it build, and what each instruction names exists.
THEOREM BodyInvariant == Spec => []VInv
<1>1. Init => VInv
  BY StartsRight
<1>2. VInv /\ [Next]_vars => VInv'
  BY BodyStep
<1> QED  BY <1>1, <1>2, PTL DEF Spec

-----------------------------------------------------------------------------
(* The scanner.                                                            *)

\* The scanner's table and the control instructions' own immediates agree.
LEMMA ControlSkip ==
  ASSUME NEW op, op \in ControlOps \ (Openers \cup {\h05, \h0B})
  PROVE  /\ op \in ScannerOps /\ ScannerTable[op].imm = Skip(op)
         /\ SameCode(Skip(op), ControlImm(op))
<1>1. op \in \h00..\h01 \cup \h0C..\h13 \cup \h1A..\h1C \cup \h20..\h24
  BY DEF ControlOps, Openers
<1>2. op \in ScannerOps /\ ScannerTable[op].imm = Skip(op)
  BY <1>1, ScannerEntry
<1>3. Skip(op) = PlainSkip(op)
  BY <1>1 DEF Skip
<1>4. \/ PlainSkip(op) = ControlImm(op)
      \/ PlainSkip(op) = <<"u32", "u32">> /\ ControlImm(op) = <<"u32", "table">>
  <2>1. CASE op \in {\h0C, \h0D, \h10, \h12} \cup \h20..\h24
    BY <2>1, ControlImmediates DEF PlainSkip
  <2>2. CASE op = \h0E
    BY <2>2, ControlImmediates DEF PlainSkip
  <2>3. CASE op \in {\h11, \h13}
    BY <2>3, ControlImmediates DEF PlainSkip
  <2>4. CASE op = \h1C
    BY <2>4, ControlImmediates DEF PlainSkip
  <2>5. CASE op \in {\h00, \h01, \h0F, \h1A, \h1B}
    BY <2>5, ControlImmediates DEF PlainSkip, PlainImm
  <2> QED  BY <1>1, <2>1, <2>2, <2>3, <2>4, <2>5
<1>5. SameCode(<<"u32", "u32">>, <<"u32", "table">>)
  BY DEF SameCode, Encoding
<1>6. SameCode(ControlImm(op), ControlImm(op))
  BY DEF SameCode
<1> QED  BY <1>2, <1>3, <1>4, <1>5, <1>6

LEMMA SameCodeReads ==
  ASSUME NEW a, NEW b, SameCode(a, b), NEW c, NEW p, Decodes(c, p, b), Width(c, p, b) \in Nat
  PROVE  Decodes(c, p, a) /\ Width(c, p, a) = Width(c, p, b)
<1>1. Width(c, p, a) = Width(c, p, b)
  BY DEF SameCode, Width
<1>2. a # <<"depths">> => \A i \in 1..Width(c, p, b) : Encoding(a[i]) = Encoding(b[i])
  BY DEF SameCode, Width
<1> QED  BY <1>1, <1>2 DEF SameCode, Decodes

\* What the validator read at a boundary, the scanner reads too.
LEMMA ScannerReads ==
  ASSUME NEW c, NEW s, NEW p, ReadableAt(c, s, p), Opcode(c, p) \notin Openers \cup {\h05, \h0B}
  PROVE  LET imm == ScannerTable[Opcode(c, p)].imm
         IN /\ Opcode(c, p) \in ScannerOps /\ Decodes(c, p, imm)
            /\ p + 1 + Width(c, p, imm) = After(c, p)
<1> DEFINE op == Opcode(c, p)
           imm == ScannerTable[Opcode(c, p)].imm
<1>1. /\ op \in ControlOps \cup ValidatorOps /\ Decodes(c, p, ImmAt(c, p))
      /\ Width(c, p, ImmAt(c, p)) = WidthAt(c, p) /\ WidthAt(c, p) \in Nat
  BY DEF ReadableAt, WidthAt
<1>2. op \in ScannerOps /\ SameCode(imm, ImmAt(c, p))
  <2>1. CASE op \in ControlOps
    BY <2>1, ControlSkip DEF ImmAt, ValidatorImm
  <2>2. CASE op \notin ControlOps
    BY <1>1, <2>2, PlainWidth, ScannerEntry, SkipSameCode
  <2> QED  BY <2>1, <2>2
<1> HIDE DEF imm
<1>3. Decodes(c, p, imm) /\ Width(c, p, imm) = WidthAt(c, p)
  BY <1>1, <1>2, SameCodeReads
<1> QED  BY <1>2, <1>3 DEF After, imm

\* What is known at a boundary before the end of the body.
LEMMA BoundaryIs ==
  ASSUME VInv, NEW p \in DOMAIN seen, p <= Len(code)
  PROVE  /\ p \in Nat /\ Len(code) \in Nat /\ ReadableAt(code, seen, p)
         /\ FramesAt(code, seen, p) /\ MovesAt(code, seen, p) /\ NamesAt(code, seen, p)
         /\ At(seen, p) \in Seq(Frame) /\ Len(At(seen, p)) \in Nat \ {0}
         /\ After(code, p) \in DOMAIN seen /\ After(code, p) \in Nat /\ p < After(code, p)
         /\ \A r \in DOMAIN seen : r <= p \/ After(code, p) <= r
         /\ FramesAt(code, seen, After(code, p)) /\ At(seen, After(code, p)) \in Seq(Frame)
         /\ code[p].k = "op" /\ WidthAt(code, p) \in Nat
<1>1. /\ Boundaries(code, seen) /\ Readable(code, seen)
      /\ DOMAIN seen \subseteq 1..(Len(code) + 1) /\ Len(code) \in Nat
  BY DEF VInv, Boundaries, Readable
<1>2. /\ ReadableAt(code, seen, p) /\ FramesAt(code, seen, p)
      /\ MovesAt(code, seen, p) /\ NamesAt(code, seen, p)
  BY <1>1 DEF Boundaries, Readable
<1>3. /\ After(code, p) \in DOMAIN seen /\ \A r \in DOMAIN seen : r <= p \/ After(code, p) <= r
      /\ WidthAt(code, p) \in Nat /\ code[p].k = "op"
  BY <1>2 DEF ReadableAt
<1>4. p \in Nat /\ After(code, p) \in Nat /\ p < After(code, p)
  BY <1>1, <1>3 DEF After
<1>5. FramesAt(code, seen, After(code, p))
  BY <1>1, <1>3 DEF Boundaries
<1>6. At(seen, p) \in Seq(Frame) /\ Len(At(seen, p)) > 0 /\ At(seen, After(code, p)) \in Seq(Frame)
  BY <1>2, <1>5 DEF FramesAt
<1> QED  BY <1>1, <1>2, <1>3, <1>4, <1>5, <1>6

\* The openers that end before the boundary behind p are those that end before p, and
\* the one that p ends.
LEMMA EndedBefore ==
  ASSUME VInv, NEW p \in DOMAIN seen, p <= Len(code)
  PROVE  LET n == Len(At(seen, p))
             before(r) == {o \in DOMAIN paired : paired[o].end_pc < r}
         IN /\ Opcode(code, p) # \h0B => before(After(code, p)) = before(p)
            /\ Opcode(code, p) = \h0B /\ n <= 1 => before(After(code, p)) = before(p)
            /\ Opcode(code, p) = \h0B /\ n > 1 =>
                 /\ before(After(code, p)) = before(p) \cup {At(seen, p)[n].opener}
                 /\ At(seen, p)[n].opener \in DOMAIN paired
                 /\ paired[At(seen, p)[n].opener].end_pc = p
                 /\ paired[At(seen, p)[n].opener].else_pc = At(seen, p)[n].seen_else
<1> DEFINE q == After(code, p)
           n == Len(At(seen, p))
           before(r) == {o \in DOMAIN paired : paired[o].end_pc < r}
<1>1. /\ p \in Nat /\ q \in Nat /\ p < q /\ n \in Nat
      /\ \A r \in DOMAIN seen : r <= p \/ q <= r
      /\ Pairing(code, seen, paired, v.controls) /\ DOMAIN seen \subseteq Nat
  <2>1. DOMAIN seen \subseteq 1..(Len(code) + 1)
    BY DEF VInv, Boundaries, Readable
  <2> QED  BY <2>1, BoundaryIs DEF VInv
<1>2. \A o \in DOMAIN paired :
        /\ paired[o].end_pc \in DOMAIN seen /\ Opcode(code, paired[o].end_pc) = \h0B
        /\ Len(At(seen, paired[o].end_pc)) > 1
        /\ At(seen, paired[o].end_pc)[Len(At(seen, paired[o].end_pc))].opener = o
        /\ At(seen, paired[o].end_pc)[Len(At(seen, paired[o].end_pc))].seen_else = paired[o].else_pc
  BY <1>1 DEF Pairing
<1>3. \A o \in DOMAIN paired : paired[o].end_pc < q <=> paired[o].end_pc < p \/ paired[o].end_pc = p
  <2> TAKE o \in DOMAIN paired
  <2>1. paired[o].end_pc \in DOMAIN seen /\ paired[o].end_pc \in Nat
    BY <1>1, <1>2
  <2>2. paired[o].end_pc <= p \/ q <= paired[o].end_pc
    BY <1>1, <2>1
  <2> QED  BY <1>1, <2>1, <2>2
<1>4. ASSUME Opcode(code, p) = \h0B, n > 1
      PROVE  LET o == At(seen, p)[n].opener
             IN o \in DOMAIN paired /\ paired[o].end_pc = p /\ paired[o].else_pc = At(seen, p)[n].seen_else
  <2>1. At(seen, p)[n].opener \in DOMAIN paired /\ paired[At(seen, p)[n].opener].end_pc = p
    BY <1>1, <1>4 DEF Pairing
  <2> QED  BY <1>2, <2>1
<1>5. \A o \in DOMAIN paired : paired[o].end_pc = p => /\ Opcode(code, p) = \h0B /\ n > 1
                                                       /\ o = At(seen, p)[n].opener
  BY <1>2
<1> HIDE DEF q, n
<1>6. Opcode(code, p) = \h0B /\ n > 1 => before(q) = before(p) \cup {At(seen, p)[n].opener}
  BY <1>3, <1>4, <1>5
<1>7. ~(Opcode(code, p) = \h0B /\ n > 1) => before(q) = before(p)
  BY <1>3, <1>5
<1> QED  BY <1>1, <1>4, <1>6, <1>7 DEF q, n

\* What the scanner keeps of an open frame.
LEMMA PendingIs ==
  ASSUME VInv, NEW p \in DOMAIN seen, NEW i \in 2..Len(At(seen, p))
  PROVE  PendingOf(At(seen, p)[i]) \in Pending /\ At(seen, p)[i].opener \in DOMAIN seen
         /\ At(seen, p)[i].opener <= Len(code)
         /\ Signature(code, At(seen, p)[i].opener) \in [params : Seq(ValueTypes), results : Seq(ValueTypes)]
<1> DEFINE f == At(seen, p)[i]
           o == f.opener
<1>1. FramesAt(code, seen, p) /\ At(seen, p) \in Seq(Frame) /\ DOMAIN seen \subseteq 1..(Len(code) + 1)
      /\ p \in Nat /\ Len(code) \in Nat
  <2>1. FramesAt(code, seen, p) /\ DOMAIN seen \subseteq 1..(Len(code) + 1) /\ Len(code) \in Nat
    BY DEF VInv, Boundaries, Readable
  <2> QED  BY <2>1 DEF FramesAt
<1>2. f \in Frame
  BY <1>1
<1>3. NestedAt(code, seen, p, i)
  BY <1>1 DEF FramesAt
<1>4. o \in DOMAIN seen /\ o < p /\ Opcode(code, o) \in Openers /\ f.kind = KindOf(Opcode(code, o))
  BY <1>3 DEF NestedAt
<1>5. o <= Len(code) /\ o \in Nat
  BY <1>1, <1>4
<1>6. MovesAt(code, seen, o)
  BY <1>4, <1>5, BoundaryIs
<1>7. Arg(code, o, 1) \in DOMAIN Types
  BY <1>4, <1>6 DEF MovesAt, Moves, OpenMove
<1>8. Signature(code, o) \in [params : Seq(ValueTypes), results : Seq(ValueTypes)]
  BY <1>7, TypesAre DEF Signature
<1>9. f.kind \in {"block", "loop", "if"} /\ f.seen_else \in Nat
  BY <1>2, <1>4 DEF KindOf, Frame
<1> HIDE DEF f
<1>10. PendingOf(f) \in Pending
  BY <1>5, <1>8, <1>9 DEF PendingOf, Pending
<1> QED  BY <1>4, <1>5, <1>8, <1>10 DEF f

\* A state of the scanner that fits the boundary it stands at.
Fits(r) == /\ r = [pc |-> r.pc, pending |-> r.pending, openers |-> r.openers, err |-> OK]
           /\ Scanned(r.pc, r.pending, r.openers)

LEMMA ScanRecord ==
  ASSUME NEW r, r = [pc |-> r.pc, pending |-> r.pending, openers |-> r.openers, err |-> OK],
         NEW q, NEW d, NEW e
  PROVE  /\ [r EXCEPT !.pc = q] = [pc |-> q, pending |-> r.pending, openers |-> r.openers, err |-> OK]
         /\ [r EXCEPT !.pc = q, !.pending = d]
              = [pc |-> q, pending |-> d, openers |-> r.openers, err |-> OK]
         /\ [r EXCEPT !.pc = q, !.pending = d, !.openers = e]
              = [pc |-> q, pending |-> d, openers |-> e, err |-> OK]
<1> DEFINE a == r.pc
           b == r.pending
           c == r.openers
           r1 == [r EXCEPT !.pc = q]
           r2 == [r1 EXCEPT !.pending = d]
<1>1. r1 = [pc |-> q, pending |-> b, openers |-> c, err |-> OK]
  <2>1. r = [pc |-> a, pending |-> b, openers |-> c, err |-> OK]
    OBVIOUS
  <2> HIDE DEF a, b, c
  <2> QED  BY ONLY <2>1
<1> HIDE DEF r1
<1>2. r2 = [pc |-> q, pending |-> d, openers |-> c, err |-> OK]
  BY <1>1
<1> HIDE DEF r2
<1>3. [r2 EXCEPT !.openers = e] = [pc |-> q, pending |-> d, openers |-> e, err |-> OK]
  BY <1>2
<1> QED  BY <1>1, <1>2, <1>3 DEF r1, r2

LEMMA ScanAt ==
  ASSUME VInv, Fits(sc), Scanning
  PROVE  /\ sc.pc \in DOMAIN seen /\ sc.pc <= Len(code) /\ sc.pending \in Seq(Pending)
         /\ Len(sc.pending) = Len(At(seen, sc.pc)) - 1
         /\ \A i \in 1..Len(sc.pending) : sc.pending[i] = PendingOf(At(seen, sc.pc)[i + 1])
         /\ DOMAIN sc.openers = {o \in DOMAIN paired : paired[o].end_pc < sc.pc}
         /\ \A o \in DOMAIN sc.openers : sc.openers[o] = InfoOf(o)
         /\ sc.pending # <<>> <=> Len(At(seen, sc.pc)) > 1
<1>1. sc.pc \in DOMAIN seen /\ sc.pc <= Len(code) /\ Scanned(sc.pc, sc.pending, sc.openers)
  BY DEF Fits, Scanned, Scanning
<1>2. Len(At(seen, sc.pc)) \in Nat \ {0}
  BY <1>1, BoundaryIs
<1>3. sc.pending \in Seq(Pending) /\ Len(sc.pending) = Len(At(seen, sc.pc)) - 1
  BY <1>1, <1>2 DEF Scanned
<1>4. sc.pending # <<>> <=> Len(sc.pending) > 0
  BY <1>3
<1> QED  BY <1>1, <1>2, <1>3, <1>4 DEF Scanned

LEMMA OpenerScanned ==
  ASSUME VInv, Fits(sc), ScanOpener
  PROVE  Fits(sc')
<1> DEFINE p == sc.pc
           k == At(seen, sc.pc)
           q == After(code, sc.pc)
           k2 == At(seen, After(code, sc.pc))
           f == k2[Len(k) + 1]
           pending == Append(sc.pending, PendingOf(f))
<1>1. /\ Scanning /\ Opcode(code, p) \in Openers /\ p \in DOMAIN seen /\ p <= Len(code)
  BY ScanAt DEF ScanOpener, Openers
<1>2. /\ ReadableAt(code, seen, p) /\ q \in DOMAIN seen /\ p \in Nat /\ Len(k) \in Nat \ {0}
      /\ MovesAt(code, seen, p) /\ k2 \in Seq(Frame)
  BY <1>1, BoundaryIs
<1>3. ImmAt(code, p) = <<"blocktype">> /\ q = p + 2
  BY <1>1, OpenerWidth DEF VInv, Boundaries
<1>4. Decodes(code, p, <<"blocktype">>)
  BY <1>2, <1>3 DEF ReadableAt
<1>5. /\ Len(k2) = Len(k) + 1 /\ \A j \in 1..Len(k) : k2[j] = k[j]
      /\ f.kind = KindOf(Opcode(code, p)) /\ f.opener = p /\ f.seen_else = 0
  BY <1>1, <1>2 DEF MovesAt, Moves, OpenMove
<1>6. PendingOf(f) \in Pending
  BY <1>2, <1>5, PendingIs
<1>7. PendingOf(f) = [opener |-> p, body_pc |-> p + 2, else_pc |-> 0,
                      signature |-> Signature(code, p),
                      kind |-> CASE Opcode(code, p) = \h02 -> "block"
                                 [] Opcode(code, p) = \h03 -> "loop"
                                 [] OTHER                  -> "if"]
  <2>1. f.kind = CASE Opcode(code, p) = \h02 -> "block"
                   [] Opcode(code, p) = \h03 -> "loop"
                   [] OTHER                  -> "if"
    BY <1>1, <1>5 DEF KindOf, Openers
  <2> HIDE DEF f, p
  <2> QED  BY <1>5, <2>1 DEF PendingOf
<1>8. sc' = [sc EXCEPT !.pc = q, !.pending = pending]
  <2>1. sc' = [sc EXCEPT !.pc = p + 2, !.pending = Append(sc.pending, PendingOf(f))]
    BY <1>4, <1>7 DEF ScanOpener, ScanTo
  <2> QED  BY <1>3, <2>1
<1>9. /\ sc.pending \in Seq(Pending) /\ Len(sc.pending) = Len(k) - 1
      /\ \A i \in 1..Len(sc.pending) : sc.pending[i] = PendingOf(k[i + 1])
      /\ DOMAIN sc.openers = {o \in DOMAIN paired : paired[o].end_pc < p}
      /\ \A o \in DOMAIN sc.openers : sc.openers[o] = InfoOf(o)
  BY <1>1, ScanAt
<1>10. {o \in DOMAIN paired : paired[o].end_pc < q} = DOMAIN sc.openers
  <2>1. Opcode(code, p) # \h0B
    BY <1>1 DEF Openers
  <2> QED  BY <1>1, <1>9, <2>1, EndedBefore
<1>11. pending \in Seq(Pending) /\ Len(pending) = Len(k2) - 1
       /\ \A i \in 1..Len(pending) : pending[i] = PendingOf(k2[i + 1])
  <2> HIDE DEF k, k2, f
  <2> DEFINE g == PendingOf(f)
  <2>1. f = k2[Len(k) + 1] /\ g \in Pending
    BY <1>6 DEF f
  <2> HIDE DEF g
  <2>2. /\ Append(sc.pending, g) \in Seq(Pending) /\ Len(Append(sc.pending, g)) = Len(sc.pending) + 1
        /\ \A i \in 1..Len(sc.pending) : Append(sc.pending, g)[i] = sc.pending[i]
        /\ Append(sc.pending, g)[Len(sc.pending) + 1] = g
    BY <1>9, <2>1
  <2>3. pending = Append(sc.pending, g)
    BY DEF g
  <2> HIDE DEF pending
  <2>4. ASSUME NEW i \in 1..Len(pending) PROVE pending[i] = PendingOf(k2[i + 1])
    <3>1. CASE i = Len(sc.pending) + 1
      <4>1. k2[i + 1] = f
        BY <1>2, <1>9, <2>1, <3>1
      <4> QED  BY <2>2, <2>3, <3>1, <4>1 DEF g
    <3>2. CASE i \in 1..Len(sc.pending)
      <4>1. k2[i + 1] = k[i + 1]
        BY <1>2, <1>5, <1>9, <3>2
      <4> QED  BY <1>9, <2>2, <2>3, <3>2, <4>1
    <3> QED  BY <1>2, <1>9, <2>2, <2>3, <3>1, <3>2
  <2> QED  BY <1>2, <1>5, <1>9, <2>2, <2>3, <2>4
<1> HIDE DEF pending
<1>12. Scanned(q, pending, sc.openers)
  BY <1>2, <1>5, <1>9, <1>10, <1>11 DEF Scanned
<1>13. /\ sc' = [pc |-> q, pending |-> pending, openers |-> sc.openers, err |-> OK]
  <2>1. sc = [pc |-> sc.pc, pending |-> sc.pending, openers |-> sc.openers, err |-> OK]
    BY DEF Fits
  <2> HIDE DEF q
  <2> QED  BY ONLY <1>8, <2>1, ScanRecord
<1> QED  BY <1>12, <1>13 DEF Fits

LEMMA ElseScanned ==
  ASSUME VInv, Fits(sc), ScanElse
  PROVE  Fits(sc')
<1> DEFINE p == sc.pc
           k == At(seen, sc.pc)
           n == Len(sc.pending)
           q == After(code, sc.pc)
           k2 == At(seen, After(code, sc.pc))
           pending == [sc.pending EXCEPT ![n].else_pc = p]
<1>1. /\ Scanning /\ code[p] = Op(\h05) /\ p \in DOMAIN seen /\ p <= Len(code)
      /\ Opcode(code, p) = \h05
  BY ScanAt DEF ScanElse, Op, Opcode
<1>2. /\ q \in DOMAIN seen /\ p \in Nat /\ Len(k) \in Nat \ {0}
      /\ MovesAt(code, seen, p) /\ k \in Seq(Frame) /\ FramesAt(code, seen, p)
  BY <1>1, BoundaryIs
<1>3. q = p + 1
  BY <1>1, <1>2, ControlWidths DEF After
<1>4. /\ sc.pending \in Seq(Pending) /\ n = Len(k) - 1 /\ n \in Nat
      /\ \A i \in 1..n : sc.pending[i] = PendingOf(k[i + 1])
      /\ DOMAIN sc.openers = {o \in DOMAIN paired : paired[o].end_pc < p}
      /\ \A o \in DOMAIN sc.openers : sc.openers[o] = InfoOf(o)
      /\ sc.pending # <<>> <=> Len(k) > 1
  BY <1>1, ScanAt
<1>5. ElseMove(p, k, k2)
  BY <1>1, <1>2 DEF MovesAt, Moves
<1>6. /\ k[Len(k)].kind = "if" /\ k[Len(k)].seen_else = 0 /\ Len(k2) = Len(k)
      /\ \A j \in 1..(Len(k) - 1) : k2[j] = k[j]
      /\ k2[Len(k)] = [k[Len(k)] EXCEPT !.unreachable = FALSE, !.seen_else = p]
  BY <1>5 DEF ElseMove
<1>7. Len(k) > 1
  <2>1. Len(k) \in 1..Len(k) /\ k[Len(k)].kind # "function"
    BY <1>2, <1>6
  <2> QED  BY <1>2, <2>1 DEF FramesAt
<1>8. /\ n \in 1..n /\ n \in Nat \ {0} /\ Last(sc.pending) = sc.pending[n] /\ n + 1 = Len(k)
      /\ sc.pending[n] = PendingOf(k[Len(k)]) /\ sc.pending[n] \in Pending
  BY <1>2, <1>4, <1>7, LastIs
<1>9. sc.pending[n].kind = "if" /\ sc.pending[n].else_pc = 0
  BY <1>6, <1>8 DEF PendingOf
<1>10. sc' = [sc EXCEPT !.pc = q, !.pending = pending]
  BY <1>1, <1>3, <1>4, <1>7, <1>8, <1>9 DEF ScanElse, ScanTo
<1>11. {o \in DOMAIN paired : paired[o].end_pc < q} = DOMAIN sc.openers
  BY <1>1, <1>4, EndedBefore
<1>12. /\ pending \in Seq(Pending) /\ Len(pending) = Len(k2) - 1
       /\ \A i \in 1..Len(pending) : pending[i] = PendingOf(k2[i + 1])
  <2> DEFINE g == [sc.pending[n] EXCEPT !.else_pc = p]
  <2>1. g \in Pending
    BY <1>2, <1>8 DEF Pending
  <2>2. g = PendingOf(k2[Len(k)])
    <3>1. k[Len(k)] \in Frame
      BY <1>2
    <3>2. /\ k2[Len(k)].opener = k[Len(k)].opener /\ k2[Len(k)].kind = k[Len(k)].kind
          /\ k2[Len(k)].seen_else = p
      BY <1>6, <3>1 DEF Frame
    <3> QED  BY <1>8, <3>2 DEF PendingOf
  <2>3. pending = [sc.pending EXCEPT ![n] = g]
    OBVIOUS
  <2> HIDE DEF g, pending
  <2>4. /\ pending \in Seq(Pending) /\ Len(pending) = n /\ pending[n] = g
        /\ \A i \in 1..n : i # n => pending[i] = sc.pending[i]
    BY <1>4, <1>8, <2>1, <2>3
  <2> HIDE DEF n, k, k2
  <2>5. ASSUME NEW i \in 1..n PROVE pending[i] = PendingOf(k2[i + 1])
    <3>1. CASE i = n
      BY <1>8, <2>2, <2>4, <3>1
    <3>2. CASE i # n
      <4>1. k2[i + 1] = k[i + 1] /\ pending[i] = sc.pending[i]
        BY <1>2, <1>4, <1>6, <2>4, <3>2
      <4> QED  BY <1>4, <4>1
    <3> QED  BY <3>1, <3>2
  <2> QED  BY <1>2, <1>4, <1>6, <2>4, <2>5
<1> HIDE DEF pending
<1>13. Scanned(q, pending, sc.openers)
  BY <1>2, <1>4, <1>6, <1>7, <1>11, <1>12 DEF Scanned
<1>14. sc' = [pc |-> q, pending |-> pending, openers |-> sc.openers, err |-> OK]
  <2>1. sc = [pc |-> sc.pc, pending |-> sc.pending, openers |-> sc.openers, err |-> OK]
    BY DEF Fits
  <2> HIDE DEF q
  <2> QED  BY ONLY <1>10, <2>1, ScanRecord
<1> QED  BY <1>13, <1>14 DEF Fits

LEMMA EndScanned ==
  ASSUME VInv, Fits(sc), ScanEnd
  PROVE  Fits(sc')
<1> DEFINE p == sc.pc
           k == At(seen, sc.pc)
           n == Len(At(seen, sc.pc))
           q == After(code, sc.pc)
           k2 == At(seen, After(code, sc.pc))
           f == Last(sc.pending)
           o1 == k[n].opener
           r1 == [kind |-> f.kind, body_pc |-> f.body_pc, else_pc |-> f.else_pc,
                  end_pc |-> p, signature |-> f.signature]
<1>1. /\ Scanning /\ code[p] = Op(\h0B) /\ p \in DOMAIN seen /\ p <= Len(code)
      /\ Opcode(code, p) = \h0B
  BY ScanAt DEF ScanEnd, Op, Opcode
<1>2. /\ q \in DOMAIN seen /\ p \in Nat /\ n \in Nat \ {0} /\ Len(code) \in Nat
      /\ MovesAt(code, seen, p) /\ k \in Seq(Frame) /\ FramesAt(code, seen, p)
      /\ FramesAt(code, seen, q)
  BY <1>1, BoundaryIs
<1>3. q = p + 1
  BY <1>1, <1>2, ControlWidths DEF After
<1>4. /\ sc.pending \in Seq(Pending) /\ Len(sc.pending) = n - 1
      /\ \A i \in 1..Len(sc.pending) : sc.pending[i] = PendingOf(k[i + 1])
      /\ DOMAIN sc.openers = {o \in DOMAIN paired : paired[o].end_pc < p}
      /\ \A o \in DOMAIN sc.openers : sc.openers[o] = InfoOf(o)
      /\ sc.pending # <<>> <=> n > 1
  BY <1>1, ScanAt
<1>5. EndMove(k, k2)
  BY <1>1, <1>2 DEF MovesAt, Moves, Openers
<1>6. Len(k2) = n - 1 /\ \A j \in 1..(n - 1) : k2[j] = k[j]
  BY <1>5 DEF EndMove
<1>7. sc = [pc |-> sc.pc, pending |-> sc.pending, openers |-> sc.openers, err |-> OK]
  BY DEF Fits
<1>8. CASE n = 1
  <2>1. ~(q <= Len(code))
    BY <1>2, <1>6, <1>8 DEF FramesAt
  <2>2. p = Len(code) /\ ~(sc.pending # <<>>)
    BY <1>1, <1>2, <1>3, <1>4, <1>8, <2>1
  <2>3. sc' = [sc EXCEPT !.pc = p + 1]
    BY <1>1, <2>2 DEF ScanEnd, ScanTo
  <2>4. sc' = [pc |-> q, pending |-> sc.pending, openers |-> sc.openers, err |-> OK]
    <3> HIDE DEF q, p
    <3> QED  BY <1>3, <1>7, <2>3, ScanRecord
  <2>5. {o \in DOMAIN paired : paired[o].end_pc < q} = DOMAIN sc.openers
    BY <1>1, <1>4, <1>8, EndedBefore
  <2>6. Scanned(q, sc.pending, sc.openers)
    BY <1>2, <1>4, <1>6, <1>8, <2>5 DEF Scanned
  <2> QED  BY <2>4, <2>6 DEF Fits
<1>9. CASE n > 1
  <2>1. sc' = [sc EXCEPT !.pc = p + 1, !.pending = Front(@), !.openers = Insert(@, f.opener, r1)]
    BY <1>1, <1>4, <1>9 DEF ScanEnd, ScanTo
  <2>2. /\ f = PendingOf(k[n]) /\ Len(Front(sc.pending)) = n - 2 /\ Front(sc.pending) \in Seq(Pending)
        /\ \A i \in 1..(n - 2) : Front(sc.pending)[i] = sc.pending[i]
    <3>1. Last(sc.pending) = sc.pending[Len(sc.pending)] /\ Len(sc.pending) > 0
          /\ Len(sc.pending) \in 1..Len(sc.pending) /\ Len(sc.pending) + 1 = n
      BY <1>2, <1>4, <1>9, LastIs
    <3>2. f = PendingOf(k[n])
      BY <1>4, <3>1
    <3>3. /\ Front(sc.pending) \in Seq(Pending) /\ Len(Front(sc.pending)) = Len(sc.pending) - 1
          /\ \A i \in 1..(Len(sc.pending) - 1) : Front(sc.pending)[i] = sc.pending[i]
      BY <1>4, <3>1, FrontIs
    <3> HIDE DEF f, n, k
    <3> QED  BY <1>2, <1>4, <3>2, <3>3
  <2>3. f.opener = o1
    BY <2>2 DEF PendingOf
  <2>4. sc' = [pc |-> q, pending |-> Front(sc.pending), openers |-> Insert(sc.openers, o1, r1), err |-> OK]
    <3> HIDE DEF q, p, r1, o1, f
    <3>1. sc' = [sc EXCEPT !.pc = q, !.pending = Front(sc.pending),
                           !.openers = Insert(sc.openers, o1, r1)]
      BY <1>3, <2>1, <2>3
    <3> QED  BY <1>7, <3>1, ScanRecord
  <2>5. /\ {o \in DOMAIN paired : paired[o].end_pc < q} = DOMAIN sc.openers \cup {o1}
        /\ o1 \in DOMAIN paired /\ paired[o1].end_pc = p /\ paired[o1].else_pc = k[n].seen_else
    BY <1>1, <1>4, <1>9, EndedBefore
  <2>6. r1 = InfoOf(o1)
    <3>1. NestedAt(code, seen, p, n)
      BY <1>2, <1>9 DEF FramesAt
    <3>2. k[n].kind = KindOf(Opcode(code, o1))
      BY <3>1 DEF NestedAt
    <3>3. /\ f.kind = k[n].kind /\ f.body_pc = o1 + 2 /\ f.else_pc = k[n].seen_else
          /\ f.signature = Signature(code, o1)
      BY <2>2 DEF PendingOf
    <3> HIDE DEF f, o1, k, n
    <3> QED  BY <2>5, <3>2, <3>3 DEF InfoOf
  <2> DEFINE openers == Insert(sc.openers, o1, r1)
  <2>7. /\ DOMAIN openers = DOMAIN sc.openers \cup {o1} /\ openers[o1] = r1
        /\ \A o \in DOMAIN sc.openers : o # o1 => openers[o] = sc.openers[o]
    <3> HIDE DEF r1, o1
    <3> QED  BY DEF Insert
  <2> HIDE DEF openers, r1
  <2>8. \A o \in DOMAIN openers : openers[o] = InfoOf(o)
    BY <1>4, <2>6, <2>7
  <2>9. \A i \in 1..Len(Front(sc.pending)) : Front(sc.pending)[i] = PendingOf(k2[i + 1])
    <3> TAKE i \in 1..Len(Front(sc.pending))
    <3> HIDE DEF n, k, k2
    <3>1. i \in 1..(n - 2) /\ i \in 1..Len(sc.pending) /\ i + 1 \in 1..(n - 1)
      BY <1>2, <1>4, <1>9, <2>2
    <3>2. Front(sc.pending)[i] = sc.pending[i] /\ sc.pending[i] = PendingOf(k[i + 1]) /\ k2[i + 1] = k[i + 1]
      BY <1>4, <1>6, <2>2, <3>1
    <3> QED  BY <3>2
  <2>10. Scanned(q, Front(sc.pending), openers)
    <3>1. Len(Front(sc.pending)) = IF Len(k2) = 0 THEN 0 ELSE Len(k2) - 1
      BY <1>2, <1>6, <1>9, <2>2
    <3>2. DOMAIN openers = {o \in DOMAIN paired : paired[o].end_pc < q}
      BY <2>5, <2>7
    <3> QED  BY <1>2, <2>2, <2>8, <2>9, <3>1, <3>2 DEF Scanned
  <2> QED  BY <2>4, <2>10 DEF Fits, openers
<1>10. n = 1 \/ n > 1
  <2> HIDE DEF n
  <2> QED  BY <1>2
<1> QED  BY <1>8, <1>9, <1>10

LEMMA OtherScanned ==
  ASSUME VInv, Fits(sc), ScanOther
  PROVE  Fits(sc')
<1> DEFINE p == sc.pc
           k == At(seen, sc.pc)
           n == Len(At(seen, sc.pc))
           q == After(code, sc.pc)
           k2 == At(seen, After(code, sc.pc))
           op == Opcode(code, sc.pc)
           imm == ScannerTable[Opcode(code, sc.pc)].imm
<1>1. Scanning /\ p \in DOMAIN seen /\ p <= Len(code)
  BY ScanAt DEF ScanOther
<1>2. /\ q \in DOMAIN seen /\ p \in Nat /\ n \in Nat \ {0} /\ code[p].k = "op"
      /\ MovesAt(code, seen, p) /\ ReadableAt(code, seen, p) /\ k \in Seq(Frame)
  BY <1>1, BoundaryIs
<1>3. op \notin Openers \cup {\h05, \h0B}
  BY <1>2 DEF ScanOther, Openers
<1>4. op \in ScannerOps /\ Decodes(code, p, imm) /\ p + 1 + Width(code, p, imm) = q
  BY <1>2, <1>3, ScannerReads
<1>5. sc' = [sc EXCEPT !.pc = q]
  <2>1. sc' = [sc EXCEPT !.pc = p + 1 + Width(code, p, imm)]
    BY <1>2, <1>4 DEF ScanOther, ScanTo
  <2> QED  BY <1>4, <2>1
<1>6. sc' = [pc |-> q, pending |-> sc.pending, openers |-> sc.openers, err |-> OK]
  <2>1. sc = [pc |-> sc.pc, pending |-> sc.pending, openers |-> sc.openers, err |-> OK]
    BY DEF Fits
  <2> HIDE DEF q
  <2> QED  BY <1>5, <2>1, ScanRecord
<1>7. /\ sc.pending \in Seq(Pending) /\ Len(sc.pending) = n - 1
      /\ \A i \in 1..Len(sc.pending) : sc.pending[i] = PendingOf(k[i + 1])
      /\ DOMAIN sc.openers = {o \in DOMAIN paired : paired[o].end_pc < p}
      /\ \A o \in DOMAIN sc.openers : sc.openers[o] = InfoOf(o)
  BY <1>1, ScanAt
<1>8. {o \in DOMAIN paired : paired[o].end_pc < q} = DOMAIN sc.openers
  BY <1>1, <1>3, <1>7, EndedBefore
<1>9. /\ Len(k2) = n /\ \A j \in 1..(n - 1) : k2[j] = k[j]
      /\ k2[n].opener = k[n].opener /\ k2[n].kind = k[n].kind /\ k2[n].seen_else = k[n].seen_else
  <2>1. StayMove(op, k, k2)
    BY <1>2, <1>3 DEF MovesAt, Moves
  <2>2. k[n] \in Frame
    BY <1>2
  <2> QED  BY <2>1, <2>2 DEF StayMove, Frame
<1>10. \A i \in 1..Len(sc.pending) : sc.pending[i] = PendingOf(k2[i + 1])
  <2> TAKE i \in 1..Len(sc.pending)
  <2> HIDE DEF n, k, k2
  <2>1. i + 1 \in 1..n /\ sc.pending[i] = PendingOf(k[i + 1])
    BY <1>2, <1>7
  <2>2. k2[i + 1].opener = k[i + 1].opener /\ k2[i + 1].kind = k[i + 1].kind
        /\ k2[i + 1].seen_else = k[i + 1].seen_else
    <3>1. i + 1 = n \/ i + 1 \in 1..(n - 1)
      BY <1>2, <2>1
    <3> QED  BY <1>9, <3>1
  <2> QED  BY <2>1, <2>2 DEF PendingOf
<1>11. Scanned(q, sc.pending, sc.openers)
  BY <1>2, <1>7, <1>8, <1>9, <1>10 DEF Scanned
<1> QED  BY <1>6, <1>11 DEF Fits

\* Nothing is open, and nothing has ended, before the first instruction.
LEMMA FirstBoundary ==
  ASSUME NEW c, NEW s, Boundaries(c, s), NEW pr, NEW k, Pairing(c, s, pr, k)
  PROVE  /\ 1 \in DOMAIN s /\ Len(At(s, 1)) \in {0, 1}
         /\ {o \in DOMAIN pr : pr[o].end_pc < 1} = {}
<1>1. 1 \in DOMAIN s /\ DOMAIN s \subseteq 1..(Len(c) + 1) /\ FramesAt(c, s, 1)
  BY DEF Boundaries, Readable
<1>2. At(s, 1) \in Seq(Frame)
  BY <1>1 DEF FramesAt
<1>3. ASSUME Len(At(s, 1)) >= 2 PROVE FALSE
  <2>1. NestedAt(c, s, 1, 2)
    BY <1>1, <1>2, <1>3 DEF FramesAt
  <2>2. At(s, 1)[2].opener \in DOMAIN s /\ At(s, 1)[2].opener < 1
    BY <2>1 DEF NestedAt
  <2> QED  BY <1>1, <2>2
<1>4. \A o \in DOMAIN pr : pr[o].end_pc \in DOMAIN s
  BY DEF Pairing
<1>5. \A r \in DOMAIN s : ~(r < 1)
  BY <1>1
<1>6. {o \in DOMAIN pr : pr[o].end_pc < 1} = {}
  BY <1>4, <1>5
<1>7. Len(At(s, 1)) \in {0, 1}
  <2>1. Len(At(s, 1)) \in Nat /\ ~(Len(At(s, 1)) >= 2)
    BY <1>2, <1>3
  <2> HIDE DEF At
  <2> QED  BY <2>1
<1> QED  BY <1>1, <1>6, <1>7

LEMMA ValidateFrame ==
  ASSUME ValidateStep
  PROVE  phase = "validate" /\ phase' \in {"validate", "rejected", "scan"} /\ UNCHANGED <<input, sc, x>>
<1>1. PICK ins \in Offer(input, code) : ValidateInstruction(ins) \/ ValidateMalformed(ins)
  BY DEF ValidateStep
<1>2. \E m : Commit(ins, m)
  <2>1. CASE ValidateMalformed(ins) \/ ValidateUnreachable(ins) \/ ValidateNop(ins) \/ ValidateOpener(ins)
             \/ ValidateIf(ins) \/ ValidateElse(ins) \/ ValidateEnd(ins)
    BY <2>1 DEF ValidateMalformed, ValidateUnreachable, ValidateNop, ValidateOpener,
       ValidateIf, ValidateElse, ValidateEnd
  <2>2. CASE ValidateBr(ins) \/ ValidateBrIf(ins) \/ ValidateBrTable(ins) \/ ValidateReturn(ins)
    BY <2>2 DEF ValidateBr, ValidateBrIf, ValidateBrTable, ValidateReturn
  <2>3. CASE ValidateCall(ins) \/ ValidateCallIndirect(ins) \/ ValidateDrop(ins) \/ ValidateSelect(ins)
    BY <2>3 DEF ValidateCall, ValidateCallIndirect, ValidateDrop, ValidateSelect
  <2>4. CASE ValidateTypedSelect(ins) \/ ValidateLocal(ins) \/ ValidateGlobal(ins) \/ ValidatePlain(ins)
    BY <2>4 DEF ValidateTypedSelect, ValidateLocal, ValidateGlobal, ValidatePlain
  <2> QED  BY <1>1, <2>1, <2>2, <2>3, <2>4 DEF ValidateInstruction
<1>3. phase = "validate"
  BY DEF ValidateStep
<1> QED  BY <1>2, <1>3 DEF Commit

LEMMA ScanDoneIs ==
  ASSUME VInv, SInv, ScanDone
  PROVE  /\ sc.pc = Len(code) + 1 /\ UNCHANGED sc
         /\ phase' = "run"
         /\ x' = [x EXCEPT !.controls =
                     <<[kind |-> "function", body_pc |-> 1, end_pc |-> Len(code),
                        height |-> 0, params |-> <<>>, results |-> Results]>>]
<1>1. phase = "scan" /\ sc.pc > Len(code)
  BY DEF ScanDone
<1>2. sc.pc \in DOMAIN seen /\ DOMAIN seen \subseteq 1..(Len(code) + 1) /\ Len(code) \in Nat
      /\ Scanned(sc.pc, sc.pending, sc.openers)
  BY <1>1 DEF SInv, Scanned, VInv, Boundaries, Readable
<1>3. sc.pc = Len(code) + 1
  BY <1>1, <1>2
<1>4. v.controls = At(seen, sc.pc) /\ ~(Len(v.controls) > 0) /\ v \in VState
  BY <1>1, <1>3 DEF VInv, Current
<1>5. Len(At(seen, sc.pc)) = 0
  BY <1>4 DEF VState
<1>6. sc.pending = <<>>
  BY <1>2, <1>5 DEF Scanned
<1> QED  BY <1>3, <1>6 DEF ScanDone

LEMMA ScannerKeeps == ASSUME VInv, VInv', SInv, [Next]_vars PROVE SInv'
<1>1. CASE ValidateStep
  <2>1. phase = "validate" /\ phase' \in {"validate", "rejected", "scan"} /\ sc' = sc
    BY <1>1, ValidateFrame
  <2>2. /\ sc = [pc |-> sc.pc, pending |-> sc.pending, openers |-> sc.openers, err |-> OK]
        /\ sc.pc = 1 /\ DOMAIN sc.openers = {} /\ sc.pending = <<>>
    BY <2>1 DEF SInv
  <2>3. /\ 1 \in DOMAIN seen' /\ Len(At(seen', 1)) \in {0, 1}
        /\ {o \in DOMAIN paired' : paired'[o].end_pc < 1} = {}
    BY FirstBoundary DEF VInv
  <2>4. Scanned(1, <<>>, sc.openers)'
    BY <2>1, <2>2, <2>3 DEF Scanned, At
  <2>5. Scanned(sc.pc, sc.pending, sc.openers)'
    BY <2>1, <2>2, <2>4
  <2> QED  BY <2>1, <2>2, <2>5 DEF SInv
<1>2. CASE ScanOpener \/ ScanElse \/ ScanEnd \/ ScanOther
  <2>1. phase = "scan" /\ phase' = "scan" /\ UNCHANGED <<code, seen, paired>>
    BY <1>2 DEF ScanOpener, ScanElse, ScanEnd, ScanOther, Scanning, ScanTo, ScanFails
  <2>2. Fits(sc)
    BY <2>1 DEF SInv, Fits
  <2>3. Fits(sc')
    BY <1>2, <2>2, OpenerScanned, ElseScanned, EndScanned, OtherScanned
  <2>4. Scanned(sc'.pc, sc'.pending, sc'.openers)
    BY <2>3 DEF Fits
  <2>5. Scanned(sc.pc, sc.pending, sc.openers)'
    BY <2>1, <2>4 DEF Scanned, At, PendingOf, InfoOf, Signature, Arg, Opcode
  <2>6. sc' = [pc |-> sc'.pc, pending |-> sc'.pending, openers |-> sc'.openers, err |-> OK]
    BY <2>3 DEF Fits
  <2> QED  BY <2>1, <2>5, <2>6 DEF SInv
<1>3. CASE (phase \in {"scan", "run"} /\ phase' \in {"run", "done"} /\ sc.pc = Len(code) + 1
               /\ UNCHANGED <<code, seen, paired, sc>>)
           \/ UNCHANGED vars
  <2>1. UNCHANGED <<code, seen, paired, sc>>
    BY <1>3 DEF vars
  <2>2. /\ phase' \in {"validate", "rejected"} => phase \in {"validate", "rejected"}
        /\ phase' \in {"scan", "run", "done"} => phase \in {"scan", "run", "done"}
        /\ phase' \in {"run", "done"} => sc.pc = Len(code) + 1
    BY <1>3 DEF vars, SInv
  <2>3. phase' \in {"scan", "run", "done"} => Scanned(sc.pc, sc.pending, sc.openers)'
    BY <2>1, <2>2 DEF SInv, Scanned, At, PendingOf, InfoOf, Signature, Arg, Opcode
  <2> QED  BY <2>1, <2>2, <2>3 DEF SInv
<1>4. CASE ScanDone
  <2>1. UNCHANGED <<code, seen, paired>> /\ phase = "scan"
    BY <1>4, ScanFrame DEF ScanStep
  <2> QED  BY <1>3, <1>4, <2>1, ScanDoneIs
<1>5. CASE RunStep
  <2>1. phase = "run" /\ phase' \in {"run", "done"} /\ UNCHANGED <<code, sc, seen, paired>>
    BY <1>5, RunKeeps
  <2> QED  BY <1>3, <2>1 DEF SInv
<1> QED  BY <1>1, <1>2, <1>3, <1>4, <1>5 DEF Next, ScanStep

LEMMA AgreeFromInv == ASSUME VInv, SInv PROVE BoundariesAgree
<1>1. sc.err = OK
  BY DEF SInv
<1>2. ASSUME phase \in {"run", "done"}
      PROVE  /\ DOMAIN sc.openers = DOMAIN paired
             /\ \A p \in DOMAIN paired : /\ sc.openers[p].else_pc = paired[p].else_pc
                                         /\ sc.openers[p].end_pc = paired[p].end_pc
  <2>1. Scanned(sc.pc, sc.pending, sc.openers) /\ sc.pc = Len(code) + 1
    BY <1>2 DEF SInv
  <2>2. \A o \in DOMAIN paired : paired[o].end_pc \in DOMAIN seen /\ paired[o].end_pc <= Len(code)
    BY DEF VInv, Pairing
  <2>3. DOMAIN seen \subseteq 1..(Len(code) + 1) /\ Len(code) \in Nat
    BY DEF VInv, Boundaries, Readable
  <2>4. \A o \in DOMAIN paired : paired[o].end_pc < sc.pc
    BY <2>1, <2>2, <2>3
  <2>5. DOMAIN sc.openers = DOMAIN paired
    BY <2>1, <2>4 DEF Scanned
  <2>6. \A p \in DOMAIN paired : sc.openers[p] = InfoOf(p)
    BY <2>1, <2>5 DEF Scanned
  <2>7. \A p : InfoOf(p).else_pc = paired[p].else_pc /\ InfoOf(p).end_pc = paired[p].end_pc
    BY DEF InfoOf
  <2> QED  BY <2>5, <2>6, <2>7
<1> QED  BY <1>1, <1>2 DEF BoundariesAgree

\* The scanner never fails on a body the validator accepted, and pairs every opener
\* with the else and the end the validator's control stack gave it.
THEOREM ScannerAgrees == Spec => []BoundariesAgree
<1>1. Init => SInv
  <2> SUFFICES ASSUME Init PROVE SInv
    OBVIOUS
  <2>1. phase = "validate" /\ sc = [pc |-> 1, pending |-> <<>>, openers |-> <<>>, err |-> OK]
    BY DEF Init
  <2> QED  BY <2>1 DEF SInv
<1>2. VInv /\ VInv' /\ SInv /\ [Next]_vars => SInv'
  BY ScannerKeeps
<1>3. VInv /\ SInv => BoundariesAgree
  BY AgreeFromInv
<1> QED  BY <1>1, <1>2, <1>3, BodyInvariant, PTL DEF Spec
===============================================================================
