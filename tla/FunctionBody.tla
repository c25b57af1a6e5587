----------------------------- MODULE FunctionBody -----------------------------
(***************************************************************************)
(* One function body from its bytes to its result: the validator's single  *)
(* pass over it (typed.rs validate_code), the scanner that pairs every     *)
(* block opener with its else and its end (control.rs build_control_map),  *)
(* and the interpreter that runs it with an operand stack and a control    *)
(* stack of its own (lib.rs execute_guest_frame, branch_to,                *)
(* exit_control_frame).                                                    *)
(*                                                                         *)
(* A body is a sequence of tokens, an opcode followed by one token per     *)
(* immediate; LEB128 and fixed widths are abstracted to "one immediate, of *)
(* this kind".  Values are their types, so a condition or a selector is a  *)
(* nondeterministic choice.  The validator reads a body front to back, so  *)
(* the body is revealed to it one instruction at a time: Offer says which  *)
(* instructions may come next.                                             *)
(*                                                                         *)
(* Positions are 1-based: token p of the model is byte offset of the code. *)
(***************************************************************************)
EXTENDS Opcodes, Integers, SequencesExt

CONSTANTS
  Results,      \* result types of the function
  Locals,       \* types of its parameters and declared locals
  Types,        \* the type section: a sequence of [params, results]
  Functions,    \* the functions it may call, as indices into Types
  Globals,      \* a sequence of [type, mutable]
  Memory64,     \* for each memory, whether it is indexed by i64
  SpaceSize,    \* sizes of the other index spaces: table, data, elem, func (the
                \* functions is_declared_function_reference accepts; no
                \* data segment can be named without a data count section)
  Inputs,       \* where a body may come from
  Offer(_, _)   \* Offer(input, code): the instructions that may follow code

ASSUME ContextAssumption ==
  /\ Results \in Seq(ValueTypes) /\ Locals \in Seq(ValueTypes)
  /\ Types \in Seq([params : Seq(ValueTypes), results : Seq(ValueTypes)])
  /\ Functions \in Seq(DOMAIN Types)
  /\ Globals \in Seq([type : ValueTypes, mutable : BOOLEAN])
  /\ Memory64 \in Seq(BOOLEAN)
  /\ SpaceSize \in [{"table", "data", "elem", "func"} -> Nat]

VARIABLES
  phase,   \* "validate", "scan", "run", "done", "rejected"
  input,   \* the chosen member of Inputs
  code,    \* the body's tokens read so far, all of them once validated
  v,       \* the validator: operand stack, control stack, error, and whether
           \* it ever popped an operand from below its frame (history)
  sc,      \* the scanner: position, pending openers, finished openers, error
  x,       \* the interpreter's frame: pc, operands, control stack, outcome
  seen,    \* history: the validator's state at every instruction boundary
  paired   \* history: the boundaries the validator's control stack paired

vars == <<phase, input, code, v, sc, x, seen, paired>>

OK == "ok"

-----------------------------------------------------------------------------
(* Tokens and decoding.                                                    *)

Op(n) == [k |-> "op", v |-> n]
Imm(kind, n) == [k |-> Encoding(kind), v |-> n]

Opcode(c, p) == c[p].v
Arg(c, p, i) == c[p + i].v

\* The block type of an opener (read_block_signature): its index into Types. The
\* empty and the one-result forms are members of Types like any other.
Signature(c, p) == Types[Arg(c, p, 1)]

\* Opcodes with an action of their own; every other one is in a table of Opcodes.
ControlOps == \h00..\h05 \cup \h0B..\h13 \cup \h1A..\h1C \cup \h20..\h24

\* Their immediates; the validator and the interpreter read these alike.
ControlImm(op) ==
  CASE op \in {\h02, \h03, \h04}                       -> <<"blocktype">>
    [] op \in {\h0C, \h0D, \h10, \h12} \cup \h20..\h24 -> <<"u32">>
    [] op = \h0E                                       -> <<"depths">>
    [] op \in {\h11, \h13}                             -> <<"u32", "table">>
    [] op = \h1C                                       -> <<"seltype">>
    [] OTHER                                           -> <<>>

\* The number of immediate tokens a reader that expects imm takes after the opcode
\* at p, and whether those tokens are encoded as it expects: the count of a br_table
\* first. A reader that expects other immediates than the body holds has lost the
\* instruction boundaries.
Width(c, p, imm) == IF imm = <<"depths">> THEN Arg(c, p, 1) + 2 ELSE Len(imm)
Decodes(c, p, imm) ==
  /\ imm = <<"depths">> => p < Len(c) /\ c[p + 1].k = "u32"
  /\ p + Width(c, p, imm) <= Len(c)
  /\ \A i \in 1..Width(c, p, imm) :
       c[p + i].k = IF imm = <<"depths">> THEN "u32" ELSE Encoding(imm[i])

\* The immediates the validator reads after an opcode.
ValidatorImm(op) == IF op \in ControlOps THEN ControlImm(op) ELSE ValidatorTable[op].imm

\* A value its encoding can carry: an index is a number, the type of a select one
\* of the value types read_typed_select_type knows.
Carried(t) ==
  /\ t.k = "u32" => t.v \in Nat
  /\ t.k = "seltype" => t.v \in ValueTypes

\* The tokens ins are one instruction to the validator: an opcode it has an arm for
\* and the immediates it reads after it.
WellFormed(ins) ==
  /\ ins # <<>> /\ ins \in Seq(Range(ins))
  /\ ins[1].k = "op" /\ ins[1].v \in ControlOps \cup ValidatorOps
  /\ Decodes(ins, 1, ValidatorImm(ins[1].v))
  /\ Len(ins) = 1 + Width(ins, 1, ValidatorImm(ins[1].v))
  /\ \A i \in DOMAIN ins : Carried(ins[i])

\* The map f with r under the key k.
Insert(f, k, r) == [i \in DOMAIN f \cup {k} |-> IF i = k THEN r ELSE f[i]]

\* A sequence cut to at most n elements (Vec::truncate), its last n, and what is
\* before these.
Truncate(s, n) == SubSeq(s, 1, IF n < Len(s) THEN n ELSE Len(s))
LastN(s, n) == SubSeq(s, Len(s) - n + 1, Len(s))
Drop(s, n) == SubSeq(s, 1, Len(s) - n)

\* Popping the first n of the types ts off s meets a value of another type, where s
\* has that many.
Mismatch(s, ts, n) == \E i \in 1..n : i <= Len(s) /\ s[Len(s) - i + 1] # ts[i]

\* The nth memory an instruction names: by memarg, or by a memory index immediate.
MemoryArg(c, p, imm, nth) ==
  LET naming == {i \in DOMAIN imm : imm[i] \in {"memarg", "mem"}}
  IN Arg(c, p, CHOOSE i \in naming : nth = 1 <=> \A j \in naming : i <= j)

\* The operand types that depend on the memories an instruction names, as typed.rs
\* computes them where it needs them ...
address_type(m) == IF Memory64[m] THEN "i64" ELSE "i32"
ValidatorOperand(c, p, imm, t) ==
  CASE t \in {"addr", "dst"} -> address_type(MemoryArg(c, p, imm, 1))
    [] t = "src"             -> address_type(MemoryArg(c, p, imm, 2))
    [] t = "len"             -> IF /\ address_type(MemoryArg(c, p, imm, 1)) = "i64"
                                   /\ address_type(MemoryArg(c, p, imm, 2)) = "i64"
                                THEN "i64" ELSE "i32"
    [] OTHER                 -> t
ValidatorOperands(c, p, imm, ts) == [i \in DOMAIN ts |-> ValidatorOperand(c, p, imm, ts[i])]

\* ... and as the interpreter does (pop_runtime_memory_address,
\* pop_runtime_bulk_memory_address, pop_runtime_memory_copy_length).
runtime_memory_is_64(m) == Memory64[m]
RuntimeOperand(c, p, imm, t) ==
  LET wide == CASE t \in {"addr", "dst"} -> {1} [] t = "src" -> {2} [] t = "len" -> {1, 2}
                [] OTHER -> {}
  IN IF wide = {} THEN t
     ELSE IF \A n \in wide : runtime_memory_is_64(MemoryArg(c, p, imm, n)) THEN "i64" ELSE "i32"
RuntimeOperands(c, p, imm, ts) == [i \in DOMAIN ts |-> RuntimeOperand(c, p, imm, ts[i])]

\* Index immediates within their index space.
InSpace(kind, n) ==
  CASE kind \in {"memarg", "mem"} -> n \in DOMAIN Memory64
    [] kind \in DOMAIN SpaceSize  -> n \in 1..SpaceSize[kind]
    [] OTHER                      -> TRUE
IndicesInBounds(c, p, imm) == \A i \in DOMAIN imm : InSpace(imm[i], Arg(c, p, i))

-----------------------------------------------------------------------------
(* The validator's operations, each a transform of its state.              *)

Fail(m, e) == [m EXCEPT !.err = e]
Top(m) == Last(m.controls)

\* Mutant: any frame's floor gives whatever is asked for.
Polymorphic_AnyFrame(m) == Len(m.stack) = Top(m).height

\* At the floor of an unreachable frame any operand may be popped.
Polymorphic(m) == Top(m).unreachable /\ Len(m.stack) = Top(m).height

Push(m, ts) == IF m.err # OK THEN m ELSE [m EXCEPT !.stack = @ \o ts]

\* pop_expect and pop_any look at the whole operand stack: only an EMPTY stack is
\* an underflow, whatever the height of the current frame.
pop_expect(m, t) ==
  IF m.err # OK \/ Polymorphic(m) THEN m
  ELSE IF m.stack = <<>> THEN Fail(m, "OperandStackUnderflow")
  ELSE IF Last(m.stack) # t THEN Fail(m, "TypeMismatch")
  ELSE [m EXCEPT !.stack = Front(@), !.dipped = @ \/ Len(m.stack) <= Top(m).height]

pop_any(m) ==
  IF m.err # OK \/ Polymorphic(m) THEN m
  ELSE IF m.stack = <<>> THEN Fail(m, "OperandStackUnderflow")
  ELSE [m EXCEPT !.stack = Front(@), !.dipped = @ \/ Len(m.stack) <= Top(m).height]

\* What pop_any would return: a type, or "none" where the stack is polymorphic.
AnyType(m) == IF m.err # OK \/ Polymorphic(m) \/ m.stack = <<>>
              THEN "none" ELSE Last(m.stack)

peek_expect(m, t) ==
  IF m.err # OK \/ Polymorphic(m) THEN m
  ELSE IF m.stack = <<>> THEN Fail(m, "OperandStackUnderflow")
  ELSE IF Last(m.stack) # t THEN Fail(m, "TypeMismatch") ELSE m

\* pop_expect for each of ts in turn: how many operands that takes off the stack
\* (at the floor of an unreachable frame none any more), and the state after it.
Taken(m, ts) ==
  LET above == Len(m.stack) - Top(m).height
  IN IF Top(m).unreachable /\ above \in 0..Len(ts) THEN above ELSE Len(ts)

PopAll(m, ts) ==
  LET n == Taken(m, ts)
  IN IF m.err # OK THEN m
     ELSE IF Mismatch(m.stack, ts, n) THEN Fail(m, "TypeMismatch")
     ELSE IF n > Len(m.stack) THEN Fail(m, "OperandStackUnderflow")
     ELSE [m EXCEPT !.stack = Drop(@, n),
                    !.dipped = @ \/ (n > 0 /\ Len(m.stack) - n < Top(m).height)]

\* Parameters are given in declared order, the last of them on top.
PopParams(m, ts) == PopAll(m, Reverse(ts))

mark_unreachable(m) ==
  IF m.err # OK THEN m
  ELSE [m EXCEPT !.stack = Truncate(@, Top(m).height),
                 !.controls[Len(m.controls)].unreachable = TRUE]

LabelTypes(frame) == IF frame.kind = "loop" THEN frame.params ELSE frame.ends

\* control_at_depth: frame index for a branch depth, 0 when there is none.
ControlAt(m, depth) == IF depth < Len(m.controls) THEN Len(m.controls) - depth ELSE 0

require_label_values(m, depth) ==
  IF m.err # OK THEN m
  ELSE IF ControlAt(m, depth) = 0 THEN Fail(m, "BranchDepthOutOfBounds")
  ELSE LET want  == LabelTypes(m.controls[ControlAt(m, depth)])
           above == Len(m.stack) - Top(m).height
       IN IF Polymorphic(m) THEN m
          ELSE IF (IF above < 0 THEN 0 ELSE above) < Len(want)
          THEN Fail(m, "OperandStackUnderflow")
          ELSE IF LastN(m.stack, Len(want)) # want THEN Fail(m, "TypeMismatch") ELSE m

\* Mutant: the height is taken as if the parameters were still on the stack.
EnterControl_HeightTwice(m, kind, sig, opener) ==
  LET p == PopParams(m, sig.params)
  IN IF p.err # OK THEN p
     ELSE [p EXCEPT !.stack = @ \o sig.params,
                    !.controls = Append(@,
                       [kind |-> kind, height |-> Len(p.stack) - Len(sig.params),
                        params |-> sig.params, ends |-> sig.results, unreachable |-> FALSE,
                        seen_else |-> 0, opener |-> opener])]

\* enter_control and the push of the new frame.
EnterControl(m, kind, sig, opener) ==
  LET p == PopParams(m, sig.params)
  IN IF p.err # OK THEN p
     ELSE [p EXCEPT !.stack = @ \o sig.params,
                    !.controls = Append(@,
                       [kind |-> kind, height |-> Len(p.stack), params |-> sig.params,
                        ends |-> sig.results, unreachable |-> FALSE,
                        seen_else |-> 0, opener |-> opener])]

\* finish_frame: what a frame must leave on the stack at its else or its end.
finish_frame(m) ==
  IF Top(m).unreachable THEN [m EXCEPT !.stack = Truncate(@, Top(m).height)]
  ELSE IF Len(m.stack) # Top(m).height + Len(Top(m).ends)
  THEN Fail(m, "StackHeightMismatch")
  ELSE IF SubSeq(m.stack, Top(m).height + 1, Len(m.stack)) # Top(m).ends
  THEN Fail(m, "TypeMismatch") ELSE m

apply_call_signature(m, ty) == Push(PopParams(m, ty.params), ty.results)

apply_tail_call_signature(m, ty) ==
  IF m.err # OK THEN m
  ELSE IF ty.results # Results THEN Fail(m, "TailCallResultTypeMismatch")
  ELSE mark_unreachable(PopParams(m, ty.params))

-----------------------------------------------------------------------------
(* One iteration of validate_code per instruction.                         *)

Init ==
  /\ phase = "validate"
  /\ input \in Inputs
  /\ code = <<>>
  /\ v = [stack |-> <<>>, err |-> OK, dipped |-> FALSE,
          controls |-> <<[kind |-> "function", height |-> 0, params |-> <<>>,
                          ends |-> Results, unreachable |-> FALSE, seen_else |-> 0,
                          opener |-> 0]>>]
  /\ sc = [pc |-> 1, pending |-> <<>>, openers |-> <<>>, err |-> OK]
  /\ x = [pc |-> 1, stack |-> <<>>, controls |-> <<>>, outcome |-> OK]
  /\ seen = <<[stack |-> <<>>, controls |-> v.controls]>>
  /\ paired = <<>>

\* The validator's verdict on instruction ins: go on in state m, or reject the
\* body. The function's own end leaves no control frame and ends the pass; code
\* after it (UnexpectedEnd) is never offered to a body that ended.
Commit(ins, m) ==
  /\ UNCHANGED <<input, sc, x>>
  /\ IF m.err # OK
     THEN /\ phase' = "rejected"
          /\ v' = [v EXCEPT !.err = m.err]
          /\ UNCHANGED <<code, seen, paired>>
     ELSE /\ code' = code \o ins
          /\ v' = m
          /\ seen' = Insert(seen, Len(code) + Len(ins) + 1,
                            [stack |-> m.stack, controls |-> m.controls])
          /\ paired' = IF Len(m.controls) < Len(v.controls) /\ m.controls # <<>>
                       THEN Insert(paired, Top(v).opener,
                                   [else_pc |-> Top(v).seen_else, end_pc |-> Len(code) + 1])
                       ELSE paired
          /\ phase' = IF m.controls = <<>> THEN "scan" ELSE "validate"

\* The next instruction's opcode is one of ops.
Reads(ins, ops) == ins[1].v \in ops

ValidateUnreachable(ins) ==
  /\ Reads(ins, {\h00})
  /\ Commit(ins, mark_unreachable(v))

ValidateNop(ins) ==
  /\ Reads(ins, {\h01})
  /\ Commit(ins, v)

BlockTypeKnown(ins) == ins[2].v \in DOMAIN Types

ValidateOpener(ins) ==
  /\ Reads(ins, {\h02, \h03})
  /\ Commit(ins, IF BlockTypeKnown(ins)
                 THEN EnterControl(v, IF ins[1].v = \h02 THEN "block" ELSE "loop",
                                   Signature(ins, 1), Len(code) + 1)
                 ELSE Fail(v, "BlockTypeIndexOutOfBounds"))

ValidateIf(ins) ==
  /\ Reads(ins, {\h04})
  /\ Commit(ins, IF BlockTypeKnown(ins)
                 THEN EnterControl(pop_expect(v, "i32"), "if", Signature(ins, 1),
                                   Len(code) + 1)
                 ELSE Fail(v, "BlockTypeIndexOutOfBounds"))

\* transition_to_else.
ValidateElse(ins) ==
  /\ Reads(ins, {\h05})
  /\ LET done == finish_frame(v)
     IN Commit(ins,
          IF Top(v).kind # "if" THEN Fail(v, "UnexpectedElse")
          ELSE IF Top(v).seen_else # 0 THEN Fail(v, "DuplicateElse")
          ELSE IF done.err # OK THEN done
          ELSE [done EXCEPT
                  !.stack = Truncate(@, Top(v).height) \o Top(v).params,
                  !.controls[Len(v.controls)].unreachable = FALSE,
                  !.controls[Len(v.controls)].seen_else = Len(code) + 1])

ValidateEnd(ins) ==
  /\ Reads(ins, {\h0B})
  /\ LET done == finish_frame(v)
     IN Commit(ins,
          IF Top(v).kind = "if" /\ Top(v).ends # <<>> /\ Top(v).seen_else = 0
          THEN Fail(v, "MissingElseForResult")
          ELSE IF done.err # OK THEN done
          ELSE [done EXCEPT
                  !.controls = Front(@),
                  !.stack = IF Top(v).kind = "function" THEN @
                            ELSE Truncate(@, Top(v).height) \o Top(v).ends])

ValidateBr(ins) ==
  /\ Reads(ins, {\h0C})
  /\ Commit(ins, mark_unreachable(require_label_values(v, ins[2].v)))

ValidateBrIf(ins) ==
  /\ Reads(ins, {\h0D})
  /\ Commit(ins, require_label_values(pop_expect(v, "i32"), ins[2].v))

\* Every target, the default included, must have the label types of the first.
ValidateBrTable(ins) ==
  /\ Reads(ins, {\h0E})
  /\ LET depths == [i \in 1..(Len(ins) - 2) |-> ins[i + 2].v]
         at(i)  == ControlAt(v, depths[i])
         label(i) == LabelTypes(v.controls[at(i)])
     IN Commit(ins,
          IF \E i \in DOMAIN depths : at(i) = 0
          THEN Fail(v, "BranchDepthOutOfBounds")
          ELSE IF \E i \in DOMAIN depths : label(i) # label(1)
          THEN Fail(v, "BranchTableTypeMismatch")
          ELSE mark_unreachable(
                 require_label_values(pop_expect(v, "i32"), Last(depths))))

ValidateReturn(ins) ==
  /\ Reads(ins, {\h0F})
  /\ Commit(ins, mark_unreachable(require_label_values(v, Len(v.controls) - 1)))

\* 0x10 call, 0x12 return_call.
ValidateCall(ins) ==
  /\ Reads(ins, {\h10, \h12})
  /\ Commit(ins,
       IF ins[2].v \notin DOMAIN Functions THEN Fail(v, "CallTargetOutOfBounds")
       ELSE LET ty == Types[Functions[ins[2].v]]
            IN IF ins[1].v = \h10 THEN apply_call_signature(v, ty)
               ELSE apply_tail_call_signature(v, ty))

\* 0x11 call_indirect, 0x13 return_call_indirect.
ValidateCallIndirect(ins) ==
  /\ Reads(ins, {\h11, \h13})
  /\ Commit(ins,
       IF ~InSpace("table", ins[3].v) THEN Fail(v, "TableIndexOutOfBounds")
       ELSE IF ins[2].v \notin DOMAIN Types THEN Fail(v, "IndirectTypeIndexOutOfBounds")
       ELSE LET ty == Types[ins[2].v]
                m  == pop_expect(v, "i32")
            IN IF ins[1].v = \h11 THEN apply_call_signature(m, ty)
               ELSE apply_tail_call_signature(m, ty))

ValidateDrop(ins) ==
  /\ Reads(ins, {\h1A})
  /\ Commit(ins, pop_any(v))

ValidateSelect(ins) ==
  /\ Reads(ins, {\h1B})
  /\ LET a == pop_expect(v, "i32")
         b == pop_any(a)
         c == pop_any(b)
         second == AnyType(a)
         first  == AnyType(b)
     IN Commit(ins,
          IF c.err # OK THEN c
          ELSE IF "none" \notin {first, second} /\ first # second THEN Fail(c, "TypeMismatch")
          ELSE IF first # "none" THEN Push(c, <<first>>)
          ELSE IF second # "none" THEN Push(c, <<second>>) ELSE c)

ValidateTypedSelect(ins) ==
  /\ Reads(ins, {\h1C})
  /\ Commit(ins, Push(PopAll(v, <<"i32", ins[2].v, ins[2].v>>), <<ins[2].v>>))

\* 0x20 local.get, 0x21 local.set, 0x22 local.tee.
ValidateLocal(ins) ==
  /\ Reads(ins, {\h20, \h21, \h22})
  /\ Commit(ins,
       IF ins[2].v \notin DOMAIN Locals THEN Fail(v, "LocalIndexOutOfBounds")
       ELSE LET t == Locals[ins[2].v]
            IN CASE ins[1].v = \h20 -> Push(v, <<t>>)
                 [] ins[1].v = \h21 -> pop_expect(v, t)
                 [] ins[1].v = \h22 -> peek_expect(v, t))

\* 0x23 global.get, 0x24 global.set.
ValidateGlobal(ins) ==
  /\ Reads(ins, {\h23, \h24})
  /\ Commit(ins,
       IF ins[2].v \notin DOMAIN Globals THEN Fail(v, "GlobalIndexOutOfBounds")
       ELSE LET g == Globals[ins[2].v]
            IN IF ins[1].v = \h23 THEN Push(v, <<g.type>>)
               ELSE IF ~g.mutable THEN Fail(v, "ImmutableGlobalSet")
               ELSE pop_expect(v, g.type))

\* Every opcode of the validator's table.
ValidatePlain(ins) ==
  /\ Reads(ins, ValidatorOps)
  /\ LET e == ValidatorTable[ins[1].v]
     IN Commit(ins,
          IF ~IndicesInBounds(ins, 1, e.imm) THEN Fail(v, "IndexOutOfBounds")
          ELSE Push(PopAll(v, ValidatorOperands(ins, 1, e.imm, e.pops)),
                    ValidatorOperands(ins, 1, e.imm, e.pushes)))

\* An opcode without an arm (UnsupportedOpcode), or immediates that cannot be read.
ValidateMalformed(ins) == Commit(ins, Fail(v, "MalformedImmediate"))

ValidateInstruction(ins) ==
  \/ ValidateUnreachable(ins)
  \/ ValidateNop(ins)
  \/ ValidateOpener(ins)
  \/ ValidateIf(ins)
  \/ ValidateElse(ins)
  \/ ValidateEnd(ins)
  \/ ValidateBr(ins)
  \/ ValidateBrIf(ins)
  \/ ValidateBrTable(ins)
  \/ ValidateReturn(ins)
  \/ ValidateCall(ins)
  \/ ValidateCallIndirect(ins)
  \/ ValidateDrop(ins)
  \/ ValidateSelect(ins)
  \/ ValidateTypedSelect(ins)
  \/ ValidateLocal(ins)
  \/ ValidateGlobal(ins)
  \/ ValidatePlain(ins)

ValidateStep ==
  /\ phase = "validate"
  /\ \E ins \in Offer(input, code) :
       \/ WellFormed(ins) /\ ValidateInstruction(ins)
       \/ ~WellFormed(ins) /\ ValidateMalformed(ins)

-----------------------------------------------------------------------------
(* build_control_map, one iteration per instruction.                       *)

Scanning == phase = "scan" /\ sc.err = OK /\ sc.pc <= Len(code)
ScanTo(s) == sc' = s /\ UNCHANGED <<phase, input, code, v, x, seen, paired>>
ScanFails(e) == ScanTo([sc EXCEPT !.err = e])

ScanOpener ==
  LET p == sc.pc IN
    /\ Scanning
    /\ code[p].k = "op" /\ Opcode(code, p) \in {\h02, \h03, \h04}
    /\ IF Decodes(code, p, <<"blocktype">>)
       THEN ScanTo([sc EXCEPT !.pc = p + 2,
                    !.pending = Append(@,
                      [opener |-> p, body_pc |-> p + 2, else_pc |-> 0,
                       signature |-> Signature(code, p),
                       kind |-> CASE Opcode(code, p) = \h02 -> "block"
                                  [] Opcode(code, p) = \h03 -> "loop"
                                  [] OTHER                  -> "if"])])
       ELSE ScanFails("Desync")

ScanElse ==
  LET p == sc.pc IN
    /\ Scanning
    /\ code[p] = Op(\h05)
    /\ IF sc.pending = <<>> THEN ScanFails("ControlInvariant")
       ELSE IF Last(sc.pending).kind # "if" \/ Last(sc.pending).else_pc # 0
       THEN ScanFails("ControlInvariant")
       ELSE ScanTo([sc EXCEPT !.pc = p + 1, !.pending[Len(sc.pending)].else_pc = p])

ScanEnd ==
  LET p == sc.pc IN
    /\ Scanning
    /\ code[p] = Op(\h0B)
    /\ IF sc.pending # <<>>
       THEN LET f == Last(sc.pending)
            IN ScanTo([sc EXCEPT !.pc = p + 1, !.pending = Front(@),
                       !.openers = Insert(@, f.opener,
                          [kind |-> f.kind, body_pc |-> f.body_pc, else_pc |-> f.else_pc,
                           end_pc |-> p, signature |-> f.signature])])
       ELSE IF p # Len(code) THEN ScanFails("ControlInvariant")
       ELSE ScanTo([sc EXCEPT !.pc = p + 1])

\* Any other opcode: skip its immediates. Standing on something that is not an
\* opcode, or finding other immediates than expected, is the loss of the
\* instruction boundaries the scanner exists to find.
ScanOther ==
  LET p == sc.pc IN
    /\ Scanning
    /\ ~(code[p].k = "op" /\ Opcode(code, p) \in {\h02, \h03, \h04, \h05, \h0B})
    /\ IF code[p].k # "op" THEN ScanFails("Desync")
       ELSE IF Opcode(code, p) \notin ScannerOps THEN ScanFails("UnsupportedOpcode")
       ELSE LET imm == ScannerTable[Opcode(code, p)].imm
            IN IF Decodes(code, p, imm)
               THEN ScanTo([sc EXCEPT !.pc = p + 1 + Width(code, p, imm)])
               ELSE ScanFails("Desync")

\* The map is complete and the instance can be made; prepare_guest_frame then
\* enters the body with the function's own control frame.
ScanDone ==
  /\ phase = "scan" /\ sc.err = OK /\ sc.pc > Len(code)
  /\ IF sc.pending # <<>> THEN ScanFails("ControlInvariant")
     ELSE /\ phase' = "run"
          /\ x' = [x EXCEPT !.controls =
                     <<[kind |-> "function", body_pc |-> 1, end_pc |-> Len(code),
                        height |-> 0, params |-> <<>>, results |-> Results]>>]
          /\ UNCHANGED <<input, code, v, sc, seen, paired>>

-----------------------------------------------------------------------------
(* The interpreter: operations on the frame f = [pc, stack, controls,
   outcome]; an error ends the frame with that outcome.                    *)

Stuck(f, e) == [f EXCEPT !.outcome = e]

pop_typed(f, t) ==
  IF f.outcome # OK THEN f
  ELSE IF f.stack = <<>> THEN Stuck(f, "StackUnderflow")
  ELSE IF Last(f.stack) # t THEN Stuck(f, "ValueTypeMismatch")
  ELSE [f EXCEPT !.stack = Front(@)]

\* pop_typed for each of ts in turn.
PopTypedAll(f, ts) ==
  IF f.outcome # OK THEN f
  ELSE IF Mismatch(f.stack, ts, Len(ts)) THEN Stuck(f, "ValueTypeMismatch")
  ELSE IF Len(ts) > Len(f.stack) THEN Stuck(f, "StackUnderflow")
  ELSE [f EXCEPT !.stack = Drop(@, Len(ts))]

PushValues(f, ts) == IF f.outcome # OK THEN f ELSE [f EXCEPT !.stack = @ \o ts]
Goto(f, p) == IF f.outcome # OK THEN f ELSE [f EXCEPT !.pc = p]

\* control_entry_height and the push of the frame of the opener at p.
EnterFrame(f, p, kind) ==
  IF f.outcome # OK THEN f
  ELSE IF p \notin DOMAIN sc.openers THEN Stuck(f, "ControlInvariant")
  ELSE LET info == sc.openers[p]
           sig  == Signature(code, p)
       IN IF info.kind # kind \/ info.signature # sig THEN Stuck(f, "ControlInvariant")
          ELSE IF Len(f.stack) < Len(sig.params) THEN Stuck(f, "StackUnderflow")
          ELSE IF LastN(f.stack, Len(sig.params)) # sig.params
          THEN Stuck(f, "ValueTypeMismatch")
          ELSE [f EXCEPT !.pc = info.body_pc,
                         !.controls = Append(@,
                            [kind |-> kind, body_pc |-> info.body_pc, end_pc |-> info.end_pc,
                             height |-> Len(f.stack) - Len(sig.params),
                             params |-> sig.params, results |-> sig.results])]

exit_control_frame(f) ==
  LET frame == Last(f.controls)
  IN IF Len(f.stack) # frame.height + Len(frame.results)
     THEN Stuck(f, "ControlStackMismatch")
     ELSE IF SubSeq(f.stack, frame.height + 1, Len(f.stack)) # frame.results
     THEN Stuck(f, "ValueTypeMismatch")
     ELSE [f EXCEPT !.controls = Front(@)]

RuntimeLabel(frame) == IF frame.kind = "loop" THEN frame.params ELSE frame.results

\* Mutant: only the operands of the innermost frame are dropped, not those of the
\* frames a branch leaves on its way out.
branch_to_InnerHeight(f, depth) ==
  IF f.outcome # OK THEN f
  ELSE IF depth >= Len(f.controls) THEN Stuck(f, "BranchDepthOutOfBounds")
  ELSE LET at     == Len(f.controls) - depth
           target == f.controls[at]
           label  == RuntimeLabel(target)
           values == LastN(f.stack, Len(label))
           landed == Truncate(f.stack, Last(f.controls).height) \o values
       IN CASE target.kind = "loop" ->
                 [f EXCEPT !.stack = landed, !.pc = target.body_pc, !.controls = SubSeq(@, 1, at)]
            [] target.kind \in {"block", "if"} ->
                 [f EXCEPT !.stack = landed, !.pc = target.end_pc + 1,
                           !.controls = SubSeq(@, 1, at - 1)]
            [] target.kind = "function" ->
                 [f EXCEPT !.stack = landed, !.pc = Len(code) + 1, !.controls = <<>>]

branch_to(f, depth) ==
  IF f.outcome # OK THEN f
  ELSE IF depth >= Len(f.controls) THEN Stuck(f, "BranchDepthOutOfBounds")
  ELSE LET at     == Len(f.controls) - depth
           target == f.controls[at]
           label  == RuntimeLabel(target)
           above  == Len(f.stack) - Last(f.controls).height
           values == LastN(f.stack, Len(label))
           landed == Truncate(f.stack, target.height) \o values
       IN IF (IF above < 0 THEN 0 ELSE above) < Len(label) THEN Stuck(f, "StackUnderflow")
          ELSE IF values # label THEN Stuck(f, "ValueTypeMismatch")
          ELSE CASE target.kind = "loop" ->
                      [f EXCEPT !.stack = landed, !.controls = SubSeq(@, 1, at),
                                !.pc = target.body_pc]
                 [] target.kind \in {"block", "if"} ->
                      [f EXCEPT !.stack = landed, !.controls = SubSeq(@, 1, at - 1),
                                !.pc = target.end_pc + 1]
                 [] target.kind = "function" ->
                      [f EXCEPT !.stack = landed, !.controls = <<>>, !.pc = Len(code) + 1]

\* Arguments leave the stack; the callee checks their types on entry.
TakeArguments(f, params) ==
  IF f.outcome # OK THEN f
  ELSE IF Len(f.stack) < Len(params) THEN Stuck(f, "StackUnderflow")
  ELSE IF LastN(f.stack, Len(params)) # params THEN Stuck(f, "ValueTypeMismatch")
  ELSE [f EXCEPT !.stack = Truncate(@, Len(f.stack) - Len(params))]

-----------------------------------------------------------------------------
(* One iteration of execute_guest_frame per instruction. budget.consume_instruction
   comes first, so the frame may run out of fuel at any of them.           *)

Running(ops) ==
  /\ phase = "run" /\ x.pc <= Len(code)
  /\ code[x.pc].k = "op" /\ Opcode(code, x.pc) \in ops

\* The frame after reading the opcode at p and the immediates imm.
Fetch(p, imm) ==
  IF Decodes(code, p, imm) THEN Goto(x, p + 1 + Width(code, p, imm)) ELSE Stuck(x, "Desync")
FetchControl(p) == Fetch(p, ControlImm(Opcode(code, p)))

\* An outcome other than OK ends the frame and drops its stacks.
Continue(f) ==
  /\ x' = IF f.outcome = OK THEN f
          ELSE [pc |-> 0, stack |-> <<>>, controls |-> <<>>, outcome |-> f.outcome]
  /\ phase' = IF f.outcome = OK THEN "run" ELSE "done"
  /\ UNCHANGED <<input, code, v, sc, seen, paired>>

\* A trap, where nothing failed before it.
Trap(f) == IF f.outcome # OK THEN f ELSE Stuck(f, "trap")

OutOfFuel ==
  /\ phase = "run" /\ x.pc <= Len(code)
  /\ Continue(Stuck(x, "OutOfFuel"))

RunUnreachable ==
  /\ Running({\h00})
  /\ Continue(Trap(x))

RunNop ==
  LET p == x.pc IN
    /\ Running({\h01})
    /\ Continue(FetchControl(p))

RunOpener ==
  LET p == x.pc IN
    /\ Running({\h02, \h03})
    /\ Continue(EnterFrame(FetchControl(p), p,
                           IF Opcode(code, p) = \h02 THEN "block" ELSE "loop"))

\* A false condition goes to the else arm, or past the end and without the
\* parameters where there is none.
RunIf ==
  LET p == x.pc IN \E condition \in BOOLEAN :
    /\ Running({\h04})
    /\ LET f == EnterFrame(pop_typed(FetchControl(p), "i32"), p, "if")
       IN Continue(
            IF f.outcome # OK \/ condition THEN f
            ELSE IF sc.openers[p].else_pc # 0 THEN Goto(f, sc.openers[p].else_pc + 1)
            ELSE [f EXCEPT !.stack = Truncate(@, Last(f.controls).height),
                           !.controls = Front(@), !.pc = sc.openers[p].end_pc + 1])

\* Falling out of the then arm.
RunElse ==
  LET p == x.pc IN
    /\ Running({\h05})
    /\ Continue(IF x.controls = <<>> THEN Stuck(x, "ControlInvariant")
                ELSE IF Last(x.controls).kind # "if" THEN Stuck(x, "ControlInvariant")
                ELSE Goto(exit_control_frame(x), Last(x.controls).end_pc + 1))

\* The function's own end is the last opcode, so what follows it is the loop's exit.
RunEnd ==
  LET p == x.pc IN
    /\ Running({\h0B})
    /\ Continue(IF x.controls = <<>> THEN Stuck(x, "ControlInvariant")
                ELSE IF Last(x.controls).end_pc # p THEN Stuck(x, "ControlInvariant")
                ELSE Goto(exit_control_frame(x), p + 1))

\* 0x0c br, 0x0f return: a branch to the outermost frame.
RunBr ==
  LET p == x.pc IN
    /\ Running({\h0C, \h0F})
    /\ Continue(branch_to(FetchControl(p),
                          IF Opcode(code, p) = \h0C THEN Arg(code, p, 1)
                          ELSE Len(x.controls) - 1))

RunBrIf ==
  LET p == x.pc IN \E condition \in BOOLEAN :
    /\ Running({\h0D})
    /\ LET f == pop_typed(FetchControl(p), "i32")
       IN Continue(IF condition THEN branch_to(f, Arg(code, p, 1)) ELSE f)

\* The selector may pick any listed depth or the default, the last of them.
RunBrTable ==
  LET p == x.pc IN
    /\ Running({\h0E})
    /\ \E i \in 1..(Arg(code, p, 1) + 1) :
         Continue(branch_to(pop_typed(FetchControl(p), "i32"), Arg(code, p, i + 1)))

\* The callee of a direct call; an out-of-bounds index is an error of its own.
\* An indirect one is found through a table element, which may trap.
Callee(f, p) ==
  LET n == Arg(code, p, 1)
  IN IF Opcode(code, p) \in {\h10, \h12}
     THEN [f |-> IF n \in DOMAIN Functions THEN f ELSE Stuck(f, "IndexOutOfBounds"),
           type |-> IF n \in DOMAIN Functions THEN Types[Functions[n]] ELSE Types[1]]
     ELSE [f |-> IF n \in DOMAIN Types /\ InSpace("table", Arg(code, p, 2))
                 THEN pop_typed(f, "i32") ELSE Stuck(f, "IndexOutOfBounds"),
           type |-> IF n \in DOMAIN Types THEN Types[n] ELSE Types[1]]

\* 0x10 call, 0x11 call_indirect: the frame is parked, and resumes with the
\* callee's results unless the callee (or its lookup) traps.
RunCall ==
  LET p == x.pc IN \E returns \in BOOLEAN :
    /\ Running({\h10, \h11})
    /\ LET callee == Callee(FetchControl(p), p)
           called == TakeArguments(callee.f, callee.type.params)
       IN Continue(IF returns THEN PushValues(called, callee.type.results)
                   ELSE Trap(called))

\* 0x12 return_call, 0x13 return_call_indirect: the frame is replaced.
RunReturnCall ==
  LET p == x.pc IN \E found \in BOOLEAN :
    /\ Running({\h12, \h13})
    /\ LET callee == Callee(FetchControl(p), p)
           called == TakeArguments(callee.f, callee.type.params)
       IN Continue(IF callee.f.outcome = OK /\ callee.type.results # Results
                   THEN Stuck(callee.f, "ControlInvariant")
                   ELSE IF called.outcome # OK THEN called
                   ELSE IF found \/ Opcode(code, p) = \h12
                   THEN Stuck(called, "tailcall") ELSE Trap(called))

RunDrop ==
  LET p == x.pc IN
    /\ Running({\h1A})
    /\ LET f == FetchControl(p)
       IN Continue(IF f.stack = <<>> THEN Stuck(f, "StackUnderflow")
                   ELSE [f EXCEPT !.stack = Front(@)])

RunSelect ==
  LET p == x.pc IN
    /\ Running({\h1B})
    /\ LET f == pop_typed(FetchControl(p), "i32")
           n == Len(f.stack)
       IN Continue(IF f.outcome # OK THEN f
                   ELSE IF n < 2 THEN Stuck(f, "StackUnderflow")
                   ELSE IF f.stack[n] # f.stack[n - 1] THEN Stuck(f, "ValueTypeMismatch")
                   ELSE [f EXCEPT !.stack = Front(@)])

RunTypedSelect ==
  LET p == x.pc IN
    /\ Running({\h1C})
    /\ LET t == Arg(code, p, 1)
       IN Continue(PushValues(PopTypedAll(FetchControl(p), <<"i32", t, t>>), <<t>>))

\* 0x20 local.get, 0x21 local.set, 0x22 local.tee. A local keeps its declared type.
RunLocal ==
  LET p == x.pc IN
    /\ Running(\h20..\h22)
    /\ LET f == FetchControl(p)
           t == Locals[Arg(code, p, 1)]
       IN Continue(CASE Arg(code, p, 1) \notin DOMAIN Locals -> Stuck(f, "IndexOutOfBounds")
                     [] Opcode(code, p) = \h20 -> PushValues(f, <<t>>)
                     [] Opcode(code, p) = \h21 -> pop_typed(f, t)
                     [] Opcode(code, p) = \h22 -> PushValues(pop_typed(f, t), <<t>>))

\* 0x23 global.get, 0x24 global.set.
RunGlobal ==
  LET p == x.pc IN
    /\ Running({\h23, \h24})
    /\ LET f == FetchControl(p)
           g == Globals[Arg(code, p, 1)]
       IN Continue(CASE Arg(code, p, 1) \notin DOMAIN Globals -> Stuck(f, "IndexOutOfBounds")
                     [] Opcode(code, p) = \h23 -> PushValues(f, <<g.type>>)
                     [] OTHER -> IF g.mutable THEN pop_typed(f, g.type)
                                 ELSE Stuck(f, "ImmutableGlobalSet"))

\* Every opcode of the interpreter's table. Operands are popped and checked before
\* the instruction can trap.
RunPlain ==
  LET p == x.pc IN \E completes \in BOOLEAN :
    /\ phase = "run" /\ p <= Len(code)
    /\ code[p].k = "op" => Opcode(code, p) \notin ControlOps
    /\ IF code[p].k # "op" THEN Continue(Stuck(x, "Desync"))
       ELSE IF Opcode(code, p) \notin RuntimeOps
       THEN Continue(Stuck(x, "UnsupportedOpcode"))
       ELSE LET e == RuntimeTable[Opcode(code, p)]
                f == Fetch(p, e.imm)
                popped == IF f.outcome # OK THEN f
                          ELSE IF ~IndicesInBounds(code, p, e.imm)
                          THEN Stuck(f, "IndexOutOfBounds")
                          ELSE PopTypedAll(f, RuntimeOperands(code, p, e.imm, e.pops))
            IN Continue(IF completes \/ ~e.traps
                        THEN PushValues(popped, RuntimeOperands(code, p, e.imm, e.pushes))
                        ELSE Trap(popped))

\* The checks after the loop: the operands left are the function's results.
RunReturn ==
  /\ phase = "run" /\ x.pc > Len(code)
  /\ Continue(Stuck(x, CASE Len(x.stack) # Len(Results) -> "ResultArityMismatch"
                         [] x.stack # Results           -> "ValueTypeMismatch"
                         [] OTHER                       -> "return"))

RunStep ==
  \/ OutOfFuel \/ RunUnreachable \/ RunNop \/ RunOpener \/ RunIf \/ RunElse \/ RunEnd
  \/ RunBr \/ RunBrIf \/ RunBrTable \/ RunCall \/ RunReturnCall \/ RunDrop
  \/ RunSelect \/ RunTypedSelect \/ RunLocal \/ RunGlobal \/ RunPlain \/ RunReturn

ScanStep == ScanOpener \/ ScanElse \/ ScanEnd \/ ScanOther \/ ScanDone

Next == ValidateStep \/ ScanStep \/ RunStep

Spec == Init /\ [][Next]_vars

-----------------------------------------------------------------------------
(* Properties.                                                             *)

\* Errors that say the interpreter lost its place in the code or met something
\* the validator should have refused, and errors of its operand checks.
LostErrors == {"ControlInvariant", "BranchDepthOutOfBounds", "Desync",
               "UnsupportedOpcode", "IndexOutOfBounds", "ImmutableGlobalSet"}
OperandErrors == {"StackUnderflow", "ValueTypeMismatch", "ControlStackMismatch",
                  "ResultArityMismatch"}

\* The three readers' states have the shapes the code gives them (ControlFrame,
\* PendingControl, GuestFrame), and a finished frame has one of the outcomes of
\* execute_guest_frame.
TypeOK ==
  /\ phase \in {"validate", "scan", "run", "done", "rejected"}
  /\ \A p \in DOMAIN code : code[p].k = "op" => code[p].v \in Nat
  /\ v.stack \in Seq(ValueTypes) /\ v.dipped \in BOOLEAN
  /\ \A i \in DOMAIN v.controls :
       /\ v.controls[i].kind \in {"function", "block", "loop", "if"}
       /\ v.controls[i].height \in Nat
       /\ v.controls[i].kind = "function" <=> i = 1
  /\ phase = "validate" <=> v.controls # <<>> /\ v.err = OK
  /\ sc.pc \in 1..(Len(code) + 1)
  /\ DOMAIN sc.openers \subseteq DOMAIN code
  /\ x.stack \in Seq(ValueTypes)
  /\ x.pc \in 0..(Len(code) + 1)
  /\ x.outcome \in {OK, "return", "tailcall", "trap", "OutOfFuel"} \cup LostErrors \cup OperandErrors
  /\ phase = "done" <=> x.outcome # OK

\* The scanner (control.rs build_control_map) knows nothing of types and skips
\* immediates with a table of its own, yet it never fails on a body the validator
\* accepted and pairs every opener with exactly the else and the end the
\* validator's control stack gave it, dead code included.
BoundariesAgree ==
  /\ sc.err = OK
  /\ phase \in {"run", "done"} =>
       /\ DOMAIN sc.openers = DOMAIN paired
       /\ \A p \in DOMAIN paired : /\ sc.openers[p].else_pc = paired[p].else_pc
                                  /\ sc.openers[p].end_pc = paired[p].end_pc

\* What the validator knew at an instruction is what the interpreter finds there,
\* by whatever path it came: the same operand types, under the same frames, with
\* the same heights and label types. In particular no instruction the validator
\* held to be unreachable is ever executed. (For bodies that stay within their
\* frames; see ValidatedNeverStuck for the others.)
StackAgrees ==
  phase = "run" /\ ~v.dipped =>
    IF x.pc > Len(code) THEN x.stack = Results
    ELSE LET known == seen[x.pc]
         IN /\ x.pc \in DOMAIN seen
            /\ x.stack = known.stack
            /\ Len(x.controls) = Len(known.controls)
            /\ \A i \in DOMAIN x.controls :
                 /\ ~known.controls[i].unreachable
                 /\ x.controls[i].kind = known.controls[i].kind
                 /\ x.controls[i].height = known.controls[i].height
                 /\ RuntimeLabel(x.controls[i]) = LabelTypes(known.controls[i])

\* Soundness. A body the validator accepted never makes the interpreter lose its
\* place: every opcode it meets is one it implements, with the immediates it
\* expects and indices within bounds, every branch has its target and every else
\* and end meets the frame it belongs to. And if no block of it popped an operand
\* from below its frame, none of the interpreter's stack checks fails either, on
\* any path: the body returns, tail calls or traps.
SoundWithinFrame ==
  /\ x.outcome \notin LostErrors
  /\ ~v.dipped => x.outcome \notin OperandErrors

\* What docs/phase5b-numeric-model.md says of every validated body: the runtime's
\* operand checks are defence in depth, because validation has already proven the
\* static types. Violated: pop_expect and pop_any look below the current frame.
ValidatedNeverStuck == x.outcome \notin OperandErrors
=============================================================================
