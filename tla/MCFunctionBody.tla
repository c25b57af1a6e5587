---------------------------- MODULE MCFunctionBody ----------------------------
(* Two sources of bodies. A "free" input lets any instruction of a small alphabet
   come next, up to a number of instructions. An opcode input puts one opcode of
   the validator's table inside a block, with the operands it pops before it and
   a drop for each it pushes, for every choice of the indices it names.        *)
EXTENDS FunctionBody, FiniteSets

CONSTANTS Alphabets,  \* the alphabets free bodies are drawn from
          Sweep       \* whether every opcode is tried

MCTypes == <<[params |-> <<>>, results |-> <<>>],
             [params |-> <<"i32">>, results |-> <<"i32">>],
             [params |-> <<>>, results |-> <<"i32">>],
             [params |-> <<"i64", "i32">>, results |-> <<"i32">>],
             [params |-> <<"i32">>, results |-> <<>>]>>
MCResults == <<"i32">>
MCLocals == <<"i32", "i64">>
MCFunctions == <<1, 2>>
MCGlobals == <<[type |-> "i32", mutable |-> TRUE], [type |-> "i64", mutable |-> FALSE]>>
MCMemory64 == <<FALSE, TRUE>>
MCSpaceSize == [k \in {"table", "data", "elem", "func"} |-> 1]

Opener(op, t) == <<Op(op), Imm("blocktype", t)>>
With(op, n) == <<Op(op), Imm("u32", n)>>
Bare(op) == <<Op(op)>>
I32 == <<Op(\h41), Imm("leb32", 0)>>
I64 == <<Op(\h42), Imm("leb64", 0)>>
Table(ds) == <<Op(\h0E), Imm("u32", Len(ds) - 1)>>
             \o [i \in DOMAIN ds |-> Imm("u32", ds[i])]

\* Bounds: the instructions of a free body, and how many of them it may have.
Alphabet ==
  [arms     |-> {Opener(\h04, 3), Opener(\h04, 5), Bare(\h05), Bare(\h0B), Bare(\h1A),
                 With(\h0C, 0), With(\h0C, 1), I32},
   loops    |-> {Opener(\h03, 2), Opener(\h02, 3), Bare(\h0B), Bare(\h1A), Bare(\h00),
                 With(\h0C, 1), With(\h0D, 0), I32},
   branches |-> {Opener(\h02, 2), Opener(\h03, 1), Bare(\h0B), With(\h0D, 1), Bare(\h0F),
                 Table(<<0, 1>>), Table(<<1>>), Table(<<0, 2>>), I32, I64},
   calls    |-> {Opener(\h03, 1), Opener(\h02, 9), Bare(\h0B), With(\h10, 1), With(\h10, 2),
                 With(\h10, 9), With(\h12, 1), With(\h12, 2),
                 <<Op(\h11), Imm("u32", 4), Imm("table", 1)>>,
                 <<Op(\h13), Imm("u32", 2), Imm("table", 1)>>,
                 <<Op(\h13), Imm("u32", 2), Imm("table", 2)>>, I32, I64},
   dips     |-> {Opener(\h03, 1), Bare(\h0B), Bare(\h1A), With(\h0C, 0), I32},
   values   |-> {Bare(\h01), Opener(\h02, 3), Bare(\h0B), Bare(\h1A), Bare(\h1B), Bare(\h00),
                 <<Op(\h1C), Imm("seltype", "i32")>>, With(\h20, 1), With(\h21, 2),
                 With(\h22, 1), With(\h22, 2), With(\h20, 3), With(\h23, 1),
                 With(\h24, 1), With(\h24, 2), I64, Bare(\h6A), Bare(\h06), Bare(\h41)}]
FreeLength == [arms |-> 8, dips |-> 7, loops |-> 7, branches |-> 7, calls |-> 6, values |-> 5]

\* The constant that pushes a value of type t.
Constant(t) ==
  CASE t = "i32" -> I32 [] t = "i64" -> I64
    [] t = "f32" -> <<Op(\h43), Imm("fixed4", 0)>>
    [] t = "f64" -> <<Op(\h44), Imm("fixed8", 0)>>
    [] t = "v128" -> <<Op(Fd(12)), Imm("fixed16", 0)>>
    [] t = "funcref" -> <<Op(\hD0), Imm("reftype", 0)>>

\* Every choice of the memories an opcode names: the first is indexed by i32, the
\* second by i64.
Immediates(imm) ==
  {ns \in [1..Len(imm) -> 1..2] : \A i \in 1..Len(imm) : imm[i] \in {"memarg", "mem"} \/ ns[i] = 1}

Swept == IF Sweep
         THEN UNION {{[op |-> op, indices |-> ns] : ns \in Immediates(ValidatorTable[op].imm)} :
                     op \in DOMAIN ValidatorTable}
         ELSE {}

\* The body of an opcode input, as a sequence of instructions.
Body(i) ==
  LET e    == ValidatorTable[i.op]
      ins  == <<Op(i.op)>> \o [k \in DOMAIN e.imm |-> Imm(e.imm[k], i.indices[k])]
      pops == ValidatorOperands(ins, 1, e.imm, e.pops)
  IN <<Opener(\h02, 1)>> \o [k \in DOMAIN pops |-> Constant(pops[Len(pops) - k + 1])]
     \o <<ins>> \o [k \in DOMAIN e.pushes |-> Bare(\h1A)] \o <<Bare(\h0B), I32, Bare(\h0B)>>

Instructions(c) == Len(SelectSeq(c, LAMBDA t : t.k = "op"))
Count(c, ops) == Len(SelectSeq(c, LAMBDA t : t.k = "op" /\ t.v \in ops))

MCInputs == [alphabet : Alphabets] \cup [body : {Body(i) : i \in Swept}]

MCOffer(i, c) ==
  IF "body" \in DOMAIN i
  THEN {i.body[Instructions(c) + 1]}
  ELSE LET open == 1 + Count(c, {\h02, \h03, \h04}) - Count(c, {\h0B})
       IN IF FreeLength[i.alphabet] - Instructions(c) <= open THEN {Bare(\h0B)} ELSE Alphabet[i.alphabet]
=============================================================================
