---------------------------- MODULE OpcodesProofs ----------------------------
(***************************************************************************)
(* The three tables of Opcodes agree.  Every row of the validator's and of *)
(* the interpreter's table is compared with one reference, the operators   *)
(* Imms, Pops and Pushes on opcode numbers, and every row of the scanner's *)
(* with Skip; the lemmas at the end are what the other proofs cite.        *)
(***************************************************************************)
EXTENDS Opcodes, Integers, TLAPS

-----------------------------------------------------------------------------
(* The reference.                                                          *)

\* The opcodes with a row, by prefix: none, 0xfc, 0xfd.
PlainSubs == \h28..\hC4 \cup \hD0..\hD2 \cup {\h25, \h26}
BulkSubs == 0..17
SimdSubs ==
  0..64 \cup 77..153 \cup 155..161 \cup 167..174 \cup 181..186 \cup 188..193 \cup 199..206
  \cup 213..225 \cup 227..237 \cup 239..275 \cup {163, 164, 177, 195, 196, 209}

\* Immediates, operands popped and operands pushed, by prefix.
PlainImm(op) ==
  IF op \in {\h25, \h26} THEN <<"table">>
  ELSE IF op \in \h28..\h3E THEN <<"memarg">>
  ELSE IF op \in {\h3F, \h40} THEN <<"mem">>
  ELSE IF op = \h41 THEN <<"leb32">>
  ELSE IF op = \h42 THEN <<"leb64">>
  ELSE IF op = \h43 THEN <<"fixed4">>
  ELSE IF op = \h44 THEN <<"fixed8">>
  ELSE IF op = \hD0 THEN <<"reftype">>
  ELSE IF op = \hD2 THEN <<"func">>
  ELSE <<>>

BulkImm(s) ==
  IF s = 8 THEN <<"data", "mem">>
  ELSE IF s = 9 THEN <<"data">>
  ELSE IF s = 10 THEN <<"mem", "mem">>
  ELSE IF s = 11 THEN <<"mem">>
  ELSE IF s = 12 THEN <<"elem", "table">>
  ELSE IF s = 13 THEN <<"elem">>
  ELSE IF s = 14 THEN <<"table", "table">>
  ELSE IF s \in 15..17 THEN <<"table">>
  ELSE <<>>

SimdImm(s) ==
  IF s \in 0..11 \cup {92, 93} THEN <<"memarg">>
  ELSE IF s = 12 THEN <<"fixed16">>
  ELSE IF s = 13 THEN <<"lanes32">>
  ELSE IF s \in 21..23 THEN <<"lane16">>
  ELSE IF s \in 24..26 THEN <<"lane8">>
  ELSE IF s \in {27, 28, 31, 32} THEN <<"lane4">>
  ELSE IF s \in {29, 30, 33, 34} THEN <<"lane2">>
  ELSE IF s \in {84, 88} THEN <<"memarg", "lane16">>
  ELSE IF s \in {85, 89} THEN <<"memarg", "lane8">>
  ELSE IF s \in {86, 90} THEN <<"memarg", "lane4">>
  ELSE IF s \in {87, 91} THEN <<"memarg", "lane2">>
  ELSE <<>>

PlainPops(op) ==
  IF op \in \h67..\h69 \cup {\h25, \h45, \hAC, \hAD, \hB2, \hB3, \hB7, \hB8, \hBE, \hC0,
          \hC1} THEN <<"i32">>
  ELSE IF op = \h26 THEN <<"funcref", "i32">>
  ELSE IF op \in \h28..\h35 \cup {\h40} THEN <<"addr">>
  ELSE IF op \in {\h36, \h3A, \h3B} THEN <<"i32", "addr">>
  ELSE IF op \in \h3C..\h3E \cup {\h37} THEN <<"i64", "addr">>
  ELSE IF op = \h38 THEN <<"f32", "addr">>
  ELSE IF op = \h39 THEN <<"f64", "addr">>
  ELSE IF op \in \h41..\h44 \cup {\h3F, \hD0, \hD2} THEN <<>>
  ELSE IF op \in \h79..\h7B \cup \hC2..\hC4 \cup {\h50, \hA7, \hB4, \hB5, \hB9, \hBA, \hBF}
          THEN <<"i64">>
  ELSE IF op \in \h51..\h5A \cup \h7C..\h8A THEN <<"i64", "i64">>
  ELSE IF op \in \h5B..\h60 \cup \h92..\h98 THEN <<"f32", "f32">>
  ELSE IF op \in \h61..\h66 \cup \hA0..\hA6 THEN <<"f64", "f64">>
  ELSE IF op \in \h8B..\h91 \cup {\hA8, \hA9, \hAE, \hAF, \hBB, \hBC} THEN <<"f32">>
  ELSE IF op \in \h99..\h9F \cup {\hAA, \hAB, \hB0, \hB1, \hB6, \hBD} THEN <<"f64">>
  ELSE IF op = \hD1 THEN <<"funcref">>
  ELSE <<"i32", "i32">>

BulkPops(s) ==
  IF s \in {2, 3, 6, 7} THEN <<"f64">>
  ELSE IF s = 8 THEN <<"i32", "i32", "addr">>
  ELSE IF s \in {9, 13, 16} THEN <<>>
  ELSE IF s = 10 THEN <<"len", "src", "dst">>
  ELSE IF s = 11 THEN <<"addr", "i32", "addr">>
  ELSE IF s \in {12, 14} THEN <<"i32", "i32", "i32">>
  ELSE IF s = 15 THEN <<"i32", "funcref">>
  ELSE IF s = 17 THEN <<"i32", "funcref", "i32">>
  ELSE <<"f32">>

SimdPops(s) ==
  IF s \in 0..10 \cup {92, 93} THEN <<"addr">>
  ELSE IF s \in 84..91 \cup {11} THEN <<"v128", "addr">>
  ELSE IF s = 12 THEN <<>>
  ELSE IF s = 13 THEN Vectors(2)
  ELSE IF s \in 15..17 THEN <<"i32">>
  ELSE IF s = 18 THEN <<"i64">>
  ELSE IF s = 19 THEN <<"f32">>
  ELSE IF s = 20 THEN <<"f64">>
  ELSE IF s \in 94..100 \cup 103..106 \cup 124..129 \cup 135..138 \cup 167..170 \cup
          199..202 \cup 248..255 \cup 257..260 \cup {21, 22, 24, 25, 27, 29, 31, 33, 77, 83,
          116, 117, 122, 131, 132, 148, 160, 161, 163, 164, 192, 193, 195, 196, 224, 225,
          227, 236, 237, 239} THEN <<"v128">>
  ELSE IF s \in 107..109 \cup 139..141 \cup 171..173 \cup 203..205 \cup {23, 26, 28} THEN
          <<"i32", "v128">>
  ELSE IF s = 30 THEN <<"i64", "v128">>
  ELSE IF s = 32 THEN <<"f32", "v128">>
  ELSE IF s = 34 THEN <<"f64", "v128">>
  ELSE IF s \in 261..268 \cup {82, 275} THEN Vectors(3)
  ELSE <<"v128", "v128">>

PlainPushes(op) ==
  IF op \in {\h25, \hD0, \hD2} THEN <<"funcref">>
  ELSE IF op \in \h36..\h3E \cup {\h26} THEN <<>>
  ELSE IF op \in \h30..\h35 \cup \h79..\h8A \cup \hAC..\hB1 \cup \hC2..\hC4 \cup {\h29,
          \h42, \hBD} THEN <<"i64">>
  ELSE IF op \in \h8B..\h98 \cup \hB2..\hB6 \cup {\h2A, \h43, \hBE} THEN <<"f32">>
  ELSE IF op \in \h99..\hA6 \cup \hB7..\hBB \cup {\h2B, \h44, \hBF} THEN <<"f64">>
  ELSE IF op \in {\h3F, \h40} THEN <<"addr">>
  ELSE <<"i32">>

BulkPushes(s) ==
  IF s \in 0..3 \cup {15, 16} THEN <<"i32">>
  ELSE IF s \in 4..7 THEN <<"i64">>
  ELSE <<>>

SimdPushes(s) ==
  IF s \in 88..91 \cup {11} THEN <<>>
  ELSE IF s \in {21, 22, 24, 25, 27, 83, 99, 100, 131, 132, 163, 164, 195, 196} THEN
          <<"i32">>
  ELSE IF s = 29 THEN <<"i64">>
  ELSE IF s = 31 THEN <<"f32">>
  ELSE IF s = 33 THEN <<"f64">>
  ELSE <<"v128">>

Known(op) ==
  /\ op \in Nat
  /\ IF op < 1000 THEN op \in PlainSubs
     ELSE IF op < 2000 THEN op - 1000 \in BulkSubs ELSE op - 2000 \in SimdSubs
Imms(op) == IF op < 1000 THEN PlainImm(op)
            ELSE IF op < 2000 THEN BulkImm(op - 1000) ELSE SimdImm(op - 2000)
Pops(op) == IF op < 1000 THEN PlainPops(op)
            ELSE IF op < 2000 THEN BulkPops(op - 1000) ELSE SimdPops(op - 2000)
Pushes(op) == IF op < 1000 THEN PlainPushes(op)
              ELSE IF op < 2000 THEN BulkPushes(op - 1000) ELSE SimdPushes(op - 2000)

PlainRows(S, imm, pops, pushes) ==
  S \in SUBSET Nat
  /\ \A op \in S : /\ op \in PlainSubs /\ PlainImm(op) = imm
                   /\ PlainPops(op) = pops /\ PlainPushes(op) = pushes
BulkRange == 1000..1999
BulkRows(S, imm, pops, pushes) ==
  S \in SUBSET BulkRange
  /\ \A op \in S : /\ op - 1000 \in BulkSubs /\ BulkImm(op - 1000) = imm
                   /\ BulkPops(op - 1000) = pops /\ BulkPushes(op - 1000) = pushes
SimdRows(S, imm, pops, pushes) ==
  S \in SUBSET Nat
  /\ \A s \in S : /\ s \in SimdSubs /\ SimdImm(s) = imm
                  /\ SimdPops(s) = pops /\ SimdPushes(s) = pushes

Right(r) ==
  \A op \in r.ops : /\ Known(op)
                    /\ r.imm = Imms(op) /\ r.pops = Pops(op) /\ r.pushes = Pushes(op)

LEMMA PlainRight ==
  ASSUME NEW S, NEW imm, NEW pops, NEW pushes, PlainRows(S, imm, pops, pushes)
  PROVE  /\ Right(Effect(S, imm, pops, pushes))
         /\ Right(Trapping(Effect(S, imm, pops, pushes)))
  BY DEF PlainRows, Right, Effect, Trapping, Known, Imms, Pops, Pushes, PlainSubs
LEMMA BulkRight ==
  ASSUME NEW S, NEW imm, NEW pops, NEW pushes, BulkRows(S, imm, pops, pushes)
  PROVE  /\ Right(Effect(S, imm, pops, pushes))
         /\ Right(Trapping(Effect(S, imm, pops, pushes)))
  BY DEF BulkRows, BulkRange, Right, Effect, Trapping, Known, Imms, Pops, Pushes
LEMMA SimdRight ==
  ASSUME NEW S, NEW imm, NEW pops, NEW pushes, SimdRows(S, imm, pops, pushes)
  PROVE  /\ Right(Effect(FdSet(S), imm, pops, pushes))
         /\ Right(Trapping(Effect(FdSet(S), imm, pops, pushes)))
  BY DEF SimdRows, Right, Effect, Trapping, Known, Imms, Pops, Pushes, FdSet, Fd

\* The one opcode whose immediate the two readers name differently: the interpreter
\* takes the function index of ref.func as it comes.
Executes(r) ==
  \A op \in r.ops : /\ Known(op)
                    /\ r.imm = Imms(op) \/ (op = \hD2 /\ r.imm = <<"u32">>)
                    /\ r.pops = Pops(op) /\ r.pushes = Pushes(op)

\* What the scanner skips.
PlainSkip(op) ==
  IF op \in {\h0C, \h0D, \h10, \h12} \cup \h20..\h26 \cup {\h3F, \h40, \hD2} THEN <<"u32">>
  ELSE IF op = \h0E THEN <<"depths">>
  ELSE IF op \in {\h11, \h13} THEN <<"u32", "u32">>
  ELSE IF op = \h1C THEN <<"seltype">>
  ELSE PlainImm(op)
BulkSkip(s) == IF s \in {8, 10, 12, 14} THEN <<"u32", "u32">>
               ELSE IF s \in {9, 11, 13, 15, 16, 17} THEN <<"u32">> ELSE <<>>
Skip(op) == IF op < 1000 THEN PlainSkip(op)
            ELSE IF op < 2000 THEN BulkSkip(op - 1000) ELSE SimdImm(op - 2000)
Skipped(r) == \A op \in r.ops : op \in Nat /\ r.imm = Skip(op)

-----------------------------------------------------------------------------
(* The validator's rows.                                                   *)

LEMMA ValidatorTableAccessRight == \A r \in ValidatorTableAccess : Right(r)
<1> DEFINE S1 == {\h25}
<1> DEFINE S2 == {\h26}
<1> USE DEF PlainRows, PlainSubs, PlainImm, PlainPops, PlainPushes
<1>1. PlainRows(S1, <<"table">>, <<"i32">>, <<"funcref">>)  OBVIOUS
<1>2. PlainRows(S2, <<"table">>, <<"funcref", "i32">>, <<>>)  OBVIOUS
<1>3. ValidatorTableAccess = {Effect(S1, <<"table">>, <<"i32">>, <<"funcref">>),
         Effect(S2, <<"table">>, <<"funcref", "i32">>, <<>>)}
  BY Zenon DEF ValidatorTableAccess
<1> HIDE DEF S1, S2, PlainRows, PlainSubs, PlainImm, PlainPops, PlainPushes
<1> QED  BY <1>1, <1>2, <1>3, PlainRight, Zenon

LEMMA ValidatorMemoryRight == \A r \in ValidatorMemory : Right(r)
<1> DEFINE S1 == {\h28} \cup \h2C..\h2F
<1> DEFINE S2 == {\h29} \cup \h30..\h35
<1> DEFINE S3 == {\h2A}
<1> DEFINE S4 == {\h2B}
<1> DEFINE S5 == {\h36, \h3A, \h3B}
<1> DEFINE S6 == {\h37} \cup \h3C..\h3E
<1> DEFINE S7 == {\h38}
<1> DEFINE S8 == {\h39}
<1> DEFINE S9 == {\h3F}
<1> DEFINE S10 == {\h40}
<1> USE DEF PlainRows, PlainSubs, PlainImm, PlainPops, PlainPushes
<1>1. PlainRows(S1, <<"memarg">>, <<"addr">>, <<"i32">>)  OBVIOUS
<1>2. PlainRows(S2, <<"memarg">>, <<"addr">>, <<"i64">>)  OBVIOUS
<1>3. PlainRows(S3, <<"memarg">>, <<"addr">>, <<"f32">>)  OBVIOUS
<1>4. PlainRows(S4, <<"memarg">>, <<"addr">>, <<"f64">>)  OBVIOUS
<1>5. PlainRows(S5, <<"memarg">>, <<"i32", "addr">>, <<>>)  OBVIOUS
<1>6. PlainRows(S6, <<"memarg">>, <<"i64", "addr">>, <<>>)  OBVIOUS
<1>7. PlainRows(S7, <<"memarg">>, <<"f32", "addr">>, <<>>)  OBVIOUS
<1>8. PlainRows(S8, <<"memarg">>, <<"f64", "addr">>, <<>>)  OBVIOUS
<1>9. PlainRows(S9, <<"mem">>, <<>>, <<"addr">>)  OBVIOUS
<1>10. PlainRows(S10, <<"mem">>, <<"addr">>, <<"addr">>)  OBVIOUS
<1>11. ValidatorMemory = {Effect(S1, <<"memarg">>, <<"addr">>, <<"i32">>), Effect(S2,
         <<"memarg">>, <<"addr">>, <<"i64">>), Effect(S3, <<"memarg">>, <<"addr">>,
         <<"f32">>), Effect(S4, <<"memarg">>, <<"addr">>, <<"f64">>), Effect(S5,
         <<"memarg">>, <<"i32", "addr">>, <<>>), Effect(S6, <<"memarg">>, <<"i64",
         "addr">>, <<>>), Effect(S7, <<"memarg">>, <<"f32", "addr">>, <<>>), Effect(S8,
         <<"memarg">>, <<"f64", "addr">>, <<>>), Effect(S9, <<"mem">>, <<>>, <<"addr">>),
         Effect(S10, <<"mem">>, <<"addr">>, <<"addr">>)}
  BY Zenon DEF ValidatorMemory
<1> HIDE DEF S1, S2, S3, S4, S5, S6, S7, S8, S9, S10, PlainRows, PlainSubs, PlainImm,
        PlainPops, PlainPushes
<1> QED  BY <1>1, <1>2, <1>3, <1>4, <1>5, <1>6, <1>7, <1>8, <1>9, <1>10, <1>11, PlainRight, Zenon

LEMMA ValidatorArithmeticRight == \A r \in ValidatorArithmetic : Right(r)
<1> DEFINE S1 == {\h41}
<1> DEFINE S2 == {\h42}
<1> DEFINE S3 == {\h43}
<1> DEFINE S4 == {\h44}
<1> DEFINE S5 == {\h45}
<1> DEFINE S6 == \h46..\h4F
<1> DEFINE S7 == {\h50}
<1> DEFINE S8 == \h51..\h5A
<1> DEFINE S9 == \h5B..\h60
<1> DEFINE S10 == \h61..\h66
<1> DEFINE S11 == \h67..\h69
<1> DEFINE S12 == \h6A..\h78
<1> DEFINE S13 == \h79..\h7B
<1> DEFINE S14 == \h7C..\h8A
<1> DEFINE S15 == \h8B..\h91
<1> DEFINE S16 == \h92..\h98
<1> DEFINE S17 == \h99..\h9F
<1> DEFINE S18 == \hA0..\hA6
<1> USE DEF PlainRows, PlainSubs, PlainImm, PlainPops, PlainPushes
<1>1. PlainRows(S1, <<"leb32">>, <<>>, <<"i32">>)  OBVIOUS
<1>2. PlainRows(S2, <<"leb64">>, <<>>, <<"i64">>)  OBVIOUS
<1>3. PlainRows(S3, <<"fixed4">>, <<>>, <<"f32">>)  OBVIOUS
<1>4. PlainRows(S4, <<"fixed8">>, <<>>, <<"f64">>)  OBVIOUS
<1>5. PlainRows(S5, <<>>, <<"i32">>, <<"i32">>)  OBVIOUS
<1>6. PlainRows(S6, <<>>, <<"i32", "i32">>, <<"i32">>)  OBVIOUS
<1>7. PlainRows(S7, <<>>, <<"i64">>, <<"i32">>)  OBVIOUS
<1>8. PlainRows(S8, <<>>, <<"i64", "i64">>, <<"i32">>)  OBVIOUS
<1>9. PlainRows(S9, <<>>, <<"f32", "f32">>, <<"i32">>)  OBVIOUS
<1>10. PlainRows(S10, <<>>, <<"f64", "f64">>, <<"i32">>)  OBVIOUS
<1>11. PlainRows(S11, <<>>, <<"i32">>, <<"i32">>)  OBVIOUS
<1>12. PlainRows(S12, <<>>, <<"i32", "i32">>, <<"i32">>)  OBVIOUS
<1>13. PlainRows(S13, <<>>, <<"i64">>, <<"i64">>)  OBVIOUS
<1>14. PlainRows(S14, <<>>, <<"i64", "i64">>, <<"i64">>)  OBVIOUS
<1>15. PlainRows(S15, <<>>, <<"f32">>, <<"f32">>)  OBVIOUS
<1>16. PlainRows(S16, <<>>, <<"f32", "f32">>, <<"f32">>)  OBVIOUS
<1>17. PlainRows(S17, <<>>, <<"f64">>, <<"f64">>)  OBVIOUS
<1>18. PlainRows(S18, <<>>, <<"f64", "f64">>, <<"f64">>)  OBVIOUS
<1>19. ValidatorArithmetic = {Effect(S1, <<"leb32">>, <<>>, <<"i32">>), Effect(S2,
         <<"leb64">>, <<>>, <<"i64">>), Effect(S3, <<"fixed4">>, <<>>, <<"f32">>),
         Effect(S4, <<"fixed8">>, <<>>, <<"f64">>), unary(S5, "i32", "i32"),
         binary_compare(S6, "i32"), unary(S7, "i64", "i32"), binary_compare(S8, "i64"),
         binary_compare(S9, "f32"), binary_compare(S10, "f64"), unary(S11, "i32", "i32"),
         binary_same(S12, "i32"), unary(S13, "i64", "i64"), binary_same(S14, "i64"),
         unary(S15, "f32", "f32"), binary_same(S16, "f32"), unary(S17, "f64", "f64"),
         binary_same(S18, "f64")}
  BY Zenon DEF ValidatorArithmetic
<1> HIDE DEF S1, S2, S3, S4, S5, S6, S7, S8, S9, S10, S11, S12, S13, S14, S15, S16, S17,
        S18, PlainRows, PlainSubs, PlainImm, PlainPops, PlainPushes
<1> QED  BY <1>1, <1>2, <1>3, <1>4, <1>5, <1>6, <1>7, <1>8, <1>9, <1>10, <1>11, <1>12,
         <1>13, <1>14, <1>15, <1>16, <1>17, <1>18, <1>19, PlainRight, Zenon DEF binary_compare, binary_same, unary

LEMMA ValidatorConversionsRight == \A r \in ValidatorConversions : Right(r)
<1> DEFINE S1 == {\hA7}
<1> DEFINE S2 == {\hA8, \hA9}
<1> DEFINE S3 == {\hAA, \hAB}
<1> DEFINE S4 == {\hAC, \hAD}
<1> DEFINE S5 == {\hAE, \hAF}
<1> DEFINE S6 == {\hB0, \hB1}
<1> DEFINE S7 == {\hB2, \hB3, \hBE}
<1> DEFINE S8 == {\hB4, \hB5}
<1> DEFINE S9 == {\hB6}
<1> DEFINE S10 == {\hB7, \hB8}
<1> DEFINE S11 == {\hB9, \hBA, \hBF}
<1> DEFINE S12 == {\hBB}
<1> DEFINE S13 == {\hBC}
<1> DEFINE S14 == {\hBD}
<1> DEFINE S15 == {\hC0, \hC1}
<1> DEFINE S16 == \hC2..\hC4
<1> USE DEF PlainRows, PlainSubs, PlainImm, PlainPops, PlainPushes
<1>1. PlainRows(S1, <<>>, <<"i64">>, <<"i32">>)  OBVIOUS
<1>2. PlainRows(S2, <<>>, <<"f32">>, <<"i32">>)  OBVIOUS
<1>3. PlainRows(S3, <<>>, <<"f64">>, <<"i32">>)  OBVIOUS
<1>4. PlainRows(S4, <<>>, <<"i32">>, <<"i64">>)  OBVIOUS
<1>5. PlainRows(S5, <<>>, <<"f32">>, <<"i64">>)  OBVIOUS
<1>6. PlainRows(S6, <<>>, <<"f64">>, <<"i64">>)  OBVIOUS
<1>7. PlainRows(S7, <<>>, <<"i32">>, <<"f32">>)  OBVIOUS
<1>8. PlainRows(S8, <<>>, <<"i64">>, <<"f32">>)  OBVIOUS
<1>9. PlainRows(S9, <<>>, <<"f64">>, <<"f32">>)  OBVIOUS
<1>10. PlainRows(S10, <<>>, <<"i32">>, <<"f64">>)  OBVIOUS
<1>11. PlainRows(S11, <<>>, <<"i64">>, <<"f64">>)  OBVIOUS
<1>12. PlainRows(S12, <<>>, <<"f32">>, <<"f64">>)  OBVIOUS
<1>13. PlainRows(S13, <<>>, <<"f32">>, <<"i32">>)  OBVIOUS
<1>14. PlainRows(S14, <<>>, <<"f64">>, <<"i64">>)  OBVIOUS
<1>15. PlainRows(S15, <<>>, <<"i32">>, <<"i32">>)  OBVIOUS
<1>16. PlainRows(S16, <<>>, <<"i64">>, <<"i64">>)  OBVIOUS
<1>17. ValidatorConversions = {unary(S1, "i64", "i32"), unary(S2, "f32", "i32"), unary(S3,
         "f64", "i32"), unary(S4, "i32", "i64"), unary(S5, "f32", "i64"), unary(S6, "f64",
         "i64"), unary(S7, "i32", "f32"), unary(S8, "i64", "f32"), unary(S9, "f64",
         "f32"), unary(S10, "i32", "f64"), unary(S11, "i64", "f64"), unary(S12, "f32",
         "f64"), unary(S13, "f32", "i32"), unary(S14, "f64", "i64"), unary(S15, "i32",
         "i32"), unary(S16, "i64", "i64")}
  BY Zenon DEF ValidatorConversions
<1> HIDE DEF S1, S2, S3, S4, S5, S6, S7, S8, S9, S10, S11, S12, S13, S14, S15, S16,
        PlainRows, PlainSubs, PlainImm, PlainPops, PlainPushes
<1> QED  BY <1>1, <1>2, <1>3, <1>4, <1>5, <1>6, <1>7, <1>8, <1>9, <1>10, <1>11, <1>12,
         <1>13, <1>14, <1>15, <1>16, <1>17, PlainRight, Zenon DEF unary

LEMMA ValidatorReferencesRight == \A r \in ValidatorReferences : Right(r)
<1> DEFINE S1 == {\hD0}
<1> DEFINE S2 == {\hD1}
<1> DEFINE S3 == {\hD2}
<1> USE DEF PlainRows, PlainSubs, PlainImm, PlainPops, PlainPushes
<1>1. PlainRows(S1, <<"reftype">>, <<>>, <<"funcref">>)  OBVIOUS
<1>2. PlainRows(S2, <<>>, <<"funcref">>, <<"i32">>)  OBVIOUS
<1>3. PlainRows(S3, <<"func">>, <<>>, <<"funcref">>)  OBVIOUS
<1>4. ValidatorReferences = {Effect(S1, <<"reftype">>, <<>>, <<"funcref">>), unary(S2,
         "funcref", "i32"), Effect(S3, <<"func">>, <<>>, <<"funcref">>)}
  BY Zenon DEF ValidatorReferences
<1> HIDE DEF S1, S2, S3, PlainRows, PlainSubs, PlainImm, PlainPops, PlainPushes
<1> QED  BY <1>1, <1>2, <1>3, <1>4, PlainRight, Zenon DEF unary

LEMMA ValidatorSimdMemoryRight == \A r \in ValidatorSimdMemory : Right(r)
<1> DEFINE S1 == 0..10 \cup {92, 93}
<1> DEFINE S2 == {11}
<1> DEFINE S3 == {84}
<1> DEFINE S4 == {85}
<1> DEFINE S5 == {86}
<1> DEFINE S6 == {87}
<1> DEFINE S7 == {88}
<1> DEFINE S8 == {89}
<1> DEFINE S9 == {90}
<1> DEFINE S10 == {91}
<1> USE DEF SimdRows, SimdSubs, SimdImm, SimdPops, SimdPushes
<1>1. SimdRows(S1, <<"memarg">>, <<"addr">>, <<"v128">>)  OBVIOUS
<1>2. SimdRows(S2, <<"memarg">>, <<"v128", "addr">>, <<>>)  OBVIOUS
<1>3. SimdRows(S3, <<"memarg", "lane16">>, <<"v128", "addr">>, <<"v128">>)  OBVIOUS
<1>4. SimdRows(S4, <<"memarg", "lane8">>, <<"v128", "addr">>, <<"v128">>)  OBVIOUS
<1>5. SimdRows(S5, <<"memarg", "lane4">>, <<"v128", "addr">>, <<"v128">>)  OBVIOUS
<1>6. SimdRows(S6, <<"memarg", "lane2">>, <<"v128", "addr">>, <<"v128">>)  OBVIOUS
<1>7. SimdRows(S7, <<"memarg", "lane16">>, <<"v128", "addr">>, <<>>)  OBVIOUS
<1>8. SimdRows(S8, <<"memarg", "lane8">>, <<"v128", "addr">>, <<>>)  OBVIOUS
<1>9. SimdRows(S9, <<"memarg", "lane4">>, <<"v128", "addr">>, <<>>)  OBVIOUS
<1>10. SimdRows(S10, <<"memarg", "lane2">>, <<"v128", "addr">>, <<>>)  OBVIOUS
<1>11. ValidatorSimdMemory = {Effect(FdSet(S1), <<"memarg">>, <<"addr">>, <<"v128">>),
         Effect(FdSet(S2), <<"memarg">>, <<"v128", "addr">>, <<>>), Effect(FdSet(S3),
         <<"memarg", "lane16">>, <<"v128", "addr">>, <<"v128">>), Effect(FdSet(S4),
         <<"memarg", "lane8">>, <<"v128", "addr">>, <<"v128">>), Effect(FdSet(S5),
         <<"memarg", "lane4">>, <<"v128", "addr">>, <<"v128">>), Effect(FdSet(S6),
         <<"memarg", "lane2">>, <<"v128", "addr">>, <<"v128">>), Effect(FdSet(S7),
         <<"memarg", "lane16">>, <<"v128", "addr">>, <<>>), Effect(FdSet(S8), <<"memarg",
         "lane8">>, <<"v128", "addr">>, <<>>), Effect(FdSet(S9), <<"memarg", "lane4">>,
         <<"v128", "addr">>, <<>>), Effect(FdSet(S10), <<"memarg", "lane2">>, <<"v128",
         "addr">>, <<>>)}
  BY Zenon DEF ValidatorSimdMemory
<1> HIDE DEF S1, S2, S3, S4, S5, S6, S7, S8, S9, S10, SimdRows, SimdSubs, SimdImm,
        SimdPops, SimdPushes
<1> QED  BY <1>1, <1>2, <1>3, <1>4, <1>5, <1>6, <1>7, <1>8, <1>9, <1>10, <1>11, SimdRight, Zenon

LEMMA ValidatorSimdLanesRight == \A r \in ValidatorSimdLanes : Right(r)
<1> DEFINE S1 == {94, 95} \cup 257..260
<1> DEFINE S2 == {12}
<1> DEFINE S3 == {13}
<1> DEFINE S4 == 261..268 \cup {275}
<1> DEFINE S5 == {14, 256} \cup 269..274
<1> DEFINE S6 == 15..17
<1> DEFINE S7 == {18}
<1> DEFINE S8 == {19}
<1> DEFINE S9 == {20}
<1> DEFINE S10 == {21, 22}
<1> DEFINE S11 == {23}
<1> DEFINE S12 == {24, 25}
<1> DEFINE S13 == {26}
<1> USE DEF SimdRows, SimdSubs, SimdImm, SimdPops, SimdPushes
<1>1. SimdRows(S1, <<>>, <<"v128">>, <<"v128">>)  OBVIOUS
<1>2. SimdRows(S2, <<"fixed16">>, <<>>, <<"v128">>)  OBVIOUS
<1>3. SimdRows(S3, <<"lanes32">>, Vectors(2), <<"v128">>)  OBVIOUS
<1>4. SimdRows(S4, <<>>, Vectors(3), <<"v128">>)  OBVIOUS
<1>5. SimdRows(S5, <<>>, <<"v128", "v128">>, <<"v128">>)  OBVIOUS
<1>6. SimdRows(S6, <<>>, <<"i32">>, <<"v128">>)  OBVIOUS
<1>7. SimdRows(S7, <<>>, <<"i64">>, <<"v128">>)  OBVIOUS
<1>8. SimdRows(S8, <<>>, <<"f32">>, <<"v128">>)  OBVIOUS
<1>9. SimdRows(S9, <<>>, <<"f64">>, <<"v128">>)  OBVIOUS
<1>10. SimdRows(S10, <<"lane16">>, <<"v128">>, <<"i32">>)  OBVIOUS
<1>11. SimdRows(S11, <<"lane16">>, <<"i32", "v128">>, <<"v128">>)  OBVIOUS
<1>12. SimdRows(S12, <<"lane8">>, <<"v128">>, <<"i32">>)  OBVIOUS
<1>13. SimdRows(S13, <<"lane8">>, <<"i32", "v128">>, <<"v128">>)  OBVIOUS
<1>14. ValidatorSimdLanes = {unary(FdSet(S1), "v128", "v128"), Effect(FdSet(S2),
         <<"fixed16">>, <<>>, <<"v128">>), Effect(FdSet(S3), <<"lanes32">>, Vectors(2),
         <<"v128">>), Effect(FdSet(S4), <<>>, Vectors(3), <<"v128">>),
         binary_same(FdSet(S5), "v128"), unary(FdSet(S6), "i32", "v128"), unary(FdSet(S7),
         "i64", "v128"), unary(FdSet(S8), "f32", "v128"), unary(FdSet(S9), "f64", "v128"),
         Effect(FdSet(S10), <<"lane16">>, <<"v128">>, <<"i32">>), Effect(FdSet(S11),
         <<"lane16">>, <<"i32", "v128">>, <<"v128">>), Effect(FdSet(S12), <<"lane8">>,
         <<"v128">>, <<"i32">>), Effect(FdSet(S13), <<"lane8">>, <<"i32", "v128">>,
         <<"v128">>)}
  BY Zenon DEF ValidatorSimdLanes
<1> HIDE DEF S1, S2, S3, S4, S5, S6, S7, S8, S9, S10, S11, S12, S13, SimdRows, SimdSubs,
        SimdImm, SimdPops, SimdPushes
<1> QED  BY <1>1, <1>2, <1>3, <1>4, <1>5, <1>6, <1>7, <1>8, <1>9, <1>10, <1>11, <1>12,
         <1>13, <1>14, SimdRight, Zenon DEF binary_same, unary

LEMMA ValidatorSimdArithmeticRight == \A r \in ValidatorSimdArithmetic : Right(r)
<1> DEFINE S1 == 35..64 \cup 78..81
<1> DEFINE S2 == {77, 96, 97, 98} \cup 103..106 \cup {116, 117, 122} \cup 124..129 \cup
                {148, 160, 161, 192, 193, 224, 225, 227, 236, 237, 239} \cup 248..255 \cup
                135..138 \cup 167..170 \cup 199..202
<1> DEFINE S3 == {82}
<1> DEFINE S4 == {83, 99, 100, 131, 132, 163, 164, 195, 196}
<1> DEFINE S5 == 107..109 \cup 139..141 \cup 171..173 \cup 203..205
<1> DEFINE S6 == {101, 102} \cup 110..115 \cup 118..121 \cup {123, 130, 133, 134} \cup
                142..147 \cup 149..153 \cup 155..159 \cup {174, 177} \cup 181..186 \cup
                188..191 \cup {206, 209} \cup 213..223 \cup 228..235 \cup 240..247
<1> USE DEF SimdRows, SimdSubs, SimdImm, SimdPops, SimdPushes
<1>1. SimdRows(S1, <<>>, <<"v128", "v128">>, <<"v128">>)  OBVIOUS
<1>2. SimdRows(S2, <<>>, <<"v128">>, <<"v128">>)  OBVIOUS
<1>3. SimdRows(S3, <<>>, Vectors(3), <<"v128">>)  OBVIOUS
<1>4. SimdRows(S4, <<>>, <<"v128">>, <<"i32">>)  OBVIOUS
<1>5. SimdRows(S5, <<>>, <<"i32", "v128">>, <<"v128">>)  OBVIOUS
<1>6. SimdRows(S6, <<>>, <<"v128", "v128">>, <<"v128">>)  OBVIOUS
<1>7. ValidatorSimdArithmetic = {binary_same(FdSet(S1), "v128"), unary(FdSet(S2), "v128",
         "v128"), Effect(FdSet(S3), <<>>, Vectors(3), <<"v128">>), unary(FdSet(S4),
         "v128", "i32"), Effect(FdSet(S5), <<>>, <<"i32", "v128">>, <<"v128">>),
         binary_same(FdSet(S6), "v128")}
  BY Zenon DEF ValidatorSimdArithmetic
<1> HIDE DEF S1, S2, S3, S4, S5, S6, SimdRows, SimdSubs, SimdImm, SimdPops, SimdPushes
<1> QED  BY <1>1, <1>2, <1>3, <1>4, <1>5, <1>6, <1>7, SimdRight, Zenon DEF binary_same, unary

LEMMA ValidatorSimdWideLanesRight == \A r \in ValidatorSimdWideLanes : Right(r)
<1> DEFINE S1 == {27}
<1> DEFINE S2 == {28}
<1> DEFINE S3 == {29}
<1> DEFINE S4 == {31}
<1> DEFINE S5 == {33}
<1> DEFINE S6 == {30}
<1> DEFINE S7 == {32}
<1> DEFINE S8 == {34}
<1> USE DEF SimdRows, SimdSubs, SimdImm, SimdPops, SimdPushes
<1>1. SimdRows(S1, <<"lane4">>, <<"v128">>, <<"i32">>)  OBVIOUS
<1>2. SimdRows(S2, <<"lane4">>, <<"i32", "v128">>, <<"v128">>)  OBVIOUS
<1>3. SimdRows(S3, <<"lane2">>, <<"v128">>, <<"i64">>)  OBVIOUS
<1>4. SimdRows(S4, <<"lane4">>, <<"v128">>, <<"f32">>)  OBVIOUS
<1>5. SimdRows(S5, <<"lane2">>, <<"v128">>, <<"f64">>)  OBVIOUS
<1>6. SimdRows(S6, <<"lane2">>, <<"i64", "v128">>, <<"v128">>)  OBVIOUS
<1>7. SimdRows(S7, <<"lane4">>, <<"f32", "v128">>, <<"v128">>)  OBVIOUS
<1>8. SimdRows(S8, <<"lane2">>, <<"f64", "v128">>, <<"v128">>)  OBVIOUS
<1>9. ValidatorSimdWideLanes = {Effect(FdSet(S1), <<"lane4">>, <<"v128">>, <<"i32">>),
         Effect(FdSet(S2), <<"lane4">>, <<"i32", "v128">>, <<"v128">>), Effect(FdSet(S3),
         <<"lane2">>, <<"v128">>, <<"i64">>), Effect(FdSet(S4), <<"lane4">>, <<"v128">>,
         <<"f32">>), Effect(FdSet(S5), <<"lane2">>, <<"v128">>, <<"f64">>),
         Effect(FdSet(S6), <<"lane2">>, <<"i64", "v128">>, <<"v128">>), Effect(FdSet(S7),
         <<"lane4">>, <<"f32", "v128">>, <<"v128">>), Effect(FdSet(S8), <<"lane2">>,
         <<"f64", "v128">>, <<"v128">>)}
  BY Zenon DEF ValidatorSimdWideLanes
<1> HIDE DEF S1, S2, S3, S4, S5, S6, S7, S8, SimdRows, SimdSubs, SimdImm, SimdPops,
        SimdPushes
<1> QED  BY <1>1, <1>2, <1>3, <1>4, <1>5, <1>6, <1>7, <1>8, <1>9, SimdRight, Zenon

LEMMA ValidatorBulkMemoryRight == \A r \in ValidatorBulkMemory : Right(r)
<1> DEFINE S1 == {Fc(0), Fc(1)}
<1> DEFINE S2 == {Fc(2), Fc(3)}
<1> DEFINE S3 == {Fc(4), Fc(5)}
<1> DEFINE S4 == {Fc(6), Fc(7)}
<1> DEFINE S5 == {Fc(8)}
<1> DEFINE S6 == {Fc(9)}
<1> DEFINE S7 == {Fc(10)}
<1> DEFINE S8 == {Fc(11)}
<1> USE DEF Fc, BulkRange, BulkRows, BulkSubs, BulkImm, BulkPops, BulkPushes
<1>1. BulkRows(S1, <<>>, <<"f32">>, <<"i32">>)  OBVIOUS
<1>2. BulkRows(S2, <<>>, <<"f64">>, <<"i32">>)  OBVIOUS
<1>3. BulkRows(S3, <<>>, <<"f32">>, <<"i64">>)  OBVIOUS
<1>4. BulkRows(S4, <<>>, <<"f64">>, <<"i64">>)  OBVIOUS
<1>5. BulkRows(S5, <<"data", "mem">>, <<"i32", "i32", "addr">>, <<>>)  OBVIOUS
<1>6. BulkRows(S6, <<"data">>, <<>>, <<>>)  OBVIOUS
<1>7. BulkRows(S7, <<"mem", "mem">>, <<"len", "src", "dst">>, <<>>)  OBVIOUS
<1>8. BulkRows(S8, <<"mem">>, <<"addr", "i32", "addr">>, <<>>)  OBVIOUS
<1>9. ValidatorBulkMemory = {unary(S1, "f32", "i32"), unary(S2, "f64", "i32"), unary(S3,
         "f32", "i64"), unary(S4, "f64", "i64"), Effect(S5, <<"data", "mem">>, <<"i32",
         "i32", "addr">>, <<>>), Effect(S6, <<"data">>, <<>>, <<>>), Effect(S7, <<"mem",
         "mem">>, <<"len", "src", "dst">>, <<>>), Effect(S8, <<"mem">>, <<"addr", "i32",
         "addr">>, <<>>)}
  BY Zenon DEF ValidatorBulkMemory
<1> HIDE DEF S1, S2, S3, S4, S5, S6, S7, S8, Fc, BulkRange, BulkRows, BulkSubs, BulkImm,
        BulkPops, BulkPushes
<1> QED  BY <1>1, <1>2, <1>3, <1>4, <1>5, <1>6, <1>7, <1>8, <1>9, BulkRight, Zenon DEF unary

LEMMA ValidatorBulkTableRight == \A r \in ValidatorBulkTable : Right(r)
<1> DEFINE S1 == {Fc(12)}
<1> DEFINE S2 == {Fc(13)}
<1> DEFINE S3 == {Fc(14)}
<1> DEFINE S4 == {Fc(15)}
<1> DEFINE S5 == {Fc(16)}
<1> DEFINE S6 == {Fc(17)}
<1> USE DEF Fc, BulkRange, BulkRows, BulkSubs, BulkImm, BulkPops, BulkPushes
<1>1. BulkRows(S1, <<"elem", "table">>, <<"i32", "i32", "i32">>, <<>>)  OBVIOUS
<1>2. BulkRows(S2, <<"elem">>, <<>>, <<>>)  OBVIOUS
<1>3. BulkRows(S3, <<"table", "table">>, <<"i32", "i32", "i32">>, <<>>)  OBVIOUS
<1>4. BulkRows(S4, <<"table">>, <<"i32", "funcref">>, <<"i32">>)  OBVIOUS
<1>5. BulkRows(S5, <<"table">>, <<>>, <<"i32">>)  OBVIOUS
<1>6. BulkRows(S6, <<"table">>, <<"i32", "funcref", "i32">>, <<>>)  OBVIOUS
<1>7. ValidatorBulkTable = {Effect(S1, <<"elem", "table">>, <<"i32", "i32", "i32">>,
         <<>>), Effect(S2, <<"elem">>, <<>>, <<>>), Effect(S3, <<"table", "table">>,
         <<"i32", "i32", "i32">>, <<>>), Effect(S4, <<"table">>, <<"i32", "funcref">>,
         <<"i32">>), Effect(S5, <<"table">>, <<>>, <<"i32">>), Effect(S6, <<"table">>,
         <<"i32", "funcref", "i32">>, <<>>)}
  BY Zenon DEF ValidatorBulkTable
<1> HIDE DEF S1, S2, S3, S4, S5, S6, Fc, BulkRange, BulkRows, BulkSubs, BulkImm, BulkPops,
        BulkPushes
<1> QED  BY <1>1, <1>2, <1>3, <1>4, <1>5, <1>6, <1>7, BulkRight, Zenon

-----------------------------------------------------------------------------
(* The interpreter's rows, and the opcodes they cover.                     *)

LEMMA RuntimeTableAccessRight ==
  /\ {\h25, \h26} \subseteq OpsOf(RuntimeTableAccess)
  /\ \A r \in RuntimeTableAccess : Right(r)
<1> DEFINE S1 == {\h25}
<1> DEFINE S2 == {\h26}
<1> USE DEF PlainRows, PlainSubs, PlainImm, PlainPops, PlainPushes
<1>1. PlainRows(S1, <<"table">>, <<"i32">>, <<"funcref">>)  OBVIOUS
<1>2. PlainRows(S2, <<"table">>, <<"funcref", "i32">>, <<>>)  OBVIOUS
<1>3. RuntimeTableAccess = {Trapping(Effect(S1, <<"table">>, <<"i32">>, <<"funcref">>)),
         Trapping(Effect(S2, <<"table">>, <<"funcref", "i32">>, <<>>))}
  BY Zenon DEF RuntimeTableAccess
<1>4. {\h25, \h26} \subseteq S1 \cup S2  OBVIOUS
<1> HIDE DEF S1, S2, PlainRows, PlainSubs, PlainImm, PlainPops, PlainPushes
<1>5. \A r \in RuntimeTableAccess : Right(r)
  BY <1>1, <1>2, <1>3, PlainRight, Zenon
<1>6. \A r \in RuntimeTableAccess : \A op \in r.ops : op \in OpsOf(RuntimeTableAccess)
  BY Zenon DEF OpsOf
<1>7. (Trapping(Effect(S1, <<"table">>, <<"i32">>, <<"funcref">>))).ops = S1 /\
         (Trapping(Effect(S2, <<"table">>, <<"funcref", "i32">>, <<>>))).ops = S2
  BY DEF Effect, Trapping
<1>8. \A op \in S1 \cup S2 : op \in OpsOf(RuntimeTableAccess)
  BY <1>3, <1>6, <1>7, Zenon
<1> QED  BY <1>4, <1>5, <1>8

LEMMA RuntimeLoadsRight ==
  /\ \h28..\h35 \subseteq OpsOf(RuntimeLoads)
  /\ \A r \in RuntimeLoads : Right(r)
<1> DEFINE S1 == {\h28} \cup \h2C..\h2F
<1> DEFINE S2 == {\h29} \cup \h30..\h35
<1> DEFINE S3 == {\h2A}
<1> DEFINE S4 == {\h2B}
<1> USE DEF PlainRows, PlainSubs, PlainImm, PlainPops, PlainPushes
<1>1. PlainRows(S1, <<"memarg">>, <<"addr">>, <<"i32">>)  OBVIOUS
<1>2. PlainRows(S2, <<"memarg">>, <<"addr">>, <<"i64">>)  OBVIOUS
<1>3. PlainRows(S3, <<"memarg">>, <<"addr">>, <<"f32">>)  OBVIOUS
<1>4. PlainRows(S4, <<"memarg">>, <<"addr">>, <<"f64">>)  OBVIOUS
<1>5. RuntimeLoads = {Trapping(Effect(S1, <<"memarg">>, <<"addr">>, <<"i32">>)),
         Trapping(Effect(S2, <<"memarg">>, <<"addr">>, <<"i64">>)), Trapping(Effect(S3,
         <<"memarg">>, <<"addr">>, <<"f32">>)), Trapping(Effect(S4, <<"memarg">>,
         <<"addr">>, <<"f64">>))}
  BY Zenon DEF RuntimeLoads
<1>6. \h28..\h35 \subseteq S1 \cup S2 \cup S3 \cup S4  OBVIOUS
<1> HIDE DEF S1, S2, S3, S4, PlainRows, PlainSubs, PlainImm, PlainPops, PlainPushes
<1>7. \A r \in RuntimeLoads : Right(r)
  BY <1>1, <1>2, <1>3, <1>4, <1>5, PlainRight, Zenon
<1>8. \A r \in RuntimeLoads : \A op \in r.ops : op \in OpsOf(RuntimeLoads)
  BY Zenon DEF OpsOf
<1>9. (Trapping(Effect(S1, <<"memarg">>, <<"addr">>, <<"i32">>))).ops = S1 /\
         (Trapping(Effect(S2, <<"memarg">>, <<"addr">>, <<"i64">>))).ops = S2 /\
         (Trapping(Effect(S3, <<"memarg">>, <<"addr">>, <<"f32">>))).ops = S3 /\
         (Trapping(Effect(S4, <<"memarg">>, <<"addr">>, <<"f64">>))).ops = S4
  BY DEF Effect, Trapping
<1>10. \A op \in S1 \cup S2 \cup S3 \cup S4 : op \in OpsOf(RuntimeLoads)
  BY <1>5, <1>8, <1>9, Zenon
<1> QED  BY <1>6, <1>7, <1>10

LEMMA RuntimeStoresRight ==
  /\ \h36..\h3E \subseteq OpsOf(RuntimeStores)
  /\ \A r \in RuntimeStores : Right(r)
<1> DEFINE S1 == {\h36, \h3A, \h3B}
<1> DEFINE S2 == {\h37} \cup \h3C..\h3E
<1> DEFINE S3 == {\h38}
<1> DEFINE S4 == {\h39}
<1> USE DEF PlainRows, PlainSubs, PlainImm, PlainPops, PlainPushes
<1>1. PlainRows(S1, <<"memarg">>, <<"i32", "addr">>, <<>>)  OBVIOUS
<1>2. PlainRows(S2, <<"memarg">>, <<"i64", "addr">>, <<>>)  OBVIOUS
<1>3. PlainRows(S3, <<"memarg">>, <<"f32", "addr">>, <<>>)  OBVIOUS
<1>4. PlainRows(S4, <<"memarg">>, <<"f64", "addr">>, <<>>)  OBVIOUS
<1>5. RuntimeStores = {Trapping(Effect(S1, <<"memarg">>, <<"i32", "addr">>, <<>>)),
         Trapping(Effect(S2, <<"memarg">>, <<"i64", "addr">>, <<>>)), Trapping(Effect(S3,
         <<"memarg">>, <<"f32", "addr">>, <<>>)), Trapping(Effect(S4, <<"memarg">>,
         <<"f64", "addr">>, <<>>))}
  BY Zenon DEF RuntimeStores
<1>6. \h36..\h3E \subseteq S1 \cup S2 \cup S3 \cup S4  OBVIOUS
<1> HIDE DEF S1, S2, S3, S4, PlainRows, PlainSubs, PlainImm, PlainPops, PlainPushes
<1>7. \A r \in RuntimeStores : Right(r)
  BY <1>1, <1>2, <1>3, <1>4, <1>5, PlainRight, Zenon
<1>8. \A r \in RuntimeStores : \A op \in r.ops : op \in OpsOf(RuntimeStores)
  BY Zenon DEF OpsOf
<1>9. (Trapping(Effect(S1, <<"memarg">>, <<"i32", "addr">>, <<>>))).ops = S1 /\
         (Trapping(Effect(S2, <<"memarg">>, <<"i64", "addr">>, <<>>))).ops = S2 /\
         (Trapping(Effect(S3, <<"memarg">>, <<"f32", "addr">>, <<>>))).ops = S3 /\
         (Trapping(Effect(S4, <<"memarg">>, <<"f64", "addr">>, <<>>))).ops = S4
  BY DEF Effect, Trapping
<1>10. \A op \in S1 \cup S2 \cup S3 \cup S4 : op \in OpsOf(RuntimeStores)
  BY <1>5, <1>8, <1>9, Zenon
<1> QED  BY <1>6, <1>7, <1>10

LEMMA RuntimeMemoryAndConstantsRight ==
  /\ \h3F..\h44 \subseteq OpsOf(RuntimeMemoryAndConstants)
  /\ \A r \in RuntimeMemoryAndConstants : Right(r)
<1> DEFINE S1 == {\h3F}
<1> DEFINE S2 == {\h40}
<1> DEFINE S3 == {\h41}
<1> DEFINE S4 == {\h42}
<1> DEFINE S5 == {\h43}
<1> DEFINE S6 == {\h44}
<1> USE DEF PlainRows, PlainSubs, PlainImm, PlainPops, PlainPushes
<1>1. PlainRows(S1, <<"mem">>, <<>>, <<"addr">>)  OBVIOUS
<1>2. PlainRows(S2, <<"mem">>, <<"addr">>, <<"addr">>)  OBVIOUS
<1>3. PlainRows(S3, <<"leb32">>, <<>>, <<"i32">>)  OBVIOUS
<1>4. PlainRows(S4, <<"leb64">>, <<>>, <<"i64">>)  OBVIOUS
<1>5. PlainRows(S5, <<"fixed4">>, <<>>, <<"f32">>)  OBVIOUS
<1>6. PlainRows(S6, <<"fixed8">>, <<>>, <<"f64">>)  OBVIOUS
<1>7. RuntimeMemoryAndConstants = {Effect(S1, <<"mem">>, <<>>, <<"addr">>), Effect(S2,
         <<"mem">>, <<"addr">>, <<"addr">>), Effect(S3, <<"leb32">>, <<>>, <<"i32">>),
         Effect(S4, <<"leb64">>, <<>>, <<"i64">>), Effect(S5, <<"fixed4">>, <<>>,
         <<"f32">>), Effect(S6, <<"fixed8">>, <<>>, <<"f64">>)}
  BY Zenon DEF RuntimeMemoryAndConstants
<1>8. \h3F..\h44 \subseteq S1 \cup S2 \cup S3 \cup S4 \cup S5 \cup S6  OBVIOUS
<1> HIDE DEF S1, S2, S3, S4, S5, S6, PlainRows, PlainSubs, PlainImm, PlainPops,
        PlainPushes
<1>9. \A r \in RuntimeMemoryAndConstants : Right(r)
  BY <1>1, <1>2, <1>3, <1>4, <1>5, <1>6, <1>7, PlainRight, Zenon
<1>10. \A r \in RuntimeMemoryAndConstants : \A op \in r.ops : op \in OpsOf(RuntimeMemoryAndConstants)
  BY Zenon DEF OpsOf
<1>11. (Effect(S1, <<"mem">>, <<>>, <<"addr">>)).ops = S1 /\ (Effect(S2, <<"mem">>,
         <<"addr">>, <<"addr">>)).ops = S2 /\ (Effect(S3, <<"leb32">>, <<>>,
         <<"i32">>)).ops = S3 /\ (Effect(S4, <<"leb64">>, <<>>, <<"i64">>)).ops = S4 /\
         (Effect(S5, <<"fixed4">>, <<>>, <<"f32">>)).ops = S5 /\ (Effect(S6, <<"fixed8">>,
         <<>>, <<"f64">>)).ops = S6
  BY DEF Effect
<1>12. \A op \in S1 \cup S2 \cup S3 \cup S4 \cup S5 \cup S6 : op \in OpsOf(RuntimeMemoryAndConstants)
  BY <1>7, <1>10, <1>11, Zenon
<1> QED  BY <1>8, <1>9, <1>12

LEMMA RuntimeIntegersRight ==
  /\ \h67..\h8A \cup \hC0..\hC4 \subseteq OpsOf(RuntimeIntegers)
  /\ \A r \in RuntimeIntegers : Right(r)
<1> DEFINE S1 == \h67..\h69 \cup {\hC0, \hC1}
<1> DEFINE S2 == \h79..\h7B \cup \hC2..\hC4
<1> DEFINE S3 == \h6A..\h6C \cup \h71..\h78
<1> DEFINE S4 == \h7C..\h7E \cup \h83..\h8A
<1> DEFINE S5 == \h6D..\h70
<1> DEFINE S6 == \h7F..\h82
<1> USE DEF PlainRows, PlainSubs, PlainImm, PlainPops, PlainPushes
<1>1. PlainRows(S1, <<>>, <<"i32">>, <<"i32">>)  OBVIOUS
<1>2. PlainRows(S2, <<>>, <<"i64">>, <<"i64">>)  OBVIOUS
<1>3. PlainRows(S3, <<>>, <<"i32", "i32">>, <<"i32">>)  OBVIOUS
<1>4. PlainRows(S4, <<>>, <<"i64", "i64">>, <<"i64">>)  OBVIOUS
<1>5. PlainRows(S5, <<>>, <<"i32", "i32">>, <<"i32">>)  OBVIOUS
<1>6. PlainRows(S6, <<>>, <<"i64", "i64">>, <<"i64">>)  OBVIOUS
<1>7. RuntimeIntegers = {unary(S1, "i32", "i32"), unary(S2, "i64", "i64"), binary_same(S3,
         "i32"), binary_same(S4, "i64"), Trapping(binary_same(S5, "i32")),
         Trapping(binary_same(S6, "i64"))}
  BY Zenon DEF RuntimeIntegers
<1>8. \h67..\h8A \cup \hC0..\hC4 \subseteq S1 \cup S2 \cup S3 \cup S4 \cup S5 \cup S6  OBVIOUS
<1> HIDE DEF S1, S2, S3, S4, S5, S6, PlainRows, PlainSubs, PlainImm, PlainPops,
        PlainPushes
<1>9. \A r \in RuntimeIntegers : Right(r)
  BY <1>1, <1>2, <1>3, <1>4, <1>5, <1>6, <1>7, PlainRight, Zenon DEF binary_same, unary
<1>10. \A r \in RuntimeIntegers : \A op \in r.ops : op \in OpsOf(RuntimeIntegers)
  BY Zenon DEF OpsOf
<1>11. (unary(S1, "i32", "i32")).ops = S1 /\ (unary(S2, "i64", "i64")).ops = S2 /\
         (binary_same(S3, "i32")).ops = S3 /\ (binary_same(S4, "i64")).ops = S4 /\
         (Trapping(binary_same(S5, "i32"))).ops = S5 /\ (Trapping(binary_same(S6,
         "i64"))).ops = S6
  BY DEF Effect, Trapping, binary_same, unary
<1>12. \A op \in S1 \cup S2 \cup S3 \cup S4 \cup S5 \cup S6 : op \in OpsOf(RuntimeIntegers)
  BY <1>7, <1>10, <1>11, Zenon
<1> QED  BY <1>8, <1>9, <1>12

LEMMA RuntimeFloatsRight ==
  /\ \h8B..\hA6 \subseteq OpsOf(RuntimeFloats)
  /\ \A r \in RuntimeFloats : Right(r)
<1> DEFINE S1 == \h8B..\h91
<1> DEFINE S2 == \h99..\h9F
<1> DEFINE S3 == \h92..\h98
<1> DEFINE S4 == \hA0..\hA6
<1> USE DEF PlainRows, PlainSubs, PlainImm, PlainPops, PlainPushes
<1>1. PlainRows(S1, <<>>, <<"f32">>, <<"f32">>)  OBVIOUS
<1>2. PlainRows(S2, <<>>, <<"f64">>, <<"f64">>)  OBVIOUS
<1>3. PlainRows(S3, <<>>, <<"f32", "f32">>, <<"f32">>)  OBVIOUS
<1>4. PlainRows(S4, <<>>, <<"f64", "f64">>, <<"f64">>)  OBVIOUS
<1>5. RuntimeFloats = {unary(S1, "f32", "f32"), unary(S2, "f64", "f64"), binary_same(S3,
         "f32"), binary_same(S4, "f64")}
  BY Zenon DEF RuntimeFloats
<1>6. \h8B..\hA6 \subseteq S1 \cup S2 \cup S3 \cup S4  OBVIOUS
<1> HIDE DEF S1, S2, S3, S4, PlainRows, PlainSubs, PlainImm, PlainPops, PlainPushes
<1>7. \A r \in RuntimeFloats : Right(r)
  BY <1>1, <1>2, <1>3, <1>4, <1>5, PlainRight, Zenon DEF binary_same, unary
<1>8. \A r \in RuntimeFloats : \A op \in r.ops : op \in OpsOf(RuntimeFloats)
  BY Zenon DEF OpsOf
<1>9. (unary(S1, "f32", "f32")).ops = S1 /\ (unary(S2, "f64", "f64")).ops = S2 /\
         (binary_same(S3, "f32")).ops = S3 /\ (binary_same(S4, "f64")).ops = S4
  BY DEF Effect, binary_same, unary
<1>10. \A op \in S1 \cup S2 \cup S3 \cup S4 : op \in OpsOf(RuntimeFloats)
  BY <1>5, <1>8, <1>9, Zenon
<1> QED  BY <1>6, <1>7, <1>10

LEMMA RuntimeComparisonsRight ==
  /\ \h45..\h66 \subseteq OpsOf(RuntimeComparisons)
  /\ \A r \in RuntimeComparisons : Right(r)
<1> DEFINE S1 == {\h45}
<1> DEFINE S2 == \h46..\h4F
<1> DEFINE S3 == {\h50}
<1> DEFINE S4 == \h51..\h5A
<1> DEFINE S5 == \h5B..\h60
<1> DEFINE S6 == \h61..\h66
<1> USE DEF PlainRows, PlainSubs, PlainImm, PlainPops, PlainPushes
<1>1. PlainRows(S1, <<>>, <<"i32">>, <<"i32">>)  OBVIOUS
<1>2. PlainRows(S2, <<>>, <<"i32", "i32">>, <<"i32">>)  OBVIOUS
<1>3. PlainRows(S3, <<>>, <<"i64">>, <<"i32">>)  OBVIOUS
<1>4. PlainRows(S4, <<>>, <<"i64", "i64">>, <<"i32">>)  OBVIOUS
<1>5. PlainRows(S5, <<>>, <<"f32", "f32">>, <<"i32">>)  OBVIOUS
<1>6. PlainRows(S6, <<>>, <<"f64", "f64">>, <<"i32">>)  OBVIOUS
<1>7. RuntimeComparisons = {unary(S1, "i32", "i32"), binary_compare(S2, "i32"), unary(S3,
         "i64", "i32"), binary_compare(S4, "i64"), binary_compare(S5, "f32"),
         binary_compare(S6, "f64")}
  BY Zenon DEF RuntimeComparisons
<1>8. \h45..\h66 \subseteq S1 \cup S2 \cup S3 \cup S4 \cup S5 \cup S6  OBVIOUS
<1> HIDE DEF S1, S2, S3, S4, S5, S6, PlainRows, PlainSubs, PlainImm, PlainPops,
        PlainPushes
<1>9. \A r \in RuntimeComparisons : Right(r)
  BY <1>1, <1>2, <1>3, <1>4, <1>5, <1>6, <1>7, PlainRight, Zenon DEF binary_compare, unary
<1>10. \A r \in RuntimeComparisons : \A op \in r.ops : op \in OpsOf(RuntimeComparisons)
  BY Zenon DEF OpsOf
<1>11. (unary(S1, "i32", "i32")).ops = S1 /\ (binary_compare(S2, "i32")).ops = S2 /\
         (unary(S3, "i64", "i32")).ops = S3 /\ (binary_compare(S4, "i64")).ops = S4 /\
         (binary_compare(S5, "f32")).ops = S5 /\ (binary_compare(S6, "f64")).ops = S6
  BY DEF Effect, binary_compare, unary
<1>12. \A op \in S1 \cup S2 \cup S3 \cup S4 \cup S5 \cup S6 : op \in OpsOf(RuntimeComparisons)
  BY <1>7, <1>10, <1>11, Zenon
<1> QED  BY <1>8, <1>9, <1>12

LEMMA RuntimeConversionsRight ==
  /\ \hA7..\hBF \subseteq OpsOf(RuntimeConversions)
  /\ \A r \in RuntimeConversions : Right(r)
<1> DEFINE S1 == {\hA7}
<1> DEFINE S2 == {\hA8, \hA9}
<1> DEFINE S3 == {\hAA, \hAB}
<1> DEFINE S4 == {\hAC, \hAD}
<1> DEFINE S5 == {\hAE, \hAF}
<1> DEFINE S6 == {\hB0, \hB1}
<1> DEFINE S7 == {\hB2, \hB3, \hBE}
<1> DEFINE S8 == {\hB4, \hB5}
<1> DEFINE S9 == {\hB6}
<1> DEFINE S10 == {\hB7, \hB8}
<1> DEFINE S11 == {\hB9, \hBA, \hBF}
<1> DEFINE S12 == {\hBB}
<1> DEFINE S13 == {\hBC}
<1> DEFINE S14 == {\hBD}
<1> USE DEF PlainRows, PlainSubs, PlainImm, PlainPops, PlainPushes
<1>1. PlainRows(S1, <<>>, <<"i64">>, <<"i32">>)  OBVIOUS
<1>2. PlainRows(S2, <<>>, <<"f32">>, <<"i32">>)  OBVIOUS
<1>3. PlainRows(S3, <<>>, <<"f64">>, <<"i32">>)  OBVIOUS
<1>4. PlainRows(S4, <<>>, <<"i32">>, <<"i64">>)  OBVIOUS
<1>5. PlainRows(S5, <<>>, <<"f32">>, <<"i64">>)  OBVIOUS
<1>6. PlainRows(S6, <<>>, <<"f64">>, <<"i64">>)  OBVIOUS
<1>7. PlainRows(S7, <<>>, <<"i32">>, <<"f32">>)  OBVIOUS
<1>8. PlainRows(S8, <<>>, <<"i64">>, <<"f32">>)  OBVIOUS
<1>9. PlainRows(S9, <<>>, <<"f64">>, <<"f32">>)  OBVIOUS
<1>10. PlainRows(S10, <<>>, <<"i32">>, <<"f64">>)  OBVIOUS
<1>11. PlainRows(S11, <<>>, <<"i64">>, <<"f64">>)  OBVIOUS
<1>12. PlainRows(S12, <<>>, <<"f32">>, <<"f64">>)  OBVIOUS
<1>13. PlainRows(S13, <<>>, <<"f32">>, <<"i32">>)  OBVIOUS
<1>14. PlainRows(S14, <<>>, <<"f64">>, <<"i64">>)  OBVIOUS
<1>15. RuntimeConversions = {unary(S1, "i64", "i32"), Trapping(unary(S2, "f32", "i32")),
         Trapping(unary(S3, "f64", "i32")), unary(S4, "i32", "i64"), Trapping(unary(S5,
         "f32", "i64")), Trapping(unary(S6, "f64", "i64")), unary(S7, "i32", "f32"),
         unary(S8, "i64", "f32"), unary(S9, "f64", "f32"), unary(S10, "i32", "f64"),
         unary(S11, "i64", "f64"), unary(S12, "f32", "f64"), unary(S13, "f32", "i32"),
         unary(S14, "f64", "i64")}
  BY Zenon DEF RuntimeConversions
<1>16. \hA7..\hBF \subseteq S1 \cup S2 \cup S3 \cup S4 \cup S5 \cup S6 \cup S7 \cup S8
         \cup S9 \cup S10 \cup S11 \cup S12 \cup S13 \cup S14  OBVIOUS
<1> HIDE DEF S1, S2, S3, S4, S5, S6, S7, S8, S9, S10, S11, S12, S13, S14, PlainRows,
        PlainSubs, PlainImm, PlainPops, PlainPushes
<1>17. \A r \in RuntimeConversions : Right(r)
  BY <1>1, <1>2, <1>3, <1>4, <1>5, <1>6, <1>7, <1>8, <1>9, <1>10, <1>11, <1>12, <1>13,
     <1>14, <1>15, PlainRight, Zenon DEF unary
<1>18. \A r \in RuntimeConversions : \A op \in r.ops : op \in OpsOf(RuntimeConversions)
  BY Zenon DEF OpsOf
<1>19. (unary(S1, "i64", "i32")).ops = S1 /\ (Trapping(unary(S2, "f32", "i32"))).ops = S2
         /\ (Trapping(unary(S3, "f64", "i32"))).ops = S3 /\ (unary(S4, "i32", "i64")).ops
         = S4 /\ (Trapping(unary(S5, "f32", "i64"))).ops = S5 /\ (Trapping(unary(S6,
         "f64", "i64"))).ops = S6 /\ (unary(S7, "i32", "f32")).ops = S7 /\ (unary(S8,
         "i64", "f32")).ops = S8 /\ (unary(S9, "f64", "f32")).ops = S9 /\ (unary(S10,
         "i32", "f64")).ops = S10 /\ (unary(S11, "i64", "f64")).ops = S11 /\ (unary(S12,
         "f32", "f64")).ops = S12 /\ (unary(S13, "f32", "i32")).ops = S13 /\ (unary(S14,
         "f64", "i64")).ops = S14
  BY DEF Effect, Trapping, unary
<1>20. \A op \in S1 \cup S2 \cup S3 \cup S4 \cup S5 \cup S6 \cup S7 \cup S8 \cup S9 \cup S10 \cup S11 \cup S12 \cup S13 \cup S14 : op \in OpsOf(RuntimeConversions)
  BY <1>15, <1>18, <1>19, Zenon
<1> QED  BY <1>16, <1>17, <1>20

LEMMA RuntimeSaturatingRight ==
  /\ 1000..1007 \subseteq OpsOf(RuntimeSaturating)
  /\ \A r \in RuntimeSaturating : Right(r)
<1> DEFINE S1 == {Fc(0), Fc(1)}
<1> DEFINE S2 == {Fc(2), Fc(3)}
<1> DEFINE S3 == {Fc(4), Fc(5)}
<1> DEFINE S4 == {Fc(6), Fc(7)}
<1> USE DEF Fc, BulkRange, BulkRows, BulkSubs, BulkImm, BulkPops, BulkPushes
<1>1. BulkRows(S1, <<>>, <<"f32">>, <<"i32">>)  OBVIOUS
<1>2. BulkRows(S2, <<>>, <<"f64">>, <<"i32">>)  OBVIOUS
<1>3. BulkRows(S3, <<>>, <<"f32">>, <<"i64">>)  OBVIOUS
<1>4. BulkRows(S4, <<>>, <<"f64">>, <<"i64">>)  OBVIOUS
<1>5. RuntimeSaturating = {unary(S1, "f32", "i32"), unary(S2, "f64", "i32"), unary(S3,
         "f32", "i64"), unary(S4, "f64", "i64")}
  BY Zenon DEF RuntimeSaturating
<1>6. 1000..1007 \subseteq S1 \cup S2 \cup S3 \cup S4  OBVIOUS
<1> HIDE DEF S1, S2, S3, S4, Fc, BulkRange, BulkRows, BulkSubs, BulkImm, BulkPops,
        BulkPushes
<1>7. \A r \in RuntimeSaturating : Right(r)
  BY <1>1, <1>2, <1>3, <1>4, <1>5, BulkRight, Zenon DEF unary
<1>8. \A r \in RuntimeSaturating : \A op \in r.ops : op \in OpsOf(RuntimeSaturating)
  BY Zenon DEF OpsOf
<1>9. (unary(S1, "f32", "i32")).ops = S1 /\ (unary(S2, "f64", "i32")).ops = S2 /\
         (unary(S3, "f32", "i64")).ops = S3 /\ (unary(S4, "f64", "i64")).ops = S4
  BY DEF Effect, unary
<1>10. \A op \in S1 \cup S2 \cup S3 \cup S4 : op \in OpsOf(RuntimeSaturating)
  BY <1>5, <1>8, <1>9, Zenon
<1> QED  BY <1>6, <1>7, <1>10

LEMMA RuntimeBulkRight ==
  /\ 1008..1017 \subseteq OpsOf(RuntimeBulk)
  /\ \A r \in RuntimeBulk : Right(r)
<1> DEFINE S1 == {Fc(8)}
<1> DEFINE S2 == {Fc(9)}
<1> DEFINE S3 == {Fc(10)}
<1> DEFINE S4 == {Fc(11)}
<1> DEFINE S5 == {Fc(12)}
<1> DEFINE S6 == {Fc(13)}
<1> DEFINE S7 == {Fc(14)}
<1> DEFINE S8 == {Fc(15)}
<1> DEFINE S9 == {Fc(16)}
<1> DEFINE S10 == {Fc(17)}
<1> USE DEF Fc, BulkRange, BulkRows, BulkSubs, BulkImm, BulkPops, BulkPushes
<1>1. BulkRows(S1, <<"data", "mem">>, <<"i32", "i32", "addr">>, <<>>)  OBVIOUS
<1>2. BulkRows(S2, <<"data">>, <<>>, <<>>)  OBVIOUS
<1>3. BulkRows(S3, <<"mem", "mem">>, <<"len", "src", "dst">>, <<>>)  OBVIOUS
<1>4. BulkRows(S4, <<"mem">>, <<"addr", "i32", "addr">>, <<>>)  OBVIOUS
<1>5. BulkRows(S5, <<"elem", "table">>, <<"i32", "i32", "i32">>, <<>>)  OBVIOUS
<1>6. BulkRows(S6, <<"elem">>, <<>>, <<>>)  OBVIOUS
<1>7. BulkRows(S7, <<"table", "table">>, <<"i32", "i32", "i32">>, <<>>)  OBVIOUS
<1>8. BulkRows(S8, <<"table">>, <<"i32", "funcref">>, <<"i32">>)  OBVIOUS
<1>9. BulkRows(S9, <<"table">>, <<>>, <<"i32">>)  OBVIOUS
<1>10. BulkRows(S10, <<"table">>, <<"i32", "funcref", "i32">>, <<>>)  OBVIOUS
<1>11. RuntimeBulk = {Trapping(Effect(S1, <<"data", "mem">>, <<"i32", "i32", "addr">>,
         <<>>)), Effect(S2, <<"data">>, <<>>, <<>>), Trapping(Effect(S3, <<"mem", "mem">>,
         <<"len", "src", "dst">>, <<>>)), Trapping(Effect(S4, <<"mem">>, <<"addr", "i32",
         "addr">>, <<>>)), Trapping(Effect(S5, <<"elem", "table">>, <<"i32", "i32",
         "i32">>, <<>>)), Effect(S6, <<"elem">>, <<>>, <<>>), Trapping(Effect(S7,
         <<"table", "table">>, <<"i32", "i32", "i32">>, <<>>)), Effect(S8, <<"table">>,
         <<"i32", "funcref">>, <<"i32">>), Effect(S9, <<"table">>, <<>>, <<"i32">>),
         Trapping(Effect(S10, <<"table">>, <<"i32", "funcref", "i32">>, <<>>))}
  BY Zenon DEF RuntimeBulk
<1>12. 1008..1017 \subseteq S1 \cup S2 \cup S3 \cup S4 \cup S5 \cup S6 \cup S7 \cup S8
         \cup S9 \cup S10  OBVIOUS
<1> HIDE DEF S1, S2, S3, S4, S5, S6, S7, S8, S9, S10, Fc, BulkRange, BulkRows, BulkSubs,
        BulkImm, BulkPops, BulkPushes
<1>13. \A r \in RuntimeBulk : Right(r)
  BY <1>1, <1>2, <1>3, <1>4, <1>5, <1>6, <1>7, <1>8, <1>9, <1>10, <1>11, BulkRight, Zenon
<1>14. \A r \in RuntimeBulk : \A op \in r.ops : op \in OpsOf(RuntimeBulk)
  BY Zenon DEF OpsOf
<1>15. (Trapping(Effect(S1, <<"data", "mem">>, <<"i32", "i32", "addr">>, <<>>))).ops = S1
         /\ (Effect(S2, <<"data">>, <<>>, <<>>)).ops = S2 /\ (Trapping(Effect(S3, <<"mem",
         "mem">>, <<"len", "src", "dst">>, <<>>))).ops = S3 /\ (Trapping(Effect(S4,
         <<"mem">>, <<"addr", "i32", "addr">>, <<>>))).ops = S4 /\ (Trapping(Effect(S5,
         <<"elem", "table">>, <<"i32", "i32", "i32">>, <<>>))).ops = S5 /\ (Effect(S6,
         <<"elem">>, <<>>, <<>>)).ops = S6 /\ (Trapping(Effect(S7, <<"table", "table">>,
         <<"i32", "i32", "i32">>, <<>>))).ops = S7 /\ (Effect(S8, <<"table">>, <<"i32",
         "funcref">>, <<"i32">>)).ops = S8 /\ (Effect(S9, <<"table">>, <<>>,
         <<"i32">>)).ops = S9 /\ (Trapping(Effect(S10, <<"table">>, <<"i32", "funcref",
         "i32">>, <<>>))).ops = S10
  BY DEF Effect, Trapping
<1>16. \A op \in S1 \cup S2 \cup S3 \cup S4 \cup S5 \cup S6 \cup S7 \cup S8 \cup S9 \cup S10 : op \in OpsOf(RuntimeBulk)
  BY <1>11, <1>14, <1>15, Zenon
<1> QED  BY <1>12, <1>13, <1>16

LEMMA RuntimeSimdMemoryRight ==
  /\ FdSet(0..11 \cup 92..95) \subseteq OpsOf(RuntimeSimdMemory)
  /\ \A r \in RuntimeSimdMemory : Right(r)
<1> DEFINE S1 == 0..10 \cup {92, 93}
<1> DEFINE S2 == {11}
<1> DEFINE S3 == {94, 95}
<1> USE DEF SimdRows, SimdSubs, SimdImm, SimdPops, SimdPushes
<1>1. SimdRows(S1, <<"memarg">>, <<"addr">>, <<"v128">>)  OBVIOUS
<1>2. SimdRows(S2, <<"memarg">>, <<"v128", "addr">>, <<>>)  OBVIOUS
<1>3. SimdRows(S3, <<>>, <<"v128">>, <<"v128">>)  OBVIOUS
<1>4. RuntimeSimdMemory = {Trapping(Effect(FdSet(S1), <<"memarg">>, <<"addr">>,
         <<"v128">>)), Trapping(Effect(FdSet(S2), <<"memarg">>, <<"v128", "addr">>,
         <<>>)), unary(FdSet(S3), "v128", "v128")}
  BY Zenon DEF RuntimeSimdMemory
<1>5. 0..11 \cup 92..95 \subseteq S1 \cup S2 \cup S3  OBVIOUS
<1> HIDE DEF S1, S2, S3, SimdRows, SimdSubs, SimdImm, SimdPops, SimdPushes
<1>6. \A r \in RuntimeSimdMemory : Right(r)
  BY <1>1, <1>2, <1>3, <1>4, SimdRight, Zenon DEF unary
<1>7. \A r \in RuntimeSimdMemory : \A op \in r.ops : op \in OpsOf(RuntimeSimdMemory)
  BY Zenon DEF OpsOf
<1>8. (Trapping(Effect(FdSet(S1), <<"memarg">>, <<"addr">>, <<"v128">>))).ops = FdSet(S1)
         /\ (Trapping(Effect(FdSet(S2), <<"memarg">>, <<"v128", "addr">>, <<>>))).ops =
         FdSet(S2) /\ (unary(FdSet(S3), "v128", "v128")).ops = FdSet(S3)
  BY DEF Effect, Trapping, unary
<1>9. \A op \in FdSet(S1 \cup S2 \cup S3) : op \in OpsOf(RuntimeSimdMemory)
  BY <1>4, <1>7, <1>8, Zenon DEF FdSet
<1> QED  BY <1>5, <1>6, <1>9 DEF FdSet

LEMMA RuntimeSimdLaneMemoryRight ==
  /\ FdSet(84..91) \subseteq OpsOf(RuntimeSimdLaneMemory)
  /\ \A r \in RuntimeSimdLaneMemory : Right(r)
<1> DEFINE S1 == {84}
<1> DEFINE S2 == {85}
<1> DEFINE S3 == {86}
<1> DEFINE S4 == {87}
<1> DEFINE S5 == {88}
<1> DEFINE S6 == {89}
<1> DEFINE S7 == {90}
<1> DEFINE S8 == {91}
<1> USE DEF SimdRows, SimdSubs, SimdImm, SimdPops, SimdPushes
<1>1. SimdRows(S1, <<"memarg", "lane16">>, <<"v128", "addr">>, <<"v128">>)  OBVIOUS
<1>2. SimdRows(S2, <<"memarg", "lane8">>, <<"v128", "addr">>, <<"v128">>)  OBVIOUS
<1>3. SimdRows(S3, <<"memarg", "lane4">>, <<"v128", "addr">>, <<"v128">>)  OBVIOUS
<1>4. SimdRows(S4, <<"memarg", "lane2">>, <<"v128", "addr">>, <<"v128">>)  OBVIOUS
<1>5. SimdRows(S5, <<"memarg", "lane16">>, <<"v128", "addr">>, <<>>)  OBVIOUS
<1>6. SimdRows(S6, <<"memarg", "lane8">>, <<"v128", "addr">>, <<>>)  OBVIOUS
<1>7. SimdRows(S7, <<"memarg", "lane4">>, <<"v128", "addr">>, <<>>)  OBVIOUS
<1>8. SimdRows(S8, <<"memarg", "lane2">>, <<"v128", "addr">>, <<>>)  OBVIOUS
<1>9. RuntimeSimdLaneMemory = {Trapping(Effect(FdSet(S1), <<"memarg", "lane16">>,
         <<"v128", "addr">>, <<"v128">>)), Trapping(Effect(FdSet(S2), <<"memarg",
         "lane8">>, <<"v128", "addr">>, <<"v128">>)), Trapping(Effect(FdSet(S3),
         <<"memarg", "lane4">>, <<"v128", "addr">>, <<"v128">>)),
         Trapping(Effect(FdSet(S4), <<"memarg", "lane2">>, <<"v128", "addr">>,
         <<"v128">>)), Trapping(Effect(FdSet(S5), <<"memarg", "lane16">>, <<"v128",
         "addr">>, <<>>)), Trapping(Effect(FdSet(S6), <<"memarg", "lane8">>, <<"v128",
         "addr">>, <<>>)), Trapping(Effect(FdSet(S7), <<"memarg", "lane4">>, <<"v128",
         "addr">>, <<>>)), Trapping(Effect(FdSet(S8), <<"memarg", "lane2">>, <<"v128",
         "addr">>, <<>>))}
  BY Zenon DEF RuntimeSimdLaneMemory
<1>10. 84..91 \subseteq S1 \cup S2 \cup S3 \cup S4 \cup S5 \cup S6 \cup S7 \cup S8  OBVIOUS
<1> HIDE DEF S1, S2, S3, S4, S5, S6, S7, S8, SimdRows, SimdSubs, SimdImm, SimdPops,
        SimdPushes
<1>11. \A r \in RuntimeSimdLaneMemory : Right(r)
  BY <1>1, <1>2, <1>3, <1>4, <1>5, <1>6, <1>7, <1>8, <1>9, SimdRight, Zenon
<1>12. \A r \in RuntimeSimdLaneMemory : \A op \in r.ops : op \in OpsOf(RuntimeSimdLaneMemory)
  BY Zenon DEF OpsOf
<1>13. (Trapping(Effect(FdSet(S1), <<"memarg", "lane16">>, <<"v128", "addr">>,
         <<"v128">>))).ops = FdSet(S1) /\ (Trapping(Effect(FdSet(S2), <<"memarg",
         "lane8">>, <<"v128", "addr">>, <<"v128">>))).ops = FdSet(S2) /\
         (Trapping(Effect(FdSet(S3), <<"memarg", "lane4">>, <<"v128", "addr">>,
         <<"v128">>))).ops = FdSet(S3) /\ (Trapping(Effect(FdSet(S4), <<"memarg",
         "lane2">>, <<"v128", "addr">>, <<"v128">>))).ops = FdSet(S4) /\
         (Trapping(Effect(FdSet(S5), <<"memarg", "lane16">>, <<"v128", "addr">>,
         <<>>))).ops = FdSet(S5) /\ (Trapping(Effect(FdSet(S6), <<"memarg", "lane8">>,
         <<"v128", "addr">>, <<>>))).ops = FdSet(S6) /\ (Trapping(Effect(FdSet(S7),
         <<"memarg", "lane4">>, <<"v128", "addr">>, <<>>))).ops = FdSet(S7) /\
         (Trapping(Effect(FdSet(S8), <<"memarg", "lane2">>, <<"v128", "addr">>,
         <<>>))).ops = FdSet(S8)
  BY DEF Effect, Trapping
<1>14. \A op \in FdSet(S1 \cup S2 \cup S3 \cup S4 \cup S5 \cup S6 \cup S7 \cup S8) : op \in OpsOf(RuntimeSimdLaneMemory)
  BY <1>9, <1>12, <1>13, Zenon DEF FdSet
<1> QED  BY <1>10, <1>11, <1>14 DEF FdSet

LEMMA RuntimeSimdRelaxedRight ==
  /\ FdSet(12..14 \cup 256..275) \subseteq OpsOf(RuntimeSimdRelaxed)
  /\ \A r \in RuntimeSimdRelaxed : Right(r)
<1> DEFINE S1 == {12}
<1> DEFINE S2 == {13}
<1> DEFINE S3 == 257..260
<1> DEFINE S4 == 261..268 \cup {275}
<1> DEFINE S5 == {14, 256} \cup 269..274
<1> USE DEF SimdRows, SimdSubs, SimdImm, SimdPops, SimdPushes
<1>1. SimdRows(S1, <<"fixed16">>, <<>>, <<"v128">>)  OBVIOUS
<1>2. SimdRows(S2, <<"lanes32">>, Vectors(2), <<"v128">>)  OBVIOUS
<1>3. SimdRows(S3, <<>>, <<"v128">>, <<"v128">>)  OBVIOUS
<1>4. SimdRows(S4, <<>>, Vectors(3), <<"v128">>)  OBVIOUS
<1>5. SimdRows(S5, <<>>, <<"v128", "v128">>, <<"v128">>)  OBVIOUS
<1>6. RuntimeSimdRelaxed = {Effect(FdSet(S1), <<"fixed16">>, <<>>, <<"v128">>),
         Effect(FdSet(S2), <<"lanes32">>, Vectors(2), <<"v128">>), unary(FdSet(S3),
         "v128", "v128"), Effect(FdSet(S4), <<>>, Vectors(3), <<"v128">>),
         binary_same(FdSet(S5), "v128")}
  BY Zenon DEF RuntimeSimdRelaxed
<1>7. 12..14 \cup 256..275 \subseteq S1 \cup S2 \cup S3 \cup S4 \cup S5  OBVIOUS
<1> HIDE DEF S1, S2, S3, S4, S5, SimdRows, SimdSubs, SimdImm, SimdPops, SimdPushes
<1>8. \A r \in RuntimeSimdRelaxed : Right(r)
  BY <1>1, <1>2, <1>3, <1>4, <1>5, <1>6, SimdRight, Zenon DEF binary_same, unary
<1>9. \A r \in RuntimeSimdRelaxed : \A op \in r.ops : op \in OpsOf(RuntimeSimdRelaxed)
  BY Zenon DEF OpsOf
<1>10. (Effect(FdSet(S1), <<"fixed16">>, <<>>, <<"v128">>)).ops = FdSet(S1) /\
         (Effect(FdSet(S2), <<"lanes32">>, Vectors(2), <<"v128">>)).ops = FdSet(S2) /\
         (unary(FdSet(S3), "v128", "v128")).ops = FdSet(S3) /\ (Effect(FdSet(S4), <<>>,
         Vectors(3), <<"v128">>)).ops = FdSet(S4) /\ (binary_same(FdSet(S5), "v128")).ops
         = FdSet(S5)
  BY DEF Effect, binary_same, unary
<1>11. \A op \in FdSet(S1 \cup S2 \cup S3 \cup S4 \cup S5) : op \in OpsOf(RuntimeSimdRelaxed)
  BY <1>6, <1>9, <1>10, Zenon DEF FdSet
<1> QED  BY <1>7, <1>8, <1>11 DEF FdSet

LEMMA RuntimeSimdSplatsRight ==
  /\ FdSet(15..26) \subseteq OpsOf(RuntimeSimdSplats)
  /\ \A r \in RuntimeSimdSplats : Right(r)
<1> DEFINE S1 == 15..17
<1> DEFINE S2 == {18}
<1> DEFINE S3 == {19}
<1> DEFINE S4 == {20}
<1> DEFINE S5 == {21, 22}
<1> DEFINE S6 == {23}
<1> DEFINE S7 == {24, 25}
<1> DEFINE S8 == {26}
<1> USE DEF SimdRows, SimdSubs, SimdImm, SimdPops, SimdPushes
<1>1. SimdRows(S1, <<>>, <<"i32">>, <<"v128">>)  OBVIOUS
<1>2. SimdRows(S2, <<>>, <<"i64">>, <<"v128">>)  OBVIOUS
<1>3. SimdRows(S3, <<>>, <<"f32">>, <<"v128">>)  OBVIOUS
<1>4. SimdRows(S4, <<>>, <<"f64">>, <<"v128">>)  OBVIOUS
<1>5. SimdRows(S5, <<"lane16">>, <<"v128">>, <<"i32">>)  OBVIOUS
<1>6. SimdRows(S6, <<"lane16">>, <<"i32", "v128">>, <<"v128">>)  OBVIOUS
<1>7. SimdRows(S7, <<"lane8">>, <<"v128">>, <<"i32">>)  OBVIOUS
<1>8. SimdRows(S8, <<"lane8">>, <<"i32", "v128">>, <<"v128">>)  OBVIOUS
<1>9. RuntimeSimdSplats = {unary(FdSet(S1), "i32", "v128"), unary(FdSet(S2), "i64",
         "v128"), unary(FdSet(S3), "f32", "v128"), unary(FdSet(S4), "f64", "v128"),
         Effect(FdSet(S5), <<"lane16">>, <<"v128">>, <<"i32">>), Effect(FdSet(S6),
         <<"lane16">>, <<"i32", "v128">>, <<"v128">>), Effect(FdSet(S7), <<"lane8">>,
         <<"v128">>, <<"i32">>), Effect(FdSet(S8), <<"lane8">>, <<"i32", "v128">>,
         <<"v128">>)}
  BY Zenon DEF RuntimeSimdSplats
<1>10. 15..26 \subseteq S1 \cup S2 \cup S3 \cup S4 \cup S5 \cup S6 \cup S7 \cup S8  OBVIOUS
<1> HIDE DEF S1, S2, S3, S4, S5, S6, S7, S8, SimdRows, SimdSubs, SimdImm, SimdPops,
        SimdPushes
<1>11. \A r \in RuntimeSimdSplats : Right(r)
  BY <1>1, <1>2, <1>3, <1>4, <1>5, <1>6, <1>7, <1>8, <1>9, SimdRight, Zenon DEF unary
<1>12. \A r \in RuntimeSimdSplats : \A op \in r.ops : op \in OpsOf(RuntimeSimdSplats)
  BY Zenon DEF OpsOf
<1>13. (unary(FdSet(S1), "i32", "v128")).ops = FdSet(S1) /\ (unary(FdSet(S2), "i64",
         "v128")).ops = FdSet(S2) /\ (unary(FdSet(S3), "f32", "v128")).ops = FdSet(S3) /\
         (unary(FdSet(S4), "f64", "v128")).ops = FdSet(S4) /\ (Effect(FdSet(S5),
         <<"lane16">>, <<"v128">>, <<"i32">>)).ops = FdSet(S5) /\ (Effect(FdSet(S6),
         <<"lane16">>, <<"i32", "v128">>, <<"v128">>)).ops = FdSet(S6) /\
         (Effect(FdSet(S7), <<"lane8">>, <<"v128">>, <<"i32">>)).ops = FdSet(S7) /\
         (Effect(FdSet(S8), <<"lane8">>, <<"i32", "v128">>, <<"v128">>)).ops = FdSet(S8)
  BY DEF Effect, unary
<1>14. \A op \in FdSet(S1 \cup S2 \cup S3 \cup S4 \cup S5 \cup S6 \cup S7 \cup S8) : op \in OpsOf(RuntimeSimdSplats)
  BY <1>9, <1>12, <1>13, Zenon DEF FdSet
<1> QED  BY <1>10, <1>11, <1>14 DEF FdSet

LEMMA RuntimeSimdBytesRight ==
  /\ FdSet(35..64 \cup 77..83 \cup 96..102 \cup 107..115 \cup 118..121 \cup {123})
            \subseteq OpsOf(RuntimeSimdBytes)
  /\ \A r \in RuntimeSimdBytes : Right(r)
<1> DEFINE S1 == 35..64 \cup 78..81 \cup {101, 102} \cup 110..115 \cup 118..121 \cup {123}
<1> DEFINE S2 == {77, 96, 97, 98}
<1> DEFINE S3 == {82}
<1> DEFINE S4 == {83, 99, 100}
<1> DEFINE S5 == 107..109
<1> USE DEF SimdRows, SimdSubs, SimdImm, SimdPops, SimdPushes
<1>1. SimdRows(S1, <<>>, <<"v128", "v128">>, <<"v128">>)  OBVIOUS
<1>2. SimdRows(S2, <<>>, <<"v128">>, <<"v128">>)  OBVIOUS
<1>3. SimdRows(S3, <<>>, Vectors(3), <<"v128">>)  OBVIOUS
<1>4. SimdRows(S4, <<>>, <<"v128">>, <<"i32">>)  OBVIOUS
<1>5. SimdRows(S5, <<>>, <<"i32", "v128">>, <<"v128">>)  OBVIOUS
<1>6. RuntimeSimdBytes = {binary_same(FdSet(S1), "v128"), unary(FdSet(S2), "v128",
         "v128"), Effect(FdSet(S3), <<>>, Vectors(3), <<"v128">>), unary(FdSet(S4),
         "v128", "i32"), Effect(FdSet(S5), <<>>, <<"i32", "v128">>, <<"v128">>)}
  BY Zenon DEF RuntimeSimdBytes
<1>7. 35..64 \cup 77..83 \cup 96..102 \cup 107..115 \cup 118..121 \cup {123} \subseteq S1
         \cup S2 \cup S3 \cup S4 \cup S5  OBVIOUS
<1> HIDE DEF S1, S2, S3, S4, S5, SimdRows, SimdSubs, SimdImm, SimdPops, SimdPushes
<1>8. \A r \in RuntimeSimdBytes : Right(r)
  BY <1>1, <1>2, <1>3, <1>4, <1>5, <1>6, SimdRight, Zenon DEF binary_same, unary
<1>9. \A r \in RuntimeSimdBytes : \A op \in r.ops : op \in OpsOf(RuntimeSimdBytes)
  BY Zenon DEF OpsOf
<1>10. (binary_same(FdSet(S1), "v128")).ops = FdSet(S1) /\ (unary(FdSet(S2), "v128",
         "v128")).ops = FdSet(S2) /\ (Effect(FdSet(S3), <<>>, Vectors(3), <<"v128">>)).ops
         = FdSet(S3) /\ (unary(FdSet(S4), "v128", "i32")).ops = FdSet(S4) /\
         (Effect(FdSet(S5), <<>>, <<"i32", "v128">>, <<"v128">>)).ops = FdSet(S5)
  BY DEF Effect, binary_same, unary
<1>11. \A op \in FdSet(S1 \cup S2 \cup S3 \cup S4 \cup S5) : op \in OpsOf(RuntimeSimdBytes)
  BY <1>6, <1>9, <1>10, Zenon DEF FdSet
<1> QED  BY <1>7, <1>8, <1>11 DEF FdSet

LEMMA RuntimeSimdShortsRight ==
  /\ FdSet(124..147 \cup 149..153 \cup 155..161 \cup {163, 164}) \subseteq
            OpsOf(RuntimeSimdShorts)
  /\ \A r \in RuntimeSimdShorts : Right(r)
<1> DEFINE S1 == 124..129 \cup 135..138 \cup {160, 161}
<1> DEFINE S2 == {130, 133, 134} \cup 142..147 \cup 149..153 \cup 155..159
<1> DEFINE S3 == {131, 132, 163, 164}
<1> DEFINE S4 == 139..141
<1> USE DEF SimdRows, SimdSubs, SimdImm, SimdPops, SimdPushes
<1>1. SimdRows(S1, <<>>, <<"v128">>, <<"v128">>)  OBVIOUS
<1>2. SimdRows(S2, <<>>, <<"v128", "v128">>, <<"v128">>)  OBVIOUS
<1>3. SimdRows(S3, <<>>, <<"v128">>, <<"i32">>)  OBVIOUS
<1>4. SimdRows(S4, <<>>, <<"i32", "v128">>, <<"v128">>)  OBVIOUS
<1>5. RuntimeSimdShorts = {unary(FdSet(S1), "v128", "v128"), binary_same(FdSet(S2),
         "v128"), unary(FdSet(S3), "v128", "i32"), Effect(FdSet(S4), <<>>, <<"i32",
         "v128">>, <<"v128">>)}
  BY Zenon DEF RuntimeSimdShorts
<1>6. 124..147 \cup 149..153 \cup 155..161 \cup {163, 164} \subseteq S1 \cup S2 \cup S3
         \cup S4  OBVIOUS
<1> HIDE DEF S1, S2, S3, S4, SimdRows, SimdSubs, SimdImm, SimdPops, SimdPushes
<1>7. \A r \in RuntimeSimdShorts : Right(r)
  BY <1>1, <1>2, <1>3, <1>4, <1>5, SimdRight, Zenon DEF binary_same, unary
<1>8. \A r \in RuntimeSimdShorts : \A op \in r.ops : op \in OpsOf(RuntimeSimdShorts)
  BY Zenon DEF OpsOf
<1>9. (unary(FdSet(S1), "v128", "v128")).ops = FdSet(S1) /\ (binary_same(FdSet(S2),
         "v128")).ops = FdSet(S2) /\ (unary(FdSet(S3), "v128", "i32")).ops = FdSet(S3) /\
         (Effect(FdSet(S4), <<>>, <<"i32", "v128">>, <<"v128">>)).ops = FdSet(S4)
  BY DEF Effect, binary_same, unary
<1>10. \A op \in FdSet(S1 \cup S2 \cup S3 \cup S4) : op \in OpsOf(RuntimeSimdShorts)
  BY <1>5, <1>8, <1>9, Zenon DEF FdSet
<1> QED  BY <1>6, <1>7, <1>10 DEF FdSet

LEMMA RuntimeSimdWordsRight ==
  /\ FdSet(103..106 \cup 171..173 \cup 199..206 \cup 213..225 \cup {116, 117, 122, 148,
            192, 193, 195, 196, 209, 227, 236, 237, 239}) \subseteq
            OpsOf(RuntimeSimdWords)
  /\ \A r \in RuntimeSimdWords : Right(r)
<1> DEFINE S1 == {192, 193} \cup 199..202 \cup 103..106 \cup {116, 117, 122, 148} \cup
                {224, 225, 227, 236, 237, 239}
<1> DEFINE S2 == {206, 209} \cup 213..223
<1> DEFINE S3 == {195, 196}
<1> DEFINE S4 == 171..173 \cup 203..205
<1> USE DEF SimdRows, SimdSubs, SimdImm, SimdPops, SimdPushes
<1>1. SimdRows(S1, <<>>, <<"v128">>, <<"v128">>)  OBVIOUS
<1>2. SimdRows(S2, <<>>, <<"v128", "v128">>, <<"v128">>)  OBVIOUS
<1>3. SimdRows(S3, <<>>, <<"v128">>, <<"i32">>)  OBVIOUS
<1>4. SimdRows(S4, <<>>, <<"i32", "v128">>, <<"v128">>)  OBVIOUS
<1>5. RuntimeSimdWords = {unary(FdSet(S1), "v128", "v128"), binary_same(FdSet(S2),
         "v128"), unary(FdSet(S3), "v128", "i32"), Effect(FdSet(S4), <<>>, <<"i32",
         "v128">>, <<"v128">>)}
  BY Zenon DEF RuntimeSimdWords
<1>6. 103..106 \cup 171..173 \cup 199..206 \cup 213..225 \cup {116, 117, 122, 148, 192,
         193, 195, 196, 209, 227, 236, 237, 239} \subseteq S1 \cup S2 \cup S3 \cup S4  OBVIOUS
<1> HIDE DEF S1, S2, S3, S4, SimdRows, SimdSubs, SimdImm, SimdPops, SimdPushes
<1>7. \A r \in RuntimeSimdWords : Right(r)
  BY <1>1, <1>2, <1>3, <1>4, <1>5, SimdRight, Zenon DEF binary_same, unary
<1>8. \A r \in RuntimeSimdWords : \A op \in r.ops : op \in OpsOf(RuntimeSimdWords)
  BY Zenon DEF OpsOf
<1>9. (unary(FdSet(S1), "v128", "v128")).ops = FdSet(S1) /\ (binary_same(FdSet(S2),
         "v128")).ops = FdSet(S2) /\ (unary(FdSet(S3), "v128", "i32")).ops = FdSet(S3) /\
         (Effect(FdSet(S4), <<>>, <<"i32", "v128">>, <<"v128">>)).ops = FdSet(S4)
  BY DEF Effect, binary_same, unary
<1>10. \A op \in FdSet(S1 \cup S2 \cup S3 \cup S4) : op \in OpsOf(RuntimeSimdWords)
  BY <1>5, <1>8, <1>9, Zenon DEF FdSet
<1> QED  BY <1>6, <1>7, <1>10 DEF FdSet

LEMMA RuntimeSimdFloatsRight ==
  /\ FdSet(167..170 \cup 181..186 \cup 188..191 \cup 228..235 \cup 240..255 \cup {174,
            177}) \subseteq OpsOf(RuntimeSimdFloats)
  /\ \A r \in RuntimeSimdFloats : Right(r)
<1> DEFINE S1 == 228..235 \cup 240..247 \cup {174, 177} \cup 181..186 \cup 188..191
<1> DEFINE S2 == 248..255 \cup 167..170
<1> USE DEF SimdRows, SimdSubs, SimdImm, SimdPops, SimdPushes
<1>1. SimdRows(S1, <<>>, <<"v128", "v128">>, <<"v128">>)  OBVIOUS
<1>2. SimdRows(S2, <<>>, <<"v128">>, <<"v128">>)  OBVIOUS
<1>3. RuntimeSimdFloats = {binary_same(FdSet(S1), "v128"), unary(FdSet(S2), "v128",
         "v128")}
  BY Zenon DEF RuntimeSimdFloats
<1>4. 167..170 \cup 181..186 \cup 188..191 \cup 228..235 \cup 240..255 \cup {174, 177}
         \subseteq S1 \cup S2  OBVIOUS
<1> HIDE DEF S1, S2, SimdRows, SimdSubs, SimdImm, SimdPops, SimdPushes
<1>5. \A r \in RuntimeSimdFloats : Right(r)
  BY <1>1, <1>2, <1>3, SimdRight, Zenon DEF binary_same, unary
<1>6. \A r \in RuntimeSimdFloats : \A op \in r.ops : op \in OpsOf(RuntimeSimdFloats)
  BY Zenon DEF OpsOf
<1>7. (binary_same(FdSet(S1), "v128")).ops = FdSet(S1) /\ (unary(FdSet(S2), "v128",
         "v128")).ops = FdSet(S2)
  BY DEF Effect, binary_same, unary
<1>8. \A op \in FdSet(S1 \cup S2) : op \in OpsOf(RuntimeSimdFloats)
  BY <1>3, <1>6, <1>7, Zenon DEF FdSet
<1> QED  BY <1>4, <1>5, <1>8 DEF FdSet

LEMMA RuntimeSimdWideLanesRight ==
  /\ FdSet(27..34) \subseteq OpsOf(RuntimeSimdWideLanes)
  /\ \A r \in RuntimeSimdWideLanes : Right(r)
<1> DEFINE S1 == {27}
<1> DEFINE S2 == {28}
<1> DEFINE S3 == {29}
<1> DEFINE S4 == {30}
<1> DEFINE S5 == {31}
<1> DEFINE S6 == {32}
<1> DEFINE S7 == {33}
<1> DEFINE S8 == {34}
<1> USE DEF SimdRows, SimdSubs, SimdImm, SimdPops, SimdPushes
<1>1. SimdRows(S1, <<"lane4">>, <<"v128">>, <<"i32">>)  OBVIOUS
<1>2. SimdRows(S2, <<"lane4">>, <<"i32", "v128">>, <<"v128">>)  OBVIOUS
<1>3. SimdRows(S3, <<"lane2">>, <<"v128">>, <<"i64">>)  OBVIOUS
<1>4. SimdRows(S4, <<"lane2">>, <<"i64", "v128">>, <<"v128">>)  OBVIOUS
<1>5. SimdRows(S5, <<"lane4">>, <<"v128">>, <<"f32">>)  OBVIOUS
<1>6. SimdRows(S6, <<"lane4">>, <<"f32", "v128">>, <<"v128">>)  OBVIOUS
<1>7. SimdRows(S7, <<"lane2">>, <<"v128">>, <<"f64">>)  OBVIOUS
<1>8. SimdRows(S8, <<"lane2">>, <<"f64", "v128">>, <<"v128">>)  OBVIOUS
<1>9. RuntimeSimdWideLanes = {Effect(FdSet(S1), <<"lane4">>, <<"v128">>, <<"i32">>),
         Effect(FdSet(S2), <<"lane4">>, <<"i32", "v128">>, <<"v128">>), Effect(FdSet(S3),
         <<"lane2">>, <<"v128">>, <<"i64">>), Effect(FdSet(S4), <<"lane2">>, <<"i64",
         "v128">>, <<"v128">>), Effect(FdSet(S5), <<"lane4">>, <<"v128">>, <<"f32">>),
         Effect(FdSet(S6), <<"lane4">>, <<"f32", "v128">>, <<"v128">>), Effect(FdSet(S7),
         <<"lane2">>, <<"v128">>, <<"f64">>), Effect(FdSet(S8), <<"lane2">>, <<"f64",
         "v128">>, <<"v128">>)}
  BY Zenon DEF RuntimeSimdWideLanes
<1>10. 27..34 \subseteq S1 \cup S2 \cup S3 \cup S4 \cup S5 \cup S6 \cup S7 \cup S8  OBVIOUS
<1> HIDE DEF S1, S2, S3, S4, S5, S6, S7, S8, SimdRows, SimdSubs, SimdImm, SimdPops,
        SimdPushes
<1>11. \A r \in RuntimeSimdWideLanes : Right(r)
  BY <1>1, <1>2, <1>3, <1>4, <1>5, <1>6, <1>7, <1>8, <1>9, SimdRight, Zenon
<1>12. \A r \in RuntimeSimdWideLanes : \A op \in r.ops : op \in OpsOf(RuntimeSimdWideLanes)
  BY Zenon DEF OpsOf
<1>13. (Effect(FdSet(S1), <<"lane4">>, <<"v128">>, <<"i32">>)).ops = FdSet(S1) /\
         (Effect(FdSet(S2), <<"lane4">>, <<"i32", "v128">>, <<"v128">>)).ops = FdSet(S2)
         /\ (Effect(FdSet(S3), <<"lane2">>, <<"v128">>, <<"i64">>)).ops = FdSet(S3) /\
         (Effect(FdSet(S4), <<"lane2">>, <<"i64", "v128">>, <<"v128">>)).ops = FdSet(S4)
         /\ (Effect(FdSet(S5), <<"lane4">>, <<"v128">>, <<"f32">>)).ops = FdSet(S5) /\
         (Effect(FdSet(S6), <<"lane4">>, <<"f32", "v128">>, <<"v128">>)).ops = FdSet(S6)
         /\ (Effect(FdSet(S7), <<"lane2">>, <<"v128">>, <<"f64">>)).ops = FdSet(S7) /\
         (Effect(FdSet(S8), <<"lane2">>, <<"f64", "v128">>, <<"v128">>)).ops = FdSet(S8)
  BY DEF Effect
<1>14. \A op \in FdSet(S1 \cup S2 \cup S3 \cup S4 \cup S5 \cup S6 \cup S7 \cup S8) : op \in OpsOf(RuntimeSimdWideLanes)
  BY <1>9, <1>12, <1>13, Zenon DEF FdSet
<1> QED  BY <1>10, <1>11, <1>14 DEF FdSet

LEMMA RuntimeReferencesExecute ==
  /\ \hD0..\hD2 \subseteq OpsOf(RuntimeReferences)
  /\ \A r \in RuntimeReferences : Executes(r)
<1> USE DEF PlainSubs, PlainImm, PlainPops, PlainPushes, Known, Imms, Pops, Pushes, Executes, Effect
<1>1. Executes(Effect({\hD0}, <<"reftype">>, <<>>, <<"funcref">>))  OBVIOUS
<1>2. Executes(unary({\hD1}, "funcref", "i32"))  BY DEF unary
<1>3. Executes(Effect({\hD2}, <<"u32">>, <<>>, <<"funcref">>))  OBVIOUS
<1>4. \A r \in RuntimeReferences : r.ops \subseteq OpsOf(RuntimeReferences)
  BY Zenon DEF OpsOf
<1>5. \hD0..\hD2 \subseteq OpsOf(RuntimeReferences)
  BY <1>4 DEF RuntimeReferences, unary
<1> HIDE DEF Executes
<1> QED  BY <1>1, <1>2, <1>3, <1>5 DEF RuntimeReferences

LEMMA RightExecutes == ASSUME NEW r, Right(r) PROVE Executes(r)
  BY DEF Right, Executes

-----------------------------------------------------------------------------
(* The scanner's rows.                                                     *)

SkipRows(S, imm) == S \in SUBSET Nat /\ \A op \in S : Skip(op) = imm
BulkSkipRows(S, imm) == S \in SUBSET (0..999) /\ \A s \in S : BulkSkip(s) = imm
SimdSkipRows(S, imm) == S \in SUBSET Nat /\ \A s \in S : SimdImm(s) = imm

LEMMA SkipsSkipped ==
  ASSUME NEW S, NEW imm, SkipRows(S, imm)
  PROVE  Skipped(Skips(S, imm))
  BY DEF Skipped, Skips, SkipRows

LEMMA BulkSkipsSkipped ==
  ASSUME NEW S, NEW imm, BulkSkipRows(S, imm)
  PROVE  Skipped(Skips({Fc(s) : s \in S}, imm))
  BY DEF Skipped, Skips, BulkSkipRows, Fc, Skip

LEMMA SimdSkipsSkipped ==
  ASSUME NEW S, NEW imm, SimdSkipRows(S, imm)
  PROVE  Skipped(Skips(FdSet(S), imm))
  BY DEF Skipped, Skips, SimdSkipRows, FdSet, Fd, Skip

LEMMA ScannerPlainSkipped ==
  /\ \h00..\h01 \cup \h0C..\h13 \cup \h1A..\h1C \cup \h20..\h26 \cup \h28..\hC4 \cup
            \hD0..\hD2 \subseteq OpsOf(ScannerPlain)
  /\ \A r \in ScannerPlain : Skipped(r)
<1> DEFINE S1 == {\h0C, \h0D, \h10, \h12} \cup \h20..\h26 \cup {\h3F, \h40, \hD2}
<1> DEFINE S2 == {\h0E}
<1> DEFINE S3 == {\h11, \h13}
<1> DEFINE S4 == {\h1C}
<1> DEFINE S5 == \h28..\h3E
<1> DEFINE S6 == {\h41}
<1> DEFINE S7 == {\h42}
<1> DEFINE S8 == {\h43}
<1> DEFINE S9 == {\h44}
<1> DEFINE S10 == {\h00, \h01, \h0F, \h1A, \h1B} \cup \h45..\hC4 \cup {\hD1}
<1> DEFINE S11 == {\hD0}
<1> USE DEF SkipRows, SimdSkipRows, Skip, PlainSkip, BulkSkip, PlainImm, SimdImm, Fc
<1>1. SkipRows(S1, <<"u32">>)  OBVIOUS
<1>2. SkipRows(S2, <<"depths">>)  OBVIOUS
<1>3. SkipRows(S3, <<"u32", "u32">>)  OBVIOUS
<1>4. SkipRows(S4, <<"seltype">>)  OBVIOUS
<1>5. SkipRows(S5, <<"memarg">>)  OBVIOUS
<1>6. SkipRows(S6, <<"leb32">>)  OBVIOUS
<1>7. SkipRows(S7, <<"leb64">>)  OBVIOUS
<1>8. SkipRows(S8, <<"fixed4">>)  OBVIOUS
<1>9. SkipRows(S9, <<"fixed8">>)  OBVIOUS
<1>10. SkipRows(S10, <<>>)  OBVIOUS
<1>11. SkipRows(S11, <<"reftype">>)  OBVIOUS
<1>12. ScannerPlain = {Skips(S1, <<"u32">>), Skips(S2, <<"depths">>), Skips(S3, <<"u32",
         "u32">>), Skips(S4, <<"seltype">>), Skips(S5, <<"memarg">>), Skips(S6,
         <<"leb32">>), Skips(S7, <<"leb64">>), Skips(S8, <<"fixed4">>), Skips(S9,
         <<"fixed8">>), Skips(S10, <<>>), Skips(S11, <<"reftype">>)}
  BY Zenon DEF ScannerPlain
<1>13. \h00..\h01 \cup \h0C..\h13 \cup \h1A..\h1C \cup \h20..\h26 \cup \h28..\hC4 \cup
         \hD0..\hD2 \subseteq S1 \cup S2 \cup S3 \cup S4 \cup S5 \cup S6 \cup S7 \cup S8
         \cup S9 \cup S10 \cup S11  OBVIOUS
<1> HIDE DEF S1, S2, S3, S4, S5, S6, S7, S8, S9, S10, S11, SkipRows, SimdSkipRows, Skip,
        PlainSkip, BulkSkip, PlainImm, SimdImm, Fc
<1>14. \A r \in ScannerPlain : Skipped(r)
  BY <1>1, <1>2, <1>3, <1>4, <1>5, <1>6, <1>7, <1>8, <1>9, <1>10, <1>11, <1>12, SkipsSkipped, SimdSkipsSkipped, Zenon
<1>15. \A r \in ScannerPlain : r.ops \subseteq OpsOf(ScannerPlain)
  BY Zenon DEF OpsOf
<1>16. Skips(S1, <<"u32">>).ops = S1 /\ Skips(S2, <<"depths">>).ops = S2 /\ Skips(S3,
         <<"u32", "u32">>).ops = S3 /\ Skips(S4, <<"seltype">>).ops = S4 /\ Skips(S5,
         <<"memarg">>).ops = S5 /\ Skips(S6, <<"leb32">>).ops = S6 /\ Skips(S7,
         <<"leb64">>).ops = S7 /\ Skips(S8, <<"fixed4">>).ops = S8 /\ Skips(S9,
         <<"fixed8">>).ops = S9 /\ Skips(S10, <<>>).ops = S10 /\ Skips(S11,
         <<"reftype">>).ops = S11
  BY DEF Skips
<1>17. S1 \subseteq OpsOf(ScannerPlain) /\ S2 \subseteq OpsOf(ScannerPlain) /\ S3
         \subseteq OpsOf(ScannerPlain) /\ S4 \subseteq OpsOf(ScannerPlain) /\ S5 \subseteq
         OpsOf(ScannerPlain) /\ S6 \subseteq OpsOf(ScannerPlain) /\ S7 \subseteq
         OpsOf(ScannerPlain) /\ S8 \subseteq OpsOf(ScannerPlain) /\ S9 \subseteq
         OpsOf(ScannerPlain) /\ S10 \subseteq OpsOf(ScannerPlain) /\ S11 \subseteq
         OpsOf(ScannerPlain)
  BY <1>12, <1>15, <1>16, Zenon
<1> QED  BY <1>13, <1>14, <1>17 DEF FdSet

LEMMA ScannerSimdMemorySkipped ==
  /\ FdSet(0..13 \cup 84..93) \subseteq OpsOf(ScannerSimdMemory)
  /\ \A r \in ScannerSimdMemory : Skipped(r)
<1> DEFINE S1 == 0..11 \cup {92, 93}
<1> DEFINE S2 == {84, 88}
<1> DEFINE S3 == {85, 89}
<1> DEFINE S4 == {86, 90}
<1> DEFINE S5 == {87, 91}
<1> DEFINE S6 == {12}
<1> DEFINE S7 == {13}
<1> USE DEF SkipRows, SimdSkipRows, Skip, PlainSkip, BulkSkip, PlainImm, SimdImm, Fc
<1>1. SimdSkipRows(S1, <<"memarg">>)  OBVIOUS
<1>2. SimdSkipRows(S2, <<"memarg", "lane16">>)  OBVIOUS
<1>3. SimdSkipRows(S3, <<"memarg", "lane8">>)  OBVIOUS
<1>4. SimdSkipRows(S4, <<"memarg", "lane4">>)  OBVIOUS
<1>5. SimdSkipRows(S5, <<"memarg", "lane2">>)  OBVIOUS
<1>6. SimdSkipRows(S6, <<"fixed16">>)  OBVIOUS
<1>7. SimdSkipRows(S7, <<"lanes32">>)  OBVIOUS
<1>8. ScannerSimdMemory = {Skips(FdSet(S1), <<"memarg">>), Skips(FdSet(S2), <<"memarg",
         "lane16">>), Skips(FdSet(S3), <<"memarg", "lane8">>), Skips(FdSet(S4),
         <<"memarg", "lane4">>), Skips(FdSet(S5), <<"memarg", "lane2">>), Skips(FdSet(S6),
         <<"fixed16">>), Skips(FdSet(S7), <<"lanes32">>)}
  BY Zenon DEF ScannerSimdMemory
<1>9. 0..13 \cup 84..93 \subseteq S1 \cup S2 \cup S3 \cup S4 \cup S5 \cup S6 \cup S7  OBVIOUS
<1> HIDE DEF S1, S2, S3, S4, S5, S6, S7, SkipRows, SimdSkipRows, Skip, PlainSkip,
        BulkSkip, PlainImm, SimdImm, Fc
<1>10. \A r \in ScannerSimdMemory : Skipped(r)
  BY <1>1, <1>2, <1>3, <1>4, <1>5, <1>6, <1>7, <1>8, SkipsSkipped, SimdSkipsSkipped, Zenon
<1>11. \A r \in ScannerSimdMemory : r.ops \subseteq OpsOf(ScannerSimdMemory)
  BY Zenon DEF OpsOf
<1>12. Skips(FdSet(S1), <<"memarg">>).ops = FdSet(S1) /\ Skips(FdSet(S2), <<"memarg",
         "lane16">>).ops = FdSet(S2) /\ Skips(FdSet(S3), <<"memarg", "lane8">>).ops =
         FdSet(S3) /\ Skips(FdSet(S4), <<"memarg", "lane4">>).ops = FdSet(S4) /\
         Skips(FdSet(S5), <<"memarg", "lane2">>).ops = FdSet(S5) /\ Skips(FdSet(S6),
         <<"fixed16">>).ops = FdSet(S6) /\ Skips(FdSet(S7), <<"lanes32">>).ops = FdSet(S7)
  BY DEF Skips
<1>13. FdSet(S1) \subseteq OpsOf(ScannerSimdMemory) /\ FdSet(S2) \subseteq
         OpsOf(ScannerSimdMemory) /\ FdSet(S3) \subseteq OpsOf(ScannerSimdMemory) /\
         FdSet(S4) \subseteq OpsOf(ScannerSimdMemory) /\ FdSet(S5) \subseteq
         OpsOf(ScannerSimdMemory) /\ FdSet(S6) \subseteq OpsOf(ScannerSimdMemory) /\
         FdSet(S7) \subseteq OpsOf(ScannerSimdMemory)
  BY <1>8, <1>11, <1>12, Zenon
<1> QED  BY <1>9, <1>10, <1>13 DEF FdSet

LEMMA ScannerSimdPlainSkipped ==
  /\ FdSet(14..20 \cup 35..64 \cup 77..83 \cup 94..153 \cup 155..161 \cup 167..174 \cup
            181..186 \cup 188..193 \cup 199..206 \cup 213..225 \cup 227..237 \cup 239..275
            \cup {163, 164, 177, 195, 196, 209}) \subseteq OpsOf(ScannerSimdPlain)
  /\ \A r \in ScannerSimdPlain : Skipped(r)
<1> DEFINE S1 == 14..20 \cup 35..64 \cup 77..83 \cup 94..153 \cup 155..161 \cup {163, 164}
                \cup 167..174 \cup {177} \cup 181..186 \cup 188..193 \cup {195, 196} \cup
                199..206 \cup {209} \cup 213..225 \cup 227..237 \cup 239..275
<1> USE DEF SkipRows, SimdSkipRows, Skip, PlainSkip, BulkSkip, PlainImm, SimdImm, Fc
<1>1. SimdSkipRows(S1, <<>>)  OBVIOUS
<1>2. ScannerSimdPlain = {Skips(FdSet(S1), <<>>)}
  BY Zenon DEF ScannerSimdPlain
<1>3. 14..20 \cup 35..64 \cup 77..83 \cup 94..153 \cup 155..161 \cup 167..174 \cup
         181..186 \cup 188..193 \cup 199..206 \cup 213..225 \cup 227..237 \cup 239..275
         \cup {163, 164, 177, 195, 196, 209} \subseteq S1  OBVIOUS
<1> HIDE DEF S1, SkipRows, SimdSkipRows, Skip, PlainSkip, BulkSkip, PlainImm, SimdImm, Fc
<1>4. \A r \in ScannerSimdPlain : Skipped(r)
  BY <1>1, <1>2, SkipsSkipped, SimdSkipsSkipped, Zenon
<1>5. \A r \in ScannerSimdPlain : r.ops \subseteq OpsOf(ScannerSimdPlain)
  BY Zenon DEF OpsOf
<1>6. Skips(FdSet(S1), <<>>).ops = FdSet(S1)
  BY DEF Skips
<1>7. FdSet(S1) \subseteq OpsOf(ScannerSimdPlain)
  BY <1>2, <1>5, <1>6, Zenon
<1> QED  BY <1>3, <1>4, <1>7 DEF FdSet

LEMMA ScannerLanesAndBulkSkipped ==
  /\ FdSet(21..34) \subseteq OpsOf(ScannerLanesAndBulk)
  /\ {Fc(s) : s \in 0..17} \subseteq OpsOf(ScannerLanesAndBulk)
  /\ \A r \in ScannerLanesAndBulk : Skipped(r)
<1> DEFINE S1 == 21..23
<1> DEFINE S2 == 24..26
<1> DEFINE S3 == {27, 28, 31, 32}
<1> DEFINE S4 == {29, 30, 33, 34}
<1> DEFINE S5 == 0..7
<1> DEFINE S6 == {8, 10, 12, 14}
<1> DEFINE S7 == {9, 11, 13, 15, 16, 17}
<1> USE DEF BulkSkipRows, SimdSkipRows, BulkSkip, SimdImm
<1>1. SimdSkipRows(S1, <<"lane16">>)  OBVIOUS
<1>2. SimdSkipRows(S2, <<"lane8">>)  OBVIOUS
<1>3. SimdSkipRows(S3, <<"lane4">>)  OBVIOUS
<1>4. SimdSkipRows(S4, <<"lane2">>)  OBVIOUS
<1>5. BulkSkipRows(S5, <<>>)  OBVIOUS
<1>6. BulkSkipRows(S6, <<"u32", "u32">>)  OBVIOUS
<1>7. BulkSkipRows(S7, <<"u32">>)  OBVIOUS
<1>8. ScannerLanesAndBulk = {Skips(FdSet(S1), <<"lane16">>), Skips(FdSet(S2),
         <<"lane8">>), Skips(FdSet(S3), <<"lane4">>), Skips(FdSet(S4), <<"lane2">>),
         Skips({Fc(s) : s \in S5}, <<>>), Skips({Fc(s) : s \in S6}, <<"u32", "u32">>), Skips({Fc(s) : s \in S7}, <<"u32">>)}
  BY Zenon DEF ScannerLanesAndBulk
<1>9. 21..34 \subseteq S1 \cup S2 \cup S3 \cup S4  OBVIOUS
<1>10. 0..17 \subseteq S5 \cup S6 \cup S7  OBVIOUS
<1> HIDE DEF S1, S2, S3, S4, S5, S6, S7, BulkSkipRows, SimdSkipRows,
        BulkSkip, SimdImm
<1>11. \A r \in ScannerLanesAndBulk : Skipped(r)
  BY <1>1, <1>2, <1>3, <1>4, <1>5, <1>6, <1>7, <1>8, BulkSkipsSkipped, SimdSkipsSkipped, Zenon
<1>12. \A r \in ScannerLanesAndBulk : r.ops \subseteq OpsOf(ScannerLanesAndBulk)
  BY Zenon DEF OpsOf
<1>13. Skips(FdSet(S1), <<"lane16">>).ops = FdSet(S1) /\ Skips(FdSet(S2), <<"lane8">>).ops
         = FdSet(S2) /\ Skips(FdSet(S3), <<"lane4">>).ops = FdSet(S3) /\ Skips(FdSet(S4),
         <<"lane2">>).ops = FdSet(S4) /\ Skips({Fc(s) : s \in S5}, <<>>).ops = {Fc(s) : s \in S5} /\ Skips({Fc(s) : s \in S6}, <<"u32",
         "u32">>).ops = {Fc(s) : s \in S6} /\ Skips({Fc(s) : s \in S7}, <<"u32">>).ops = {Fc(s) : s \in S7}
  BY DEF Skips
<1>14. FdSet(S1) \subseteq OpsOf(ScannerLanesAndBulk) /\ FdSet(S2) \subseteq
         OpsOf(ScannerLanesAndBulk) /\ FdSet(S3) \subseteq OpsOf(ScannerLanesAndBulk) /\
         FdSet(S4) \subseteq OpsOf(ScannerLanesAndBulk) /\ {Fc(s) : s \in S5} \subseteq OpsOf(ScannerLanesAndBulk) /\ {Fc(s) : s \in S6} \subseteq OpsOf(ScannerLanesAndBulk) /\ {Fc(s) : s \in S7} \subseteq OpsOf(ScannerLanesAndBulk)
  BY <1>8, <1>12, <1>13, Zenon
<1> QED  BY <1>9, <1>10, <1>11, <1>14 DEF FdSet

-----------------------------------------------------------------------------
(* What the tables say of an opcode.                                       *)

LEMMA RowOf ==
  ASSUME NEW rows, NEW op \in OpsOf(rows)
  PROVE  TableOf(rows)[op] \in rows /\ op \in TableOf(rows)[op].ops
<1>1. \E r \in rows : op \in r.ops  BY DEF OpsOf
<1>2. TableOf(rows)[op] = CHOOSE r \in rows : op \in r.ops  BY DEF TableOf
<1> QED  BY <1>1, <1>2

LEMMA CoverUnion == \A A, B : OpsOf(A \cup B) = OpsOf(A) \cup OpsOf(B)
  BY DEF OpsOf

\* An opcode of the validator's table has the immediates and operands of the
\* reference.
LEMMA ValidatorEntry ==
  ASSUME NEW op \in ValidatorOps
  PROVE  /\ Known(op) /\ ValidatorTable[op].imm = Imms(op)
         /\ ValidatorTable[op].pops = Pops(op) /\ ValidatorTable[op].pushes = Pushes(op)
<1>1. \A r \in ValidatorRows : Right(r)
  BY ValidatorTableAccessRight, ValidatorMemoryRight, ValidatorArithmeticRight,
     ValidatorConversionsRight, ValidatorReferencesRight, ValidatorSimdMemoryRight,
     ValidatorSimdLanesRight, ValidatorSimdArithmeticRight, ValidatorSimdWideLanesRight,
     ValidatorBulkMemoryRight, ValidatorBulkTableRight DEF ValidatorRows
<1>2. ValidatorTable[op] \in ValidatorRows /\ op \in ValidatorTable[op].ops
  BY RowOf DEF ValidatorOps, ValidatorTable
<1> QED  BY <1>1, <1>2 DEF Right

\* Every opcode of the reference is one the interpreter implements, with the same
\* operands and, ref.func's index apart, the same immediates.
LEMMA RuntimeEntry ==
  ASSUME NEW op, Known(op)
  PROVE  /\ op \in RuntimeOps
         /\ RuntimeTable[op].imm = Imms(op) \/ (op = \hD2 /\ RuntimeTable[op].imm = <<"u32">>)
         /\ RuntimeTable[op].pops = Pops(op) /\ RuntimeTable[op].pushes = Pushes(op)
<1>1. \A r \in RuntimeRows : Executes(r)
  BY RightExecutes, RuntimeTableAccessRight, RuntimeLoadsRight, RuntimeStoresRight,
     RuntimeMemoryAndConstantsRight, RuntimeIntegersRight, RuntimeFloatsRight,
     RuntimeComparisonsRight, RuntimeConversionsRight, RuntimeSaturatingRight,
     RuntimeReferencesExecute, RuntimeBulkRight, RuntimeSimdMemoryRight,
     RuntimeSimdLaneMemoryRight, RuntimeSimdRelaxedRight, RuntimeSimdSplatsRight,
     RuntimeSimdBytesRight, RuntimeSimdShortsRight, RuntimeSimdWordsRight,
     RuntimeSimdFloatsRight, RuntimeSimdWideLanesRight DEF RuntimeRows
<1>2. op \in RuntimeOps
  <2>1. CASE op < 1000
    <3>1. op \in PlainSubs  BY <2>1 DEF Known
    <3>2. \/ op \in \h25..\h26 \/ op \in \h28..\h35 \/ op \in \h36..\h3E \/ op \in \h3F..\h44
          \/ op \in \h45..\h66 \/ op \in \h67..\h8A \/ op \in \h8B..\hA6 \/ op \in \hA7..\hBF
          \/ op \in \hC0..\hC4 \/ op \in \hD0..\hD2
      BY <3>1 DEF PlainSubs
    <3>3. \/ op \in OpsOf(RuntimeTableAccess) \/ op \in OpsOf(RuntimeLoads)
          \/ op \in OpsOf(RuntimeStores) \/ op \in OpsOf(RuntimeMemoryAndConstants)
          \/ op \in OpsOf(RuntimeIntegers) \/ op \in OpsOf(RuntimeFloats)
          \/ op \in OpsOf(RuntimeComparisons) \/ op \in OpsOf(RuntimeConversions)
          \/ op \in OpsOf(RuntimeReferences)
      BY <3>2, RuntimeTableAccessRight, RuntimeLoadsRight, RuntimeStoresRight,
         RuntimeMemoryAndConstantsRight, RuntimeIntegersRight, RuntimeFloatsRight,
         RuntimeComparisonsRight, RuntimeConversionsRight, RuntimeReferencesExecute
    <3> QED  BY <3>3, CoverUnion DEF RuntimeOps, RuntimeRows
  <2>2. CASE op >= 1000 /\ op < 2000
    <3>1. op \in 1000..1017  BY <2>2 DEF Known, BulkSubs
    <3> QED
      BY <3>1, CoverUnion, RuntimeSaturatingRight, RuntimeBulkRight
         DEF RuntimeOps, RuntimeRows
  <2>3. CASE op >= 2000
    <3>1. op - 2000 \in SimdSubs /\ op = Fd(op - 2000)  BY <2>3 DEF Known, Fd
    <3> QED
      BY <3>1, CoverUnion, RuntimeSimdMemoryRight,
         RuntimeSimdLaneMemoryRight, RuntimeSimdRelaxedRight, RuntimeSimdSplatsRight,
         RuntimeSimdBytesRight, RuntimeSimdShortsRight, RuntimeSimdWordsRight,
         RuntimeSimdFloatsRight, RuntimeSimdWideLanesRight
         DEF RuntimeOps, RuntimeRows, SimdSubs, FdSet
  <2> QED  BY <2>1, <2>2, <2>3 DEF Known
<1>3. RuntimeTable[op] \in RuntimeRows /\ op \in RuntimeTable[op].ops
  BY <1>2, RowOf DEF RuntimeOps, RuntimeTable
<1> QED  BY <1>1, <1>2, <1>3 DEF Executes

\* Two lists of immediates take up the same bytes.
SameCode(a, b) ==
  /\ Len(a) = Len(b) /\ (a = <<"depths">> <=> b = <<"depths">>)
  /\ \A i \in 1..Len(a) : Encoding(a[i]) = Encoding(b[i])

\* Every opcode of the reference, and every opcode with an action of its own that is
\* no block boundary, is one the scanner skips, and it skips what the reference says.
LEMMA ScannerEntry ==
  ASSUME NEW op,
         \/ Known(op)
         \/ op \in \h00..\h01 \cup \h0C..\h13 \cup \h1A..\h1C \cup \h20..\h24
  PROVE  op \in ScannerOps /\ ScannerTable[op].imm = Skip(op)
<1>1. \A r \in ScannerRows : Skipped(r)
  BY ScannerPlainSkipped, ScannerSimdMemorySkipped, ScannerSimdPlainSkipped,
     ScannerLanesAndBulkSkipped DEF ScannerRows
<1>2. op \in ScannerOps
  <2>1. CASE op \in \h00..\h01 \cup \h0C..\h13 \cup \h1A..\h1C \cup \h20..\h24
    BY <2>1, ScannerPlainSkipped, CoverUnion DEF ScannerOps, ScannerRows
  <2>2. CASE Known(op) /\ op < 1000
    <3>1. op \in \h25..\h26 \cup \h28..\hC4 \cup \hD0..\hD2  BY <2>2 DEF Known, PlainSubs
    <3> QED  BY <3>1, ScannerPlainSkipped, CoverUnion DEF ScannerOps, ScannerRows
  <2>3. CASE Known(op) /\ op >= 1000 /\ op < 2000
    <3>1. op - 1000 \in 0..17 /\ op = Fc(op - 1000)  BY <2>3 DEF Known, BulkSubs, Fc
    <3> QED  BY <3>1, ScannerLanesAndBulkSkipped, CoverUnion DEF ScannerOps, ScannerRows
  <2>4. CASE Known(op) /\ op >= 2000
    <3>1. op - 2000 \in SimdSubs /\ op = Fd(op - 2000)  BY <2>4 DEF Known, Fd
    <3> QED
      BY <3>1, CoverUnion, ScannerSimdMemorySkipped, ScannerSimdPlainSkipped,
         ScannerLanesAndBulkSkipped DEF ScannerOps, ScannerRows, SimdSubs, FdSet
  <2> QED  BY <2>1, <2>2, <2>3, <2>4 DEF Known
<1>3. ScannerTable[op] \in ScannerRows /\ op \in ScannerTable[op].ops
  BY <1>2, RowOf DEF ScannerOps, ScannerTable
<1> QED  BY <1>1, <1>2, <1>3 DEF Skipped

\* The immediates the scanner skips are encoded as those the validator reads.
LEMMA SkipSameCode ==
  ASSUME NEW op, Known(op)
  PROVE  SameCode(Skip(op), Imms(op))
<1> DEFINE Renamed(a, b) ==
      \/ a = b
      \/ a = <<"u32">> /\ (b = <<"table">> \/ b = <<"mem">> \/ b = <<"func">> \/ b = <<"data">>
                           \/ b = <<"elem">>)
      \/ a = <<"u32", "u32">> /\ (b = <<"data", "mem">> \/ b = <<"mem", "mem">>
                                  \/ b = <<"elem", "table">> \/ b = <<"table", "table">>)
<1>1. Renamed(Skip(op), Imms(op))
  <2>1. CASE op < 1000
    <3>1. op \in \h25..\h26 \cup \h28..\hC4 \cup \hD0..\hD2  BY <2>1 DEF Known, PlainSubs
    <3> QED  BY <2>1, <3>1 DEF Skip, Imms, PlainSkip, PlainImm
  <2>2. CASE op >= 1000 /\ op < 2000
    <3>1. op - 1000 \in 0..17 /\ op \in Nat  BY <2>2 DEF Known, BulkSubs
    <3>2. \A s \in 0..17 : Renamed(BulkSkip(s), BulkImm(s))  BY DEF BulkSkip, BulkImm
    <3> HIDE DEF Renamed
    <3> QED  BY <2>2, <3>1, <3>2 DEF Skip, Imms
  <2>3. CASE op >= 2000
    BY <2>3 DEF Known, Skip, Imms
  <2> QED  BY <2>1, <2>2, <2>3 DEF Known
<1>2. \A a, b : Renamed(a, b) => SameCode(a, b)
  BY DEF SameCode, Encoding
<1> QED  BY <1>1, <1>2

\* The shapes of the reference: at most two immediates, and operands that are value
\* types or the index types of memories the immediates name.
OperandTypes == ValueTypes \cup {"addr", "dst", "src", "len"}
NamesMemory(kind) == kind \in {"memarg", "mem"}

Immediate == {"fixed4", "fixed8", "fixed16", "leb32", "leb64", "mem", "memarg", "reftype",
              "table", "func", "data", "elem", "lane2", "lane4", "lane8", "lane16", "lanes32"}

LEMMA ImmsShape ==
  ASSUME NEW op, Known(op)
  PROVE  Imms(op) \in Seq(Immediate) /\ Imms(op) # <<"depths">>
<1> DEFINE Tuples == {<<>>, <<"fixed4">>, <<"fixed8">>, <<"func">>, <<"leb32">>,
                      <<"leb64">>, <<"mem">>, <<"memarg">>, <<"reftype">>, <<"table">>,
                      <<"data">>, <<"data", "mem">>, <<"elem">>, <<"elem", "table">>,
                      <<"mem", "mem">>, <<"table", "table">>, <<"fixed16">>, <<"lane16">>,
                      <<"lane2">>, <<"lane4">>, <<"lane8">>, <<"lanes32">>, <<"memarg",
                      "lane16">>, <<"memarg", "lane2">>, <<"memarg", "lane4">>,
                      <<"memarg", "lane8">>}
<1>1. <<"depths">> \notin Tuples
  OBVIOUS
<1>3. Tuples \subseteq Seq(Immediate)
  BY DEF Immediate
<1>2. Imms(op) \in Tuples
  <2>1. CASE op < 1000  BY <2>1 DEF Imms, PlainImm
  <2>2. CASE op >= 1000 /\ op < 2000  BY <2>2 DEF Imms, BulkImm, Known
  <2>3. CASE op >= 2000  BY <2>3 DEF Imms, SimdImm, Known
  <2> QED  BY <2>1, <2>2, <2>3 DEF Known
<1> HIDE DEF Tuples
<1> QED  BY <1>1, <1>2, <1>3

LEMMA PopsShape ==
  ASSUME NEW op, Known(op)
  PROVE  Pops(op) \in Seq(OperandTypes)
<1> DEFINE Tuples == {<<>>, <<"addr">>, <<"f32">>, <<"f32", "addr">>, <<"f32", "f32">>,
                      <<"f64">>, <<"f64", "addr">>, <<"f64", "f64">>, <<"funcref">>,
                      <<"funcref", "i32">>, <<"i32">>, <<"i32", "addr">>, <<"i32",
                      "i32">>, <<"i64">>, <<"i64", "addr">>, <<"i64", "i64">>, <<"addr",
                      "i32", "addr">>, <<"i32", "funcref">>, <<"i32", "funcref", "i32">>,
                      <<"i32", "i32", "addr">>, <<"i32", "i32", "i32">>, <<"len", "src",
                      "dst">>, Vectors(2), Vectors(3), <<"f32", "v128">>, <<"f64",
                      "v128">>, <<"i32", "v128">>, <<"i64", "v128">>, <<"v128">>,
                      <<"v128", "addr">>, <<"v128", "v128">>}
<1>1. Tuples \subseteq Seq(OperandTypes)
  BY DEF OperandTypes, ValueTypes, Vectors
<1>2. Pops(op) \in Tuples
  <2>1. CASE op < 1000  BY <2>1 DEF Pops, PlainPops
  <2>2. CASE op >= 1000 /\ op < 2000  BY <2>2 DEF Pops, BulkPops, Known
  <2>3. CASE op >= 2000  BY <2>3 DEF Pops, SimdPops, Known
  <2> QED  BY <2>1, <2>2, <2>3 DEF Known
<1> HIDE DEF Tuples
<1> QED  BY <1>1, <1>2

LEMMA PushesShape ==
  ASSUME NEW op, Known(op)
  PROVE  Pushes(op) \in Seq(OperandTypes)
<1> DEFINE Tuples == {<<>>, <<"addr">>, <<"f32">>, <<"f64">>, <<"funcref">>, <<"i32">>,
                      <<"i64">>, <<"v128">>}
<1>1. Tuples \subseteq Seq(OperandTypes)
  BY DEF OperandTypes, ValueTypes
<1>2. Pushes(op) \in Tuples
  <2>1. CASE op < 1000  BY <2>1 DEF Pushes, PlainPushes
  <2>2. CASE op >= 1000 /\ op < 2000  BY <2>2 DEF Pushes, BulkPushes, Known
  <2>3. CASE op >= 2000  BY <2>3 DEF Pushes, SimdPushes, Known
  <2> QED  BY <2>1, <2>2, <2>3 DEF Known
<1> HIDE DEF Tuples
<1> QED  BY <1>1, <1>2

\* The opcodes whose operands depend on a memory: all but memory.copy have one index
\* type, that of the one memory they name.
Addresses(op) ==
  \/ op \in \h28..\h40 \/ op \in {1008, 1011} \/ op - 2000 \in 0..11 \/ op - 2000 \in 84..93

LEMMA PlainOperands ==
  ASSUME NEW op, Known(op), ~Addresses(op), op # 1010
  PROVE  Pops(op) \in Seq(ValueTypes) /\ Pushes(op) \in Seq(ValueTypes)
<1> DEFINE Tuples == {<<>>, Vectors(2), Vectors(3), <<"f32">>, <<"f32", "f32">>, <<"f32",
                      "v128">>, <<"f64">>, <<"f64", "f64">>, <<"f64", "v128">>,
                      <<"funcref">>, <<"funcref", "i32">>, <<"i32">>, <<"i32",
                      "funcref">>, <<"i32", "funcref", "i32">>, <<"i32", "i32">>, <<"i32",
                      "i32", "i32">>, <<"i32", "v128">>, <<"i64">>, <<"i64", "i64">>,
                      <<"i64", "v128">>, <<"v128">>, <<"v128", "v128">>}
<1>1. Tuples \subseteq Seq(ValueTypes)
  BY DEF ValueTypes, Vectors
<1>2. Pops(op) \in Tuples /\ Pushes(op) \in Tuples
  <2>1. CASE op < 1000
    BY <2>1 DEF Pops, PlainPops, Pushes, PlainPushes, Known, PlainSubs, Addresses
  <2>2. CASE op >= 1000 /\ op < 2000
    BY <2>2 DEF Pops, BulkPops, Pushes, BulkPushes, Known, BulkSubs, Addresses
  <2>3. CASE op >= 2000
    BY <2>3 DEF Pops, SimdPops, Pushes, SimdPushes, Known, Addresses
  <2> QED  BY <2>1, <2>2, <2>3 DEF Known
<1> HIDE DEF Tuples
<1> QED  BY <1>1, <1>2

LEMMA AddressOperands ==
  ASSUME NEW op, Known(op), Addresses(op)
  PROVE  /\ Pops(op) \in Seq(ValueTypes \cup {"addr"})
         /\ Pushes(op) \in Seq(ValueTypes \cup {"addr"})
         /\ \E i \in DOMAIN Imms(op) :
              /\ NamesMemory(Imms(op)[i])
              /\ \A j \in DOMAIN Imms(op) : NamesMemory(Imms(op)[j]) => i <= j
<1> DEFINE Tuples == {<<>>, <<"addr">>, <<"addr", "i32", "addr">>, <<"f32", "addr">>,
                      <<"f64", "addr">>, <<"i32", "addr">>, <<"i32", "i32", "addr">>,
                      <<"i64", "addr">>, <<"v128", "addr">>, <<"f32">>, <<"f64">>,
                      <<"i32">>, <<"i64">>, <<"v128">>}
<1> DEFINE Naming == {<<"data", "mem">>, <<"mem">>, <<"memarg">>, <<"memarg", "lane16">>,
                      <<"memarg", "lane2">>, <<"memarg", "lane4">>, <<"memarg", "lane8">>}
<1>1. Tuples \subseteq Seq(ValueTypes \cup {"addr"})
  BY DEF ValueTypes
<1>2. Pops(op) \in Tuples /\ Pushes(op) \in Tuples /\ Imms(op) \in Naming
  <2> USE DEF Known, Addresses
  <2>1. CASE op < 1000
    BY <2>1 DEF Pops, PlainPops, Pushes, PlainPushes, Imms, PlainImm, PlainSubs
  <2>2. CASE op >= 1000 /\ op < 2000
    BY <2>2 DEF Pops, BulkPops, Pushes, BulkPushes, Imms, BulkImm, BulkSubs
  <2>3. CASE op >= 2000
    BY <2>3 DEF Pops, SimdPops, Pushes, SimdPushes, Imms, SimdImm
  <2> QED  BY <2>1, <2>2, <2>3
<1>3. ASSUME NEW imm \in Naming
      PROVE  \E i \in DOMAIN imm : /\ NamesMemory(imm[i])
                                   /\ \A j \in DOMAIN imm : NamesMemory(imm[j]) => i <= j
  <2>1. CASE imm = <<"data", "mem">>
    BY <2>1 DEF NamesMemory
  <2>2. CASE imm # <<"data", "mem">>
    <3>1. 1 \in DOMAIN imm /\ NamesMemory(imm[1]) /\ DOMAIN imm \subseteq Nat \ {0}
      BY <2>2 DEF NamesMemory
    <3> QED  BY <3>1
  <2> QED  BY <2>1, <2>2
<1> HIDE DEF Tuples, Naming
<1> QED  BY <1>1, <1>2, <1>3

LEMMA CopyOperands ==
  /\ Pops(1010) = <<"len", "src", "dst">> /\ Pushes(1010) = <<>> /\ Imms(1010) = <<"mem", "mem">>
  BY DEF Pops, BulkPops, Pushes, BulkPushes, Imms, BulkImm

-----------------------------------------------------------------------------
\* The three hand-written tables agree: what validate_code accepts, execute_guest_frame
\* implements with the same operands and results and build_control_map steps over, and
\* both take the immediates after it to be as many and encoded as validate_code does.
THEOREM TablesAgree ==
  \A op \in ValidatorOps :
    /\ op \in RuntimeOps /\ op \in ScannerOps
    /\ RuntimeTable[op].pops = ValidatorTable[op].pops
    /\ RuntimeTable[op].pushes = ValidatorTable[op].pushes
    /\ SameCode(RuntimeTable[op].imm, ValidatorTable[op].imm)
    /\ SameCode(ScannerTable[op].imm, ValidatorTable[op].imm)
<1> SUFFICES ASSUME NEW op \in ValidatorOps
             PROVE  /\ op \in RuntimeOps /\ op \in ScannerOps
                    /\ RuntimeTable[op].pops = ValidatorTable[op].pops
                    /\ RuntimeTable[op].pushes = ValidatorTable[op].pushes
                    /\ SameCode(RuntimeTable[op].imm, ValidatorTable[op].imm)
                    /\ SameCode(ScannerTable[op].imm, ValidatorTable[op].imm)
  OBVIOUS
<1>1. /\ Known(op) /\ ValidatorTable[op].imm = Imms(op)
      /\ ValidatorTable[op].pops = Pops(op) /\ ValidatorTable[op].pushes = Pushes(op)
  BY ValidatorEntry
<1>2. /\ op \in RuntimeOps
      /\ RuntimeTable[op].imm = Imms(op) \/ (op = \hD2 /\ RuntimeTable[op].imm = <<"u32">>)
      /\ RuntimeTable[op].pops = Pops(op) /\ RuntimeTable[op].pushes = Pushes(op)
  BY <1>1, RuntimeEntry
<1>3. op \in ScannerOps /\ SameCode(ScannerTable[op].imm, Imms(op))
  BY <1>1, ScannerEntry, SkipSameCode
<1>4. SameCode(Imms(op), Imms(op))
  BY DEF SameCode
<1>5. op = \hD2 => SameCode(<<"u32">>, Imms(op))
  BY DEF SameCode, Encoding, Imms, PlainImm
<1> QED  BY <1>1, <1>2, <1>3, <1>4, <1>5
=============================================================================
