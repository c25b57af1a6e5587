------------------------------- MODULE Opcodes -------------------------------
(***************************************************************************)
(* The instruction set as three independent readers of the same bytes see  *)
(* it: the validator (typed.rs) decides what an opcode pops, pushes and    *)
(* carries as immediates; the control scanner (control.rs) skips its       *)
(* immediates to find block boundaries; the interpreter (lib.rs,           *)
(* numeric.rs) executes it.  Nothing in the code shares these tables, so   *)
(* they are written down three times here as well, each from its own       *)
(* source, and FunctionBody lets the three readers loose on the same body. *)
(*                                                                         *)
(* A row gives a set of opcodes one effect: the immediates in reading      *)
(* order, the operand types in POP order (top of stack first), the types   *)
(* pushed, and whether executing it may trap.  The numbers themselves are  *)
(* abstracted: a value is its type.  Control, branch, call, parametric and *)
(* variable opcodes have actions of their own in FunctionBody and only     *)
(* immediates here.                                                        *)
(***************************************************************************)
EXTENDS Naturals, Sequences

ValueTypes == {"i32", "i64", "f32", "f64", "v128", "funcref"}

\* Sub-opcodes of the two prefix bytes 0xfc and 0xfd, kept apart from the
\* one-byte opcodes.
Fc(sub) == 1000 + sub
Fd(sub) == 2000 + sub
FdSet(subs) == {Fd(s) : s \in subs}

Effect(ops, imm, pops, pushes) ==
  [ops |-> ops, imm |-> imm, pops |-> pops, pushes |-> pushes, traps |-> FALSE]
Trapping(row) == [row EXCEPT !.traps = TRUE]

\* typed.rs unary / binary_same / binary_compare.
unary(ops, input, output) == Effect(ops, <<>>, <<input>>, <<output>>)
binary_same(ops, t) == Effect(ops, <<>>, <<t, t>>, <<t>>)
binary_compare(ops, t) == Effect(ops, <<>>, <<t, t>>, <<"i32">>)

Vectors(n) == [i \in 1..n |-> "v128"]

\* How an immediate is encoded. The validator and the interpreter know what an
\* index denotes and check it against that index space; on the wire, and to the
\* scanner, each is a LEB128 u32.
Encoding(kind) ==
  IF kind \in {"mem", "table", "data", "elem", "func"} THEN "u32" ELSE kind

-----------------------------------------------------------------------------
(* The validator's table (typed.rs). "addr" is the index type of the memory
   the immediate names; "dst", "src" and "len" are those of memory.copy.   *)

\* 0x25 table.get, 0x26 table.set.
ValidatorTableAccess ==
  {Effect({\h25}, <<"table">>, <<"i32">>, <<"funcref">>),
   Effect({\h26}, <<"table">>, <<"funcref", "i32">>, <<>>)}

\* 0x28..0x40: loads, stores, memory.size, memory.grow.
ValidatorMemory ==
  {Effect({\h28} \cup \h2C..\h2F, <<"memarg">>, <<"addr">>, <<"i32">>),
   Effect({\h29} \cup \h30..\h35, <<"memarg">>, <<"addr">>, <<"i64">>),
   Effect({\h2A}, <<"memarg">>, <<"addr">>, <<"f32">>),
   Effect({\h2B}, <<"memarg">>, <<"addr">>, <<"f64">>),
   Effect({\h36, \h3A, \h3B}, <<"memarg">>, <<"i32", "addr">>, <<>>),
   Effect({\h37} \cup \h3C..\h3E, <<"memarg">>, <<"i64", "addr">>, <<>>),
   Effect({\h38}, <<"memarg">>, <<"f32", "addr">>, <<>>),
   Effect({\h39}, <<"memarg">>, <<"f64", "addr">>, <<>>),
   Effect({\h3F}, <<"mem">>, <<>>, <<"addr">>),
   Effect({\h40}, <<"mem">>, <<"addr">>, <<"addr">>)}

\* 0x41..0xa6: constants, comparisons, integer and float arithmetic.
ValidatorArithmetic ==
  {Effect({\h41}, <<"leb32">>, <<>>, <<"i32">>),
   Effect({\h42}, <<"leb64">>, <<>>, <<"i64">>),
   Effect({\h43}, <<"fixed4">>, <<>>, <<"f32">>),
   Effect({\h44}, <<"fixed8">>, <<>>, <<"f64">>),
   unary({\h45}, "i32", "i32"),          binary_compare(\h46..\h4F, "i32"),
   unary({\h50}, "i64", "i32"),          binary_compare(\h51..\h5A, "i64"),
   binary_compare(\h5B..\h60, "f32"),    binary_compare(\h61..\h66, "f64"),
   unary(\h67..\h69, "i32", "i32"),      binary_same(\h6A..\h78, "i32"),
   unary(\h79..\h7B, "i64", "i64"),      binary_same(\h7C..\h8A, "i64"),
   unary(\h8B..\h91, "f32", "f32"),      binary_same(\h92..\h98, "f32"),
   unary(\h99..\h9F, "f64", "f64"),      binary_same(\hA0..\hA6, "f64")}

\* 0xa7..0xc4: conversions, reinterpretations, sign extensions.
ValidatorConversions ==
  {unary({\hA7}, "i64", "i32"),              unary({\hA8, \hA9}, "f32", "i32"),
   unary({\hAA, \hAB}, "f64", "i32"),        unary({\hAC, \hAD}, "i32", "i64"),
   unary({\hAE, \hAF}, "f32", "i64"),        unary({\hB0, \hB1}, "f64", "i64"),
   unary({\hB2, \hB3, \hBE}, "i32", "f32"),  unary({\hB4, \hB5}, "i64", "f32"),
   unary({\hB6}, "f64", "f32"),              unary({\hB7, \hB8}, "i32", "f64"),
   unary({\hB9, \hBA, \hBF}, "i64", "f64"),  unary({\hBB}, "f32", "f64"),
   unary({\hBC}, "f32", "i32"),              unary({\hBD}, "f64", "i64"),
   unary({\hC0, \hC1}, "i32", "i32"),        unary(\hC2..\hC4, "i64", "i64")}

\* 0xd0 ref.null, 0xd1 ref.is_null, 0xd2 ref.func.
ValidatorReferences ==
  {Effect({\hD0}, <<"reftype">>, <<>>, <<"funcref">>),
   unary({\hD1}, "funcref", "i32"),
   Effect({\hD2}, <<"func">>, <<>>, <<"funcref">>)}

\* 0xfd memory accesses: whole vectors, splatting and widening loads, lanes.
ValidatorSimdMemory ==
  {Effect(FdSet(0..10 \cup {92, 93}), <<"memarg">>, <<"addr">>, <<"v128">>),
   Effect(FdSet({11}), <<"memarg">>, <<"v128", "addr">>, <<>>),
   Effect(FdSet({84}), <<"memarg", "lane16">>, <<"v128", "addr">>, <<"v128">>),
   Effect(FdSet({85}), <<"memarg", "lane8">>, <<"v128", "addr">>, <<"v128">>),
   Effect(FdSet({86}), <<"memarg", "lane4">>, <<"v128", "addr">>, <<"v128">>),
   Effect(FdSet({87}), <<"memarg", "lane2">>, <<"v128", "addr">>, <<"v128">>),
   Effect(FdSet({88}), <<"memarg", "lane16">>, <<"v128", "addr">>, <<>>),
   Effect(FdSet({89}), <<"memarg", "lane8">>, <<"v128", "addr">>, <<>>),
   Effect(FdSet({90}), <<"memarg", "lane4">>, <<"v128", "addr">>, <<>>),
   Effect(FdSet({91}), <<"memarg", "lane2">>, <<"v128", "addr">>, <<>>)}

\* 0xfd constants, shuffles, the relaxed operators, splats, 16/8-lane access.
ValidatorSimdLanes ==
  {unary(FdSet({94, 95} \cup 257..260), "v128", "v128"),
   Effect(FdSet({12}), <<"fixed16">>, <<>>, <<"v128">>),
   Effect(FdSet({13}), <<"lanes32">>, Vectors(2), <<"v128">>),
   Effect(FdSet(261..268 \cup {275}), <<>>, Vectors(3), <<"v128">>),
   binary_same(FdSet({14, 256} \cup 269..274), "v128"),
   unary(FdSet(15..17), "i32", "v128"), unary(FdSet({18}), "i64", "v128"),
   unary(FdSet({19}), "f32", "v128"),   unary(FdSet({20}), "f64", "v128"),
   Effect(FdSet({21, 22}), <<"lane16">>, <<"v128">>, <<"i32">>),
   Effect(FdSet({23}), <<"lane16">>, <<"i32", "v128">>, <<"v128">>),
   Effect(FdSet({24, 25}), <<"lane8">>, <<"v128">>, <<"i32">>),
   Effect(FdSet({26}), <<"lane8">>, <<"i32", "v128">>, <<"v128">>)}

\* 0xfd lane-wise arithmetic, comparisons, shifts and reductions.
ValidatorSimdArithmetic ==
  {binary_same(FdSet(35..64 \cup 78..81), "v128"),
   unary(FdSet({77, 96, 97, 98} \cup 103..106 \cup {116, 117, 122} \cup 124..129
               \cup {148, 160, 161, 192, 193, 224, 225, 227, 236, 237, 239}
               \cup 248..255 \cup 135..138 \cup 167..170 \cup 199..202),
         "v128", "v128"),
   Effect(FdSet({82}), <<>>, Vectors(3), <<"v128">>),
   unary(FdSet({83, 99, 100, 131, 132, 163, 164, 195, 196}), "v128", "i32"),
   Effect(FdSet(107..109 \cup 139..141 \cup 171..173 \cup 203..205),
          <<>>, <<"i32", "v128">>, <<"v128">>),
   binary_same(FdSet({101, 102} \cup 110..115 \cup 118..121 \cup {123, 130, 133, 134}
                     \cup 142..147 \cup 149..153 \cup 155..159 \cup {174, 177}
                     \cup 181..186 \cup 188..191 \cup {206, 209} \cup 213..223
                     \cup 228..235 \cup 240..247), "v128")}

\* 0xfd access to the four- and two-lane shapes.
ValidatorSimdWideLanes ==
  {Effect(FdSet({27}), <<"lane4">>, <<"v128">>, <<"i32">>),
   Effect(FdSet({28}), <<"lane4">>, <<"i32", "v128">>, <<"v128">>),
   Effect(FdSet({29}), <<"lane2">>, <<"v128">>, <<"i64">>),
   Effect(FdSet({31}), <<"lane4">>, <<"v128">>, <<"f32">>),
   Effect(FdSet({33}), <<"lane2">>, <<"v128">>, <<"f64">>),
   Effect(FdSet({30}), <<"lane2">>, <<"i64", "v128">>, <<"v128">>),
   Effect(FdSet({32}), <<"lane4">>, <<"f32", "v128">>, <<"v128">>),
   Effect(FdSet({34}), <<"lane2">>, <<"f64", "v128">>, <<"v128">>)}

\* 0xfc saturating truncations and bulk memory instructions.
ValidatorBulkMemory ==
  {unary({Fc(0), Fc(1)}, "f32", "i32"), unary({Fc(2), Fc(3)}, "f64", "i32"),
   unary({Fc(4), Fc(5)}, "f32", "i64"), unary({Fc(6), Fc(7)}, "f64", "i64"),
   Effect({Fc(8)}, <<"data", "mem">>, <<"i32", "i32", "addr">>, <<>>),
   Effect({Fc(9)}, <<"data">>, <<>>, <<>>),
   Effect({Fc(10)}, <<"mem", "mem">>, <<"len", "src", "dst">>, <<>>),
   Effect({Fc(11)}, <<"mem">>, <<"addr", "i32", "addr">>, <<>>)}

\* 0xfc bulk table instructions.
ValidatorBulkTable ==
  {Effect({Fc(12)}, <<"elem", "table">>, <<"i32", "i32", "i32">>, <<>>),
   Effect({Fc(13)}, <<"elem">>, <<>>, <<>>),
   Effect({Fc(14)}, <<"table", "table">>, <<"i32", "i32", "i32">>, <<>>),
   Effect({Fc(15)}, <<"table">>, <<"i32", "funcref">>, <<"i32">>),
   Effect({Fc(16)}, <<"table">>, <<>>, <<"i32">>),
   Effect({Fc(17)}, <<"table">>, <<"i32", "funcref", "i32">>, <<>>)}

ValidatorRows ==
  ValidatorTableAccess \cup ValidatorMemory \cup ValidatorArithmetic
  \cup ValidatorConversions \cup ValidatorReferences \cup ValidatorSimdMemory
  \cup ValidatorSimdLanes \cup ValidatorSimdArithmetic
  \cup ValidatorSimdWideLanes \cup ValidatorBulkMemory \cup ValidatorBulkTable

-----------------------------------------------------------------------------
(* The control scanner's table (control.rs build_control_map): immediates
   only, since it skips what is not a block boundary.                      *)

Skips(ops, imm) == [ops |-> ops, imm |-> imm]

\* 0x00..0xd2, the block openers, else and end excepted. "depths" is the vector of
\* br_table: a count, that many depths, and the default.
ScannerPlain ==
  {Skips({\h0C, \h0D, \h10, \h12} \cup \h20..\h26 \cup {\h3F, \h40, \hD2}, <<"u32">>),
   Skips({\h0E}, <<"depths">>),
   Skips({\h11, \h13}, <<"u32", "u32">>),
   Skips({\h1C}, <<"seltype">>),
   Skips(\h28..\h3E, <<"memarg">>),
   Skips({\h41}, <<"leb32">>), Skips({\h42}, <<"leb64">>),
   Skips({\h43}, <<"fixed4">>), Skips({\h44}, <<"fixed8">>),
   Skips({\h00, \h01, \h0F, \h1A, \h1B} \cup \h45..\hC4 \cup {\hD1}, <<>>),
   Skips({\hD0}, <<"reftype">>)}

\* 0xfd memory accesses, constants and shuffles.
ScannerSimdMemory ==
  {Skips(FdSet(0..11 \cup {92, 93}), <<"memarg">>),
   Skips(FdSet({84, 88}), <<"memarg", "lane16">>),
   Skips(FdSet({85, 89}), <<"memarg", "lane8">>),
   Skips(FdSet({86, 90}), <<"memarg", "lane4">>),
   Skips(FdSet({87, 91}), <<"memarg", "lane2">>),
   Skips(FdSet({12}), <<"fixed16">>), Skips(FdSet({13}), <<"lanes32">>)}

\* 0xfd operators without an immediate.
ScannerSimdPlain ==
  {Skips(FdSet(14..20 \cup 35..64 \cup 77..83 \cup 94..153 \cup 155..161
               \cup {163, 164} \cup 167..174 \cup {177} \cup 181..186
               \cup 188..193 \cup {195, 196} \cup 199..206 \cup {209}
               \cup 213..225 \cup 227..237 \cup 239..275), <<>>)}

\* Mutant: memory.fill is skipped like memory.copy, with two memory indices.
ScannerLanesAndBulk_FillAsCopy ==
  {Skips(FdSet(21..23), <<"lane16">>), Skips(FdSet(24..26), <<"lane8">>),
   Skips(FdSet({27, 28, 31, 32}), <<"lane4">>),
   Skips(FdSet({29, 30, 33, 34}), <<"lane2">>),
   Skips({Fc(s) : s \in 0..7}, <<>>),
   Skips({Fc(s) : s \in {8, 10, 11, 12, 14}}, <<"u32", "u32">>),
   Skips({Fc(s) : s \in {9, 13, 15, 16, 17}}, <<"u32">>)}

\* 0xfd lane access, and the 0xfc instructions.
ScannerLanesAndBulk ==
  {Skips(FdSet(21..23), <<"lane16">>), Skips(FdSet(24..26), <<"lane8">>),
   Skips(FdSet({27, 28, 31, 32}), <<"lane4">>),
   Skips(FdSet({29, 30, 33, 34}), <<"lane2">>),
   Skips({Fc(s) : s \in 0..7}, <<>>),
   Skips({Fc(s) : s \in {8, 10, 12, 14}}, <<"u32", "u32">>),
   Skips({Fc(s) : s \in {9, 11, 13, 15, 16, 17}}, <<"u32">>)}

ScannerRows ==
  ScannerPlain \cup ScannerSimdMemory \cup ScannerSimdPlain \cup ScannerLanesAndBulk

-----------------------------------------------------------------------------
(* The interpreter's table (lib.rs execute_guest_frame and execute_simd,
   numeric.rs).                                                            *)

\* lib.rs arms 0x25, 0x26.
RuntimeTableAccess ==
  {Trapping(Effect({\h25}, <<"table">>, <<"i32">>, <<"funcref">>)),
   Trapping(Effect({\h26}, <<"table">>, <<"funcref", "i32">>, <<>>))}

\* lib.rs arms 0x28..0x35.
RuntimeLoads ==
  {Trapping(Effect({\h28} \cup \h2C..\h2F, <<"memarg">>, <<"addr">>, <<"i32">>)),
   Trapping(Effect({\h29} \cup \h30..\h35, <<"memarg">>, <<"addr">>, <<"i64">>)),
   Trapping(Effect({\h2A}, <<"memarg">>, <<"addr">>, <<"f32">>)),
   Trapping(Effect({\h2B}, <<"memarg">>, <<"addr">>, <<"f64">>))}

\* lib.rs arms 0x36..0x3e.
RuntimeStores ==
  {Trapping(Effect({\h36, \h3A, \h3B}, <<"memarg">>, <<"i32", "addr">>, <<>>)),
   Trapping(Effect({\h37} \cup \h3C..\h3E, <<"memarg">>, <<"i64", "addr">>, <<>>)),
   Trapping(Effect({\h38}, <<"memarg">>, <<"f32", "addr">>, <<>>)),
   Trapping(Effect({\h39}, <<"memarg">>, <<"f64", "addr">>, <<>>))}

\* lib.rs arms 0x3f..0x44.
RuntimeMemoryAndConstants ==
  {Effect({\h3F}, <<"mem">>, <<>>, <<"addr">>),
   Effect({\h40}, <<"mem">>, <<"addr">>, <<"addr">>),
   Effect({\h41}, <<"leb32">>, <<>>, <<"i32">>),
   Effect({\h42}, <<"leb64">>, <<>>, <<"i64">>),
   Effect({\h43}, <<"fixed4">>, <<>>, <<"f32">>),
   Effect({\h44}, <<"fixed8">>, <<>>, <<"f64">>)}

\* numeric.rs unary_integer, sign_extend, binary_integer, eval_i32, eval_i64: the
\* divisions and remainders may trap.
RuntimeIntegers ==
  {unary(\h67..\h69 \cup {\hC0, \hC1}, "i32", "i32"),
   unary(\h79..\h7B \cup \hC2..\hC4, "i64", "i64"),
   binary_same(\h6A..\h6C \cup \h71..\h78, "i32"),
   binary_same(\h7C..\h7E \cup \h83..\h8A, "i64"),
   Trapping(binary_same(\h6D..\h70, "i32")),
   Trapping(binary_same(\h7F..\h82, "i64"))}

\* numeric.rs unary_float, binary_float.
RuntimeFloats ==
  {unary(\h8B..\h91, "f32", "f32"), unary(\h99..\h9F, "f64", "f64"),
   binary_same(\h92..\h98, "f32"),  binary_same(\hA0..\hA6, "f64")}

\* numeric.rs compare_i32, compare_i64, compare_f32, compare_f64.
RuntimeComparisons ==
  {unary({\h45}, "i32", "i32"),       binary_compare(\h46..\h4F, "i32"),
   unary({\h50}, "i64", "i32"),       binary_compare(\h51..\h5A, "i64"),
   binary_compare(\h5B..\h60, "f32"), binary_compare(\h61..\h66, "f64")}

\* numeric.rs convert, trunc_to_i32, trunc_to_i64: NaN and out-of-range trap.
RuntimeConversions ==
  {unary({\hA7}, "i64", "i32"),
   Trapping(unary({\hA8, \hA9}, "f32", "i32")),
   Trapping(unary({\hAA, \hAB}, "f64", "i32")),
   unary({\hAC, \hAD}, "i32", "i64"),
   Trapping(unary({\hAE, \hAF}, "f32", "i64")),
   Trapping(unary({\hB0, \hB1}, "f64", "i64")),
   unary({\hB2, \hB3, \hBE}, "i32", "f32"), unary({\hB4, \hB5}, "i64", "f32"),
   unary({\hB6}, "f64", "f32"),              unary({\hB7, \hB8}, "i32", "f64"),
   unary({\hB9, \hBA, \hBF}, "i64", "f64"),  unary({\hBB}, "f32", "f64"),
   unary({\hBC}, "f32", "i32"),              unary({\hBD}, "f64", "i64")}

\* numeric.rs trunc_sat: saturates, never traps.
RuntimeSaturating ==
  {unary({Fc(0), Fc(1)}, "f32", "i32"), unary({Fc(2), Fc(3)}, "f64", "i32"),
   unary({Fc(4), Fc(5)}, "f32", "i64"), unary({Fc(6), Fc(7)}, "f64", "i64")}

\* lib.rs arms 0xd0..0xd2.
RuntimeReferences ==
  {Effect({\hD0}, <<"reftype">>, <<>>, <<"funcref">>),
   unary({\hD1}, "funcref", "i32"),
   Effect({\hD2}, <<"u32">>, <<>>, <<"funcref">>)}

\* lib.rs arms 0xfc 8..17.
RuntimeBulk ==
  {Trapping(Effect({Fc(8)}, <<"data", "mem">>, <<"i32", "i32", "addr">>, <<>>)),
   Effect({Fc(9)}, <<"data">>, <<>>, <<>>),
   Trapping(Effect({Fc(10)}, <<"mem", "mem">>, <<"len", "src", "dst">>, <<>>)),
   Trapping(Effect({Fc(11)}, <<"mem">>, <<"addr", "i32", "addr">>, <<>>)),
   Trapping(Effect({Fc(12)}, <<"elem", "table">>, <<"i32", "i32", "i32">>, <<>>)),
   Effect({Fc(13)}, <<"elem">>, <<>>, <<>>),
   Trapping(Effect({Fc(14)}, <<"table", "table">>, <<"i32", "i32", "i32">>, <<>>)),
   Effect({Fc(15)}, <<"table">>, <<"i32", "funcref">>, <<"i32">>),
   Effect({Fc(16)}, <<"table">>, <<>>, <<"i32">>),
   Trapping(Effect({Fc(17)}, <<"table">>, <<"i32", "funcref", "i32">>, <<>>))}

\* execute_simd: vector loads and stores.
RuntimeSimdMemory ==
  {Trapping(Effect(FdSet(0..10 \cup {92, 93}), <<"memarg">>, <<"addr">>, <<"v128">>)),
   Trapping(Effect(FdSet({11}), <<"memarg">>, <<"v128", "addr">>, <<>>)),
   unary(FdSet({94, 95}), "v128", "v128")}

\* execute_simd: one-lane loads (84..87) and stores (88..91).
RuntimeSimdLaneMemory ==
  {Trapping(Effect(FdSet({84}), <<"memarg", "lane16">>, <<"v128", "addr">>, <<"v128">>)),
   Trapping(Effect(FdSet({85}), <<"memarg", "lane8">>, <<"v128", "addr">>, <<"v128">>)),
   Trapping(Effect(FdSet({86}), <<"memarg", "lane4">>, <<"v128", "addr">>, <<"v128">>)),
   Trapping(Effect(FdSet({87}), <<"memarg", "lane2">>, <<"v128", "addr">>, <<"v128">>)),
   Trapping(Effect(FdSet({88}), <<"memarg", "lane16">>, <<"v128", "addr">>, <<>>)),
   Trapping(Effect(FdSet({89}), <<"memarg", "lane8">>, <<"v128", "addr">>, <<>>)),
   Trapping(Effect(FdSet({90}), <<"memarg", "lane4">>, <<"v128", "addr">>, <<>>)),
   Trapping(Effect(FdSet({91}), <<"memarg", "lane2">>, <<"v128", "addr">>, <<>>))}

\* execute_simd: v128.const, shuffle, swizzle and the relaxed operators 256..275.
RuntimeSimdRelaxed ==
  {Effect(FdSet({12}), <<"fixed16">>, <<>>, <<"v128">>),
   Effect(FdSet({13}), <<"lanes32">>, Vectors(2), <<"v128">>),
   unary(FdSet(257..260), "v128", "v128"),
   Effect(FdSet(261..268 \cup {275}), <<>>, Vectors(3), <<"v128">>),
   binary_same(FdSet({14, 256} \cup 269..274), "v128")}

\* execute_simd: splats, and lane access of the 16- and 8-lane shapes.
RuntimeSimdSplats ==
  {unary(FdSet(15..17), "i32", "v128"), unary(FdSet({18}), "i64", "v128"),
   unary(FdSet({19}), "f32", "v128"),   unary(FdSet({20}), "f64", "v128"),
   Effect(FdSet({21, 22}), <<"lane16">>, <<"v128">>, <<"i32">>),
   Effect(FdSet({23}), <<"lane16">>, <<"i32", "v128">>, <<"v128">>),
   Effect(FdSet({24, 25}), <<"lane8">>, <<"v128">>, <<"i32">>),
   Effect(FdSet({26}), <<"lane8">>, <<"i32", "v128">>, <<"v128">>)}

\* execute_simd: comparisons, bitwise operators and the i8x16 shape.
RuntimeSimdBytes ==
  {binary_same(FdSet(35..64 \cup 78..81 \cup {101, 102} \cup 110..115 \cup 118..121 \cup {123}),
               "v128"),
   unary(FdSet({77, 96, 97, 98}), "v128", "v128"),
   Effect(FdSet({82}), <<>>, Vectors(3), <<"v128">>),
   unary(FdSet({83, 99, 100}), "v128", "i32"),
   Effect(FdSet(107..109), <<>>, <<"i32", "v128">>, <<"v128">>)}

\* execute_simd: the i16x8 shape, and absolute value, negation and reductions of
\* the i32x4 shape.
RuntimeSimdShorts ==
  {unary(FdSet(124..129 \cup 135..138 \cup {160, 161}), "v128", "v128"),
   binary_same(FdSet({130, 133, 134} \cup 142..147 \cup 149..153 \cup 155..159), "v128"),
   unary(FdSet({131, 132, 163, 164}), "v128", "i32"),
   Effect(FdSet(139..141), <<>>, <<"i32", "v128">>, <<"v128">>)}

\* execute_simd: the rest of i32x4's shifts, the i64x2 shape, float rounding.
RuntimeSimdWords ==
  {unary(FdSet({192, 193} \cup 199..202 \cup 103..106 \cup {116, 117, 122, 148}
               \cup {224, 225, 227, 236, 237, 239}), "v128", "v128"),
   binary_same(FdSet({206, 209} \cup 213..223), "v128"),
   unary(FdSet({195, 196}), "v128", "i32"),
   Effect(FdSet(171..173 \cup 203..205), <<>>, <<"i32", "v128">>, <<"v128">>)}

\* execute_simd: float arithmetic and conversions, i32x4 arithmetic.
RuntimeSimdFloats ==
  {binary_same(FdSet(228..235 \cup 240..247 \cup {174, 177} \cup 181..186 \cup 188..191),
               "v128"),
   unary(FdSet(248..255 \cup 167..170), "v128", "v128")}

\* execute_simd: lane access of the four- and two-lane shapes.
RuntimeSimdWideLanes ==
  {Effect(FdSet({27}), <<"lane4">>, <<"v128">>, <<"i32">>),
   Effect(FdSet({28}), <<"lane4">>, <<"i32", "v128">>, <<"v128">>),
   Effect(FdSet({29}), <<"lane2">>, <<"v128">>, <<"i64">>),
   Effect(FdSet({30}), <<"lane2">>, <<"i64", "v128">>, <<"v128">>),
   Effect(FdSet({31}), <<"lane4">>, <<"v128">>, <<"f32">>),
   Effect(FdSet({32}), <<"lane4">>, <<"f32", "v128">>, <<"v128">>),
   Effect(FdSet({33}), <<"lane2">>, <<"v128">>, <<"f64">>),
   Effect(FdSet({34}), <<"lane2">>, <<"f64", "v128">>, <<"v128">>)}

RuntimeRows ==
  RuntimeTableAccess \cup RuntimeLoads \cup RuntimeStores
  \cup RuntimeMemoryAndConstants \cup RuntimeIntegers \cup RuntimeFloats
  \cup RuntimeComparisons \cup RuntimeConversions \cup RuntimeSaturating
  \cup RuntimeReferences \cup RuntimeBulk \cup RuntimeSimdMemory
  \cup RuntimeSimdLaneMemory \cup RuntimeSimdRelaxed \cup RuntimeSimdSplats
  \cup RuntimeSimdBytes \cup RuntimeSimdShorts \cup RuntimeSimdWords
  \cup RuntimeSimdFloats \cup RuntimeSimdWideLanes

-----------------------------------------------------------------------------
\* The opcodes some row of a table mentions, and the one row for an opcode.
OpsOf(rows) == UNION {r.ops : r \in rows}
TableOf(rows) == [op \in OpsOf(rows) |-> CHOOSE r \in rows : op \in r.ops]

ValidatorOps == OpsOf(ValidatorRows)
ScannerOps   == OpsOf(ScannerRows)
RuntimeOps   == OpsOf(RuntimeRows)

ValidatorTable == TableOf(ValidatorRows)
ScannerTable   == TableOf(ScannerRows)
RuntimeTable   == TableOf(RuntimeRows)
=============================================================================
