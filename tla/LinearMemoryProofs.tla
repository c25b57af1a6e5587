------------------------- MODULE LinearMemoryProofs -------------------------
(***************************************************************************)
(* The limits, bounds checks and isolation of linear memories, for every   *)
(* page size, word width, set of modules and sequence of growths.          *)
(***************************************************************************)
EXTENDS LinearMemory, SequenceTheorems, TLAPS

\* The largest size a type allows.
Allowed(type) == IF type.max = None THEN MaxPages ELSE type.max

\* The state has its type, apart from what bytes and data hold.
Shapes ==
    /\ memory \in [Mems -> MemoryRecord \cup {None}]
    /\ DOMAIN bytes = Mems
    /\ inst \in [Insts -> InstanceRecord \cup {None}]
    /\ \A i \in Insts : inst[i] # None => Len(inst[i].mems) = Len(Types(inst[i].mod))
    /\ stack \in Seq(Frame)

\* A memory is as large as its pages say and within what it was made for.
Sizes ==
    \A m \in Mems : memory[m] # None =>
        /\ memory[m].type.min <= memory[m].pages
        /\ memory[m].pages <= memory[m].max
        /\ memory[m].max <= Allowed(memory[m].type)
        /\ DOMAIN bytes[m] = 0..(Length(m) - 1)

\* What instantiation found out about a memory, said of what it can become.
Bound ==
    \A i \in Insts : inst[i] # None => \A k \in 1..Len(inst[i].mems) :
        LET m == inst[i].mems[k]  type == Types(inst[i].mod)[k]
        IN /\ memory[m] # None
           /\ memory[m].type.m64 = type.m64
           /\ memory[m].type.min >= type.min
           /\ type.max # None => memory[m].max <= type.max
           /\ memory[m].max <= inst[i].limit

\* A memory that is not shared is in one instance only.
Exclusive ==
    \A i, j \in Insts : \A m \in MemoriesOf(i) \cap MemoriesOf(j) : ~memory[m].shared => i = j

\* Instances entered exist.
StackLive == \A k \in 1..Len(stack) : inst[stack[k].inst] # None

\* The inductive invariant.
IInv == Shapes /\ Sizes /\ Bound /\ Exclusive /\ StackLive

-----------------------------------------------------------------------------
\* The types of a module's memories: first the imports, each sensible.
LEMMA TypesOf ==
    ASSUME NEW mod \in Modules
    PROVE  /\ Types(mod) \in Seq(MemType) /\ Len(mod.imports) \in Nat
           /\ Len(mod.imports) <= Len(Types(mod))
           /\ \A k \in 1..Len(mod.imports) : Types(mod)[k] = mod.imports[k]
           /\ \A k \in 1..Len(Types(mod)) :
                 Types(mod)[k] \in MemType /\ (Types(mod)[k].max # None => Types(mod)[k].min <= Types(mod)[k].max)
  <1> DEFINE s == mod.imports
             t == mod.defined
  <1>1. s \in Seq(MemType) /\ t \in Seq(MemType)
    BY ModulesAssumption DEF ModuleType
  <1> HIDE DEF s, t
  <1>2. /\ s \o t \in Seq(MemType)
        /\ Len(s \o t) = Len(s) + Len(t)
        /\ \A k \in 1..Len(s) + Len(t) : (s \o t)[k] = IF k <= Len(s) THEN s[k] ELSE t[k - Len(s)]
    BY <1>1, ConcatProperties, Zenon
  <1>3. Len(s) \in Nat /\ Len(t) \in Nat BY <1>1
  <1>4. \A k \in 1..Len(s) : (s \o t)[k] = s[k] BY <1>2, <1>3
  <1>5. \A k \in 1..Len(s \o t) : (s \o t)[k] \in MemType BY <1>2
  <1>6. \A k \in 1..Len(s \o t) : (s \o t)[k].max # None => (s \o t)[k].min <= (s \o t)[k].max
    BY ModulesAssumption, Zenon DEF validate_memory_type, s, t
  <1>7. Len(s) <= Len(s \o t) BY <1>2, <1>3
  <1> QED BY <1>2, <1>3, <1>4, <1>5, <1>6, <1>7 DEF Types, s, t

\* An instance record's memories.
LEMMA MemoriesAreMems ==
    ASSUME Shapes, NEW i \in Insts, inst[i] # None
    PROVE  /\ inst[i] \in InstanceRecord
           /\ inst[i].mod \in Modules /\ inst[i].limit \in Nat
           /\ \A k \in 1..Len(inst[i].mems) : inst[i].mems[k] \in Mems /\ inst[i].mems[k] \in MemoriesOf(i)
  <1>1. inst[i] \in InstanceRecord BY DEF Shapes
  <1>2. inst[i].mod \in Modules /\ inst[i].limit \in Nat /\ inst[i].mems \in Seq(Mems)
    BY <1>1, LimitsAssumption DEF InstanceRecord
  <1>3. \A k \in 1..Len(inst[i].mems) : inst[i].mems[k] \in Mems BY <1>2
  <1>4. \A k \in 1..Len(inst[i].mems) : inst[i].mems[k] \in MemoriesOf(i) BY DEF MemoriesOf
  <1> QED BY <1>1, <1>2, <1>3, <1>4

\* Initially there is nothing.
LEMMA InitIInv == Init => IInv
  <1> SUFFICES ASSUME Init PROVE IInv OBVIOUS
  <1> USE DEF Init
  <1>1. Shapes BY DEF Shapes
  <1>2. Sizes /\ Bound /\ StackLive BY DEF Sizes, Bound, StackLive
  <1>3. Exclusive BY DEF Exclusive, MemoriesOf
  <1> QED BY <1>1, <1>2, <1>3 DEF IInv

\* A step that only calls or returns.
LEMMA QuietIInv ==
    ASSUME IInv, UNCHANGED <<memory, bytes, inst>>, stack' \in Seq(Frame),
           \A k \in 1..Len(stack') : inst[stack'[k].inst] # None
    PROVE  IInv'
  BY DEF IInv, Shapes, Sizes, Bound, Exclusive, StackLive, Length, size_pages, MemoriesOf

\* A step that only overwrites bytes of one memory.
LEMMA WriteIInv ==
    ASSUME IInv, NEW m \in Mems, NEW a, NEW s, Write(m, a, s), UNCHANGED <<inst, stack>>
    PROVE  IInv'
  <1> USE DEF IInv
  <1>1. DOMAIN bytes' = Mems /\ \A x \in Mems : DOMAIN bytes'[x] = DOMAIN bytes[x]
    BY DEF Shapes, Write, Overwrite
  <1>2. memory' = memory BY DEF Write
  <1>3. Shapes' BY <1>1, <1>2 DEF Shapes
  <1>4. Sizes' BY <1>1, <1>2 DEF Sizes, Length, size_pages
  <1>5. Bound' BY <1>2 DEF Bound, Types
  <1>6. Exclusive' BY <1>2 DEF Exclusive, MemoriesOf
  <1>7. StackLive' BY DEF StackLive
  <1> QED BY <1>3, <1>4, <1>5, <1>6, <1>7

\* Growth by any holder.
LEMMA GrowIInv ==
    ASSUME IInv, NEW m \in Mems, memory[m] # None, NEW delta \in Nat, grow(m, delta), UNCHANGED <<inst, stack>>
    PROVE  IInv'
  <1> USE DEF IInv
  <1>1. /\ memory[m] \in MemoryRecord
        /\ memory[m].pages \in Nat /\ memory[m].max \in 0..MaxPages
        /\ MaxPages \in Nat /\ W \in Nat
    BY PagesAssumption, WordAssumption DEF Shapes, MemoryRecord
  <1>2. memory[m].pages + delta \in 0..memory[m].max
    BY <1>1 DEF grow, CanGrow, Least, size_pages
  <1>3. /\ memory' = [memory EXCEPT ![m] = [@ EXCEPT !.pages = memory[m].pages + delta]]
        /\ bytes' = [bytes EXCEPT ![m] = Grown(@, memory[m].pages + delta)]
    BY DEF grow, size_pages
  <1>4. /\ memory'[m] \in MemoryRecord /\ memory'[m] # None
        /\ memory'[m].pages = memory[m].pages + delta
        /\ memory'[m].max = memory[m].max /\ memory'[m].type = memory[m].type
        /\ memory'[m].shared = memory[m].shared
    BY <1>1, <1>2, <1>3, NoneAssumption DEF Shapes, MemoryRecord
  <1>5. \A x \in Mems \ {m} : memory'[x] = memory[x] /\ bytes'[x] = bytes[x]
    BY <1>3 DEF Shapes
  <1>6. Shapes' BY <1>3, <1>4 DEF Shapes
  <1>7. Sizes'
    <2> SUFFICES ASSUME NEW x \in Mems, memory'[x] # None
                 PROVE  /\ memory'[x].type.min <= memory'[x].pages
                        /\ memory'[x].pages <= memory'[x].max
                        /\ memory'[x].max <= Allowed(memory'[x].type)
                        /\ DOMAIN bytes'[x] = 0..(Length(x)' - 1)
      BY DEF Sizes, Allowed
    <2>1. CASE x = m
      <3>1. memory[m].type.min \in Nat BY <1>1 DEF MemoryRecord, MemType
      <3>2. bytes'[m] = Grown(bytes[m], memory[m].pages + delta) BY <1>3 DEF Shapes
      <3>3. DOMAIN bytes'[m] = 0..((memory[m].pages + delta) * PageSize - 1) BY <3>2 DEF Grown
      <3>4. Length(m)' = (memory[m].pages + delta) * PageSize BY <1>4 DEF Length, size_pages
      <3>5. memory[m].type.min <= memory[m].pages + delta BY <1>1, <3>1 DEF Sizes
      <3> QED BY <1>1, <1>2, <1>4, <2>1, <3>3, <3>4, <3>5 DEF Sizes
    <2>2. CASE x # m BY <1>5, <2>2 DEF Sizes, Length, size_pages
    <2> QED BY <2>1, <2>2
  <1>8. \A x \in Mems : /\ (memory'[x] = None) = (memory[x] = None)
                        /\ memory[x] # None => /\ memory'[x].max = memory[x].max
                                               /\ memory'[x].type = memory[x].type
                                               /\ memory'[x].shared = memory[x].shared
    BY <1>4, <1>5
  <1>9. Bound'
    <2> SUFFICES ASSUME NEW i \in Insts, inst[i] # None, NEW k \in 1..Len(inst[i].mems)
                 PROVE  LET x == inst[i].mems[k]  type == Types(inst[i].mod)[k]
                        IN /\ memory'[x] # None
                           /\ memory'[x].type.m64 = type.m64
                           /\ memory'[x].type.min >= type.min
                           /\ type.max # None => memory'[x].max <= type.max
                           /\ memory'[x].max <= inst[i].limit
      BY DEF Bound
    <2>1. inst[i].mems[k] \in Mems BY MemoriesAreMems
    <2>2. memory[inst[i].mems[k]] # None BY DEF Bound
    <2> QED BY <1>8, <2>1, <2>2 DEF Bound
  <1>10. Exclusive'
    <2> SUFFICES ASSUME NEW i \in Insts, NEW j \in Insts, NEW x \in MemoriesOf(i) \cap MemoriesOf(j),
                        ~memory'[x].shared
                 PROVE  i = j
      BY DEF Exclusive, MemoriesOf
    <2>1. x \in Mems /\ memory[x] # None BY MemoriesAreMems DEF MemoriesOf, Bound
    <2> QED BY <1>8, <2>1 DEF Exclusive
  <1>11. StackLive' BY DEF StackLive
  <1> QED BY <1>6, <1>7, <1>9, <1>10, <1>11

\* A new handle.
LEMMA NewHandleIInv ==
    ASSUME IInv, NEW m \in Mems, NEW type \in HandleTypes, NewHandle(m, type)
    PROVE  IInv'
  <1> USE DEF IInv
  <1> DEFINE new == Allocated(type, Allowed(type), TRUE)
  <1>0. inst' = inst BY DEF NewHandle
  <1>1. type \in MemType /\ type.min \in Nat /\ MaxPages \in Nat
    BY ModulesAssumption, PagesAssumption DEF MemType
  <1>2. /\ memory[m] = None
        /\ memory' = [memory EXCEPT ![m] = new]
        /\ bytes' = [bytes EXCEPT ![m] = Zeros(type.min)]
        /\ UNCHANGED <<inst, stack>>
    BY DEF NewHandle, Allowed
  <1>3. type.min <= Allowed(type) /\ type.min \in 0..MaxPages /\ Allowed(type) \in 0..MaxPages
    BY <1>1 DEF NewHandle, Allowed, MemType
  <1>4. new = [pages |-> type.min, max |-> Allowed(type), type |-> type, shared |-> TRUE]
    BY DEF Allocated
  <1>5. new \in MemoryRecord /\ new # None
    <2> HIDE DEF new
    <2>1. TRUE \in BOOLEAN OBVIOUS
    <2>2. new \in MemoryRecord BY <1>1, <1>3, <1>4, <2>1 DEF MemoryRecord
    <2> QED BY <2>2, NoneAssumption
  <1> HIDE DEF new
  <1>6. /\ memory'[m] = new /\ bytes'[m] = Zeros(type.min)
        /\ \A x \in Mems \ {m} : memory'[x] = memory[x] /\ bytes'[x] = bytes[x]
    BY <1>2 DEF Shapes
  <1>7. Shapes' BY <1>2, <1>5 DEF Shapes
  <1>8. Sizes'
    <2>1. DOMAIN Zeros(type.min) = 0..(type.min * PageSize - 1) BY DEF Zeros
    <2> QED BY <1>3, <1>4, <1>6, <2>1 DEF Sizes, Length, size_pages, Allowed
  <1>9. \A i \in Insts : \A x \in MemoriesOf(i) : x \in Mems \ {m}
    BY <1>2, MemoriesAreMems DEF MemoriesOf, Bound
  <1>10. Bound'
    <2> SUFFICES ASSUME NEW i \in Insts, inst[i] # None, NEW k \in 1..Len(inst[i].mems)
                 PROVE  LET x == inst[i].mems[k]  t == Types(inst[i].mod)[k]
                        IN /\ memory'[x] # None
                           /\ memory'[x].type.m64 = t.m64
                           /\ memory'[x].type.min >= t.min
                           /\ t.max # None => memory'[x].max <= t.max
                           /\ memory'[x].max <= inst[i].limit
      BY <1>0 DEF Bound
    <2>1. inst[i].mems[k] \in MemoriesOf(i) BY MemoriesAreMems
    <2> QED BY <1>6, <1>9, <2>1 DEF Bound
  <1>11. Exclusive'
    <2>1. \A i \in Insts : MemoriesOf(i)' = MemoriesOf(i) BY <1>2 DEF MemoriesOf
    <2> QED BY <1>6, <1>9, <2>1 DEF Exclusive
  <1>12. StackLive' BY <1>2 DEF StackLive
  <1> QED BY <1>7, <1>8, <1>10, <1>11, <1>12

\* The memories a dropped instance owns go with it, and with no other.
LEMMA DropIInv ==
    ASSUME IInv, NEW i \in Insts, Drop(i)
    PROVE  IInv'
  <1> USE DEF IInv
  <1>1. /\ inst' = [inst EXCEPT ![i] = None]
        /\ memory' = [m \in Mems |-> IF Owns(i, m) THEN None ELSE memory[m]]
        /\ bytes' = [m \in Mems |-> IF Owns(i, m) THEN <<>> ELSE bytes[m]]
        /\ UNCHANGED stack
        /\ i \notin Entered
    BY DEF Drop
  <1>2. /\ inst'[i] = None /\ \A j \in Insts \ {i} : inst'[j] = inst[j]
        /\ \A m \in Mems : IF Owns(i, m) THEN memory'[m] = None
                           ELSE memory'[m] = memory[m] /\ bytes'[m] = bytes[m]
    BY <1>1 DEF Shapes
  <1>3. Shapes' BY <1>1 DEF Shapes
  <1>4. Sizes' BY <1>2 DEF Sizes, Length, size_pages
  <1>5. \A j \in Insts \ {i} : \A m \in MemoriesOf(j) : m \in Mems /\ ~Owns(i, m)
    <2> SUFFICES ASSUME NEW j \in Insts \ {i}, NEW m \in MemoriesOf(j) PROVE m \in Mems /\ ~Owns(i, m) OBVIOUS
    <2>1. m \in Mems BY MemoriesAreMems DEF MemoriesOf
    <2> QED BY <2>1 DEF Exclusive, Owns
  <1>6. Bound'
    <2> SUFFICES ASSUME NEW j \in Insts, inst'[j] # None, NEW k \in 1..Len(inst'[j].mems)
                 PROVE  LET x == inst'[j].mems[k]  t == Types(inst'[j].mod)[k]
                        IN /\ memory'[x] # None
                           /\ memory'[x].type.m64 = t.m64
                           /\ memory'[x].type.min >= t.min
                           /\ t.max # None => memory'[x].max <= t.max
                           /\ memory'[x].max <= inst'[j].limit
      BY DEF Bound, Types
    <2>1. j \in Insts \ {i} /\ inst'[j] = inst[j] BY <1>2
    <2>2. inst[j].mems[k] \in MemoriesOf(j) BY <2>1, MemoriesAreMems
    <2>3. memory'[inst[j].mems[k]] = memory[inst[j].mems[k]] BY <1>2, <1>5, <2>1, <2>2
    <2>4. inst[j] # None /\ k \in 1..Len(inst[j].mems) BY <2>1
    <2> QED BY <2>1, <2>3, <2>4, SMTT(20) DEF Bound
  <1>7. Exclusive'
    <2>0. MemoriesOf(i)' = {} BY <1>2 DEF MemoriesOf
    <2>4. ASSUME NEW j \in Insts \ {i} PROVE MemoriesOf(j)' = MemoriesOf(j)
      <3>1. inst'[j] = inst[j] BY <1>2
      <3> QED BY <3>1 DEF MemoriesOf
    <2>1. MemoriesOf(i)' = {} /\ \A j \in Insts \ {i} : MemoriesOf(j)' = MemoriesOf(j)
      BY <2>0, <2>4
    <2> SUFFICES ASSUME NEW j \in Insts, NEW l \in Insts, NEW m \in MemoriesOf(j)' \cap MemoriesOf(l)',
                        ~memory'[m].shared
                 PROVE  j = l
      BY DEF Exclusive
    <2>2. j # i /\ l # i BY <2>1
    <2>3. memory'[m] = memory[m] BY <1>2, <1>5, <2>1, <2>2
    <2> QED BY <2>1, <2>2, <2>3 DEF Exclusive
  <1>8. StackLive'
    <2> SUFFICES ASSUME NEW k \in 1..Len(stack) PROVE inst'[stack[k].inst] # None BY <1>1 DEF StackLive
    <2>1. stack[k] \in Frame BY DEF Shapes
    <2>3. stack[k].inst \in Insts BY <2>1 DEF Frame
    <2>2. stack[k].inst # i BY <1>1 DEF Entered
    <2> QED BY <1>2, <2>2, <2>3 DEF StackLive
  <1> QED BY <1>3, <1>4, <1>6, <1>7, <1>8

\* Instantiation: imports pass the three checks, and the memories the module
\* defines are new.
LEMMA InstantiateIInv ==
    ASSUME IInv, NEW i \in Insts, NEW mod \in Modules, NEW limit \in Limits,
           NEW mems \in [1..Len(Types(mod)) -> Mems], Instantiate(i, mod, mems, limit)
    PROVE  IInv'
  <1> USE DEF IInv
  <1> DEFINE n == Len(mod.imports)
             N == Len(Types(mod))
             own == (n + 1)..N
             TypeAt(m) == Types(mod)[CHOOSE k \in own : mems[k] = m]
             new == [mod |-> mod, mems |-> mems, data |-> mod.data, limit |-> limit]
  <1>1. /\ inst[i] = None
        /\ \A k \in 1..n : /\ memory[mems[k]] # None /\ memory[mems[k]].shared
                           /\ validate_memory_address_width(mod.imports[k], mems[k])
                           /\ validate_memory_limits(mod.imports[k], mems[k])
                           /\ validate_memory_runtime_limit(mems[k], limit)
        /\ \A k \in own : /\ memory[mems[k]] = None
                          /\ \A j \in own : mems[j] = mems[k] => j = k
                          /\ Types(mod)[k].min <= Least(limit, MaxPages)
        /\ memory' = [m \in Mems |-> IF \E k \in own : mems[k] = m
                                     THEN Allocated(TypeAt(m), OwnedMax(TypeAt(m), limit), FALSE)
                                     ELSE memory[m]]
        /\ bytes' = [m \in Mems |-> IF \E k \in own : mems[k] = m THEN Zeros(TypeAt(m).min) ELSE bytes[m]]
        /\ inst' = [inst EXCEPT ![i] = new]
        /\ stack' = stack
    BY DEF Instantiate
  <1>2. /\ n \in Nat /\ N \in Nat /\ n <= N
        /\ \A k \in 1..n : Types(mod)[k] = mod.imports[k]
        /\ \A k \in 1..N : /\ Types(mod)[k] \in MemType
                           /\ Types(mod)[k].max # None => Types(mod)[k].min <= Types(mod)[k].max
    BY TypesOf
  <1>3. limit \in Nat /\ MaxPages \in Nat BY LimitsAssumption, PagesAssumption
  <1> HIDE DEF n, N, new
  \* The memories allocated.
  <1>4. ASSUME NEW k \in own
        PROVE  LET m == mems[k]  type == Types(mod)[k] IN
               /\ m \in Mems /\ type \in MemType /\ memory[m] = None
               /\ memory'[m] = [pages |-> type.min, max |-> OwnedMax(type, limit), type |-> type, shared |-> FALSE]
               /\ bytes'[m] = Zeros(type.min)
               /\ type.min <= OwnedMax(type, limit) /\ OwnedMax(type, limit) \in 0..MaxPages
               /\ OwnedMax(type, limit) <= Allowed(type) /\ OwnedMax(type, limit) <= limit
               /\ memory'[m] \in MemoryRecord /\ memory'[m] # None
    <2> DEFINE m == mems[k]
               type == Types(mod)[k]
    <2>1. k \in 1..N BY <1>2
    <2>2. m \in Mems /\ type \in MemType /\ memory[m] = None BY <1>1, <1>2, <2>1 DEF N
    <2>3. TypeAt(m) = type
      <3>1. \A j \in own : mems[j] = m => j = k BY <1>1
      <3>2. (CHOOSE j \in own : mems[j] = m) = k BY <3>1
      <3> QED BY <3>2
    <2> HIDE DEF TypeAt
    <2>4. /\ memory'[m] = Allocated(type, OwnedMax(type, limit), FALSE)
          /\ bytes'[m] = Zeros(type.min)
      BY <1>1, <2>2, <2>3
    <2>5. /\ type.min \in Nat /\ type.max \in Nat \cup {None}
          /\ type.max # None => type.min <= type.max
          /\ type.min <= Least(limit, MaxPages)
      BY <1>1, <1>2, <2>1, <2>2 DEF MemType
    <2> HIDE DEF type, m
    <2>6. /\ type.min <= OwnedMax(type, limit) /\ OwnedMax(type, limit) \in 0..MaxPages
          /\ OwnedMax(type, limit) <= Allowed(type) /\ OwnedMax(type, limit) <= limit
      BY <1>3, <2>5 DEF OwnedMax, Least, Allowed
    <2>7. memory'[m] = [pages |-> type.min, max |-> OwnedMax(type, limit), type |-> type, shared |-> FALSE]
      BY <2>4 DEF Allocated
    <2>8. type.min \in 0..MaxPages /\ FALSE \in BOOLEAN BY <1>3, <2>5, <2>6
    <2>9. memory'[m] \in MemoryRecord BY <2>2, <2>6, <2>7, <2>8 DEF MemoryRecord
    <2>10. memory'[m] # None BY <2>9, NoneAssumption
    <2> QED BY <2>2, <2>4, <2>6, <2>7, <2>9, <2>10 DEF m, type
  <1>5. \A m \in Mems : (\A k \in own : mems[k] # m) => memory'[m] = memory[m] /\ bytes'[m] = bytes[m]
    BY <1>1
  <1> HIDE DEF TypeAt
  <1>0. (\A k \in own : memory[mems[k]] = None) /\ (\A k \in 1..n : memory[mems[k]].shared) BY <1>1
  <1>6. \A m \in Mems : memory[m] # None => memory'[m] = memory[m] /\ bytes'[m] = bytes[m]
    BY <1>5, <1>0
  \* The instance.
  <1>7. /\ new \in InstanceRecord /\ new.mems = mems /\ new.mod = mod /\ new.limit = limit
        /\ Len(mems) = N
    <2>1. mems \in Seq(Mems) /\ Len(mems) = N BY <1>2 DEF N
    <2>2. mod.data \in Seq(Byte) BY ModulesAssumption DEF ModuleType
    <2> QED BY <2>1, <2>2 DEF new, InstanceRecord
  <1>8. inst'[i] = new /\ \A j \in Insts \ {i} : inst'[j] = inst[j] BY <1>1 DEF Shapes
  <1>9. Shapes'
    <2>1. memory' \in [Mems -> MemoryRecord \cup {None}]
      <3>1. memory' = [m \in Mems |-> memory'[m]] BY <1>1
      <3>2. \A m \in Mems : memory'[m] \in MemoryRecord \cup {None} BY <1>4, <1>5 DEF Shapes
      <3> QED BY <3>1, <3>2
    <2>2. DOMAIN bytes' = Mems BY <1>1
    <2>3. inst' \in [Insts -> InstanceRecord \cup {None}] BY <1>1, <1>7 DEF Shapes
    <2>4. ASSUME NEW j \in Insts, inst'[j] # None PROVE Len(inst'[j].mems) = Len(Types(inst'[j].mod))
      <3>1. CASE j = i BY <1>7, <1>8, <3>1 DEF N
      <3>2. CASE j # i BY <1>8, <2>4, <3>2 DEF Shapes
      <3> QED BY <3>1, <3>2
    <2> QED BY <1>1, <2>1, <2>2, <2>3, <2>4 DEF Shapes, Types
  <1>10. Sizes'
    <2> SUFFICES ASSUME NEW m \in Mems, memory'[m] # None
                 PROVE  /\ memory'[m].type.min <= memory'[m].pages
                        /\ memory'[m].pages <= memory'[m].max
                        /\ memory'[m].max <= Allowed(memory'[m].type)
                        /\ DOMAIN bytes'[m] = 0..(memory'[m].pages * PageSize - 1)
      BY DEF Sizes, Allowed, Length, size_pages
    <2>1. CASE \E k \in own : mems[k] = m
      <3>1. PICK k \in own : mems[k] = m BY <2>1
      <3>2. Types(mod)[k].min \in Nat BY <1>4 DEF MemType
      <3>3. DOMAIN Zeros(Types(mod)[k].min) = 0..(Types(mod)[k].min * PageSize - 1) BY DEF Zeros
      <3>4. /\ memory'[m] = [pages |-> Types(mod)[k].min, max |-> OwnedMax(Types(mod)[k], limit),
                             type |-> Types(mod)[k], shared |-> FALSE]
            /\ bytes'[m] = Zeros(Types(mod)[k].min)
            /\ Types(mod)[k].min <= OwnedMax(Types(mod)[k], limit)
            /\ OwnedMax(Types(mod)[k], limit) <= Allowed(Types(mod)[k])
        BY <1>4, <3>1
      <3> QED BY <3>2, <3>3, <3>4
    <2>2. CASE \A k \in own : mems[k] # m
      BY <1>5, <2>2 DEF Sizes, Length, size_pages
    <2> QED BY <2>1, <2>2
  <1>11. \A j \in Insts : \A m \in MemoriesOf(j) : m \in Mems /\ memory[m] # None /\ memory'[m] = memory[m]
    BY <1>6, MemoriesAreMems DEF MemoriesOf, Bound
  <1>12. Bound'
    <2> SUFFICES ASSUME NEW j \in Insts, inst'[j] # None, NEW k \in 1..Len(inst'[j].mems)
                 PROVE  LET x == inst'[j].mems[k]  t == Types(inst'[j].mod)[k]
                        IN /\ memory'[x] # None
                           /\ memory'[x].type.m64 = t.m64
                           /\ memory'[x].type.min >= t.min
                           /\ t.max # None => memory'[x].max <= t.max
                           /\ memory'[x].max <= inst'[j].limit
      BY DEF Bound, Types
    <2>1. CASE j # i
      <3>1. inst'[j] = inst[j] BY <1>8, <2>1
      <3>2. memory'[inst[j].mems[k]] = memory[inst[j].mems[k]] BY <1>11, <3>1, MemoriesAreMems
      <3> QED BY <3>1, <3>2 DEF Bound
    <2>2. CASE j = i
      <3> DEFINE x == mems[k]
                 t == Types(mod)[k]
      <3>1. k \in 1..N /\ inst'[j].mems[k] = x /\ Types(inst'[j].mod)[k] = t /\ inst'[j].limit = limit
        BY <1>7, <1>8, <2>2
      <3>2. CASE k \in own
        <4>1. t.min \in Nat BY <1>2, <3>1 DEF MemType
        <4>2. t.max # None => Allowed(t) = t.max BY DEF Allowed
        <4>3. /\ memory'[x] = [pages |-> t.min, max |-> OwnedMax(t, limit), type |-> t, shared |-> FALSE]
              /\ OwnedMax(t, limit) <= Allowed(t) /\ OwnedMax(t, limit) <= limit
              /\ memory'[x] # None
          BY <1>4, <3>2
        <4> HIDE DEF x, t
        <4> QED BY <3>1, <4>1, <4>2, <4>3
      <3>3. CASE k \in 1..n
        <4>1. x \in Mems /\ memory[x] # None /\ t = mod.imports[k] BY <1>1, <1>2, <3>1, <3>3 DEF N
        <4>2. memory'[x] = memory[x] BY <1>6, <4>1
        <4>3. memory[x].max <= Allowed(memory[x].type) /\ memory[x].max \in Nat /\ t.max \in Nat \cup {None}
              /\ memory[x].type.max \in Nat \cup {None}
          <5>1. memory[x] \in MemoryRecord BY <4>1 DEF Shapes
          <5>2. memory[x].max \in Nat /\ memory[x].type \in MemType BY <1>3, <5>1 DEF MemoryRecord
          <5>3. t \in MemType BY <1>2, <3>1
          <5>4. memory[x].max <= Allowed(memory[x].type) BY <4>1 DEF Sizes
          <5> HIDE DEF x, t
          <5> QED BY <5>2, <5>3, <5>4 DEF MemType
        <4>4. memory[x].type.m64 = t.m64 /\ memory[x].type.min >= t.min
          BY <1>1, <3>3, <4>1 DEF validate_memory_address_width, validate_memory_limits
        <4>5. t.max # None => memory[x].type.max # None /\ memory[x].type.max <= t.max
          BY <1>1, <3>3, <4>1 DEF validate_memory_limits
        <4>6. Allowed(memory[x].type) <= Least(limit, MaxPages)
          BY <1>1, <3>3 DEF validate_memory_runtime_limit, Allowed
        <4> HIDE DEF x, t
        <4>7. t.max # None => memory[x].max <= t.max
          BY <4>3, <4>5, NoneAssumption DEF Allowed
        <4>8. memory[x].max <= limit
          BY <1>3, <4>3, <4>6 DEF Least, Allowed
        <4> QED BY <3>1, <4>1, <4>2, <4>4, <4>7, <4>8
      <3> QED BY <1>2, <3>1, <3>2, <3>3
    <2> QED BY <2>1, <2>2
  <1>13. Exclusive'
    <2>1. /\ MemoriesOf(i) = {}
          /\ \A j \in Insts \ {i} : MemoriesOf(j)' = MemoriesOf(j)
          /\ \A m \in MemoriesOf(i)' : \E k \in 1..N : m = mems[k]
      BY <1>1, <1>7, <1>8 DEF MemoriesOf
    \* What the new instance shares with another is shared.
    <2>2. ASSUME NEW j \in Insts \ {i}, NEW m \in MemoriesOf(j), m \in MemoriesOf(i)' PROVE memory'[m].shared
      <3>1. PICK k \in 1..N : m = mems[k] BY <2>1, <2>2
      <3>2. k \notin own BY <1>11, <1>0, <2>2, <3>1
      <3>3. k \in 1..n BY <1>2, <3>1, <3>2
      <3> QED BY <1>11, <1>0, <2>2, <3>1, <3>3
    <2> SUFFICES ASSUME NEW j \in Insts, NEW l \in Insts, NEW m \in MemoriesOf(j)' \cap MemoriesOf(l)',
                        ~memory'[m].shared
                 PROVE  j = l
      BY DEF Exclusive
    <2>3. CASE j # i /\ l # i BY <1>11, <2>1, <2>3 DEF Exclusive
    <2>4. CASE j = i /\ l # i BY <2>1, <2>2, <2>4
    <2>5. CASE j # i /\ l = i BY <2>1, <2>2, <2>5
    <2> QED BY <2>3, <2>4, <2>5
  <1>14. StackLive'
    <2> SUFFICES ASSUME NEW k \in 1..Len(stack) PROVE inst'[stack[k].inst] # None BY <1>1 DEF StackLive
    <2>1. stack[k] \in Frame BY DEF Shapes
    <2>2. stack[k].inst \in Insts BY <2>1 DEF Frame
    <2>3. stack[k].inst # i BY <1>1 DEF StackLive
    <2> QED BY <1>8, <2>2, <2>3 DEF StackLive
  <1> QED BY <1>9, <1>10, <1>12, <1>13, <1>14

\* What the frame on top of the stack runs on.
LEMMA TopFrame ==
    ASSUME IInv, stack # <<>>
    PROVE  Len(stack) \in Nat \ {0} /\ Top \in Frame /\ Top.inst \in Insts /\ inst[Top.inst] # None
  <1>1. stack \in Seq(Frame) BY DEF IInv, Shapes
  <1>2. Len(stack) \in Nat \ {0} BY <1>1
  <1>3. Top \in Frame BY <1>1, <1>2 DEF Top
  <1> QED BY <1>2, <1>3 DEF IInv, StackLive, Top, Frame

LEMMA TopMemory ==
    ASSUME IInv, NEW k \in TopIndices
    PROVE  /\ stack # <<>> /\ Top.inst \in Insts
           /\ Mem(k) \in Mems /\ Mem(k) \in MemoriesOf(Top.inst) /\ memory[Mem(k)] # None
  <1>1. stack # <<>> BY DEF TopIndices
  <1>2. Top.inst \in Insts /\ inst[Top.inst] # None BY <1>1, TopFrame
  <1>3. k \in 1..Len(inst[Top.inst].mems) BY <1>1, <1>2 DEF TopIndices, Indices
  <1> QED BY <1>1, <1>2, <1>3, MemoriesAreMems DEF IInv, Bound, Mem

\* Leaving the frame on top.
LEMMA LeaveIInv == ASSUME IInv, stack # <<>>, Leave PROVE IInv'
  <1> DEFINE n == Len(stack) - 1
  <1>1. stack \in Seq(Frame) /\ n \in Nat /\ n < Len(stack) BY TopFrame DEF IInv, Shapes
  <1>2. stack' = SubSeq(stack, 1, n) /\ UNCHANGED <<memory, bytes, inst>> BY DEF Leave, Pop
  <1> HIDE DEF n
  <1>3. /\ SubSeq(stack, 1, n) \in Seq(Frame)
        /\ \A k \in 1..n : SubSeq(stack, 1, n)[k] = stack[k]
    BY <1>1
  <1>4. Len(SubSeq(stack, 1, n)) = n
    <2>1. CASE n = 0 BY <1>1, <2>1, SMTT(20)
    <2>2. CASE n > 0 BY <1>1, <2>2, SMTT(20)
    <2> QED BY <1>1, <2>1, <2>2
  <1>5. \A k \in 1..Len(stack') : inst[stack'[k].inst] # None
    BY <1>1, <1>2, <1>3, <1>4 DEF IInv, StackLive
  <1> QED BY <1>2, <1>3, <1>5, QuietIInv

\* An instruction that writes, or traps.
LEMMA AccessIInv ==
    ASSUME IInv, NEW k \in TopIndices, NEW c, NEW a, NEW s, Access(c, Mem(k), a, s)
    PROVE  IInv'
  <1>1. Mem(k) \in Mems /\ stack # <<>> BY TopMemory
  <1>2. CASE c BY <1>1, <1>2, WriteIInv DEF Access
  <1>3. CASE ~c BY <1>1, <1>3, LeaveIInv DEF Access
  <1> QED BY <1>2, <1>3

\* A call to the host and back.
LEMMA ModeIInv ==
    ASSUME IInv, stack # <<>>, NEW mode \in {"guest"} \cup Capabilities,
           stack' = [stack EXCEPT ![Len(stack)].mode = mode], UNCHANGED <<memory, bytes, inst>>
    PROVE  IInv'
  <1>1. stack \in Seq(Frame) /\ Len(stack) \in Nat \ {0} BY TopFrame DEF IInv, Shapes
  <1>2. stack[Len(stack)] \in Frame BY <1>1
  <1> DEFINE f == [stack[Len(stack)] EXCEPT !.mode = mode]
  <1>3. f \in Frame /\ f.inst = stack[Len(stack)].inst BY <1>2 DEF Frame
  <1>4. stack' = [stack EXCEPT ![Len(stack)] = f] OBVIOUS
  <1> HIDE DEF f
  <1>5. stack' \in Seq(Frame) /\ Len(stack') = Len(stack) BY <1>1, <1>3, <1>4
  <1>6. \A k \in 1..Len(stack) : stack'[k].inst = stack[k].inst BY <1>1, <1>3, <1>4
  <1> QED BY <1>5, <1>6, QuietIInv DEF IInv, StackLive

\* Entering an instance.
LEMMA InvokeIInv == ASSUME IInv, NEW i \in Insts, Invoke(i) PROVE IInv'
  <1> DEFINE f == [inst |-> i, mode |-> "guest"]
  <1>1. f \in Frame /\ f.inst = i BY DEF Frame
  <1>2. /\ stack \in Seq(Frame) /\ inst[i] # None
        /\ stack' = Append(stack, f) /\ UNCHANGED <<memory, bytes, inst>>
    BY DEF IInv, Shapes, Invoke
  <1> HIDE DEF f
  <1>3. /\ stack' \in Seq(Frame) /\ Len(stack') = Len(stack) + 1 /\ Len(stack) \in Nat
        /\ \A k \in 1..Len(stack) : stack'[k] = stack[k]
        /\ stack'[Len(stack) + 1] = f
    BY <1>1, <1>2
  <1>4. \A k \in 1..Len(stack') : inst[stack'[k].inst] # None
    BY <1>1, <1>2, <1>3 DEF IInv, StackLive
  <1> QED BY <1>2, <1>3, <1>4, QuietIInv

\* data.drop
LEMMA DataDropIInv == ASSUME IInv, DataDrop PROVE IInv'
  <1> DEFINE i == Top.inst
             r == [inst[i] EXCEPT !.data = <<>>]
  <1>1. i \in Insts /\ inst[i] # None BY TopFrame DEF DataDrop, GuestRuns
  <1>2. inst[i] \in InstanceRecord BY <1>1 DEF IInv, Shapes
  <1>3. inst' = [inst EXCEPT ![i] = r] /\ UNCHANGED <<memory, bytes, stack>> BY DEF DataDrop
  <1>4. /\ r \in InstanceRecord /\ r # None
        /\ r.mod = inst[i].mod /\ r.mems = inst[i].mems /\ r.limit = inst[i].limit
    <2>1. <<>> \in Seq(Byte) OBVIOUS
    <2>2. r \in InstanceRecord BY <1>2, <2>1 DEF InstanceRecord
    <2> QED BY <1>2, <2>2, NoneAssumption DEF InstanceRecord
  <1> HIDE DEF i, r
  <1>5. inst' \in [Insts -> InstanceRecord \cup {None}] BY <1>1, <1>3, <1>4 DEF IInv, Shapes
  <1>6. \A j \in Insts : /\ (inst'[j] = None) = (inst[j] = None)
                         /\ inst[j] # None => /\ inst'[j].mod = inst[j].mod /\ inst'[j].mems = inst[j].mems
                                              /\ inst'[j].limit = inst[j].limit
    BY <1>1, <1>3, <1>4 DEF IInv, Shapes
  <1>7. ASSUME NEW j \in Insts PROVE MemoriesOf(j)' = MemoriesOf(j)
    <2>1. CASE inst[j] = None BY <1>6, <2>1 DEF MemoriesOf
    <2>2. CASE inst[j] # None
      <3>1. inst'[j] # None /\ inst'[j].mems = inst[j].mems BY <1>6, <2>2
      <3> QED BY <2>2, <3>1 DEF MemoriesOf
    <2> QED BY <2>1, <2>2
  <1>8. Shapes' BY <1>3, <1>5, <1>6 DEF IInv, Shapes, Types
  <1>9. Sizes' BY <1>3 DEF IInv, Sizes, Length, size_pages
  <1>10. Bound'
    <2> SUFFICES ASSUME NEW j \in Insts, inst'[j] # None, NEW k \in 1..Len(inst'[j].mems)
                 PROVE  LET x == inst'[j].mems[k]  t == Types(inst'[j].mod)[k]
                        IN /\ memory'[x] # None
                           /\ memory'[x].type.m64 = t.m64
                           /\ memory'[x].type.min >= t.min
                           /\ t.max # None => memory'[x].max <= t.max
                           /\ memory'[x].max <= inst'[j].limit
      BY DEF Bound, Types
    <2>1. inst[j] # None BY <1>6
    <2>2. inst'[j].mod = inst[j].mod /\ inst'[j].mems = inst[j].mems /\ inst'[j].limit = inst[j].limit
      BY <1>6, <2>1
    <2> QED BY <1>3, <2>1, <2>2 DEF IInv, Bound
  <1>11. Exclusive' BY <1>3, <1>7 DEF IInv, Exclusive
  <1>12. StackLive'
    <2> SUFFICES ASSUME NEW k \in 1..Len(stack) PROVE inst'[stack[k].inst] # None BY <1>3 DEF StackLive
    <2>1. stack[k] \in Frame BY DEF IInv, Shapes
    <2>2. stack[k].inst \in Insts BY <2>1 DEF Frame
    <2> QED BY <1>6, <2>2 DEF IInv, StackLive
  <1> QED BY <1>8, <1>9, <1>10, <1>11, <1>12 DEF IInv

\* Every step keeps the invariant.
LEMMA NextIInv == IInv /\ [Next]_vars => IInv'
  <1> SUFFICES ASSUME IInv, [Next]_vars PROVE IInv' OBVIOUS
  <1>1. CASE UNCHANGED vars BY <1>1, QuietIInv DEF vars, IInv, Shapes, StackLive
  <1>2. ASSUME NEW m \in Mems, NEW type \in HandleTypes, NewHandle(m, type) PROVE IInv'
    BY <1>2, NewHandleIInv
  <1>3. ASSUME NEW m \in Mems, NEW a \in Addresses, NEW v \in Values, HandleWrite(m, a, v) PROVE IInv'
    BY <1>3, WriteIInv DEF HandleWrite
  <1>4. ASSUME NEW m \in Mems, NEW delta \in Deltas, HandleGrow(m, delta) PROVE IInv'
    BY <1>4, GrowIInv DEF HandleGrow, Word
  <1>5. ASSUME NEW i \in Insts, NEW mod \in Modules, NEW limit \in Limits,
               NEW mems \in [1..Len(Types(mod)) -> Mems], Instantiate(i, mod, mems, limit)
        PROVE  IInv'
    BY <1>5, InstantiateIInv
  <1>6. ASSUME NEW i \in Insts, Drop(i) \/ Invoke(i) PROVE IInv' BY <1>6, DropIInv, InvokeIInv
  <1>7. ASSUME NEW i \in Insts, NEW k \in Indices(i), NEW a \in Addresses, NEW v \in Values,
               InstanceWrite(i, k, a, v)
        PROVE  IInv'
    <2>1. inst[i].mems[k] \in Mems BY <1>7, MemoriesAreMems DEF Indices, IInv, InstanceWrite
    <2> QED BY <1>7, <2>1, WriteIInv DEF InstanceWrite
  <1>8. ASSUME NEW c \in Capabilities, CallHost(c) PROVE IInv' BY <1>8, ModeIInv DEF CallHost, GuestRuns
  <1>9. ASSUME NEW k \in TopIndices, NEW a \in Addresses, NEW v \in Values, ContextWrite(k, a, v) PROVE IInv'
    BY <1>9, TopMemory, WriteIInv DEF ContextWrite, Mem
  <1>10. CASE HostReturns BY <1>10, ModeIInv DEF HostReturns
  <1>11. CASE HostFails \/ GuestReturns BY <1>11, LeaveIInv DEF HostFails, GuestReturns, GuestRuns
  <1>12. CASE DataDrop BY <1>12, DataDropIInv
  <1>13. ASSUME NEW k \in TopIndices, NEW a \in Addresses, NEW d \in Displacements, NEW v \in Values,
                StoreV128(k, a, d, v) \/ \E w \in Widths : Store(k, a, d, w, v)
         PROVE  IInv'
    BY <1>13, AccessIInv DEF StoreV128, Store
  <1>14. ASSUME NEW k \in TopIndices, NEW delta \in Deltas, Grow(k, delta) PROVE IInv'
    <2>1. delta \in Nat BY LimitsAssumption DEF U64, MaxU64
    <2> QED BY <1>14, <2>1, TopMemory, GrowIInv DEF Grow
  <1>15. ASSUME NEW k \in TopIndices, NEW a \in Addresses, NEW n \in Addresses,
                \/ \E v \in Values : Fill(k, a, v, n)
                \/ \E b \in Addresses : MemoryInit(k, a, b, n)
                \/ \E j \in TopIndices, b \in Addresses : Copy(k, j, a, b, n)
         PROVE  IInv'
    BY <1>15, AccessIInv DEF Fill, MemoryInit, Copy
  <1> QED BY <1>1, <1>2, <1>3, <1>4, <1>5, <1>6, <1>7, <1>8, <1>9, <1>10, <1>11, <1>12, <1>13, <1>14, <1>15 DEF Next

\* The invariant holds throughout.
THEOREM Invariance == Spec => []IInv
  BY InitIInv, NextIInv, PTL DEF Spec

\* validate_memory_limits and validate_memory_runtime_limit, made once at
\* instantiation: no later growth, by anyone, invalidates what they found.
THEOREM Limits_Hold == Spec => []LimitsHold
  <1>1. IInv => LimitsHold
    <2> SUFFICES ASSUME IInv, NEW i \in Insts, NEW k \in Indices(i)
                 PROVE  LET m == inst[i].mems[k]  type == Types(inst[i].mod)[k]
                        IN /\ memory[m] # None
                           /\ memory[m].type.m64 = type.m64
                           /\ memory[m].pages >= type.min
                           /\ type.max # None => memory[m].pages <= type.max
                           /\ memory[m].pages <= inst[i].limit
      BY DEF LimitsHold
    <2> DEFINE m == inst[i].mems[k]
               type == Types(inst[i].mod)[k]
    <2>1. inst[i] # None /\ k \in 1..Len(inst[i].mems) BY DEF Indices
    <2>2. m \in Mems /\ inst[i].limit \in Nat /\ inst[i].mod \in Modules BY <2>1, MemoriesAreMems DEF IInv
    <2>3. k \in 1..Len(Types(inst[i].mod)) BY <2>1 DEF IInv, Shapes
    <2>4. type \in MemType BY <2>2, <2>3, TypesOf
    <2>5. type.min \in Nat /\ type.max \in Nat \cup {None} BY <2>4 DEF MemType
    <2>6. /\ memory[m] # None
          /\ memory[m].type.m64 = type.m64
          /\ memory[m].type.min >= type.min
          /\ type.max # None => memory[m].max <= type.max
          /\ memory[m].max <= inst[i].limit
      BY <2>1 DEF IInv, Bound
    <2>7. memory[m] \in MemoryRecord BY <2>2, <2>6 DEF IInv, Shapes
    <2>8. memory[m].pages \in Nat /\ memory[m].max \in Nat /\ memory[m].type.min \in Nat
      BY <2>7, PagesAssumption DEF MemoryRecord, MemType
    <2>9. memory[m].type.min <= memory[m].pages /\ memory[m].pages <= memory[m].max
      BY <2>2, <2>6 DEF IInv, Sizes
    <2> HIDE DEF m, type
    <2> QED BY <2>2, <2>5, <2>6, <2>8, <2>9 DEF m, type
  <1> QED BY <1>1, Invariance, PTL

-----------------------------------------------------------------------------
\* No memory is longer than 2^32 bytes, and that is short of 2^64.
LEMMA LengthBound ==
    ASSUME NEW p \in 0..MaxPages
    PROVE  p * PageSize \in Nat /\ p * PageSize <= W /\ W <= MaxU64 /\ MaxU64 \in Nat /\ W \in Nat
  <1>1. p \in Nat /\ MaxPages \in Nat /\ PageSize \in Nat /\ p <= MaxPages /\ W = MaxPages * PageSize
    BY PagesAssumption
  <1>2. MaxPages * PageSize = p * PageSize + (MaxPages - p) * PageSize BY <1>1
  <1>3. (MaxPages - p) * PageSize \in Nat /\ p * PageSize \in Nat BY <1>1
  <1>4. W \in Nat /\ W > 1 BY WordAssumption
  <1>5. (W - 1) * W >= 1 * W BY <1>4
  <1>6. W * W - 1 >= W BY <1>4, <1>5
  <1> QED BY <1>1, <1>2, <1>3, <1>4, <1>6 DEF MaxU64

\* The checks compute without wrapping and reject nothing that fits.
THEOREM Bounds_Exact == Spec => []BoundsExact
  <1>1. IInv => BoundsExact
    <2> SUFFICES ASSUME IInv, NEW m \in Mems, memory[m] # None, NEW a \in Addresses \cap Operand(m)
                 PROVE  /\ \A d \in Displacements, w \in Widths :
                              /\ Scalar(m, a, d, w) <=> a + d + w <= Length(m)
                              /\ Fixed(m, a, d, w) <=> a + d + w <= Length(m)
                        /\ \A n \in Addresses :
                              /\ checked_bulk_range(m, a, n) <=> a + n <= Length(m)
                              /\ a \in Word => (checked_host_range(m, a, n) <=> a + n <= Length(m))
      BY DEF BoundsExact
    <2>1. memory[m] \in MemoryRecord BY DEF IInv, Shapes
    <2>2. memory[m].pages \in 0..MaxPages BY <2>1 DEF MemoryRecord
    <2>3. /\ Length(m) \in Nat /\ Length(m) <= W /\ W <= MaxU64 /\ MaxU64 \in Nat /\ W \in Nat
      BY <2>2, LengthBound DEF Length, size_pages
    <2>4. a \in Nat BY <2>3, ArgumentsAssumption DEF U64
    <2>6. ASSUME NEW d \in Displacements, NEW w \in Widths
          PROVE  /\ Scalar(m, a, d, w) <=> a + d + w <= Length(m)
                 /\ Fixed(m, a, d, w) <=> a + d + w <= Length(m)
      <3>1. d \in Nat /\ w \in Nat /\ w > 0
        <4>1. d \in Nat BY <2>3, ArgumentsAssumption DEF U64
        <4>2. w \in Nat /\ w > 0 BY WidthAssumption DEF Widths
        <4> QED BY <4>1, <4>2
      <3>2. CASE a + d > MaxU64
        <4>1. checked_add(a, d) = Overflow BY <3>2 DEF checked_add
        <4>2. ~(a + d + w <= Length(m)) BY <2>3, <2>4, <3>1, <3>2
        <4>3. a > W - 1 \/ pop_runtime_memory_address(a) = a BY DEF pop_runtime_memory_address
        <4>4. ~Scalar(m, a, d, w)
          BY <4>1, <4>3 DEF Scalar, checked_range, pop_runtime_memory_address
        <4>5. ~Fixed(m, a, d, w) BY <4>1 DEF Fixed
        <4> QED BY <4>2, <4>4, <4>5
      <3>3. CASE a + d <= MaxU64
        <4>1. checked_add(a, d) = a + d /\ a + d \in Nat /\ a + d # Overflow
          BY <2>3, <2>4, <3>1, <3>3 DEF checked_add, Overflow
        <4>2. (checked_add(a + d, w) # Overflow /\ checked_add(a + d, w) <= Length(m)) <=> a + d + w <= Length(m)
          BY <2>3, <3>1, <4>1 DEF checked_add, Overflow
        <4>3. Fixed(m, a, d, w) <=> a + d + w <= Length(m)
          BY <4>1, <4>2 DEF Fixed, checked_bulk_range
        <4>4. checked_range(m, a, d, w) <=> a + d + w <= Length(m)
          BY <4>1, <4>2 DEF checked_range
        <4>5. CASE a > W - 1
          <5>1. ~(a + d + w <= Length(m)) BY <2>3, <2>4, <3>1, <4>5
          <5>2. ~Scalar(m, a, d, w) BY <4>5 DEF Scalar, pop_runtime_memory_address
          <5> QED BY <4>3, <5>1, <5>2
        <4>6. CASE ~(a > W - 1)
          <5>1. pop_runtime_memory_address(a) = a /\ a # Overflow
            BY <2>4, <4>6 DEF pop_runtime_memory_address, Overflow
          <5> QED BY <4>3, <4>4, <5>1 DEF Scalar
        <4> QED BY <4>5, <4>6
      <3> QED BY <2>3, <2>4, <3>1, <3>2, <3>3
    <2>7. ASSUME NEW n \in Addresses
          PROVE  /\ checked_bulk_range(m, a, n) <=> a + n <= Length(m)
                 /\ checked_host_range(m, a, n) <=> a + n <= Length(m)
      <3>1. n \in Nat BY <2>3, ArgumentsAssumption DEF U64
      <3> QED BY <2>3, <2>4, <3>1 DEF checked_bulk_range, checked_host_range, checked_add, Overflow
    <2> QED BY <2>6, <2>7
  <1> QED BY <1>1, Invariance, PTL

-----------------------------------------------------------------------------
\* Instantiation touches no memory that exists.
LEMMA InstantiateKeeps ==
    ASSUME NEW i, NEW mod, NEW limit, NEW mems, Instantiate(i, mod, mems, limit),
           NEW m \in Mems, memory[m] # None
    PROVE  memory'[m] = memory[m] /\ bytes'[m] = bytes[m]
  <1> DEFINE own == (Len(mod.imports) + 1)..Len(Types(mod))
  <1>1. \A k \in own : memory[mems[k]] = None BY DEF Instantiate
  <1>2. ~\E k \in own : mems[k] = m BY <1>1
  <1> QED BY <1>2 DEF Instantiate

\* A step that changes memory m is a write or a growth through a handle, which
\* m is shared by, or through an instance that has m, or drops that instance.
LEMMA WhoChanges ==
    ASSUME IInv, Next, NEW m \in Mems, memory[m] # None, ~(memory'[m] = memory[m] /\ bytes'[m] = bytes[m])
    PROVE  \/ memory[m].shared
           \/ \E i \in Insts : m \in MemoriesOf(i) /\ i \notin Entered
           \/ /\ stack # <<>> /\ Top.inst \in Insts /\ m \in MemoriesOf(Top.inst)
              /\ Top.mode \in {"guest", "MEMORY_READ_WRITE"}
  <1> DEFINE Host == \E i \in Insts : m \in MemoriesOf(i) /\ i \notin Entered
             Guest == /\ stack # <<>> /\ Top.inst \in Insts /\ m \in MemoriesOf(Top.inst)
                      /\ Top.mode \in {"guest", "MEMORY_READ_WRITE"}
             Goal == memory[m].shared \/ Host \/ Guest
  <1>1. memory \in [Mems -> MemoryRecord \cup {None}] /\ DOMAIN bytes = Mems BY DEF IInv, Shapes
  \* Only the memory named in a write or a growth changes.
  <1>2. ASSUME NEW x, NEW a, NEW s, Write(x, a, s) PROVE x = m BY <1>1, <1>2 DEF Write
  <1>3. ASSUME NEW x, NEW delta, grow(x, delta) PROVE x = m BY <1>1, <1>3 DEF grow
  <1>4. ASSUME NEW k \in TopIndices, NEW c, NEW a, NEW s, Access(c, Mem(k), a, s), GuestRuns PROVE Goal
    <2>1. c BY <1>4 DEF Access, Leave
    <2>2. Mem(k) = m BY <1>2, <1>4, <2>1 DEF Access
    <2> QED BY <1>4, <2>2, TopMemory DEF GuestRuns
  <1>5. ASSUME NEW x \in Mems, NEW type \in HandleTypes, NewHandle(x, type) PROVE Goal
    <2>1. x # m BY <1>5 DEF NewHandle
    <2> QED BY <1>1, <1>5, <2>1 DEF NewHandle
  <1>6. ASSUME NEW x \in Mems, NEW a \in Addresses, NEW v \in Values, HandleWrite(x, a, v) PROVE Goal
    BY <1>2, <1>6 DEF HandleWrite
  <1>7. ASSUME NEW x \in Mems, NEW delta \in Deltas, HandleGrow(x, delta) PROVE Goal
    BY <1>3, <1>7 DEF HandleGrow
  <1>8. ASSUME NEW i \in Insts, NEW mod \in Modules, NEW limit \in Limits,
               NEW mems \in [1..Len(Types(mod)) -> Mems], Instantiate(i, mod, mems, limit)
        PROVE  Goal
    BY <1>8, InstantiateKeeps
  <1>9. ASSUME NEW i \in Insts, Drop(i) PROVE Goal
    <2>1. Owns(i, m) BY <1>9 DEF Drop
    <2> QED BY <1>9, <2>1 DEF Drop, Owns
  <1>10. ASSUME NEW i \in Insts, NEW k \in Indices(i), NEW a \in Addresses, NEW v \in Values,
                InstanceWrite(i, k, a, v)
         PROVE  Goal
    <2>1. inst[i].mems[k] = m /\ i \notin Entered /\ inst[i] # None BY <1>2, <1>10 DEF InstanceWrite
    <2>2. m \in MemoriesOf(i) BY <2>1 DEF MemoriesOf, Indices
    <2> QED BY <2>1, <2>2
  <1>11. ASSUME NEW k \in TopIndices, NEW a \in Addresses, NEW v \in Values, ContextWrite(k, a, v) PROVE Goal
    <2>1. Mem(k) = m BY <1>2, <1>11 DEF ContextWrite, Mem
    <2> QED BY <1>11, <2>1, TopMemory DEF ContextWrite, MayWrite
  <1>12. CASE UNCHANGED <<memory, bytes>> BY <1>12
  <1>13. ASSUME NEW k \in TopIndices, NEW a \in Addresses, NEW d \in Displacements, NEW v \in Values,
                StoreV128(k, a, d, v) \/ \E w \in Widths : Store(k, a, d, w, v)
         PROVE  Goal
    <2> HIDE DEF Goal
    <2> QED BY <1>4, <1>13 DEF StoreV128, Store
  <1>14. ASSUME NEW k \in TopIndices, NEW delta \in Deltas, Grow(k, delta) PROVE Goal
    <2>1. Mem(k) = m BY <1>3, <1>14 DEF Grow
    <2> QED BY <1>14, <2>1, TopMemory DEF Grow, GuestRuns
  <1>15. ASSUME NEW k \in TopIndices, NEW a \in Addresses, NEW n \in Addresses,
                \/ \E v \in Values : Fill(k, a, v, n)
                \/ \E b \in Addresses : MemoryInit(k, a, b, n)
                \/ \E j \in TopIndices, b \in Addresses : Copy(k, j, a, b, n)
         PROVE  Goal
    <2> HIDE DEF Goal
    <2> QED BY <1>4, <1>15 DEF Fill, MemoryInit, Copy
  <1> HIDE DEF Goal
  <1>16. Goal
    BY <1>5, <1>6, <1>7, <1>8, <1>9, <1>10, <1>11, <1>12, <1>13, <1>14, <1>15
       DEF Next, Invoke, CallHost, HostReturns, HostFails, GuestReturns, Leave, DataDrop
  <1> QED BY <1>16 DEF Goal

\* The memory of an instance belongs to it: `&mut self` while it runs, and the
\* capabilities of what it calls.
THEOREM Owned_Confined == Spec => OwnedConfined
  <1> DEFINE Step == \A i \in Insts : \A m \in MemoriesOf(i) :
                ~memory[m].shared /\ <<memory[m], bytes[m]>>' # <<memory[m], bytes[m]>> =>
                   \/ i \notin Entered
                   \/ Top.inst = i /\ Top.mode \in {"guest", "MEMORY_READ_WRITE"}
  <1>1. IInv /\ [Next]_vars => [Step]_vars
    <2> SUFFICES ASSUME IInv, Next, NEW i \in Insts, NEW m \in MemoriesOf(i), ~memory[m].shared,
                        ~(memory'[m] = memory[m] /\ bytes'[m] = bytes[m])
                 PROVE  i \notin Entered \/ (Top.inst = i /\ Top.mode \in {"guest", "MEMORY_READ_WRITE"})
      OBVIOUS
    <2>1. m \in Mems /\ memory[m] # None BY MemoriesAreMems DEF IInv, MemoriesOf, Bound
    <2>2. \A j \in Insts : m \in MemoriesOf(j) => i = j BY DEF IInv, Exclusive
    <2> QED BY <2>1, <2>2, WhoChanges
  <1> QED BY <1>1, Invariance, PTL DEF Spec, OwnedConfined

\* LinearMemory::grow, whoever calls it.
THEOREM Growth_Keeps == Spec => GrowthKeepsContents
  <1> DEFINE Step == \A m \in Mems :
                memory[m] # None /\ memory'[m] # None /\ memory'[m].pages # memory[m].pages =>
                  /\ memory'[m].pages > memory[m].pages
                  /\ bytes'[m] = [a \in 0..(Length(m)' - 1) |-> IF a < Length(m) THEN bytes[m][a] ELSE 0]
  <1>1. IInv /\ [Next]_vars => [Step]_vars
    <2> SUFFICES ASSUME IInv, Next, NEW m \in Mems, memory[m] # None, memory'[m] # None,
                        memory'[m].pages # memory[m].pages
                 PROVE  /\ memory'[m].pages > memory[m].pages
                        /\ bytes'[m] = [a \in 0..(Length(m)' - 1) |-> IF a < Length(m) THEN bytes[m][a] ELSE 0]
      OBVIOUS
    <2>1. memory \in [Mems -> MemoryRecord \cup {None}] /\ DOMAIN bytes = Mems BY DEF IInv, Shapes
    <2>2. \E delta \in Nat : grow(m, delta)
      <3>1. ASSUME NEW x \in Mems, NEW type \in HandleTypes, NewHandle(x, type) PROVE FALSE
        <4>1. x # m BY <3>1 DEF NewHandle
        <4> QED BY <2>1, <3>1, <4>1 DEF NewHandle
      <3>2. ASSUME NEW x \in Mems, NEW delta \in Deltas, HandleGrow(x, delta) PROVE \E e \in Nat : grow(m, e)
        <4>1. x = m BY <2>1, <3>2 DEF HandleGrow, grow
        <4>2. delta \in Nat /\ grow(x, delta) BY <3>2, LimitsAssumption DEF HandleGrow, U64
        <4> QED BY <4>1, <4>2
      <3>3. ASSUME NEW k \in TopIndices, NEW delta \in Deltas, Grow(k, delta) PROVE \E e \in Nat : grow(m, e)
        <4>1. Mem(k) = m BY <2>1, <3>3 DEF Grow, grow
        <4>2. delta \in Nat /\ grow(Mem(k), delta) BY <3>3, LimitsAssumption DEF Grow, U64
        <4> QED BY <4>1, <4>2
      <3>4. ASSUME NEW i \in Insts, NEW mod \in Modules, NEW limit \in Limits,
                   NEW mems \in [1..Len(Types(mod)) -> Mems], Instantiate(i, mod, mems, limit)
            PROVE  FALSE
        BY <3>4, InstantiateKeeps
      <3>5. ASSUME NEW i \in Insts, Drop(i) PROVE FALSE BY <3>5 DEF Drop
      <3>6. memory' # memory OBVIOUS
      <3>7. \A c, x, a, t : ~Write(x, a, t) /\ ~Access(c, x, a, t) /\ ~Leave BY <3>6 DEF Write, Access, Leave
      <3>8. /\ \A x, a, v : ~HandleWrite(x, a, v) /\ ~ContextWrite(x, a, v)
            /\ \A i, k, a, v : ~InstanceWrite(i, k, a, v)
        BY <3>7 DEF HandleWrite, InstanceWrite, ContextWrite
      <3>10. /\ \A k, a, d, v : ~StoreV128(k, a, d, v)
             /\ \A k, a, d, w, v : ~Store(k, a, d, w, v)
             /\ \A k, a, v, n : ~Fill(k, a, v, n)
        BY <3>7 DEF StoreV128, Store, Fill
      <3>11. /\ \A k, a, b, n : ~MemoryInit(k, a, b, n)
             /\ \A k, j, a, b, n : ~Copy(k, j, a, b, n)
        BY <3>7 DEF MemoryInit, Copy
      <3>9. /\ \A i, c : ~Invoke(i) /\ ~CallHost(c)
            /\ ~HostReturns /\ ~HostFails /\ ~GuestReturns /\ ~DataDrop
        BY <3>6, <3>7 DEF Invoke, CallHost, HostReturns, HostFails, GuestReturns, DataDrop
      <3> QED BY <3>1, <3>2, <3>3, <3>4, <3>5, <3>8, <3>9, <3>10, <3>11 DEF Next
    <2>3. PICK delta \in Nat : grow(m, delta) BY <2>2
    <2>4. memory[m] \in MemoryRecord /\ memory[m].pages \in Nat BY <2>1, PagesAssumption DEF MemoryRecord
    <2>5. /\ memory'[m].pages = memory[m].pages + delta
          /\ bytes'[m] = Grown(bytes[m], memory[m].pages + delta)
      BY <2>1, <2>3, <2>4 DEF grow, size_pages, MemoryRecord
    <2>6. DOMAIN bytes[m] = 0..(Length(m) - 1) BY DEF IInv, Sizes
    <2>7. Length(m) \in Nat BY <2>4, PagesAssumption DEF Length, size_pages
    <2>8. Length(m)' = (memory[m].pages + delta) * PageSize BY <2>5 DEF Length, size_pages
    <2>9. \A a \in 0..(Length(m)' - 1) : a \in DOMAIN bytes[m] <=> a < Length(m)
      <3>1. Length(m)' \in Nat BY <2>4, <2>8, PagesAssumption
      <3> QED BY <2>6, <2>7, <3>1
    <2>10. bytes'[m] = [a \in 0..(Length(m)' - 1) |-> IF a < Length(m) THEN bytes[m][a] ELSE 0]
      BY <2>5, <2>8, <2>9 DEF Grown
    <2> QED BY <2>4, <2>5, <2>10
  <1> QED BY <1>1, Invariance, PTL DEF Spec, GrowthKeepsContents
-----------------------------------------------------------------------------
\* A memory holds bytes, as many as it has.
Content ==
    \A m \in Mems : memory[m] # None => bytes[m] \in [0..(Length(m) - 1) -> Byte]

\* Initially there is no memory.
LEMMA InitContent == Init => Content
  BY DEF Init, Content

\* What a step leaves alone keeps its content.
LEMMA KeepsContent ==
    ASSUME Content, NEW m \in Mems, memory[m] # None, memory'[m] = memory[m], bytes'[m] = bytes[m]
    PROVE  bytes'[m] \in [0..(Length(m)' - 1) -> Byte]
  BY DEF Content, Length, size_pages

\* to_le_bytes gives bytes.
LEMMA LittleEndian ==
    ASSUME NEW v \in Nat, NEW width \in Nat
    PROVE  to_le_bytes(v, width) \in Seq(Byte) /\ Len(to_le_bytes(v, width)) = width
  <1>1. Base \in Nat /\ Base > 1 BY WidthAssumption
  <1>2. \A k \in 1..width : (v \div Base ^ (k - 1)) % Base \in 0..(Base - 1)
    <2> TAKE k \in 1..width
    <2>1. PICK e \in Nat : e = k - 1 OBVIOUS
    <2>2. (v \div Base ^ e) % Base \in 0..(Base - 1) BY <1>1
    <2> QED BY <2>1, <2>2
  <1> DEFINE le(k) == (v \div Base ^ (k - 1)) % Base
  <1>3. to_le_bytes(v, width) = [k \in 1..width |-> le(k)] /\ \A k \in 1..width : le(k) \in Byte
    BY <1>2 DEF to_le_bytes, Byte
  <1> HIDE DEF le
  <1> QED BY <1>3

\* copy_from_slice keeps a memory a memory of bytes.
LEMMA OverwriteContent ==
    ASSUME NEW n \in Nat, NEW b \in [0..(n - 1) -> Byte], NEW start \in Nat, NEW s \in Seq(Byte)
    PROVE  Overwrite(b, start, s) \in [0..(n - 1) -> Byte]
  <1>1. Len(s) \in Nat /\ \A k \in 1..Len(s) : s[k] \in Byte OBVIOUS
  <1>2. ASSUME NEW a \in 0..(n - 1)
        PROVE  (IF a \in start..(start + Len(s) - 1) THEN s[a - start + 1] ELSE b[a]) \in Byte
    <2>1. CASE a \in start..(start + Len(s) - 1)
      <3>1. a - start + 1 \in 1..Len(s) BY <1>1, <2>1
      <3> QED BY <1>1, <2>1, <3>1
    <2>2. CASE a \notin start..(start + Len(s) - 1) BY <2>2
    <2> QED BY <2>1, <2>2
  <1> QED BY <1>2 DEF Overwrite

\* A write of bytes.
LEMMA WriteContent ==
    ASSUME IInv, Content, NEW m \in Mems, memory[m] # None, NEW a \in Nat, NEW s \in Seq(Byte), Write(m, a, s)
    PROVE  Content'
  <1>1. memory' = memory /\ DOMAIN bytes = Mems /\ bytes' = [bytes EXCEPT ![m] = Overwrite(@, a, s)]
    BY DEF IInv, Shapes, Write
  <1>2. memory[m] \in MemoryRecord BY DEF IInv, Shapes
  <1>3. Length(m) \in Nat BY <1>2, LengthBound DEF Length, size_pages, MemoryRecord
  <1>4. bytes'[m] \in [0..(Length(m) - 1) -> Byte]
    <2>1. bytes[m] \in [0..(Length(m) - 1) -> Byte] BY DEF Content
    <2>2. bytes'[m] = Overwrite(bytes[m], a, s) BY <1>1
    <2>3. PICK n \in Nat : n = Length(m) BY <1>3
    <2>4. PICK b \in [0..(n - 1) -> Byte] : b = bytes[m] BY <2>1, <2>3
    <2>5. Overwrite(b, a, s) \in [0..(n - 1) -> Byte] BY OverwriteContent
    <2> QED BY <2>2, <2>3, <2>4, <2>5
  <1>5. \A x \in Mems \ {m} : bytes'[x] = bytes[x] BY <1>1
  <1>6. \A x \in Mems : Length(x)' = Length(x) BY <1>1 DEF Length, size_pages
  <1> QED BY <1>1, <1>4, <1>5, <1>6 DEF Content

\* A growth.
LEMMA GrowContent ==
    ASSUME IInv, Content, NEW m \in Mems, memory[m] # None, NEW delta \in Nat, grow(m, delta)
    PROVE  Content'
  <1>1. /\ memory[m] \in MemoryRecord /\ DOMAIN bytes = Mems
        /\ memory \in [Mems -> MemoryRecord \cup {None}]
    BY DEF IInv, Shapes
  <1>2. /\ memory'[m].pages = memory[m].pages + delta
        /\ bytes'[m] = Grown(bytes[m], memory[m].pages + delta)
        /\ \A x \in Mems \ {m} : memory'[x] = memory[x] /\ bytes'[x] = bytes[x]
    BY <1>1 DEF grow, size_pages, MemoryRecord
  <1>3. 0 \in Byte BY WidthAssumption DEF Byte
  <1>4. bytes'[m] \in [0..(Length(m)' - 1) -> Byte]
    <2>1. PICK p : p = memory[m].pages + delta OBVIOUS
    <2>2. Length(m)' = p * PageSize BY <1>2, <2>1 DEF Length, size_pages
    <2>3. bytes[m] \in [DOMAIN bytes[m] -> Byte] BY DEF Content
    <2>4. \A a \in 0..(p * PageSize - 1) : (IF a \in DOMAIN bytes[m] THEN bytes[m][a] ELSE 0) \in Byte
      BY <1>3, <2>3
    <2>5. Grown(bytes[m], p) \in [0..(p * PageSize - 1) -> Byte] BY <2>4 DEF Grown
    <2> QED BY <1>2, <2>1, <2>2, <2>5
  <1>5. ASSUME NEW x \in Mems \ {m}, memory'[x] # None PROVE bytes'[x] \in [0..(Length(x)' - 1) -> Byte]
    BY <1>2, <1>5, KeepsContent
  <1> QED BY <1>4, <1>5 DEF Content

\* The zeros a memory starts with.
LEMMA ZerosContent ==
    ASSUME NEW p \in Nat
    PROVE  Zeros(p) \in [0..(p * PageSize - 1) -> Byte]
  <1>1. 0 \in Byte BY WidthAssumption DEF Byte
  <1> QED BY <1>1 DEF Zeros

LEMMA NewHandleContent ==
    ASSUME IInv, Content, NEW m \in Mems, NEW type \in HandleTypes, NewHandle(m, type)
    PROVE  Content'
  <1>1. type.min \in Nat BY ModulesAssumption DEF MemType
  <1>2. /\ memory'[m].pages = type.min /\ bytes'[m] = Zeros(type.min)
        /\ \A x \in Mems \ {m} : memory'[x] = memory[x] /\ bytes'[x] = bytes[x]
    BY DEF IInv, Shapes, NewHandle, Allocated
  <1>3. bytes'[m] \in [0..(Length(m)' - 1) -> Byte] BY <1>1, <1>2, ZerosContent DEF Length, size_pages
  <1>4. ASSUME NEW x \in Mems \ {m}, memory'[x] # None PROVE bytes'[x] \in [0..(Length(x)' - 1) -> Byte]
    BY <1>2, <1>4, KeepsContent
  <1> QED BY <1>3, <1>4 DEF Content

LEMMA InstantiateContent ==
    ASSUME IInv, Content, NEW i \in Insts, NEW mod \in Modules, NEW limit \in Limits,
           NEW mems \in [1..Len(Types(mod)) -> Mems], Instantiate(i, mod, mems, limit)
    PROVE  Content'
  <1> DEFINE own == (Len(mod.imports) + 1)..Len(Types(mod))
             TypeAt(m) == Types(mod)[CHOOSE k \in own : mems[k] = m]
  <1> SUFFICES ASSUME NEW m \in Mems, memory'[m] # None
               PROVE  bytes'[m] \in [0..(Length(m)' - 1) -> Byte]
    BY DEF Content
  <1>1. CASE memory[m] # None BY <1>1, InstantiateKeeps, KeepsContent
  <1>2. CASE memory[m] = None
    <2>1. \E k \in own : mems[k] = m BY <1>2 DEF Instantiate
    <2>2. (CHOOSE k \in own : mems[k] = m) \in own BY <2>1
    <2>3. TypeAt(m).min \in Nat BY <2>2, TypesOf DEF MemType
    <2>4. memory'[m] = Allocated(TypeAt(m), OwnedMax(TypeAt(m), limit), FALSE) /\ bytes'[m] = Zeros(TypeAt(m).min)
      BY <2>1 DEF Instantiate
    <2> HIDE DEF TypeAt
    <2>5. memory'[m].pages = TypeAt(m).min BY <2>4 DEF Allocated
    <2> QED BY <2>3, <2>4, <2>5, ZerosContent DEF Length, size_pages
  <1> QED BY <1>1, <1>2

LEMMA DropContent == ASSUME IInv, Content, NEW i \in Insts, Drop(i) PROVE Content'
  <1> SUFFICES ASSUME NEW m \in Mems, memory'[m] # None
               PROVE  bytes'[m] \in [0..(Length(m)' - 1) -> Byte]
    BY DEF Content
  <1>1. memory'[m] = memory[m] /\ bytes'[m] = bytes[m] BY DEF Drop
  <1> QED BY <1>1, KeepsContent

\* An instruction stores bytes, or changes no memory.
LEMMA AccessContent ==
    ASSUME IInv, Content, NEW k \in TopIndices, NEW c, NEW a \in Nat, NEW s,
           c => s \in Seq(Byte), Access(c, Mem(k), a, s)
    PROVE  Content'
  <1>1. Mem(k) \in Mems /\ memory[Mem(k)] # None BY TopMemory
  <1>2. CASE c BY <1>1, <1>2, WriteContent DEF Access
  <1>3. CASE ~c BY <1>3 DEF Access, Leave, Content, Length, size_pages
  <1> QED BY <1>2, <1>3

\* The bytes memory.copy takes are within the memory it takes them from.
LEMMA SliceContent ==
    ASSUME IInv, Content, NEW m \in Mems, memory[m] # None, NEW a \in Nat, NEW n \in Nat,
           checked_bulk_range(m, a, n)
    PROVE  Slice(bytes[m], a, n) \in Seq(Byte)
  <1>1. memory[m] \in MemoryRecord BY DEF IInv, Shapes
  <1>2. PICK l \in Nat : l = Length(m) BY <1>1, LengthBound DEF Length, size_pages, MemoryRecord
  <1>3. a + n <= l BY <1>2 DEF checked_bulk_range, checked_add
  <1>4. bytes[m] \in [0..(l - 1) -> Byte] BY <1>2 DEF Content
  <1>5. PICK b : b = bytes[m] OBVIOUS
  <1>6. \A k \in 1..n : a + k - 1 \in 0..(l - 1) BY <1>3
  <1>7. \A k \in 1..n : b[a + k - 1] \in Byte BY <1>4, <1>5, <1>6
  <1>8. Slice(b, a, n) = [k \in 1..n |-> b[a + k - 1]] BY DEF Slice
  <1> QED BY <1>5, <1>7, <1>8

\* Every step leaves bytes in memories.
LEMMA NextContent == IInv /\ Content /\ [Next]_vars => Content'
  <1> SUFFICES ASSUME IInv, Content, [Next]_vars PROVE Content' OBVIOUS
  <1>0. /\ \A a \in Addresses : a \in Nat
        /\ \A d \in Displacements : d \in Nat
        /\ \A v \in Values : v \in Nat
        /\ \A delta \in Deltas : delta \in Nat
        /\ I32Bytes \in Nat /\ V128Bytes \in Nat /\ \A w \in Widths : w \in Nat
    BY ArgumentsAssumption, LimitsAssumption, WidthAssumption DEF U64, Widths
  <1>1. CASE UNCHANGED <<memory, bytes>> BY <1>1 DEF Content, Length, size_pages
  <1>2. ASSUME NEW m \in Mems, NEW type \in HandleTypes, NewHandle(m, type) PROVE Content'
    BY <1>2, NewHandleContent
  <1>3. ASSUME NEW m \in Mems, NEW a \in Addresses, NEW v \in Values, HandleWrite(m, a, v) PROVE Content'
    <2>1. to_le_bytes(v, I32Bytes) \in Seq(Byte) /\ a \in Nat BY <1>0, LittleEndian
    <2> QED BY <1>3, <2>1, WriteContent DEF HandleWrite
  <1>4. ASSUME NEW m \in Mems, NEW delta \in Deltas, HandleGrow(m, delta) PROVE Content'
    BY <1>0, <1>4, GrowContent DEF HandleGrow
  <1>5. ASSUME NEW i \in Insts, NEW mod \in Modules, NEW limit \in Limits,
               NEW mems \in [1..Len(Types(mod)) -> Mems], Instantiate(i, mod, mems, limit)
        PROVE  Content'
    BY <1>5, InstantiateContent
  <1>6. ASSUME NEW i \in Insts, Drop(i) PROVE Content' BY <1>6, DropContent
  <1>7. ASSUME NEW i \in Insts, NEW k \in Indices(i), NEW a \in Addresses, NEW v \in Values,
               InstanceWrite(i, k, a, v)
        PROVE  Content'
    <2>1. inst[i] # None /\ k \in 1..Len(inst[i].mems) BY <1>7 DEF Indices, InstanceWrite
    <2>2. inst[i].mems[k] \in Mems /\ memory[inst[i].mems[k]] # None
      BY <2>1, MemoriesAreMems DEF IInv, Bound
    <2>3. to_le_bytes(v, I32Bytes) \in Seq(Byte) /\ a \in Nat BY <1>0, LittleEndian
    <2> QED BY <1>7, <2>2, <2>3, WriteContent DEF InstanceWrite
  <1>8. ASSUME NEW k \in TopIndices, NEW a \in Addresses, NEW v \in Values, ContextWrite(k, a, v) PROVE Content'
    <2>1. to_le_bytes(v, I32Bytes) \in Seq(Byte) /\ a \in Nat BY <1>0, LittleEndian
    <2>2. Mem(k) \in Mems /\ memory[Mem(k)] # None BY TopMemory
    <2>3. Write(Mem(k), a, to_le_bytes(v, I32Bytes)) BY <1>8 DEF ContextWrite, Mem
    <2> QED BY <2>1, <2>2, <2>3, WriteContent
  <1>9. ASSUME NEW k \in TopIndices, NEW a \in Addresses, NEW d \in Displacements, NEW v \in Values,
               StoreV128(k, a, d, v)
        PROVE  Content'
    <2>1. to_le_bytes(v, V128Bytes) \in Seq(Byte) /\ a + d \in Nat BY <1>0, LittleEndian
    <2> QED BY <1>9, <2>1, AccessContent DEF StoreV128
  <1>10. ASSUME NEW k \in TopIndices, NEW a \in Addresses, NEW d \in Displacements, NEW v \in Values,
                NEW w \in Widths, Store(k, a, d, w, v)
         PROVE  Content'
    <2>1. to_le_bytes(v, w) \in Seq(Byte) /\ a + d \in Nat BY <1>0, LittleEndian
    <2> QED BY <1>10, <2>1, AccessContent DEF Store
  <1>11. ASSUME NEW k \in TopIndices, NEW delta \in Deltas, Grow(k, delta) PROVE Content'
    BY <1>0, <1>11, TopMemory, GrowContent DEF Grow
  <1>12. ASSUME NEW k \in TopIndices, NEW a \in Addresses, NEW n \in Addresses, NEW v \in Values, Fill(k, a, v, n)
         PROVE  Content'
    <2>1. a \in Nat /\ n \in Nat /\ v % Base \in Byte BY <1>0, WidthAssumption DEF Byte
    <2>2. [j \in 1..n |-> v % Base] \in Seq(Byte) BY <2>1
    <2> QED BY <1>12, <2>1, <2>2, AccessContent DEF Fill
  <1>13. ASSUME NEW k \in TopIndices, NEW a \in Addresses, NEW b \in Addresses, NEW n \in Addresses,
                MemoryInit(k, a, b, n)
         PROVE  Content'
    <2> DEFINE data == inst[Top.inst].data
    <2>1. a \in Nat /\ b \in Nat /\ n \in Nat BY <1>0
    <2>2. data \in Seq(Byte)
      BY TopMemory, TopFrame, MemoriesAreMems DEF IInv, InstanceRecord
    <2> HIDE DEF data
    <2>3. b + n <= Len(data) => SubSeq(data, b + 1, b + n) \in Seq(Byte) BY <2>1, <2>2
    <2> QED BY <1>13, <2>1, <2>3, AccessContent DEF MemoryInit, data
  <1>14. ASSUME NEW k \in TopIndices, NEW j \in TopIndices, NEW a \in Addresses, NEW b \in Addresses,
                NEW n \in Addresses, Copy(k, j, a, b, n)
         PROVE  Content'
    <2>1. a \in Nat /\ b \in Nat /\ n \in Nat BY <1>0
    <2>2. checked_bulk_range(Mem(j), b, n) => Slice(bytes[Mem(j)], b, n) \in Seq(Byte)
      BY <2>1, TopMemory, SliceContent
    <2> QED BY <1>14, <2>1, <2>2, AccessContent DEF Copy
  <1> QED BY <1>1, <1>2, <1>3, <1>4, <1>5, <1>6, <1>7, <1>8, <1>9, <1>10, <1>11, <1>12, <1>13, <1>14
          DEF Next, vars, Invoke, CallHost, HostReturns, HostFails, GuestReturns, Leave, DataDrop

\* Whatever is stored, by whichever width, and however a memory grew: it is as
\* long as its pages say, within its maximum, and holds bytes.
THEOREM TypeCorrect == Spec => []TypeOK
  <1>1. Init => IInv /\ Content BY InitIInv, InitContent
  <1>2. IInv /\ Content /\ [Next]_vars => (IInv /\ Content)' BY NextIInv, NextContent
  <1>3. IInv /\ Content => TypeOK BY DEF IInv, Shapes, Sizes, Content, TypeOK
  <1> QED BY <1>1, <1>2, <1>3, PTL DEF Spec

=============================================================================
