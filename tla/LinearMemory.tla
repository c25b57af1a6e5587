---------------------------- MODULE LinearMemory ----------------------------
(***************************************************************************)
(* Linear memories, the handles hosts share them by, and everything that   *)
(* reads, writes or grows them: instructions, host functions through a     *)
(* HostContext, and the embedder (crates/wasm-runtime/src/lib.rs).         *)
(*                                                                         *)
(* A memory outlives the checks made when it was imported: other instances *)
(* and the host go on growing it.  Addresses are computed in machine       *)
(* words, of two widths, and compared with lengths that do not fit in the  *)
(* narrower one.                                                           *)
(*                                                                         *)
(* A refused host call and a failed growth change nothing and are no       *)
(* steps; an instruction out of bounds ends the invocation.  Active        *)
(* segments are InstanceLinking's.                                         *)
(***************************************************************************)
EXTENDS Integers, Sequences

CONSTANTS
    Base,          \* values of a byte: 256
    I32Bytes,      \* bytes of an i32: 4
    V128Bytes,     \* bytes of a v128: 16
    W,             \* values of an i32: 2^32
    PageSize,      \* WASM_PAGE_SIZE
    MaxPages,      \* MAX_MEMORY_PAGES
    Mems,          \* memories that can be allocated
    Insts,         \* instances
    Modules,       \* the memories modules import and define, and their data
    Limits,        \* values of RuntimeLimits::max_memory_pages
    HandleTypes,   \* limits the embedder gives its handles
    Addresses,     \* operands of instructions and arguments of host calls
    Displacements, \* offsets in instructions
    Values,        \* what is stored
    Deltas,        \* pages to grow by
    None           \* an option that is not there

Word == 0..(W - 1)
MaxU64 == W * W - 1
U64 == 0..MaxU64
Byte == 0..(Base - 1)
Widths == {1, I32Bytes \div 2, I32Bytes, 2 * I32Bytes}

MemType == [min : Nat, max : Nat \cup {None}, m64 : BOOLEAN]
MemoryRecord == [pages : 0..MaxPages, max : 0..MaxPages, type : MemType, shared : BOOLEAN]
validate_memory_type(type) ==
    LET limit == IF type.m64 THEN (W * W) \div PageSize ELSE MaxPages
    IN /\ type.min <= limit
       /\ type.max # None => type.max <= limit /\ type.min <= type.max
ModuleType == [imports : Seq(MemType), defined : Seq(MemType), data : Seq(Byte)]
InstanceRecord == [mod : Modules, mems : Seq(Mems), data : Seq(Byte), limit : Limits]
Capabilities == {"NONE", "MEMORY_READ", "MEMORY_READ_WRITE"}
Frame == [inst : Insts, mode : {"guest"} \cup Capabilities]

ASSUME WidthAssumption == /\ Base \in Nat /\ Base > 1 /\ I32Bytes \in Nat /\ V128Bytes \in Nat \ {0}
                          /\ I32Bytes \div 2 \in Nat \ {0} /\ 1 <= I32Bytes
ASSUME WordAssumption == W \in Nat /\ W > 1 /\ W = Base ^ I32Bytes
\* A memory of MAX_MEMORY_PAGES has 2^32 bytes: one more than an i32 can say.
ASSUME PagesAssumption == PageSize \in Nat \ {0} /\ MaxPages \in Nat \ {0} /\ W = MaxPages * PageSize
\* The validator has seen the types of modules; an i64 memory may declare pages
\* for all of 2^64 bytes.
ASSUME ModulesAssumption ==
    /\ Modules \subseteq ModuleType /\ HandleTypes \subseteq MemType
    /\ \A mod \in Modules : \A k \in 1..Len(mod.imports \o mod.defined) :
          validate_memory_type((mod.imports \o mod.defined)[k])
ASSUME LimitsAssumption == Limits \subseteq Nat /\ Deltas \subseteq U64
ASSUME NoneAssumption == None \notin Nat /\ None \notin MemoryRecord \cup InstanceRecord
ASSUME ArgumentsAssumption ==
    Addresses \subseteq U64 /\ Displacements \subseteq U64 /\ Values \subseteq Nat

VARIABLES
    memory,    \* sizes of a LinearMemory, and the fields of its MemoryHandle
    bytes,     \* LinearMemory::bytes
    inst,      \* Instance: its module, memories, data segment and limit
    stack      \* instances entered, each running its guest or a host function

vars == <<memory, bytes, inst, stack>>

Init == /\ memory = [m \in Mems |-> None]
        /\ bytes = [m \in Mems |-> <<>>]
        /\ inst = [i \in Insts |-> None]
        /\ stack = <<>>

Least(a, b) == IF a < b THEN a ELSE b

-----------------------------------------------------------------------------
\* Ranges of bytes

size_pages(m) == memory[m].pages
Length(m) == size_pages(m) * PageSize

\* u64::checked_add
Overflow == -1

checked_add(a, b) == IF a + b > MaxU64 THEN Overflow ELSE a + b

checked_bulk_range(m, address, width) ==
    LET end == checked_add(address, width) IN end # Overflow /\ end <= Length(m)

checked_host_range(m, address, width) ==
    LET end == checked_add(address, width) IN end # Overflow /\ end <= Length(m)

checked_range(m, address, displacement, width) ==
    LET effective == checked_add(address, displacement)
        end == checked_add(effective, width)
    IN effective # Overflow /\ end # Overflow /\ end <= Length(m)

\* What an operand that addresses a memory can hold.
Operand(m) == IF memory[m].type.m64 THEN U64 ELSE Word

\* Mutant: an i64 address is cut to its low half.
pop_runtime_memory_address_Truncates(address) == address % W

\* The address of a scalar access, if it is not out of bounds at once.
pop_runtime_memory_address(address) == IF address > W - 1 THEN Overflow ELSE address

Scalar(m, operand, displacement, width) ==
    LET address == pop_runtime_memory_address(operand)
    IN address # Overflow /\ checked_range(m, address, displacement, width)

\* load_fixed and store_v128, whose address stays as wide as it is.
Fixed(m, operand, displacement, width) ==
    LET effective == checked_add(operand, displacement)
    IN effective # Overflow /\ checked_bulk_range(m, effective, width)

-----------------------------------------------------------------------------
\* Contents

\* copy_from_slice
Overwrite(b, start, s) ==
    [a \in DOMAIN b |-> IF a \in start..(start + Len(s) - 1) THEN s[a - start + 1] ELSE b[a]]

Slice(b, start, n) == [k \in 1..n |-> b[start + k - 1]]

\* value as u8, u16 or u32, and to_le_bytes
to_le_bytes(value, width) == [k \in 1..width |-> (value \div Base ^ (k - 1)) % Base]

\* from_le_bytes of at most an i64
from_le_bytes(s) ==
    LET at(k) == IF k <= Len(s) THEN s[k] * Base ^ (k - 1) ELSE 0
        sum[k \in 0..Len(s)] == IF k = 0 THEN 0 ELSE sum[k - 1] + at(k)
    IN sum[Len(s)]

\* Mutant: the sign is not extended.
extend_ZeroOnly(n, width, signed, result) == n

\* i64::from(i8) and the like: n of `width` bytes as a result of more.
extend(n, width, signed, result) ==
    IF signed /\ 2 * n >= Base ^ width THEN n + Base ^ result - Base ^ width ELSE n

load(b, start, width, signed, result) ==
    extend(from_le_bytes(Slice(b, start, width)), width, signed, result)

-----------------------------------------------------------------------------
\* Allocation and growth

Zeros(pages) == [a \in 0..(pages * PageSize - 1) |-> 0]

Allocated(type, max, shared) ==
    [pages |-> type.min, max |-> max, type |-> type, shared |-> shared]

\* Mutant: the bytes are allocated anew.
Grown_Fresh(b, pages) == Zeros(pages)

Grown(b, pages) == [a \in 0..(pages * PageSize - 1) |-> IF a \in DOMAIN b THEN b[a] ELSE 0]

\* Mutant: the maximum of the memory is not looked at.
CanGrow_Unbounded(m, delta) == delta <= W - 1

\* LinearMemory::grow succeeds, memory64 deltas included.
CanGrow(m, delta) == delta <= W - 1 /\ size_pages(m) + delta <= Least(memory[m].max, W - 1)

grow(m, delta) ==
    /\ CanGrow(m, delta)
    /\ memory' = [memory EXCEPT ![m].pages = @ + delta]
    /\ bytes' = [bytes EXCEPT ![m] = Grown(@, size_pages(m) + delta)]

Write(m, start, s) == bytes' = [bytes EXCEPT ![m] = Overwrite(@, start, s)] /\ UNCHANGED memory

-----------------------------------------------------------------------------
\* Who runs

Top == stack[Len(stack)]
Entered == {stack[k].inst : k \in 1..Len(stack)}
HostRuns == stack # <<>> => Top.mode # "guest"
GuestRuns == stack # <<>> /\ Top.mode = "guest"
Pop == SubSeq(stack, 1, Len(stack) - 1)

\* The memory at index k of the running instance, its type apart.
MemoriesOf(i) == IF inst[i] = None THEN {} ELSE {inst[i].mems[k] : k \in 1..Len(inst[i].mems)}
Owns(i, m) == m \in MemoriesOf(i) /\ ~memory[m].shared

-----------------------------------------------------------------------------
\* The embedder

\* MemoryHandle::new and new64
NewHandle(m, type) ==
    /\ HostRuns
    /\ memory[m] = None
    /\ type.max # None => type.min <= type.max /\ type.max <= MaxPages
    /\ type.min <= MaxPages
    /\ memory' = [memory EXCEPT ![m] = Allocated(type, IF type.max = None THEN MaxPages ELSE type.max, TRUE)]
    /\ bytes' = [bytes EXCEPT ![m] = Zeros(type.min)]
    /\ UNCHANGED <<inst, stack>>

\* MemoryHandle::write
HandleWrite(m, address, value) ==
    /\ HostRuns
    /\ memory[m] # None /\ memory[m].shared /\ address \in Word
    /\ checked_host_range(m, address, I32Bytes)
    /\ Write(m, address, to_le_bytes(value, I32Bytes))
    /\ UNCHANGED <<inst, stack>>

\* MemoryHandle::grow
HandleGrow(m, delta) ==
    /\ HostRuns
    /\ memory[m] # None /\ memory[m].shared /\ delta \in Word
    /\ grow(m, delta)
    /\ UNCHANGED <<inst, stack>>

validate_memory_address_width(type, m) == memory[m].type.m64 = type.m64

validate_memory_limits(type, m) ==
    /\ memory[m].type.min >= type.min
    /\ type.max # None => memory[m].type.max # None /\ memory[m].type.max <= type.max

\* Mutant: only the present size is compared.
validate_memory_runtime_limit_Now(m, limit) == size_pages(m) <= Least(limit, MaxPages)

validate_memory_runtime_limit(m, limit) ==
    LET memory_limit == IF memory[m].type.max = None THEN MaxPages ELSE memory[m].type.max
    IN size_pages(m) <= Least(limit, MaxPages) /\ memory_limit <= Least(limit, MaxPages)

\* LinearMemory::new
OwnedMax(type, limit) == Least(IF type.max = None THEN limit ELSE type.max, Least(limit, MaxPages))

Types(mod) == mod.imports \o mod.defined

\* instantiate_memories: the embedder has bound mems[k] to the k-th import; the
\* memories after them are allocated.  Where a check fails nothing remains.
Instantiate(i, mod, mems, limit) ==
    LET n == Len(mod.imports)
        owned == (n + 1)..Len(Types(mod))
        TypeAt(m) == Types(mod)[CHOOSE k \in owned : mems[k] = m]
    IN
    /\ HostRuns
    /\ inst[i] = None
    /\ \A k \in 1..n : /\ memory[mems[k]] # None /\ memory[mems[k]].shared
                       /\ validate_memory_address_width(mod.imports[k], mems[k])
                       /\ validate_memory_limits(mod.imports[k], mems[k])
                       /\ validate_memory_runtime_limit(mems[k], limit)
    /\ \A k \in owned : /\ memory[mems[k]] = None
                        /\ \A j \in owned : mems[j] = mems[k] => j = k
                        /\ Types(mod)[k].min <= Least(limit, MaxPages)
    /\ memory' = [m \in Mems |-> IF \E k \in owned : mems[k] = m
                                 THEN Allocated(TypeAt(m), OwnedMax(TypeAt(m), limit), FALSE)
                                 ELSE memory[m]]
    /\ bytes' = [m \in Mems |-> IF \E k \in owned : mems[k] = m THEN Zeros(TypeAt(m).min) ELSE bytes[m]]
    /\ inst' = [inst EXCEPT ![i] = [mod |-> mod, mems |-> mems, data |-> mod.data, limit |-> limit]]
    /\ UNCHANGED stack

\* Instance::write_memory_at
InstanceWrite(i, k, address, value) ==
    /\ HostRuns
    /\ inst[i] # None /\ i \notin Entered
    /\ checked_bulk_range(inst[i].mems[k], address, I32Bytes)
    /\ Write(inst[i].mems[k], address, to_le_bytes(value, I32Bytes))
    /\ UNCHANGED <<inst, stack>>

\* The embedder drops an instance, and with it the memories it owns.
Drop(i) ==
    /\ HostRuns
    /\ inst[i] # None /\ i \notin Entered
    /\ inst' = [inst EXCEPT ![i] = None]
    /\ memory' = [m \in Mems |-> IF Owns(i, m) THEN None ELSE memory[m]]
    /\ bytes' = [m \in Mems |-> IF Owns(i, m) THEN <<>> ELSE bytes[m]]
    /\ UNCHANGED stack

Invoke(i) ==
    /\ HostRuns
    /\ inst[i] # None /\ i \notin Entered
    /\ stack' = Append(stack, [inst |-> i, mode |-> "guest"])
    /\ UNCHANGED <<memory, bytes, inst>>

-----------------------------------------------------------------------------
\* Host functions

\* invoke_host, with the capabilities the function was registered with.
CallHost(capabilities) ==
    /\ GuestRuns
    /\ stack' = [stack EXCEPT ![Len(stack)].mode = capabilities]
    /\ UNCHANGED <<memory, bytes, inst>>

\* Mutant: any function that may read may write.
MayWrite_Readers == Top.mode \in {"MEMORY_READ", "MEMORY_READ_WRITE"}

MayWrite == Top.mode = "MEMORY_READ_WRITE"

\* HostContext::write_memory_at
ContextWrite(k, address, value) ==
    /\ HostRuns /\ stack # <<>>
    /\ MayWrite /\ address \in Word
    /\ checked_host_range(inst[Top.inst].mems[k], address, I32Bytes)
    /\ Write(inst[Top.inst].mems[k], address, to_le_bytes(value, I32Bytes))
    /\ UNCHANGED <<inst, stack>>

HostReturns ==
    /\ HostRuns /\ stack # <<>>
    /\ stack' = [stack EXCEPT ![Len(stack)].mode = "guest"]
    /\ UNCHANGED <<memory, bytes, inst>>

\* The host function fails, the guest function returns, or an instruction traps.
Leave == stack' = Pop /\ UNCHANGED <<memory, bytes, inst>>
HostFails == HostRuns /\ stack # <<>> /\ Leave
GuestReturns == GuestRuns /\ Leave

-----------------------------------------------------------------------------
\* Instructions

Mem(k) == inst[Top.inst].mems[k]

\* An instruction that stores s at start, or traps.
Access(inBounds, m, start, s) ==
    IF inBounds THEN Write(m, start, s) /\ UNCHANGED <<inst, stack>> ELSE Leave

\* i32.store to i64.store32, f32.store and f64.store of the same bits, and the
\* stores of SIMD lanes
Store(k, operand, displacement, width, value) ==
    /\ GuestRuns
    /\ operand \in Operand(Mem(k))
    /\ Access(Scalar(Mem(k), operand, displacement, width), Mem(k), operand + displacement,
              to_le_bytes(value, width))

\* v128.store
StoreV128(k, operand, displacement, value) ==
    /\ GuestRuns
    /\ operand \in Operand(Mem(k))
    /\ Access(Fixed(Mem(k), operand, displacement, V128Bytes), Mem(k), operand + displacement,
              to_le_bytes(value, V128Bytes))

\* memory.grow
Grow(k, delta) ==
    /\ GuestRuns
    /\ delta \in Operand(Mem(k))
    /\ grow(Mem(k), delta)
    /\ UNCHANGED <<inst, stack>>

\* memory.fill
Fill(k, destination, value, length) ==
    /\ GuestRuns
    /\ {destination, length} \subseteq Operand(Mem(k))
    /\ Access(checked_bulk_range(Mem(k), destination, length), Mem(k), destination,
              [j \in 1..length |-> value % Base])

\* memory.copy: the bytes are taken before any is written.
Copy(to, from, destination, source, length) ==
    /\ GuestRuns
    /\ destination \in Operand(Mem(to)) /\ source \in Operand(Mem(from))
    /\ length \in Operand(Mem(to)) \cap Operand(Mem(from))
    /\ Access(/\ checked_bulk_range(Mem(from), source, length)
              /\ checked_bulk_range(Mem(to), destination, length),
              Mem(to), destination, Slice(bytes[Mem(from)], source, length))

\* memory.init
MemoryInit(k, destination, source, length) ==
    /\ GuestRuns
    /\ destination \in Operand(Mem(k)) /\ {source, length} \subseteq Word
    /\ Access(/\ source + length <= Len(inst[Top.inst].data)
              /\ checked_bulk_range(Mem(k), destination, length),
              Mem(k), destination, SubSeq(inst[Top.inst].data, source + 1, source + length))

\* data.drop
DataDrop ==
    /\ GuestRuns
    /\ inst' = [inst EXCEPT ![Top.inst].data = <<>>]
    /\ UNCHANGED <<memory, bytes, stack>>

-----------------------------------------------------------------------------
Indices(i) == IF inst[i] = None THEN {} ELSE 1..Len(inst[i].mems)
TopIndices == IF stack = <<>> THEN {} ELSE Indices(Top.inst)

Next ==
    \/ \E m \in Mems, type \in HandleTypes : NewHandle(m, type)
    \/ \E m \in Mems, a \in Addresses, v \in Values : HandleWrite(m, a, v)
    \/ \E m \in Mems, delta \in Deltas : HandleGrow(m, delta)
    \/ \E i \in Insts, mod \in Modules, limit \in Limits :
          \E mems \in [1..Len(Types(mod)) -> Mems] : Instantiate(i, mod, mems, limit)
    \/ \E i \in Insts : Drop(i) \/ Invoke(i)
    \/ \E i \in Insts : \E k \in Indices(i), a \in Addresses, v \in Values : InstanceWrite(i, k, a, v)
    \/ \E c \in Capabilities : CallHost(c)
    \/ \E k \in TopIndices, a \in Addresses, v \in Values : ContextWrite(k, a, v)
    \/ HostReturns \/ HostFails \/ GuestReturns \/ DataDrop
    \/ \E k \in TopIndices, a \in Addresses, d \in Displacements, v \in Values :
          StoreV128(k, a, d, v) \/ \E w \in Widths : Store(k, a, d, w, v)
    \/ \E k \in TopIndices, delta \in Deltas : Grow(k, delta)
    \/ \E k \in TopIndices, a, n \in Addresses :
          \/ \E v \in Values : Fill(k, a, v, n)
          \/ \E b \in Addresses : MemoryInit(k, a, b, n)
          \/ \E j \in TopIndices, b \in Addresses : Copy(k, j, a, b, n)

Spec == Init /\ [][Next]_vars

-----------------------------------------------------------------------------
\* Properties

\* Type invariant.  The pages of a memory stay within the maximum recorded
\* with it, and that within MAX_MEMORY_PAGES.
TypeOK ==
    /\ memory \in [Mems -> MemoryRecord \cup {None}]
    /\ \A m \in Mems : memory[m] # None =>
          memory[m].pages <= memory[m].max /\ bytes[m] \in [0..(Length(m) - 1) -> Byte]
    /\ inst \in [Insts -> InstanceRecord \cup {None}]
    /\ \A i \in Insts : inst[i] # None => Len(inst[i].mems) = Len(Types(inst[i].mod))
    /\ stack \in Seq(Frame)

\* What was checked when a memory was imported stays true of it, whoever
\* grows it later: an instance finds its memories with the width its module
\* declares, within the limits it declares and within the embedder's
\* max_memory_pages.
LimitsHold ==
    \A i \in Insts : \A k \in Indices(i) :
        LET m == inst[i].mems[k]  type == Types(inst[i].mod)[k]
        IN /\ memory[m] # None
           /\ memory[m].type.m64 = type.m64
           /\ memory[m].pages >= type.min
           /\ type.max # None => memory[m].pages <= type.max
           /\ memory[m].pages <= inst[i].limit

\* Every way to address memory is exact: an access is let through if and only
\* if all its bytes, counted without wrapping, exist.  For an i64 address of a
\* scalar access that is so because no memory has more than 2^32 bytes.
BoundsExact ==
    \A m \in Mems : memory[m] # None =>
        \A a \in Addresses \cap Operand(m) :
            /\ \A d \in Displacements, w \in Widths :
                  /\ Scalar(m, a, d, w) <=> a + d + w <= Length(m)
                  /\ Fixed(m, a, d, w) <=> a + d + w <= Length(m)
            /\ \A n \in Addresses :
                  /\ checked_bulk_range(m, a, n) <=> a + n <= Length(m)
                  /\ a \in Word => (checked_host_range(m, a, n) <=> a + n <= Length(m))

\* A load finds what a store of the same width left, cut to that width and
\* extended with zeros or with the sign, and no other byte has changed.
StoreThenLoad ==
    \A m \in Mems : memory[m] # None =>
        \A w \in Widths, v \in Values : \A a \in 0..(Length(m) - w) :
            LET R == 2 * I32Bytes
                b == Overwrite(bytes[m], a, to_le_bytes(v, w))
                s == load(b, a, w, TRUE, R)
            IN /\ load(b, a, w, FALSE, R) = v % Base ^ w
               /\ s % Base ^ w = v % Base ^ w
               /\ 2 * s < Base ^ w \/ 2 * (Base ^ R - s) <= Base ^ w
               /\ \A x \in DOMAIN b \ (a..(a + w - 1)) : b[x] = bytes[m][x]

\* A memory never shrinks while it exists; a growth by whichever holder keeps
\* every byte and adds zeros.
GrowthKeepsContents ==
    [][\A m \in Mems : memory[m] # None /\ memory'[m] # None /\ memory'[m].pages # memory[m].pages =>
          /\ memory'[m].pages > memory[m].pages
          /\ bytes'[m] = [a \in 0..(Length(m)' - 1) |-> IF a < Length(m) THEN bytes[m][a] ELSE 0]]_vars

\* A memory that an instance owns changes only by its own running guest code,
\* by a host function that guest called and that was registered to write, or
\* by an embedder while the instance is not entered.  It is out of reach of
\* other instances and of what a host function invokes.
OwnedConfined ==
    [][\A i \in Insts : \A m \in MemoriesOf(i) :
          ~memory[m].shared /\ <<memory[m], bytes[m]>>' # <<memory[m], bytes[m]>> =>
             \/ i \notin Entered
             \/ Top.inst = i /\ Top.mode \in {"guest", "MEMORY_READ_WRITE"}]_vars
=============================================================================
