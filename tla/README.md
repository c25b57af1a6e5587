# A verification project for mini-wasm-runtime

TLA+ models of the parts of mini-wasm-runtime whose correctness depends on
orders of events or on several passes agreeing: one function body under the
validator, the control scanner and the interpreter, linking instances through
shared tables, the call trampoline and its limits, linear memories shared with the
host, the name space of the in-memory WASI file system, and file and stream I/O
through guest memory. Source paths below are relative to `src/`; `rt` is
`crates/wasm-runtime/src/lib.rs`, `fs` is `crates/wasm-wasi/src/filesystem.rs` and
`typed.rs` is `crates/wasm-validator/src/typed.rs`.

## 1. Inventory

| Component | State | Operations | Interacts with |
|---|---|---|---|
| Binary parser (`wasm-parser`) | none beyond a call | `parse` | produces `Module` |
| Validator (`wasm-validator`) | operand and control stacks during a call | `validate` | gate before instantiation |
| Instantiation and linking (`rt`) | `Instance` (identity `Rc<()>`, tables, memories, globals, dropped segments), `TableHandle` (slots, maximum, owner), `FunctionRef` | `with_config`, `TableHandle::{new,get,set,grow,bind}`, table instructions, `exported_table`, `exported_global`, drop | embedder and other instances share handles |
| Call trampoline (`rt`) | current frame, suspended callers, depth, `ExecutionBudget` | `invoke_export`, `invoke_function`, `invoke_host`, calls, tail calls, returns, traps | host functions |
| Interpreter (`rt`, `control.rs`, `numeric.rs`) | operand stack, control frames, locals | one arm per opcode | memory, tables, trampoline |
| Linear memory (`rt`) | bytes, maximum; `MemoryHandle` shared with the host | load, store, grow, bulk operations, data segments | `HostContext` |
| Host registry (`rt`) | functions with capabilities, globals, tables, memories by name | `register*` | instantiation |
| WASI name space (`fs`, `preopen.rs`, `root.rs`) | three vectors of entries (files, directories, symbolic links), inode cells, open files, open directories, preopens, `next_inode` | `path_*`, `fd_close`, `fd_readdir`, `fd_fdstat_get`, time updates | guest memory |
| WASI file I/O (`fs`, `wasm-wasi/src/lib.rs`) | file bytes, offsets, flags, stdin position, output buffers | `fd_read`, `fd_write`, `fd_pread`, `fd_pwrite`, `fd_seek`, `fd_tell`, `fd_allocate`, `fd_filestat_set_size` | guest memory |
| WASI clocks, poll, random, args, environment, exit | configured constants, a random cursor | one handler each | guest memory |
| Command line (`wasm-cli`) | none | run one export | all of the above |

What is hard here. The runtime has one thread, but it is *reentrant*: a host
function called from guest code may instantiate modules, invoke and drop other
instances and use any handle it kept. Identities are `Weak` pointers that outlive
instances. Instantiation changes host-visible state in several stages, each of
which can fail. Frames live on the heap, so depth, fuel and result types are kept
consistent by hand across tail calls. The file system represents directories by
path strings and link counts by hand-maintained cells, reuses descriptor numbers,
and keeps metadata about them in three places. A function body is decoded three
times by three pieces of code, each with its own table of opcodes, and the second
and third rely on what the first one checked. There is no persistence and no
message passing, hence no crash recovery and no lost messages.

What makes each component correct:

* linking: a table has one live owner; a failed instantiation leaves nothing
  behind; a reference never resolves to another instance's function;
* function bodies: validator, scanner and interpreter agree on where instructions
  begin, which `else` and `end` belong to which opener, and which operand types lie
  on the stack at every instruction, along every path;
* trampoline: bounded frames, exact depth, well-typed returns, spent budgets,
  termination under fuel;
* name space: exact link counts, one meaning per descriptor, rights that only
  shrink, read-only files that stay as they were, a closed tree, unique inodes;
* file I/O: a failing call changes nothing, appends never overwrite, input is
  delivered exactly once, whatever regions of memory a call makes overlap;
* memory: bounds exact at the 2^32 and 2^64 edges, growth that keeps what is
  there and the limits promised to every importer, an owner's memory to itself.

## 2. Modules

| Module | Models |
|---|---|
| `InstanceLinking` | instances, table handles, function references, `with_config` stage by stage, table instructions, the embedder |
| `AtomicLinking` | what instantiation promises: linking is one indivisible step |
| `LinkingRefinement` | the refinement mapping between the two |
| `LinkingProofs` | ownership, provenance of references, table sizes, failing without trace, and that `InstanceLinking` implements `AtomicLinking`, proved for every instance |
| `Opcodes` | the opcode tables of the validator, the scanner and the interpreter, translated one by one |
| `OpcodesProofs` | that the three tables agree, proved row by row |
| `FunctionBody` | one function body validated, scanned and executed |
| `ValidationProofs` | what the validator knows at each instruction, and that the scanner pairs blocks as it did, proved for every body |
| `FunctionBodyProofs` | that the interpreter runs an accepted body as the validator saw it, proved for every body |
| `CallStack` | one invocation: trampoline, frames, budget |
| `CallStackProofs` | its safety properties, proved for every instance |
| `WasiNamespace` | the name space, inodes, rights and descriptors of the WASI file system |
| `WasiNamespaceProofs` | tree, link counts, inodes, descriptors and rights, proved for every instance |
| `WasiFileIO` | the handlers that move bytes between guest memory and files or streams, stage by stage; cursors, flags and sizes |
| `PosixFile` | what a file promises: a zero-filled array of bytes, cursors, calls in one step |
| `FileIOContract` | what a completed read or write has done, and the refinement mapping to `PosixFile` |
| `WasiFileIOProofs` | types, size bounds, failing closed, appends, polling and the refinement of `PosixFile`, proved for every instance |
| `LinearMemory` | memories, handles, bounds checks of both address widths, loads and stores, growth, bulk operations, `HostContext` |
| `LinearMemoryProofs` | types, limits, bounds, isolation and growth, proved for every instance |
| `MC*` | constants for TLC |

Definitions with a suffix after an underscore (`Call_SameDepth`) and the
comment "Mutant" are deliberately wrong variants of the definition that follows
them. No specification uses them; substituting one must make TLC report the
property it is paired with in `PROJECT.json`, which shows that the property
depends on that code.

### InstanceLinking

`status`, `prog`, `tabs`, `elems` and `glob` are the fields of `Instance`;
`slots`, `tmax` and `owner` those of `TableHandle`; `mem` the host memories that
active data segments write. `stack` holds the instances with an invocation under
way and `mode` says who runs. An instance is named by the address of its identity
cell. Rust reuses an address only when no `Rc` and no `Weak` refers to it
(`Pinned`); the history variable `born` numbers the incarnations of an address and
every reference records in `origin` which incarnation created it, so that
"compared equal by `Rc::ptr_eq`" and "is the same instance" are different
statements and can be compared.

`with_config` is five actions (`Instantiate`, `BindImport`/`DefineTable`,
`Preflight`, `WriteData`, `WriteElements`, then `Commit`), one segment or table at
a time, each with its error return (`Abort`). A guest instruction is one action;
an error unwinds the invocation (`Unwind`) and, in a start function, drops the new
instance with the tables only it has seen. The embedder acts whenever `mode` is
`"host"`, that is, between invocations and inside host functions. An instance on
`stack` is mutably borrowed and can be neither entered nor dropped.

`pub` is a history variable: tables and memories as of the last completed
operation. `AllOrNothing` compares it with the real ones, and the refinement maps
the abstract tables to it.

`AtomicLinking` says what the segments of a module make of tables and memories
without saying how: a slot holds what the last segment that covers it gives it, and
what it held before where no segment does. `with_config` instead writes one segment
after the other.

Abstracted: a reference operand is a function index with its origin; memory bytes
are small values; table instructions other than the ones on `funcref` do not exist
in the runtime; a guest callee of `call_indirect` runs in the same activation, so
only the dispatch is visible (frames are `CallStack`'s). Host memories do not grow.

### Opcodes and FunctionBody

A body is a sequence of tokens, one per opcode and one per immediate. `Opcodes` has
three tables, from three places in the source: `typed.rs` (immediates, operand types
in pop order, results), `control.rs` (immediates only) and `rt` with `numeric.rs`
and `execute_simd` (immediates, operands, results, and whether the instruction may
trap). They are separate on purpose: nothing in the code makes them equal. Opcodes
with control of their own, from `unreachable` to `global.set`, are actions of
`FunctionBody`.

`v` is the validator (`stack`, `controls`, first error), `sc` the scanner (`pc`,
`pending`, finished `openers`, error) and `x` the frame of `execute_guest_frame`
(`pc`, operands, `controls`, outcome). `phase` runs through them in the order of
`with_config` and `invoke_function`. The validator reads front to back, so `Offer`
reveals the body to it one instruction at a time; a prefix it rejects is not
extended. Tokens that are no instruction to the validator, because it has no arm for
the opcode or cannot read the immediates (`WellFormed`), end the validation
(`ValidateMalformed`). `ValidateX` and `RunX` are the two sides of one opcode or family of
opcodes; `pop_expect`, `require_label_values`, `finish_frame`, `branch_to`,
`exit_control_frame` and the others are operators on those states that keep the
code's order of checks. An instruction whose reader expects other immediates than
the body holds ends in `Desync`, which in the code is whatever the bytes happen to
mean.

Three history fields let properties compare the passes: `seen` records the
validator's stacks at every instruction, `paired` the boundaries its control stack
paired, and `v.dipped` whether it ever popped an operand from below its frame
without the frame being unreachable.

Abstracted: a value is its type, so conditions and selectors are free and a trap is
free where the code has one; alignment, lane bounds and LEB128 widths belong to the
kind of an immediate; locals and globals keep their declared types; a callee returns
its result types or traps (`CallStack` shows that those are the types returned).
Fuel may run out before any instruction.

### CallStack

`phase` is the point reached in `invoke_function`'s loop; `callers` the suspended
frames, each with the result type it waits for (a history field: the code keeps no
such record, the validator vouches for it); `depth`, `fuel` and `hostCalls` are the
code's variables. Guest code is arbitrary: every instruction is paid for and then
computes, calls, tail-calls, ends or traps.

### WasiNamespace

A handler is one action, because one guest thread calls one handler at a time and
none calls back. For each handler an operator lists the code's early returns in
their order (`OpenErrno`, `LinkErrno`, ...), and the action is enabled when it
yields `"SUCCESS"`; a refused call changes nothing, so it is a stuttering step. A
path is the sequence of its components. An inode's cells (`link_count`, `bytes`,
`times`), which the code shares between names by `Rc`, are `node[ino]`. File bytes
are a token that tells whether they are still the mounted ones. What an inode stands
for after a call, `InodeIdentity`, has two parts. One is about a state
(`InodesApart`): the inode of a directory, of a link and of a file are never the
same, and those of two directories or of two links neither, where the directories
include the ones a descriptor still holds, or has as its parent, after
`path_remove_directory` (`KnownDirectories`), and the files the ones open after
`path_unlink_file`. Two entries of files may have one inode, if they are hard links;
that they became so by `path_link` or `path_rename`, and not because a new file was
given an inode still in use, is a statement about steps, the other part. `path_open`
probes the address it will write the descriptor to before it opens anything, so
`rollback_open` is unreachable and not modelled.

### WasiFileIO

`bytes`, `fds`, `consumed` and `out` are the file contents, `open_files`, the
position in standard input and the two `OutputBuffer`s; `call` holds the locals of
the handler under way and `errno` what the last one answered. A handler goes
through the stages of the code: `Start` (descriptor and `iovs_len`), `Gather` once
per vector, `CheckWrite` or `CheckRead` (limits, and the probe of the result's
address), `Scatter` once per buffer of a read, `StoreResult`, and `CommitWrite`,
`CommitRead` or `CommitSeek`, which check the descriptor again. `fd_pread` and
`fd_tell` end with the store. A call refused before its first stage changes nothing
and is no step. `world0` is a history field: everything a call can change, as the
call found it.

Memory is a function from cells to words. A cell stands for a 32-bit word or for
one byte of a file, so a vector is two cells, a count one and an offset two;
regions overlap in whole cells. `W` is the number of values of a word and `W * W`
that of an offset: small in the runs, arbitrary in the proofs. The guest computes
what it likes between calls (`GuestStores`); the runs let it choose among `Images`,
and a call starts from one of them, which stands for the guest preparing its
vectors. Name lookup and the rights of preopens are `WasiNamespace`'s: `Open` opens
an existing writable file with rights already granted.

`FileIOContract` states the effect of a call without its stages: `ReadDelivers`
and `WriteDelivers` speak of the memory the call found, the memory it left, and the
file. They say nothing of the contents where two destinations coincide. A read that
fills a buffer lying over a later vector still has to fill the buffer that vector
described when the call began.

### LinearMemory

`memory[m]` holds the size and maximum of a `LinearMemory`, with the limits and the
width of the `MemoryHandle` that shares it, or of the type it was defined with, and
whether it is shared; `bytes[m]` its contents. `inst` has the fields of an
`Instance` that concern memory. `stack` lists the instances entered, each running
guest code or a host function with the capabilities it was registered with; the
embedder and the host function act when the top does not run its guest.

A byte has `Base` values, an i32 `I32Bytes` bytes and `W` values, a u64 `W * W`
values. Every check of the code is an operator of its own, with
`checked_add` that fails past the last u64: `checked_range` after
`pop_runtime_memory_address` for scalar accesses (`Scalar`), `checked_bulk_range`
after a wide addition for v128 (`Fixed`), `checked_bulk_range` for bulk
instructions and `Instance`, `checked_host_range` for hosts. Their only assumption
that is about this program is that `MAX_MEMORY_PAGES` pages are 2^32 bytes. Stores
convert values to little-endian bytes and loads back, with zero or sign extension.
A refused host call and a failed growth (`-1`) are no steps; an instruction out of
bounds leaves the frame. Loads change no state: `StoreThenLoad` applies the
conversions to every reachable memory. An instance has one passive data segment.

## 3. Runs

| Run | What it shows |
|---|---|
| `linking_sharing` | two identities, two tables with and without a maximum, three modules that import one table, two tables, or fail in a data segment, two instantiations; guest code that writes, fills, copies and grows while another instance is suspended, being made or dropped: `TypeOK`, `GuestTouchesOnlyItsTables`, `OneLiveOwner`, `BindingExact`, `ResolvedIsOwn`, `AllOrNothing`, `NoInternalError`, and that the stages implement `AtomicLinking` |
| `linking_guest` | one instance with an imported table without a maximum and a defined one with a maximum, passive segments and a global; every table instruction with every index up to one past the largest table: `TablesGrowWithinMaximum` |
| `calls_fuel` | all mixes of calls, tail calls, host calls, traps and returns with 6 units of fuel, 2 host calls and a configured depth above `MAX_CALL_DEPTH`, here 3; `InvocationsEnd` under fairness |
| `wasi_tree` | a writable and a read-only preopen, a read-only file, two dynamic descriptors, three entries, paths of one and two components and `..`, hard and symbolic links, displacing renames: `DescriptorsCoherent`, `ReadOnlyFrozen`, `TreeShape`, `InodeIdentity`, `LinkCountExact`, `CapabilitiesOnlyShrink` |
| `fileio_transfers` | one file, standard input and output, one or two vectors, reads that fill both buffers after the first has overwritten the second vector, results over buffers and vectors, results, buffers and vectors past the end of memory: `FailsClosed`, `ReadDelivers`, `WriteDelivers` |
| `fileio_cursors` | two descriptors of one file of at most two bytes and offsets of 0 to 8 (`W` is 3), seeks, truncation, allocation, flags: `SizeBounded`, `AppendKeepsContents`, `PollAgreesWithRead`, and that files implement `PosixFile` |
| `memory` | two instances and two memories; a module that imports a memory with a maximum, one that imports a memory of i64 addresses and defines one of i32 addresses; handles with and without a maximum: `LimitsHold`, `BoundsExact`, `StoreThenLoad`, `GrowthKeepsContents`, `OwnedConfined` |
| `bodies` | every body of up to eight instructions over six alphabets (arms of an `if`, blocks that reach below their frame, loops, branches, calls, values, an opcode nobody implements and one cut off before its immediate), and one body around each opcode the validator accepts, for each choice of the memories it names: `BoundariesAgree`, `StackAgrees`, `SoundWithinFrame` |

Four runs end in a violation: a document says one thing and the code does another
(section 6).

Bounds. Two identities are what sharing, stealing and reusing a table takes, and two
instantiations are enough to have a failed or dropped instance followed by one that
reuses its table or its address; both can also be there at once, one of them below a
host function that makes, enters or drops the other. Tables have at most two slots:
a segment that fits and one that does not, a maximum (one or two slots, or none)
that `table.grow` meets before the width of an index, and a width (`MaxLen`) it
meets first. Six units of fuel reach a depth of three with a tail call and a host
call on the way. In the file system two dynamic descriptors and a closed preopen
slot are enough for a number to change its meaning; three entries and two names let
a directory contain a link or a file while another name is displaced. Bodies of
seven or eight instructions are enough for two nested blocks with a branch out of
both, for a loop taken twice and for an `if` with both arms; the alphabets differ
because all opcodes together would be too many, and a plain opcode can only disagree
by its own row of a table, which the sweep covers. Two functions, two memories of
different widths, two locals and two globals are what the index checks and the
operand widths tell apart. For file I/O two descriptors of one file are what it
takes for one to truncate or grow what the other's cursor points into. Two vectors
are what it takes for one buffer to reach another vector; the buffers are such that
a read of the two bytes of the file or of standard input goes on into the second of
them when the first is one byte long, with the second vector already overwritten;
with offsets up to 8 and files of two bytes there are cursors at, behind and far
behind the end and at the last offset. For memory a byte is a bit, an i32 two of
them, a page two bytes and the largest memory two pages, so that it has 2^32 bytes
in small; operands and displacements are the first two and the last u64, and the
largest growths are one page and one more than an i32 can say. `MaxOut` stops
`fd_write` until the embedder takes the output, so every trace goes on. `MaxBirths`,
`MaxLen`, `FuelLimit`, `MaxInode`, `MaxEntries`, `MaxOpen`, `MaxPath`, `MaxOut`,
`Images`, `Mems`, `Insts`, `Addresses`, `Displacements`, `Values` and `Deltas` and
`FreeLength` name every bound. Symmetry is used for identities and table handles,
and for instances and memories, which the code only compares for equality.

Deadlock. An embedder may stop calling and a guest may have nothing left to do, so
`InstanceLinking` and `WasiNamespace` may stop (a full file system with every
descriptor closed refuses every call), and so may `FunctionBody`, where a rejected
body and a finished frame end the behaviour; `CallStack`, `WasiFileIO` and
`LinearMemory` may not: no stage of a handler is ever stuck.

Fairness. `InvocationsEnd` assumes weak fairness of `Engine`: `invoke_function` is
a loop that waits for nothing, and a host function is assumed to return, which the
runtime cannot enforce. Nothing is assumed of the guest: which instruction runs is
free, and only fuel makes the invocation end.

## 4. Proofs

All theorems hold for every value of the constants that satisfies the named
assumptions.

`CallStackProofs` proves `TypeOK`, `FramesBounded`, `DepthIsStackHeight`,
`ResultsFitCaller` and `HostCallsBounded`. The inductive invariant adds to them
what ties the stack together: each suspended frame's `want` is the result type of
the function above it, up to tail calls, and the bottom function has the result
type of `entry`; `ResultsFitCaller` alone speaks only about the top and is not
preserved by a return. The depth result needs `depth = Len(callers)` in every
phase in which a frame is entered or resumed.

`LinkingProofs` first proves `BindingExact`, `OneLiveOwner` and the action
property `GuestTouchesOnlyItsTables`. The inductive invariant `IInv` consists of
the types that ownership depends on, `FreeIsEmpty` (a dropped address has no
tables), `BoundIsMade` (only existing tables are bound, so that a fresh table
cannot look bound), `StackLive` (running instances exist and are entered once, so
that unwinding cannot drop a running one), `Building` (the instance under
construction exists, its imports do, and its index space is complete after the
bind stage, so that an active segment names one of its tables) and `BindingExact`.
`BindingExact` is not inductive alone: a new instance at a reused address would
find tables bound to it, which `Pinned` excludes, and `WriteElements` binds again.
`OneLiveOwner` follows from `BindingExact`, since a table has one `owner`.

It then adds what tables, globals and segments contain, and proves `TypeOK`,
`AllOrNothing`, `TablesGrowWithinMaximum`, `ResolvedIsOwn` and `NoInternalError`.
Its invariant `LInv` has `IInv` as its first conjunct. `Contents` says that every
reference anywhere (a slot, the embedder's hand, a global, a segment) is *good*: if
its owner's address is in use, the incarnation that made it still has the address,
and has the function. `ResolvedIsOwn` speaks only of references an instance
resolves, and is not inductive: a reference is copied long before it is resolved,
and its address may be reused meanwhile. What makes goodness inductive is `Pinned`:
an address that some reference names is not given to a new instance. `Counted`
bounds incarnations, `Sized` keeps tables within their maxima, `Vacant` says that
what an identity or a handle held is gone when it is not in use, and `Staged` says
per stage of `with_config` what is still as `pub` recorded it; `AllOrNothing` holds
because the preflights leave `WriteData` and `WriteElements` nothing to fail on
(`NothingLeftToFail`). `NoFault`, that none of the internal errors has occurred, and
`ResolvedIsOwn` are proved under `~RefGlobals`, that is, for an embedder that moves
no `Value::FuncRef` from one instance's exported global to another's. The condition
is needed: `linking_globals` shows what happens without it. `NilAssumption` says
that `None` is none of the values it is an alternative to.

Last it proves that every behaviour of `InstanceLinking` is one of
`AtomicLinking`. Every stage of `with_config` but the last maps to a stuttering step,
because the abstract tables are `pub`; `Commit` maps to `Link`, an end of an instance
to `Unlink`, a table instruction to `GuestWrite`, an act of the embedder to
`HostWrite`, and an unwinding start function to a stuttering step. The invariant
adds to `LInv` what `Commit` needs: `Marked` (the incarnation mark is within its
bound), `Laid` (a table the module defines is new, empty and in one place of the
index space when the segments start) and `Applied`: after `n` segments the tables and
memories are what the abstract specification gives for the first `n`. The lemmas
`TablesStep` and `MemoriesStep` carry `Applied` from `n` to `n + 1`, which is where
"one after the other" meets "the last one wins".

`WasiNamespaceProofs` proves all invariants of `WasiNamespace`, `InodeIdentity` and
the action property `CapabilitiesOnlyShrink`, for any names, limits, preopens and
mounted files. The properties need one another, so the inductive invariant `IInv` is
their conjunction with three more; of `InodeIdentity` it has what concerns entries
and open files (`EntryInodes`). `Finite`: entries are finite sets, so that a link
count can be compared with a number of names. `Issued`: `next_inode` is ahead of
every inode in use, also of those that only an open descriptor still refers to, and
directories and links have inodes beyond the mounted ones; without it a new file
could get the inode of an unlinked file that is still open. `Policy`: an inode
mounted read-only has no writable name and no descriptor with a right to change it,
and only preopens configured writable ever are; `ReadOnlyFrozen` alone says nothing
of the descriptor that a later write goes through. What descriptors hold of
directories is a second invariant, `Opened`, proved on top of `IInv`: among the
directories known in any way, the roots of the preopens included, an inode is that
of one, is no file's or link's, and was issued by `next_inode`. The roots are there
because `path_open` may take its parent's inode from one, and removed directories
because the descriptor copied its inodes when it was opened. With both invariants
`next_inode + 1` is no inode in use, which gives the part of `InodeIdentity` about
steps for the handlers that make an entry; for `path_link` and `path_rename` the old
name is the witness. `GuestPathsAssumption` says that a guest's path is a sequence
of names and unsafe components, which is what `GuestPaths` enumerates.

`WasiFileIOProofs` proves `TypeOK`, `SizeBounded` and the action property
`FailsClosed`, for any memory size, word width, limits, images and arguments. The
argument for `FailsClosed`: until its first effect a call has `world = world0`, and
from then on no stage can fail. The inductive invariant says so per stage. `Walking`
is the first half: a call that gathers has changed nothing, and its descriptor was
accepted. `Probed` says that every destination of a read lies in memory, `Filling` and
`Answering` that the result does, so neither `Scatter` nor `StoreResult` faults once
memory has changed. `Committing` says that the descriptor still admits what was
prepared, for the very payload that was checked, so the second check in `write`,
`pwrite`, `advance` and `commit_seek` cannot fail: "descriptor changed during ..."
is unreachable. `SizeBounded` alone is not inductive, since a commit relies on a
check made stages earlier.

The same module proves the action properties `AppendKeepsContents` and
`PollAgreesWithRead`, and that the handlers implement `PosixFile`
(`ImplementsPosixFile`). Both need to know what `fd_read` has at hand while its stages
run, which is the invariant `Delivering`: the bytes it scatters are those the source
holds at the cursor; if it asks for bytes, one of its vectors does; as long as it has
delivered nothing of something, every vector passed was empty; and the number in
memory at `nptr` when it commits is the number delivered. So the cursor moves to at
most the end of the file, which makes the commit a `Read` of `PosixFile`, and a count
of zero means that there was nothing. The refinement takes the step of a call at its
commit and every other stage as none. A file is compared with its bytes past the end
as zero: `PaddedResize` says that what a truncation cuts off is gone when the file
grows again, and `PaddedOverwrite` that a write changes no byte outside its range and
leaves zeroes in the gap before it. `ClosedAssumption` says that the absence of a
descriptor is not one.

`LinearMemoryProofs` proves `TypeOK`, `LimitsHold`, `BoundsExact` and the action
properties `OwnedConfined` and `GrowthKeepsContents`. `LimitsHold` speaks of present sizes and
is not inductive: the invariant instead bounds what a memory can become. `Sizes`
keeps pages within the memory's maximum and that within its type's, and `Bound`
says of each instance's memories that their *maximum* is within the importer's
and the embedder's limit, which is what `validate_memory_limits` and
`validate_memory_runtime_limit` compare; a maximum never changes. `Exclusive`, that
a memory which is not shared is in one instance only, carries `OwnedConfined` and
makes dropping an instance harmless to the others. `BoundsExact` rests on
`LengthBound`: a memory has at most `W` bytes, so an operand of `W` or more is out of
bounds whatever its upper half, and a sum that overflows a u64 is too. `TypeOK` adds
`Content`, that a memory holds bytes: `to_le_bytes` cuts every value to bytes, and
the range checks of `memory.copy` and `memory.init` keep them from taking bytes that
are not there.

`OpcodesProofs` proves `TablesAgree`: every opcode of the validator's table is in the
interpreter's with the same operands and results and in the scanner's, and all three
read its immediates alike. Every row of every table is compared with one reference on
opcode numbers (`Imms`, `Pops`, `Pushes`, `Skip`), so that three tables take three
comparisons, and a row that goes wrong is the one whose step fails. The comparison
found no difference in operands; the immediates differ in one name only (`ref.func`
is checked by the validator and trusted by the interpreter), not in encoding.

`ValidationProofs` proves `BoundariesAgree` and `FunctionBodyProofs` proves `TypeOK`,
`StackAgrees` and `SoundWithinFrame` for bodies of every length, every type section,
every choice of locals, globals, memories and functions, and whatever `Offer` puts
before the validator; `ContextAssumption` says that types are made of value types and
that functions have a type of the type section. It is type soundness of the interpreter with respect
to the validator, and needs no induction over code, because the history `seen` keeps
what the validator had at each boundary and a step adds one boundary. The inductive
invariant `BodyInv` is a conjunction of seven:

* `VInv`: at each boundary an instruction stands that the validator reads, and its
  control stack at the next boundary is what the instruction makes of the one here
  (an opener pushes a frame that records where it was opened, `end` pops one,
  everything else keeps them but for `unreachable`); what the instruction names
  exists; and every opener whose frame is gone is in `paired`, with the `end` at which
  it went.
* `SInv`: the scanner stands at a boundary, its `pending` are the validator's frames
  there without the function's, and its `openers` are the pairs whose `end` lies
  before it. With the agreement of the tables it follows that it passes from boundary
  to boundary and fails at none.
* `TInv`, for bodies that stay within their frames: the operands at a boundary are
  those of the last with the instruction's operands replaced by its results; below
  the height of a frame they are those its opener found; and a branch finds the
  operands its label wants. Unreachable frames are exempt exactly where the validator
  invents operands.
* `FInv` and `KInv`: what holds at the first boundary, and that opcodes are numbers.
* `XInv`: the interpreter stands at a boundary, under as many frames as the validator
  had there, each of the same kind, label types and `end_pc`.
* `AInv`, again within frames: its operands are the validator's, no frame around it is
  unreachable, and it never failed an operand check.

`StackAgrees` says only of the place the interpreter is at what must be known of every
place it can jump to. A branch goes to the body of a loop or behind the `end` of a
block, perhaps long before or after: the lemmas on `HomeOf`, `EndOf`, `ElseOf` and
`LandingOf` derive from `VInv` and `TInv` of a whole accepted body that every frame on
the control stack at a boundary was opened at an earlier boundary with the operands
below its height that are still there, closes at a later one, and that its operands
at the landing are what lay below its height followed by the label's types, which is
what `branch_to` leaves. The first half of `SoundWithinFrame`, that no accepted body
loses its place, needs `VInv`, `SInv` and `XInv` only and so holds for bodies that
reach below their frames as well (finding 4 of section 6). All seven conjuncts were
checked by TLC on the instance of the run `bodies` first.

Only model-checked: liveness (`InvocationsEnd`); `ReadDelivers` and `WriteDelivers`,
which speak of the concatenation of any number of buffers; and `StoreThenLoad`, which
relates a sum of powers to a quotient: that would take induction over bytes, and the
provers know no law of exponentiation.

## 5. What is not modelled

The parser and the command line (sequential code without lasting state), the values
computed by numeric and SIMD operators (floating point and 128-bit lanes; their
operand types, immediates and traps are in `Opcodes`), the validator's checks of a
module outside its function bodies (assumed, as `Validated` and as the index spaces
of `FunctionBody`), numeric globals, arguments, environment, clocks, poll (but for
its end-of-file flag), random and exit. Capacity failures of the allocator are
modelled only where the code handles them (`DefineFails`).

## 6. Disagreements between documents and code

1. `linking_globals`: a `Value::FuncRef` is a bare function index. Read from one
   instance's exported global and set into another's, it is stored by the second
   instance into its table as its *own* function of that index
   (`rt:140`, `rt:1884`). `docs/architecture.md:169` excludes exactly this.
2. `wasi_fdstat`: `fd_fdstat_get` consults the preopens recorded at configuration
   first, and `fd_close` does not remove them; a file opened in the freed slot is
   described as the preopen (`crates/wasm-wasi/src/lib.rs:662`).
   `docs/roadmap.md:177` promises no stale preopen metadata.
3. `wasi_names`: `path_rename` onto the path of a directory yields two entries of
   one name (`fs:2395`, `docs/roadmap.md:186`).
4. `bodies_frames`: outside unreachable code `pop_expect` and `pop_any` of the
   validator refuse only an empty stack, not one at the frame's height
   (`typed.rs:1557`, `typed.rs:1571`). A block may therefore consume what its
   enclosing frame pushed and put something back. A path that leaves or repeats the
   block without passing there finds another stack than the validator saw:
   `i32.const; loop; drop; br 0; end; i32.const; end` is accepted, and its second
   iteration ends in `StackUnderflow`. `docs/phase5b-numeric-model.md:37` holds the
   interpreter's checks to be redundant for validated code. They are what keeps
   this harmless: `SoundWithinFrame` shows that even such a body never makes the
   interpreter lose its place, and that every other validated body passes them all.

## 7. Plan

In this order:

1. done: `InstanceLinking` with its refinement and ownership proofs, `CallStack`
   with its proofs, `WasiNamespace`, `WasiFileIO` with its contract, refinement
   and proofs, `LinearMemory` with its proofs, `Opcodes` and `FunctionBody`;
2. done: the theorems of `WasiNamespace`, `InstanceLinking` and `LinearMemory`, and
   the refinements of `AtomicLinking` and `PosixFile`;
3. done: `BoundariesAgree`, `StackAgrees` and `SoundWithinFrame` of `FunctionBody`;
4. `poll_oneoff`, `proc_exit` and `random_get`; LEB128 decoding as operators.
