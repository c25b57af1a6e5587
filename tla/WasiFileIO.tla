----------------------------- MODULE WasiFileIO -----------------------------
(***************************************************************************)
(* Reading and writing through descriptors: fd_read, fd_pread, fd_write    *)
(* (crates/wasm-wasi/src/lib.rs), fd_pwrite, fd_seek, fd_tell and the      *)
(* handlers that resize a file (filesystem.rs).                            *)
(*                                                                         *)
(* A handler works on the guest's memory in stages: it walks the vectors,  *)
(* checks what it is about to do, changes memory, changes the file.  Every *)
(* stage that may fail or have an effect is an action, and between two of  *)
(* them nothing else runs, since a host function has the guest stopped.    *)
(* What can go wrong is a stage failing after an earlier one has had an    *)
(* effect, and regions of memory that overlap: vectors, buffers and the    *)
(* result may share cells.                                                 *)
(*                                                                         *)
(* A memory cell holds a 32-bit word or one byte of a file, so a vector is *)
(* two cells, a count one, an offset two.  A call refused before its first *)
(* stage is no step.                                                       *)
(***************************************************************************)
EXTENDS Integers, Sequences

CONSTANTS
    W,             \* 2^32: how many values a word has
    MemSize,       \* size of the guest's memory, in cells
    Images,        \* what the guest may have put there before a call
    Files,         \* contents shared by the descriptors of a file
    Fds,           \* descriptors path_open may hand out
    Streams,       \* the standard streams the guest uses: 0, 1, 2
    RightSets,     \* rights path_open may be asked for
    Initial,       \* the bytes of each mounted file
    Stdin,         \* the bytes injected as standard input
    Ptrs,          \* addresses a guest passes for vectors
    ResultPtrs,    \* addresses a guest passes for results
    Counts,        \* values of iovs_len
    Offsets,       \* file offsets and sizes a guest passes
    Deltas,        \* distances a guest seeks by
    MaxIovs,       \* max_iovecs, max_read_iovecs, MAX_PWRITE_IOVECS
    MaxBytes,      \* max_write_bytes, max_read_bytes
    MaxFileBytes,  \* MAX_FILE_BYTES
    MaxOut,        \* bound: the output a guest leaves before the embedder takes it
    Closed         \* a descriptor that is not open

Word == 0..(W - 1)
MaxU64 == W * W - 1
U64  == 0..MaxU64
Addresses == 0..(MemSize - 1)
Rights == {"READ", "WRITE", "SEEK", "TELL", "ALLOCATE", "SET_SIZE", "SET_FLAGS"}

Readers == {"fd_read", "fd_pread"}
Writers == {"fd_write", "fd_pwrite"}

ASSUME WidthAssumption == W \in Nat \ {0} /\ MemSize \in 1..W /\ MaxFileBytes \in 0..MaxU64
ASSUME ImagesAssumption == Images # {} /\ Images \subseteq [Addresses -> Word]
ASSUME FdsAssumption == Fds \subseteq Nat \ {0, 1, 2} /\ Streams \subseteq {0, 1, 2}
ASSUME RightsAssumption == RightSets \subseteq SUBSET Rights
ASSUME InitialAssumption ==
    /\ Initial \in [Files -> Seq(Word)] /\ Stdin \in Seq(Word)
    /\ \A f \in Files : Len(Initial[f]) <= MaxFileBytes
ASSUME ArgumentsAssumption ==
    /\ Ptrs \subseteq Word /\ ResultPtrs \subseteq Word /\ Counts \subseteq Word
    /\ 0 \in Offsets /\ Offsets \subseteq U64 /\ Deltas \subseteq Int
    /\ MaxIovs \in Nat /\ MaxBytes \in Nat

VARIABLES
    mem,       \* the guest's memory
    bytes,     \* the bytes of each file
    fds,       \* open_files: [file, off, app, rights] or Closed
    consumed,  \* InputState::offset
    out,       \* the captured stdout (1) and stderr (2)
    call,      \* the handler under way
    errno      \* what the last handler answered; SUCCESS while one is under way

world == <<mem, bytes, fds, consumed, out>>
vars  == <<world, call, errno>>

Descriptor == [file : Files, off : U64, app : BOOLEAN, rights : SUBSET Rights]
Vector     == [ptr : Word, len : Word]

\* The absence of a descriptor (None) is not one, nor a cursor of PosixFile.
ASSUME ClosedAssumption == Closed \notin Descriptor \cup [file : Files, pos : U64, app : BOOLEAN]

\* The locals of a handler.  `world0` is a history variable: the state the
\* call found.
NoCall == [phase |-> "idle", op |-> "none", fd |-> 0, iovs |-> 0, n |-> 0, nptr |-> 0,
           off |-> 0, vecs |-> <<>>, total |-> 0, data |-> <<>>, next |-> 1, done |-> 0,
           result |-> <<>>, world0 |-> <<>>]

Least(a, b) == IF a < b THEN a ELSE b

Init == /\ mem \in Images
        /\ bytes = Initial
        /\ fds = [fd \in Fds |-> Closed]
        /\ consumed = 0
        /\ out = [o \in {1, 2} |-> <<>>]
        /\ call = NoCall
        /\ errno = "SUCCESS"

-----------------------------------------------------------------------------
\* Memory, as HostContext gives it to a handler

\* checked_host_range: an empty range has to lie within memory too.
InMem(ptr, len) == ptr + len <= MemSize
read_memory(ptr, len) == [k \in 1..len |-> mem[ptr + k - 1]]
write_memory(ptr, s) ==
    [a \in Addresses |-> IF a \in ptr..(ptr + Len(s) - 1) THEN s[a - ptr + 1] ELSE mem[a]]

\* u64::to_le_bytes, as two words.
to_le(offset) == <<offset % W, offset \div W>>

-----------------------------------------------------------------------------
\* Files

HasRights(fd, rights) == fd \in Fds /\ fds[fd] # Closed /\ rights \subseteq fds[fd].rights

\* Vec::resize(n, 0)
resize(s, n) == [k \in 1..n |-> IF k <= Len(s) THEN s[k] ELSE 0]

\* Mutant: FDFLAGS_APPEND is not looked at.
WriteStart_IgnoresAppend(fd) == fds[fd].off

\* Where fd_write puts its bytes.
WriteStart(fd) == IF fds[fd].app THEN Len(bytes[fds[fd].file]) ELSE fds[fd].off

\* Mutant: the size is compared before the payload is added.
FitsAt_Early(start, len) == start <= MaxFileBytes

FitsAt(start, len) == start + len <= MaxFileBytes

prepare_write(fd, len) ==
    IF ~HasRights(fd, {}) THEN "BADF"
    ELSE IF ~HasRights(fd, {"WRITE"}) THEN "NOTCAPABLE"
    ELSE IF ~FitsAt(WriteStart(fd), len) THEN "FBIG"
    ELSE "SUCCESS"

prepare_pwrite(fd, off, len) ==
    IF ~HasRights(fd, {}) THEN "BADF"
    ELSE IF ~HasRights(fd, {"WRITE", "SEEK"}) THEN "NOTCAPABLE"
    ELSE IF ~FitsAt(off, len) THEN "FBIG"
    ELSE "SUCCESS"

\* Mutant: a start behind the end is not padded up to.
Overwrite_NoGap(old, start, s) ==
    LET from == Least(start, Len(old))
        end == from + Len(s)
        grown == IF Len(old) < end THEN resize(old, end) ELSE old
    IN [k \in 1..Len(grown) |-> IF k \in (from + 1)..end THEN s[k - from] ELSE grown[k]]

\* Both resizes and the copy_from_slice of write and pwrite.
Overwrite(old, start, s) ==
    LET end == start + Len(s)
        grown == IF Len(old) < end THEN resize(old, end) ELSE old
    IN [k \in 1..Len(grown) |-> IF k \in (start + 1)..end THEN s[k - start] ELSE grown[k]]

\* peek and pread: at most max bytes from an offset on.
Segment(s, from, max) ==
    IF from >= Len(s) THEN <<>> ELSE SubSeq(s, from + 1, from + Least(Len(s) - from, max))

\* Mutant: the end of the file is not yet the end.
AtEof_OffByOne(fd) == fds[fd].off > Len(bytes[fds[fd].file])

\* poll_read_ready: the hang-up flag that poll_oneoff reports.
AtEof(fd) == fds[fd].off >= Len(bytes[fds[fd].file])

-----------------------------------------------------------------------------
\* Handlers that touch no memory, and the guest and the embedder themselves

Idle == call.phase = "idle"
Local == Idle /\ UNCHANGED <<mem, consumed, out, call, errno>>

\* The guest prepares its memory for the next call.
GuestStores == /\ Idle
               /\ mem' \in Images
               /\ UNCHANGED <<bytes, fds, consumed, out, call, errno>>

\* OutputBuffer::take and clear
TakeOutput(o) == /\ Idle
                 /\ out[o] # <<>>
                 /\ out' = [out EXCEPT ![o] = <<>>]
                 /\ UNCHANGED <<mem, bytes, fds, consumed, call, errno>>

\* path_open of an existing writable file, with FDFLAGS_APPEND and
\* OFLAGS_TRUNC or without: the lowest free descriptor, its cursor at 0.  (The
\* number it stores in memory is gone when the guest has prepared its next
\* call; the name space is WasiNamespace's.)
Open(fd, f, rights, app, trunc) ==
    /\ Local
    /\ fds[fd] = Closed /\ \A d \in Fds : d < fd => fds[d] # Closed
    /\ trunc => "WRITE" \in rights
    /\ fds' = [fds EXCEPT ![fd] = [file |-> f, off |-> 0, app |-> app, rights |-> rights]]
    /\ bytes' = IF trunc THEN [bytes EXCEPT ![f] = <<>>] ELSE bytes

\* fd_close
Close(fd) == /\ Local
             /\ HasRights(fd, {})
             /\ fds' = [fds EXCEPT ![fd] = Closed]
             /\ UNCHANGED bytes

\* fd_fdstat_set_flags
SetFlags(fd, app) == /\ Local
                     /\ HasRights(fd, {"SET_FLAGS"})
                     /\ fds' = [fds EXCEPT ![fd].app = app]
                     /\ UNCHANGED bytes

\* fd_filestat_set_size
SetSize(fd, size) == /\ Local
                     /\ HasRights(fd, {"SET_SIZE"})
                     /\ size <= MaxFileBytes
                     /\ bytes' = [bytes EXCEPT ![fds[fd].file] = resize(@, size)]
                     /\ UNCHANGED fds

\* fd_allocate
Allocate(fd, off, len) ==
    /\ Local
    /\ HasRights(fd, {"ALLOCATE"})
    /\ FitsAt(off, len)
    /\ bytes' = [bytes EXCEPT ![fds[fd].file] = IF Len(@) < off + len THEN resize(@, off + len) ELSE @]
    /\ UNCHANGED fds

-----------------------------------------------------------------------------
\* The stages of a handler that works on memory

Return(e) == call' = NoCall /\ errno' = e

\* ensure_writable, ensure_readable, ensure_preadable.  fd_pwrite has no such
\* check before it walks the vectors.
Accepts(op, fd) == CASE op = "fd_write"  -> fd \in {1, 2} \/ HasRights(fd, {"WRITE"})
                     [] op = "fd_read"   -> fd = 0 \/ HasRights(fd, {"READ"})
                     [] op = "fd_pread"  -> HasRights(fd, {"READ", "SEEK"})
                     [] op = "fd_pwrite" -> TRUE

\* fd_read, fd_pread, fd_write and fd_pwrite, up to the first vector.
Start(op, fd, iovs, n, nptr, off) ==
    /\ Idle
    /\ mem \in Images
    /\ op = "fd_write" /\ fd \in {1, 2} => Len(out[fd]) <= MaxOut
    /\ op \in {"fd_read", "fd_write"} => off = 0
    /\ Accepts(op, fd)
    /\ n <= MaxIovs
    /\ call' = [NoCall EXCEPT !.phase = "gather", !.op = op, !.fd = fd, !.iovs = iovs, !.n = n,
                              !.nptr = nptr, !.off = off, !.world0 = world]
    /\ errno' = "SUCCESS" /\ UNCHANGED world

\* What the vectors may describe in all; the count has to fit in a u32.
Limit(op) == Least(IF op = "fd_pwrite" THEN MaxFileBytes ELSE MaxBytes, W - 1)

\* The vector that is next, and the early returns of its turn of the loop.
VectorAt(a) == [ptr |-> mem[a], len |-> mem[a + 1]]
NextVector == call.iovs + 2 * Len(call.vecs)

GatherErrno ==
    IF ~InMem(NextVector, 2) THEN "FAULT"
    ELSE IF call.total + mem[NextVector + 1] > Limit(call.op)
         THEN IF call.op = "fd_pwrite" THEN "FBIG" ELSE "INVAL"
    ELSE IF ~InMem(mem[NextVector], mem[NextVector + 1]) THEN "FAULT"
    ELSE "SUCCESS"

\* One turn of the loop: a reader keeps the destination, a writer the bytes.
Gather ==
    /\ call.phase = "gather" /\ Len(call.vecs) < call.n
    /\ UNCHANGED world
    /\ IF GatherErrno # "SUCCESS" THEN Return(GatherErrno)
       ELSE LET v == VectorAt(NextVector)
            IN /\ call' = [call EXCEPT
                             !.vecs = Append(@, v),
                             !.total = @ + v.len,
                             !.data = IF call.op \in Writers THEN @ \o read_memory(v.ptr, v.len) ELSE @]
               /\ UNCHANGED errno

\* prepare_write or prepare_pwrite, and the probe of nwritten.
WriteErrno == IF call.op = "fd_pwrite" THEN prepare_pwrite(call.fd, call.off, Len(call.data))
              ELSE IF call.fd \in {1, 2} THEN "SUCCESS"
              ELSE prepare_write(call.fd, Len(call.data))

CheckWrite ==
    /\ call.phase = "gather" /\ Len(call.vecs) = call.n /\ call.op \in Writers
    /\ UNCHANGED world
    /\ IF WriteErrno # "SUCCESS" THEN Return(WriteErrno)
       ELSE IF ~InMem(call.nptr, 1) THEN Return("FAULT")
       ELSE /\ call' = [call EXCEPT !.phase = "result", !.result = <<call.total>>]
            /\ UNCHANGED errno

\* The bytes a read is about: stdin, or a file from its cursor or an offset.
Source == IF call.fd = 0 THEN Stdin ELSE bytes[fds[call.fd].file]
Cursor == IF call.fd = 0 THEN consumed ELSE fds[call.fd].off
From   == IF call.op = "fd_pread" THEN call.off ELSE Cursor

\* Mutant: nread is not probed.
CheckRead_NoProbe ==
    /\ call.phase = "gather" /\ Len(call.vecs) = call.n /\ call.op \in Readers
    /\ call' = [call EXCEPT !.phase = "scatter", !.data = Segment(Source, From, call.total)]
    /\ UNCHANGED <<world, errno>>

\* The probe of nread, and the peek or pread.
CheckRead ==
    /\ call.phase = "gather" /\ Len(call.vecs) = call.n /\ call.op \in Readers
    /\ UNCHANGED world
    /\ IF ~InMem(call.nptr, 1) THEN Return("FAULT")
       ELSE /\ call' = [call EXCEPT !.phase = "scatter", !.data = Segment(Source, From, call.total)]
            /\ UNCHANGED errno

\* Mutant: the vectors are read while the destinations are filled.
Scatter_Rereads ==
    /\ call.phase = "scatter"
    /\ UNCHANGED <<bytes, fds, consumed, out>>
    /\ IF call.done = Len(call.data) \/ call.next > Len(call.vecs)
       THEN /\ call' = [call EXCEPT !.phase = "result", !.result = <<call.done>>]
            /\ UNCHANGED <<mem, errno>>
       ELSE LET v == VectorAt(call.iovs + 2 * (call.next - 1))
                chunk == Least(v.len, Len(call.data) - call.done)
            IN IF chunk # 0 /\ ~InMem(v.ptr, chunk)
               THEN Return("FAULT") /\ UNCHANGED mem
               ELSE /\ mem' = write_memory(v.ptr, SubSeq(call.data, call.done + 1, call.done + chunk))
                    /\ call' = [call EXCEPT !.done = @ + chunk, !.next = @ + 1]
                    /\ UNCHANGED errno

\* One turn of the loop that fills the destinations.
Scatter ==
    /\ call.phase = "scatter"
    /\ UNCHANGED <<bytes, fds, consumed, out>>
    /\ IF call.done = Len(call.data) \/ call.next > Len(call.vecs)
       THEN /\ call' = [call EXCEPT !.phase = "result", !.result = <<call.done>>]
            /\ UNCHANGED <<mem, errno>>
       ELSE LET v == call.vecs[call.next]
                chunk == Least(v.len, Len(call.data) - call.done)
            IN IF chunk # 0 /\ ~InMem(v.ptr, chunk)
               THEN Return("FAULT") /\ UNCHANGED mem
               ELSE /\ mem' = write_memory(v.ptr, SubSeq(call.data, call.done + 1, call.done + chunk))
                    /\ call' = [call EXCEPT !.done = @ + chunk, !.next = @ + 1]
                    /\ UNCHANGED errno

\* Mutant: a target past u64::MAX is not refused.
SeekErrno_NoOverflow(fd, target, cursorOnly) ==
    IF ~HasRights(fd, {}) THEN "BADF"
    ELSE IF ~HasRights(fd, {"SEEK"}) /\ ~(cursorOnly /\ HasRights(fd, {"TELL"})) THEN "NOTCAPABLE"
    ELSE IF target < 0 THEN "INVAL"
    ELSE "SUCCESS"

SeekErrno(fd, target, cursorOnly) ==
    IF ~HasRights(fd, {}) THEN "BADF"
    ELSE IF ~HasRights(fd, {"SEEK"}) /\ ~(cursorOnly /\ HasRights(fd, {"TELL"})) THEN "NOTCAPABLE"
    ELSE IF target < 0 THEN "INVAL"
    ELSE IF target > MaxU64 THEN "OVERFLOW"
    ELSE "SUCCESS"

SeekBase(fd, whence) == CASE whence = "SET" -> 0
                          [] whence = "CUR" -> fds[fd].off
                          [] whence = "END" -> Len(bytes[fds[fd].file])

\* fd_seek up to the store of the new offset.
Seek(fd, delta, whence, nptr) ==
    LET target == SeekBase(fd, whence) + delta IN
    /\ Idle
    /\ mem \in Images
    /\ HasRights(fd, {})
    /\ SeekErrno(fd, target, whence = "CUR" /\ delta = 0) = "SUCCESS"
    /\ InMem(nptr, 2)
    /\ call' = [NoCall EXCEPT !.phase = "result", !.op = "fd_seek", !.fd = fd, !.nptr = nptr,
                              !.off = target, !.result = to_le(target), !.world0 = world]
    /\ errno' = "SUCCESS" /\ UNCHANGED world

\* fd_tell up to the store of the offset.
Tell(fd, nptr) ==
    /\ Idle
    /\ mem \in Images
    /\ HasRights(fd, {"SEEK"}) \/ HasRights(fd, {"TELL"})
    /\ InMem(nptr, 2)
    /\ call' = [NoCall EXCEPT !.phase = "result", !.op = "fd_tell", !.fd = fd, !.nptr = nptr,
                              !.result = to_le(fds[fd].off), !.world0 = world]
    /\ errno' = "SUCCESS" /\ UNCHANGED world

\* nread, nwritten or newoffset is stored; fd_pread and fd_tell are done.
StoreResult ==
    /\ call.phase = "result"
    /\ UNCHANGED <<bytes, fds, consumed, out>>
    /\ IF ~InMem(call.nptr, Len(call.result)) THEN Return("FAULT") /\ UNCHANGED mem
       ELSE /\ mem' = write_memory(call.nptr, call.result)
            /\ IF call.op \in {"fd_pread", "fd_tell"} THEN Return("SUCCESS")
               ELSE call' = [call EXCEPT !.phase = "commit"] /\ UNCHANGED errno

\* Mutant: the payload is taken from memory when it is written.
Payload_Late == IF Len(call.vecs) = 1 THEN read_memory(call.vecs[1].ptr, call.vecs[1].len) ELSE call.data

Payload == call.data

\* Filesystem::write, pwrite, or OutputBuffer::append.
CommitWrite ==
    LET fd == call.fd
        start == IF call.op = "fd_write" THEN WriteStart(fd) ELSE call.off
    IN
    /\ call.phase = "commit" /\ call.op \in Writers
    /\ UNCHANGED <<mem, consumed>>
    /\ IF WriteErrno # "SUCCESS" THEN Return("HOST_ERROR") /\ UNCHANGED <<bytes, fds, out>>
       ELSE /\ Return("SUCCESS")
            /\ IF fd \in {1, 2} THEN out' = [out EXCEPT ![fd] = @ \o Payload] /\ UNCHANGED <<bytes, fds>>
               ELSE IF Payload = <<>> THEN UNCHANGED <<bytes, fds, out>>
               ELSE /\ bytes' = [bytes EXCEPT ![fds[fd].file] = Overwrite(@, start, Payload)]
                    /\ fds' = IF call.op = "fd_write" THEN [fds EXCEPT ![fd].off = start + Len(Payload)]
                              ELSE fds
                    /\ UNCHANGED out

\* InputBuffer::advance or Filesystem::advance.
CommitRead ==
    /\ call.phase = "commit" /\ call.op = "fd_read"
    /\ UNCHANGED <<mem, bytes, out>>
    /\ IF call.fd = 0
       THEN consumed' = Least(consumed + call.done, Len(Stdin)) /\ Return("SUCCESS") /\ UNCHANGED fds
       ELSE IF ~HasRights(call.fd, {"READ"}) THEN Return("HOST_ERROR") /\ UNCHANGED <<fds, consumed>>
       ELSE /\ fds' = [fds EXCEPT ![call.fd].off = Least(@ + call.done, MaxU64)]
            /\ Return("SUCCESS") /\ UNCHANGED consumed

\* commit_seek
CommitSeek ==
    /\ call.phase = "commit" /\ call.op = "fd_seek"
    /\ UNCHANGED <<mem, bytes, consumed, out>>
    /\ IF ~HasRights(call.fd, {}) THEN Return("HOST_ERROR") /\ UNCHANGED fds
       ELSE fds' = [fds EXCEPT ![call.fd].off = call.off] /\ Return("SUCCESS")

Stage == Gather \/ CheckWrite \/ CheckRead \/ Scatter \/ StoreResult \/ CommitWrite \/ CommitRead \/ CommitSeek

Next ==
    \/ Stage
    \/ GuestStores
    \/ \E o \in {1, 2} : TakeOutput(o)
    \/ \E fd \in Fds, f \in Files, rights \in RightSets, app, trunc \in BOOLEAN : Open(fd, f, rights, app, trunc)
    \/ \E fd \in Fds : Close(fd)
    \/ \E fd \in Fds, app \in BOOLEAN : SetFlags(fd, app)
    \/ \E fd \in Fds, size \in Offsets : SetSize(fd, size)
    \/ \E fd \in Fds, off, len \in Offsets : Allocate(fd, off, len)
    \/ \E op \in Readers \cup Writers, fd \in Streams \cup Fds, iovs \in Ptrs, n \in Counts,
          nptr \in ResultPtrs, off \in Offsets : Start(op, fd, iovs, n, nptr, off)
    \/ \E fd \in Fds, delta \in Deltas, whence \in {"SET", "CUR", "END"}, nptr \in ResultPtrs :
          Seek(fd, delta, whence, nptr)
    \/ \E fd \in Fds, nptr \in ResultPtrs : Tell(fd, nptr)

Spec == Init /\ [][Next]_vars

-----------------------------------------------------------------------------
\* Properties

CallType ==
    [phase : {"idle", "gather", "scatter", "result", "commit"},
     op : {"none", "fd_seek", "fd_tell"} \cup Readers \cup Writers,
     fd : {0, 1, 2} \cup Fds, iovs : Word, n : Word, nptr : Word, off : U64,
     vecs : Seq(Vector), total : Word, data : Seq(Word), next : Nat, done : Nat,
     result : Seq(Word), world0 : {call.world0}]

\* Type invariant: every variable holds what the struct field it stands for
\* can hold.
TypeOK == /\ mem \in [Addresses -> Word]
          /\ bytes \in [Files -> Seq(Word)]
          /\ fds \in [Fds -> Descriptor \cup {Closed}]
          /\ consumed \in 0..Len(Stdin)
          /\ out \in [{1, 2} -> Seq(Word)]
          /\ call \in CallType
          /\ errno \in {"SUCCESS", "FAULT", "INVAL", "FBIG", "BADF", "NOTCAPABLE", "HOST_ERROR"}

\* No sequence of seeks, appends, positioned writes, allocations and resizes
\* takes a file past MAX_FILE_BYTES.
SizeBounded == \A f \in Files : Len(bytes[f]) <= MaxFileBytes

\* A call that is answered with an error, or that ends in "descriptor changed
\* during ...", has left guest memory, files, cursors, standard input and the
\* captured output as it found them: whatever can fail is probed before the
\* first effect.
FailsClosed ==
    [][~Idle /\ Idle' /\ errno' # "SUCCESS" => world' = call.world0]_vars

\* A write through a descriptor with FDFLAGS_APPEND set keeps every byte that
\* was in the file, whoever put it there and wherever the cursor is.
AppendKeepsContents ==
    [][~Idle /\ Idle' /\ call.op = "fd_write" /\ call.fd \in Fds =>
         LET old == bytes[fds[call.fd].file]  new == bytes'[fds[call.fd].file]
         IN fds[call.fd].app => Len(old) <= Len(new) /\ SubSeq(new, 1, Len(old)) = old]_vars

\* poll_oneoff reports hang-up on a file exactly when a read of at least one
\* byte answers that there is none.
PollAgreesWithRead ==
    [][~Idle /\ Idle' /\ errno' = "SUCCESS" /\ call.op = "fd_read" /\ call.fd \in Fds /\ call.total > 0 =>
         (AtEof(call.fd) <=> mem'[call.nptr] = 0)]_vars
=============================================================================
