-------------------------- MODULE WasiFileIOProofs --------------------------
(***************************************************************************)
(* Proofs about WasiFileIO: type correctness, the bound on file sizes,     *)
(* that a call that fails leaves everything as it was, that an append      *)
(* loses nothing, that polling and reading agree on the end of a file, and *)
(* that the handlers implement PosixFile.                                  *)
(***************************************************************************)
EXTENDS FileIOContract, TLAPS

\* What the stages of a handler have established.  Until the first effect the
\* world is the one the call found; from then on nothing that comes can fail:
\* the destinations and the result lie in memory, and the descriptor passes
\* the checks that the commit repeats.
Walking == call.phase = "gather" => /\ world = call.world0
                                    /\ call.op \in Readers \cup Writers
                                    /\ Accepts(call.op, call.fd)
                                    /\ call.done = 0 /\ call.next = 1

Probed == call.phase \in {"gather", "scatter"} /\ call.op \in Readers =>
             \A i \in 1..Len(call.vecs) : InMem(call.vecs[i].ptr, call.vecs[i].len)

Filling == call.phase = "scatter" => /\ call.op \in Readers
                                     /\ Accepts(call.op, call.fd)
                                     /\ InMem(call.nptr, 1)
                                     /\ call.done <= Len(call.data)
                                     /\ Len(call.data) <= call.total
                                     /\ call.next # 0

Answering == call.phase = "result" => InMem(call.nptr, Len(call.result))

Committing == call.phase \in {"result", "commit"} =>
                 /\ call.op # "none"
                 /\ call.op \in Writers => WriteErrno = "SUCCESS"
                 /\ call.op \in Readers => Accepts(call.op, call.fd)
                 /\ call.op \in {"fd_seek", "fd_tell"} => HasRights(call.fd, {})

\* The inductive invariant.
IInv == TypeOK /\ SizeBounded /\ Walking /\ Probed /\ Filling /\ Answering /\ Committing

-----------------------------------------------------------------------------
\* Facts about the constants, memory and sequences of bytes

\* The sizes are numbers, zero is a byte, and addresses are words.
LEMMA Sizes == /\ W \in Nat /\ MemSize \in Nat /\ MaxFileBytes \in Nat /\ MaxU64 \in Nat
               /\ 0 \in Word /\ Word \subseteq Nat /\ U64 \subseteq Nat /\ 0 \in U64
               /\ MemSize <= W /\ MaxFileBytes <= MaxU64
<1>1. W \in Nat /\ W >= 1 /\ MemSize \in Nat /\ MemSize <= W
  BY WidthAssumption
<1>2. W * W \in Nat /\ W * W >= 1
  BY <1>1
<1>3. MaxU64 \in Nat
  BY <1>2 DEF MaxU64
<1> QED
  BY <1>1, <1>3, WidthAssumption DEF Word, U64

\* An offset is stored as two words.
LEMMA Halves == ASSUME NEW t \in U64
                PROVE  to_le(t) \in Seq(Word) /\ Len(to_le(t)) = 2
<1>1. W \in Nat /\ W >= 1 /\ t \in Nat /\ t <= W * W - 1
  BY Sizes, WidthAssumption DEF U64, MaxU64
<1>2. t % W \in 0..(W - 1)
  BY <1>1
<1>3. t \div W \in Nat /\ t = W * (t \div W) + (t % W)
  BY <1>1
<1>4. t \div W < W
  <2>1. SUFFICES ASSUME t \div W >= W PROVE FALSE
    BY <1>1, <1>3
  <2>2. W * (t \div W) >= W * W
    BY <1>1, <1>3, <2>1
  <2> QED
    BY <1>1, <1>2, <1>3, <2>2
<1> QED
  BY <1>1, <1>2, <1>3, <1>4 DEF to_le, Word

\* Vec::resize gives the length asked for.
LEMMA Resized == ASSUME NEW s \in Seq(Word), NEW n \in Nat
                 PROVE  resize(s, n) \in Seq(Word) /\ Len(resize(s, n)) = n
<1>1. \A k \in 1..n : (IF k <= Len(s) THEN s[k] ELSE 0) \in Word
  BY Sizes
<1> QED
  BY <1>1 DEF resize

\* A write makes the file as long as it has to be, and no longer.
LEMMA Overwritten ==
    ASSUME NEW old \in Seq(Word), NEW start \in Nat, NEW s \in Seq(Word)
    PROVE  /\ Overwrite(old, start, s) \in Seq(Word)
           /\ Len(Overwrite(old, start, s)) = IF Len(old) < start + Len(s) THEN start + Len(s) ELSE Len(old)
<1> DEFINE end == start + Len(s)
           grown == IF Len(old) < end THEN resize(old, end) ELSE old
<1>1. end \in Nat
  OBVIOUS
<1>2. grown \in Seq(Word) /\ Len(grown) = IF Len(old) < end THEN end ELSE Len(old)
  BY <1>1, Resized
<1>3. Overwrite(old, start, s) =
        [k \in 1..Len(grown) |-> IF k \in (start + 1)..end THEN s[k - start] ELSE grown[k]]
  BY DEF Overwrite
<1> HIDE DEF grown
<1>4. \A k \in 1..Len(grown) : (IF k \in (start + 1)..end THEN s[k - start] ELSE grown[k]) \in Word
  BY <1>2
<1>5. Len(grown) \in Nat
  BY <1>2
<1> QED
  BY <1>2, <1>3, <1>4, <1>5

\* peek and pread return bytes, no more than asked for.
LEMMA Segmented ==
    ASSUME NEW s \in Seq(Word), NEW from \in Nat, NEW max \in Nat
    PROVE  Segment(s, from, max) \in Seq(Word) /\ Len(Segment(s, from, max)) <= max
<1>1. CASE from >= Len(s)
  BY <1>1 DEF Segment
<1>2. CASE from < Len(s)
  <2> DEFINE to == from + Least(Len(s) - from, max)
  <2>1. to \in Nat /\ to <= Len(s) /\ to <= from + max /\ from <= to
    BY <1>2 DEF Least
  <2>2. Segment(s, from, max) = SubSeq(s, from + 1, to)
    <3>1. ~(from >= Len(s))
      BY <1>2
    <3> QED
      BY <3>1, Zenon DEF Segment
  <2> HIDE DEF to
  <2>3. SubSeq(s, from + 1, to) \in Seq(Word) /\ Len(SubSeq(s, from + 1, to)) = to - from
    BY <2>1
  <2> QED
    BY <2>1, <2>2, <2>3
<1> QED
  BY <1>1, <1>2

\* What read_memory returns within bounds.
LEMMA Loaded == ASSUME mem \in [Addresses -> Word], NEW p \in Nat, NEW n \in Nat, InMem(p, n)
                PROVE  read_memory(p, n) \in Seq(Word) /\ Len(read_memory(p, n)) = n
<1>1. \A k \in 1..n : p + k - 1 \in Addresses
  BY Sizes DEF InMem, Addresses
<1> QED
  BY <1>1 DEF read_memory

\* write_memory stores words and leaves memory its size.
LEMMA Stored == ASSUME mem \in [Addresses -> Word], NEW p \in Nat, NEW s \in Seq(Word)
                PROVE  write_memory(p, s) \in [Addresses -> Word]
<1>1. \A a \in Addresses : a \in p..(p + Len(s) - 1) => a - p + 1 \in 1..Len(s)
  BY Sizes DEF Addresses
<1>2. \A a \in Addresses : (IF a \in p..(p + Len(s) - 1) THEN s[a - p + 1] ELSE mem[a]) \in Word
  BY <1>1
<1> QED
  BY <1>2 DEF write_memory

-----------------------------------------------------------------------------
\* The inductive invariant

StageInv == Walking /\ Probed /\ Filling /\ Answering /\ Committing

WorldType == /\ mem \in [Addresses -> Word]
             /\ bytes \in [Files -> Seq(Word)]
             /\ fds \in [Fds -> Descriptor \cup {Closed}]
             /\ consumed \in 0..Len(Stdin)
             /\ out \in [{1, 2} -> Seq(Word)]

Errnos == {"SUCCESS", "FAULT", "INVAL", "FBIG", "BADF", "NOTCAPABLE", "HOST_ERROR"}

\* Between two calls there is nothing to say about stages.
LEMMA IdleStages == ASSUME Idle' PROVE StageInv'
  BY DEF Idle, StageInv, Walking, Probed, Filling, Answering, Committing

\* A handler that returns leaves no locals.
LEMMA Returned == ASSUME NEW e \in Errnos, Return(e)
                  PROVE  call' \in CallType' /\ errno' \in Errnos /\ Idle' /\ StageInv'
<1>1. call' = NoCall /\ errno' = e
  BY DEF Return
<1>2. call' \in CallType'
  BY <1>1, Sizes DEF NoCall, CallType
<1>3. Idle'
  BY <1>1 DEF NoCall, Idle
<1> QED
  BY <1>1, <1>2, <1>3, IdleStages

\* A descriptor with rights is open.
LEMMA OpenDescriptor == ASSUME WorldType, NEW fd, NEW R, HasRights(fd, R)
                        PROVE  fd \in Fds /\ fds[fd] \in Descriptor /\ fds[fd].off \in Nat
                               /\ fds[fd].file \in Files /\ bytes[fds[fd].file] \in Seq(Word)
  BY Sizes DEF HasRights, WorldType, Descriptor

\* The initial state.
LEMMA InitIInv == Init => IInv
<1> SUFFICES ASSUME Init PROVE IInv
  OBVIOUS
<1>1. TypeOK
  BY Sizes, ImagesAssumption, InitialAssumption DEF Init, TypeOK, NoCall, CallType
<1>2. SizeBounded
  BY InitialAssumption DEF Init, SizeBounded
<1>3. StageInv
  BY DEF Init, NoCall, StageInv, Walking, Probed, Filling, Answering, Committing
<1> QED
  BY <1>1, <1>2, <1>3 DEF IInv, StageInv

\* Steps that touch no handler.
LEMMA LocalStep ==
    ASSUME IInv, Idle, UNCHANGED <<call, errno>>, WorldType', SizeBounded'
    PROVE  IInv'
<1>1. call' \in CallType' /\ errno' \in Errnos
  BY DEF IInv, TypeOK, CallType, Errnos
<1>2. Idle'
  BY DEF Idle
<1> QED
  BY <1>1, <1>2, IdleStages DEF IInv, TypeOK, StageInv, WorldType, Errnos

\* Steps by which a handler changes nothing but its locals.
LEMMA LocalsStep ==
    ASSUME IInv, UNCHANGED world, errno' \in Errnos, call' \in CallType', StageInv'
    PROVE  IInv'
  BY DEF IInv, TypeOK, SizeBounded, StageInv, world, Errnos

\* The embedder, and the handlers without memory.
LEMMA PlainSteps ==
    ASSUME IInv,
           \/ GuestStores
           \/ \E o \in {1, 2} : TakeOutput(o)
           \/ \E fd \in Fds, f \in Files, rights \in RightSets, app, trunc \in BOOLEAN :
                 Open(fd, f, rights, app, trunc)
           \/ \E fd \in Fds : Close(fd)
           \/ \E fd \in Fds, app \in BOOLEAN : SetFlags(fd, app)
           \/ \E fd \in Fds, size \in Offsets : SetSize(fd, size)
           \/ \E fd \in Fds, off, len \in Offsets : Allocate(fd, off, len)
    PROVE  IInv'
<1> USE DEF Local
<1>0. WorldType /\ SizeBounded
  BY DEF IInv, TypeOK, WorldType
<1>1. CASE GuestStores
  <2>1. WorldType' /\ SizeBounded'
    BY <1>0, <1>1, ImagesAssumption DEF GuestStores, WorldType, SizeBounded
  <2> QED
    BY <1>1, <2>1, LocalStep DEF GuestStores
<1>2. ASSUME NEW o \in {1, 2}, TakeOutput(o)
      PROVE  IInv'
  <2>1. WorldType' /\ SizeBounded'
    BY <1>0, <1>2 DEF TakeOutput, WorldType, SizeBounded
  <2> QED
    BY <1>2, <2>1, LocalStep DEF TakeOutput
<1>3. ASSUME NEW fd \in Fds, NEW f \in Files, NEW rights \in RightSets,
             NEW app \in BOOLEAN, NEW trunc \in BOOLEAN, Open(fd, f, rights, app, trunc)
      PROVE  IInv'
  <2>1. [file |-> f, off |-> 0, app |-> app, rights |-> rights] \in Descriptor
    BY Sizes, RightsAssumption DEF Descriptor
  <2>2. fds' \in [Fds -> Descriptor \cup {Closed}]
    BY <1>0, <1>3, <2>1 DEF Open, WorldType
  <2>3. bytes' \in [Files -> Seq(Word)] /\ SizeBounded'
    BY <1>0, <1>3, Sizes DEF Open, WorldType, SizeBounded
  <2> QED
    BY <1>0, <1>3, <2>2, <2>3, LocalStep DEF Open, WorldType
<1>4. ASSUME NEW fd \in Fds, Close(fd)
      PROVE  IInv'
  <2>1. WorldType' /\ SizeBounded'
    BY <1>0, <1>4 DEF Close, WorldType, SizeBounded
  <2> QED
    BY <1>4, <2>1, LocalStep DEF Close
<1>5. ASSUME NEW fd \in Fds, NEW app \in BOOLEAN, SetFlags(fd, app)
      PROVE  IInv'
  <2>1. fds[fd] \in Descriptor
    BY <1>0, <1>5, OpenDescriptor DEF SetFlags
  <2>2. fds' \in [Fds -> Descriptor \cup {Closed}]
    BY <1>0, <1>5, <2>1 DEF SetFlags, WorldType, Descriptor
  <2>3. WorldType' /\ SizeBounded'
    BY <1>0, <1>5, <2>2 DEF SetFlags, WorldType, SizeBounded
  <2> QED
    BY <1>5, <2>3, LocalStep DEF SetFlags
<1>6. ASSUME NEW fd \in Fds, NEW size \in Offsets, SetSize(fd, size)
      PROVE  IInv'
  <2>1. fds[fd].file \in Files /\ bytes[fds[fd].file] \in Seq(Word) /\ size \in Nat
    BY <1>0, <1>6, OpenDescriptor, Sizes, ArgumentsAssumption DEF SetSize
  <2>2. LET s == resize(bytes[fds[fd].file], size) IN s \in Seq(Word) /\ Len(s) <= MaxFileBytes
    BY <1>6, <2>1, Resized DEF SetSize
  <2>3. WorldType' /\ SizeBounded'
    BY <1>0, <1>6, <2>1, <2>2 DEF SetSize, WorldType, SizeBounded
  <2> QED
    BY <1>6, <2>3, LocalStep DEF SetSize
<1>7. ASSUME NEW fd \in Fds, NEW off \in Offsets, NEW len \in Offsets, Allocate(fd, off, len)
      PROVE  IInv'
  <2>1. fds[fd].file \in Files /\ bytes[fds[fd].file] \in Seq(Word) /\ off + len \in Nat
    BY <1>0, <1>7, OpenDescriptor, Sizes, ArgumentsAssumption DEF Allocate
  <2> DEFINE s == resize(bytes[fds[fd].file], off + len)
  <2>2. s \in Seq(Word) /\ Len(s) <= MaxFileBytes
    BY <1>7, <2>1, Resized DEF Allocate, FitsAt
  <2> HIDE DEF s
  <2>3. bytes' = [bytes EXCEPT ![fds[fd].file] = s] \/ bytes' = bytes
    BY <1>0, <1>7, <2>1 DEF Allocate, s, WorldType
  <2>4. WorldType' /\ SizeBounded'
    BY <1>0, <1>7, <2>1, <2>2, <2>3 DEF Allocate, WorldType, SizeBounded
  <2> QED
    BY <1>7, <2>4, LocalStep DEF Allocate
<1> QED
  BY <1>1, <1>2, <1>3, <1>4, <1>5, <1>6, <1>7

\* The locals of a call that starts are well typed.
LEMMA NewCall ==
    ASSUME NEW phase \in {"gather", "result"}, NEW op \in {"fd_seek", "fd_tell"} \cup Readers \cup Writers,
           NEW fd \in {0, 1, 2} \cup Fds, NEW iovs \in Word, NEW n \in Word, NEW nptr \in Word,
           NEW off \in U64, NEW result \in Seq(Word), NEW found,
           call' = [phase |-> phase, op |-> op, fd |-> fd, iovs |-> iovs, n |-> n, nptr |-> nptr,
                    off |-> off, vecs |-> <<>>, total |-> 0, data |-> <<>>, next |-> 1, done |-> 0,
                    result |-> result, world0 |-> found]
    PROVE  call' \in CallType'
<1>1. phase \in {"idle", "gather", "scatter", "result", "commit"}
  OBVIOUS
<1>2. op \in {"none", "fd_seek", "fd_tell"} \cup Readers \cup Writers
  OBVIOUS
<1>3. <<>> \in Seq(Vector) /\ <<>> \in Seq(Word) /\ 0 \in Word /\ 0 \in Nat /\ 1 \in Nat
  BY Sizes
<1>4. call'.world0 \in {found} /\ call'.world0 = found
  OBVIOUS
<1> QED
  BY <1>1, <1>2, <1>3, <1>4 DEF CallType

\* Calls that start.
LEMMA StartStep ==
    ASSUME IInv, NEW op \in Readers \cup Writers, NEW fd \in Streams \cup Fds, NEW iovs \in Ptrs,
           NEW n \in Counts, NEW nptr \in ResultPtrs, NEW off \in Offsets, Start(op, fd, iovs, n, nptr, off)
    PROVE  IInv'
<1>1. /\ call' = [NoCall EXCEPT !.phase = "gather", !.op = op, !.fd = fd, !.iovs = iovs, !.n = n,
                              !.nptr = nptr, !.off = off, !.world0 = world]
      /\ UNCHANGED world /\ errno' = "SUCCESS" /\ Accepts(op, fd)
  BY DEF Start
<1>2. call' \in CallType'
  <2>1. call' = [phase |-> "gather", op |-> op, fd |-> fd, iovs |-> iovs, n |-> n, nptr |-> nptr,
                 off |-> off, vecs |-> <<>>, total |-> 0, data |-> <<>>, next |-> 1, done |-> 0,
                 result |-> <<>>, world0 |-> world]
    BY <1>1 DEF NoCall
  <2>2. fd \in {0, 1, 2} \cup Fds /\ iovs \in Word /\ n \in Word /\ nptr \in Word /\ off \in U64
    BY FdsAssumption, ArgumentsAssumption
  <2>3. op \in {"fd_seek", "fd_tell"} \cup Readers \cup Writers /\ <<>> \in Seq(Word)
    OBVIOUS
  <2> QED
    BY <2>1, <2>2, <2>3, NewCall
<1>3. /\ call'.phase = "gather" /\ call'.op = op /\ call'.fd = fd /\ call'.vecs = <<>>
      /\ call'.world0 = world /\ call'.done = 0 /\ call'.next = 1
  BY <1>1 DEF NoCall
<1>4. Accepts(op, fd)'
  BY <1>1 DEF Accepts, HasRights, world
<1>5. StageInv'
  BY <1>1, <1>3, <1>4 DEF StageInv, Walking, Probed, Filling, Answering, Committing
<1> QED
  BY <1>1, <1>2, <1>5, LocalsStep DEF Errnos

\* fd_seek starts with a target that fits in u64.
LEMMA SeekStep ==
    ASSUME IInv, NEW fd \in Fds, NEW delta \in Deltas, NEW whence \in {"SET", "CUR", "END"},
           NEW nptr \in ResultPtrs, Seek(fd, delta, whence, nptr)
    PROVE  IInv'
<1> DEFINE target == SeekBase(fd, whence) + delta
<1>0. WorldType
  BY DEF IInv, TypeOK, WorldType
<1>1. /\ call' = [NoCall EXCEPT !.phase = "result", !.op = "fd_seek", !.fd = fd, !.nptr = nptr,
                              !.off = target, !.result = to_le(target), !.world0 = world]
      /\ UNCHANGED world /\ errno' = "SUCCESS" /\ InMem(nptr, 2) /\ HasRights(fd, {})
      /\ SeekErrno(fd, target, whence = "CUR" /\ delta = 0) = "SUCCESS"
  BY DEF Seek
<1>2. SeekBase(fd, whence) \in Int /\ delta \in Int
  <2>1. fds[fd].off \in Nat /\ bytes[fds[fd].file] \in Seq(Word)
    BY <1>0, <1>1, OpenDescriptor
  <2> QED
    BY <2>1, ArgumentsAssumption DEF SeekBase
<1>3. target \in Int /\ ~(target < 0) /\ ~(target > MaxU64)
  <2>1. target \in Int
    BY <1>2
  <2> HIDE DEF target
  <2>2. ~(target < 0) /\ ~(target > MaxU64)
    BY <1>1 DEF SeekErrno
  <2> QED
    BY <2>1, <2>2
<1> HIDE DEF target
<1>4. target \in U64
  BY <1>3, Sizes DEF U64
<1>5. to_le(target) \in Seq(Word) /\ Len(to_le(target)) = 2
  BY <1>4, Halves
<1>6. call' \in CallType'
  <2>1. call' = [phase |-> "result", op |-> "fd_seek", fd |-> fd, iovs |-> 0, n |-> 0, nptr |-> nptr,
                 off |-> target, vecs |-> <<>>, total |-> 0, data |-> <<>>, next |-> 1, done |-> 0,
                 result |-> to_le(target), world0 |-> world]
    BY <1>1 DEF NoCall
  <2> QED
    BY <1>4, <1>5, <2>1, NewCall, Sizes, ArgumentsAssumption
<1>7. /\ call'.phase = "result" /\ call'.op = "fd_seek" /\ call'.fd = fd /\ call'.nptr = nptr
      /\ call'.result = to_le(target)
  BY <1>1 DEF NoCall
<1>8. HasRights(fd, {})'
  BY <1>1 DEF HasRights, world
<1>9. StageInv'
  BY <1>1, <1>5, <1>7, <1>8 DEF StageInv, Walking, Probed, Filling, Answering, Committing, InMem, Readers, Writers
<1> QED
  BY <1>1, <1>6, <1>9, LocalsStep DEF Errnos

\* fd_tell starts.
LEMMA TellStep ==
    ASSUME IInv, NEW fd \in Fds, NEW nptr \in ResultPtrs, Tell(fd, nptr)
    PROVE  IInv'
<1> DEFINE offset == fds[fd].off
<1>0. WorldType
  BY DEF IInv, TypeOK, WorldType
<1>1. /\ call' = [NoCall EXCEPT !.phase = "result", !.op = "fd_tell", !.fd = fd, !.nptr = nptr,
                              !.result = to_le(offset), !.world0 = world]
      /\ UNCHANGED world /\ errno' = "SUCCESS" /\ InMem(nptr, 2) /\ HasRights(fd, {})
  BY DEF Tell, HasRights
<1>2. offset \in U64
  BY <1>0, <1>1, OpenDescriptor DEF Descriptor
<1> HIDE DEF offset
<1>3. to_le(offset) \in Seq(Word) /\ Len(to_le(offset)) = 2
  BY <1>2, Halves
<1>4. call' \in CallType'
  <2>1. call' = [phase |-> "result", op |-> "fd_tell", fd |-> fd, iovs |-> 0, n |-> 0, nptr |-> nptr,
                 off |-> 0, vecs |-> <<>>, total |-> 0, data |-> <<>>, next |-> 1, done |-> 0,
                 result |-> to_le(offset), world0 |-> world]
    BY <1>1 DEF NoCall
  <2> QED
    BY <1>3, <2>1, NewCall, Sizes, ArgumentsAssumption
<1>5. /\ call'.phase = "result" /\ call'.op = "fd_tell" /\ call'.fd = fd /\ call'.nptr = nptr
      /\ call'.result = to_le(offset)
  BY <1>1 DEF NoCall
<1>6. HasRights(fd, {})'
  BY <1>1 DEF HasRights, world
<1>7. StageInv'
  BY <1>1, <1>3, <1>5, <1>6 DEF StageInv, Walking, Probed, Filling, Answering, Committing, InMem, Readers, Writers
<1> QED
  BY <1>1, <1>4, <1>7, LocalsStep DEF Errnos

\* The locals of a handler, one by one.
LEMMA Locals == ASSUME call \in CallType
                PROVE  /\ call.op \in {"none", "fd_seek", "fd_tell"} \cup Readers \cup Writers
                       /\ call.fd \in {0, 1, 2} \cup Fds /\ call.iovs \in Nat /\ call.n \in Nat
                       /\ call.nptr \in Nat /\ call.off \in U64 /\ call.off \in Nat
                       /\ call.vecs \in Seq(Vector) /\ call.total \in Word /\ call.total \in Nat
                       /\ call.data \in Seq(Word) /\ call.next \in Nat /\ call.done \in Nat
                       /\ call.result \in Seq(Word)
  BY Sizes DEF CallType

\* A turn of the loop over the vectors.
LEMMA GatherStep == ASSUME IInv, Gather PROVE IInv'
<1>0. /\ WorldType /\ call \in CallType /\ Walking /\ Probed /\ UNCHANGED world
      /\ call.phase = "gather"
  BY DEF IInv, TypeOK, WorldType, Gather
<1>1. CASE GatherErrno # "SUCCESS"
  <2>1. GatherErrno \in Errnos
    BY DEF GatherErrno, Errnos
  <2>2. Return(GatherErrno)
    BY <1>1 DEF Gather
  <2> QED
    BY <1>0, <2>1, <2>2, Returned, LocalsStep
<1>2. CASE GatherErrno = "SUCCESS"
  <2> DEFINE v == VectorAt(NextVector)
             more == IF call.op \in Writers THEN call.data \o read_memory(v.ptr, v.len) ELSE call.data
  <2>1. /\ call' = [call EXCEPT !.vecs = Append(call.vecs, v), !.total = call.total + v.len, !.data = more]
        /\ UNCHANGED errno
    BY <1>2 DEF Gather
  <2>2. NextVector \in Nat /\ InMem(NextVector, 2)
    BY <1>0, <1>2, Locals, SMTT(20) DEF NextVector, GatherErrno
  <2>3. NextVector \in Addresses /\ NextVector + 1 \in Addresses
    BY <2>2, Sizes DEF InMem, Addresses
  <2>4. v \in Vector /\ v.ptr \in Nat /\ v.len \in Nat /\ v.ptr = mem[NextVector] /\ v.len = mem[NextVector + 1]
    BY <1>0, <2>3, Sizes DEF VectorAt, Vector, WorldType
  <2>5. InMem(v.ptr, v.len) /\ ~(call.total + v.len > Limit(call.op))
    BY <1>2, <2>2, <2>4 DEF GatherErrno
  <2>6. call.total + v.len \in Word
    <3>1. Limit(call.op) \in Int /\ Limit(call.op) <= W - 1
      BY Sizes, ArgumentsAssumption DEF Limit, Least
    <3> QED
      BY <1>0, <2>4, <2>5, <3>1, Locals, Sizes DEF Word
  <2>7. more \in Seq(Word)
    <3>1. read_memory(v.ptr, v.len) \in Seq(Word)
      BY <1>0, <2>4, <2>5, Loaded DEF WorldType
    <3> QED
      BY <1>0, <3>1, Locals
  <2>8. Append(call.vecs, v) \in Seq(Vector) /\ Len(Append(call.vecs, v)) = Len(call.vecs) + 1
    BY <1>0, <2>4, Locals
  <2> HIDE DEF v, more
  <2>9. call' \in CallType'
    BY <1>0, <2>1, <2>6, <2>7, <2>8 DEF CallType
  <2>10. /\ call'.phase = "gather" /\ call'.op = call.op /\ call'.fd = call.fd /\ call'.world0 = call.world0
         /\ call'.vecs = Append(call.vecs, v) /\ call'.done = call.done /\ call'.next = call.next
    BY <1>0, <2>1 DEF CallType
  <2>11. Walking'
    <3>1. Accepts(call.op, call.fd)'
      BY <1>0, <2>10 DEF Walking, Accepts, HasRights, world
    <3> QED
      BY <1>0, <2>10, <3>1 DEF Walking, world
  <2>12. Probed'
    <3>1. SUFFICES ASSUME call.op \in Readers, NEW i \in 1..Len(Append(call.vecs, v))
                   PROVE  InMem(Append(call.vecs, v)[i].ptr, Append(call.vecs, v)[i].len)
      BY <2>10 DEF Probed, InMem
    <3>2. CASE i = Len(call.vecs) + 1
      BY <1>0, <2>4, <2>5, <3>2, Locals
    <3>3. CASE i \in 1..Len(call.vecs)
      <4>1. Append(call.vecs, v)[i] = call.vecs[i]
        BY <1>0, <2>4, <3>3, Locals
      <4> QED
        BY <1>0, <3>1, <3>3, <4>1 DEF Probed
    <3> QED
      BY <1>0, <2>8, <3>2, <3>3, Locals
  <2>13. StageInv'
    BY <2>10, <2>11, <2>12 DEF StageInv, Filling, Answering, Committing
  <2> QED
    BY <1>0, <2>1, <2>9, <2>13, LocalsStep DEF IInv, TypeOK, Errnos
<1> QED
  BY <1>1, <1>2

\* The checks before the first effect of a write.
LEMMA CheckWriteStep == ASSUME IInv, CheckWrite PROVE IInv'
<1>0. WorldType /\ call \in CallType /\ UNCHANGED world /\ call.op \in Writers
  BY DEF IInv, TypeOK, WorldType, CheckWrite
<1>1. CASE WriteErrno # "SUCCESS"
  <2>1. WriteErrno \in Errnos
    BY DEF WriteErrno, prepare_write, prepare_pwrite, Errnos
  <2>2. Return(WriteErrno)
    BY <1>1 DEF CheckWrite
  <2> QED
    BY <1>0, <2>1, <2>2, Returned, LocalsStep
<1>2. CASE WriteErrno = "SUCCESS" /\ ~InMem(call.nptr, 1)
  <2>1. Return("FAULT")
    BY <1>2 DEF CheckWrite
  <2> QED
    BY <1>0, <2>1, Returned, LocalsStep DEF Errnos
<1>3. CASE WriteErrno = "SUCCESS" /\ InMem(call.nptr, 1)
  <2>1. call' = [call EXCEPT !.phase = "result", !.result = <<call.total>>] /\ UNCHANGED errno
    BY <1>3 DEF CheckWrite
  <2>2. <<call.total>> \in Seq(Word) /\ Len(<<call.total>>) = 1
    BY <1>0, Locals
  <2>3. call' \in CallType'
    BY <1>0, <2>1, <2>2 DEF CallType
  <2>4. /\ call'.phase = "result" /\ call'.op = call.op /\ call'.fd = call.fd /\ call'.nptr = call.nptr
        /\ call'.off = call.off /\ call'.data = call.data /\ call'.result = <<call.total>>
    BY <1>0, <2>1 DEF CallType
  <2>5. WriteErrno' = WriteErrno
    BY <1>0, <2>4 DEF WriteErrno, prepare_write, prepare_pwrite, HasRights, FitsAt, WriteStart, world
  <2>6. StageInv'
    BY <1>0, <1>3, <2>2, <2>4, <2>5
    DEF StageInv, Walking, Probed, Filling, Answering, Committing, InMem, Readers, Writers
  <2> QED
    BY <1>0, <2>1, <2>3, <2>6, LocalsStep DEF IInv, TypeOK, Errnos
<1> QED
  BY <1>1, <1>2, <1>3

\* What a read is about.
LEMMA SourceType ==
    ASSUME WorldType, call \in CallType, call.op \in Readers, Accepts(call.op, call.fd)
    PROVE  Source \in Seq(Word) /\ From \in Nat /\ (call.fd # 0 => HasRights(call.fd, {}))
<1>1. CASE call.fd = 0
  BY <1>1, Locals, InitialAssumption DEF Source, From, Cursor, WorldType
<1>2. CASE call.fd # 0
  <2>1. HasRights(call.fd, {})
    BY <1>2 DEF Accepts, Readers, HasRights
  <2>2. bytes[fds[call.fd].file] \in Seq(Word) /\ fds[call.fd].off \in Nat
    BY <2>1, OpenDescriptor
  <2> QED
    BY <1>2, <2>1, <2>2, Locals DEF Source, From, Cursor
<1> QED
  BY <1>1, <1>2

\* The checks before the first effect of a read.
LEMMA CheckReadStep == ASSUME IInv, CheckRead PROVE IInv'
<1>0. /\ WorldType /\ call \in CallType /\ UNCHANGED world /\ call.op \in Readers /\ call.phase = "gather"
      /\ Accepts(call.op, call.fd) /\ Probed
  BY DEF IInv, TypeOK, WorldType, CheckRead, Walking
<1>1. CASE ~InMem(call.nptr, 1)
  <2>1. Return("FAULT")
    BY <1>1 DEF CheckRead
  <2> QED
    BY <1>0, <2>1, Returned, LocalsStep DEF Errnos
<1>2. CASE InMem(call.nptr, 1)
  <2> DEFINE got == Segment(Source, From, call.total)
  <2>1. call' = [call EXCEPT !.phase = "scatter", !.data = got] /\ UNCHANGED errno
    BY <1>2 DEF CheckRead
  <2>2. got \in Seq(Word) /\ Len(got) <= call.total
    BY <1>0, SourceType, Segmented, Locals
  <2> HIDE DEF got
  <2>3. call' \in CallType'
    BY <1>0, <2>1, <2>2 DEF CallType
  <2>4. /\ call'.phase = "scatter" /\ call'.op = call.op /\ call'.fd = call.fd /\ call'.nptr = call.nptr
        /\ call'.vecs = call.vecs /\ call'.data = got /\ call'.total = call.total
        /\ call'.done = call.done /\ call'.next = call.next
    BY <1>0, <2>1 DEF CallType
  <2>5. Accepts(call.op, call.fd)'
    BY <1>0, <2>4 DEF Accepts, HasRights, world
  <2>6. call.done = 0 /\ call.next = 1
    BY <1>0 DEF IInv, Walking
  <2>7. StageInv'
    BY <1>0, <1>2, <2>2, <2>4, <2>5, <2>6
    DEF StageInv, Walking, Probed, Filling, Answering, Committing, InMem, Readers, Writers
  <2> QED
    BY <1>0, <2>1, <2>3, <2>7, LocalsStep DEF IInv, TypeOK, Errnos
<1> QED
  BY <1>1, <1>2

\* A slice of bytes is one.
LEMMA Parts == ASSUME NEW s \in Seq(Word), NEW i \in Nat \ {0}, NEW j \in 0..Len(s)
               PROVE  SubSeq(s, i, j) \in Seq(Word)
  BY SMTT(20)

\* A destination lies in memory, so filling it cannot fail.
LEMMA ChunkFits ==
    ASSUME IInv, call.phase = "scatter", call.next <= Len(call.vecs), call.done # Len(call.data)
    PROVE  LET v == call.vecs[call.next]
               chunk == Least(v.len, Len(call.data) - call.done)
           IN /\ v.ptr \in Nat /\ chunk \in Nat /\ InMem(v.ptr, chunk)
              /\ call.done + chunk <= Len(call.data)
              /\ SubSeq(call.data, call.done + 1, call.done + chunk) \in Seq(Word)
<1> DEFINE v == call.vecs[call.next]
           chunk == Least(v.len, Len(call.data) - call.done)
<1>0. call \in CallType /\ Filling /\ Probed
  BY DEF IInv, TypeOK
<1>1. call.next \in 1..Len(call.vecs) /\ call.done <= Len(call.data) /\ call.op \in Readers
  BY <1>0, Locals DEF Filling
<1>2. v.ptr \in Nat /\ v.len \in Nat /\ InMem(v.ptr, v.len)
  <2>1. v \in Vector
    BY <1>0, <1>1, Locals
  <2>2. InMem(v.ptr, v.len)
    BY <1>0, <1>1 DEF Probed
  <2> QED
    BY <2>1, <2>2, Sizes DEF Vector
<1> HIDE DEF v
<1>3. chunk \in Nat /\ chunk <= v.len /\ call.done + chunk <= Len(call.data)
  <2>1. call.done \in Nat /\ Len(call.data) \in Nat
    BY <1>0, Locals
  <2>2. Len(call.data) - call.done \in Nat
    BY <1>1, <2>1
  <2>3. chunk \in {v.len, Len(call.data) - call.done} /\ chunk <= v.len /\ chunk <= Len(call.data) - call.done
    BY <1>2, <2>2 DEF Least
  <2> QED
    BY <1>2, <2>1, <2>2, <2>3
<1>4. InMem(v.ptr, chunk)
  BY <1>2, <1>3, Sizes DEF InMem
<1> HIDE DEF chunk
<1>5. SubSeq(call.data, call.done + 1, call.done + chunk) \in Seq(Word)
  <2>1. call.data \in Seq(Word) /\ call.done + 1 \in Nat \ {0} /\ call.done + chunk \in 0..Len(call.data)
    BY <1>0, <1>3, Locals, SMTT(20)
  <2> QED
    BY <2>1, Parts
<1> QED
  BY <1>2, <1>3, <1>4, <1>5 DEF v, chunk

\* A turn of the loop that fills the destinations.
LEMMA ScatterStep == ASSUME IInv, Scatter PROVE IInv' /\ ~Idle'
<1>0. /\ WorldType /\ SizeBounded /\ call \in CallType /\ Filling /\ Probed /\ call.phase = "scatter"
      /\ errno \in Errnos /\ UNCHANGED <<bytes, fds, consumed, out>>
  BY DEF IInv, TypeOK, WorldType, Scatter, Errnos
<1>1. CASE call.done = Len(call.data) \/ call.next > Len(call.vecs)
  <2>1. call' = [call EXCEPT !.phase = "result", !.result = <<call.done>>] /\ UNCHANGED <<mem, errno>>
    BY <1>1 DEF Scatter
  <2>2. call.done \in Word
    BY <1>0, Locals, Sizes DEF Filling, Word
  <2>3. <<call.done>> \in Seq(Word) /\ Len(<<call.done>>) = 1
    BY <2>2
  <2>4. call' \in CallType'
    BY <1>0, <2>1, <2>3 DEF CallType
  <2>5. /\ call'.phase = "result" /\ call'.op = call.op /\ call'.fd = call.fd /\ call'.nptr = call.nptr
        /\ call'.result = <<call.done>>
    BY <1>0, <2>1 DEF CallType
  <2>6. Accepts(call.op, call.fd)'
    BY <1>0, <2>5 DEF Filling, Accepts, HasRights
  <2>7. StageInv'
    BY <1>0, <2>3, <2>5, <2>6
    DEF StageInv, Walking, Probed, Filling, Answering, Committing, InMem, Readers, Writers
  <2>8. IInv'
    BY <1>0, <2>1, <2>4, <2>7, LocalsStep DEF world
  <2> QED
    BY <2>5, <2>8 DEF Idle
<1>2. CASE ~(call.done = Len(call.data) \/ call.next > Len(call.vecs))
  <2> DEFINE v == call.vecs[call.next]
             chunk == Least(v.len, Len(call.data) - call.done)
             part == SubSeq(call.data, call.done + 1, call.done + chunk)
  <2>1. call.next <= Len(call.vecs) /\ call.done # Len(call.data)
    BY <1>0, <1>2, Locals
  <2>2. v.ptr \in Nat /\ chunk \in Nat /\ InMem(v.ptr, chunk) /\ part \in Seq(Word) /\ call.done + chunk <= Len(call.data)
    BY <1>0, <2>1, ChunkFits
  <2>3. /\ mem' = write_memory(v.ptr, part)
        /\ call' = [call EXCEPT !.done = call.done + chunk, !.next = call.next + 1]
        /\ UNCHANGED errno
    BY <1>2, <2>2 DEF Scatter
  <2> HIDE DEF v, chunk, part
  <2>4. mem' \in [Addresses -> Word]
    BY <1>0, <2>2, <2>3, Stored DEF WorldType
  <2>5. call' \in CallType'
    <3>1. call.done \in Nat /\ call.next \in Nat /\ chunk \in Nat
      BY <1>0, <2>2, Locals
    <3>2. call.done + chunk \in Nat /\ call.next + 1 \in Nat
      BY <3>1
    <3> QED
      BY <1>0, <2>3, <3>2 DEF CallType
  <2>6. /\ call'.phase = "scatter" /\ call'.op = call.op /\ call'.fd = call.fd /\ call'.nptr = call.nptr
        /\ call'.vecs = call.vecs /\ call'.data = call.data /\ call'.total = call.total
        /\ call'.done = call.done + chunk /\ call'.next = call.next + 1
    BY <1>0, <2>3 DEF CallType
  <2>7. Accepts(call.op, call.fd)'
    BY <1>0, <2>6 DEF Filling, Accepts, HasRights
  <2>8. StageInv'
    <3>1. Walking' /\ Answering' /\ Committing'
      BY <2>6 DEF Walking, Answering, Committing
    <3>2. Probed'
      BY <1>0, <2>6 DEF Probed, InMem
    <3>3. /\ call.done + chunk <= Len(call.data) /\ call.next + 1 # 0
          /\ call.op \in Readers /\ InMem(call.nptr, 1) /\ Len(call.data) <= call.total
      BY <1>0, <2>2, Locals DEF Filling
    <3>4. Filling'
      BY <2>6, <2>7, <3>3 DEF Filling, InMem
    <3> QED
      BY <3>1, <3>2, <3>4 DEF StageInv
  <2>9. TypeOK' /\ SizeBounded'
    BY <1>0, <2>3, <2>4, <2>5 DEF TypeOK, WorldType, SizeBounded, Errnos
  <2> QED
    BY <2>6, <2>8, <2>9 DEF IInv, StageInv, Idle
<1> QED
  BY <1>1, <1>2

\* The result is stored.
LEMMA StoreResultStep == ASSUME IInv, StoreResult PROVE IInv' /\ (Idle' => errno' = "SUCCESS")
<1>0. /\ WorldType /\ SizeBounded /\ call \in CallType /\ call.phase = "result" /\ Committing
      /\ InMem(call.nptr, Len(call.result)) /\ errno \in Errnos
      /\ UNCHANGED <<bytes, fds, consumed, out>>
  BY DEF IInv, TypeOK, WorldType, StoreResult, Answering, Errnos
<1>1. mem' = write_memory(call.nptr, call.result)
  BY <1>0 DEF StoreResult
<1>2. WorldType' /\ SizeBounded'
  <2>1. mem' \in [Addresses -> Word]
    BY <1>0, <1>1, Stored, Locals DEF WorldType
  <2> QED
    BY <1>0, <2>1 DEF WorldType, SizeBounded
<1>3. CASE call.op \in {"fd_pread", "fd_tell"}
  <2>1. Return("SUCCESS")
    BY <1>0, <1>3 DEF StoreResult
  <2> QED
    BY <1>2, <2>1, Returned DEF IInv, StageInv, TypeOK, WorldType, Errnos, Return
<1>4. CASE call.op \notin {"fd_pread", "fd_tell"}
  <2>1. call' = [call EXCEPT !.phase = "commit"] /\ UNCHANGED errno
    BY <1>0, <1>4 DEF StoreResult
  <2>2. call' \in CallType'
    BY <1>0, <2>1 DEF CallType
  <2>3. /\ call'.phase = "commit" /\ call'.op = call.op /\ call'.fd = call.fd
        /\ call'.off = call.off /\ call'.data = call.data
    BY <1>0, <2>1 DEF CallType
  <2>4. WriteErrno' = WriteErrno
    BY <1>0, <2>3 DEF WriteErrno, prepare_write, prepare_pwrite, HasRights, FitsAt, WriteStart
  <2>5. Accepts(call.op, call.fd)' = Accepts(call.op, call.fd) /\ HasRights(call.fd, {})' = HasRights(call.fd, {})
    BY <1>0, <2>3 DEF Accepts, HasRights
  <2>6. StageInv'
    BY <1>0, <2>3, <2>4, <2>5
    DEF StageInv, Walking, Probed, Filling, Answering, Committing
  <2> QED
    BY <1>0, <1>2, <2>1, <2>2, <2>3, <2>6 DEF IInv, StageInv, TypeOK, WorldType, Errnos, Idle
<1> QED
  BY <1>3, <1>4

\* Steps that end a call with success and leave the world well typed.
LEMMA SuccessStep == ASSUME WorldType', SizeBounded', Return("SUCCESS")
                     PROVE  IInv' /\ errno' = "SUCCESS"
  BY Returned DEF IInv, StageInv, TypeOK, WorldType, Errnos, Return

\* The checks made before the first effect hold when the bytes are written.
LEMMA CommitWriteStep == ASSUME IInv, CommitWrite PROVE IInv' /\ errno' = "SUCCESS"
<1> DEFINE fd == call.fd
           start == IF call.op = "fd_write" THEN WriteStart(fd) ELSE call.off
<1>0. /\ WorldType /\ SizeBounded /\ call \in CallType /\ WriteErrno = "SUCCESS" /\ call.op \in Writers
      /\ UNCHANGED <<mem, consumed>> /\ Payload \in Seq(Word) /\ Payload = call.data
  BY Locals DEF IInv, TypeOK, WorldType, CommitWrite, Committing, Payload
<1>1. Return("SUCCESS")
  BY <1>0 DEF CommitWrite
<1>2. CASE fd \in {1, 2}
  <2>1. out' = [out EXCEPT ![fd] = out[fd] \o Payload] /\ UNCHANGED <<bytes, fds>>
    BY <1>0, <1>2 DEF CommitWrite, WorldType
  <2>2. out[fd] \o Payload \in Seq(Word)
    BY <1>0, <1>2 DEF WorldType
  <2>3. WorldType' /\ SizeBounded'
    BY <1>0, <2>1, <2>2 DEF WorldType, SizeBounded
  <2> QED
    BY <1>1, <2>3, SuccessStep
<1>3. CASE fd \notin {1, 2} /\ Payload = <<>>
  <2>1. UNCHANGED <<bytes, fds, out>>
    BY <1>0, <1>3 DEF CommitWrite
  <2>2. WorldType' /\ SizeBounded'
    BY <1>0, <2>1 DEF WorldType, SizeBounded
  <2> QED
    BY <1>1, <2>2, SuccessStep
<1>4. CASE fd \notin {1, 2} /\ Payload # <<>>
  <2> DEFINE old == bytes[fds[fd].file]
             new == Overwrite(old, start, Payload)
             end == start + Len(Payload)
  <2>1. HasRights(fd, {}) /\ FitsAt(start, Len(Payload))
    BY <1>0, <1>4 DEF WriteErrno, prepare_write, prepare_pwrite, Writers
  <2>2. fd \in Fds /\ fds[fd] \in Descriptor /\ fds[fd].off \in Nat /\ fds[fd].file \in Files /\ old \in Seq(Word)
    BY <1>0, <2>1, OpenDescriptor
  <2>3. start \in Nat
    BY <1>0, <2>2, Locals DEF WriteStart
  <2>4. /\ bytes' = [bytes EXCEPT ![fds[fd].file] = new] /\ UNCHANGED out
        /\ fds' = [fds EXCEPT ![fd].off = end] \/ fds' = fds
    BY <1>0, <1>4, <2>2 DEF CommitWrite, WorldType
  <2> HIDE DEF start
  <2>5. end \in Nat /\ end <= MaxFileBytes /\ end \in U64
    BY <1>0, <2>1, <2>3, Sizes DEF FitsAt, U64
  <2>6. new \in Seq(Word) /\ Len(new) <= MaxFileBytes
    <3>1. Len(old) <= MaxFileBytes
      BY <1>0, <2>2 DEF SizeBounded
    <3> QED
      BY <1>0, <2>2, <2>3, <2>5, <3>1, Overwritten
  <2> HIDE DEF new, end, old
  <2>7. fds' \in [Fds -> Descriptor \cup {Closed}]
    <3>1. fds \in [Fds -> Descriptor \cup {Closed}]
      BY <1>0 DEF WorldType
    <3>2. [fds[fd] EXCEPT !.off = end] \in Descriptor
      BY <2>2, <2>5 DEF Descriptor
    <3> QED
      BY <2>2, <2>4, <3>1, <3>2
  <2>8. bytes' \in [Files -> Seq(Word)] /\ SizeBounded'
    BY <1>0, <2>2, <2>4, <2>6 DEF WorldType, SizeBounded
  <2>9. WorldType'
    BY <1>0, <2>4, <2>7, <2>8 DEF WorldType
  <2> QED
    BY <1>1, <2>8, <2>9, SuccessStep
<1> QED
  BY <1>2, <1>3, <1>4

\* The descriptor of a read is still open when the cursor moves.
LEMMA CommitReadStep == ASSUME IInv, CommitRead PROVE IInv' /\ errno' = "SUCCESS"
<1>0. /\ WorldType /\ SizeBounded /\ call \in CallType /\ UNCHANGED <<mem, bytes, out>>
      /\ call.fd = 0 \/ HasRights(call.fd, {"READ"})
  BY DEF IInv, TypeOK, WorldType, CommitRead, Committing, Accepts, Readers
<1>1. CASE call.fd = 0
  <2>1. consumed' = Least(consumed + call.done, Len(Stdin)) /\ Return("SUCCESS") /\ UNCHANGED fds
    BY <1>1 DEF CommitRead
  <2>2. consumed' \in 0..Len(Stdin)
    <3>1. consumed \in Nat /\ call.done \in Nat /\ Len(Stdin) \in Nat
      BY <1>0, Locals, InitialAssumption DEF WorldType
    <3> QED
      BY <2>1, <3>1 DEF Least
  <2>3. WorldType' /\ SizeBounded'
    BY <1>0, <2>1, <2>2 DEF WorldType, SizeBounded
  <2> QED
    BY <2>1, <2>3, SuccessStep
<1>2. CASE call.fd # 0
  <2> DEFINE moved == Least(fds[call.fd].off + call.done, MaxU64)
  <2>1. /\ call.fd \in Fds /\ fds[call.fd] \in Descriptor /\ fds[call.fd].off \in Nat
    BY <1>0, <1>2, OpenDescriptor
  <2>2. fds' = [fds EXCEPT ![call.fd].off = moved] /\ Return("SUCCESS") /\ UNCHANGED consumed
    BY <1>0, <1>2, <2>1 DEF CommitRead, WorldType
  <2>3. moved \in U64
    BY <1>0, <2>1, Locals, Sizes DEF Least, U64
  <2> HIDE DEF moved
  <2>4. fds' \in [Fds -> Descriptor \cup {Closed}]
    BY <1>0, <2>1, <2>2, <2>3 DEF WorldType, Descriptor
  <2>5. WorldType' /\ SizeBounded'
    BY <1>0, <2>2, <2>4 DEF WorldType, SizeBounded
  <2> QED
    BY <2>2, <2>5, SuccessStep
<1> QED
  BY <1>1, <1>2

\* And so is that of a seek.
LEMMA CommitSeekStep == ASSUME IInv, CommitSeek PROVE IInv' /\ errno' = "SUCCESS"
<1>0. /\ WorldType /\ SizeBounded /\ call \in CallType /\ UNCHANGED <<mem, bytes, consumed, out>>
      /\ HasRights(call.fd, {})
  BY DEF IInv, TypeOK, WorldType, CommitSeek, Committing
<1>1. fds' = [fds EXCEPT ![call.fd].off = call.off] /\ Return("SUCCESS")
  BY <1>0 DEF CommitSeek
<1>2. call.fd \in Fds /\ fds[call.fd] \in Descriptor
  BY <1>0, OpenDescriptor
<1>3. fds' \in [Fds -> Descriptor \cup {Closed}]
  BY <1>0, <1>1, <1>2, Locals DEF WorldType, Descriptor
<1>4. WorldType' /\ SizeBounded'
  BY <1>0, <1>3 DEF WorldType, SizeBounded
<1> QED
  BY <1>1, <1>4, SuccessStep

\* Every step preserves the invariant.
LEMMA NextIInv == IInv /\ [Next]_vars => IInv'
<1> SUFFICES ASSUME IInv, [Next]_vars PROVE IInv'
  OBVIOUS
<1>1. CASE Stage
  BY <1>1, GatherStep, CheckWriteStep, CheckReadStep, ScatterStep, StoreResultStep,
     CommitWriteStep, CommitReadStep, CommitSeekStep DEF Stage
<1>2. CASE \/ GuestStores
           \/ \E o \in {1, 2} : TakeOutput(o)
           \/ \E fd \in Fds, f \in Files, rights \in RightSets, app, trunc \in BOOLEAN :
                 Open(fd, f, rights, app, trunc)
           \/ \E fd \in Fds : Close(fd)
           \/ \E fd \in Fds, app \in BOOLEAN : SetFlags(fd, app)
           \/ \E fd \in Fds, size \in Offsets : SetSize(fd, size)
           \/ \E fd \in Fds, off, len \in Offsets : Allocate(fd, off, len)
  BY <1>2, PlainSteps
<1>3. CASE \E op \in Readers \cup Writers, fd \in Streams \cup Fds, iovs \in Ptrs, n \in Counts,
              nptr \in ResultPtrs, off \in Offsets : Start(op, fd, iovs, n, nptr, off)
  BY <1>3, StartStep
<1>4. CASE \E fd \in Fds, delta \in Deltas, whence \in {"SET", "CUR", "END"}, nptr \in ResultPtrs :
              Seek(fd, delta, whence, nptr)
  BY <1>4, SeekStep
<1>5. CASE \E fd \in Fds, nptr \in ResultPtrs : Tell(fd, nptr)
  BY <1>5, TellStep
<1>6. CASE UNCHANGED vars
  <2>1. UNCHANGED <<mem, bytes, fds, consumed, out, call, errno>>
    BY <1>6 DEF vars, world
  <2>2. CallType' = CallType
    BY <2>1 DEF CallType
  <2>3. TypeOK' /\ SizeBounded'
    BY <2>1, <2>2 DEF IInv, TypeOK, SizeBounded
  <2>4. WriteErrno' = WriteErrno
    BY <2>1 DEF WriteErrno, prepare_write, prepare_pwrite, HasRights, FitsAt, WriteStart
  <2>5. /\ Accepts(call.op, call.fd)' = Accepts(call.op, call.fd)
        /\ HasRights(call.fd, {})' = HasRights(call.fd, {})
    BY <2>1 DEF Accepts, HasRights
  <2>6. Walking' /\ Probed' /\ Filling' /\ Answering'
    BY <2>1, <2>5 DEF IInv, Walking, Probed, Filling, Answering, InMem, world
  <2>7. Committing'
    BY <2>1, <2>4, <2>5 DEF IInv, Committing
  <2> QED
    BY <2>3, <2>6, <2>7 DEF IInv
<1> QED
  BY <1>1, <1>2, <1>3, <1>4, <1>5, <1>6 DEF Next

-----------------------------------------------------------------------------
\* What a read delivers

\* A read has something to fill if it asks for bytes at all; it got what the
\* file held at the cursor; it gave out nothing only if it got nothing; and
\* the number it stored is the number it gave out.
Asked == \E i \in 1..Len(call.vecs) : call.vecs[i].len > 0

Got == call.data = Segment(Source, From, call.total)

Delivering ==
    call.op = "fd_read" =>
      /\ call.phase \in {"gather", "scatter"} => (call.total > 0 => Asked)
      /\ call.phase \in {"scatter", "result", "commit"} => Got
      /\ call.phase = "scatter" =>
           (call.done = 0 /\ call.data # <<>> =>
              \A i \in 1..Len(call.vecs) : i < call.next => call.vecs[i].len = 0)
      /\ call.phase \in {"result", "commit"} =>
           /\ call.done <= Len(call.data)
           /\ call.done = 0 => call.data = <<>>
      /\ call.phase = "result" => call.result = <<call.done>>
      /\ call.phase = "commit" => mem[call.nptr] = call.done

\* The inductive invariant, with what is known of a read.
DInv == IInv /\ Delivering

\* How much peek and pread return.
LEMMA SegmentLength ==
    ASSUME NEW s \in Seq(Word), NEW from \in Nat, NEW max \in Nat
    PROVE  Len(Segment(s, from, max)) = IF from >= Len(s) THEN 0 ELSE Least(Len(s) - from, max)
<1>1. CASE from >= Len(s)
  BY <1>1 DEF Segment
<1>2. CASE from < Len(s)
  <2> DEFINE to == from + Least(Len(s) - from, max)
  <2>1. to \in Nat /\ to <= Len(s) /\ from <= to /\ to - from = Least(Len(s) - from, max)
    BY <1>2 DEF Least
  <2>2. Segment(s, from, max) = SubSeq(s, from + 1, to)
    <3>1. ~(from >= Len(s))
      BY <1>2
    <3> QED
      BY <3>1, Zenon DEF Segment
  <2> HIDE DEF to
  <2>3. Len(SubSeq(s, from + 1, to)) = to - from
    BY <2>1
  <2> QED
    BY <1>2, <2>1, <2>2, <2>3
<1> QED
  BY <1>1, <1>2

\* Steps that leave no fd_read under way.
LEMMA NotReading == ASSUME call'.op # "fd_read" PROVE Delivering'
  BY DEF Delivering

\* A handler that returns reads no more.
LEMMA IdleNotReading == ASSUME NEW e, Return(e) PROVE Delivering'
  BY NotReading DEF Return, NoCall

\* If the vectors read so far ask for bytes, one of them does.
LEMMA GatherDelivers == ASSUME DInv, Gather PROVE Delivering'
<1>0. /\ WorldType /\ call \in CallType /\ Walking /\ Delivering /\ call.phase = "gather"
  BY DEF DInv, IInv, TypeOK, WorldType, Gather
<1>1. CASE GatherErrno # "SUCCESS"
  BY <1>1, IdleNotReading DEF Gather
<1>2. CASE GatherErrno = "SUCCESS" /\ call.op = "fd_read"
  <2> DEFINE v == VectorAt(NextVector)
  <2>1. call' = [call EXCEPT !.vecs = Append(call.vecs, v), !.total = call.total + v.len,
                 !.data = IF call.op \in Writers THEN call.data \o read_memory(v.ptr, v.len) ELSE call.data]
    BY <1>2 DEF Gather
  <2>2. NextVector \in Nat /\ InMem(NextVector, 2)
    BY <1>0, <1>2, Locals, SMTT(20) DEF NextVector, GatherErrno
  <2>3. NextVector \in Addresses /\ NextVector + 1 \in Addresses
    BY <2>2, Sizes DEF InMem, Addresses
  <2>4. v \in Vector /\ v.len \in Nat
    BY <1>0, <2>3, Sizes DEF VectorAt, Vector, WorldType
  <2> HIDE DEF v
  <2>5. /\ call'.phase = "gather" /\ call'.op = call.op
        /\ call'.vecs = Append(call.vecs, v) /\ call'.total = call.total + v.len
    BY <1>0, <2>1 DEF CallType
  <2>6. call.vecs \in Seq(Vector) /\ call.total \in Nat
    BY <1>0, Locals
  <2>7. ASSUME call.total + v.len > 0
        PROVE  \E i \in 1..Len(Append(call.vecs, v)) : Append(call.vecs, v)[i].len > 0
    <3>1. CASE v.len > 0
      <4>1. /\ Len(call.vecs) + 1 \in 1..Len(Append(call.vecs, v))
            /\ Append(call.vecs, v)[Len(call.vecs) + 1] = v
        BY <2>4, <2>6
      <4> QED
        BY <3>1, <4>1
    <3>2. CASE call.total > 0
      <4>1. PICK i \in 1..Len(call.vecs) : call.vecs[i].len > 0
        BY <1>0, <1>2, <3>2 DEF Delivering, Asked
      <4>2. i \in 1..Len(Append(call.vecs, v)) /\ Append(call.vecs, v)[i] = call.vecs[i]
        BY <2>4, <2>6
      <4> QED
        BY <4>1, <4>2
    <3> QED
      BY <2>4, <2>6, <2>7, <3>1, <3>2
  <2>8. (call.total > 0 => Asked)'
    BY <2>5, <2>7 DEF Asked
  <2> QED
    BY <2>5, <2>8 DEF Delivering
<1>3. CASE GatherErrno = "SUCCESS" /\ call.op # "fd_read"
  <2>1. call'.op = call.op
    BY <1>0, <1>3 DEF Gather, CallType
  <2> QED
    BY <1>3, <2>1, NotReading
<1> QED
  BY <1>1, <1>2, <1>3

\* The peek takes what the source holds at the cursor.
LEMMA CheckReadDelivers == ASSUME DInv, CheckRead PROVE Delivering'
<1>0. /\ WorldType /\ call \in CallType /\ UNCHANGED world /\ Walking /\ Delivering /\ call.phase = "gather"
      /\ call.op \in Readers
  BY DEF DInv, IInv, TypeOK, WorldType, CheckRead
<1>1. CASE ~InMem(call.nptr, 1)
  BY <1>1, IdleNotReading DEF CheckRead
<1>2. CASE InMem(call.nptr, 1)
  <2>1. call' = [call EXCEPT !.phase = "scatter", !.data = Segment(Source, From, call.total)]
    BY <1>2 DEF CheckRead
  <2>2. /\ call'.phase = "scatter" /\ call'.op = call.op /\ call'.fd = call.fd /\ call'.off = call.off
        /\ call'.vecs = call.vecs /\ call'.total = call.total /\ call'.next = 1
        /\ call'.data = Segment(Source, From, call.total)
    BY <1>0, <2>1 DEF CallType, Walking
  <2>3. Source' = Source /\ From' = From
    BY <1>0, <2>2 DEF Source, From, Cursor, world
  <2>4. Got'
    BY <2>2, <2>3 DEF Got
  <2>5. call.op = "fd_read" => (call.total > 0 => Asked)'
    BY <1>0, <2>2 DEF Delivering, Asked
  <2>6. \A i \in 1..Len(call.vecs) : ~(i < 1)
    BY <1>0, Locals
  <2> QED
    BY <2>2, <2>4, <2>5, <2>6 DEF Delivering
<1> QED
  BY <1>1, <1>2

\* Nothing is delivered only if there was nothing: an empty vector is passed
\* over, and the first that is not takes a byte.
LEMMA ScatterDelivers == ASSUME DInv, Scatter PROVE Delivering'
<1>0. /\ WorldType /\ call \in CallType /\ Filling /\ Delivering /\ call.phase = "scatter"
      /\ UNCHANGED <<bytes, fds, consumed, out>> /\ IInv
  BY DEF DInv, IInv, TypeOK, WorldType, Scatter
<1>1. CASE call.op # "fd_read"
  <2>1. \/ call' = NoCall
        \/ call' = [call EXCEPT !.phase = "result", !.result = <<call.done>>]
        \/ \E d, k : call' = [call EXCEPT !.done = d, !.next = k]
    BY DEF Scatter, Return
  <2>2. call'.op = call.op \/ call'.op = "none"
    <3>1. NoCall.op = "none"
      BY DEF NoCall
    <3>2. CASE call' = [call EXCEPT !.phase = "result", !.result = <<call.done>>]
      BY <1>0, <3>2 DEF CallType
    <3>3. ASSUME NEW d, NEW k, call' = [call EXCEPT !.done = d, !.next = k]
          PROVE  call'.op = call.op
      BY <1>0, <3>3 DEF CallType
    <3> QED
      BY <2>1, <3>1, <3>2, <3>3
  <2> QED
    BY <1>1, <2>2, NotReading
<1>2. CASE call.op = "fd_read" /\ (call.done = Len(call.data) \/ call.next > Len(call.vecs))
  <2>1. call' = [call EXCEPT !.phase = "result", !.result = <<call.done>>]
    BY <1>2 DEF Scatter
  <2>2. /\ call'.phase = "result" /\ call'.op = call.op /\ call'.fd = call.fd /\ call'.off = call.off
        /\ call'.total = call.total /\ call'.data = call.data /\ call'.done = call.done
        /\ call'.result = <<call.done>>
    BY <1>0, <2>1 DEF CallType
  <2>3. Got'
    BY <1>0, <1>2, <2>2 DEF Delivering, Got, Source, From, Cursor
  <2>4. call.done <= Len(call.data) /\ Len(call.data) <= call.total
    BY <1>0 DEF Filling
  <2>5. ASSUME call.done = 0 PROVE call.data = <<>>
    <3> SUFFICES ASSUME call.data # <<>> PROVE FALSE
      OBVIOUS
    <3>1. Len(call.data) # 0 /\ Len(call.data) \in Nat /\ call.total \in Nat
      BY <1>0, Locals
    <3>2. PICK i \in 1..Len(call.vecs) : call.vecs[i].len > 0
      BY <1>0, <1>2, <2>4, <3>1 DEF Delivering, Asked
    <3>3. i < call.next
      BY <1>0, <1>2, <2>5, <3>1, Locals
    <3>4. call.vecs[i].len = 0
      BY <1>0, <1>2, <2>5, <3>3 DEF Delivering
    <3> QED
      BY <3>2, <3>4
  <2> QED
    BY <2>2, <2>3, <2>4, <2>5 DEF Delivering
<1>3. CASE call.op = "fd_read" /\ ~(call.done = Len(call.data) \/ call.next > Len(call.vecs))
  <2> DEFINE v == call.vecs[call.next]
             chunk == Least(v.len, Len(call.data) - call.done)
  <2>1. /\ call.next \in 1..Len(call.vecs) /\ call.done # Len(call.data) /\ call.done \in Nat
        /\ Len(call.data) \in Nat /\ call.done <= Len(call.data) /\ call.vecs \in Seq(Vector)
    BY <1>0, <1>3, Locals DEF Filling
  <2>2. InMem(v.ptr, chunk) /\ chunk \in Nat
    BY <1>0, <2>1, ChunkFits
  <2>3. call' = [call EXCEPT !.done = call.done + chunk, !.next = call.next + 1]
    BY <1>3, <2>2 DEF Scatter
  <2>4. v \in Vector /\ v.len \in Nat
    <3>1. v \in Vector
      BY <2>1
    <3> QED
      BY <3>1, Sizes DEF Vector
  <2>5. call.done + chunk = 0 => call.done = 0 /\ v.len = 0
    <3> HIDE DEF v
    <3> QED
      BY <2>1, <2>4 DEF Least
  <2> HIDE DEF chunk
  <2>6. /\ call'.phase = "scatter" /\ call'.op = call.op /\ call'.fd = call.fd /\ call'.off = call.off
        /\ call'.vecs = call.vecs /\ call'.data = call.data /\ call'.total = call.total
        /\ call'.done = call.done + chunk /\ call'.next = call.next + 1
    BY <1>0, <2>3 DEF CallType
  <2>7. Got'
    BY <1>0, <1>3, <2>6 DEF Delivering, Got, Source, From, Cursor
  <2>8. (call.total > 0 => Asked)'
    BY <1>0, <1>3, <2>6 DEF Delivering, Asked
  <2>9. ASSUME call.done + chunk = 0, call.data # <<>>, NEW i \in 1..Len(call.vecs), i < call.next + 1
        PROVE  call.vecs[i].len = 0
    <3>1. CASE i < call.next
      BY <1>0, <1>3, <2>5, <2>9, <3>1 DEF Delivering
    <3>2. CASE i = call.next
      BY <2>5, <2>9, <3>2
    <3> QED
      BY <2>1, <2>9, <3>1, <3>2
  <2> QED
    BY <2>6, <2>7, <2>8, <2>9 DEF Delivering
<1> QED
  BY <1>1, <1>2, <1>3

\* nread is the number delivered.
LEMMA StoreResultDelivers == ASSUME DInv, StoreResult PROVE Delivering'
<1>0. /\ WorldType /\ call \in CallType /\ Delivering /\ call.phase = "result"
      /\ InMem(call.nptr, Len(call.result)) /\ UNCHANGED <<bytes, fds, consumed, out>>
  BY DEF DInv, IInv, TypeOK, WorldType, StoreResult, Answering
<1>1. CASE call.op # "fd_read"
  <2>1. call'.op = call.op \/ call'.op = "none"
    BY <1>0 DEF StoreResult, CallType, Return, NoCall
  <2> QED
    BY <1>1, <2>1, NotReading
<1>2. CASE call.op = "fd_read"
  <2>1. mem' = write_memory(call.nptr, call.result) /\ call' = [call EXCEPT !.phase = "commit"]
    BY <1>0, <1>2 DEF StoreResult
  <2>2. /\ call'.phase = "commit" /\ call'.op = call.op /\ call'.fd = call.fd /\ call'.off = call.off
        /\ call'.total = call.total /\ call'.data = call.data /\ call'.done = call.done
        /\ call'.nptr = call.nptr
    BY <1>0, <2>1 DEF CallType
  <2>3. Got'
    BY <1>0, <1>2, <2>2 DEF Delivering, Got, Source, From, Cursor
  <2>4. call.result = <<call.done>> /\ call.nptr \in Nat /\ call.nptr + 1 <= MemSize
    BY <1>0, <1>2, Locals DEF Delivering, InMem
  <2>5. mem'[call.nptr] = call.done
    <3>1. call.nptr \in Addresses /\ call.nptr \in call.nptr..(call.nptr + 1 - 1) /\ call.nptr - call.nptr + 1 = 1
      BY <2>4, Sizes DEF Addresses
    <3> QED
      BY <2>1, <2>4, <3>1 DEF write_memory
  <2> QED
    BY <1>0, <1>2, <2>2, <2>3, <2>5 DEF Delivering
<1> QED
  BY <1>1, <1>2

\* Every step preserves what is known of a read.
LEMMA NextDelivering == DInv /\ [Next]_vars => DInv'
<1> SUFFICES ASSUME DInv, [Next]_vars PROVE Delivering'
  BY NextIInv DEF DInv
<1>0. call \in CallType /\ Delivering /\ IInv
  BY DEF DInv, IInv, TypeOK
<1>1. CASE CheckWrite
  <2>1. call.op \in Writers /\ (call'.op = call.op \/ call'.op = "none")
    <3>1. call.op \in Writers
          /\ (call' = NoCall \/ call' = [call EXCEPT !.phase = "result", !.result = <<call.total>>])
      BY <1>1 DEF CheckWrite, Return
    <3>2. NoCall.op = "none"
      BY DEF NoCall
    <3>3. CASE call' = [call EXCEPT !.phase = "result", !.result = <<call.total>>]
      BY <1>0, <3>1, <3>3 DEF CallType
    <3> QED
      BY <3>1, <3>2, <3>3
  <2> QED
    BY <2>1, NotReading DEF Writers
<1>2. CASE CommitWrite \/ CommitRead \/ CommitSeek
  <2>1. call' = NoCall
    BY <1>0, <1>2 DEF CommitWrite, CommitRead, CommitSeek, Return
  <2> QED
    BY <2>1, NotReading DEF NoCall
<1>3. CASE UNCHANGED <<call, world>>
  <2>1. UNCHANGED <<call, mem, bytes, fds, consumed>>
    BY <1>3 DEF world
  <2> QED
    BY <1>0, <2>1 DEF Delivering, Asked, Got, Source, From, Cursor
<1>4. CASE Idle /\ UNCHANGED call
  BY <1>4 DEF Idle, Delivering
<1>5. ASSUME NEW op \in Readers \cup Writers, NEW fd \in Streams \cup Fds, NEW iovs \in Ptrs, NEW n \in Counts,
             NEW nptr \in ResultPtrs, NEW off \in Offsets, Start(op, fd, iovs, n, nptr, off)
      PROVE  Delivering'
  <2>1. call'.phase = "gather" /\ call'.total = 0
    BY <1>5 DEF Start, NoCall
  <2> QED
    BY <2>1 DEF Delivering
<1>6. ASSUME NEW fd \in Fds, NEW nptr \in ResultPtrs,
             Tell(fd, nptr) \/ \E delta \in Deltas, whence \in {"SET", "CUR", "END"} : Seek(fd, delta, whence, nptr)
      PROVE  Delivering'
  <2>1. call'.op # "fd_read"
    BY <1>6 DEF Tell, Seek, NoCall
  <2> QED
    BY <2>1, NotReading
<1>7. CASE GuestStores \/ \E o \in {1, 2} : TakeOutput(o)
  BY <1>4, <1>7 DEF GuestStores, TakeOutput
<1>8. CASE \/ \E fd \in Fds, f \in Files, rights \in RightSets, app, trunc \in BOOLEAN :
                 Open(fd, f, rights, app, trunc)
           \/ \E fd \in Fds : Close(fd)
           \/ \E fd \in Fds, app \in BOOLEAN : SetFlags(fd, app)
           \/ \E fd \in Fds, size \in Offsets : SetSize(fd, size)
           \/ \E fd \in Fds, off, len \in Offsets : Allocate(fd, off, len)
  BY <1>4, <1>8 DEF Open, Close, SetFlags, SetSize, Allocate, Local
<1> QED
  BY <1>1, <1>2, <1>3, <1>5, <1>6, <1>7, <1>8, GatherDelivers, CheckReadDelivers, ScatterDelivers,
     StoreResultDelivers DEF Next, Stage, vars

\* And it holds initially.
LEMMA InitDelivering == Init => DInv
  BY InitIInv DEF Init, DInv, Delivering, NoCall

\* While a handler is under way only its stages run.
LEMMA OnlyStages == ASSUME Next, ~Idle PROVE Stage
<1>1. GuestStores => Idle
  BY DEF GuestStores
<1>2. \A o : TakeOutput(o) => Idle
  BY DEF TakeOutput
<1>3. \A fd, f, rights, app, trunc : Open(fd, f, rights, app, trunc) => Idle
  BY DEF Open, Local
<1>4. \A fd, x, y : (Close(fd) => Idle) /\ (SetFlags(fd, x) => Idle) /\ (SetSize(fd, x) => Idle)
                     /\ (Allocate(fd, x, y) => Idle)
  BY DEF Close, SetFlags, SetSize, Allocate, Local
<1>5. \A op, fd, iovs, n, nptr, off : Start(op, fd, iovs, n, nptr, off) => Idle
  BY DEF Start
<1>6. \A fd, delta, whence, nptr : Seek(fd, delta, whence, nptr) => Idle
  BY DEF Seek
<1>7. \A fd, nptr : Tell(fd, nptr) => Idle
  BY DEF Tell
<1> QED
  BY <1>1, <1>2, <1>3, <1>4, <1>5, <1>6, <1>7 DEF Next

\* Bytes before the start of a write, and behind its end, are kept.
LEMMA KeepsOthers ==
    ASSUME NEW old \in Seq(Word), NEW start \in Nat, NEW s \in Seq(Word), NEW k \in 1..Len(old),
           ~(k \in (start + 1)..(start + Len(s)))
    PROVE  Overwrite(old, start, s)[k] = old[k]
<1> DEFINE end == start + Len(s)
           grown == IF Len(old) < end THEN resize(old, end) ELSE old
<1>1. end \in Nat
  OBVIOUS
<1>2. grown \in Seq(Word) /\ Len(grown) = (IF Len(old) < end THEN end ELSE Len(old))
  BY <1>1, Resized
<1>3. k \in 1..Len(grown)
  <2> HIDE DEF grown
  <2> QED BY <1>1, <1>2
<1>4. grown[k] = old[k]
  <2>1. CASE Len(old) < end
    <3>1. k \in 1..end /\ k <= Len(old)
      BY <1>1, <2>1
    <3>2. resize(old, end)[k] = old[k]
      BY <3>1 DEF resize
    <3> QED
      BY <2>1, <3>2
  <2> QED
    BY <2>1
<1>5. Overwrite(old, start, s) =
        [j \in 1..Len(grown) |-> IF j \in (start + 1)..end THEN s[j - start] ELSE grown[j]]
  BY DEF Overwrite
<1> HIDE DEF grown
<1> QED
  BY <1>3, <1>4, <1>5

\* The step of AppendKeepsContents.
LEMMA AppendStep ==
    ASSUME IInv, Next, ~Idle, Idle', call.op = "fd_write", call.fd \in Fds, fds[call.fd].app
    PROVE  LET old == bytes[fds[call.fd].file]  new == bytes'[fds[call.fd].file]
           IN Len(old) <= Len(new) /\ SubSeq(new, 1, Len(old)) = old
<1> DEFINE fd == call.fd
           f == fds[fd].file
<1>0. WorldType /\ call \in CallType /\ Walking /\ Committing
  BY DEF IInv, TypeOK, WorldType
<1>1. HasRights(fd, {})
  <2>1. Gather \/ CheckWrite \/ CommitWrite
    <3>1. ~CheckRead /\ ~CommitRead /\ ~CommitSeek
      BY DEF CheckRead, CommitRead, CommitSeek, Readers
    <3>2. ~StoreResult
      <4>1. StoreResult => call' = [call EXCEPT !.phase = "commit"]
        BY DEF IInv, Answering, StoreResult
      <4>2. StoreResult => call'.phase = "commit"
        BY <1>0, <4>1 DEF CallType
      <4> QED
        BY <4>2 DEF Idle
    <3> QED
      BY <3>1, <3>2, OnlyStages, ScatterStep DEF Stage
  <2> QED
  BY <1>0, <2>1, FdsAssumption DEF Walking, Accepts, HasRights, Committing, WriteErrno, prepare_write, Writers,
    Gather, CheckWrite, CommitWrite
<1>2. f \in Files /\ bytes[f] \in Seq(Word)
  BY <1>0, <1>1, OpenDescriptor
<1>3. CASE bytes' = bytes
  <2>1. \A t \in Seq(Word) : Len(t) <= Len(t) /\ SubSeq(t, 1, Len(t)) = t
    OBVIOUS
  <2> QED
    BY <1>2, <1>3, <2>1
<1>4. CASE bytes' # bytes
  <2>1. CommitWrite
    BY <1>4, OnlyStages DEF Stage, Gather, CheckWrite, CheckRead, Scatter, StoreResult, CommitRead, CommitSeek, world
  <2>2. call.data \in Seq(Word) /\ Payload = call.data
    BY <1>0, Locals DEF Payload
  <2>3. WriteStart(fd) = Len(bytes[f])
    BY DEF WriteStart
  <2>4. bytes' = [bytes EXCEPT ![f] = Overwrite(bytes[f], Len(bytes[f]), Payload)]
    BY <1>0, <1>2, <1>4, <2>1, <2>3 DEF CommitWrite, WorldType
  <2> DEFINE old == bytes[f]
             new == Overwrite(old, Len(old), Payload)
  <2>5. bytes'[f] = new
    BY <1>0, <1>2, <2>4 DEF WorldType
  <2>6. old \in Seq(Word) /\ Len(old) \in Nat
    BY <1>2
  <2>7. new \in Seq(Word) /\ Len(old) <= Len(new)
    BY <2>2, <2>6, Overwritten
  <2>8. \A k \in 1..Len(old) : new[k] = old[k]
    <3> TAKE k \in 1..Len(old)
    <3>1. ~(k \in (Len(old) + 1)..(Len(old) + Len(Payload)))
      <4>1. Len(old) \in Nat /\ Len(Payload) \in Nat
        BY <2>2, <2>6
      <4> HIDE DEF old
      <4> QED
        BY <4>1
    <3> QED
      BY <2>2, <2>6, <3>1, KeepsOthers
  <2> HIDE DEF new, old
  <2>9. SubSeq(new, 1, Len(old)) = old
    BY <2>6, <2>7, <2>8
  <2> QED
    BY <2>5, <2>7, <2>9 DEF old
<1> QED
  BY <1>3, <1>4

\* The step of PollAgreesWithRead.
LEMMA PollStep ==
    ASSUME DInv, Next, ~Idle, Idle', errno' = "SUCCESS", call.op = "fd_read", call.fd \in Fds, call.total > 0
    PROVE  AtEof(call.fd) <=> mem'[call.nptr] = 0
<1> DEFINE fd == call.fd
           s == bytes[fds[fd].file]
           from == fds[fd].off
<1>0. WorldType /\ call \in CallType /\ Committing /\ Delivering /\ IInv
  BY DEF DInv, IInv, TypeOK, WorldType
<1>1. CommitRead
  <2>1. ~CheckWrite /\ ~CommitWrite /\ ~CommitSeek
    BY DEF CheckWrite, CommitWrite, CommitSeek, Writers
  <2>2. ~Gather /\ ~CheckRead
    <3>1. GatherErrno # "SUCCESS" => ~(errno' = GatherErrno)
      OBVIOUS
    <3>2. Gather => call'.phase = "gather"
      BY <1>0 DEF Gather, Return, CallType
    <3>3. CheckRead => call'.phase = "scatter"
      BY <1>0 DEF CheckRead, Return, CallType
    <3> QED
      BY <3>2, <3>3 DEF Idle
  <2>3. ~Scatter
    BY <1>0, ScatterStep
  <2>4. ~StoreResult
    <3>1. StoreResult => call' = [call EXCEPT !.phase = "commit"]
      BY <1>0 DEF StoreResult, Return
    <3>2. StoreResult => call'.phase = "commit"
      BY <1>0, <3>1 DEF CallType
    <3> QED
      BY <3>2 DEF Idle
  <2> QED
    BY <2>1, <2>2, <2>3, <2>4, OnlyStages DEF Stage
<1>2. mem' = mem /\ call.phase = "commit" /\ fd # 0
  BY <1>1, FdsAssumption DEF CommitRead
<1>3. HasRights(fd, {"READ"})
  BY <1>0, <1>2 DEF Committing, Accepts, Readers
<1>4. s \in Seq(Word) /\ from \in Nat /\ call.total \in Nat /\ call.done \in Nat /\ call.data \in Seq(Word)
  BY <1>0, <1>3, OpenDescriptor, Locals
<1>5. /\ call.data = Segment(s, from, call.total)
      /\ call.done <= Len(call.data) /\ (call.done = 0 => call.data = <<>>)
      /\ mem[call.nptr] = call.done
  BY <1>0, <1>2 DEF Delivering, Got, Source, From, Cursor
<1> HIDE DEF s, from
<1>6. Len(call.data) = IF from >= Len(s) THEN 0 ELSE Least(Len(s) - from, call.total)
  <2>1. Len(Segment(s, from, call.total)) = IF from >= Len(s) THEN 0 ELSE Least(Len(s) - from, call.total)
    BY <1>4, SegmentLength
  <2> QED
    BY <1>5, <2>1
<1>7. from >= Len(s) <=> call.done = 0
  <2>1. Len(call.data) \in Nat /\ Len(s) \in Nat /\ (call.data = <<>> => Len(call.data) = 0)
    BY <1>4
  <2> QED
    BY <1>4, <1>5, <1>6, <2>1 DEF Least
<1> QED
  BY <1>2, <1>5, <1>7 DEF AtEof, s, from

-----------------------------------------------------------------------------
\* Files are arrays of bytes that are zero from their end on

\* A step of PosixFile, or none.
PStep == [Posix!Next]_(Posix!vars)

\* A file as PosixFile sees it.
LEMMA PaddedType == ASSUME NEW s \in Seq(Word) PROVE Padded(s) \in [1..MaxFileBytes -> Word]
<1>1. \A k \in 1..MaxFileBytes : (IF k <= Len(s) THEN s[k] ELSE 0) \in Word
  BY Sizes
<1> QED
  BY <1>1 DEF Padded

\* A file of which only the first n bytes are left.
Cut(c, n) == [k \in 1..MaxFileBytes |-> IF k <= n THEN c[k] ELSE 0]

\* What Vec::resize cuts off or adds reads as zero.
LEMMA PaddedResize ==
    ASSUME NEW s \in Seq(Word), NEW n \in Nat, NEW c, c = Padded(s)
    PROVE  Padded(resize(s, n)) = Cut(c, n)
<1>1. Len(resize(s, n)) = n
  BY Resized
<1>2. ASSUME NEW k \in 1..MaxFileBytes
      PROVE  (IF k <= n THEN resize(s, n)[k] ELSE 0) = IF k <= n THEN c[k] ELSE 0
  <2>1. CASE k <= n
    <3>1. k \in 1..n
      BY <2>1, Sizes
    <3>2. resize(s, n)[k] = IF k <= Len(s) THEN s[k] ELSE 0
      BY <3>1 DEF resize
    <3>3. c[k] = IF k <= Len(s) THEN s[k] ELSE 0
      BY DEF Padded
    <3> QED
      BY <2>1, <3>2, <3>3
  <2> QED
    BY <2>1
<1>3. Padded(resize(s, n)) = [k \in 1..MaxFileBytes |-> IF k <= n THEN resize(s, n)[k] ELSE 0]
  BY <1>1 DEF Padded
<1> QED
  BY <1>2, <1>3 DEF Cut

\* A file that is not cut off reads as it did.
LEMMA PaddedWhole ==
    ASSUME NEW s \in Seq(Word), NEW c, c = Padded(s), NEW n
    PROVE  /\ n = Len(s) => c = Cut(c, n)
           /\ n = 0 => Padded(<<>>) = Cut(c, n)
<1>1. ASSUME n = Len(s) PROVE c = Cut(c, n)
  <2>1. \A k \in 1..MaxFileBytes : c[k] = IF k <= n THEN c[k] ELSE 0
    BY <1>1 DEF Padded
  <2> QED
    BY <2>1 DEF Padded, Cut
<1>2. ASSUME n = 0 PROVE Padded(<<>>) = Cut(c, n)
  <2>1. \A k \in 1..MaxFileBytes : ~(k <= n) /\ ~(k <= Len(<<>>))
    BY <1>2, Sizes
  <2> QED
    BY <2>1 DEF Padded, Cut
<1> QED
  BY <1>1, <1>2

\* A write changes no byte outside its range, and a gap before it is zero.
LEMMA PaddedOverwrite ==
    ASSUME NEW old \in Seq(Word), NEW start \in Nat, NEW s \in Seq(Word), NEW k \in 1..MaxFileBytes,
           ~(k \in (start + 1)..(start + Len(s)))
    PROVE  Padded(Overwrite(old, start, s))[k] = Padded(old)[k]
<1> DEFINE end == start + Len(s)
           new == Overwrite(old, start, s)
<1>1. end \in Nat /\ Len(old) \in Nat /\ k \in Nat /\ k >= 1 /\ Len(s) \in Nat
  BY Sizes
<1>2. new \in Seq(Word) /\ Len(new) = IF Len(old) < end THEN end ELSE Len(old)
  BY Overwritten
<1>3. /\ Padded(new)[k] = IF k <= Len(new) THEN new[k] ELSE 0
      /\ Padded(old)[k] = IF k <= Len(old) THEN old[k] ELSE 0
  BY DEF Padded
<1>4. CASE k <= Len(old)
  <2>1. k \in 1..Len(old)
    BY <1>1, <1>4
  <2>2. new[k] = old[k]
    BY <2>1, KeepsOthers
  <2>3. k <= Len(new)
    <3> HIDE DEF new, end
    <3> QED BY <1>1, <1>2, <1>4
  <2> QED
    BY <1>3, <1>4, <2>2, <2>3
<1>5. CASE Len(old) < k /\ k <= Len(new)
  <2>1. Len(old) < end /\ k <= end /\ k \in 1..end
    <3> HIDE DEF new, end
    <3> QED BY <1>1, <1>2, <1>5
  <2>2. Len(resize(old, end)) = end /\ resize(old, end)[k] = 0
    BY <1>1, <1>5, <2>1, Resized DEF resize
  <2>3. new = [j \in 1..end |-> IF j \in (start + 1)..end THEN s[j - start] ELSE resize(old, end)[j]]
    BY <2>1, <2>2 DEF Overwrite
  <2>4. new[k] = resize(old, end)[k]
    BY <2>1, <2>3
  <2>5. ~(k <= Len(old))
    BY <1>1, <1>5
  <2> QED
    BY <1>3, <2>2, <2>4, <2>5
<1>6. CASE Len(old) < k /\ ~(k <= Len(new))
  BY <1>1, <1>3, <1>6
<1> HIDE DEF new
<1> QED
  BY <1>1, <1>2, <1>4, <1>5, <1>6

\* One file changes.
LEMMA FileChanges ==
    ASSUME bytes \in [Files -> Seq(Word)], NEW f \in Files, NEW t, bytes' = [bytes EXCEPT ![f] = t]
    PROVE  Contents' = [Contents EXCEPT ![f] = Padded(t)] /\ Ends' = [Ends EXCEPT ![f] = Len(t)]
<1>1. \A g \in Files : bytes'[g] = IF g = f THEN t ELSE bytes[g]
  OBVIOUS
<1>2. \A g \in Files : Padded(bytes'[g]) = IF g = f THEN Padded(t) ELSE Padded(bytes[g])
  BY <1>1
<1>3. Contents' = [g \in Files |-> Padded(bytes'[g])]
  BY DEF Contents, Padded
<1>4. Contents' = [g \in Files |-> IF g = f THEN Padded(t) ELSE Padded(bytes[g])]
  BY <1>2, <1>3, Zenon
<1>5. Contents' = [Contents EXCEPT ![f] = Padded(t)]
  BY <1>4 DEF Contents
<1>6. Ends' = [Ends EXCEPT ![f] = Len(t)]
  BY <1>1 DEF Ends
<1> QED
  BY <1>5, <1>6

\* One descriptor changes.
LEMMA DescriptorChanges ==
    ASSUME WorldType, NEW fd \in Fds, NEW d, fds' = [fds EXCEPT ![fd] = d]
    PROVE  Cursors' = [Cursors EXCEPT ![fd] = CursorOf(d)]
<1>1. \A g \in Fds : fds'[g] = IF g = fd THEN d ELSE fds[g]
  BY DEF WorldType
<1>2. \A g \in Fds : CursorOf(fds'[g]) = IF g = fd THEN CursorOf(d) ELSE CursorOf(fds[g])
  BY <1>1
<1>3. Cursors' = [g \in Fds |-> CursorOf(fds'[g])]
  BY DEF Cursors, CursorOf
<1>4. Cursors' = [g \in Fds |-> IF g = fd THEN CursorOf(d) ELSE CursorOf(fds[g])]
  BY <1>2, <1>3, Zenon
<1> QED
  BY <1>4 DEF Cursors

\* What is not touched looks the same, and a step that touches neither files
\* nor descriptors is none of PosixFile.
LEMMA NothingChanges ==
    /\ UNCHANGED bytes => UNCHANGED <<Contents, Ends>>
    /\ UNCHANGED fds => UNCHANGED Cursors
    /\ UNCHANGED <<bytes, fds>> => PStep
<1>1. UNCHANGED bytes => UNCHANGED <<Contents, Ends>>
  BY DEF Contents, Ends, Padded
<1>2. UNCHANGED fds => UNCHANGED Cursors
  BY DEF Cursors, CursorOf
<1> QED
  BY <1>1, <1>2 DEF PStep, Posix!vars

\* An open descriptor has a cursor.
LEMMA OpenCursor ==
    ASSUME WorldType, NEW fd \in Fds, fds[fd] # Closed
    PROVE  /\ fds[fd] \in Descriptor
           /\ Cursors[fd] = [file |-> fds[fd].file, pos |-> fds[fd].off, app |-> fds[fd].app]
           /\ Cursors[fd] # Closed
           /\ Ends[fds[fd].file] = Len(bytes[fds[fd].file])
<1>1. fds[fd] \in Descriptor
  BY DEF WorldType
<1>2. Cursors[fd] = [file |-> fds[fd].file, pos |-> fds[fd].off, app |-> fds[fd].app]
  BY DEF Cursors, CursorOf
<1>3. Cursors[fd] \in [file : Files, pos : U64, app : BOOLEAN]
  BY <1>1, <1>2 DEF Descriptor
<1> QED
  BY <1>1, <1>2, <1>3, ClosedAssumption DEF Ends, Descriptor

\* Moving a cursor, and setting its append flag.
LEMMA CursorMoves ==
    ASSUME WorldType, NEW fd \in Fds, fds[fd] # Closed
    PROVE  /\ \A x \in U64 : fds' = [fds EXCEPT ![fd].off = x] => Cursors' = [Cursors EXCEPT ![fd].pos = x]
           /\ \A a \in BOOLEAN : fds' = [fds EXCEPT ![fd].app = a] => Cursors' = [Cursors EXCEPT ![fd].app = a]
<1>0. fds[fd] \in Descriptor /\ fds \in [Fds -> Descriptor \cup {Closed}]
      /\ Cursors[fd] = [file |-> fds[fd].file, pos |-> fds[fd].off, app |-> fds[fd].app]
  BY OpenCursor DEF WorldType
<1>1. ASSUME NEW x \in U64, fds' = [fds EXCEPT ![fd].off = x]
      PROVE  Cursors' = [Cursors EXCEPT ![fd].pos = x]
  <2> DEFINE d == [fds[fd] EXCEPT !.off = x]
  <2>1. d \in Descriptor /\ d.file = fds[fd].file /\ d.off = x /\ d.app = fds[fd].app
    BY <1>0 DEF Descriptor
  <2>2. fds' = [fds EXCEPT ![fd] = d]
    BY <1>0, <1>1
  <2> HIDE DEF d
  <2>3. Cursors' = [Cursors EXCEPT ![fd] = CursorOf(d)]
    BY <2>2, DescriptorChanges
  <2>4. CursorOf(d) = [file |-> fds[fd].file, pos |-> x, app |-> fds[fd].app]
    BY <2>1, ClosedAssumption DEF CursorOf
  <2>5. CursorOf(d) = [Cursors[fd] EXCEPT !.pos = x]
    BY <1>0, <2>4
  <2> QED
    BY <2>3, <2>5
<1>2. ASSUME NEW a \in BOOLEAN, fds' = [fds EXCEPT ![fd].app = a]
      PROVE  Cursors' = [Cursors EXCEPT ![fd].app = a]
  <2> DEFINE d == [fds[fd] EXCEPT !.app = a]
  <2>1. d \in Descriptor /\ d.file = fds[fd].file /\ d.off = fds[fd].off /\ d.app = a
    BY <1>0 DEF Descriptor
  <2>2. fds' = [fds EXCEPT ![fd] = d]
    BY <1>0, <1>2
  <2> HIDE DEF d
  <2>3. Cursors' = [Cursors EXCEPT ![fd] = CursorOf(d)]
    BY <2>2, DescriptorChanges
  <2>4. CursorOf(d) = [file |-> fds[fd].file, pos |-> fds[fd].off, app |-> a]
    BY <2>1, ClosedAssumption DEF CursorOf
  <2>5. CursorOf(d) = [Cursors[fd] EXCEPT !.app = a]
    BY <1>0, <2>4
  <2> QED
    BY <2>3, <2>5
<1> QED
  BY <1>1, <1>2
\* Every step of the handlers is a step of PosixFile or none.
LEMMA OpenRefines ==
    ASSUME IInv, NEW fd \in Fds, NEW f \in Files, NEW rights \in RightSets, NEW app \in BOOLEAN,
           NEW trunc \in BOOLEAN, Open(fd, f, rights, app, trunc)
    PROVE  PStep
<1> DEFINE d == [file |-> f, off |-> 0, app |-> app, rights |-> rights]
           n == IF trunc THEN 0 ELSE Len(bytes[f])
<1>0. WorldType /\ bytes[f] \in Seq(Word) /\ Len(bytes[f]) <= MaxFileBytes
  BY DEF IInv, TypeOK, WorldType, SizeBounded
<1>1. d \in Descriptor
  BY Sizes, RightsAssumption DEF Descriptor
<1>2. Cursors' = [Cursors EXCEPT ![fd] = CursorOf(d)]
  BY <1>0, DescriptorChanges DEF Open
<1>3. CursorOf(d) = [file |-> f, pos |-> 0, app |-> app]
  BY <1>1, ClosedAssumption DEF CursorOf
<1>4. Cursors[fd] = Closed
  BY DEF Open, Cursors, CursorOf
<1>5. n \in 0..MaxFileBytes /\ n \in {0, Ends[f]}
  BY <1>0, Sizes DEF Ends
<1>6. /\ Contents' = [Contents EXCEPT ![f] = Cut(Contents[f], n)]
      /\ Ends' = [Ends EXCEPT ![f] = n]
  <2>0. /\ Contents = [g \in Files |-> Padded(bytes[g])] /\ Ends = [g \in Files |-> Len(bytes[g])]
        /\ Contents[f] = Padded(bytes[f]) /\ Ends[f] = Len(bytes[f])
    BY DEF Contents, Ends
  <2>1. CASE trunc
    <3>1. bytes' = [bytes EXCEPT ![f] = <<>>]
      BY <2>1 DEF Open
    <3>2. Contents' = [Contents EXCEPT ![f] = Padded(<<>>)] /\ Ends' = [Ends EXCEPT ![f] = Len(<<>>)]
      BY <1>0, <3>1, FileChanges DEF WorldType
    <3>3. Padded(<<>>) = Cut(Contents[f], n)
      BY <1>0, <2>0, <2>1, PaddedWhole
    <3>4. Len(<<>>) = n
      BY <2>1
    <3> HIDE DEF n
    <3> QED
      BY <3>2, <3>3, <3>4
  <2>2. CASE ~trunc
    <3>1. UNCHANGED <<Contents, Ends>>
      BY <2>2, NothingChanges DEF Open
    <3>2. Contents[f] = Cut(Contents[f], n) /\ n = Ends[f]
      BY <1>0, <2>0, <2>2, PaddedWhole
    <3>3. [Contents EXCEPT ![f] = Contents[f]] = Contents /\ [Ends EXCEPT ![f] = Ends[f]] = Ends
      BY <2>0
    <3> HIDE DEF n
    <3> QED
      BY <3>1, <3>2, <3>3
  <2> QED
    BY <2>1, <2>2
<1> HIDE DEF n
<1>7. Posix!Open(fd, f, app, n)
  BY <1>2, <1>3, <1>4, <1>5, <1>6 DEF Posix!Open, Cut
<1> QED
  BY <1>5, <1>7 DEF PStep, Posix!Next

\* fd_close.
LEMMA CloseRefines == ASSUME IInv, NEW fd \in Fds, Close(fd) PROVE PStep
<1>0. WorldType
  BY DEF IInv, TypeOK, WorldType
<1>1. Cursors[fd] # Closed
  BY <1>0, OpenCursor DEF Close, HasRights
<1>2. Cursors' = [Cursors EXCEPT ![fd] = Closed]
  BY <1>0, DescriptorChanges DEF Close, CursorOf
<1>3. UNCHANGED <<Contents, Ends>>
  BY NothingChanges DEF Close
<1> QED
  BY <1>1, <1>2, <1>3 DEF PStep, Posix!Next, Posix!Close

\* fd_fdstat_set_flags.
LEMMA SetFlagsRefines == ASSUME IInv, NEW fd \in Fds, NEW app \in BOOLEAN, SetFlags(fd, app) PROVE PStep
<1>0. WorldType /\ fds[fd] # Closed
  BY DEF IInv, TypeOK, WorldType, SetFlags, HasRights
<1>1. Cursors[fd] # Closed
  BY <1>0, OpenCursor
<1>2. Cursors' = [Cursors EXCEPT ![fd].app = app]
  BY <1>0, CursorMoves DEF SetFlags
<1>3. UNCHANGED <<Contents, Ends>>
  BY NothingChanges DEF SetFlags
<1>4. Posix!SetAppend(fd, app)
  BY <1>1, <1>2, <1>3 DEF Posix!SetAppend
<1> QED
  BY <1>4 DEF PStep, Posix!Next

\* fd_filestat_set_size, and fd_allocate where it grows the file.
LEMMA ResizeRefines ==
    ASSUME IInv, NEW f \in Files, NEW n \in 0..MaxFileBytes,
           bytes' = [bytes EXCEPT ![f] = resize(bytes[f], n)], UNCHANGED fds
    PROVE  PStep
<1>0. WorldType /\ bytes[f] \in Seq(Word) /\ n \in Nat
  BY Sizes DEF IInv, TypeOK, WorldType
<1>1. /\ Contents' = [Contents EXCEPT ![f] = Padded(resize(bytes[f], n))]
      /\ Ends' = [Ends EXCEPT ![f] = Len(resize(bytes[f], n))]
  BY <1>0, FileChanges DEF WorldType
<1>2. Padded(resize(bytes[f], n)) = Cut(Contents[f], n)
  <2>1. Contents[f] = Padded(bytes[f])
    BY DEF Contents
  <2> QED
    BY <1>0, <2>1, PaddedResize
<1>3. Len(resize(bytes[f], n)) = n
  BY <1>0, Resized
<1>4. UNCHANGED Cursors
  BY NothingChanges
<1>5. Posix!SetSize(f, n)
  BY <1>1, <1>2, <1>3, <1>4 DEF Posix!SetSize, Cut
<1> QED
  BY <1>5 DEF PStep, Posix!Next

\* fd_filestat_set_size.
LEMMA SetSizeRefines == ASSUME IInv, NEW fd \in Fds, NEW size \in Offsets, SetSize(fd, size) PROVE PStep
<1>1. WorldType /\ HasRights(fd, {"SET_SIZE"})
  BY DEF IInv, TypeOK, WorldType, SetSize
<1>2. fds[fd].file \in Files /\ size \in 0..MaxFileBytes
  <2>1. fds[fd].file \in Files
    BY <1>1, OpenDescriptor
  <2>2. size \in Nat /\ size <= MaxFileBytes
    BY Sizes, ArgumentsAssumption DEF SetSize
  <2> QED
    BY <2>1, <2>2, Sizes
<1>3. bytes' = [bytes EXCEPT ![fds[fd].file] = resize(bytes[fds[fd].file], size)] /\ UNCHANGED fds
  BY <1>1, <1>2 DEF SetSize, WorldType
<1> QED
  BY <1>2, <1>3, ResizeRefines

\* fd_allocate, which may leave the file alone.
LEMMA AllocateRefines ==
    ASSUME IInv, NEW fd \in Fds, NEW off \in Offsets, NEW len \in Offsets, Allocate(fd, off, len)
    PROVE  PStep
<1>1. WorldType /\ HasRights(fd, {"ALLOCATE"}) /\ FitsAt(off, len)
  BY DEF IInv, TypeOK, WorldType, Allocate
<1> DEFINE f == fds[fd].file
           n == off + len
<1>2. f \in Files /\ n \in 0..MaxFileBytes
  <2>1. f \in Files
    BY <1>1, OpenDescriptor
  <2>2. off \in Nat /\ len \in Nat /\ off + len <= MaxFileBytes
    BY <1>1, Sizes, ArgumentsAssumption DEF FitsAt
  <2> QED
    BY <2>1, <2>2, Sizes
<1>3. bytes' = [bytes EXCEPT ![f] = resize(bytes[f], n)] \/ bytes' = bytes
  BY <1>1, <1>2 DEF Allocate, WorldType
<1>4. UNCHANGED fds
  BY DEF Allocate
<1> HIDE DEF n
<1> QED
  BY <1>2, <1>3, <1>4, ResizeRefines, NothingChanges

\* commit_seek.
LEMMA CommitSeekRefines == ASSUME IInv, CommitSeek PROVE PStep
<1>0. WorldType /\ call \in CallType /\ HasRights(call.fd, {}) /\ UNCHANGED bytes
  BY DEF IInv, TypeOK, WorldType, CommitSeek, Committing
<1>1. call.fd \in Fds /\ fds[call.fd] # Closed /\ call.off \in U64
  BY <1>0, Locals DEF HasRights
<1>2. fds' = [fds EXCEPT ![call.fd].off = call.off]
  BY <1>0 DEF CommitSeek
<1>3. Cursors' = [Cursors EXCEPT ![call.fd].pos = call.off] /\ Cursors[call.fd] # Closed
  BY <1>0, <1>1, <1>2, CursorMoves, OpenCursor
<1>4. UNCHANGED <<Contents, Ends>>
  BY <1>0, NothingChanges
<1>5. Posix!Seek(call.fd)
  BY <1>1, <1>3, <1>4 DEF Posix!Seek, U64
<1> QED
  BY <1>1, <1>5 DEF PStep, Posix!Next

\* A read moves the cursor by what it delivered, which the file held.
LEMMA CommitReadRefines == ASSUME DInv, CommitRead PROVE PStep
<1>0. /\ IInv /\ WorldType /\ SizeBounded /\ call \in CallType /\ Committing /\ Delivering
      /\ UNCHANGED bytes /\ call.phase = "commit" /\ call.op = "fd_read"
  BY DEF DInv, IInv, TypeOK, WorldType, CommitRead
<1>1. CASE call.fd = 0
  BY <1>0, <1>1, NothingChanges DEF CommitRead
<1>2. CASE call.fd # 0
  <2> DEFINE fd == call.fd
             s == bytes[fds[fd].file]
             from == fds[fd].off
  <2>1. HasRights(fd, {"READ"})
    BY <1>0, <1>2 DEF Committing, Accepts, Readers
  <2>2. /\ fd \in Fds /\ fds[fd] # Closed /\ s \in Seq(Word) /\ from \in Nat /\ fds[fd].file \in Files
        /\ call.total \in Nat /\ call.done \in Nat /\ call.data \in Seq(Word) /\ fds[fd] \in Descriptor
    BY <1>0, <2>1, OpenDescriptor, Locals DEF HasRights
  <2>3. fds' = [fds EXCEPT ![fd].off = Least(from + call.done, MaxU64)]
    BY <1>0, <1>2, <2>1, <2>2 DEF CommitRead, WorldType
  <2>4. call.data = Segment(s, from, call.total) /\ call.done <= Len(call.data)
    BY <1>0, <1>2 DEF Delivering, Got, Source, From, Cursor
  <2>5. Len(s) <= MaxFileBytes /\ Len(s) \in Nat /\ from \in U64 /\ from <= MaxU64 /\ Len(call.data) \in Nat
    BY <1>0, <2>2, Sizes DEF SizeBounded, Descriptor, U64
  <2>6. Cursors[fd] # Closed /\ Cursors[fd].pos = from /\ Ends[Cursors[fd].file] = Len(s)
    <3>1. /\ Cursors[fd] = [file |-> fds[fd].file, pos |-> from, app |-> fds[fd].app]
          /\ Cursors[fd] # Closed /\ Ends[fds[fd].file] = Len(s)
      BY <1>0, <2>2, OpenCursor
    <3> HIDE DEF s, from
    <3> QED
      BY <3>1
  <2>7. UNCHANGED <<Contents, Ends>>
    BY <1>0, NothingChanges
  <2>8. Len(Segment(s, from, call.total)) = IF from >= Len(s) THEN 0 ELSE Least(Len(s) - from, call.total)
    BY <2>2, SegmentLength
  <2> HIDE DEF s, from
  <2>9. CASE call.done = 0
    <3>1. Least(from + call.done, MaxU64) = from
      BY <2>2, <2>5, <2>9, Sizes DEF Least
    <3>2. fds' = fds
      BY <1>0, <2>2, <2>3, <3>1 DEF WorldType, Descriptor, from
    <3> QED
      BY <1>0, <3>2, NothingChanges
  <2>10. CASE call.done # 0
    <3>1. from + call.done <= Len(s) /\ call.done \in 1..MaxFileBytes
      <4>1. Len(call.data) # 0 /\ Len(call.data) = IF from >= Len(s) THEN 0 ELSE Least(Len(s) - from, call.total)
        BY <2>2, <2>4, <2>5, <2>8, <2>10
      <4> QED
        BY <2>2, <2>4, <2>5, <2>10, <4>1, Sizes DEF Least
    <3>2. Least(from + call.done, MaxU64) = from + call.done /\ from + call.done \in U64
      BY <2>2, <2>5, <3>1, Sizes DEF Least, U64
    <3>3. Cursors' = [Cursors EXCEPT ![fd].pos = from + call.done]
      BY <1>0, <2>2, <2>3, <3>2, CursorMoves
    <3>4. Posix!Read(fd, call.done)
      BY <2>6, <2>7, <3>1, <3>3 DEF Posix!Read
    <3> QED
      BY <2>2, <3>1, <3>4 DEF PStep, Posix!Next
  <2> QED
    BY <2>9, <2>10
<1> QED
  BY <1>1, <1>2

\* A write puts its bytes where the descriptor says and nowhere else.
LEMMA CommitWriteRefines == ASSUME IInv, CommitWrite PROVE PStep
<1> DEFINE fd == call.fd
           start == IF call.op = "fd_write" THEN WriteStart(fd) ELSE call.off
           f == fds[fd].file
           n == Len(Payload)
           new == Overwrite(bytes[f], start, Payload)
<1>0. /\ WorldType /\ SizeBounded /\ call \in CallType /\ WriteErrno = "SUCCESS" /\ call.op \in Writers
      /\ Payload \in Seq(Word) /\ Payload = call.data
  BY Locals DEF IInv, TypeOK, WorldType, CommitWrite, Committing, Payload
<1>1. CASE fd \in {1, 2} \/ Payload = <<>>
  BY <1>0, <1>1, NothingChanges DEF CommitWrite
<1>2. CASE fd \notin {1, 2} /\ Payload # <<>>
  <2>1. HasRights(fd, {}) /\ FitsAt(start, Len(Payload))
    BY <1>0, <1>2 DEF WriteErrno, prepare_write, prepare_pwrite, Writers
  <2>2. /\ fd \in Fds /\ fds[fd] # Closed /\ fds[fd].off \in Nat /\ f \in Files /\ bytes[f] \in Seq(Word)
        /\ n \in Nat /\ n # 0
    <3>1. \A t \in Seq(Word) : Len(t) \in Nat /\ (t # <<>> => Len(t) # 0)
      OBVIOUS
    <3>2. n \in Nat /\ n # 0
      BY <1>0, <1>2, <3>1
    <3>3. /\ fd \in Fds /\ fds[fd].off \in Nat /\ f \in Files /\ bytes[f] \in Seq(Word)
      BY <1>0, <2>1, OpenDescriptor
    <3> QED
      BY <2>1, <3>2, <3>3 DEF HasRights
  <2>3. start \in Nat
    BY <1>0, <2>2, Locals DEF WriteStart
  <2>4. /\ bytes' = [bytes EXCEPT ![f] = new]
        /\ fds' = IF call.op = "fd_write" THEN [fds EXCEPT ![fd].off = start + n] ELSE fds
    BY <1>0, <1>2, <2>2 DEF CommitWrite, WorldType
  <2>5. /\ Cursors[fd] = [file |-> f, pos |-> fds[fd].off, app |-> fds[fd].app] /\ Cursors[fd] # Closed
        /\ Ends[f] = Len(bytes[f])
    BY <1>0, <2>2, OpenCursor
  <2>6. call.op = "fd_write" => start = IF Cursors[fd].app THEN Ends[Cursors[fd].file] ELSE Cursors[fd].pos
    BY <2>5 DEF WriteStart
  <2>7. Contents' = [Contents EXCEPT ![f] = Padded(new)] /\ Ends' = [Ends EXCEPT ![f] = Len(new)]
    BY <1>0, <2>2, <2>4, FileChanges DEF WorldType
  <2> HIDE DEF start
  <2>8. /\ start + n <= MaxFileBytes /\ n \in 1..MaxFileBytes /\ start \in 0..MaxFileBytes
        /\ start + n \in U64
    BY <2>1, <2>2, <2>3, Sizes DEF FitsAt, U64
  <2>9. new \in Seq(Word) /\ Len(new) = Posix!Larger(Ends[f], start + n)
    <3>1. Len(new) = IF Len(bytes[f]) < start + n THEN start + n ELSE Len(bytes[f])
      BY <1>0, <2>2, <2>3, Overwritten
    <3>2. new \in Seq(Word)
      BY <1>0, <2>2, <2>3, Overwritten
    <3>3. Len(bytes[f]) \in Nat /\ start + n \in Nat
      BY <2>2, <2>3
    <3> HIDE DEF new, n
    <3> QED
      BY <2>5, <3>1, <3>2, <3>3 DEF Posix!Larger
  <2>10. Contents \in [Files -> [1..MaxFileBytes -> Word]] /\ Padded(new) \in [1..MaxFileBytes -> Word]
    BY <1>0, <2>9, PaddedType DEF Contents, WorldType
  <2>11. ASSUME NEW k \in 1..MaxFileBytes, k \notin (start + 1)..(start + n)
         PROVE  Padded(new)[k] = Contents[f][k]
    BY <1>0, <2>2, <2>3, <2>11, PaddedOverwrite DEF Contents
  <2> HIDE DEF new, n
  <2>12. \A g \in Files, k \in 1..MaxFileBytes :
           g # f \/ k \notin (start + 1)..(start + n) => Contents'[g][k] = Contents[g][k]
    BY <2>2, <2>7, <2>10, <2>11
  <2>13. Contents' \in [Files -> [1..MaxFileBytes -> Word]]
    BY <2>2, <2>7, <2>10
  <2>14. Posix!Put(f, start, n)
    BY <2>7, <2>8, <2>9, <2>12, <2>13 DEF Posix!Put
  <2>15. CASE call.op = "fd_write"
    <3>1. Cursors' = [Cursors EXCEPT ![fd].pos = start + n]
      BY <1>0, <2>2, <2>4, <2>8, <2>15, CursorMoves
    <3>2. Posix!Write(fd, n)
      <4>1. Cursors[fd].file = f
        BY <2>5
      <4>2. Posix!Put(Cursors[fd].file, IF Cursors[fd].app THEN Ends[Cursors[fd].file] ELSE Cursors[fd].pos, n)
        BY <2>6, <2>14, <2>15, <4>1
      <4> QED
        BY <2>5, <2>6, <2>15, <3>1, <4>2 DEF Posix!Write
    <3> QED
      BY <2>2, <2>8, <3>2 DEF PStep, Posix!Next
  <2>16. CASE call.op # "fd_write"
    <3>1. UNCHANGED Cursors
      BY <2>4, <2>16, NothingChanges
    <3>2. Posix!WriteAt(fd, start, n)
      BY <2>5, <2>14, <3>1 DEF Posix!WriteAt
    <3> QED
      BY <2>2, <2>8, <3>2 DEF PStep, Posix!Next
  <2> QED
    BY <2>15, <2>16
<1> QED
  BY <1>1, <1>2

\* The mounted files are byte arrays.
LEMMA InitRefines == Init => Posix!Init
<1> SUFFICES ASSUME Init PROVE Posix!Init
  OBVIOUS
<1>0. bytes \in [Files -> Seq(Word)] /\ \A f \in Files : Len(bytes[f]) \in 0..MaxFileBytes
  BY InitialAssumption, Sizes DEF Init
<1>1. Contents \in [Files -> [1..MaxFileBytes -> Word]] /\ Ends \in [Files -> 0..MaxFileBytes]
  BY <1>0, PaddedType DEF Contents, Ends
<1>2. ASSUME NEW f \in Files, NEW k \in (Ends[f] + 1)..MaxFileBytes PROVE Contents[f][k] = 0
  <2>1. Ends[f] = Len(bytes[f]) /\ Contents[f] = Padded(bytes[f]) /\ Len(bytes[f]) \in Nat
    BY <1>0 DEF Ends, Contents
  <2>2. k \in 1..MaxFileBytes /\ ~(k <= Len(bytes[f]))
    BY <2>1, Sizes
  <2> QED
    BY <2>1, <2>2 DEF Padded
<1>3. Cursors = [fd \in Fds |-> Closed]
  BY DEF Init, Cursors, CursorOf
<1> QED
  BY <1>1, <1>2, <1>3 DEF Posix!Init

\* Every step, with those that only walk, check or fill memory.
LEMMA StepRefines == DInv /\ [Next]_vars => PStep
<1> SUFFICES ASSUME DInv, [Next]_vars PROVE PStep
  OBVIOUS
<1>0. IInv
  BY DEF DInv
<1>1. CASE Stage
  <2>1. CASE Gather \/ CheckWrite \/ CheckRead \/ Scatter \/ StoreResult
    BY <2>1, NothingChanges DEF Gather, CheckWrite, CheckRead, Scatter, StoreResult, world
  <2> QED
    BY <1>0, <1>1, <2>1, CommitWriteRefines, CommitReadRefines, CommitSeekRefines DEF Stage
<1>2. CASE UNCHANGED world
  BY <1>2, NothingChanges DEF world
<1>3. CASE GuestStores \/ \E o \in {1, 2} : TakeOutput(o)
  BY <1>3, NothingChanges DEF GuestStores, TakeOutput
<1>4. CASE \E op \in Readers \cup Writers, fd \in Streams \cup Fds, iovs \in Ptrs, n \in Counts,
              nptr \in ResultPtrs, off \in Offsets : Start(op, fd, iovs, n, nptr, off)
  BY <1>2, <1>4 DEF Start
<1>5. CASE \E fd \in Fds, delta \in Deltas, whence \in {"SET", "CUR", "END"}, nptr \in ResultPtrs :
              Seek(fd, delta, whence, nptr)
  BY <1>2, <1>5 DEF Seek
<1>6. CASE \E fd \in Fds, nptr \in ResultPtrs : Tell(fd, nptr)
  BY <1>2, <1>6 DEF Tell
<1> QED
  BY <1>0, <1>1, <1>2, <1>3, <1>4, <1>5, <1>6, OpenRefines, CloseRefines, SetFlagsRefines, SetSizeRefines,
     AllocateRefines DEF Next, vars

-----------------------------------------------------------------------------
\* Theorems

\* The inductive invariant holds in every reachable state.
THEOREM Invariance == Spec => []IInv
  BY InitIInv, NextIInv, PTL DEF Spec

\* Every variable keeps the type of the field it stands for: memory holds
\* words, cursors stay in u64, standard input is never read past its end.
THEOREM TypeCorrect == Spec => []TypeOK
<1>1. IInv => TypeOK
  BY DEF IInv
<1> QED
  BY <1>1, Invariance, PTL

\* No sequence of calls takes a file past MAX_FILE_BYTES.
THEOREM FilesStayBounded == Spec => []SizeBounded
<1>1. IInv => SizeBounded
  BY DEF IInv
<1> QED
  BY <1>1, Invariance, PTL

\* A call that does not succeed leaves no trace: memory, files, cursors,
\* standard input and output are as the call found them.
THEOREM CallsFailClosed == Spec => FailsClosed
<1> DEFINE A == ~Idle /\ Idle' /\ errno' # "SUCCESS" => world' = call.world0
<1>1. IInv /\ [Next]_vars => [A]_vars
  <2> SUFFICES ASSUME IInv, Next, ~Idle, Idle', errno' # "SUCCESS"
               PROVE  world' = call.world0
    OBVIOUS
  <2>1. Stage
    BY OnlyStages
  <2>2. Gather \/ CheckWrite \/ CheckRead
    BY <2>1, ScatterStep, StoreResultStep, CommitWriteStep, CommitReadStep, CommitSeekStep DEF Stage
  <2>3. call.phase = "gather" /\ UNCHANGED world
    BY <2>2 DEF Gather, CheckWrite, CheckRead
  <2> QED
    BY <2>3 DEF IInv, Walking
<1> QED
  BY <1>1, Invariance, PTL DEF Spec, FailsClosed

\* What fd_read has at hand at every stage is what the source holds at the
\* cursor, and the number it stores is the number it delivered.
THEOREM ReadsDeliver == Spec => []Delivering
<1>1. DInv => Delivering
  BY DEF DInv
<1> QED
  BY <1>1, InitDelivering, NextDelivering, PTL DEF Spec

\* A write through an appending descriptor keeps every byte of the file.
THEOREM AppendsKeepContents == Spec => AppendKeepsContents
<1> DEFINE A == ~Idle /\ Idle' /\ call.op = "fd_write" /\ call.fd \in Fds =>
                  LET old == bytes[fds[call.fd].file]  new == bytes'[fds[call.fd].file]
                  IN fds[call.fd].app => Len(old) <= Len(new) /\ SubSeq(new, 1, Len(old)) = old
<1>1. IInv /\ [Next]_vars => [A]_vars
  BY AppendStep
<1> QED
  BY <1>1, Invariance, PTL DEF Spec, AppendKeepsContents

\* The hang-up poll_oneoff reports on a file is the end a read runs into.
THEOREM PollsAgreeWithReads == Spec => PollAgreesWithRead
<1> DEFINE A == ~Idle /\ Idle' /\ errno' = "SUCCESS" /\ call.op = "fd_read" /\ call.fd \in Fds /\ call.total > 0 =>
                  (AtEof(call.fd) <=> mem'[call.nptr] = 0)
<1>1. DInv /\ [Next]_vars => [A]_vars
  BY PollStep
<1> QED
  BY <1>1, InitDelivering, NextDelivering, PTL DEF Spec, PollAgreesWithRead

\* The handlers, with their stages, their checks and their failures, implement
\* zero-filled byte arrays on which every call takes effect in one step.
THEOREM FilesAreByteArrays == Spec => ImplementsPosixFile
<1>1. DInv /\ [Next]_vars => [Posix!Next]_(Posix!vars)
  BY StepRefines DEF PStep
<1> QED
  BY <1>1, InitRefines, InitDelivering, NextDelivering, PTL DEF Spec, ImplementsPosixFile, Posix!Spec
=============================================================================
