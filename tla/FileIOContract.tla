--------------------------- MODULE FileIOContract ---------------------------
(***************************************************************************)
(* What a completed read or write has done, said without reference to the  *)
(* stages of the handlers, and the proof obligation that files behave as   *)
(* PosixFile says.                                                         *)
(***************************************************************************)
EXTENDS WasiFileIO, SequencesExt

\* The addresses n vectors at iovs describe in memory m, in order.
Cells(m, iovs, n) ==
    FlattenSeq([i \in 1..n |-> LET v == iovs + 2 * (i - 1)
                               IN [k \in 1..m[v + 1] |-> m[v] + k - 1]])

\* The memory the call found.
Memory0 == call.world0[1]

Succeeds(ops) == ~Idle /\ Idle' /\ errno' = "SUCCESS" /\ call.op \in ops

\* A read stores the bytes from the cursor, or from the offset it was given,
\* into the buffers the vectors described when it was called, as many as there
\* are and as fit; it reports that number; fd_read moves the cursor by it, so
\* no byte of standard input or of a file is skipped or delivered twice.  The
\* buffers may overlap the vectors; where they overlap each other or the
\* result, the later store wins and only the number is promised.
ReadDelivers ==
    [][Succeeds(Readers) =>
         LET cells == Cells(Memory0, call.iovs, call.n)
             rest  == IF From < Len(Source) THEN Len(Source) - From ELSE 0
             n     == Least(rest, Len(cells))
         IN /\ mem'[call.nptr] = n
            /\ (IF call.fd = 0 THEN consumed' ELSE fds'[call.fd].off)
                  = Cursor + (IF call.op = "fd_read" THEN n ELSE 0)
            /\ (\A i, j \in 1..n : cells[i] = cells[j] => i = j) /\ (\A i \in 1..n : cells[i] # call.nptr) =>
                  \A i \in 1..n : mem'[cells[i]] = Source[From + i]]_vars

\* A write puts exactly the bytes the guest's buffers held when it was called
\* where the descriptor says, and reports their number, also when the result
\* is stored over a buffer or a vector.
WriteDelivers ==
    [][Succeeds(Writers) =>
         LET cells == Cells(Memory0, call.iovs, call.n)
             sent  == [i \in 1..Len(cells) |-> Memory0[cells[i]]]
         IN /\ mem'[call.nptr] = Len(sent)
            /\ IF call.fd \in {1, 2} THEN out'[call.fd] = out[call.fd] \o sent
               ELSE LET start == IF call.op = "fd_write" THEN WriteStart(call.fd) ELSE call.off
                    IN \A i \in 1..Len(sent) : bytes'[fds[call.fd].file][start + i] = sent[i]]_vars

-----------------------------------------------------------------------------
\* The refinement mapping: bytes past the end of a file are zero.
Padded(s)   == [k \in 1..MaxFileBytes |-> IF k <= Len(s) THEN s[k] ELSE 0]
Contents    == [f \in Files |-> Padded(bytes[f])]
Ends        == [f \in Files |-> Len(bytes[f])]
CursorOf(d) == IF d = Closed THEN Closed ELSE [file |-> d.file, pos |-> d.off, app |-> d.app]
Cursors     == [fd \in Fds |-> CursorOf(fds[fd])]

Posix == INSTANCE PosixFile WITH
    Bytes <- Word,
    Capacity <- MaxFileBytes,
    MaxPos <- MaxU64,
    data <- Contents,
    size <- Ends,
    cursors <- Cursors

\* Files are the zero-filled byte arrays of PosixFile and every call takes
\* effect on them in one step: a gap left by a seek reads as zero, bytes cut
\* off by a truncation never come back, a write through one descriptor moves
\* no other cursor, an append goes to the end as it is at that moment.
ImplementsPosixFile == Posix!Spec
=============================================================================
