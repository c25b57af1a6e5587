----------------------------- MODULE PosixFile -----------------------------
(***************************************************************************)
(* What an embedder and a guest may assume of the bytes behind file        *)
(* descriptors: a file is an array of bytes, zero from its size on; every  *)
(* descriptor has a cursor of its own; each call takes effect in one step. *)
(***************************************************************************)
EXTENDS Integers, Sequences

CONSTANTS
    Files,      \* contents that names and descriptors share
    Fds,        \* descriptors
    Bytes,      \* values of a byte; 0 is one
    Capacity,   \* bytes a file can hold
    MaxPos,     \* the largest cursor
    Closed      \* a descriptor that is not open

VARIABLES
    data,       \* [Files -> [1..Capacity -> Bytes]]
    size,       \* [Files -> 0..Capacity]
    cursors     \* [Fds -> [file, pos, app]]

vars == <<data, size, cursors>>

Larger(a, b) == IF a > b THEN a ELSE b

Init == /\ data \in [Files -> [1..Capacity -> Bytes]]
        /\ size \in [Files -> 0..Capacity]
        /\ \A f \in Files : \A k \in (size[f] + 1)..Capacity : data[f][k] = 0
        /\ cursors = [fd \in Fds |-> Closed]

\* n bytes are put into file f after the first start; no other byte changes.
Put(f, start, n) ==
    /\ start + n <= Capacity
    /\ data' \in [Files -> [1..Capacity -> Bytes]]
    /\ \A g \in Files, k \in 1..Capacity :
          g # f \/ k \notin (start + 1)..(start + n) => data'[g][k] = data[g][k]
    /\ size' = [size EXCEPT ![f] = Larger(@, start + n)]

\* A write goes to the end of the file if the descriptor appends, to the
\* cursor if not, and leaves the cursor behind what it wrote.
Write(fd, n) ==
    /\ cursors[fd] # Closed
    /\ LET c == cursors[fd]
           start == IF c.app THEN size[c.file] ELSE c.pos
       IN /\ Put(c.file, start, n)
          /\ cursors' = [cursors EXCEPT ![fd].pos = start + n]

WriteAt(fd, pos, n) ==
    /\ cursors[fd] # Closed
    /\ Put(cursors[fd].file, pos, n)
    /\ UNCHANGED cursors

\* A read moves the cursor, never past the end.
Read(fd, n) ==
    /\ cursors[fd] # Closed
    /\ cursors[fd].pos + n <= size[cursors[fd].file]
    /\ cursors' = [cursors EXCEPT ![fd].pos = @ + n]
    /\ UNCHANGED <<data, size>>

Seek(fd) ==
    /\ cursors[fd] # Closed
    /\ \E p \in 0..MaxPos : cursors' = [cursors EXCEPT ![fd].pos = p]
    /\ UNCHANGED <<data, size>>

\* What is cut off is gone: it reads as zero when the file grows again.
SetSize(f, n) ==
    /\ data' = [data EXCEPT ![f] = [k \in 1..Capacity |-> IF k <= n THEN @[k] ELSE 0]]
    /\ size' = [size EXCEPT ![f] = n]
    /\ UNCHANGED cursors

SetAppend(fd, app) ==
    /\ cursors[fd] # Closed
    /\ cursors' = [cursors EXCEPT ![fd].app = app]
    /\ UNCHANGED <<data, size>>

\* An open may truncate.
Open(fd, f, app, n) ==
    /\ cursors[fd] = Closed
    /\ n \in {0, size[f]}
    /\ cursors' = [cursors EXCEPT ![fd] = [file |-> f, pos |-> 0, app |-> app]]
    /\ data' = [data EXCEPT ![f] = [k \in 1..Capacity |-> IF k <= n THEN @[k] ELSE 0]]
    /\ size' = [size EXCEPT ![f] = n]

Close(fd) ==
    /\ cursors[fd] # Closed
    /\ cursors' = [cursors EXCEPT ![fd] = Closed]
    /\ UNCHANGED <<data, size>>

Next == \/ \E fd \in Fds : \/ \E n \in 1..Capacity : Write(fd, n) \/ Read(fd, n)
                           \/ \E n \in 1..Capacity, p \in 0..Capacity : WriteAt(fd, p, n)
                           \/ Seek(fd) \/ Close(fd)
                           \/ \E app \in BOOLEAN : SetAppend(fd, app)
                           \/ \E f \in Files, app \in BOOLEAN, n \in 0..Capacity : Open(fd, f, app, n)
        \/ \E f \in Files, n \in 0..Capacity : SetSize(f, n)

Spec == Init /\ [][Next]_vars
=============================================================================
