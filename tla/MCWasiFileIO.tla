---------------------------- MODULE MCWasiFileIO ----------------------------
(* Constants for model checking FileIOContract. *)
EXTENDS FileIOContract

Image(s) == [a \in Addresses |-> s[a + 1]]

\* transfers: two vectors at 0, of buffers and a result that may lie over them.
OverlapImages == {Image(s) : s \in {<<3, 2, 4, 1, 5, 6>>,    \* over the second vector and the second buffer
                                    <<2, 1, 4, 1, 5, 3>>,    \* over the second vector; the file fills both
                                    <<5, 1, 5, 2, 2, 6>>}}   \* the second buffer leaves memory
OneFile == [f \in Files |-> <<6, 7>>]
AnyRights == {Rights}
TransferRights == {{"READ", "WRITE", "SEEK"}}
MCStdin == <<3, 1>>

\* cursors: a buffer of one byte, and one of two that shares a cell with its vector.
CursorImages == {Image(<<2, 1, 1>>), Image(<<1, 2, 0>>)}
ShortFile == [f \in Files |-> <<1, 2>>]
MCDeltas == {-1, 2}
NoStdin == <<>>
=============================================================================
