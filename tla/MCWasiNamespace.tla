-------------------------- MODULE MCWasiNamespace --------------------------
(***************************************************************************)
(* Instances of WasiNamespace for TLC.                                     *)
(***************************************************************************)
EXTENDS WasiNamespace

CONSTANTS a, b

TwoNames == {a, b}
DotDot   == {".."}

\* Descriptor 3 is a writable preopen and 4, where there is one, is not.
OnePreopen  == {3}
TwoPreopens == {3, 4}
Writable3   == {3}

F(p, n, i, w) == [pre |-> p, path |-> n, ino |-> i, wr |-> w]
\* A read-only file in each preopen.
ReadOnlyInEach == {F(3, <<a>>, 1, FALSE), F(4, <<a>>, 2, FALSE)}
OneFile == {F(3, <<a>>, 1, TRUE)}

Nested    == {<<a>>, <<b>>, <<a, b>>}
FewPaths  == {<<"..">>, <<a>>, <<b>>, <<a, b>>}

AllDir    == {AllowedDirRights, {"OPEN", "READDIR", "READLINK", "STAT"}}
SomeFile  == {{"READ"}, {"WRITE", "SEEK", "SET_TIMES"}}
WriteOnly == {{"WRITE", "SET_TIMES"}}
=============================================================================
