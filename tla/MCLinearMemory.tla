--------------------------- MODULE MCLinearMemory ---------------------------
(* Constants for model checking LinearMemory. *)
EXTENDS LinearMemory, TLC

T(min, max, m64) == [min |-> min, max |-> max, m64 |-> m64]

\* One handle may grow as far as memories go, the other to one page.
MCHandleTypes == {T(1, None, TRUE), T(0, 1, TRUE)}

\* An importer that relies on the maximum; a module with a memory of its own,
\* of the other width, next to one it imports.
MCModules == {[imports |-> <<T(0, 1, TRUE)>>, defined |-> <<>>, data |-> <<1>>],
              [imports |-> <<T(0, None, TRUE)>>, defined |-> <<T(1, 2, FALSE)>>, data |-> <<>>]}

\* Nothing tells memories or instances apart.
Symmetry == Permutations(Mems) \cup Permutations(Insts)
=============================================================================
