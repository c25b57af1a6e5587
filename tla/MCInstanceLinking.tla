------------------------- MODULE MCInstanceLinking -------------------------
(* Small instances of InstanceLinking for TLC. *)
EXTENDS LinkingRefinement, TLC

CONSTANTS a1, a2, h1, h2, m1

MCAddr == {a1, a2}
OneAddr == {a1}
MCHandles == {h1, h2}
MCMems == {m1}
MCTypes == {"i", "v"}
MCBytes == {0, 1}
MCInitMem == [m \in MCMems |-> <<0>>]
Lim(min, max) == [min |-> min, max |-> max]

\* sharing: a table every module can use, one only its maximum (none) keeps
\* Importer from, and one too short for all of them.
SharingLimits == {Lim(1, 2), Lim(1, NoMax), Lim(0, 1)}
MCLimits == {Lim(1, 2), Lim(0, NoMax)}

Elem(t, off, fns) == [t |-> t, off |-> off, fns |-> fns]
Data(off, bytes) == [mem |-> m1, off |-> off, bytes |-> bytes]

\* Imports one table and fills its first slot; writes memory; has a start
\* function.
Importer ==
    [imports |-> <<Lim(1, 2)>>, defines |-> <<>>, sigs |-> <<"v">>,
     active |-> <<Elem(1, 0, <<0>>)>>, passive |-> <<>>,
     data |-> <<Data(0, <<1>>)>>, global |-> Nil, mutable |-> FALSE,
     start |-> TRUE]

\* Imports two tables; its second element segment needs a second slot.
TwoTables ==
    [imports |-> <<Lim(1, NoMax), Lim(1, NoMax)>>, defines |-> <<>>,
     sigs |-> <<"v", "i">>,
     active |-> <<Elem(1, 0, <<Nil>>), Elem(2, 1, <<1>>)>>, passive |-> <<>>,
     data |-> <<Data(0, <<1>>)>>, global |-> Nil, mutable |-> FALSE, start |-> FALSE]

\* Needs more memory than there is.
BadData ==
    [imports |-> <<Lim(1, 2)>>, defines |-> <<>>, sigs |-> <<"i">>,
     active |-> <<Elem(1, 0, <<0>>)>>, passive |-> <<>>,
     data |-> <<Data(0, <<1>>), Data(1, <<1>>)>>, global |-> Nil,
     mutable |-> FALSE, start |-> FALSE]

\* Defines its table, with a passive segment and a funcref global.
Definer ==
    [imports |-> <<>>, defines |-> <<Lim(1, 2)>>, sigs |-> <<"i", "v">>,
     active |-> <<>>, passive |-> <<<<1, Nil>>>>, data |-> <<>>, global |-> 1,
     mutable |-> TRUE, start |-> FALSE]

\* Imports a table, with or without a maximum, and defines one, so that
\* table.copy crosses tables; its start function may fail while it still owns
\* a table nobody else has seen.
Toolbox ==
    [imports |-> <<Lim(0, NoMax)>>, defines |-> <<Lim(1, 1)>>, sigs |-> <<"i">>,
     active |-> <<>>, passive |-> <<<<0, Nil>>>>, data |-> <<>>, global |-> 0,
     mutable |-> TRUE, start |-> TRUE]

\* Has a funcref global and nothing else that matters.
RefHolder ==
    [imports |-> <<>>, defines |-> <<>>, sigs |-> <<"v">>,
     active |-> <<>>, passive |-> <<>>, data |-> <<>>, global |-> 0,
     mutable |-> FALSE, start |-> FALSE]

SharingModules == {Importer, TwoTables, BadData}
GuestModules   == {Toolbox, RefHolder}
GlobalModules  == {Definer, RefHolder}

Symm == Permutations(Addr) \cup Permutations(Handles)

=============================================================================
