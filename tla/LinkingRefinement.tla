------------------------- MODULE LinkingRefinement -------------------------
(***************************************************************************)
(* The staged instantiation of InstanceLinking implements AtomicLinking.   *)
(* While the stages of with_config run, the abstract tables and memories   *)
(* are the ones that were there before; the abstract step is taken when    *)
(* the last segment has been written.                                      *)
(***************************************************************************)
EXTENDS InstanceLinking

Visible(a) == a # Nil /\ status[a] \in {"starting", "live"}

Atomic == INSTANCE AtomicLinking WITH
    insts <- {a \in Addr : Visible(a)},
    bound <- [h \in Handles |-> IF owner[h] # Nil /\ Visible(owner[h])
                                THEN owner[h] ELSE Nil],
    slots <- pub.slots,
    mem <- pub.mem

\* with_config, with its separate bind, preflight, data and element stages
\* and its failures in between, implements indivisible linking.
ImplementsAtomicLinking == Atomic!Spec

=============================================================================
