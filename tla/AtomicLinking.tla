--------------------------- MODULE AtomicLinking ---------------------------
(***************************************************************************)
(* What instantiation promises to code that shares tables and memories     *)
(* with an instance: linking a module is one indivisible step.  Either all *)
(* its imports are free and all its active segments are applied together,  *)
(* or nothing that was visible before changes (README.md, "Preflight       *)
(* host-visible initialization"; docs/architecture.md, one TableHandle for *)
(* at most one live instance).  A failed instantiation is no step at all.  *)
(***************************************************************************)
EXTENDS Integers, Sequences, Functions

CONSTANTS Addr, Handles, Modules, MaxBirths, Nil

VARIABLES
    insts,   \* instances past initialization
    bound,   \* the instance a table belongs to, or Nil
    slots,   \* contents of the tables
    mem      \* contents of the host memories

vars == <<insts, bound, slots, mem>>

\* The tables of a module with the table index space ts before its segments
\* are applied: a table it defines is empty, an imported one is as it was.
Before(m, ts) ==
    [h \in Handles |->
        IF h \in Range(ts) /\ \A k \in DOMAIN ts : ts[k] = h => k > Len(m.imports)
        THEN LET k == CHOOSE k \in DOMAIN ts : ts[k] = h
             IN  [j \in 1..m.defines[k - Len(m.imports)].min |-> Nil]
        ELSE slots[h]]

\* The reference that incarnation n of a makes for its function f.
Reference(a, n, f) == IF f = Nil THEN Nil ELSE [owner |-> a, fn |-> f, origin |-> n]

\* Segments are applied in the order of the module: the last one wins.
Latest(K) == CHOOSE k \in K : \A j \in K : j <= k

\* The active element segments among K that give slot i of table h a value.
Elems(K, m, ts, h, i) ==
    {k \in K : ts[m.active[k].t] = h /\ i - m.active[k].off \in DOMAIN m.active[k].fns}

\* The data segments among K that give cell i of memory q a value.
Datas(K, m, q, i) == {k \in K : m.data[k].mem = q /\ i - m.data[k].off \in DOMAIN m.data[k].bytes}

\* Tables and memories after the segments K have been applied.
TablesAfter(K, m, ts, a, n) ==
    [h \in Handles |->
        [i \in DOMAIN Before(m, ts)[h] |->
            IF Elems(K, m, ts, h, i) = {} THEN Before(m, ts)[h][i]
            ELSE LET k == Latest(Elems(K, m, ts, h, i))
                 IN  Reference(a, n, m.active[k].fns[i - m.active[k].off])]]

MemoriesAfter(K, m) ==
    [q \in DOMAIN mem |->
        [i \in DOMAIN mem[q] |->
            IF Datas(K, m, q, i) = {} THEN mem[q][i]
            ELSE LET k == Latest(Datas(K, m, q, i))
                 IN  m.data[k].bytes[i - m.data[k].off]]]

\* Instance a of module m comes into being with the table index space ts; n
\* is the mark of this incarnation of a in the references it makes.
Link(a, m, ts, n) ==
    /\ \A h \in Range(ts) : bound[h] = Nil
    /\ bound' = [h \in Handles |-> IF h \in Range(ts) THEN a ELSE bound[h]]
    /\ slots' = TablesAfter(DOMAIN m.active, m, ts, a, n)
    /\ mem' = MemoriesAfter(DOMAIN m.data, m)

\* An instance ends; tables only it had may go with it.
Unlink(a) ==
    /\ a \in insts
    /\ insts' = insts \ {a}
    /\ bound' = [h \in Handles |-> IF bound[h] = a THEN Nil ELSE bound[h]]
    /\ \A h \in Handles : slots'[h] # slots[h] => bound[h] = a /\ slots'[h] = <<>>
    /\ mem' = mem

\* Code of an instance writes one of its own tables.
GuestWrite(a, h) ==
    /\ a \in insts /\ bound[h] = a
    /\ Len(slots'[h]) >= Len(slots[h])
    /\ slots' = [slots EXCEPT ![h] = slots'[h]]
    /\ UNCHANGED <<insts, bound, mem>>

\* The embedder writes a slot of a table, or creates or forgets a table that
\* no instance has.
HostWrite(h) ==
    /\ slots' = [slots EXCEPT ![h] = slots'[h]]
    /\ bound[h] = Nil \/ Len(slots'[h]) = Len(slots[h])
    /\ UNCHANGED <<insts, bound, mem>>

Init ==
    /\ insts = {}
    /\ bound = [h \in Handles |-> Nil]
    /\ slots = [h \in Handles |-> <<>>]

Next ==
    \/ \E a \in Addr \ insts :
         /\ insts' = insts \cup {a}
         /\ \E m \in Modules, n \in 1..MaxBirths :
              \E ts \in [1..(Len(m.imports) + Len(m.defines)) -> Handles] :
                  Link(a, m, ts, n)
    \/ \E a \in Addr : Unlink(a)
    \/ \E a \in Addr, h \in Handles : GuestWrite(a, h)
    \/ \E h \in Handles : HostWrite(h)

Spec == Init /\ [][Next]_vars

=============================================================================
