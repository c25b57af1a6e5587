---------------------------- MODULE LinkingProofs ----------------------------
(***************************************************************************)
(* Instantiation and linking, for every set of modules, instances, tables  *)
(* and memories and any sequence of instantiations, failures and drops:    *)
(* who owns a table; what the tables, globals and segments contain, on top *)
(* of the ownership invariant; and, from both, that the staged             *)
(* instantiation of with_config implements indivisible linking.            *)
(***************************************************************************)
EXTENDS LinkingRefinement, TLAPS

-----------------------------------------------------------------------------
(* Ownership.                                                              *)

\* The part of the state that ownership depends on has its type.
OwnershipTypes ==
    /\ status \in [Addr -> {"free", "building", "starting", "live"}]
    /\ prog \in [Addr -> Modules \cup {Nil}]
    /\ tabs \in [Addr -> Seq(Handles)]
    /\ owner \in [Handles -> Addr \cup {Nil}]
    /\ made \subseteq Handles
    /\ stack \in Seq(Addr)
    /\ build \in Build
    /\ mode \in BuildModes \cup {"host", "guest"}

\* An address without an instance has no tables, and the others have a module.
FreeIsEmpty == \A a \in Addr : IF status[a] = "free" THEN tabs[a] = <<>> ELSE prog[a] \in Modules

\* Only an existing backing store is bound.
BoundIsMade == \A h \in Handles : owner[h] # Nil => h \in made

\* Instances with an invocation under way exist and are entered once.
StackLive ==
    /\ \A k \in 1..Len(stack) : status[stack[k]] \in {"starting", "live"}
    /\ \A j, k \in 1..Len(stack) : stack[j] = stack[k] => j = k
    /\ mode = "guest" => stack # <<>>

\* During with_config the instance under construction exists, its imports do,
\* and its table index space is complete once the tables are bound.
Building ==
    mode \in BuildModes =>
        /\ build.a \in Addr /\ status[build.a] = "building"
        /\ \A k \in DOMAIN build.imp : build.imp[k] \in made
        /\ build.k > 0
        /\ mode # "bind" => Len(tabs[build.a]) = TableCount(prog[build.a])

\* The inductive invariant.
IInv == /\ OwnershipTypes
        /\ FreeIsEmpty
        /\ BoundIsMade
        /\ StackLive
        /\ Building
        /\ BindingExact

-----------------------------------------------------------------------------
\* What a table index space contains after one more table was added.
LEMMA RangeAppend == ASSUME NEW S, NEW s \in Seq(S), NEW e \in S
                     PROVE  /\ Append(s, e) \in Seq(S)
                            /\ Len(Append(s, e)) = Len(s) + 1
                            /\ Range(Append(s, e)) = Range(s) \cup {e}
  <1>1. Append(s, e) \in Seq(S) /\ Len(Append(s, e)) = Len(s) + 1 OBVIOUS
  <1>2. DOMAIN Append(s, e) = 1..(Len(s) + 1) /\ DOMAIN s = 1..Len(s) /\ Len(s) \in Nat OBVIOUS
  <1>3. \A k \in 1..Len(s) : Append(s, e)[k] = s[k] OBVIOUS
  <1>4. Append(s, e)[Len(s) + 1] = e OBVIOUS
  <1>5. Range(s) \cup {e} \subseteq Range(Append(s, e))
    BY <1>2, <1>3, <1>4 DEF Range
  <1>6. Range(Append(s, e)) \subseteq Range(s) \cup {e}
    <2> SUFFICES ASSUME NEW k \in 1..(Len(s) + 1)
                 PROVE  Append(s, e)[k] \in Range(s) \cup {e}
      BY <1>2 DEF Range
    <2> QED BY <1>2, <1>3, <1>4 DEF Range
  <1> QED BY <1>1, <1>5, <1>6

\* A stack without its last element.
LEMMA PopSeq == ASSUME NEW S, NEW s \in Seq(S), Len(s) \in Nat \ {0}
                PROVE  /\ SubSeq(s, 1, Len(s) - 1) \in Seq(S)
                       /\ Len(SubSeq(s, 1, Len(s) - 1)) = Len(s) - 1
                       /\ \A k \in 1..(Len(s) - 1) : SubSeq(s, 1, Len(s) - 1)[k] = s[k]
  <1> DEFINE n == Len(s) - 1
  <1>1. n \in Nat /\ n <= Len(s) OBVIOUS
  <1>2. SubSeq(s, 1, n) \in Seq(S) BY <1>1
  <1>3. Len(SubSeq(s, 1, n)) = n
    <2>1. CASE n = 0 BY <2>1, SMTT(20)
    <2>2. CASE n > 0 BY <1>1, <2>2, SMTT(20)
    <2> QED BY <1>1, <2>1, <2>2
  <1>4. \A k \in 1..n : SubSeq(s, 1, n)[k] = s[k] BY <1>1
  <1> QED BY <1>2, <1>3, <1>4

\* The tables an instance defines are among its tables.
LEMMA DefinedIsOwn == ASSUME NEW a \in Addr PROVE Defined(a) \subseteq Range(tabs[a])
  BY DEF Defined, Range

\* Initially there is no instance and no table.
LEMMA InitIInv == Init => IInv
  <1> SUFFICES ASSUME Init PROVE IInv OBVIOUS
  <1> USE DEF Init
  <1>1. OwnershipTypes BY DEF OwnershipTypes, Build, NoBuild
  <1>2. FreeIsEmpty /\ BoundIsMade /\ StackLive /\ BindingExact
    BY DEF FreeIsEmpty, BoundIsMade, StackLive, BindingExact
  <1>3. Building BY DEF Building, BuildModes
  <1> QED BY <1>1, <1>2, <1>3 DEF IInv

\* A step outside with_config that leaves instances, bindings and invocations
\* alone.
LEMMA Quiet == ASSUME IInv, UNCHANGED <<status, prog, tabs, owner, made, stack, build>>,
                      mode' \in {"host", "guest"}, mode' = "guest" => stack # <<>>
               PROVE  IInv'
  BY DEF IInv, OwnershipTypes, FreeIsEmpty, BoundIsMade, StackLive, Building, BindingExact, BuildModes

\* Dropping an instance, with or without the tables it defined.
LEMMA DropIInv == ASSUME IInv, NEW a \in Addr, DropInstance(a),
                         NEW H \in {{}, Defined(a)}, Release(H),
                         stack' \in Seq(Addr),
                         \A k \in 1..Len(stack') : stack'[k] # a /\ status[stack'[k]] \in {"starting", "live"},
                         \A j, k \in 1..Len(stack') : stack'[j] = stack'[k] => j = k,
                         mode' = "host", build' \in Build
                  PROVE  IInv'
  <1>0. H \subseteq Range(tabs[a]) BY DefinedIsOwn
  <1>1. OwnershipTypes'
    BY DEF IInv, OwnershipTypes, DropInstance, Release
  <1>2. FreeIsEmpty'
    BY DEF IInv, OwnershipTypes, FreeIsEmpty, DropInstance
  <1>3. BoundIsMade'
    BY DEF IInv, OwnershipTypes, BoundIsMade, Release
  <1>4. StackLive'
    BY DEF IInv, OwnershipTypes, StackLive, DropInstance
  <1>5. Building' BY DEF Building, BuildModes
  <1>6. BindingExact'
    <2> SUFFICES ASSUME NEW h \in Handles, NEW b \in Addr, status'[b] # "free"
                 PROVE  owner'[h] = b <=> h \in Range(tabs'[b])
      BY DEF BindingExact
    <2>1. b # a /\ status[b] # "free" /\ tabs'[b] = tabs[b]
      BY DEF IInv, OwnershipTypes, DropInstance
    <2>2. owner[h] = b <=> h \in Range(tabs[b]) BY <2>1 DEF IInv, BindingExact
    <2>3. CASE h \notin H BY <2>1, <2>2, <2>3 DEF Release
    <2>4. CASE h \in H
      <3>1. H # {} => status[a] # "free"
        BY <1>0 DEF IInv, FreeIsEmpty, Range
      <3>2. owner[h] = a BY <1>0, <2>4, <3>1 DEF IInv, BindingExact
      <3>3. owner'[h] = Nil BY <2>4 DEF Release
      <3> QED BY <2>1, <2>2, <3>2, <3>3, NilAssumption
    <2> QED BY <2>3, <2>4
  <1> QED BY <1>1, <1>2, <1>3, <1>4, <1>5, <1>6 DEF IInv

\* with_config returns an error before the start function.
LEMMA AbortIInv == ASSUME IInv, NEW err, mode \in BuildModes, Abort(err)
                   PROVE  IInv'
  <1>1. build.a \in Addr /\ status[build.a] = "building" BY DEF IInv, Building
  <1>2. stack' = stack /\ stack \in Seq(Addr) BY DEF Abort, IInv, OwnershipTypes
  <1>3. \A k \in 1..Len(stack) : stack[k] # build.a /\ status[stack[k]] \in {"starting", "live"}
    BY <1>1 DEF IInv, StackLive
  <1>4. build' \in Build BY DEF Abort, NoBuild, Build
  <1> QED BY <1>1, <1>2, <1>3, <1>4, DropIInv DEF Abort, IInv, StackLive

\* An invocation ends with an error.
LEMMA UnwindIInv == ASSUME IInv, NEW err, stack # <<>>, mode \notin BuildModes, Unwind(err)
                    PROVE  IInv'
  <1> DEFINE a == Running
  <1>1. stack \in Seq(Addr) /\ Len(stack) \in Nat \ {0} /\ a = stack[Len(stack)] /\ a \in Addr
    BY DEF IInv, OwnershipTypes, Running
  <1>2. /\ stack' = SubSeq(stack, 1, Len(stack) - 1)
        /\ stack' \in Seq(Addr) /\ Len(stack') = Len(stack) - 1
        /\ \A k \in 1..Len(stack') : stack'[k] = stack[k]
    <2>1. stack' = SubSeq(stack, 1, Len(stack) - 1) BY DEF Unwind
    <2> QED BY <1>1, <2>1, PopSeq
  <1>3. /\ \A k \in 1..Len(stack') : stack'[k] # a /\ status[stack'[k]] \in {"starting", "live"}
        /\ \A j, k \in 1..Len(stack') : stack'[j] = stack'[k] => j = k
    BY <1>1, <1>2 DEF IInv, StackLive
  <1>4. build' \in Build /\ mode' = "host" BY DEF IInv, OwnershipTypes, Unwind
  <1>5. CASE status[a] = "starting"
    BY <1>1, <1>2, <1>3, <1>4, <1>5, DropIInv DEF Unwind
  <1>6. CASE status[a] # "starting"
    <2>1. UNCHANGED <<status, prog, tabs, owner, made, build>>
      BY <1>6 DEF Unwind, instVars
    <2>2. StackLive' BY <1>2, <1>3, <1>4, <2>1 DEF StackLive
    <2>3. OwnershipTypes' BY <1>2, <1>4, <2>1 DEF IInv, OwnershipTypes
    <2>4. Building' BY <1>4 DEF Building, BuildModes
    <2> QED BY <2>1, <2>2, <2>3, <2>4 DEF IInv, FreeIsEmpty, BoundIsMade, BindingExact
  <1> QED BY <1>5, <1>6

-----------------------------------------------------------------------------
\* validate_host_bindings and the new identity.  No table is bound to the
\* address yet: a dead binding would have pinned it.
LEMMA InstantiateIInv ==
    ASSUME IInv, NEW m \in Modules, NEW a \in Addr,
           NEW imp \in [1..Len(m.imports) -> Known], Instantiate(m, a, imp)
    PROVE  IInv'
  <1>1. m \in ModuleType BY ModulesAssumption
  <1>2. imp \in Seq(Handles) /\ \A k \in DOMAIN imp : imp[k] \in made
    <2>1. Len(m.imports) \in Nat BY <1>1 DEF ModuleType
    <2>2. Known \subseteq made /\ made \subseteq Handles BY DEF Known, IInv, OwnershipTypes
    <2> QED BY <2>1, <2>2
  <1>3. CASE UNCHANGED <<status, prog, tabs, mode, build>>
    BY <1>3, Quiet DEF Instantiate, tableVars, IInv, OwnershipTypes
  <1>4. CASE /\ status' = [status EXCEPT ![a] = "building"]
             /\ prog' = [prog EXCEPT ![a] = m]
             /\ tabs' = tabs
             /\ mode' = IF TableCount(m) = 0 THEN "preflight" ELSE "bind"
             /\ build' = [a |-> a, imp |-> imp, k |-> 1]
    <2>1. UNCHANGED <<owner, made, stack>> BY DEF Instantiate, tableVars
    <2>2. status[a] = "free" /\ tabs[a] = <<>> BY DEF Instantiate, IInv, FreeIsEmpty
    <2>3. \A h \in Handles : owner[h] # a BY DEF Instantiate, Pinned
    <2>4. mode' \in {"preflight", "bind"} BY <1>4
    <2>5. OwnershipTypes'
      BY <1>2, <1>4, <2>1, <2>4 DEF IInv, OwnershipTypes, BuildModes, Build
    <2>6. FreeIsEmpty' /\ BoundIsMade'
      BY <1>4, <2>1 DEF IInv, OwnershipTypes, FreeIsEmpty, BoundIsMade
    <2>7. StackLive'
      <3>1. \A k \in 1..Len(stack) : stack[k] # a BY <2>2 DEF IInv, StackLive
      <3> QED BY <1>4, <2>1, <2>4, <3>1 DEF IInv, OwnershipTypes, StackLive
    <2>8. Building'
      <3>1. /\ build'.a = a /\ status'[a] = "building" /\ build'.imp = imp /\ build'.k = 1
            /\ prog'[a] = m
        BY <1>4 DEF IInv, OwnershipTypes
      <3>2. mode' # "bind" => Len(tabs'[a]) = TableCount(m) BY <1>4, <2>2
      <3> QED BY <1>2, <2>1, <3>1, <3>2 DEF Building
    <2>9. BindingExact'
      BY <1>4, <2>1, <2>2, <2>3 DEF IInv, OwnershipTypes, BindingExact, Range
    <2> QED BY <2>5, <2>6, <2>7, <2>8, <2>9 DEF IInv
  <1> QED BY <1>3, <1>4 DEF Instantiate

\* A table that no live instance has is bound and added to the index space.
LEMMA AddTableIInv ==
    ASSUME IInv, mode = "bind", NEW h \in Handles, ~BoundElsewhere(h, build.a),
           AddTable(h), made' \in SUBSET Handles, made \subseteq made', h \in made'
    PROVE  IInv'
  <1> DEFINE a == build.a
  <1>1. /\ a \in Addr /\ status[a] = "building"
        /\ \A k \in DOMAIN build.imp : build.imp[k] \in made
        /\ build.k > 0
    BY DEF IInv, Building, BuildModes
  <1>2. UNCHANGED <<status, prog, stack, build>> BY DEF AddTable
  <1>3. owner' = [owner EXCEPT ![h] = a] /\ tabs' = [tabs EXCEPT ![a] = Append(tabs[a], h)]
    BY DEF AddTable
  <1>4. tabs[a] \in Seq(Handles) BY <1>1 DEF IInv, OwnershipTypes
  <1>5. /\ tabs'[a] \in Seq(Handles) /\ Len(tabs'[a]) = Len(tabs[a]) + 1
        /\ Range(tabs'[a]) = Range(tabs[a]) \cup {h}
    BY <1>1, <1>3, <1>4, RangeAppend DEF IInv, OwnershipTypes
  <1>6. mode' = IF Len(tabs[a]) + 1 = TableCount(prog[a]) THEN "preflight" ELSE "bind"
    BY DEF AddTable
  <1>7. OwnershipTypes'
    BY <1>1, <1>2, <1>3, <1>5, <1>6 DEF IInv, OwnershipTypes, BuildModes
  <1>8. FreeIsEmpty' /\ BoundIsMade' /\ StackLive'
    BY <1>1, <1>2, <1>3, <1>6 DEF IInv, OwnershipTypes, FreeIsEmpty, BoundIsMade, StackLive
  <1>9. Building'
    BY <1>1, <1>2, <1>5, <1>6 DEF Building
  <1>10. BindingExact'
    <2> SUFFICES ASSUME NEW g \in Handles, NEW b \in Addr, status[b] # "free"
                 PROVE  owner'[g] = b <=> g \in Range(tabs'[b])
      BY <1>2 DEF BindingExact
    <2>1. owner[g] = b <=> g \in Range(tabs[b]) BY DEF IInv, BindingExact
    <2>2. CASE b = a
      BY <1>1, <1>3, <1>5, <2>1, <2>2 DEF IInv, OwnershipTypes
    <2>3. CASE b # a
      <3>1. tabs'[b] = tabs[b] BY <1>3, <2>3 DEF IInv, OwnershipTypes
      <3>2. g = h => owner[g] # b
        BY <2>3, NilAssumption DEF BoundElsewhere, Upgrades
      <3> QED BY <1>3, <2>1, <2>3, <3>1, <3>2 DEF IInv, OwnershipTypes
    <2> QED BY <2>2, <2>3
  <1> QED BY <1>7, <1>8, <1>9, <1>10 DEF IInv

\* One stage of with_config that moves on without touching bindings.
LEMMA StageIInv ==
    ASSUME IInv, mode \in BuildModes \ {"bind"}, mode' \in BuildModes \ {"bind"},
           UNCHANGED <<status, prog, tabs, owner, made, stack>>,
           NEW k \in Nat \ {0}, build' = [build EXCEPT !.k = k]
    PROVE  IInv'
  <1>1. /\ build' \in Build /\ build'.a = build.a /\ build'.imp = build.imp /\ build'.k = k
    BY DEF IInv, OwnershipTypes, Build
  <1>2. OwnershipTypes' BY <1>1 DEF IInv, OwnershipTypes
  <1>3. Building' BY <1>1 DEF IInv, Building
  <1>4. StackLive' BY DEF IInv, StackLive, BuildModes
  <1> QED BY <1>2, <1>3, <1>4 DEF IInv, FreeIsEmpty, BoundIsMade, BindingExact

\* The stages of with_config preserve the invariant.
LEMMA BuildStepIInv == ASSUME IInv, BuildStep PROVE IInv'
  <1> DEFINE a == build.a
  <1>0. mode \in BuildModes =>
          /\ a \in Addr /\ status[a] = "building" /\ prog[a] \in Modules
          /\ tabs[a] \in Seq(Handles) /\ build.k \in Nat \ {0}
          /\ build.imp \in Seq(Handles)
    BY DEF IInv, Building, FreeIsEmpty, OwnershipTypes, Build
  <1>1. CASE BindImport
    <2> DEFINE h == build.imp[Len(tabs[a]) + 1]
    <2>1. mode = "bind" /\ mode \in BuildModes BY <1>1 DEF BindImport, BuildModes
    <2>2. Len(tabs[a]) + 1 \in DOMAIN build.imp BY <1>0, <1>1, <2>1 DEF BindImport
    <2>3. h \in made /\ h \in Handles BY <2>1, <2>2 DEF IInv, Building, OwnershipTypes
    <2>4. CASE BoundElsewhere(h, a) BY <1>1, <2>1, <2>4, AbortIInv DEF BindImport
    <2>5. CASE ~BoundElsewhere(h, a)
      <3>1. AddTable(h) /\ made' = made BY <1>1, <2>5 DEF BindImport
      <3>2. made' \in SUBSET Handles BY <3>1 DEF IInv, OwnershipTypes
      <3> QED BY <2>1, <2>3, <2>5, <3>1, <3>2, AddTableIInv
    <2> QED BY <2>4, <2>5
  <1>2. ASSUME NEW h \in Handles, DefineTable(h) PROVE IInv'
    <2>1. mode = "bind" /\ h \notin made /\ made' = made \cup {h} /\ AddTable(h)
      BY <1>2 DEF DefineTable
    <2>2. ~BoundElsewhere(h, a) BY <2>1 DEF IInv, BoundIsMade, BoundElsewhere, Upgrades
    <2>3. made' \in SUBSET Handles BY <2>1 DEF IInv, OwnershipTypes
    <2> QED BY <2>1, <2>2, <2>3, AddTableIInv
  <1>3. CASE DefineFails BY <1>3, AbortIInv DEF DefineFails, BuildModes
  <1>4. CASE Preflight
    <2>1. mode = "preflight" BY <1>4 DEF Preflight
    <2>2. CASE mode' = "data" /\ build' = [build EXCEPT !.k = 1]
               /\ UNCHANGED <<instVars, tableVars, stack>>
      BY <2>1, <2>2, StageIInv DEF BuildModes, instVars, tableVars
    <2>3. CASE \E err \in {"ElementSegmentOutOfBounds", "DataSegmentOutOfBounds"} : Abort(err)
      BY <2>1, <2>3, AbortIInv DEF BuildModes
    <2> QED BY <1>4, <2>2, <2>3 DEF Preflight
  <1>5. CASE WriteData
    <2>1. mode = "data" BY <1>5 DEF WriteData
    <2>2. CASE \E k \in Nat \ {0} : /\ mode' \in {"data", "elements"}
                                    /\ build' = [build EXCEPT !.k = k]
                                    /\ UNCHANGED <<instVars, made, owner, stack>>
      BY <2>1, <2>2, StageIInv DEF BuildModes, instVars
    <2>3. CASE Abort("ElementSegmentOutOfBounds")
      BY <2>1, <2>3, AbortIInv DEF BuildModes
    <2>4. build.k + 1 \in Nat \ {0} BY <1>0, <2>1 DEF BuildModes
    <2>5. CASE build.k <= Len(prog[a].data)
      <3>1. /\ mode' = "data" /\ build' = [build EXCEPT !.k = build.k + 1]
            /\ UNCHANGED <<instVars, made, owner, stack>>
        BY <1>5, <2>1, <2>5 DEF WriteData
      <3> QED BY <2>2, <2>4, <3>1
    <2>6. CASE ~(build.k <= Len(prog[a].data)) /\ ElementsFit(a)
      <3>1. /\ mode' = "elements" /\ build' = [build EXCEPT !.k = 1]
            /\ UNCHANGED <<instVars, made, owner, stack>>
        BY <1>5, <2>6 DEF WriteData, tableVars
      <3> QED BY <2>2, <3>1
    <2>7. CASE ~(build.k <= Len(prog[a].data)) /\ ~ElementsFit(a)
      BY <1>5, <2>3, <2>7 DEF WriteData
    <2> QED BY <2>5, <2>6, <2>7
  <1>6. CASE WriteElements
    <2> DEFINE seg == prog[a].active[build.k]
               h == tabs[a][seg.t]
               binds == \E j \in DOMAIN seg.fns : seg.fns[j] # Nil
    <2>1. mode = "elements" /\ build.k <= Len(prog[a].active) BY <1>6 DEF WriteElements
    <2>2. prog[a] \in ModuleType /\ Validated(prog[a])
      BY <1>0, <2>1, ModulesAssumption DEF BuildModes
    <2>3. build.k \in DOMAIN prog[a].active
      BY <1>0, <2>1, <2>2 DEF ModuleType, BuildModes
    <2>4. seg.t \in 1..TableCount(prog[a]) BY <2>2, <2>3 DEF Validated
    <2>5. Len(tabs[a]) = TableCount(prog[a]) BY <2>1 DEF IInv, Building, BuildModes
    <2>6. h \in Range(tabs[a]) /\ h \in Handles
      <3>1. seg.t \in 1..Len(tabs[a]) /\ tabs[a] \in Seq(Handles)
        BY <1>0, <2>1, <2>4, <2>5 DEF BuildModes
      <3> QED BY <3>1, SMTT(20) DEF Range
    <2>7. owner[h] = a BY <1>0, <2>1, <2>6 DEF IInv, BindingExact, BuildModes
    <2>8. CASE Abort("ControlInvariant") BY <2>1, <2>8, AbortIInv DEF BuildModes
    <2>9. CASE ~Abort("ControlInvariant")
      <3>1. /\ owner' = IF binds THEN [owner EXCEPT ![h] = a] ELSE owner
            /\ build' = [build EXCEPT !.k = build.k + 1]
            /\ UNCHANGED <<instVars, made, stack, mode>>
        BY <1>6, <2>9 DEF WriteElements
      <3>2. owner' = owner BY <2>6, <2>7, <3>1 DEF IInv, OwnershipTypes
      <3>3. build.k + 1 \in Nat \ {0} BY <1>0, <2>1 DEF BuildModes
      <3>4. UNCHANGED <<status, prog, tabs>> BY <3>1 DEF instVars
      <3> QED BY <2>1, <3>1, <3>2, <3>3, <3>4, StageIInv DEF BuildModes
    <2> QED BY <2>8, <2>9
  <1>7. CASE Commit
    <2>1. mode = "elements" /\ mode \in BuildModes BY <1>7 DEF Commit, BuildModes
    <2>2. UNCHANGED <<prog, tabs, owner, made>> /\ build' = NoBuild
      BY <1>7 DEF Commit, tableVars
    <2>3. \/ status' = [status EXCEPT ![a] = "starting"] /\ stack' = Append(stack, a) /\ mode' = "guest"
          \/ status' = [status EXCEPT ![a] = "live"] /\ stack' = stack /\ mode' = "host"
      BY <1>7 DEF Commit
    <2>4. a \in Addr /\ status[a] = "building" /\ stack \in Seq(Addr)
      BY <1>0, <2>1 DEF IInv, OwnershipTypes
    <2>5. NoBuild \in Build BY DEF NoBuild, Build
    <2>6. OwnershipTypes'
      <3>1. status' \in [Addr -> {"free", "building", "starting", "live"}]
        BY <2>3, <2>4 DEF IInv, OwnershipTypes
      <3>2. stack' \in Seq(Addr) /\ mode' \in {"host", "guest"} BY <2>3, <2>4
      <3> QED BY <2>2, <2>5, <3>1, <3>2 DEF IInv, OwnershipTypes
    <2>7. FreeIsEmpty' /\ BoundIsMade' /\ BindingExact'
      BY <2>2, <2>3, <2>4 DEF IInv, OwnershipTypes, FreeIsEmpty, BoundIsMade, BindingExact
    <2>8. Building' BY <2>3 DEF Building, BuildModes
    <2>9. \A k \in 1..Len(stack) : stack[k] # a BY <2>4 DEF IInv, StackLive
    <2>10. ASSUME stack' = Append(stack, a) PROVE StackLive'
      <3>1. /\ Len(stack') = Len(stack) + 1 /\ stack'[Len(stack) + 1] = a
            /\ \A k \in 1..Len(stack) : stack'[k] = stack[k]
        BY <2>4, <2>10
      <3>2. \A k \in 1..Len(stack) : status'[stack[k]] = status[stack[k]]
        BY <2>3, <2>4, <2>9 DEF IInv, OwnershipTypes
      <3>3. status'[a] \in {"starting", "live"} BY <2>3, <2>4 DEF IInv, OwnershipTypes
      <3>4. Len(stack) \in Nat /\ stack' # <<>> BY <2>4, <2>10
      <3>5. \A k \in 1..Len(stack') : status'[stack'[k]] \in {"starting", "live"}
        BY <3>1, <3>2, <3>3, <3>4 DEF IInv, StackLive
      <3>6. \A j, k \in 1..Len(stack') : stack'[j] = stack'[k] => j = k
        BY <2>9, <3>1, <3>4 DEF IInv, StackLive
      <3> QED BY <3>4, <3>5, <3>6 DEF StackLive
    <2>11. ASSUME stack' = stack, mode' = "host" PROVE StackLive'
      BY <2>3, <2>4, <2>9, <2>11 DEF IInv, OwnershipTypes, StackLive
    <2> QED BY <2>3, <2>6, <2>7, <2>8, <2>10, <2>11 DEF IInv
  <1> QED BY <1>1, <1>2, <1>3, <1>4, <1>5, <1>6, <1>7 DEF BuildStep

\* Guest code leaves bindings alone, or its invocation ends.
LEMMA GuestStepIInv == ASSUME IInv, mode = "guest", GuestStep PROVE IInv'
  <1> DEFINE Calm == UNCHANGED <<status, prog, tabs, owner, made, stack, build>>
                     /\ mode' \in {"host", "guest"}
             Fails == \E err : Unwind(err)
  <1>0. stack # <<>> /\ mode \notin BuildModes BY DEF IInv, StackLive, BuildModes
  <1>1. CASE Calm BY <1>0, <1>1, Quiet
  <1>2. CASE Fails BY <1>0, <1>2, UnwindIInv
  <1>3. ASSUME NEW h, NEW s, Wrote(h, s) PROVE Calm
    BY <1>3 DEF Wrote, instVars
  <1>4. ASSUME UNCHANGED <<instVars, tableVars, embedVars, stack, mode, build>> PROVE Calm
    BY <1>4 DEF instVars, tableVars
  <1>5. ASSUME NEW t, NEW i, TableGet(t, i) PROVE IInv'
    BY <1>1, <1>2, <1>4, <1>5 DEF TableGet
  <1>6. ASSUME NEW t, NEW i, NEW v, TableSet(t, i, v) PROVE IInv'
    BY <1>1, <1>2, <1>3, <1>6 DEF TableSet
  <1>7. ASSUME NEW t, NEW d, NEW v, TableGrow(t, d, v) PROVE IInv'
    BY <1>1, <1>2, <1>3, <1>4, <1>7 DEF TableGrow
  <1>8. ASSUME NEW t, NEW i, NEW v, NEW n, TableFill(t, i, v, n) PROVE IInv'
    BY <1>1, <1>2, <1>3, <1>8 DEF TableFill
  <1>9. ASSUME NEW t, NEW u, NEW i, NEW j, NEW n, TableCopy(t, u, i, j, n) PROVE IInv'
    BY <1>1, <1>2, <1>3, <1>9 DEF TableCopy
  <1>10. ASSUME NEW e, NEW t, NEW i, NEW j, NEW n, TableInit(e, t, i, j, n) PROVE IInv'
    BY <1>1, <1>2, <1>3, <1>10 DEF TableInit
  <1>11. ASSUME NEW e, ElemDrop(e) PROVE IInv'
    BY <1>1, <1>11 DEF ElemDrop, tableVars
  <1>12. ASSUME NEW v, GlobalSet(v) PROVE IInv'
    BY <1>1, <1>12 DEF GlobalSet, tableVars
  <1>13. ASSUME NEW ty, NEW t, NEW i, CallIndirect(ty, t, i) PROVE IInv'
    BY <1>1, <1>2, <1>4, <1>13 DEF CallIndirect
  <1>14. CASE CallHost BY <1>1, <1>14 DEF CallHost, instVars, tableVars
  <1>15. CASE Return
    <2> DEFINE a == Running
    <2>1. stack \in Seq(Addr) /\ Len(stack) \in Nat \ {0} /\ a = stack[Len(stack)] /\ a \in Addr
      BY <1>0 DEF IInv, OwnershipTypes, Running
    <2>2. /\ stack' = SubSeq(stack, 1, Len(stack) - 1)
          /\ mode' = "host" /\ status' = [status EXCEPT ![a] = "live"]
          /\ UNCHANGED <<prog, tabs, owner, made, build>>
      BY <1>15 DEF Return, tableVars
    <2>3. /\ stack' \in Seq(Addr) /\ Len(stack') = Len(stack) - 1
          /\ \A k \in 1..Len(stack') : stack'[k] = stack[k]
      BY <2>1, <2>2, PopSeq
    <2>4. status[a] \in {"starting", "live"} BY <2>1 DEF IInv, StackLive
    <2>5. OwnershipTypes' BY <2>2, <2>3 DEF IInv, OwnershipTypes
    <2>6. FreeIsEmpty' /\ BoundIsMade' /\ BindingExact'
      BY <2>1, <2>2, <2>4
      DEF IInv, OwnershipTypes, FreeIsEmpty, BoundIsMade, BindingExact
    <2>7. StackLive'
      <3>1. \A k \in 1..Len(stack') : k \in 1..Len(stack) BY <2>1, <2>3
      <3>2. \A k \in 1..Len(stack') : status'[stack[k]] \in {"starting", "live"}
        BY <2>1, <2>2, <3>1 DEF IInv, OwnershipTypes, StackLive
      <3> QED BY <2>2, <2>3, <3>1, <3>2 DEF IInv, StackLive
    <2>8. Building' BY <2>2 DEF Building, BuildModes
    <2> QED BY <2>5, <2>6, <2>7, <2>8 DEF IInv
  <1>16. CASE Trap BY <1>2, <1>16 DEF Trap
  <1> QED BY <1>5, <1>6, <1>7, <1>8, <1>9, <1>10, <1>11, <1>12, <1>13, <1>14,
             <1>15, <1>16 DEF GuestStep

\* The embedder's operations preserve the invariant.
LEMMA HostStepIInv == ASSUME IInv, HostStep PROVE IInv'
  <1> DEFINE Calm == UNCHANGED <<status, prog, tabs, owner, made, stack, build>>
                     /\ mode = "host"
                     /\ (mode' = "host" \/ (mode' = "guest" /\ stack # <<>>))
  <1>1. CASE Calm BY <1>1, Quiet
  <1>2. ASSUME NEW h \in Handles, NEW lim \in Limits, HostNewTable(h, lim) PROVE IInv'
    <2>1. /\ mode = "host" /\ made' = made \cup {h}
          /\ UNCHANGED <<status, prog, tabs, owner, stack, mode, build>>
      BY <1>2 DEF HostNewTable, instVars
    <2> QED BY <2>1 DEF IInv, OwnershipTypes, FreeIsEmpty, BoundIsMade, StackLive,
                        Building, BindingExact, BuildModes
  <1>3. ASSUME NEW h \in Handles, HostForgetTable(h) PROVE IInv'
    <2>1. /\ mode = "host" /\ Release({h})
          /\ UNCHANGED <<status, prog, tabs, stack, mode, build>>
      BY <1>3 DEF HostForgetTable, instVars
    <2>2. \A a \in Addr : h \notin Range(tabs[a]) BY <1>3 DEF HostForgetTable, Range
    <2>3. /\ made' = made \ {h}
          /\ owner' = [g \in Handles |-> IF g \in {h} THEN Nil ELSE owner[g]]
      BY <2>1 DEF Release
    <2>4. BindingExact'
      BY <2>1, <2>2, <2>3, NilAssumption DEF IInv, OwnershipTypes, BindingExact
    <2>5. OwnershipTypes' /\ BoundIsMade'
      BY <2>1, <2>3 DEF IInv, OwnershipTypes, BoundIsMade
    <2> QED BY <2>1, <2>4, <2>5 DEF IInv, FreeIsEmpty, StackLive, Building, BuildModes
  <1>4. ASSUME NEW h, NEW i, HostGet(h, i) PROVE IInv'
    BY <1>1, <1>4 DEF HostGet, instVars, tableVars
  <1>5. ASSUME NEW h, NEW i, NEW r, HostSet(h, i, r) PROVE IInv'
    BY <1>1, <1>5 DEF HostSet, instVars
  <1>6. ASSUME NEW a, HostGlobalGet(a) PROVE IInv'
    BY <1>1, <1>6 DEF HostGlobalGet, instVars, tableVars
  <1>7. ASSUME NEW a, HostGlobalSet(a) PROVE IInv'
    BY <1>1, <1>7 DEF HostGlobalSet, tableVars
  <1>8. ASSUME NEW a \in Addr, Invoke(a) PROVE IInv'
    <2>1. /\ mode = "host" /\ status[a] = "live" /\ stack' = Append(stack, a)
          /\ mode' = "guest" /\ UNCHANGED <<status, prog, tabs, owner, made, build>>
          /\ \A k \in DOMAIN stack : stack[k] # a
      BY <1>8 DEF Invoke, instVars, tableVars
    <2>2. stack \in Seq(Addr) /\ Len(stack) \in Nat /\ DOMAIN stack = 1..Len(stack)
      BY DEF IInv, OwnershipTypes
    <2>3. /\ stack' \in Seq(Addr) /\ stack' # <<>>
          /\ Len(stack') = Len(stack) + 1 /\ stack'[Len(stack) + 1] = a
          /\ \A k \in 1..Len(stack) : stack'[k] = stack[k]
      BY <2>1, <2>2
    <2>4. \A k \in 1..Len(stack') : status'[stack'[k]] \in {"starting", "live"}
      BY <2>1, <2>2, <2>3 DEF IInv, StackLive
    <2>5. \A j, k \in 1..Len(stack') : stack'[j] = stack'[k] => j = k
      BY <2>1, <2>2, <2>3 DEF IInv, StackLive
    <2>6. StackLive' BY <2>3, <2>4, <2>5 DEF StackLive
    <2>7. OwnershipTypes' BY <2>1, <2>3 DEF IInv, OwnershipTypes
    <2> QED BY <2>1, <2>6, <2>7
            DEF IInv, FreeIsEmpty, BoundIsMade, Building, BindingExact, BuildModes
  <1>9. ASSUME NEW a \in Addr, Drop(a) PROVE IInv'
    <2>1. /\ mode = "host" /\ DropInstance(a)
          /\ UNCHANGED <<owner, made, stack, mode, build>>
          /\ \A k \in DOMAIN stack : stack[k] # a
      BY <1>9 DEF Drop, tableVars
    <2>2. OwnershipTypes' BY <2>1 DEF IInv, OwnershipTypes, DropInstance
    <2>3. FreeIsEmpty' BY <2>1 DEF IInv, OwnershipTypes, FreeIsEmpty, DropInstance
    <2>4. BoundIsMade' BY <2>1 DEF IInv, BoundIsMade
    <2>5. StackLive' BY <2>1 DEF IInv, OwnershipTypes, StackLive, DropInstance
    <2>6. BindingExact' BY <2>1 DEF IInv, OwnershipTypes, BindingExact, DropInstance
    <2>7. Building' BY <2>1 DEF Building, BuildModes
    <2> QED BY <2>2, <2>3, <2>4, <2>5, <2>6, <2>7 DEF IInv
  <1>10. CASE HostReturn BY <1>1, <1>10 DEF HostReturn, instVars, tableVars
  <1>11. CASE HostFails BY <1>11, UnwindIInv DEF HostFails, BuildModes
  <1> QED BY <1>2, <1>3, <1>4, <1>5, <1>6, <1>7, <1>8, <1>9, <1>10, <1>11 DEF HostStep

\* Every step preserves the invariant.
LEMMA NextIInv == IInv /\ [Next]_vars => IInv'
  <1> SUFFICES ASSUME IInv, [Next]_vars PROVE IInv' OBVIOUS
  <1>1. CASE Begin BY <1>1, InstantiateIInv DEF Begin
  <1>2. CASE BuildStep BY <1>2, BuildStepIInv
  <1>3. CASE mode = "guest" /\ GuestStep BY <1>3, GuestStepIInv
  <1>4. CASE HostStep BY <1>4, HostStepIInv
  <1>5. CASE UNCHANGED vars
    BY <1>5 DEF vars, instVars, tableVars, runVars, IInv, OwnershipTypes, FreeIsEmpty,
                BoundIsMade, StackLive, Building, BindingExact
  <1> QED BY <1>1, <1>2, <1>3, <1>4, <1>5 DEF Next

-----------------------------------------------------------------------------
\* The inductive invariant holds in every reachable state.
THEOREM OwnershipInvariant == Spec => []IInv
  BY InitIInv, NextIInv, PTL DEF Spec

\* TableHandle::bind and instantiate_tables: whatever instantiations fail,
\* nest or are dropped, a table is bound to an existing instance exactly when
\* that instance has it.
THEOREM BindingIsExact == Spec => []BindingExact
  <1>1. IInv => BindingExact BY DEF IInv
  <1> QED BY <1>1, OwnershipInvariant, PTL

\* A table handle is never in the index space of two instances.
THEOREM TableHasOneOwner == Spec => []OneLiveOwner
  <1>1. IInv => OneLiveOwner
    <2> SUFFICES ASSUME IInv, NEW a \in Addr, NEW b \in Addr, a # b,
                        NEW h \in Range(tabs[a]) \cap Range(tabs[b])
                 PROVE  FALSE
      BY DEF OneLiveOwner
    <2>1. status[a] # "free" /\ status[b] # "free"
      BY DEF IInv, FreeIsEmpty, Range
    <2>2. tabs[a] \in Seq(Handles) BY DEF IInv, OwnershipTypes
    <2>3. h \in Handles BY <2>2 DEF Range
    <2>4. owner[h] = a /\ owner[h] = b BY <2>1, <2>3 DEF IInv, BindingExact
    <2> QED BY <2>4
  <1> QED BY <1>1, OwnershipInvariant, PTL

-----------------------------------------------------------------------------
\* Every backing store has a slot vector.
SlotsShape == DOMAIN slots = Handles

\* The shape of the slots is preserved.
LEMMA SlotsShapeStep == SlotsShape /\ [Next]_vars => SlotsShape'
  <1> SUFFICES ASSUME SlotsShape, [Next]_vars PROVE SlotsShape' OBVIOUS
  <1> DEFINE Shaped == \/ slots' = slots
                       \/ \E h, s : slots' = [slots EXCEPT ![h] = s]
                       \/ \E H : Release(H)
  <1>0. CASE Shaped BY <1>0 DEF SlotsShape, Release
  <1>1. ASSUME NEW err, Unwind(err) PROVE Shaped BY <1>1 DEF Unwind
  <1>2. ASSUME NEW err, Abort(err) PROVE Shaped BY <1>2 DEF Abort
  <1>3. ASSUME NEW h, NEW s, Wrote(h, s) PROVE Shaped BY <1>3 DEF Wrote
  <1>4. CASE Begin BY <1>0, <1>4 DEF Begin, Instantiate, tableVars
  <1>5. CASE BuildStep
    <2>1. CASE BindImport BY <1>0, <1>2, <2>1 DEF BindImport
    <2>2. ASSUME NEW h, DefineTable(h) PROVE SlotsShape' BY <1>0, <2>2 DEF DefineTable
    <2>3. CASE DefineFails BY <1>0, <1>2, <2>3 DEF DefineFails
    <2>4. CASE Preflight BY <1>0, <1>2, <2>4 DEF Preflight, tableVars
    <2>5. CASE WriteData BY <1>0, <1>2, <2>5 DEF WriteData, tableVars
    <2>6. CASE WriteElements BY <1>0, <1>2, <2>6 DEF WriteElements
    <2>7. CASE Commit BY <1>0, <2>7 DEF Commit, tableVars
    <2> QED BY <1>5, <2>1, <2>2, <2>3, <2>4, <2>5, <2>6, <2>7 DEF BuildStep
  <1>6. CASE GuestStep
    <2>1. ASSUME NEW t, NEW i, TableGet(t, i) PROVE Shaped
      BY <1>1, <2>1 DEF TableGet, tableVars
    <2>2. ASSUME NEW t, NEW i, NEW v, TableSet(t, i, v) PROVE Shaped
      BY <1>1, <1>3, <2>2 DEF TableSet
    <2>3. ASSUME NEW t, NEW d, NEW v, TableGrow(t, d, v) PROVE Shaped
      BY <1>3, <2>3 DEF TableGrow, tableVars
    <2>4. ASSUME NEW t, NEW i, NEW v, NEW n, TableFill(t, i, v, n) PROVE Shaped
      BY <1>1, <1>3, <2>4 DEF TableFill
    <2>5. ASSUME NEW t, NEW u, NEW i, NEW j, NEW n, TableCopy(t, u, i, j, n) PROVE Shaped
      BY <1>1, <1>3, <2>5 DEF TableCopy
    <2>6. ASSUME NEW e, NEW t, NEW i, NEW j, NEW n, TableInit(e, t, i, j, n) PROVE Shaped
      BY <1>1, <1>3, <2>6 DEF TableInit
    <2>7. ASSUME NEW e, ElemDrop(e) PROVE Shaped BY <2>7 DEF ElemDrop, tableVars
    <2>8. ASSUME NEW v, GlobalSet(v) PROVE Shaped BY <2>8 DEF GlobalSet, tableVars
    <2>9. ASSUME NEW ty, NEW t, NEW i, CallIndirect(ty, t, i) PROVE Shaped
      BY <1>1, <2>9 DEF CallIndirect, tableVars
    <2>10. ASSUME CallHost \/ Return \/ Trap PROVE Shaped
      BY <1>1, <2>10 DEF CallHost, Return, Trap, tableVars
    <2> QED BY <1>0, <1>6, <2>1, <2>2, <2>3, <2>4, <2>5, <2>6, <2>7, <2>8, <2>9, <2>10
            DEF GuestStep
  <1>7. CASE HostStep
    <2>1. ASSUME NEW h, NEW lim, HostNewTable(h, lim) PROVE Shaped BY <2>1 DEF HostNewTable
    <2>2. ASSUME NEW h, HostForgetTable(h) PROVE Shaped BY <2>2 DEF HostForgetTable
    <2>3. ASSUME NEW h, NEW i, HostGet(h, i) PROVE Shaped BY <2>3 DEF HostGet, tableVars
    <2>4. ASSUME NEW h, NEW i, NEW r, HostSet(h, i, r) PROVE Shaped BY <2>4 DEF HostSet
    <2>5. ASSUME NEW a, HostGlobalGet(a) \/ HostGlobalSet(a) \/ Invoke(a) \/ Drop(a) PROVE Shaped
      BY <2>5 DEF HostGlobalGet, HostGlobalSet, Invoke, Drop, tableVars
    <2>6. ASSUME HostReturn \/ HostFails PROVE Shaped
      BY <1>1, <2>6 DEF HostReturn, HostFails, tableVars
    <2> QED BY <1>0, <1>7, <2>1, <2>2, <2>3, <2>4, <2>5, <2>6 DEF HostStep
  <1>8. CASE UNCHANGED vars BY <1>8 DEF vars, tableVars, SlotsShape
  <1> QED BY <1>4, <1>5, <1>6, <1>7, <1>8 DEF Next

\* What a guest's step changes in the tables.
LEMMA GuestWrites ==
    ASSUME IInv, SlotsShape, mode = "guest", [Next]_vars,
           NEW g \in Handles, slots'[g] # slots[g]
    PROVE  owner[g] = Running
  <1> DEFINE a == Running
             Own == Range(tabs[a])
             Local == \/ slots' = slots
                      \/ \E h \in Own : \E s : slots' = [slots EXCEPT ![h] = s]
                      \/ \E H \in SUBSET Own : Release(H)
  <1>0. /\ stack \in Seq(Addr) /\ Len(stack) \in Nat \ {0}
        /\ a = stack[Len(stack)] /\ a \in Addr /\ status[a] # "free"
    BY DEF IInv, OwnershipTypes, StackLive, Running
  <1>1. Local => owner[g] = a
    BY <1>0 DEF SlotsShape, Release, IInv, BindingExact
  <1>2. ASSUME NEW err, Unwind(err) PROVE Local
    <2>1. Defined(a) \in SUBSET Own BY <1>0, DefinedIsOwn
    <2> QED BY <1>2, <2>1 DEF Unwind
  <1>3. ASSUME NEW t \in DOMAIN tabs[a], NEW s, Wrote(tabs[a][t], s) PROVE Local
    BY <1>3 DEF Wrote, Range
  <1>4. GuestStep
    BY DEF Next, Begin, Instantiate, BuildStep, BindImport, DefineTable, DefineFails,
           Preflight, WriteData, WriteElements, Commit, HostStep, HostNewTable,
           HostForgetTable, HostGet, HostSet, HostGlobalGet, HostGlobalSet, Invoke,
           Drop, HostReturn, HostFails, vars, tableVars
  <1>5. Local
    <2>1. ASSUME NEW t, NEW i, TableGet(t, i) PROVE Local
      BY <1>2, <2>1 DEF TableGet, tableVars
    <2>2. ASSUME NEW t, NEW i, NEW v, TableSet(t, i, v) PROVE Local
      BY <1>2, <1>3, <2>2 DEF TableSet, Instruction
    <2>3. ASSUME NEW t, NEW d, NEW v, TableGrow(t, d, v) PROVE Local
      BY <1>3, <2>3 DEF TableGrow, Instruction, tableVars
    <2>4. ASSUME NEW t, NEW i, NEW v, NEW n, TableFill(t, i, v, n) PROVE Local
      BY <1>2, <1>3, <2>4 DEF TableFill, Instruction
    <2>5. ASSUME NEW t, NEW u, NEW i, NEW j, NEW n, TableCopy(t, u, i, j, n) PROVE Local
      BY <1>2, <1>3, <2>5 DEF TableCopy, Instruction
    <2>6. ASSUME NEW e, NEW t, NEW i, NEW j, NEW n, TableInit(e, t, i, j, n) PROVE Local
      BY <1>2, <1>3, <2>6 DEF TableInit, Instruction
    <2>7. ASSUME NEW e, ElemDrop(e) PROVE Local BY <2>7 DEF ElemDrop, tableVars
    <2>8. ASSUME NEW v, GlobalSet(v) PROVE Local BY <2>8 DEF GlobalSet, tableVars
    <2>9. ASSUME NEW ty, NEW t, NEW i, CallIndirect(ty, t, i) PROVE Local
      BY <1>2, <2>9 DEF CallIndirect, tableVars
    <2>10. ASSUME CallHost \/ Return \/ Trap PROVE Local
      BY <1>2, <2>10 DEF CallHost, Return, Trap, tableVars
    <2> QED BY <1>4, <2>1, <2>2, <2>3, <2>4, <2>5, <2>6, <2>7, <2>8, <2>9, <2>10
            DEF GuestStep
  <1> QED BY <1>1, <1>5

\* Guest code never changes a table that is not bound to its own instance,
\* however tables were passed around, rebound and dropped before.
THEOREM GuestIsConfined == Spec => GuestTouchesOnlyItsTables
  <1>1. Init => SlotsShape BY DEF Init, SlotsShape
  <1>2. IInv /\ SlotsShape /\ [Next]_vars =>
          [mode = "guest" =>
             \A h \in Handles : slots'[h] # slots[h] => owner[h] = Running]_vars
    BY GuestWrites
  <1> QED BY <1>1, <1>2, SlotsShapeStep, OwnershipInvariant, PTL
          DEF Spec, GuestTouchesOnlyItsTables

-----------------------------------------------------------------------------
(* Contents: the types of the code, table sizes, provenance of references. *)

\* The references that may be stored.  One whose owner exists was made by that
\* very incarnation of its address and names a function it has, as long as the
\* embedder does not move values between exported globals.
GoodRefs ==
    {r \in Ref : ~RefGlobals /\ r # Nil /\ status[r.owner] # "free" =>
                    r.origin = born[r.owner] /\ r.fn \in Funcs(prog[r.owner])}

\* The operands an instance's code may hold, likewise.
GoodVals(a) ==
    {v \in Value : ~RefGlobals /\ v # Nil => v.origin = born[a] /\ v.fn \in Funcs(prog[a])}

\* The second inductive invariant.
Contents ==
    /\ born \in [Addr -> Nat] /\ births \in Nat
    /\ slots \in [Handles -> Seq(GoodRefs)]
    /\ mem \in [Mems -> Seq(Bytes)]
    /\ held \in GoodRefs /\ heldVal \in Value
    /\ glob = [b \in Addr |-> glob[b]] /\ \A a \in Addr : glob[a] \in GoodVals(a)
    /\ elems = [b \in Addr |-> elems[b]] /\ \A a \in Addr : elems[a] \in Seq(Seq(Funcs(prog[a]) \cup {Nil}))

-----------------------------------------------------------------------------
\* Sequences: what a splice, a fill and a slice contain.

LEMMA SpliceSeq ==
    ASSUME NEW S, NEW s \in Seq(S), NEW d \in Nat, NEW w \in Seq(S)
    PROVE  Splice(s, d, w) \in Seq(S) /\ Len(Splice(s, d, w)) = Len(s)
  <1>1. Len(s) \in Nat /\ Len(w) \in Nat OBVIOUS
  <1>2. ASSUME NEW k \in 1..Len(s)
        PROVE  (IF d < k /\ k <= d + Len(w) THEN w[k - d] ELSE s[k]) \in S
    <2>1. CASE d < k /\ k <= d + Len(w)
      <3>1. k - d \in 1..Len(w) BY <1>1, <2>1
      <3> QED BY <2>1, <3>1
    <2>2. CASE ~(d < k /\ k <= d + Len(w)) BY <2>2
    <2> QED BY <2>1, <2>2
  <1>3. Splice(s, d, w) \in [1..Len(s) -> S] BY <1>2 DEF Splice
  <1> QED BY <1>1, <1>3

LEMMA FillSeq ==
    ASSUME NEW S, NEW n \in Nat, NEW v \in S
    PROVE  Fill(n, v) \in Seq(S) /\ Len(Fill(n, v)) = n
  <1>1. Fill(n, v) \in [1..n -> S] BY DEF Fill
  <1> QED BY <1>1

LEMMA SliceSeq ==
    ASSUME NEW S, NEW s \in Seq(S), NEW j \in Nat, NEW n \in Nat, j + n <= Len(s)
    PROVE  SubSeq(s, j + 1, j + n) \in Seq(S)
  OBVIOUS

LEMMA SeqOver ==
    ASSUME NEW S, NEW T, NEW s \in Seq(S), \A k \in DOMAIN s : s[k] \in T
    PROVE  s \in Seq(T)
  <1>1. s \in [1..Len(s) -> T] /\ Len(s) \in Nat OBVIOUS
  <1> QED BY <1>1

LEMMA SetSeq ==
    ASSUME NEW S, NEW s \in Seq(S), NEW k, NEW v \in S
    PROVE  [s EXCEPT ![k] = v] \in Seq(S) /\ Len([s EXCEPT ![k] = v]) = Len(s)
  <1> DEFINE n == Len(s)
             t == [s EXCEPT ![k] = v]
  <1>1. n \in Nat /\ s \in [1..n -> S] OBVIOUS
  <1>2. t \in [1..n -> S]
    <2> HIDE DEF n
    <2> QED BY <1>1
  <1> HIDE DEF n, t
  <1>3. t \in Seq(S) /\ Len(t) = n BY <1>1, <1>2
  <1> QED BY <1>3 DEF n, t

LEMMA ConcatSeq ==
    ASSUME NEW S, NEW s \in Seq(S), NEW w \in Seq(S)
    PROVE  s \o w \in Seq(S) /\ Len(s \o w) = Len(s) + Len(w) /\ Len(s) \in Nat
  OBVIOUS

LEMMA OneSeqChanged ==
    ASSUME NEW D, NEW S, NEW f \in [D -> Seq(S)], NEW h, NEW s \in Seq(S)
    PROVE  [f EXCEPT ![h] = s] \in [D -> Seq(S)]
  OBVIOUS

-----------------------------------------------------------------------------
\* References.

LEMMA FunctionsOf == ASSUME NEW m \in Modules
                     PROVE  /\ m \in ModuleType /\ Validated(m) /\ Funcs(m) \subseteq Nat
  <1>1. m \in ModuleType /\ Validated(m) BY ModulesAssumption
  <1>2. Len(m.sigs) \in Nat BY <1>1 DEF ModuleType
  <1> QED BY <1>1, <1>2 DEF Funcs

\* Mint attaches the identity of the instance that has the operand.
LEMMA MintGood == ASSUME NEW a \in Addr, NEW v \in GoodVals(a) PROVE Mint(a, v) \in GoodRefs
  <1>1. CASE v = Nil BY <1>1 DEF Mint, GoodRefs, Ref
  <1>2. CASE v # Nil
    <2> DEFINE r == [owner |-> a, fn |-> v.fn, origin |-> v.origin]
    <2>1. v \in [fn : Nat, origin : Nat] BY <1>2 DEF GoodVals, Value
    <2>2. r \in Ref /\ r.owner = a /\ r.fn = v.fn /\ r.origin = v.origin BY <2>1 DEF Ref
    <2>3. Mint(a, v) = r BY <1>2 DEF Mint
    <2> HIDE DEF r
    <2> QED BY <1>2, <2>2, <2>3 DEF GoodRefs, GoodVals
  <1> QED BY <1>1, <1>2

LEMMA OwnValGood ==
    ASSUME NEW a \in Addr, prog[a] \in Modules, born[a] \in Nat, NEW f \in Funcs(prog[a]) \cup {Nil}
    PROVE  OwnVal(a, f) \in GoodVals(a)
  <1>1. CASE f = Nil BY <1>1 DEF OwnVal, GoodVals, Value
  <1>2. CASE f # Nil
    <2> DEFINE v == [fn |-> f, origin |-> born[a]]
    <2>1. f \in Funcs(prog[a]) /\ f \in Nat BY <1>2, FunctionsOf
    <2>2. v \in Value /\ v.fn = f /\ v.origin = born[a] BY <2>1 DEF Value
    <2>3. OwnVal(a, f) = v BY <1>2 DEF OwnVal
    <2> HIDE DEF v
    <2> QED BY <2>1, <2>2, <2>3 DEF GoodVals
  <1> QED BY <1>1, <1>2

LEMMA OwnRefsGood ==
    ASSUME NEW a \in Addr, prog[a] \in Modules, born[a] \in Nat,
           NEW fns \in Seq(Funcs(prog[a]) \cup {Nil})
    PROVE  OwnRefs(a, fns) \in Seq(GoodRefs) /\ Len(OwnRefs(a, fns)) = Len(fns)
  <1>1. \A k \in 1..Len(fns) : Mint(a, OwnVal(a, fns[k])) \in GoodRefs
    BY OwnValGood, MintGood
  <1>2. OwnRefs(a, fns) \in [1..Len(fns) -> GoodRefs] /\ Len(fns) \in Nat BY <1>1 DEF OwnRefs
  <1> QED BY <1>2

\* What function_index_for_instance lets through.
LEMMA IndexForOk ==
    ASSUME NEW a, NEW h, NEW i, FunctionIndexFor(a, h, i) = "Ok"
    PROVE  /\ ~(i >= Len(slots[h]))
           /\ slots[h][i + 1] # Nil /\ slots[h][i + 1].owner = a /\ status[a] # "free"
  BY DEF FunctionIndexFor, Upgrades

\* What guest code of an existing instance can put on its operand stack.
LEMMA OperandsGood ==
    ASSUME IInv, Contents, NEW a \in Addr, status[a] # "free", NEW v \in Operands(a)
    PROVE  v \in GoodVals(a)
  <1>1. prog[a] \in Modules /\ born[a] \in Nat BY DEF IInv, FreeIsEmpty, Contents
  <1>2. CASE v = Nil BY <1>2 DEF GoodVals, Value
  <1>3. CASE v = glob[a] BY <1>3 DEF Contents
  <1>4. CASE \E f \in Funcs(prog[a]) : v = OwnVal(a, f) BY <1>1, <1>4, OwnValGood
  <1>5. CASE \E r \in Readable(a) : v = [fn |-> r.fn, origin |-> r.origin]
    <2>1. PICK r \in Readable(a) : v = [fn |-> r.fn, origin |-> r.origin] BY <1>5
    <2>2. PICK t \in DOMAIN tabs[a] :
            r \in {slots[tabs[a][t]][i + 1] :
                     i \in {j \in 0..(Len(slots[tabs[a][t]]) - 1) :
                              FunctionIndexFor(a, tabs[a][t], j) = "Ok"}}
      BY <2>1 DEF Readable
    <2> DEFINE h == tabs[a][t]
    <2>3. PICK i \in 0..(Len(slots[h]) - 1) :
            r = slots[h][i + 1] /\ FunctionIndexFor(a, h, i) = "Ok"
      BY <2>2
    <2>4. h \in Handles BY DEF IInv, OwnershipTypes
    <2>5. slots[h] \in Seq(GoodRefs) /\ i + 1 \in 1..Len(slots[h]) BY <2>3, <2>4 DEF Contents
    <2>6. r \in GoodRefs BY <2>3, <2>5
    <2>7. r # Nil /\ r.owner = a BY <2>3, IndexForOk
    <2>8. r \in [owner : Addr, fn : Nat, origin : Nat] BY <2>6, <2>7 DEF GoodRefs, Ref
    <2>9. v \in Value /\ v.fn = r.fn /\ v.origin = r.origin BY <2>1, <2>8 DEF Value
    <2>10. ~RefGlobals => r.origin = born[a] /\ r.fn \in Funcs(prog[a])
      BY <2>6, <2>7 DEF GoodRefs
    <2> QED BY <2>9, <2>10 DEF GoodVals
  <1> QED BY <1>2, <1>3, <1>4, <1>5 DEF Operands
-----------------------------------------------------------------------------
\* The contents are preserved.

\* Initially nothing is stored.
LEMMA InitContents == Init => Contents
  <1> SUFFICES ASSUME Init PROVE Contents OBVIOUS
  <1>1. slots \in [Handles -> Seq(GoodRefs)] BY DEF Init
  <1>2. held \in GoodRefs /\ heldVal \in Value BY DEF Init, GoodRefs, Ref, Value
  <1>3. glob = [b \in Addr |-> glob[b]] /\ \A a \in Addr : glob[a] \in GoodVals(a)
    BY DEF Init, GoodVals, Value
  <1>4. elems = [b \in Addr |-> elems[b]] /\ \A a \in Addr : elems[a] \in Seq(Seq(Funcs(prog[a]) \cup {Nil}))
    BY DEF Init
  <1>5. born \in [Addr -> Nat] /\ births \in Nat /\ mem \in [Mems -> Seq(Bytes)]
    BY MemAssumption DEF Init
  <1> QED BY <1>1, <1>2, <1>3, <1>4, <1>5 DEF Contents

\* No instance comes or goes.
LEMMA StableContents ==
    ASSUME Contents, UNCHANGED <<born, prog, births>>,
           \A a \in Addr : status'[a] = "free" <=> status[a] = "free",
           slots' \in [Handles -> Seq(GoodRefs)],
           mem' \in [Mems -> Seq(Bytes)],
           held' \in GoodRefs, heldVal' \in Value,
           glob' = [b \in Addr |-> glob'[b]], \A a \in Addr : glob'[a] \in GoodVals(a),
           elems' = [b \in Addr |-> elems'[b]], \A a \in Addr : elems'[a] \in Seq(Seq(Funcs(prog[a]) \cup {Nil}))
    PROVE  Contents'
  <1>1. GoodRefs' = GoodRefs BY NilAssumption DEF GoodRefs, Ref
  <1>2. \A a \in Addr : GoodVals(a)' = GoodVals(a) BY DEF GoodVals
  <1>3. slots' \in [Handles -> Seq(GoodRefs')] /\ held' \in GoodRefs' BY <1>1
  <1>4. \A a \in Addr : glob'[a] \in GoodVals(a)' BY <1>2
  <1>5. born' \in [Addr -> Nat] /\ births' \in Nat BY DEF Contents
  <1> QED BY <1>3, <1>4, <1>5 DEF Contents

\* Only tables and memories change.
LEMMA TablesContents ==
    ASSUME Contents, UNCHANGED <<born, prog, births, glob, elems, held, heldVal>>,
           \A a \in Addr : status'[a] = "free" <=> status[a] = "free",
           slots' \in [Handles -> Seq(GoodRefs)], mem' \in [Mems -> Seq(Bytes)]
    PROVE  Contents'
  BY StableContents DEF Contents

\* An instance is dropped: what it made can no longer be used.
LEMMA DropContents ==
    ASSUME IInv, Contents, NEW a \in Addr, DropInstance(a),
           slots' \in [Handles -> Seq(GoodRefs)], UNCHANGED <<mem, held, heldVal>>
    PROVE  Contents'
  <1>0. /\ status' = [status EXCEPT ![a] = "free"]
        /\ elems' = [elems EXCEPT ![a] = <<>>] /\ glob' = [glob EXCEPT ![a] = Nil]
        /\ born' = [born EXCEPT ![a] = 0] /\ prog' = [prog EXCEPT ![a] = Nil] /\ births' = births
    BY DEF DropInstance
  <1>1. /\ status \in [Addr -> {"free", "building", "starting", "live"}] /\ born \in [Addr -> Nat]
        /\ prog \in [Addr -> Modules \cup {Nil}]
        /\ glob = [b \in Addr |-> glob[b]] /\ elems = [b \in Addr |-> elems[b]]
    BY DEF IInv, OwnershipTypes, Contents
  <1>2. GoodRefs \subseteq GoodRefs'
    <2> SUFFICES ASSUME NEW r \in GoodRefs PROVE r \in GoodRefs' OBVIOUS
    <2>1. r \in Ref BY DEF GoodRefs
    <2>2. CASE r = Nil BY <2>1, <2>2 DEF GoodRefs
    <2>3. CASE r # Nil
      <3>1. r.owner \in Addr BY <2>1, <2>3 DEF Ref
      <3>2. CASE r.owner = a
        <4>1. status'[r.owner] = "free" BY <1>0, <1>1, <3>1, <3>2
        <4> QED BY <2>1, <4>1 DEF GoodRefs
      <3>3. CASE r.owner # a
        <4>1. /\ status'[r.owner] = status[r.owner] /\ born'[r.owner] = born[r.owner]
              /\ prog'[r.owner] = prog[r.owner]
          BY <1>0, <1>1, <3>1, <3>3
        <4> QED BY <2>1, <2>3, <4>1 DEF GoodRefs
      <3> QED BY <3>2, <3>3
    <2> QED BY <2>2, <2>3
  <1>3. slots' \in [Handles -> Seq(GoodRefs')]
    <2>1. \A h \in Handles : slots'[h] \in Seq(GoodRefs) /\ slots'[h] \in Seq(GoodRefs')
      BY <1>2, SeqOver
    <2> QED BY <2>1
  <1>4. \A b \in Addr : glob'[b] \in GoodVals(b)'
    <2> SUFFICES ASSUME NEW b \in Addr PROVE glob'[b] \in GoodVals(b)' OBVIOUS
    <2>1. CASE b = a
      <3>1. glob'[b] = Nil BY <1>0, <1>1, <2>1
      <3> QED BY <3>1 DEF GoodVals, Value
    <2>2. CASE b # a
      <3>1. glob'[b] = glob[b] /\ born'[b] = born[b] /\ prog'[b] = prog[b] BY <1>0, <1>1, <2>2
      <3>2. glob[b] \in GoodVals(b) BY DEF Contents
      <3> QED BY <3>1, <3>2 DEF GoodVals
    <2> QED BY <2>1, <2>2
  <1>5. \A b \in Addr : elems'[b] \in Seq(Seq(Funcs(prog'[b]) \cup {Nil}))
    <2> SUFFICES ASSUME NEW b \in Addr PROVE elems'[b] \in Seq(Seq(Funcs(prog'[b]) \cup {Nil})) OBVIOUS
    <2>1. DOMAIN elems = Addr BY <1>1
    <2>2. CASE b = a
      <3>1. elems'[b] = <<>> BY <1>0, <2>1, <2>2
      <3> QED BY <3>1
    <2>3. CASE b # a
      <3>1. elems'[b] = elems[b] /\ prog'[b] = prog[b] BY <1>0, <1>1, <2>1, <2>3
      <3> QED BY <3>1 DEF Contents
    <2> QED BY <2>2, <2>3
  <1>6. held' \in GoodRefs' /\ heldVal' \in Value /\ mem' \in [Mems -> Seq(Bytes)]
    BY <1>2 DEF Contents
  <1>7. born' \in [Addr -> Nat] /\ births' \in Nat
        /\ glob' = [b \in Addr |-> glob'[b]] /\ elems' = [b \in Addr |-> elems'[b]]
    BY <1>0, <1>1 DEF Contents
  <1> QED BY <1>3, <1>4, <1>5, <1>6, <1>7 DEF Contents

LEMMA ReleaseContents ==
    ASSUME Contents, NEW H, Release(H) PROVE slots' \in [Handles -> Seq(GoodRefs)]
  BY DEF Release, Contents

\* with_config returns an error, and an invocation ends with one.
LEMMA AbortContents == ASSUME IInv, Contents, NEW err, mode \in BuildModes, Abort(err) PROVE Contents'
  <1>1. build.a \in Addr BY DEF IInv, Building
  <1> QED BY <1>1, DropContents, ReleaseContents DEF Abort, embedVars

LEMMA UnwindContents ==
    ASSUME IInv, Contents, NEW err, stack # <<>>, Unwind(err) PROVE Contents'
  <1>1. Running \in Addr BY DEF IInv, OwnershipTypes, Running
  <1>2. UNCHANGED <<mem, held, heldVal>> BY DEF Unwind, embedVars
  <1>3. CASE status[Running] = "starting"
    BY <1>1, <1>2, <1>3, DropContents, ReleaseContents DEF Unwind
  <1>4. CASE status[Running] # "starting"
    <2>1. UNCHANGED <<instVars, slots>> BY <1>4 DEF Unwind
    <2> QED BY <1>2, <2>1, TablesContents DEF instVars, Contents
  <1> QED BY <1>3, <1>4

\* A new identity: nothing that is stored refers to its address, because a
\* Weak pointer would have kept the address from being reused.
LEMMA InstantiateContents ==
    ASSUME IInv, Contents, NEW m \in Modules, NEW a \in Addr, NEW imp, Instantiate(m, a, imp)
    PROVE  Contents'
  <1>0. UNCHANGED <<slots, mem, held, heldVal>> /\ births' = births + 1 /\ ~Pinned(a)
    BY DEF Instantiate, tableVars, embedVars
  <1>1. births' \in Nat BY <1>0 DEF Contents
  <1>2. /\ status \in [Addr -> {"free", "building", "starting", "live"}] /\ born \in [Addr -> Nat]
        /\ prog \in [Addr -> Modules \cup {Nil}]
        /\ glob = [b \in Addr |-> glob[b]] /\ elems = [b \in Addr |-> elems[b]]
    BY DEF IInv, OwnershipTypes, Contents
  <1>3. CASE UNCHANGED <<status, born, prog, tabs, elems, glob, mode, build>>
    <2>1. GoodRefs' = GoodRefs /\ \A b \in Addr : GoodVals(b)' = GoodVals(b)
      BY <1>3 DEF GoodRefs, GoodVals
    <2> QED BY <1>0, <1>1, <1>3, <2>1 DEF Contents
  <1>4. CASE /\ status' = [status EXCEPT ![a] = "building"]
             /\ born' = [born EXCEPT ![a] = births + 1]
             /\ prog' = [prog EXCEPT ![a] = m]
             /\ elems' = [elems EXCEPT ![a] = m.passive]
             /\ glob' = [glob EXCEPT ![a] = IF m.global = Nil THEN Nil
                                            ELSE [fn |-> m.global, origin |-> births + 1]]
    <2>1. \A r \in GoodRefs : r = Nil \/ r.owner # a => r \in GoodRefs'
      <3> SUFFICES ASSUME NEW r \in GoodRefs, r = Nil \/ r.owner # a PROVE r \in GoodRefs' OBVIOUS
      <3>1. r \in Ref BY DEF GoodRefs
      <3>2. CASE r = Nil BY <3>1, <3>2 DEF GoodRefs
      <3>3. CASE r # Nil
        <4>1. r.owner \in Addr /\ r.owner # a BY <3>1, <3>3 DEF Ref
        <4>2. /\ status'[r.owner] = status[r.owner] /\ born'[r.owner] = born[r.owner]
              /\ prog'[r.owner] = prog[r.owner]
          BY <1>2, <1>4, <4>1
        <4> QED BY <3>1, <3>3, <4>2 DEF GoodRefs
      <3> QED BY <3>2, <3>3
    <2>2. \A h \in Handles : \A k \in DOMAIN slots[h] : slots[h][k] = Nil \/ slots[h][k].owner # a
      BY <1>0 DEF Pinned
    <2>3. slots' \in [Handles -> Seq(GoodRefs')]
      <3> SUFFICES ASSUME NEW h \in Handles PROVE slots[h] \in Seq(GoodRefs')
        BY <1>0 DEF Contents
      <3>1. slots[h] \in Seq(GoodRefs) BY DEF Contents
      <3>2. \A k \in DOMAIN slots[h] : slots[h][k] \in GoodRefs' BY <2>1, <2>2, <3>1
      <3> QED BY <3>1, <3>2, SeqOver
    <2>4. held' \in GoodRefs' BY <1>0, <2>1 DEF Pinned, Contents
    <2>5. m \in ModuleType /\ Validated(m) /\ Funcs(m) \subseteq Nat BY FunctionsOf
    <2>6. \A b \in Addr : glob'[b] \in GoodVals(b)'
      <3> SUFFICES ASSUME NEW b \in Addr PROVE glob'[b] \in GoodVals(b)' OBVIOUS
      <3>1. CASE b = a
        <4>1. m.global \in Funcs(m) \cup {Nil} BY <2>5 DEF Validated
        <4>2. CASE m.global = Nil
          <5>1. glob'[b] = Nil BY <1>2, <1>4, <3>1, <4>2
          <5> QED BY <5>1 DEF GoodVals, Value
        <4>3. CASE m.global # Nil
          <5> DEFINE v == [fn |-> m.global, origin |-> births + 1]
          <5>1. glob'[b] = v /\ born'[b] = births + 1 /\ prog'[b] = m BY <1>2, <1>4, <3>1, <4>3
          <5>2. v.fn = m.global /\ v.origin = births + 1 OBVIOUS
          <5>3. v \in Value BY <1>0, <1>1, <2>5, <4>1, <4>3 DEF Value
          <5> HIDE DEF v
          <5> QED BY <4>1, <4>3, <5>1, <5>2, <5>3 DEF GoodVals
        <4> QED BY <4>2, <4>3
      <3>2. CASE b # a
        <4>1. glob'[b] = glob[b] /\ born'[b] = born[b] /\ prog'[b] = prog[b] BY <1>2, <1>4, <3>2
        <4>2. glob[b] \in GoodVals(b) BY DEF Contents
        <4> QED BY <4>1, <4>2 DEF GoodVals
      <3> QED BY <3>1, <3>2
    <2>7. m.passive \in Seq(Seq(Funcs(m) \cup {Nil}))
      <3>1. m.passive \in Seq(Seq(Nat \cup {Nil})) BY <2>5 DEF ModuleType
      <3>2. \A k \in DOMAIN m.passive : m.passive[k] \in Seq(Funcs(m) \cup {Nil})
        <4> SUFFICES ASSUME NEW k \in DOMAIN m.passive PROVE m.passive[k] \in Seq(Funcs(m) \cup {Nil})
          OBVIOUS
        <4>1. m.passive[k] \in Seq(Nat \cup {Nil}) BY <3>1
        <4>2. \A j \in DOMAIN m.passive[k] : m.passive[k][j] \in Funcs(m) \cup {Nil}
          BY <2>5 DEF Validated
        <4> QED BY <4>1, <4>2, SeqOver
      <3> QED BY <3>1, <3>2, SeqOver
    <2>8. \A b \in Addr : elems'[b] \in Seq(Seq(Funcs(prog'[b]) \cup {Nil}))
      <3> SUFFICES ASSUME NEW b \in Addr PROVE elems'[b] \in Seq(Seq(Funcs(prog'[b]) \cup {Nil}))
        OBVIOUS
      <3>1. CASE b = a
        <4>1. elems'[b] = m.passive /\ prog'[b] = m BY <1>2, <1>4, <3>1
        <4> QED BY <2>7, <4>1
      <3>2. CASE b # a
        <4>1. elems'[b] = elems[b] /\ prog'[b] = prog[b] BY <1>2, <1>4, <3>2
        <4> QED BY <4>1 DEF Contents
      <3> QED BY <3>1, <3>2
    <2>9. /\ born' \in [Addr -> Nat] /\ glob' = [b \in Addr |-> glob'[b]] /\ elems' = [b \in Addr |-> elems'[b]]
          /\ mem' \in [Mems -> Seq(Bytes)] /\ heldVal' \in Value
      BY <1>0, <1>1, <1>2, <1>4 DEF Contents
    <2> QED BY <1>1, <2>3, <2>4, <2>6, <2>8, <2>9 DEF Contents
  <1> QED BY <1>3, <1>4 DEF Instantiate

\* The instance with_config is building, and its segments.
LEMMA BuiltModule ==
    ASSUME IInv, Contents, mode \in BuildModes
    PROVE  /\ build.a \in Addr /\ status[build.a] = "building" /\ prog[build.a] \in Modules
           /\ born[build.a] \in Nat /\ tabs[build.a] \in Seq(Handles)
           /\ build.imp \in Seq(Handles) /\ build.k \in Nat \ {0}
  BY DEF IInv, Building, FreeIsEmpty, OwnershipTypes, Build, Contents

LEMMA ActiveSegment ==
    ASSUME NEW m \in Modules, NEW k \in DOMAIN m.active
    PROVE  /\ m.active[k].off \in Nat /\ m.active[k].t \in 1..TableCount(m)
           /\ m.active[k].fns \in Seq(Funcs(m) \cup {Nil})
  <1> DEFINE Segment == [t : Nat, off : Nat, fns : Seq(Nat \cup {Nil})]
  <1>1. m \in ModuleType /\ Validated(m) BY FunctionsOf
  <1>2. m.active \in Seq(Segment) BY <1>1 DEF ModuleType
  <1>3. m.active[k].fns \in Seq(Nat \cup {Nil}) /\ m.active[k].off \in Nat
    <2>1. \A e \in Segment : e.fns \in Seq(Nat \cup {Nil}) /\ e.off \in Nat OBVIOUS
    <2> HIDE DEF Segment
    <2>2. m.active[k] \in Segment BY <1>2
    <2> QED BY <2>1, <2>2
  <1>4. /\ m.active[k].t \in 1..TableCount(m)
        /\ \A j \in DOMAIN m.active[k].fns : m.active[k].fns[j] \in Funcs(m) \cup {Nil}
    BY <1>1 DEF Validated
  <1> QED BY <1>3, <1>4, SeqOver

LEMMA DataSegment ==
    ASSUME NEW m \in Modules, NEW k \in DOMAIN m.data
    PROVE  m.data[k].mem \in Mems /\ m.data[k].off \in Nat /\ m.data[k].bytes \in Seq(Bytes)
  <1> DEFINE Segment == [mem : Mems, off : Nat, bytes : Seq(Bytes)]
  <1>1. m.data \in Seq(Segment) BY FunctionsOf DEF ModuleType
  <1>2. \A e \in Segment : e.mem \in Mems /\ e.off \in Nat /\ e.bytes \in Seq(Bytes) OBVIOUS
  <1> HIDE DEF Segment
  <1>3. m.data[k] \in Segment BY <1>1
  <1> QED BY <1>2, <1>3

LEMMA DefinedLimits ==
    ASSUME NEW m \in Modules, NEW k \in DOMAIN m.defines
    PROVE  m.defines[k].min \in 0..MaxLen /\ m.defines[k].max \in 0..NoMax
           /\ m.defines[k].min <= m.defines[k].max
  <1>1. m \in ModuleType /\ Validated(m) BY FunctionsOf
  <1>2. m.defines[k] \in LimitType BY <1>1 DEF ModuleType
  <1> QED BY <1>1, <1>2 DEF LimitType, Validated

\* instantiate_tables goes through the imported tables and then the defined
\* ones, and leaves the stage when it has done the last.
Counted ==
    mode \in BuildModes =>
        /\ Len(build.imp) = Len(prog[build.a].imports)
        /\ mode = "bind" => Len(tabs[build.a]) < TableCount(prog[build.a])

\* Outside with_config nothing begins a stage of it.
LEMMA GuestModes == ASSUME mode = "guest", GuestStep PROVE mode' \in {"host", "guest"}
  <1> DEFINE Ok == mode' \in {"host", "guest"}
  <1>1. ASSUME NEW err, Unwind(err) PROVE Ok BY <1>1 DEF Unwind
  <1>2. ASSUME NEW h, NEW s, Wrote(h, s) PROVE Ok BY <1>2 DEF Wrote
  <1>3. ASSUME NEW t, NEW i, TableGet(t, i) PROVE Ok BY <1>1, <1>3 DEF TableGet
  <1>4. ASSUME NEW t, NEW i, NEW v, TableSet(t, i, v) PROVE Ok BY <1>1, <1>2, <1>4 DEF TableSet
  <1>5. ASSUME NEW t, NEW d, NEW v, TableGrow(t, d, v) PROVE Ok BY <1>2, <1>5 DEF TableGrow
  <1>6. ASSUME NEW t, NEW i, NEW v, NEW n, TableFill(t, i, v, n) PROVE Ok
    BY <1>1, <1>2, <1>6 DEF TableFill
  <1>7. ASSUME NEW t, NEW u, NEW i, NEW j, NEW n, TableCopy(t, u, i, j, n) PROVE Ok
    BY <1>1, <1>2, <1>7 DEF TableCopy
  <1>8. ASSUME NEW e, NEW t, NEW i, NEW j, NEW n, TableInit(e, t, i, j, n) PROVE Ok
    BY <1>1, <1>2, <1>8 DEF TableInit
  <1>9. ASSUME NEW e, ElemDrop(e) PROVE Ok BY <1>9 DEF ElemDrop
  <1>10. ASSUME NEW v, GlobalSet(v) PROVE Ok BY <1>10 DEF GlobalSet
  <1>11. ASSUME NEW ty, NEW t, NEW i, CallIndirect(ty, t, i) PROVE Ok
    BY <1>1, <1>11 DEF CallIndirect
  <1>12. ASSUME CallHost \/ Return \/ Trap PROVE Ok BY <1>1, <1>12 DEF CallHost, Return, Trap
  <1> QED BY <1>3, <1>4, <1>5, <1>6, <1>7, <1>8, <1>9, <1>10, <1>11, <1>12 DEF GuestStep

LEMMA HostModes == ASSUME HostStep PROVE mode = "host" /\ mode' \in {"host", "guest"}
  <1> DEFINE Ok == mode = "host" /\ mode' \in {"host", "guest"}
  <1>1. ASSUME NEW h, NEW lim, HostNewTable(h, lim) PROVE Ok BY <1>1 DEF HostNewTable
  <1>2. ASSUME NEW h, HostForgetTable(h) PROVE Ok BY <1>2 DEF HostForgetTable
  <1>3. ASSUME NEW h, NEW i, HostGet(h, i) PROVE Ok BY <1>3 DEF HostGet
  <1>4. ASSUME NEW h, NEW i, NEW r, HostSet(h, i, r) PROVE Ok BY <1>4 DEF HostSet
  <1>5. ASSUME NEW a, HostGlobalGet(a) \/ HostGlobalSet(a) \/ Invoke(a) \/ Drop(a) PROVE Ok
    BY <1>5 DEF HostGlobalGet, HostGlobalSet, Invoke, Drop
  <1>6. ASSUME HostReturn \/ HostFails PROVE Ok BY <1>6 DEF HostReturn, HostFails, Unwind
  <1> QED BY <1>1, <1>2, <1>3, <1>4, <1>5, <1>6 DEF HostStep

\* A module's table index space.
LEMMA TableSpace ==
    ASSUME NEW m \in Modules
    PROVE  /\ Len(m.imports) \in Nat /\ Len(m.defines) \in Nat
           /\ TableCount(m) = Len(m.imports) + Len(m.defines)
           /\ TableCount(m) \in Nat
           /\ m.imports \in Seq(LimitType) /\ m.defines \in Seq(LimitType)
  <1>1. m.imports \in Seq(LimitType) /\ m.defines \in Seq(LimitType) BY FunctionsOf DEF ModuleType
  <1>2. Len(m.imports) \in Nat /\ Len(m.defines) \in Nat BY <1>1
  <1>3. \A i, d \in Nat : i + d \in Nat OBVIOUS
  <1>4. Len(m.imports) + Len(m.defines) \in Nat BY <1>2, <1>3, Zenon
  <1> QED BY <1>1, <1>2, <1>4, Zenon DEF TableCount

LEMMA CountedStep == IInv /\ Counted /\ [Next]_vars => Counted'
  <1> SUFFICES ASSUME IInv, Counted, [Next]_vars PROVE Counted' OBVIOUS
  <1> DEFINE a == build.a
             Idle == mode' \notin BuildModes
  <1>0. mode \in BuildModes =>
          a \in Addr /\ prog[a] \in Modules /\ tabs[a] \in Seq(Handles) /\ build \in Build
    BY DEF IInv, Building, FreeIsEmpty, OwnershipTypes
  <1>1. CASE Idle BY <1>1 DEF Counted
  <1>2. ASSUME NEW m \in Modules, NEW b \in Addr, NEW imp \in [1..Len(m.imports) -> Known],
               Instantiate(m, b, imp)
        PROVE  Counted'
    <2>1. CASE mode' = mode BY <1>1, <1>2, <2>1 DEF Instantiate, BuildModes
    <2>2. CASE mode' # mode
      <3>1. /\ prog' = [prog EXCEPT ![b] = m] /\ build' = [a |-> b, imp |-> imp, k |-> 1]
            /\ tabs' = tabs /\ mode' = IF TableCount(m) = 0 THEN "preflight" ELSE "bind"
            /\ tabs[b] = <<>>
        BY <1>2, <2>2 DEF Instantiate, IInv, FreeIsEmpty
      <3>2. build'.a = b /\ build'.imp = imp /\ prog'[b] = m
        BY <3>1 DEF IInv, OwnershipTypes
      <3>3. Len(imp) = Len(m.imports) BY TableSpace
      <3>4. TableCount(m) \in Nat BY TableSpace
      <3> QED BY <3>1, <3>2, <3>3, <3>4 DEF Counted
    <2> QED BY <2>1, <2>2
  <1>3. ASSUME NEW err, Abort(err) PROVE Idle BY <1>3 DEF Abort, BuildModes
  <1>4. ASSUME mode = "bind", NEW h, AddTable(h) PROVE Counted'
    <2>1. /\ tabs' = [tabs EXCEPT ![a] = Append(tabs[a], h)]
          /\ mode' = IF Len(tabs[a]) + 1 = TableCount(prog[a]) THEN "preflight" ELSE "bind"
          /\ prog' = prog /\ build' = build
      BY <1>4 DEF AddTable
    <2>2. /\ a \in Addr /\ prog[a] \in Modules /\ tabs[a] \in Seq(Handles)
          /\ Len(tabs[a]) < TableCount(prog[a]) /\ Len(build.imp) = Len(prog[a].imports)
      BY <1>0, <1>4 DEF Counted, BuildModes
    <2>3. tabs'[a] = Append(tabs[a], h) BY <2>1, <2>2 DEF IInv, OwnershipTypes
    <2>4. \A m \in Modules : TableCount(m) \in Nat
      <3> TAKE m \in Modules
      <3> QED BY TableSpace
    <2>5. Len(tabs'[a]) = Len(tabs[a]) + 1 /\ Len(tabs[a]) \in Nat BY <2>2, <2>3
    <2> QED BY <2>1, <2>2, <2>4, <2>5 DEF Counted
  <1>5. ASSUME mode \in BuildModes, mode' # "bind", prog' = prog,
               build' = build \/ \E k : build' = [build EXCEPT !.k = k]
        PROVE  Counted'
    <2>1. build'.a = a /\ build'.imp = build.imp BY <1>0, <1>5 DEF Build
    <2> QED BY <1>5, <2>1 DEF Counted
  <1>6. CASE BuildStep
    <2>1. CASE BindImport BY <1>1, <1>3, <1>4, <2>1 DEF BindImport
    <2>2. ASSUME NEW h \in Handles, DefineTable(h) PROVE Counted' BY <1>4, <2>2 DEF DefineTable
    <2>3. CASE DefineFails BY <1>1, <1>3, <2>3 DEF DefineFails
    <2>4. CASE Preflight
      BY <1>1, <1>3, <1>5, <2>4 DEF Preflight, instVars, BuildModes
    <2>5. CASE WriteData
      BY <1>1, <1>3, <1>5, <2>5 DEF WriteData, instVars, BuildModes
    <2>6. CASE WriteElements
      BY <1>1, <1>3, <1>5, <2>6 DEF WriteElements, instVars, BuildModes
    <2>7. CASE Commit BY <1>1, <2>7 DEF Commit, BuildModes
    <2> QED BY <1>6, <2>1, <2>2, <2>3, <2>4, <2>5, <2>6, <2>7 DEF BuildStep
  <1>7. CASE mode = "guest" /\ GuestStep BY <1>1, <1>7, GuestModes DEF BuildModes
  <1>8. CASE HostStep BY <1>1, <1>8, HostModes DEF BuildModes
  <1>9. CASE UNCHANGED vars BY <1>9 DEF vars, instVars, runVars, Counted
  <1> QED BY <1>2, <1>6, <1>7, <1>8, <1>9 DEF Next, Begin

\* The limits of the table that instantiate_tables makes next.
LEMMA NextDefined ==
    ASSUME IInv, Counted, mode = "bind", Len(tabs[build.a]) >= Len(build.imp)
    PROVE  Len(tabs[build.a]) + 1 - Len(build.imp) \in DOMAIN prog[build.a].defines
  <1> DEFINE a == build.a
             m == prog[a]
             n == Len(tabs[a])
  <1>1. /\ m \in Modules /\ tabs[a] \in Seq(Handles)
        /\ Len(build.imp) = Len(m.imports) /\ n < TableCount(m)
    BY DEF IInv, Building, FreeIsEmpty, OwnershipTypes, Counted, BuildModes
  <1>2. /\ Len(m.imports) \in Nat /\ Len(m.defines) \in Nat
        /\ TableCount(m) = Len(m.imports) + Len(m.defines) /\ m.defines \in Seq(LimitType)
    <2> HIDE DEF m
    <2> QED BY <1>1, TableSpace
  <1>3. n \in Nat BY <1>1
  <1>4. \A i, d, x \in Nat : x >= i /\ x < i + d => x + 1 - i \in 1..d OBVIOUS
  <1>5. n >= Len(m.imports) /\ n < Len(m.imports) + Len(m.defines) BY <1>1, <1>2, Zenon
  <1>6. n + 1 - Len(m.imports) \in 1..Len(m.defines)
    <2> HIDE DEF n, m
    <2> QED BY <1>2, <1>3, <1>4, <1>5, Zenon
  <1>7. DOMAIN m.defines = 1..Len(m.defines) BY <1>2
  <1> QED BY <1>1, <1>6, <1>7, Zenon

\* The stages of with_config.
LEMMA BuildStepContents == ASSUME IInv, Contents, Counted, BuildStep PROVE Contents'
  <1> DEFINE a == build.a
             Rest == UNCHANGED <<status, born, births, prog, elems, glob, held, heldVal>>
  <1>0. slots \in [Handles -> Seq(GoodRefs)] /\ mem \in [Mems -> Seq(Bytes)] BY DEF Contents
  <1>1. ASSUME NEW err, mode \in BuildModes, Abort(err) PROVE Contents' BY <1>1, AbortContents
  <1>2. ASSUME Rest, slots' \in [Handles -> Seq(GoodRefs)], mem' \in [Mems -> Seq(Bytes)]
        PROVE  Contents'
    BY <1>2, TablesContents
  <1>3. CASE BindImport
    BY <1>0, <1>1, <1>2, <1>3 DEF BindImport, AddTable, BuildModes, embedVars
  <1>4. ASSUME NEW h \in Handles, DefineTable(h) PROVE Contents'
    <2> DEFINE m == prog[a]
               k == Len(tabs[a]) + 1 - Len(build.imp)
    <2>1. /\ mode = "bind" /\ Len(tabs[a]) >= Len(build.imp) /\ AddTable(h)
          /\ slots' = [slots EXCEPT ![h] = Fill(m.defines[k].min, Nil)]
      BY <1>4 DEF DefineTable
    <2>2. k \in DOMAIN m.defines BY <2>1, NextDefined
    <2>3. m \in Modules BY <2>1 DEF IInv, Building, FreeIsEmpty, BuildModes
    <2> HIDE DEF m, k
    <2>4. m.defines[k].min \in Nat BY <2>2, <2>3, DefinedLimits, BoundsAssumption
    <2>5. Nil \in GoodRefs BY DEF GoodRefs, Ref
    <2>6. Fill(m.defines[k].min, Nil) \in Seq(GoodRefs) BY <2>4, <2>5, FillSeq
    <2>7. slots' \in [Handles -> Seq(GoodRefs)] BY <1>0, <2>1, <2>6, OneSeqChanged
    <2> QED BY <1>0, <1>2, <2>1, <2>7 DEF AddTable, embedVars
  <1>5. CASE DefineFails BY <1>1, <1>5 DEF DefineFails, BuildModes
  <1>6. CASE Preflight
    BY <1>0, <1>1, <1>2, <1>6 DEF Preflight, BuildModes, instVars, tableVars, embedVars
  <1>7. CASE WriteData
    <2>1. mode = "data" /\ mode \in BuildModes BY <1>7 DEF WriteData, BuildModes
    <2>2. CASE build.k <= Len(prog[a].data)
      <3> DEFINE seg == prog[a].data[build.k]
      <3>1. /\ mem' = [mem EXCEPT ![seg.mem] = Splice(mem[seg.mem], seg.off, seg.bytes)]
            /\ UNCHANGED <<instVars, slots, embedVars>>
        BY <1>7, <2>2 DEF WriteData
      <3>2. prog[a] \in Modules /\ build.k \in Nat \ {0} BY <2>1, BuiltModule
      <3>3. build.k \in DOMAIN prog[a].data
        <4>1. prog[a].data \in Seq([mem : Mems, off : Nat, bytes : Seq(Bytes)])
          BY <3>2, FunctionsOf DEF ModuleType
        <4> QED BY <2>2, <3>2, <4>1
      <3>4. seg.mem \in Mems /\ seg.off \in Nat /\ seg.bytes \in Seq(Bytes)
        BY <3>2, <3>3, DataSegment
      <3> HIDE DEF seg
      <3>5. Splice(mem[seg.mem], seg.off, seg.bytes) \in Seq(Bytes) BY <1>0, <3>4, SpliceSeq
      <3>6. mem' \in [Mems -> Seq(Bytes)] BY <1>0, <3>1, <3>5, OneSeqChanged
      <3> QED BY <1>0, <1>2, <3>1, <3>6 DEF instVars, embedVars
    <2>3. CASE ~(build.k <= Len(prog[a].data))
      BY <1>0, <1>1, <1>2, <1>7, <2>1, <2>3 DEF WriteData, instVars, tableVars, embedVars
    <2> QED BY <2>2, <2>3
  <1>8. CASE WriteElements
    <2> DEFINE seg == prog[a].active[build.k]
               h == tabs[a][seg.t]
    <2>1. mode = "elements" /\ mode \in BuildModes /\ build.k <= Len(prog[a].active)
      BY <1>8 DEF WriteElements, BuildModes
    <2>2. CASE UNCHANGED <<instVars, mem, embedVars>>
               /\ slots' = [slots EXCEPT ![h] = Splice(slots[h], seg.off, OwnRefs(a, seg.fns))]
      <3>1. /\ a \in Addr /\ prog[a] \in Modules /\ born[a] \in Nat /\ build.k \in Nat \ {0}
            /\ tabs[a] \in Seq(Handles) /\ Len(tabs[a]) = TableCount(prog[a])
        BY <2>1, BuiltModule DEF IInv, Building
      <3>2. build.k \in DOMAIN prog[a].active
        <4>1. prog[a].active \in Seq([t : Nat, off : Nat, fns : Seq(Nat \cup {Nil})])
          BY <3>1, FunctionsOf DEF ModuleType
        <4> QED BY <2>1, <3>1, <4>1
      <3>3. seg.off \in Nat /\ seg.t \in 1..TableCount(prog[a])
            /\ seg.fns \in Seq(Funcs(prog[a]) \cup {Nil})
        BY <3>1, <3>2, ActiveSegment
      <3> HIDE DEF seg
      <3>4. h \in Handles BY <3>1, <3>3
      <3>5. OwnRefs(a, seg.fns) \in Seq(GoodRefs) BY <3>1, <3>3, OwnRefsGood
      <3>6. Splice(slots[h], seg.off, OwnRefs(a, seg.fns)) \in Seq(GoodRefs)
        BY <1>0, <3>3, <3>4, <3>5, SpliceSeq
      <3>7. slots' \in [Handles -> Seq(GoodRefs)] BY <1>0, <2>2, <3>6, OneSeqChanged
      <3> QED BY <1>0, <1>2, <2>2, <3>7 DEF instVars, embedVars
    <2> QED BY <1>1, <1>8, <2>1, <2>2 DEF WriteElements
  <1>9. CASE Commit
    <2>1. /\ mode = "elements" /\ mode \in BuildModes
          /\ UNCHANGED <<born, births, prog, elems, glob, slots, mem, held, heldVal>>
          /\ \/ status' = [status EXCEPT ![a] = "starting"]
             \/ status' = [status EXCEPT ![a] = "live"]
      BY <1>9 DEF Commit, BuildModes, tableVars, embedVars
    <2>2. a \in Addr /\ status[a] = "building" BY <2>1, BuiltModule
    <2>3. \A b \in Addr : status'[b] = "free" <=> status[b] = "free"
      BY <2>1, <2>2 DEF IInv, OwnershipTypes
    <2> QED BY <1>0, <2>1, <2>3, TablesContents
  <1> QED BY <1>3, <1>4, <1>5, <1>6, <1>7, <1>8, <1>9 DEF BuildStep

-----------------------------------------------------------------------------
\* What an instruction of the innermost instance can do: nothing to any table,
\* ...
GuestQuiet ==
    /\ UNCHANGED <<born, births, prog, tabs, tableVars, embedVars, build>>
    /\ status' = status \/ status' = [status EXCEPT ![Running] = "live"]
    /\ glob' = [b \in Addr |-> glob'[b]] /\ \A a \in Addr : glob'[a] \in GoodVals(a)
    /\ elems' = [b \in Addr |-> elems'[b]] /\ \A a \in Addr : elems'[a] \in Seq(Seq(Funcs(prog[a]) \cup {Nil}))
    /\ result' \in {"ok", "-1"}

\* ... replace the contents of one of its tables, which does not get shorter
\* and grows only within its limits, ...
GuestReplaces ==
    \E h \in Range(tabs[Running]) \cap Handles, s \in Seq(GoodRefs) :
        /\ Wrote(h, s)
        /\ \/ Len(s) = Len(slots[h])
           \/ Len(s) >= Len(slots[h]) /\ Len(s) <= MaxLen /\ Len(s) <= tmax[h]

\* ... or end its invocation with one of the errors a guest can cause.
GuestErrors == {"TableElementOutOfBounds", "ForeignTableFunctionReference", "UninitializedTableElement",
                "IndirectCallTypeMismatch", "ElementSegmentSourceOutOfBounds", "Trap"}
GuestFails == \E err \in GuestErrors \cup (IF RefGlobals THEN {"FunctionOutOfBounds"} ELSE {}) : Unwind(err)

LEMMA RunningExists ==
    ASSUME IInv, stack # <<>>
    PROVE  /\ Running \in Addr /\ status[Running] \in {"starting", "live"}
           /\ prog[Running] \in Modules
           /\ tabs[Running] \in Seq(Handles)
           /\ Len(stack) \in Nat \ {0} /\ Running = stack[Len(stack)]
  <1>1. stack \in Seq(Addr) /\ Len(stack) \in Nat \ {0} BY DEF IInv, OwnershipTypes
  <1>2. Running = stack[Len(stack)] /\ Running \in Addr BY <1>1 DEF Running
  <1>3. status[Running] \in {"starting", "live"} BY <1>1, <1>2 DEF IInv, StackLive
  <1> QED BY <1>1, <1>2, <1>3 DEF IInv, FreeIsEmpty, OwnershipTypes

\* The table an instruction works on.
LEMMA TableOfRunning ==
    ASSUME IInv, Contents, mode = "guest", NEW t, Instruction(t)
    PROVE  /\ tabs[Running][t] \in Range(tabs[Running]) \cap Handles
           /\ slots[tabs[Running][t]] \in Seq(GoodRefs)
           /\ Len(slots[tabs[Running][t]]) \in Nat
  <1>1. stack # <<>> BY DEF IInv, StackLive
  <1>2. tabs[Running] \in Seq(Handles) BY <1>1, RunningExists
  <1>3. t \in DOMAIN tabs[Running] BY DEF Instruction
  <1>4. tabs[Running][t] \in Handles /\ tabs[Running][t] \in Range(tabs[Running])
    BY <1>2, <1>3 DEF Range
  <1>5. slots[tabs[Running][t]] \in Seq(GoodRefs) BY <1>4 DEF Contents
  <1> QED BY <1>4, <1>5

LEMMA GuestEffect ==
    ASSUME IInv, Contents, tmax \in [Handles -> 0..NoMax], mode = "guest", GuestStep
    PROVE  GuestQuiet \/ GuestReplaces \/ GuestFails
  <1> DEFINE a == Running
             Goal == GuestQuiet \/ GuestReplaces \/ GuestFails
  <1>0. /\ stack # <<>> BY DEF IInv, StackLive
  <1>1. /\ a \in Addr /\ status[a] \in {"starting", "live"} /\ prog[a] \in Modules
        /\ born[a] \in Nat /\ tabs[a] \in Seq(Handles)
    BY <1>0, RunningExists DEF Contents
  <1>2. \A v \in Operands(a) : v \in GoodVals(a) /\ Mint(a, v) \in GoodRefs
    BY <1>1, OperandsGood, MintGood
  <1>3. ASSUME NEW err \in GuestErrors, Unwind(err) PROVE Goal BY <1>3 DEF GuestFails
  <1>4. /\ glob = [b \in Addr |-> glob[b]] /\ \A b \in Addr : glob[b] \in GoodVals(b)
        /\ elems = [b \in Addr |-> elems[b]] /\ \A b \in Addr : elems[b] \in Seq(Seq(Funcs(prog[b]) \cup {Nil}))
    BY DEF Contents
  <1>5. ASSUME UNCHANGED <<instVars, tableVars, embedVars, build>>, result' \in {"ok", "-1"}
        PROVE  Goal
    BY <1>4, <1>5 DEF GuestQuiet, instVars
  <1>6. Index \subseteq Nat /\ MaxLen \in Nat BY BoundsAssumption DEF Index
  <1>7. ASSUME NEW t, NEW s \in Seq(GoodRefs), Instruction(t), Wrote(tabs[a][t], s),
               Len(s) = Len(slots[tabs[a][t]])
        PROVE  Goal
    BY <1>7, TableOfRunning DEF GuestReplaces
  <1>8. ASSUME NEW t, NEW i \in Index, TableGet(t, i) PROVE Goal
    BY <1>3, <1>5, <1>8 DEF TableGet, FunctionIndexFor, GuestErrors
  <1>9. ASSUME NEW t, NEW i \in Index, NEW v \in Operands(a), TableSet(t, i, v) PROVE Goal
    <2> DEFINE h == tabs[a][t]
               s == [slots[h] EXCEPT ![i + 1] = Mint(a, v)]
    <2>1. Instruction(t) /\ slots[h] \in Seq(GoodRefs) BY <1>9, TableOfRunning DEF TableSet
    <2>2. s \in Seq(GoodRefs) /\ Len(s) = Len(slots[h])
      <3>1. \A q \in Seq(GoodRefs), r \in GoodRefs : \A k :
              [q EXCEPT ![k] = r] \in Seq(GoodRefs) /\ Len([q EXCEPT ![k] = r]) = Len(q)
        BY SetSeq
      <3> QED BY <1>2, <2>1, <3>1, Zenon
    <2>3. CASE i < Len(slots[h])
      <3>1. Wrote(h, s) BY <1>9, <2>3 DEF TableSet
      <3> HIDE DEF s
      <3> QED BY <1>7, <2>1, <2>2, <3>1
    <2>4. CASE ~(i < Len(slots[h])) BY <1>3, <1>9, <2>4 DEF TableSet, GuestErrors
    <2> QED BY <2>3, <2>4
  <1>10. ASSUME NEW t, NEW d \in Index, NEW v \in Operands(a), TableGrow(t, d, v) PROVE Goal
    <2> DEFINE h == tabs[a][t]
               n == Len(slots[h]) + d
               f == Fill(d, Mint(a, v))
               s == slots[h] \o f
    <2>1. /\ Instruction(t) /\ slots[h] \in Seq(GoodRefs) /\ Len(slots[h]) \in Nat
          /\ h \in Range(tabs[a]) \cap Handles
      BY <1>10, TableOfRunning DEF TableGrow
    <2>2. CASE n > MaxLen \/ n > tmax[h] BY <1>5, <1>10, <2>2 DEF TableGrow
    <2>3. CASE ~(n > MaxLen \/ n > tmax[h])
      <3>1. Wrote(h, s) BY <1>10, <2>3 DEF TableGrow
      <3>2. d \in Nat BY <1>6
      <3>3. f \in Seq(GoodRefs) /\ Len(f) = d BY <1>2, <3>2, FillSeq
      <3> HIDE DEF f
      <3>4. s \in Seq(GoodRefs) /\ Len(s) = n BY <2>1, <3>3, ConcatSeq
      <3>5. Len(slots[h]) <= n /\ n \in Nat BY <2>1, <3>2
      <3> HIDE DEF s, n
      <3>6. tmax[h] \in Nat BY <1>6, <2>1 DEF NoMax
      <3>7. Len(s) >= Len(slots[h]) /\ Len(s) <= MaxLen /\ Len(s) <= tmax[h]
        BY <1>6, <2>1, <2>3, <3>4, <3>5, <3>6
      <3> QED BY <2>1, <3>1, <3>4, <3>7 DEF GuestReplaces
    <2> QED BY <2>2, <2>3
  <1>11. ASSUME NEW t, NEW i \in Index, NEW v \in Operands(a), NEW n \in Index, TableFill(t, i, v, n)
         PROVE  Goal
    <2> DEFINE h == tabs[a][t]
               f == Fill(n, Mint(a, v))
               s == Splice(slots[h], i, f)
    <2>1. Instruction(t) /\ slots[h] \in Seq(GoodRefs) BY <1>11, TableOfRunning DEF TableFill
    <2>2. f \in Seq(GoodRefs) BY <1>2, <1>6, FillSeq
    <2> HIDE DEF f
    <2>3. s \in Seq(GoodRefs) /\ Len(s) = Len(slots[h]) BY <1>6, <2>1, <2>2, SpliceSeq
    <2>4. CASE i + n <= Len(slots[h])
      <3>1. Wrote(h, s) BY <1>11, <2>4 DEF TableFill, f
      <3> HIDE DEF s
      <3> QED BY <1>7, <2>1, <2>3, <3>1
    <2>5. CASE ~(i + n <= Len(slots[h])) BY <1>3, <1>11, <2>5 DEF TableFill, GuestErrors
    <2> QED BY <2>4, <2>5
  <1>12. ASSUME NEW t, NEW u, NEW i \in Index, NEW j \in Index, NEW n \in Index, TableCopy(t, u, i, j, n)
         PROVE  Goal
    <2> DEFINE dst == tabs[a][t]
               src == tabs[a][u]
               f == SubSeq(slots[src], j + 1, j + n)
               s == Splice(slots[dst], i, f)
    <2>1. /\ Instruction(t) /\ Instruction(u)
          /\ slots[dst] \in Seq(GoodRefs) /\ slots[src] \in Seq(GoodRefs)
      BY <1>12, TableOfRunning DEF TableCopy
    <2>2. CASE j + n <= Len(slots[src]) /\ i + n <= Len(slots[dst])
      <3>1. Wrote(dst, s) BY <1>12, <2>2 DEF TableCopy
      <3>2. f \in Seq(GoodRefs) BY <1>6, <2>1, <2>2, SliceSeq
      <3> HIDE DEF f
      <3>3. s \in Seq(GoodRefs) /\ Len(s) = Len(slots[dst]) BY <1>6, <2>1, <3>2, SpliceSeq
      <3> HIDE DEF s
      <3> QED BY <1>7, <2>1, <3>1, <3>3
    <2>3. CASE ~(j + n <= Len(slots[src]) /\ i + n <= Len(slots[dst]))
      BY <1>3, <1>12, <2>3 DEF TableCopy, GuestErrors
    <2> QED BY <2>2, <2>3
  <1>13. ASSUME NEW e \in DOMAIN elems[a], NEW t, NEW i \in Index, NEW j \in Index, NEW n \in Index,
                TableInit(e, t, i, j, n)
         PROVE  Goal
    <2> DEFINE h == tabs[a][t]
               seg == elems[a][e]
               f == SubSeq(seg, j + 1, j + n)
               s == Splice(slots[h], i, OwnRefs(a, f))
    <2>1. Instruction(t) /\ slots[h] \in Seq(GoodRefs) BY <1>13, TableOfRunning DEF TableInit
    <2>2. seg \in Seq(Funcs(prog[a]) \cup {Nil}) BY <1>1, <1>4
    <2> HIDE DEF seg
    <2>3. CASE j + n > Len(seg) BY <1>3, <1>13, <2>3 DEF TableInit, GuestErrors, seg
    <2>4. CASE ~(j + n > Len(seg)) /\ i + n > Len(slots[h])
      BY <1>3, <1>13, <2>4 DEF TableInit, GuestErrors, seg
    <2>5. CASE ~(j + n > Len(seg)) /\ ~(i + n > Len(slots[h]))
      <3>1. Wrote(h, s) BY <1>13, <2>5 DEF TableInit, seg
      <3>2. j + n <= Len(seg) BY <1>6, <2>2, <2>5
      <3>3. f \in Seq(Funcs(prog[a]) \cup {Nil}) BY <1>6, <2>2, <3>2, SliceSeq
      <3> HIDE DEF f
      <3>4. OwnRefs(a, f) \in Seq(GoodRefs) BY <1>1, <3>3, OwnRefsGood
      <3>5. s \in Seq(GoodRefs) /\ Len(s) = Len(slots[h]) BY <1>6, <2>1, <3>4, SpliceSeq
      <3> HIDE DEF s
      <3> QED BY <1>7, <2>1, <3>1, <3>5
    <2> QED BY <2>3, <2>4, <2>5
  <1>14. ASSUME NEW e \in DOMAIN elems[a], ElemDrop(e) PROVE Goal
    <2>1. elems' = [elems EXCEPT ![a][e] = <<>>] BY <1>14 DEF ElemDrop
    <2>2. [elems[a] EXCEPT ![e] = <<>>] \in Seq(Seq(Funcs(prog[a]) \cup {Nil})) BY <1>1, <1>4
    <2>3. elems' = [b \in Addr |-> elems'[b]] /\ \A b \in Addr : elems'[b] \in Seq(Seq(Funcs(prog[b]) \cup {Nil}))
      BY <1>1, <1>4, <2>1, <2>2
    <2> QED BY <1>4, <1>14, <2>3 DEF ElemDrop, GuestQuiet
  <1>15. ASSUME NEW v \in Operands(a), GlobalSet(v) PROVE Goal
    <2>1. glob' = [glob EXCEPT ![a] = v] BY <1>15 DEF GlobalSet
    <2>2. glob' = [b \in Addr |-> glob'[b]] /\ \A b \in Addr : glob'[b] \in GoodVals(b)
      BY <1>1, <1>2, <1>4, <2>1
    <2> QED BY <1>4, <1>15, <2>2 DEF GlobalSet, GuestQuiet
  <1>16. ASSUME NEW ty \in Types, NEW t, NEW i \in Index, CallIndirect(ty, t, i) PROVE Goal
    <2> DEFINE h == tabs[a][t]
               out == ResolveIndirect(a, ty, h, i)
    <2>1. Instruction(t) /\ slots[h] \in Seq(GoodRefs) /\ Len(slots[h]) \in Nat
      BY <1>16, TableOfRunning DEF CallIndirect
    <2>2. out = "Ok" \/ out \in GuestErrors \/ (out = "FunctionOutOfBounds" /\ RefGlobals)
      <3>1. CASE FunctionIndexFor(a, h, i) # "Ok"
        BY <3>1 DEF ResolveIndirect, FunctionIndexFor, GuestErrors
      <3>2. CASE FunctionIndexFor(a, h, i) = "Ok"
        <4> DEFINE r == slots[h][i + 1]
        <4>1. ~(i >= Len(slots[h])) /\ r # Nil /\ r.owner = a BY <3>2, IndexForOk
        <4>2. i + 1 \in 1..Len(slots[h]) BY <1>6, <2>1, <4>1
        <4>3. r \in GoodRefs BY <2>1, <4>2
        <4>4. ~RefGlobals => r.fn \in Funcs(prog[a]) BY <1>1, <4>1, <4>3 DEF GoodRefs
        <4> QED BY <3>2, <4>4 DEF ResolveIndirect, GuestErrors
      <3> QED BY <3>1, <3>2
    <2>3. CASE out = "Ok" BY <1>5, <1>16, <2>3 DEF CallIndirect
    <2>4. CASE out # "Ok"
      <3>1. Unwind(out) BY <1>16, <2>4 DEF CallIndirect
      <3> HIDE DEF out
      <3> QED BY <2>2, <2>4, <3>1 DEF GuestFails
    <2> QED BY <2>3, <2>4
  <1>17. CASE CallHost BY <1>5, <1>17 DEF CallHost
  <1>18. CASE Return BY <1>4, <1>18 DEF Return, GuestQuiet
  <1>19. CASE Trap BY <1>3, <1>19 DEF Trap, GuestErrors
  <1> QED BY <1>8, <1>9, <1>10, <1>11, <1>12, <1>13, <1>14, <1>15, <1>16, <1>17, <1>18, <1>19
          DEF GuestStep

-----------------------------------------------------------------------------
\* Every table fits its maximum and u32, and a backing store that does not
\* exist is empty.
Sized ==
    /\ tmax \in [Handles -> 0..NoMax]
    /\ \A h \in Handles : Len(slots[h]) <= tmax[h] /\ Len(slots[h]) <= MaxLen
    /\ \A h \in Handles \ made : slots[h] = <<>>

\* What a step may do to the size of a table that exists before and after it.
Grown == \A h \in made \cap made' : /\ Len(slots'[h]) >= Len(slots[h])
                                    /\ tmax'[h] = tmax[h]
                                    /\ Len(slots'[h]) <= tmax[h]

LEMMA Lengths == ASSUME Contents, NEW h \in Handles
                 PROVE  slots[h] \in Seq(GoodRefs) /\ Len(slots[h]) \in Nat
  <1>1. slots[h] \in Seq(GoodRefs) BY DEF Contents
  <1> QED BY <1>1

LEMMA MadeHandles == ASSUME IInv PROVE made \subseteq Handles
  BY DEF IInv, OwnershipTypes

LEMMA SameSizes == ASSUME IInv, Contents, Sized, UNCHANGED <<slots, tmax, made>>
                   PROVE  Sized' /\ Grown
  <1>1. Sized' BY DEF Sized
  <1>2. \A h \in made : h \in Handles /\ Len(slots[h]) \in Nat BY Lengths, MadeHandles
  <1> QED BY <1>1, <1>2 DEF Sized, Grown

LEMMA OneTableSizes ==
    ASSUME IInv, Contents, Sized, NEW h \in made, NEW s \in Seq(GoodRefs),
           slots' = [slots EXCEPT ![h] = s], UNCHANGED <<tmax, made>>,
           \/ Len(s) = Len(slots[h])
           \/ Len(s) >= Len(slots[h]) /\ Len(s) <= MaxLen /\ Len(s) <= tmax[h]
    PROVE  Sized' /\ Grown
  <1>0. h \in Handles /\ made \subseteq Handles BY MadeHandles
  <1>1. DOMAIN slots = Handles BY DEF Contents
  <1>2. slots'[h] = s /\ \A g \in Handles : g # h => slots'[g] = slots[g] BY <1>0, <1>1
  <1>3. \A g \in Handles : Len(slots[g]) \in Nat /\ Len(slots[g]) >= Len(slots[g]) BY Lengths
  <1>4. Len(s) >= Len(slots[h]) /\ Len(s) <= MaxLen /\ Len(s) <= tmax[h]
    BY <1>0, <1>3 DEF Sized
  <1>5. Sized' BY <1>2, <1>4 DEF Sized
  <1>6. Grown
    <2> SUFFICES ASSUME NEW g \in made
                 PROVE  /\ Len(slots'[g]) >= Len(slots[g]) /\ tmax'[g] = tmax[g]
                        /\ Len(slots'[g]) <= tmax[g]
      BY DEF Grown
    <2>1. g \in Handles BY <1>0
    <2>2. CASE g = h BY <1>2, <1>4, <2>2
    <2>3. CASE g # h
      <3>1. slots'[g] = slots[g] BY <1>2, <2>1, <2>3
      <3>2. Len(slots[g]) >= Len(slots[g]) /\ Len(slots[g]) <= tmax[g]
        BY <1>3, <2>1 DEF Sized
      <3> QED BY <3>1, <3>2
    <2> QED BY <2>2, <2>3
  <1> QED BY <1>5, <1>6

LEMMA ReleaseSizes ==
    ASSUME IInv, Contents, Sized, NEW H, Release(H) PROVE Sized' /\ Grown
  <1>0. MaxLen \in Nat /\ NoMax \in Nat BY BoundsAssumption DEF NoMax
  <1>1. /\ made' = made \ H /\ made \subseteq Handles
        /\ \A g \in Handles : /\ slots'[g] = IF g \in H THEN <<>> ELSE slots[g]
                              /\ tmax'[g] = IF g \in H THEN 0 ELSE tmax[g]
        /\ tmax' \in [Handles -> 0..NoMax]
    BY <1>0, MadeHandles DEF Release, Sized
  <1>2. Len(<<>>) = 0 /\ 0 <= 0 /\ 0 <= MaxLen BY <1>0
  <1>3. Sized' BY <1>1, <1>2 DEF Sized
  <1>4. \A h \in made : h \in Handles /\ Len(slots[h]) \in Nat BY Lengths, MadeHandles
  <1>5. Grown BY <1>1, <1>4 DEF Grown, Sized
  <1> QED BY <1>3, <1>5

LEMMA NewTableSizes ==
    ASSUME IInv, Contents, Sized, NEW h \in Handles \ made, NEW lim, lim.min \in 0..MaxLen,
           lim.max \in 0..NoMax, lim.min <= lim.max,
           made' = made \cup {h},
           slots' = [slots EXCEPT ![h] = Fill(lim.min, Nil)],
           tmax' = [tmax EXCEPT ![h] = lim.max]
    PROVE  Sized' /\ Grown
  <1>0. MaxLen \in Nat /\ lim.min \in Nat /\ lim.min <= MaxLen BY BoundsAssumption
  <1> DEFINE s == Fill(lim.min, Nil)
  <1>1. Len(s) = lim.min BY <1>0, FillSeq
  <1> HIDE DEF s
  <1>2. DOMAIN slots = Handles /\ DOMAIN tmax = Handles BY DEF Contents, Sized
  <1>3. /\ slots'[h] = s /\ tmax'[h] = lim.max
        /\ \A g \in Handles : g # h => slots'[g] = slots[g] /\ tmax'[g] = tmax[g]
    BY <1>2 DEF s
  <1>4. tmax' \in [Handles -> 0..NoMax] BY DEF Sized
  <1>5. Sized' BY <1>0, <1>1, <1>3, <1>4 DEF Sized
  <1>6. \A g \in made : g \in Handles /\ g # h /\ Len(slots[g]) \in Nat BY Lengths, MadeHandles
  <1>7. Grown BY <1>3, <1>6 DEF Grown, Sized
  <1> QED BY <1>5, <1>7

\* An invocation ends with an error.
LEMMA UnwindSizes == ASSUME IInv, Contents, Sized, NEW err, Unwind(err) PROVE Sized' /\ Grown
  BY SameSizes, ReleaseSizes DEF Unwind

LEMMA AbortSizes == ASSUME IInv, Contents, Sized, NEW err, Abort(err) PROVE Sized' /\ Grown
  BY ReleaseSizes DEF Abort

-----------------------------------------------------------------------------
\* What with_config has changed so far: until the preflights have succeeded
\* only the tables it defined itself, and from then on it cannot fail.
Staged ==
    /\ pub \in [slots : [Handles -> Seq(Ref)], mem : [Mems -> Seq(Bytes)]]
    /\ AllOrNothing
    /\ mode \in {"bind", "preflight"} =>
         /\ mem = pub.mem
         /\ \A h \in Handles : IF h \in Defined(build.a) THEN pub.slots[h] = <<>>
                               ELSE slots[h] = pub.slots[h]
    /\ mode \in {"data", "elements"} => ElementsFit(build.a)

\* The internal errors that are never reported.
NoFault == result # "ControlInvariant" /\ (~RefGlobals => result # "FunctionOutOfBounds")

LEMMA WiderSeqs ==
    ASSUME NEW D, NEW S, NEW T, S \subseteq T, NEW f \in [D -> Seq(S)]
    PROVE  f \in [D -> Seq(T)]
  <1>1. \A d \in D : f[d] \in Seq(T)
    <2> TAKE d \in D
    <2>1. f[d] \in Seq(S) OBVIOUS
    <2>2. \A k \in DOMAIN f[d] : f[d][k] \in T BY <2>1
    <2> QED BY <2>1, <2>2, SeqOver
  <1> QED BY <1>1

LEMMA PlainTypes == /\ Contents => slots \in [Handles -> Seq(Ref)] /\ mem \in [Mems -> Seq(Bytes)]
                    /\ Contents' => slots' \in [Handles -> Seq(Ref)] /\ mem' \in [Mems -> Seq(Bytes)]
  <1>1. GoodRefs \subseteq Ref /\ GoodRefs' \subseteq Ref BY DEF GoodRefs
  <1>2. ASSUME Contents PROVE slots \in [Handles -> Seq(Ref)] /\ mem \in [Mems -> Seq(Bytes)]
    BY <1>1, <1>2, WiderSeqs DEF Contents
  <1>3. ASSUME Contents' PROVE slots' \in [Handles -> Seq(Ref)] /\ mem' \in [Mems -> Seq(Bytes)]
    BY <1>1, <1>3, WiderSeqs DEF Contents
  <1> QED BY <1>2, <1>3

\* An operation of the embedder or of guest code is complete when it ends.
LEMMA Published == ASSUME Contents', Publish, mode' \in {"host", "guest"} PROVE Staged'
  <1>1. slots' \in [Handles -> Seq(Ref)] /\ mem' \in [Mems -> Seq(Bytes)] BY PlainTypes, Zenon
  <1> QED BY <1>1 DEF Publish, Staged, AllOrNothing, BuildModes

\* A failure that is reported before a segment was written.
LEMMA AbortStaged ==
    ASSUME IInv, Contents, Staged, mode \in {"bind", "preflight"}, NEW err, Abort(err)
    PROVE  Staged'
  <1>1. /\ pub' = pub /\ mem' = mem /\ mode' = "host"
        /\ slots' = [h \in Handles |-> IF h \in Defined(build.a) THEN <<>> ELSE slots[h]]
    BY DEF Abort, Release
  <1>2. mem' = pub.mem /\ pub.slots \in [Handles -> Seq(Ref)] BY <1>1 DEF Staged
  <1>3. \A h \in Handles : slots'[h] = pub.slots[h] BY <1>1 DEF Staged
  <1>4. slots' = pub.slots BY <1>1, <1>2, <1>3
  <1>5. pub = [slots |-> pub.slots, mem |-> pub.mem] BY DEF Staged
  <1> QED BY <1>1, <1>2, <1>4, <1>5 DEF Staged, AllOrNothing, BuildModes

\* The tables the instance under construction has defined so far.
LEMMA DefinedMade ==
    ASSUME IInv, mode \in BuildModes
    PROVE  Defined(build.a) \subseteq made
  <1>1. build.a \in Addr /\ status[build.a] = "building" /\ tabs[build.a] \in Seq(Handles)
    BY DEF IInv, Building, OwnershipTypes
  <1>2. Defined(build.a) \subseteq Range(tabs[build.a]) BY <1>1, DefinedIsOwn
  <1>3. \A h \in Range(tabs[build.a]) : h \in Handles /\ owner[h] = build.a
    BY <1>1 DEF Range, IInv, BindingExact
  <1> QED BY <1>1, <1>2, <1>3, NilAssumption DEF IInv, BoundIsMade

LEMMA DefinedGrows ==
    ASSUME IInv, Counted, mode = "bind", NEW h \in Handles, AddTable(h)
    PROVE  /\ Len(tabs[build.a]) < Len(build.imp) => Defined(build.a)' = {} /\ Defined(build.a) = {}
           /\ Len(tabs[build.a]) >= Len(build.imp) => Defined(build.a)' = Defined(build.a) \cup {h}
           /\ build' = build
  <1> DEFINE a == build.a
             n == Len(tabs[a])
             i == Len(prog[a].imports)
             s == tabs[a]
             z == Append(s, h)
  <1>1. /\ a \in Addr /\ prog[a] \in Modules /\ s \in Seq(Handles) /\ Len(build.imp) = i
    BY DEF IInv, Building, FreeIsEmpty, OwnershipTypes, Counted, BuildModes
  <1>2. tabs' = [tabs EXCEPT ![a] = z] /\ prog' = prog /\ build' = build BY DEF AddTable
  <1>3. tabs'[a] = z BY <1>1, <1>2 DEF IInv, OwnershipTypes
  <1>4. n \in Nat /\ DOMAIN s = 1..n BY <1>1
  <1>5. DOMAIN z = 1..(n + 1) /\ z[n + 1] = h /\ \A k \in 1..n : z[k] = s[k]
    <2>1. s \in Seq(Handles) /\ n = Len(s) BY <1>1
    <2> HIDE DEF s, n
    <2> QED BY <2>1
  <1>6. i \in Nat BY <1>1, TableSpace
  <1>7. Defined(a) = {s[k] : k \in {j \in 1..n : j > i}} BY <1>4 DEF Defined
  <1>8. Defined(build.a)' = {z[k] : k \in {j \in 1..(n + 1) : j > i}}
    BY <1>2, <1>3, <1>5 DEF Defined
  <1> HIDE DEF n, i, s, z
  <1>9. ASSUME n < i PROVE Defined(build.a)' = {} /\ Defined(a) = {}
    <2>1. \A j \in 1..(n + 1) : ~(j > i) BY <1>4, <1>6, <1>9
    <2>2. \A j \in 1..n : ~(j > i) BY <1>4, <1>6, <1>9
    <2> QED BY <1>7, <1>8, <2>1, <2>2
  <1>10. ASSUME n >= i PROVE Defined(build.a)' = Defined(a) \cup {h}
    <2>1. {j \in 1..(n + 1) : j > i} = {j \in 1..n : j > i} \cup {n + 1} BY <1>4, <1>6, <1>10
    <2>2. \A k \in {j \in 1..n : j > i} : z[k] = s[k] BY <1>5
    <2> QED BY <1>5, <1>7, <1>8, <2>1, <2>2
  <1> QED BY <1>1, <1>2, <1>9, <1>10 DEF n

\* Once the preflight succeeded, no segment and no binding is refused.
LEMMA NothingLeftToFail ==
    ASSUME IInv, Contents, Staged, mode = "elements", build.k <= Len(prog[build.a].active)
    PROVE  /\ build.k \in DOMAIN prog[build.a].active
           /\ SegmentFits(build.a, prog[build.a].active[build.k])
           /\ ~BoundElsewhere(tabs[build.a][prog[build.a].active[build.k].t], build.a)
           /\ tabs[build.a][prog[build.a].active[build.k].t] \in made
           /\ owner[tabs[build.a][prog[build.a].active[build.k].t]] = build.a
           /\ prog[build.a].active[build.k].off \in Nat
           /\ prog[build.a].active[build.k].fns \in Seq(Funcs(prog[build.a]) \cup {Nil})
  <1> DEFINE a == build.a
             m == prog[a]
             seg == m.active[build.k]
             h == tabs[a][seg.t]
  <1>1. /\ a \in Addr /\ m \in Modules /\ build.k \in Nat \ {0} /\ status[a] = "building"
        /\ tabs[a] \in Seq(Handles) /\ Len(tabs[a]) = TableCount(m)
    BY BuiltModule DEF IInv, Building, BuildModes
  <1>2. build.k \in DOMAIN m.active
    <2>1. m.active \in Seq([t : Nat, off : Nat, fns : Seq(Nat \cup {Nil})])
      BY <1>1, FunctionsOf DEF ModuleType
    <2> HIDE DEF m
    <2> QED BY <1>1, <2>1 DEF m
  <1>3. SegmentFits(a, seg) BY <1>2 DEF Staged, ElementsFit
  <1>4. seg.t \in 1..TableCount(m) /\ seg.off \in Nat /\ seg.fns \in Seq(Funcs(m) \cup {Nil})
    <2> HIDE DEF m
    <2> QED BY <1>1, <1>2, ActiveSegment
  <1>5. h \in Range(tabs[a]) /\ h \in Handles
    <2> HIDE DEF seg
    <2> QED BY <1>1, <1>4 DEF Range
  <1>6. owner[h] = a
    <2>1. BindingExact /\ status[a] # "free" BY <1>1 DEF IInv
    <2> HIDE DEF a, m, seg, h
    <2> QED BY <1>1, <1>5, <2>1 DEF BindingExact
  <1>7. h \in made BY <1>1, <1>5, <1>6, NilAssumption DEF IInv, BoundIsMade
  <1> QED BY <1>2, <1>3, <1>4, <1>6, <1>7 DEF BoundElsewhere

-----------------------------------------------------------------------------
\* The invariants together.
LInv == IInv /\ Contents /\ Counted /\ Sized /\ Staged /\ NoFault

Kept == Contents' /\ Sized' /\ Grown /\ NoFault'

LEMMA BoundExists == ASSUME IInv, NEW a \in Addr, status[a] # "free", NEW h \in Range(tabs[a]) \cap Handles
                     PROVE  h \in made
  BY NilAssumption DEF IInv, BindingExact, BoundIsMade

\* An instruction of guest code.
LEMMA GuestKept == ASSUME LInv, mode = "guest", GuestStep PROVE Kept
  <1>0. IInv /\ Contents /\ Sized /\ NoFault /\ tmax \in [Handles -> 0..NoMax] BY DEF LInv, Sized
  <1>1. stack # <<>> BY <1>0 DEF IInv, StackLive
  <1>2. Running \in Addr /\ status[Running] \in {"starting", "live"} BY <1>0, <1>1, RunningExists
  <1>3. CASE GuestQuiet
    <2>1. \A a \in Addr : status'[a] = "free" <=> status[a] = "free"
      BY <1>0, <1>2, <1>3 DEF GuestQuiet, IInv, OwnershipTypes
    <2>2. UNCHANGED <<slots, mem, held, heldVal, tmax, made, born, prog, births>>
      BY <1>3 DEF GuestQuiet, tableVars, embedVars
    <2>3. Contents'
      <3>1. /\ slots' \in [Handles -> Seq(GoodRefs)] /\ mem' \in [Mems -> Seq(Bytes)]
            /\ held' \in GoodRefs /\ heldVal' \in Value
        BY <1>0, <2>2 DEF Contents
      <3> QED BY <1>0, <1>3, <2>1, <2>2, <3>1, StableContents DEF GuestQuiet
    <2>4. NoFault' BY <1>3 DEF GuestQuiet, NoFault
    <2> QED BY <1>0, <2>2, <2>3, <2>4, SameSizes DEF Kept
  <1>4. CASE GuestReplaces
    <2> PICK h \in Range(tabs[Running]) \cap Handles, s \in Seq(GoodRefs) :
               /\ Wrote(h, s)
               /\ \/ Len(s) = Len(slots[h])
                  \/ Len(s) >= Len(slots[h]) /\ Len(s) <= MaxLen /\ Len(s) <= tmax[h]
      BY <1>4 DEF GuestReplaces
    <2>1. /\ slots' = [slots EXCEPT ![h] = s] /\ result' = "ok"
          /\ UNCHANGED <<instVars, made, tmax, mem, embedVars>>
      BY DEF Wrote
    <2>2. h \in made BY <1>0, <1>2, BoundExists
    <2>3. slots' \in [Handles -> Seq(GoodRefs)] BY <1>0, <2>1, OneSeqChanged DEF Contents
    <2>4. Contents' BY <1>0, <2>1, <2>3, TablesContents DEF Contents, instVars, embedVars
    <2>5. Sized' /\ Grown BY <1>0, <2>1, <2>2, OneTableSizes
    <2> QED BY <2>1, <2>4, <2>5 DEF Kept, NoFault
  <1>5. CASE GuestFails
    <2> PICK err \in GuestErrors \cup (IF RefGlobals THEN {"FunctionOutOfBounds"} ELSE {}) : Unwind(err)
      BY <1>5 DEF GuestFails
    <2>1. result' = err BY DEF Unwind
    <2>2. err # "ControlInvariant" /\ (~RefGlobals => err # "FunctionOutOfBounds") BY DEF GuestErrors
    <2> QED BY <1>0, <1>1, <2>1, <2>2, UnwindContents, UnwindSizes DEF Kept, NoFault
  <1> QED BY <1>0, <1>3, <1>4, <1>5, GuestEffect

\* Operations of the embedder on tables, ...
LEMMA HostTableKept ==
    ASSUME LInv,
           \/ \E h \in Handles, lim \in Limits : HostNewTable(h, lim)
           \/ \E h \in Handles : HostForgetTable(h)
           \/ \E h \in Handles, i \in Index : HostGet(h, i)
           \/ \E h \in Handles, i \in Index, r \in {Nil, held} : HostSet(h, i, r)
    PROVE  Kept
  <1>0. IInv /\ Contents /\ Sized /\ NoFault /\ Nil \in GoodRefs /\ held \in GoodRefs
    BY DEF LInv, Contents, GoodRefs, Ref
  <1>1. slots \in [Handles -> Seq(GoodRefs)] /\ mem \in [Mems -> Seq(Bytes)] BY <1>0 DEF Contents
  <1>2. ASSUME NEW h \in Handles, NEW lim \in Limits, HostNewTable(h, lim) PROVE Kept
    <2>1. lim.min \in 0..MaxLen /\ lim.max \in 0..NoMax /\ lim.min <= lim.max
      BY LimitsAssumption DEF LimitType
    <2>2. /\ h \notin made /\ made' = made \cup {h}
          /\ slots' = [slots EXCEPT ![h] = Fill(lim.min, Nil)]
          /\ tmax' = [tmax EXCEPT ![h] = lim.max]
          /\ result' = "ok" /\ UNCHANGED <<instVars, mem, embedVars>>
      BY <1>2 DEF HostNewTable
    <2>3. lim.min \in Nat BY <2>1, BoundsAssumption
    <2>4. Fill(lim.min, Nil) \in Seq(GoodRefs) BY <1>0, <2>3, FillSeq
    <2>5. slots' \in [Handles -> Seq(GoodRefs)] BY <1>1, <2>2, <2>4, OneSeqChanged
    <2>6. Contents' BY <1>0, <1>1, <2>2, <2>5, TablesContents DEF instVars, embedVars
    <2>7. Sized' /\ Grown BY <1>0, <2>1, <2>2, NewTableSizes
    <2> QED BY <2>2, <2>6, <2>7 DEF Kept, NoFault
  <1>3. ASSUME NEW h \in Handles, HostForgetTable(h) PROVE Kept
    <2>1. Release({h}) /\ result' = "ok" /\ UNCHANGED <<instVars, mem, embedVars>>
      BY <1>3 DEF HostForgetTable
    <2>2. slots' \in [Handles -> Seq(GoodRefs)] BY <1>0, <2>1, ReleaseContents
    <2>3. Contents' BY <1>0, <1>1, <2>1, <2>2, TablesContents DEF instVars, embedVars
    <2>4. Sized' /\ Grown BY <1>0, <2>1, ReleaseSizes
    <2> QED BY <2>1, <2>3, <2>4 DEF Kept, NoFault
  <1>4. ASSUME NEW h \in Handles, NEW i \in Index, HostGet(h, i) PROVE Kept
    <2>1. /\ UNCHANGED <<instVars, tableVars, heldVal>>
          /\ result' \in {"ok", "TableElementOutOfBounds"}
          /\ held' = held \/ (held' = slots[h][i + 1] /\ i < Len(slots[h]))
      BY <1>4 DEF HostGet
    <2>2. held' \in GoodRefs
      <3>1. slots[h] \in Seq(GoodRefs) /\ i \in Nat BY <1>1, BoundsAssumption DEF Index
      <3> QED BY <1>0, <2>1, <3>1
    <2>3. Contents'
      <3>1. UNCHANGED <<status, born, prog, births, glob, elems, slots, mem, heldVal>>
        BY <2>1 DEF instVars, tableVars
      <3>2. /\ slots' \in [Handles -> Seq(GoodRefs)] /\ mem' \in [Mems -> Seq(Bytes)]
            /\ heldVal' \in Value /\ glob' = [b \in Addr |-> glob'[b]] /\ elems' = [b \in Addr |-> elems'[b]]
            /\ \A a \in Addr : glob'[a] \in GoodVals(a)
            /\ \A a \in Addr : elems'[a] \in Seq(Seq(Funcs(prog[a]) \cup {Nil}))
        BY <1>0, <3>1 DEF Contents
      <3> QED BY <1>0, <2>2, <3>1, <3>2, StableContents
    <2>4. Sized' /\ Grown BY <1>0, <2>1, SameSizes DEF tableVars
    <2> QED BY <2>1, <2>3, <2>4 DEF Kept, NoFault
  <1>5. ASSUME NEW h \in Handles, NEW i \in Index, NEW r \in {Nil, held}, HostSet(h, i, r) PROVE Kept
    <2>1. /\ UNCHANGED <<instVars, made, tmax, mem, embedVars>> /\ h \in Known
          /\ result' \in {"ok", "TableElementOutOfBounds"}
          /\ slots' = slots \/ slots' = [slots EXCEPT ![h][i + 1] = r]
      BY <1>5 DEF HostSet
    <2>2. CASE slots' = slots
      <3>1. Contents' BY <1>0, <1>1, <2>1, <2>2, TablesContents DEF instVars, embedVars
      <3> QED BY <1>0, <2>1, <2>2, <3>1, SameSizes DEF Kept, NoFault
    <2>3. CASE slots' = [slots EXCEPT ![h][i + 1] = r]
      <3> DEFINE s == [slots[h] EXCEPT ![i + 1] = r]
      <3>1. s \in Seq(GoodRefs) /\ Len(s) = Len(slots[h])
        <4>1. slots[h] \in Seq(GoodRefs) /\ r \in GoodRefs BY <1>0, <1>1
        <4> QED BY <4>1, SetSeq
      <3>2. slots' = [slots EXCEPT ![h] = s] BY <2>3
      <3> HIDE DEF s
      <3>3. h \in made BY <2>1 DEF Known
      <3>4. slots' \in [Handles -> Seq(GoodRefs)] BY <1>1, <3>1, <3>2, OneSeqChanged
      <3>5. Contents' BY <1>0, <1>1, <2>1, <3>4, TablesContents DEF instVars, embedVars
      <3>6. Sized' /\ Grown BY <1>0, <2>1, <3>1, <3>2, <3>3, OneTableSizes
      <3> QED BY <2>1, <3>5, <3>6 DEF Kept, NoFault
    <2> QED BY <2>1, <2>2, <2>3
  <1> QED BY <1>2, <1>3, <1>4, <1>5

\* ... and on instances and their globals.
LEMMA HostKept == ASSUME LInv, HostStep PROVE Kept
  <1>0. IInv /\ Contents /\ Sized /\ NoFault BY DEF LInv
  <1>1. slots \in [Handles -> Seq(GoodRefs)] /\ mem \in [Mems -> Seq(Bytes)] BY <1>0 DEF Contents
  <1>2. ASSUME NEW a \in Addr, HostGlobalGet(a) PROVE Kept
    <2>1. UNCHANGED <<instVars, tableVars, held>> /\ heldVal' = glob[a] /\ result' = "ok"
      BY <1>2 DEF HostGlobalGet
    <2>2. UNCHANGED <<status, born, prog, births, glob, elems, slots, mem, held, tmax, made>>
      BY <2>1 DEF instVars, tableVars
    <2>3. heldVal' \in Value BY <1>0, <2>1 DEF Contents, GoodVals
    <2>4. Contents'
      <3>1. /\ slots' \in [Handles -> Seq(GoodRefs)] /\ mem' \in [Mems -> Seq(Bytes)]
            /\ held' \in GoodRefs /\ glob' = [b \in Addr |-> glob'[b]] /\ elems' = [b \in Addr |-> elems'[b]]
            /\ \A b \in Addr : glob'[b] \in GoodVals(b)
            /\ \A b \in Addr : elems'[b] \in Seq(Seq(Funcs(prog[b]) \cup {Nil}))
        BY <1>0, <2>2 DEF Contents
      <3> QED BY <1>0, <2>2, <2>3, <3>1, StableContents
    <2> QED BY <1>0, <2>1, <2>2, <2>4, SameSizes DEF Kept, NoFault
  <1>3. ASSUME NEW a \in Addr, HostGlobalSet(a) PROVE Kept
    <2>1. /\ RefGlobals /\ result' \in {"ok", "Immutable"}
          /\ glob' = glob \/ glob' = [glob EXCEPT ![a] = heldVal]
          /\ UNCHANGED <<status, born, births, prog, elems, slots, mem, held, heldVal, tmax, made>>
      BY <1>3 DEF HostGlobalSet, tableVars, embedVars
    <2>2. heldVal \in Value BY <1>0 DEF Contents
    <2>3. \A b \in Addr : GoodVals(b) = Value BY <2>1 DEF GoodVals
    <2>4. glob' = [b \in Addr |-> glob'[b]] /\ \A b \in Addr : glob'[b] \in GoodVals(b)
      <3>1. glob = [b \in Addr |-> glob[b]] /\ \A b \in Addr : glob[b] \in Value BY <1>0, <2>3 DEF Contents
      <3> QED BY <2>1, <2>2, <2>3, <3>1
    <2>5. Contents'
      <3>1. /\ slots' \in [Handles -> Seq(GoodRefs)] /\ mem' \in [Mems -> Seq(Bytes)]
            /\ held' \in GoodRefs /\ heldVal' \in Value /\ elems' = [b \in Addr |-> elems'[b]]
            /\ \A b \in Addr : elems'[b] \in Seq(Seq(Funcs(prog[b]) \cup {Nil}))
        BY <1>0, <2>1 DEF Contents
      <3> QED BY <1>0, <2>1, <2>4, <3>1, StableContents
    <2> QED BY <1>0, <2>1, <2>5, SameSizes DEF Kept, NoFault
  <1>4. ASSUME NEW a \in Addr, Invoke(a) PROVE Kept
    <2>1. UNCHANGED <<instVars, tableVars, embedVars>> /\ result' = "ok"
      BY <1>4 DEF Invoke
    <2>2. Contents' BY <1>0, <1>1, <2>1, TablesContents DEF instVars, tableVars, embedVars
    <2> QED BY <1>0, <2>1, <2>2, SameSizes DEF Kept, NoFault, tableVars
  <1>5. ASSUME NEW a \in Addr, Drop(a) PROVE Kept
    <2>1. DropInstance(a) /\ result' = "ok" /\ UNCHANGED <<tableVars, embedVars>>
      BY <1>5 DEF Drop
    <2>2. Contents' BY <1>0, <1>1, <2>1, DropContents DEF tableVars, embedVars
    <2> QED BY <1>0, <2>1, <2>2, SameSizes DEF Kept, NoFault, tableVars
  <1>6. ASSUME HostReturn PROVE Kept
    <2>1. UNCHANGED <<instVars, tableVars, embedVars>> /\ result' = "ok"
      BY <1>6 DEF HostReturn
    <2>2. Contents' BY <1>0, <1>1, <2>1, TablesContents DEF instVars, tableVars, embedVars
    <2> QED BY <1>0, <2>1, <2>2, SameSizes DEF Kept, NoFault, tableVars
  <1>7. ASSUME HostFails PROVE Kept
    <2>1. Unwind("HostFunctionFailed") /\ stack # <<>> BY <1>7 DEF HostFails
    <2>2. result' = "HostFunctionFailed" BY <2>1 DEF Unwind
    <2>3. Contents' /\ Sized' /\ Grown BY <1>0, <2>1, UnwindContents, UnwindSizes
    <2> QED BY <2>2, <2>3 DEF Kept, NoFault
  <1> QED BY <1>2, <1>3, <1>4, <1>5, <1>6, <1>7, HostTableKept DEF HostStep

-----------------------------------------------------------------------------
\* The stages of with_config keep table sizes, and report no internal error.
LEMMA TableBound == ASSUME IInv, Counted, mode = "bind", Len(tabs[build.a]) < Len(build.imp)
                    PROVE  build.imp[Len(tabs[build.a]) + 1] \in Handles
  <1>1. tabs[build.a] \in Seq(Handles) /\ build.imp \in Seq(Handles)
    BY DEF IInv, Building, OwnershipTypes, Build, BuildModes
  <1> QED BY <1>1

LEMMA AbortKept ==
    ASSUME LInv, mode \in {"bind", "preflight"},
           NEW err, err \notin {"ControlInvariant", "FunctionOutOfBounds"}, Abort(err)
    PROVE  Kept /\ Staged'
  <1>0. IInv /\ Contents /\ Sized /\ Staged /\ mode \in BuildModes BY DEF LInv, BuildModes
  <1>1. Contents' BY <1>0, AbortContents
  <1>2. Sized' /\ Grown BY <1>0, AbortSizes
  <1>3. Staged' BY <1>0, AbortStaged
  <1>4. result' = err BY DEF Abort
  <1> QED BY <1>1, <1>2, <1>3, <1>4 DEF Kept, NoFault

LEMMA BindKept == ASSUME LInv, BindImport PROVE Kept /\ Staged'
  <1>0. IInv /\ Contents /\ Counted /\ Sized /\ Staged /\ NoFault BY DEF LInv
  <1> DEFINE a == build.a
             h == build.imp[Len(tabs[a]) + 1]
  <1>1. mode = "bind" /\ Len(tabs[a]) < Len(build.imp) /\ h \in Handles
    BY <1>0, TableBound DEF BindImport
  <1>2. CASE Abort("HostTableAlreadyBound") BY <1>1, <1>2, AbortKept
  <1>3. CASE AddTable(h) /\ UNCHANGED <<made, slots, tmax>>
    <2>1. Contents' BY <1>0, BuildStepContents DEF BuildStep
    <2>2. Sized' /\ Grown BY <1>0, <1>3, SameSizes
    <2>3. UNCHANGED <<mem, pub, result>> /\ mode' \in {"bind", "preflight"}
      BY <1>3 DEF AddTable
    <2>4. Defined(build.a)' = {} /\ Defined(build.a) = {} BY <1>0, <1>1, <1>3, DefinedGrows
    <2> HIDE DEF a, h
    <2>5. slots' = slots BY <1>3
    <2>6. Staged' BY <1>0, <1>1, <2>3, <2>4, <2>5 DEF Staged, AllOrNothing, BuildModes
    <2>7. NoFault' BY <1>0, <2>3 DEF NoFault
    <2> QED BY <2>1, <2>2, <2>6, <2>7 DEF Kept
  <1> QED BY <1>2, <1>3 DEF BindImport

LEMMA DefineKept == ASSUME LInv, NEW h \in Handles, DefineTable(h) PROVE Kept /\ Staged'
  <1>0. IInv /\ Contents /\ Counted /\ Sized /\ Staged /\ NoFault BY DEF LInv
  <1> DEFINE m == prog[build.a]
             k == Len(tabs[build.a]) + 1 - Len(build.imp)
             lim == m.defines[k]
  <1>1. /\ mode = "bind" /\ Len(tabs[build.a]) >= Len(build.imp) /\ AddTable(h)
        /\ h \notin made /\ made' = made \cup {h}
        /\ slots' = [slots EXCEPT ![h] = Fill(lim.min, Nil)]
        /\ tmax' = [tmax EXCEPT ![h] = lim.max]
    BY DEF DefineTable
  <1>2. lim.min \in 0..MaxLen /\ lim.max \in 0..NoMax /\ lim.min <= lim.max
    <2>1. k \in DOMAIN m.defines BY <1>0, <1>1, NextDefined
    <2>2. m \in Modules BY <1>0, <1>1 DEF IInv, Building, FreeIsEmpty, BuildModes
    <2> HIDE DEF m, k
    <2> QED BY <2>1, <2>2, DefinedLimits
  <1> HIDE DEF lim
  <1>3. Sized' /\ Grown BY <1>0, <1>1, <1>2, NewTableSizes
  <1>4. Contents' BY <1>0, BuildStepContents DEF BuildStep
  <1>5. UNCHANGED <<mem, pub, result>> /\ mode' \in {"bind", "preflight"} BY <1>1 DEF AddTable
  <1>6. Defined(build.a)' = Defined(build.a) \cup {h} BY <1>0, <1>1, DefinedGrows
  <1>7. h \notin Defined(build.a) BY <1>0, <1>1, DefinedMade DEF BuildModes
  <1>8. slots[h] = <<>> BY <1>0, <1>1 DEF Sized
  <1>9. \A g \in Handles : g # h => slots'[g] = slots[g] BY <1>0, <1>1 DEF Contents
  <1>10. \A g \in Handles : IF g \in Defined(build.a)' THEN pub'.slots[g] = <<>>
                            ELSE slots'[g] = pub'.slots[g]
    <2> TAKE g \in Handles
    <2>1. IF g \in Defined(build.a) THEN pub.slots[g] = <<>> ELSE slots[g] = pub.slots[g]
      BY <1>0, <1>1 DEF Staged
    <2>2. pub' = pub BY <1>5
    <2> QED BY <1>6, <1>7, <1>8, <1>9, <2>1, <2>2
  <1>11. Staged' BY <1>0, <1>1, <1>5, <1>10 DEF Staged, AllOrNothing, BuildModes
  <1>12. NoFault' BY <1>0, <1>5 DEF NoFault
  <1> QED BY <1>3, <1>4, <1>11, <1>12 DEF Kept

\* The segments still fit when nothing but table entries has changed.
LEMMA StillFits ==
    ASSUME ElementsFit(build.a), UNCHANGED <<prog, tabs>>, build'.a = build.a,
           \A k \in DOMAIN prog[build.a].active :
              Len(slots'[tabs[build.a][prog[build.a].active[k].t]])
                = Len(slots[tabs[build.a][prog[build.a].active[k].t]])
    PROVE  ElementsFit(build.a)'
  <1> SUFFICES ASSUME NEW k \in DOMAIN prog[build.a].active
               PROVE  SegmentFits(build.a, prog[build.a].active[k])'
    BY DEF ElementsFit
  <1> DEFINE seg == prog[build.a].active[k]
  <1>1. seg.off + Len(seg.fns) <= Len(slots[tabs[build.a][seg.t]]) BY DEF ElementsFit, SegmentFits
  <1>2. Len(slots'[tabs[build.a][seg.t]]) = Len(slots[tabs[build.a][seg.t]]) OBVIOUS
  <1>3. seg' = seg /\ tabs'[build'.a] = tabs[build.a] OBVIOUS
  <1>4. (seg.off + Len(seg.fns) <= Len(slots[tabs[build.a][seg.t]]))' BY <1>1, <1>2, <1>3, Zenon
  <1> QED BY <1>4 DEF SegmentFits

LEMMA PreflightKept == ASSUME LInv, Preflight PROVE Kept /\ Staged'
  <1>0. IInv /\ Contents /\ Counted /\ Sized /\ Staged /\ NoFault BY DEF LInv
  <1>1. mode = "preflight" BY DEF Preflight
  <1>2. ASSUME NEW err \in {"ElementSegmentOutOfBounds", "DataSegmentOutOfBounds"}, Abort(err)
        PROVE  Kept /\ Staged'
    BY <1>1, <1>2, AbortKept
  <1>3. CASE /\ ElementsFit(build.a) /\ mode' = "data" /\ build' = [build EXCEPT !.k = 1]
             /\ UNCHANGED <<instVars, tableVars, embedVars, stack, result, pub>>
    <2>1. UNCHANGED <<slots, tmax, made, result, pub, mem, prog, tabs>>
      BY <1>3 DEF instVars, tableVars
    <2>2. build'.a = build.a BY <1>0, <1>3 DEF IInv, OwnershipTypes, Build
    <2>3. ElementsFit(build.a)' BY <1>3, <2>1, <2>2, StillFits
    <2>4. Staged' BY <1>0, <1>3, <2>1, <2>3 DEF Staged, AllOrNothing, BuildModes
    <2>5. Contents' BY <1>0, BuildStepContents DEF BuildStep
    <2> QED BY <1>0, <2>1, <2>4, <2>5, SameSizes DEF Kept, NoFault
  <1> QED BY <1>2, <1>3 DEF Preflight

LEMMA DataKept == ASSUME LInv, WriteData PROVE Kept /\ Staged'
  <1>0. IInv /\ Contents /\ Counted /\ Sized /\ Staged /\ NoFault BY DEF LInv
  <1>1. mode = "data" /\ ElementsFit(build.a) BY <1>0 DEF WriteData, Staged
  <1>2. /\ mode' \in {"data", "elements"}
        /\ build' = [build EXCEPT !.k = build.k + 1] \/ build' = [build EXCEPT !.k = 1]
        /\ UNCHANGED <<slots, tmax, made, result, pub, prog, tabs>>
    BY <1>1 DEF WriteData, instVars, tableVars
  <1>3. build'.a = build.a BY <1>0, <1>2 DEF IInv, OwnershipTypes, Build
  <1>4. ElementsFit(build.a)' BY <1>1, <1>2, <1>3, StillFits
  <1>5. Staged' BY <1>0, <1>2, <1>4 DEF Staged, AllOrNothing, BuildModes
  <1>6. Contents' BY <1>0, BuildStepContents DEF BuildStep
  <1> QED BY <1>0, <1>2, <1>5, <1>6, SameSizes DEF Kept, NoFault

LEMMA ElementsKept == ASSUME LInv, WriteElements PROVE Kept /\ Staged'
  <1>0. IInv /\ Contents /\ Counted /\ Sized /\ Staged /\ NoFault BY DEF LInv
  <1> DEFINE a == build.a
             seg == prog[a].active[build.k]
             h == tabs[a][seg.t]
             s == Splice(slots[h], seg.off, OwnRefs(a, seg.fns))
  <1>1. mode = "elements" /\ build.k <= Len(prog[a].active) BY DEF WriteElements
  <1>2. /\ SegmentFits(a, seg) /\ ~BoundElsewhere(h, a) /\ h \in made
        /\ seg.off \in Nat /\ seg.fns \in Seq(Funcs(prog[a]) \cup {Nil})
    BY <1>0, <1>1, NothingLeftToFail
  <1>3. /\ slots' = [slots EXCEPT ![h] = s] /\ build' = [build EXCEPT !.k = build.k + 1]
        /\ UNCHANGED <<instVars, made, tmax, mem, mode, result, pub>>
    BY <1>2 DEF WriteElements
  <1>4. a \in Addr /\ prog[a] \in Modules /\ born[a] \in Nat BY <1>0, <1>1, BuiltModule DEF BuildModes
  <1>5. slots[h] \in Seq(GoodRefs) /\ h \in Handles BY <1>0, <1>2, Lengths, MadeHandles
  <1>6. s \in Seq(GoodRefs) /\ Len(s) = Len(slots[h])
    <2>1. OwnRefs(a, seg.fns) \in Seq(GoodRefs) BY <1>2, <1>4, OwnRefsGood
    <2> QED BY <1>2, <1>5, <2>1, SpliceSeq
  <1> HIDE DEF s, h, seg, a
  <1>7. Sized' /\ Grown BY <1>0, <1>2, <1>3, <1>6, OneTableSizes
  <1>8. build'.a = build.a BY <1>0, <1>3 DEF IInv, OwnershipTypes, Build
  <1>9. \A g : Len(slots'[g]) = Len(slots[g])
    <2> TAKE g
    <2>1. DOMAIN slots = Handles BY <1>0 DEF Contents
    <2>2. CASE g = h BY <1>3, <1>5, <1>6, <2>1, <2>2
    <2>3. CASE g # h BY <1>3, <2>1, <2>3
    <2> QED BY <2>2, <2>3
  <1>10. ElementsFit(build.a)'
    <2>1. ElementsFit(build.a) /\ UNCHANGED <<prog, tabs>> BY <1>0, <1>1, <1>3 DEF Staged, instVars
    <2> QED BY <1>8, <1>9, <2>1, StillFits
  <1>11. Staged' BY <1>0, <1>1, <1>3, <1>10 DEF Staged, AllOrNothing, BuildModes
  <1>12. Contents' BY <1>0, BuildStepContents DEF BuildStep
  <1> QED BY <1>0, <1>3, <1>7, <1>11, <1>12 DEF Kept, NoFault

LEMMA BuildKept == ASSUME LInv, BuildStep PROVE Kept /\ Staged'
  <1>0. IInv /\ Contents /\ Counted /\ Sized /\ Staged /\ NoFault BY DEF LInv
  <1>1. CASE DefineFails BY <1>1, AbortKept DEF DefineFails
  <1>2. CASE Commit
    <2>1. Contents' BY <1>0, BuildStepContents
    <2>2. /\ UNCHANGED <<slots, mem, tmax, made>> /\ result' = "ok"
          /\ pub' = [slots |-> slots, mem |-> mem] /\ mode' \in {"host", "guest"}
      BY <1>2 DEF Commit, tableVars
    <2>3. Staged' BY <2>1, <2>2, Published DEF Publish
    <2> QED BY <1>0, <2>1, <2>2, <2>3, SameSizes DEF Kept, NoFault
  <1> QED BY <1>1, <1>2, BindKept, DefineKept, PreflightKept, DataKept, ElementsKept DEF BuildStep

\* A new instantiation has changed nothing yet.
LEMMA BeginKept == ASSUME LInv, Begin PROVE Kept /\ Staged'
  <1>0. IInv /\ Contents /\ Counted /\ Sized /\ Staged /\ NoFault BY DEF LInv
  <1> PICK m \in Modules, a \in Addr : \E imp \in [1..Len(m.imports) -> Known] : Instantiate(m, a, imp)
    BY DEF Begin
  <1> PICK imp \in [1..Len(m.imports) -> Known] : Instantiate(m, a, imp) OBVIOUS
  <1>1. Contents' BY <1>0, InstantiateContents
  <1>2. /\ UNCHANGED <<slots, mem, tmax, made, pub>>
        /\ mode = "host" /\ status[a] = "free"
        /\ tabs' = tabs /\ result' \in {"ok", "HostTableLimitsMismatch"}
    BY DEF Instantiate, tableVars
  <1>3. Sized' /\ Grown BY <1>0, <1>2, SameSizes
  <1>4. pub = [slots |-> slots, mem |-> mem] BY <1>0, <1>2 DEF Staged, AllOrNothing, BuildModes
  <1>5. pub.slots = slots /\ pub.mem = mem BY <1>4
  <1>6. ASSUME mode' = mode PROVE Staged'
    <2>1. Publish /\ mode' = "host" BY <1>2, <1>4, <1>6 DEF Publish
    <2> QED BY <1>1, <2>1, Published
  <1>7. ASSUME mode' \in {"bind", "preflight"}, build' = [a |-> a, imp |-> imp, k |-> 1]
        PROVE  Staged'
    <2>1. build'.a = a /\ tabs'[a] = <<>> BY <1>0, <1>2, <1>7 DEF IInv, FreeIsEmpty
    <2>2. DOMAIN tabs'[a] = {} BY <2>1
    <2>3. Defined(build.a)' = {} BY <2>1, <2>2 DEF Defined
    <2>4. pub' \in [slots : [Handles -> Seq(Ref)], mem : [Mems -> Seq(Bytes)]]
      BY <1>0, <1>2 DEF Staged
    <2>5. mem' = pub'.mem /\ slots' = pub'.slots BY <1>2, <1>5
    <2> QED BY <1>7, <2>3, <2>4, <2>5 DEF Staged, AllOrNothing, BuildModes
  <1>8. Staged' BY <1>6, <1>7 DEF Instantiate
  <1>9. NoFault' BY <1>2 DEF NoFault
  <1> QED BY <1>1, <1>3, <1>8, <1>9 DEF Kept

LEMMA InitLInv == Init => LInv
  <1> SUFFICES ASSUME Init PROVE LInv OBVIOUS
  <1>1. IInv /\ Contents BY InitIInv, InitContents
  <1>2. Counted BY DEF Init, Counted, BuildModes
  <1>3. Sized
    <2>1. MaxLen \in Nat /\ NoMax \in Nat BY BoundsAssumption DEF NoMax
    <2> QED BY <2>1 DEF Init, Sized
  <1>4. slots \in [Handles -> Seq(Ref)] /\ mem \in [Mems -> Seq(Bytes)] BY <1>1, PlainTypes, Zenon
  <1>5. Staged
    <2>1. pub = [slots |-> slots, mem |-> mem] /\ mode = "host" BY DEF Init
    <2> QED BY <1>4, <2>1 DEF Staged, AllOrNothing, BuildModes
  <1>6. NoFault BY DEF Init, NoFault
  <1> QED BY <1>1, <1>2, <1>3, <1>5, <1>6 DEF LInv

LEMMA StepLInv == LInv /\ [Next]_vars => LInv' /\ Grown
  <1> SUFFICES ASSUME LInv, [Next]_vars PROVE LInv' /\ Grown OBVIOUS
  <1>0. IInv /\ Contents /\ Counted /\ Sized /\ Staged /\ NoFault BY DEF LInv
  <1>1. IInv' /\ Counted' BY <1>0, NextIInv, CountedStep
  <1>2. Kept /\ Staged'
    <2>1. CASE Begin BY <2>1, BeginKept
    <2>2. CASE BuildStep BY <2>2, BuildKept
    <2>3. CASE mode = "guest" /\ GuestStep /\ Publish
      <3>1. Kept /\ Contents' BY <2>3, GuestKept DEF Kept
      <3>2. mode' \in {"host", "guest"} BY <2>3, GuestModes
      <3> QED BY <2>3, <3>1, <3>2, Published
    <2>4. CASE HostStep /\ Publish
      <3>1. Kept /\ Contents' BY <2>4, HostKept DEF Kept
      <3>2. mode' \in {"host", "guest"} BY <2>4, HostModes
      <3> QED BY <2>4, <3>1, <3>2, Published
    <2>5. CASE UNCHANGED vars
      <3>1. /\ UNCHANGED <<status, born, births, prog, tabs, elems, glob, made, slots, tmax, owner, mem>>
            /\ UNCHANGED <<held, heldVal, mode, build, result, pub>>
        BY <2>5 DEF vars, instVars, tableVars, embedVars, runVars
      <3>2. Contents' BY <1>0, <3>1, TablesContents DEF Contents
      <3>3. Sized' /\ Grown BY <1>0, <3>1, SameSizes
      <3>4. Defined(build.a)' = Defined(build.a) BY <3>1 DEF Defined
      <3>5. ElementsFit(build.a)' = ElementsFit(build.a) BY <3>1 DEF ElementsFit, SegmentFits
      <3>6. Staged' BY <1>0, <3>1, <3>4, <3>5 DEF Staged, AllOrNothing
      <3> QED BY <1>0, <3>1, <3>2, <3>3, <3>6 DEF Kept, NoFault
    <2> QED BY <2>1, <2>2, <2>3, <2>4, <2>5 DEF Next
  <1> QED BY <1>1, <1>2 DEF LInv, Kept

\* The ownership and contents invariants hold throughout: every reference that
\* is stored is good, and a failing with_config has touched nothing shared.
THEOREM LinkingInvariance == Spec => []LInv
  <1>1. Init => LInv BY InitLInv
  <1>2. LInv /\ [Next]_vars => LInv' BY StepLInv
  <1> QED BY <1>1, <1>2, PTL DEF Spec

-----------------------------------------------------------------------------
\* An address without an instance has kept nothing of the last one, and an
\* instance has the mark of one of the instantiations begun so far.
Vacant ==
    \A a \in Addr :
        IF status[a] = "free" THEN prog[a] = Nil /\ elems[a] = <<>> /\ glob[a] = Nil /\ born[a] = 0
        ELSE born[a] \in 1..births

\* No instance comes or goes, and only an existing one changes.
LEMMA StableVacant ==
    ASSUME Vacant, UNCHANGED <<born, births, prog>>,
           \A a \in Addr : status'[a] = "free" <=> status[a] = "free",
           \A a \in Addr : status[a] = "free" => elems'[a] = elems[a] /\ glob'[a] = glob[a]
    PROVE  Vacant'
  BY DEF Vacant

LEMMA DropVacant == ASSUME LInv, Vacant, NEW a \in Addr, DropInstance(a) PROVE Vacant'
  <1>1. /\ DOMAIN status = Addr /\ DOMAIN elems = Addr /\ DOMAIN glob = Addr /\ DOMAIN born = Addr
        /\ DOMAIN prog = Addr
    BY DEF LInv, IInv, OwnershipTypes, Contents
  <1> QED BY <1>1 DEF DropInstance, Vacant

LEMMA UnwindVacant == ASSUME LInv, Vacant, NEW err, stack # <<>>, Unwind(err) PROVE Vacant'
  <1>1. Running \in Addr BY RunningExists DEF LInv
  <1>2. CASE status[Running] = "starting" BY <1>1, <1>2, DropVacant DEF Unwind
  <1>3. CASE status[Running] # "starting" BY <1>3, StableVacant DEF Unwind, instVars
  <1> QED BY <1>2, <1>3

LEMMA AbortVacant == ASSUME LInv, Vacant, NEW err, mode \in BuildModes, Abort(err) PROVE Vacant'
  <1>1. build.a \in Addr BY DEF LInv, IInv, Building
  <1> QED BY <1>1, DropVacant DEF Abort

LEMMA InstantiateVacant ==
    ASSUME LInv, Vacant, NEW m \in Modules, NEW a \in Addr, NEW imp, Instantiate(m, a, imp)
    PROVE  Vacant'
  <1>1. /\ DOMAIN status = Addr /\ DOMAIN elems = Addr /\ DOMAIN glob = Addr /\ DOMAIN born = Addr
        /\ DOMAIN prog = Addr /\ births \in Nat
    BY DEF LInv, IInv, OwnershipTypes, Contents
  <1>2. births' = births + 1 /\ 1..births \subseteq 1..births' /\ births' \in 1..births'
    BY <1>1 DEF Instantiate
  <1>3. CASE UNCHANGED <<status, born, prog, elems, glob>> BY <1>2, <1>3 DEF Vacant
  <1>4. CASE /\ status' = [status EXCEPT ![a] = "building"]
             /\ born' = [born EXCEPT ![a] = births + 1]
             /\ \A b \in Addr \ {a} : prog'[b] = prog[b] /\ elems'[b] = elems[b] /\ glob'[b] = glob[b]
    BY <1>1, <1>2, <1>4 DEF Vacant
  <1> QED BY <1>1, <1>3, <1>4 DEF Instantiate

\* An instruction changes only the segments and the global of its instance.
LEMMA GuestVacant == ASSUME LInv, Vacant, mode = "guest", GuestStep PROVE Vacant'
  <1>0. IInv /\ stack # <<>> BY DEF LInv, IInv, StackLive
  <1>1. Running \in Addr /\ status[Running] \in {"starting", "live"} BY <1>0, RunningExists
  <1>2. /\ DOMAIN status = Addr /\ DOMAIN elems = Addr /\ DOMAIN glob = Addr
    BY DEF LInv, IInv, OwnershipTypes, Contents
  <1> DEFINE Fails == \E err : Unwind(err)
  <1>3. Fails => Vacant' BY <1>0, UnwindVacant
  <1>4. UNCHANGED instVars => Vacant' BY StableVacant DEF instVars
  <1>5. ASSUME NEW h, NEW s, Wrote(h, s) PROVE UNCHANGED instVars BY <1>5 DEF Wrote
  <1>6. ASSUME NEW t, NEW i, TableGet(t, i) PROVE Vacant' BY <1>3, <1>4, <1>6 DEF TableGet
  <1>7. ASSUME NEW t, NEW i, NEW v, TableSet(t, i, v) PROVE Vacant'
    BY <1>3, <1>4, <1>5, <1>7 DEF TableSet
  <1>8. ASSUME NEW t, NEW d, NEW v, TableGrow(t, d, v) PROVE Vacant'
    BY <1>4, <1>5, <1>8 DEF TableGrow
  <1>9. ASSUME NEW t, NEW i, NEW v, NEW n, TableFill(t, i, v, n) PROVE Vacant'
    BY <1>3, <1>4, <1>5, <1>9 DEF TableFill
  <1>10. ASSUME NEW t, NEW u, NEW i, NEW j, NEW n, TableCopy(t, u, i, j, n) PROVE Vacant'
    BY <1>3, <1>4, <1>5, <1>10 DEF TableCopy
  <1>11. ASSUME NEW e, NEW t, NEW i, NEW j, NEW n, TableInit(e, t, i, j, n) PROVE Vacant'
    BY <1>3, <1>4, <1>5, <1>11 DEF TableInit
  <1>12. ASSUME NEW e, ElemDrop(e) PROVE Vacant'
    <2>1. \A a \in Addr : status[a] = "free" => elems'[a] = elems[a]
      BY <1>1, <1>2, <1>12 DEF ElemDrop
    <2> QED BY <1>12, <2>1, StableVacant DEF ElemDrop
  <1>13. ASSUME NEW v, GlobalSet(v) PROVE Vacant'
    <2>1. \A a \in Addr : status[a] = "free" => glob'[a] = glob[a]
      BY <1>1, <1>2, <1>13 DEF GlobalSet
    <2> QED BY <1>13, <2>1, StableVacant DEF GlobalSet
  <1>14. ASSUME NEW ty, NEW t, NEW i, CallIndirect(ty, t, i) PROVE Vacant'
    BY <1>3, <1>4, <1>14 DEF CallIndirect
  <1>15. CASE CallHost BY <1>4, <1>15 DEF CallHost
  <1>16. CASE Trap BY <1>3, <1>16 DEF Trap
  <1>17. CASE Return
    <2>1. \A a \in Addr : status'[a] = "free" <=> status[a] = "free"
      BY <1>1, <1>2, <1>17 DEF Return
    <2> QED BY <1>17, <2>1, StableVacant DEF Return
  <1> QED BY <1>6, <1>7, <1>8, <1>9, <1>10, <1>11, <1>12, <1>13, <1>14, <1>15, <1>16, <1>17
          DEF GuestStep

LEMMA HostVacant == ASSUME LInv, Vacant, HostStep PROVE Vacant'
  <1>1. DOMAIN glob = Addr BY DEF LInv, Contents
  <1>2. UNCHANGED instVars => Vacant' BY StableVacant DEF instVars
  <1>3. ASSUME NEW h, NEW lim, HostNewTable(h, lim) PROVE Vacant' BY <1>2, <1>3 DEF HostNewTable
  <1>4. ASSUME NEW h, HostForgetTable(h) PROVE Vacant' BY <1>2, <1>4 DEF HostForgetTable
  <1>5. ASSUME NEW h, NEW i, HostGet(h, i) PROVE Vacant' BY <1>2, <1>5 DEF HostGet
  <1>6. ASSUME NEW h, NEW i, NEW r, HostSet(h, i, r) PROVE Vacant' BY <1>2, <1>6 DEF HostSet
  <1>7. ASSUME NEW a, HostGlobalGet(a) \/ Invoke(a) PROVE Vacant' BY <1>2, <1>7 DEF HostGlobalGet, Invoke
  <1>8. ASSUME NEW a \in Addr, HostGlobalSet(a) PROVE Vacant'
    <2>1. \A b \in Addr : status[b] = "free" => glob'[b] = glob[b] BY <1>1, <1>8 DEF HostGlobalSet
    <2> QED BY <1>8, <2>1, StableVacant DEF HostGlobalSet
  <1>9. ASSUME NEW a \in Addr, Drop(a) PROVE Vacant' BY <1>9, DropVacant DEF Drop
  <1>10. CASE HostReturn BY <1>2, <1>10 DEF HostReturn
  <1>11. CASE HostFails BY <1>11, UnwindVacant DEF HostFails
  <1> QED BY <1>3, <1>4, <1>5, <1>6, <1>7, <1>8, <1>9, <1>10, <1>11 DEF HostStep

LEMMA BuildVacant == ASSUME LInv, Vacant, BuildStep PROVE Vacant'
  <1>1. mode \in BuildModes /\ build.a \in Addr /\ status[build.a] = "building"
    <2>1. mode \in BuildModes
      BY DEF BuildStep, BindImport, DefineTable, DefineFails, Preflight, WriteData, WriteElements, Commit,
             BuildModes
    <2> QED BY <2>1 DEF LInv, IInv, Building
  <1>2. \A err : Abort(err) => Vacant' BY <1>1, AbortVacant
  <1>3. UNCHANGED <<status, born, births, prog, elems, glob>> => Vacant' BY StableVacant
  <1>4. CASE BindImport BY <1>2, <1>3, <1>4 DEF BindImport, AddTable
  <1>5. ASSUME NEW h, DefineTable(h) PROVE Vacant' BY <1>3, <1>5 DEF DefineTable, AddTable
  <1>6. CASE DefineFails BY <1>2, <1>6 DEF DefineFails
  <1>7. CASE Preflight BY <1>2, <1>3, <1>7 DEF Preflight, instVars
  <1>8. CASE WriteData BY <1>2, <1>3, <1>8 DEF WriteData, instVars
  <1>9. CASE WriteElements BY <1>2, <1>3, <1>9 DEF WriteElements, instVars
  <1>10. CASE Commit
    <2>1. DOMAIN status = Addr BY DEF LInv, IInv, OwnershipTypes
    <2>2. \A a \in Addr : status'[a] = "free" <=> status[a] = "free" BY <1>1, <1>10, <2>1 DEF Commit
    <2> QED BY <1>10, <2>2, StableVacant DEF Commit
  <1> QED BY <1>4, <1>5, <1>6, <1>7, <1>8, <1>9, <1>10 DEF BuildStep

LEMMA VacantStep == LInv /\ Vacant /\ [Next]_vars => Vacant'
  <1> SUFFICES ASSUME LInv, Vacant, [Next]_vars PROVE Vacant' OBVIOUS
  <1>1. CASE Begin BY <1>1, InstantiateVacant DEF Begin
  <1>2. CASE BuildStep BY <1>2, BuildVacant
  <1>3. CASE mode = "guest" /\ GuestStep BY <1>3, GuestVacant
  <1>4. CASE HostStep BY <1>4, HostVacant
  <1>5. CASE UNCHANGED vars BY <1>5, StableVacant DEF vars, instVars
  <1> QED BY <1>1, <1>2, <1>3, <1>4, <1>5 DEF Next

LEMMA LInvTypeOK == LInv /\ Vacant => TypeOK
  <1> SUFFICES ASSUME LInv, Vacant PROVE TypeOK OBVIOUS
  <1>0. IInv /\ Contents /\ Sized BY DEF LInv
  <1>1. slots \in [Handles -> Seq(Ref)] /\ mem \in [Mems -> Seq(Bytes)] BY <1>0, PlainTypes, Zenon
  <1>2. elems \in [Addr -> Seq(Seq(Nat \cup {Nil}))]
    <2>1. ASSUME NEW a \in Addr PROVE elems[a] \in Seq(Seq(Nat \cup {Nil}))
      <3>1. elems[a] \in Seq(Seq(Funcs(prog[a]) \cup {Nil})) BY <1>0 DEF Contents
      <3>2. Funcs(prog[a]) \subseteq Nat
        BY DEF Funcs
      <3>3. \A k \in DOMAIN elems[a] : elems[a][k] \in Seq(Nat \cup {Nil})
        <4> TAKE k \in DOMAIN elems[a]
        <4>1. elems[a][k] \in Seq(Funcs(prog[a]) \cup {Nil}) BY <3>1
        <4>2. \A j \in DOMAIN elems[a][k] : elems[a][k][j] \in Nat \cup {Nil} BY <3>2, <4>1
        <4> QED BY <4>1, <4>2, SeqOver
      <3> QED BY <3>1, <3>3, SeqOver
    <2> QED BY <1>0, <2>1 DEF Contents
  <1>3. glob \in [Addr -> Value] /\ held \in Ref /\ heldVal \in Value
    <2>1. \A a \in Addr : glob[a] \in Value BY <1>0 DEF Contents, GoodVals
    <2> QED BY <1>0, <2>1 DEF Contents, GoodRefs
  <1>4. \A a \in Addr :
          IF status[a] = "free"
          THEN prog[a] = Nil /\ tabs[a] = <<>> /\ elems[a] = <<>> /\ glob[a] = Nil /\ born[a] = 0
          ELSE prog[a] \in Modules /\ Range(tabs[a]) \subseteq made /\ born[a] \in 1..births
    <2> SUFFICES ASSUME NEW a \in Addr, status[a] # "free" PROVE Range(tabs[a]) \subseteq made
      BY <1>0 DEF IInv, FreeIsEmpty, Vacant
    <2>1. Range(tabs[a]) \subseteq Handles BY <1>0 DEF IInv, OwnershipTypes, Range
    <2> QED BY <1>0, <2>1, BoundExists
  <1>5. (mode \in BuildModes => build.a \in Addr) /\ (mode = "guest" => stack # <<>>)
    BY <1>0 DEF IInv, Building, StackLive
  <1>6. born \in [Addr -> Nat] /\ births \in Nat /\ tmax \in [Handles -> 0..NoMax]
    BY <1>0 DEF Contents, Sized
  <1>7. \A h \in Handles : IF h \in made THEN Len(slots[h]) <= MaxLen /\ Len(slots[h]) <= tmax[h]
                           ELSE slots[h] = <<>> /\ owner[h] = Nil
    BY <1>0 DEF Sized, IInv, BoundIsMade
  <1> QED BY <1>0, <1>1, <1>2, <1>3, <1>4, <1>5, <1>6, <1>7 DEF TypeOK, IInv, OwnershipTypes

\* The variables always have the types the code gives them, a table is never
\* longer than u32 and its maximum allow, and an identity is in use exactly
\* while its instance exists, however instances begin, fail and are dropped.
THEOREM TypeCorrect == Spec => []TypeOK
  <1>1. Init => Vacant BY DEF Init, Vacant
  <1>2. LInv /\ Vacant /\ [Next]_vars => Vacant' BY VacantStep
  <1>3. LInv /\ Vacant => TypeOK BY LInvTypeOK
  <1> QED BY <1>1, <1>2, <1>3, LinkingInvariance, PTL DEF Spec

\* A failed instantiation leaves the tables and memories of the embedder as it
\* found them: the preflights of with_config cover everything that can fail.
THEOREM FailsWithoutTrace == Spec => []AllOrNothing
  <1>1. LInv => AllOrNothing BY DEF LInv, Staged
  <1> QED BY <1>1, LinkingInvariance, PTL

\* No step shortens a table, changes its maximum or exceeds it.
THEOREM TablesStayWithinMaximum == Spec => TablesGrowWithinMaximum
  <1>1. LInv /\ [Next]_vars =>
          [\A h \in made \cap made' : /\ Len(slots'[h]) >= Len(slots[h])
                                      /\ tmax'[h] = tmax[h]
                                      /\ Len(slots'[h]) <= tmax[h]]_vars
    BY StepLInv DEF Grown
  <1> QED BY <1>1, LinkingInvariance, PTL DEF Spec, TablesGrowWithinMaximum

\* As long as the embedder moves no value between the globals of instances,
\* what function_index_for_instance lets an instance use is its own.
THEOREM ResolvedReferencesAreOwn == ASSUME ~RefGlobals PROVE Spec => []ResolvedIsOwn
  <1>1. LInv => ResolvedIsOwn
    <2> SUFFICES ASSUME LInv, NEW a \in Addr, NEW t \in DOMAIN tabs[a],
                        NEW i \in 0..(Len(slots[tabs[a][t]]) - 1),
                        FunctionIndexFor(a, tabs[a][t], i) = "Ok"
                 PROVE  /\ slots[tabs[a][t]][i + 1].origin = born[a]
                        /\ slots[tabs[a][t]][i + 1].fn \in Funcs(prog[a])
      BY DEF ResolvedIsOwn
    <2> DEFINE h == tabs[a][t]
               r == slots[h][i + 1]
    <2>1. h \in Handles BY DEF LInv, IInv, OwnershipTypes
    <2>2. slots[h] \in Seq(GoodRefs) /\ Len(slots[h]) \in Nat BY <2>1, Lengths DEF LInv
    <2>3. r \in GoodRefs
      <3> HIDE DEF h
      <3> QED BY <2>2 DEF h
    <2>4. r # Nil /\ r.owner = a /\ status[a] # "free" BY IndexForOk
    <2> QED BY <2>3, <2>4 DEF GoodRefs
  <1> QED BY <1>1, LinkingInvariance, PTL

\* Under the same condition none of the errors that report a broken internal
\* invariant occurs.
THEOREM InternalErrorsNeverOccur == ASSUME ~RefGlobals PROVE Spec => []NoInternalError
  <1>1. LInv => NoInternalError BY DEF LInv, NoFault, NoInternalError
  <1> QED BY <1>1, LinkingInvariance, PTL

-----------------------------------------------------------------------------
(* Refinement.                                                             *)

\* The incarnation marks are within the bound on instantiations.
Marked == /\ births \in 0..MaxBirths
          /\ \A a \in Addr : status[a] # "free" => born[a] \in 1..MaxBirths

\* While the table index space is laid out, a table the module defines is new,
\* empty, and occurs once in it.
Laid ==
    mode \in {"bind", "preflight"} =>
        \A k \in DOMAIN tabs[build.a] : k > Len(prog[build.a].imports) =>
            /\ slots[tabs[build.a][k]] = Fill(prog[build.a].defines[k - Len(prog[build.a].imports)].min, Nil)
            /\ \A j \in DOMAIN tabs[build.a] : tabs[build.a][j] = tabs[build.a][k] => j = k

\* The tables and memories are what the first segments of the module have made
\* of the state before with_config.
Applied ==
    /\ mode = "data" =>
         /\ build.k - 1 <= Len(prog[build.a].data)
         /\ slots = Atomic!Before(prog[build.a], tabs[build.a])
         /\ mem = Atomic!MemoriesAfter(1..(build.k - 1), prog[build.a])
    /\ mode = "elements" =>
         /\ build.k - 1 <= Len(prog[build.a].active)
         /\ slots = Atomic!TablesAfter(1..(build.k - 1), prog[build.a], tabs[build.a],
                                       build.a, born[build.a])
         /\ mem = Atomic!MemoriesAfter(DOMAIN prog[build.a].data, prog[build.a])

\* The inductive invariant of the refinement.
RInv == LInv /\ Marked /\ Laid /\ Applied

-----------------------------------------------------------------------------
\* The last of the segments that cover a slot.
LEMMA LatestAdded ==
    ASSUME NEW n \in Nat, NEW K \in SUBSET (1..n)
    PROVE  Atomic!Latest(K \cup {n + 1}) = n + 1
  <1>1. \A j \in K \cup {n + 1} : j \in Nat /\ j <= n + 1 OBVIOUS
  <1>2. \A k \in K \cup {n + 1} : (\A j \in K \cup {n + 1} : j <= k) => k = n + 1 BY <1>1
  <1> QED BY <1>1, <1>2 DEF Atomic!Latest

LEMMA NewReference ==
    ASSUME NEW a, born[a] \in Nat, NEW f \in Nat \cup {Nil}
    PROVE  Mint(a, OwnVal(a, f)) = Atomic!Reference(a, born[a], f)
  <1>1. CASE f = Nil BY <1>1 DEF Mint, OwnVal, Atomic!Reference
  <1>2. CASE f # Nil
    <2>1. [fn |-> f, origin |-> born[a]] \in [fn : Nat, origin : Nat] BY <1>2
    <2>2. OwnVal(a, f) = [fn |-> f, origin |-> born[a]] /\ OwnVal(a, f) # Nil
      BY <1>2, <2>1, NilAssumption DEF OwnVal
    <2> QED BY <1>2, <2>2 DEF Mint, Atomic!Reference
  <1> QED BY <1>1, <1>2

LEMMA NewReferences ==
    ASSUME NEW a, born[a] \in Nat, NEW fns \in Seq(Nat \cup {Nil})
    PROVE  /\ Len(fns) \in Nat /\ Len(OwnRefs(a, fns)) = Len(fns)
           /\ \A k \in DOMAIN fns : OwnRefs(a, fns)[k] = Atomic!Reference(a, born[a], fns[k])
  <1>1. \A k \in DOMAIN fns : fns[k] \in Nat \cup {Nil} OBVIOUS
  <1>2. \A k \in DOMAIN fns : Mint(a, OwnVal(a, fns[k])) = Atomic!Reference(a, born[a], fns[k])
    BY <1>1, NewReference
  <1>3. OwnRefs(a, fns) = [k \in 1..Len(fns) |-> Mint(a, OwnVal(a, fns[k]))] BY DEF OwnRefs
  <1>4. Len(fns) \in Nat /\ DOMAIN fns = 1..Len(fns) OBVIOUS
  <1> QED BY <1>2, <1>3, <1>4

\* The tables T hold the first n element segments of m, and the next one writes
\* the functions fns at off in the table h.
NextSegment(T, n, m, ts, a, y, h, off, fns) ==
    /\ n \in Nat /\ y \in Nat /\ y = born[a]
    /\ T \in [Handles -> Seq(GoodRefs)] /\ T = Atomic!TablesAfter(1..n, m, ts, a, y)
    /\ off \in Nat /\ off = m.active[n + 1].off
    /\ fns \in Seq(Nat \cup {Nil}) /\ fns = m.active[n + 1].fns
    /\ h \in Handles /\ h = ts[m.active[n + 1].t]

\* The tables T with the functions fns of instance a written at off in h.
Written(T, a, h, off, fns) ==
    [g \in Handles |-> IF g = h THEN Splice(T[h], off, OwnRefs(a, fns)) ELSE T[g]]

\* One more element segment is written.
LEMMA TablesStep ==
    ASSUME NEW T, NEW n, NEW m, NEW ts, NEW a, NEW y, NEW h, NEW off, NEW fns,
           NextSegment(T, n, m, ts, a, y, h, off, fns)
    PROVE  Atomic!TablesAfter(1..(n + 1), m, ts, a, y) = Written(T, a, h, off, fns)
  <1> USE DEF NextSegment
  <1>0. PICK W : W = Splice(T[h], off, OwnRefs(a, fns)) OBVIOUS
  <1> DEFINE B == Atomic!Before(m, ts)
             E(K, g, i) == Atomic!Elems(K, m, ts, g, i)
             R(f) == Atomic!Reference(a, y, f)
             Slot(K, g, i) == IF E(K, g, i) = {} THEN B[g][i]
                              ELSE R(m.active[Atomic!Latest(E(K, g, i))].fns[i - m.active[Atomic!Latest(E(K, g, i))].off])
             V == Atomic!TablesAfter(1..(n + 1), m, ts, a, y)
  <1>1. /\ T = [g \in Handles |-> [i \in DOMAIN B[g] |-> Slot(1..n, g, i)]]
        /\ V = [g \in Handles |-> [i \in DOMAIN B[g] |-> Slot(1..(n + 1), g, i)]]
    BY DEF Atomic!TablesAfter
  <1>2. ASSUME NEW g, NEW i
        PROVE  /\ E(1..n, g, i) \subseteq 1..n
               /\ E(1..(n + 1), g, i) = IF g = h /\ i - off \in DOMAIN fns
                                        THEN E(1..n, g, i) \cup {n + 1} ELSE E(1..n, g, i)
    <2>1. 1..(n + 1) = (1..n) \cup {n + 1} OBVIOUS
    <2> QED BY <2>1 DEF Atomic!Elems
  <1>3. ASSUME NEW g, NEW i, ~(g = h /\ i - off \in DOMAIN fns)
        PROVE  Slot(1..(n + 1), g, i) = Slot(1..n, g, i)
    <2>1. E(1..(n + 1), g, i) = E(1..n, g, i) BY <1>2, <1>3
    <2> HIDE DEF E
    <2> QED BY <2>1
  <1>4. ASSUME NEW i, i - off \in DOMAIN fns
        PROVE  Slot(1..(n + 1), h, i) = R(fns[i - off])
    <2>1. E(1..(n + 1), h, i) = E(1..n, h, i) \cup {n + 1} /\ E(1..n, h, i) \in SUBSET (1..n)
      BY <1>2, <1>4
    <2> HIDE DEF E
    <2>2. Atomic!Latest(E(1..(n + 1), h, i)) = n + 1 BY <2>1, LatestAdded
    <2>3. E(1..(n + 1), h, i) # {} BY <2>1
    <2> QED BY <2>2, <2>3
  <1> HIDE DEF Slot, V, R, E
  <1>5. ASSUME NEW g \in Handles
        PROVE  /\ T[g] = [i \in DOMAIN B[g] |-> Slot(1..n, g, i)]
               /\ V[g] = [i \in DOMAIN B[g] |-> Slot(1..(n + 1), g, i)]
               /\ DOMAIN B[g] = 1..Len(T[g])
    <2>1. T[g] \in Seq(GoodRefs) OBVIOUS
    <2>2. T[g] = [i \in DOMAIN B[g] |-> Slot(1..n, g, i)] BY <1>1
    <2>3. DOMAIN T[g] = DOMAIN B[g] BY <2>2
    <2> HIDE DEF B
    <2> QED BY <1>1, <2>1, <2>2, <2>3
  <1> HIDE DEF B
  <1>6. ASSUME NEW g \in Handles, g # h PROVE V[g] = T[g]
    <2>1. \A i \in DOMAIN B[g] : Slot(1..(n + 1), g, i) = Slot(1..n, g, i) BY <1>3, <1>6
    <2>2. V[g] = [i \in DOMAIN B[g] |-> Slot(1..(n + 1), g, i)] BY <1>5
    <2>3. @ = [i \in DOMAIN B[g] |-> Slot(1..n, g, i)] BY <2>1, Zenon
    <2>4. @ = T[g] BY <1>5
    <2> QED BY <2>2, <2>3, <2>4
  <1>7. V[h] = W
    <2>1. V[h] = [i \in 1..Len(T[h]) |-> Slot(1..(n + 1), h, i)] BY <1>5
    <2>2. Len(fns) \in Nat /\ Len(OwnRefs(a, fns)) = Len(fns)
          /\ \A k \in DOMAIN fns : OwnRefs(a, fns)[k] = R(fns[k])
      <3>1. born[a] \in Nat OBVIOUS
      <3> QED BY <3>1, NewReferences DEF R
    <2>3. ASSUME NEW i \in 1..Len(T[h])
          PROVE  Slot(1..(n + 1), h, i)
                   = IF off < i /\ i <= off + Len(OwnRefs(a, fns)) THEN OwnRefs(a, fns)[i - off] ELSE T[h][i]
      <3>0. i \in Nat /\ DOMAIN fns = 1..Len(fns) OBVIOUS
      <3>1. CASE off < i /\ i <= off + Len(fns)
        <4>1. i - off \in DOMAIN fns
          <5>1. \A p, q, l \in Nat : q < p /\ p <= q + l => p - q \in 1..l OBVIOUS
          <5> QED BY <2>2, <3>0, <3>1, <5>1, Zenon
        <4> QED BY <1>4, <2>2, <3>1, <4>1
      <3>2. CASE ~(off < i /\ i <= off + Len(fns))
        <4>1. ~(i - off \in DOMAIN fns) BY <2>2, <3>0, <3>2
        <4>2. T[h][i] = Slot(1..n, h, i) BY <1>5
        <4> QED BY <1>3, <2>2, <3>2, <4>1, <4>2
      <3> QED BY <3>1, <3>2
    <2> QED BY <1>0, <2>1, <2>3 DEF Splice
  <1>8. V = [g \in Handles |-> V[g]] BY <1>1 DEF V
  <1>10. \A g \in Handles : V[g] = IF g = h THEN W ELSE T[g] BY <1>6, <1>7
  <1> QED BY <1>0, <1>8, <1>10 DEF V, Written

\* One more data segment is written.
LEMMA MemoriesStep ==
    ASSUME NEW m, NEW n \in Nat,
           pub.mem \in [Mems -> Seq(Bytes)],
           NEW T \in [Mems -> Seq(Bytes)],
           T = Atomic!MemoriesAfter(1..n, m),
           NEW off \in Nat, off = m.data[n + 1].off,
           NEW bytes \in Seq(Bytes), bytes = m.data[n + 1].bytes,
           NEW h \in Mems, h = m.data[n + 1].mem,
           NEW U, U = [T EXCEPT ![h] = Splice(T[h], off, bytes)]
    PROVE  U = Atomic!MemoriesAfter(1..(n + 1), m)
  <1> DEFINE B == pub.mem
             E(K, g, i) == Atomic!Datas(K, m, g, i)
             Cell(K, g, i) == IF E(K, g, i) = {} THEN B[g][i]
                              ELSE m.data[Atomic!Latest(E(K, g, i))].bytes[i - m.data[Atomic!Latest(E(K, g, i))].off]
             V == Atomic!MemoriesAfter(1..(n + 1), m)
             W == Splice(T[h], off, bytes)
  <1>1. /\ T = [g \in Mems |-> [i \in DOMAIN B[g] |-> Cell(1..n, g, i)]]
        /\ V = [g \in Mems |-> [i \in DOMAIN B[g] |-> Cell(1..(n + 1), g, i)]]
    <2>1. DOMAIN pub.mem = Mems OBVIOUS
    <2> QED BY <2>1 DEF Atomic!MemoriesAfter
  <1>2. ASSUME NEW g, NEW i
        PROVE  /\ E(1..n, g, i) \subseteq 1..n
               /\ E(1..(n + 1), g, i) = IF g = h /\ i - off \in DOMAIN bytes
                                        THEN E(1..n, g, i) \cup {n + 1} ELSE E(1..n, g, i)
    <2>1. 1..(n + 1) = (1..n) \cup {n + 1} OBVIOUS
    <2> QED BY <2>1 DEF Atomic!Datas
  <1>3. ASSUME NEW g, NEW i, ~(g = h /\ i - off \in DOMAIN bytes)
        PROVE  Cell(1..(n + 1), g, i) = Cell(1..n, g, i)
    <2>1. E(1..(n + 1), g, i) = E(1..n, g, i) BY <1>2, <1>3
    <2> HIDE DEF E
    <2> QED BY <2>1
  <1>4. ASSUME NEW i, i - off \in DOMAIN bytes
        PROVE  Cell(1..(n + 1), h, i) = bytes[i - off]
    <2>1. E(1..(n + 1), h, i) = E(1..n, h, i) \cup {n + 1} /\ E(1..n, h, i) \in SUBSET (1..n)
      BY <1>2, <1>4
    <2> HIDE DEF E
    <2>2. Atomic!Latest(E(1..(n + 1), h, i)) = n + 1 BY <2>1, LatestAdded
    <2>3. E(1..(n + 1), h, i) # {} BY <2>1
    <2> QED BY <2>2, <2>3
  <1> HIDE DEF Cell, V, E
  <1>5. ASSUME NEW g \in Mems
        PROVE  /\ T[g] = [i \in DOMAIN B[g] |-> Cell(1..n, g, i)]
               /\ V[g] = [i \in DOMAIN B[g] |-> Cell(1..(n + 1), g, i)]
               /\ DOMAIN B[g] = 1..Len(T[g])
    <2>1. T[g] \in Seq(Bytes) OBVIOUS
    <2>2. T[g] = [i \in DOMAIN B[g] |-> Cell(1..n, g, i)] BY <1>1
    <2>3. DOMAIN T[g] = DOMAIN B[g] BY <2>2
    <2> HIDE DEF B
    <2> QED BY <1>1, <2>1, <2>2, <2>3
  <1> HIDE DEF B
  <1>6. ASSUME NEW g \in Mems, g # h PROVE V[g] = T[g]
    <2>1. \A i \in DOMAIN B[g] : Cell(1..(n + 1), g, i) = Cell(1..n, g, i) BY <1>3, <1>6
    <2> QED BY <1>5, <2>1
  <1>7. V[h] = W
    <2>1. V[h] = [i \in 1..Len(T[h]) |-> Cell(1..(n + 1), h, i)] BY <1>5
    <2>2. Len(bytes) \in Nat /\ DOMAIN bytes = 1..Len(bytes) OBVIOUS
    <2>3. ASSUME NEW i \in 1..Len(T[h])
          PROVE  Cell(1..(n + 1), h, i)
                   = IF off < i /\ i <= off + Len(bytes) THEN bytes[i - off] ELSE T[h][i]
      <3>0. i \in Nat OBVIOUS
      <3>1. CASE off < i /\ i <= off + Len(bytes)
        <4>1. i - off \in DOMAIN bytes
          <5>1. \A x, y, l \in Nat : y < x /\ x <= y + l => x - y \in 1..l OBVIOUS
          <5> QED BY <2>2, <3>0, <3>1, <5>1, Zenon
        <4> QED BY <1>4, <3>1, <4>1
      <3>2. CASE ~(off < i /\ i <= off + Len(bytes))
        <4>1. ~(i - off \in DOMAIN bytes) BY <2>2, <3>0, <3>2
        <4>2. T[h][i] = Cell(1..n, h, i) BY <1>5
        <4> QED BY <1>3, <3>2, <4>1, <4>2
      <3> QED BY <3>1, <3>2
    <2> QED BY <2>1, <2>3 DEF Splice
  <1> HIDE DEF W
  <1>8. V = [g \in Mems |-> V[g]] BY <1>1 DEF V
  <1>9. [T EXCEPT ![h] = W] = [g \in Mems |-> IF g = h THEN W ELSE T[g]] OBVIOUS
  <1>10. \A g \in Mems : V[g] = IF g = h THEN W ELSE T[g] BY <1>6, <1>7
  <1> QED BY <1>8, <1>9, <1>10 DEF V, W

\* Before the first segment nothing is applied.
LEMMA NoneApplied ==
    ASSUME NEW m, NEW ts, NEW a, NEW n
    PROVE  /\ pub.mem \in [Mems -> Seq(Bytes)] => Atomic!MemoriesAfter({}, m) = pub.mem
           /\ Atomic!Before(m, ts) \in [Handles -> Seq(GoodRefs)] =>
                Atomic!TablesAfter({}, m, ts, a, n) = Atomic!Before(m, ts)
  <1>1. ASSUME pub.mem \in [Mems -> Seq(Bytes)] PROVE Atomic!MemoriesAfter({}, m) = pub.mem
    <2> DEFINE B == pub.mem
    <2>1. \A g, i : Atomic!Datas({}, m, g, i) = {} BY DEF Atomic!Datas
    <2>2. Atomic!MemoriesAfter({}, m) = [g \in DOMAIN B |-> [i \in DOMAIN B[g] |-> B[g][i]]]
      BY <2>1 DEF Atomic!MemoriesAfter
    <2>3. B \in [Mems -> Seq(Bytes)] BY <1>1
    <2> HIDE DEF B
    <2>4. \A g \in Mems : [i \in DOMAIN B[g] |-> B[g][i]] = B[g]
      <3> TAKE g \in Mems
      <3>1. B[g] \in Seq(Bytes) BY <2>3
      <3> QED BY <3>1
    <2> QED BY <2>2, <2>3, <2>4 DEF B
  <1>2. ASSUME Atomic!Before(m, ts) \in [Handles -> Seq(GoodRefs)]
        PROVE  Atomic!TablesAfter({}, m, ts, a, n) = Atomic!Before(m, ts)
    <2> DEFINE B == Atomic!Before(m, ts)
    <2>1. \A g, i : Atomic!Elems({}, m, ts, g, i) = {} BY DEF Atomic!Elems
    <2>2. Atomic!TablesAfter({}, m, ts, a, n) = [g \in Handles |-> [i \in DOMAIN B[g] |-> B[g][i]]]
      BY <2>1 DEF Atomic!TablesAfter
    <2>3. B \in [Handles -> Seq(GoodRefs)] BY <1>2
    <2> HIDE DEF B
    <2>4. \A g \in Handles : [i \in DOMAIN B[g] |-> B[g][i]] = B[g]
      <3> TAKE g \in Handles
      <3>1. B[g] \in Seq(GoodRefs) BY <2>3
      <3> QED BY <3>1
    <2> QED BY <2>2, <2>3, <2>4 DEF B
  <1> QED BY <1>1, <1>2

-----------------------------------------------------------------------------
\* The abstract state and its steps.
Insts == {a \in Addr : Visible(a)}
Bound == [h \in Handles |-> IF owner[h] # Nil /\ Visible(owner[h]) THEN owner[h] ELSE Nil]
AStep == [Atomic!Next]_(Atomic!vars)

LEMMA Stutters ==
    ASSUME Insts' = Insts, Bound' = Bound, pub'.slots = pub.slots, pub'.mem = pub.mem
    PROVE  AStep
  BY DEF AStep, Atomic!vars, Insts, Bound

LEMMA Unlinks ==
    ASSUME NEW a \in Addr, a \in Insts, Insts' = Insts \ {a},
           Bound' = [h \in Handles |-> IF Bound[h] = a THEN Nil ELSE Bound[h]],
           \A h \in Handles : pub'.slots[h] # pub.slots[h] => Bound[h] = a /\ pub'.slots[h] = <<>>,
           pub'.mem = pub.mem
    PROVE  AStep
  <1>1. Atomic!Unlink(a) BY DEF Atomic!Unlink, Insts, Bound
  <1> QED BY <1>1 DEF AStep, Atomic!Next

LEMMA GuestChanges ==
    ASSUME NEW a \in Addr, NEW h \in Handles, a \in Insts, Bound[h] = a,
           Insts' = Insts, Bound' = Bound, pub'.mem = pub.mem,
           pub'.slots = [pub.slots EXCEPT ![h] = pub'.slots[h]],
           Len(pub'.slots[h]) >= Len(pub.slots[h])
    PROVE  AStep
  <1>1. Atomic!GuestWrite(a, h) BY DEF Atomic!GuestWrite, Insts, Bound
  <1> QED BY <1>1 DEF AStep, Atomic!Next

LEMMA HostChanges ==
    ASSUME NEW h \in Handles, Bound[h] = Nil \/ Len(pub'.slots[h]) = Len(pub.slots[h]),
           Insts' = Insts, Bound' = Bound, pub'.mem = pub.mem,
           pub'.slots = [pub.slots EXCEPT ![h] = pub'.slots[h]]
    PROVE  AStep
  <1>1. Atomic!HostWrite(h) BY DEF Atomic!HostWrite, Insts, Bound
  <1> QED BY <1>1 DEF AStep, Atomic!Next

\* Tables keep their owners, and no instance appears or disappears.
LEMMA SameInstances ==
    ASSUME IInv, owner' = owner, \A a \in Addr : Visible(a)' <=> Visible(a)
    PROVE  Insts' = Insts /\ Bound' = Bound
  <1>1. \A h \in Handles : owner[h] \in Addr \cup {Nil} BY DEF IInv, OwnershipTypes
  <1>2. Insts' = Insts BY DEF Insts
  <1>3. \A h \in Handles : (IF owner[h] # Nil /\ Visible(owner[h]) THEN owner[h] ELSE Nil)'
                             = IF owner[h] # Nil /\ Visible(owner[h]) THEN owner[h] ELSE Nil
    <2> TAKE h \in Handles
    <2>1. CASE owner[h] = Nil BY <2>1
    <2>2. CASE owner[h] # Nil
      <3>1. owner[h] \in Addr BY <1>1, <2>2
      <3>2. Visible(owner[h])' <=> Visible(owner[h]) BY <3>1 DEF Visible
      <3> QED BY <2>2, <3>2
    <2> QED BY <2>1, <2>2
  <1>4. Bound' = Bound BY <1>3 DEF Bound
  <1> QED BY <1>2, <1>4

\* An instance ends, and some of the tables it has are released.
LEMMA InstanceEnds ==
    ASSUME IInv, NEW a \in Addr, Visible(a), status' = [status EXCEPT ![a] = "free"],
           \A h \in Handles : owner'[h] = owner[h] \/ (owner[h] = a /\ owner'[h] = Nil)
    PROVE  /\ Insts' = Insts \ {a} /\ a \in Insts
           /\ Bound' = [h \in Handles |-> IF Bound[h] = a THEN Nil ELSE Bound[h]]
  <1>1. /\ \A h \in Handles : owner[h] \in Addr \cup {Nil}
        /\ DOMAIN status = Addr
    BY DEF IInv, OwnershipTypes
  <1>2. ~Visible(a)' BY <1>1 DEF Visible
  <1>3. \A b \in Addr : b # a => (Visible(b)' <=> Visible(b)) BY <1>1 DEF Visible
  <1>4. Insts' = Insts \ {a} /\ a \in Insts BY <1>2, <1>3 DEF Insts
  <1>5. ASSUME NEW h \in Handles
        PROVE  (IF owner[h] # Nil /\ Visible(owner[h]) THEN owner[h] ELSE Nil)'
                 = IF Bound[h] = a THEN Nil ELSE Bound[h]
    <2>1. Bound[h] = IF owner[h] # Nil /\ Visible(owner[h]) THEN owner[h] ELSE Nil BY DEF Bound
    <2>2. a # Nil BY NilAssumption
    <2>3. CASE owner[h] = Nil BY <2>1, <2>2, <2>3
    <2>4. CASE owner[h] = a BY <1>2, <2>1, <2>2, <2>4 DEF Visible
    <2>5. CASE owner[h] # Nil /\ owner[h] # a
      <3>1. owner[h] \in Addr /\ owner'[h] = owner[h] BY <1>1, <2>5
      <3>2. Visible(owner[h])' <=> Visible(owner[h]) BY <1>3, <2>5, <3>1 DEF Visible
      <3> QED BY <2>1, <2>2, <2>5, <3>1, <3>2
    <2> QED BY <2>3, <2>4, <2>5
  <1>6. Bound' = [h \in Handles |-> IF Bound[h] = a THEN Nil ELSE Bound[h]] BY <1>5 DEF Bound
  <1> QED BY <1>4, <1>6

-----------------------------------------------------------------------------
\* Operations that publish what they have done.
LEMMA Outside ==
    ASSUME LInv, mode \in {"host", "guest"}, Publish
    PROVE  pub.slots = slots /\ pub.mem = mem /\ pub'.slots = slots' /\ pub'.mem = mem'
  <1>1. pub = [slots |-> slots, mem |-> mem] BY DEF LInv, Staged, AllOrNothing, BuildModes
  <1> QED BY <1>1 DEF Publish

LEMMA SameMarks ==
    ASSUME Marked, births' = births,
           \A a \in Addr : status'[a] # "free" => status[a] # "free" /\ born'[a] = born[a]
    PROVE  Marked'
  BY DEF Marked

\* An invocation ends with an error; a start function takes its instance along.
LEMMA UnwindStep ==
    ASSUME LInv, Marked, mode \in {"host", "guest"}, stack # <<>>, NEW err, Unwind(err), Publish
    PROVE  AStep /\ Marked'
  <1>0. IInv BY DEF LInv
  <1>1. /\ pub.slots = slots /\ pub.mem = mem /\ pub'.slots = slots' /\ pub'.mem = mem' /\ mem' = mem
    BY Outside DEF Unwind
  <1> DEFINE a == Running
  <1>2. a \in Addr /\ status[a] \in {"starting", "live"} BY <1>0, RunningExists
  <1>3. CASE status[a] = "starting"
    <2>1. DropInstance(a) /\ Release(Defined(a)) BY <1>3 DEF Unwind
    <2>2. status' = [status EXCEPT ![a] = "free"] /\ born' = [born EXCEPT ![a] = 0] /\ births' = births
      BY <2>1 DEF DropInstance
    <2>3. Visible(a) BY <1>2, NilAssumption DEF Visible
    <2>4. \A h \in Handles : h \in Defined(a) => owner[h] = a
      BY <1>0, <1>2, DefinedIsOwn DEF IInv, BindingExact
    <2>5. \A h \in Handles : /\ owner'[h] = owner[h] \/ (owner[h] = a /\ owner'[h] = Nil)
                             /\ slots'[h] # slots[h] => owner[h] = a /\ slots'[h] = <<>>
      BY <2>1, <2>4 DEF Release
    <2> HIDE DEF a
    <2>6. \A h \in Handles : owner[h] = a => Bound[h] = a BY <1>2, <2>3, NilAssumption DEF Bound
    <2>7. /\ Insts' = Insts \ {a} /\ a \in Insts
          /\ Bound' = [h \in Handles |-> IF Bound[h] = a THEN Nil ELSE Bound[h]]
      BY <1>0, <1>2, <2>2, <2>3, <2>5, InstanceEnds
    <2>8. AStep BY <1>1, <1>2, <2>5, <2>6, <2>7, Unlinks
    <2>9. Marked'
      <3>1. DOMAIN status = Addr /\ DOMAIN born = Addr BY <1>0 DEF LInv, IInv, OwnershipTypes, Contents
      <3> QED BY <1>2, <2>2, <3>1, SameMarks
    <2> QED BY <2>8, <2>9
  <1>4. CASE status[a] # "starting"
    <2>1. UNCHANGED <<status, born, births, slots, owner>> BY <1>4 DEF Unwind, instVars
    <2>2. Insts' = Insts /\ Bound' = Bound BY <1>0, <2>1, SameInstances DEF Visible
    <2>3. pub'.slots = pub.slots /\ pub'.mem = pub.mem BY <1>1, <2>1
    <2> QED BY <2>1, <2>2, <2>3, Stutters, SameMarks
  <1> QED BY <1>3, <1>4

\* Guest code.
LEMMA GuestRefines == ASSUME LInv, Marked, mode = "guest", GuestStep, Publish PROVE AStep /\ Marked'
  <1>0. IInv /\ Contents /\ tmax \in [Handles -> 0..NoMax] BY DEF LInv, Sized
  <1>1. /\ pub.slots = slots /\ pub.mem = mem /\ pub'.slots = slots' /\ pub'.mem = mem'
    BY Outside
  <1>2. stack # <<>> BY <1>0 DEF IInv, StackLive
  <1>3. Running \in Addr /\ status[Running] \in {"starting", "live"} BY <1>0, <1>2, RunningExists
  <1>4. CASE GuestQuiet
    <2>1. UNCHANGED <<born, births, slots, mem, owner>> BY <1>4 DEF GuestQuiet, tableVars
    <2>2. \A a \in Addr : /\ status'[a] \in {"starting", "live"} <=> status[a] \in {"starting", "live"}
                          /\ status'[a] = "free" <=> status[a] = "free"
      BY <1>0, <1>3, <1>4 DEF GuestQuiet, IInv, OwnershipTypes
    <2>3. Insts' = Insts /\ Bound' = Bound BY <1>0, <2>1, <2>2, SameInstances DEF Visible
    <2>4. AStep BY <1>1, <2>1, <2>3, Stutters
    <2>5. Marked' BY <2>1, <2>2, SameMarks
    <2> QED BY <2>4, <2>5
  <1>5. CASE GuestReplaces
    <2> PICK h \in Range(tabs[Running]) \cap Handles, s \in Seq(GoodRefs) :
               /\ Wrote(h, s)
               /\ \/ Len(s) = Len(slots[h])
                  \/ Len(s) >= Len(slots[h]) /\ Len(s) <= MaxLen /\ Len(s) <= tmax[h]
      BY <1>5 DEF GuestReplaces
    <2>1. slots' = [slots EXCEPT ![h] = s] /\ UNCHANGED <<status, born, births, owner, mem>>
      BY DEF Wrote, instVars
    <2>2. Insts' = Insts /\ Bound' = Bound BY <1>0, <2>1, SameInstances DEF Visible
    <2>3. Visible(Running) /\ Running # Nil BY <1>3, NilAssumption DEF Visible
    <2>4. owner[h] = Running BY <1>0, <1>3 DEF IInv, BindingExact
    <2>5. Running \in Insts /\ Bound[h] = Running BY <1>3, <2>3, <2>4 DEF Insts, Bound
    <2>6. slots'[h] = s /\ Len(s) >= Len(slots[h])
      <3>1. DOMAIN slots = Handles /\ Len(slots[h]) \in Nat BY <1>0, Lengths DEF Contents
      <3> QED BY <2>1, <3>1
    <2>7. AStep BY <1>1, <1>3, <2>1, <2>2, <2>5, <2>6, GuestChanges
    <2>8. Marked' BY <2>1, SameMarks
    <2> QED BY <2>7, <2>8
  <1>6. CASE GuestFails BY <1>2, <1>6, UnwindStep DEF GuestFails
  <1> QED BY <1>0, <1>4, <1>5, <1>6, GuestEffect

\* The embedder.
LEMMA HostRefines == ASSUME LInv, Marked, HostStep, Publish PROVE AStep /\ Marked'
  <1>0. IInv /\ Contents /\ mode = "host" BY HostModes DEF LInv
  <1>1. pub.slots = slots /\ pub.mem = mem /\ pub'.slots = slots' /\ pub'.mem = mem'
    BY <1>0, Outside
  <1>2. DOMAIN slots = Handles /\ DOMAIN owner = Handles /\ DOMAIN status = Addr /\ DOMAIN born = Addr
    BY <1>0 DEF Contents, IInv, OwnershipTypes
  <1>3. ASSUME UNCHANGED <<status, owner>> PROVE Insts' = Insts /\ Bound' = Bound
    BY <1>0, <1>3, SameInstances DEF Visible
  <1>4. ASSUME UNCHANGED <<status, born, births>> PROVE Marked' BY <1>4, SameMarks
  <1>5. ASSUME UNCHANGED <<status, born, births, slots, mem, owner>> PROVE AStep /\ Marked'
    BY <1>1, <1>3, <1>4, <1>5, Stutters
  <1>6. ASSUME NEW h \in Handles, NEW lim \in Limits, HostNewTable(h, lim) PROVE AStep /\ Marked'
    <2>1. /\ h \notin made /\ slots' = [slots EXCEPT ![h] = Fill(lim.min, Nil)]
          /\ UNCHANGED <<status, born, births, owner, mem>>
      BY <1>6 DEF HostNewTable, instVars
    <2>2. Bound[h] = Nil BY <1>0, <2>1 DEF IInv, BoundIsMade, Bound
    <2>3. slots' = [slots EXCEPT ![h] = slots'[h]] BY <1>2, <2>1
    <2>4. Insts' = Insts /\ Bound' = Bound BY <1>3, <2>1
    <2>5. AStep BY <1>1, <2>1, <2>2, <2>3, <2>4, HostChanges
    <2> QED BY <1>4, <2>1, <2>5
  <1>7. ASSUME NEW h \in Handles, HostForgetTable(h) PROVE AStep /\ Marked'
    <2>1. /\ \A a \in Addr : \A k \in DOMAIN tabs[a] : tabs[a][k] # h
          /\ UNCHANGED <<status, born, births, mem>>
          /\ slots' = [g \in Handles |-> IF g \in {h} THEN <<>> ELSE slots[g]]
          /\ owner' = [g \in Handles |-> IF g \in {h} THEN Nil ELSE owner[g]]
      BY <1>7 DEF HostForgetTable, Release, instVars
    <2>2. owner[h] # Nil => ~Visible(owner[h])
      <3>1. owner[h] \in Addr \cup {Nil} BY <1>0 DEF IInv, OwnershipTypes
      <3>2. \A a \in Addr : h \notin Range(tabs[a]) BY <2>1 DEF Range
      <3>3. owner[h] \in Addr => status[owner[h]] = "free" BY <1>0, <3>2 DEF IInv, BindingExact
      <3> QED BY <3>1, <3>3 DEF Visible
    <2>3. Bound[h] = Nil BY <2>2 DEF Bound
    <2>4. \A a : Visible(a)' <=> Visible(a) BY <2>1 DEF Visible
    <2>5. Insts' = Insts BY <2>4 DEF Insts
    <2>6. Bound' = Bound
      <3>1. ASSUME NEW g \in Handles
            PROVE  (IF owner[g] # Nil /\ Visible(owner[g]) THEN owner[g] ELSE Nil)'
                     = IF owner[g] # Nil /\ Visible(owner[g]) THEN owner[g] ELSE Nil
        <4>1. CASE g = h BY <2>1, <2>2, <4>1
        <4>2. CASE g # h
          <5>1. owner'[g] = owner[g] BY <2>1, <4>2
          <5>2. Visible(owner[g])' <=> Visible(owner[g]) BY <2>1, <5>1 DEF Visible
          <5> QED BY <5>1, <5>2
        <4> QED BY <4>1, <4>2
      <3> QED BY <3>1 DEF Bound
    <2>7. slots' = [slots EXCEPT ![h] = slots'[h]]
      <3>1. slots = [g \in Handles |-> slots[g]] BY <1>0 DEF Contents
      <3> QED BY <2>1, <3>1
    <2>8. AStep BY <1>1, <2>1, <2>3, <2>5, <2>6, <2>7, HostChanges
    <2> QED BY <1>4, <2>1, <2>8
  <1>8. ASSUME NEW h \in Handles, NEW i \in Index, NEW r \in {Nil, held}, HostSet(h, i, r)
        PROVE  AStep /\ Marked'
    <2>1. /\ UNCHANGED <<status, born, births, mem, owner>>
          /\ slots' = slots \/ slots' = [slots EXCEPT ![h][i + 1] = r]
      BY <1>8 DEF HostSet, instVars
    <2>2. CASE slots' = slots BY <1>5, <2>1, <2>2
    <2>3. CASE slots' = [slots EXCEPT ![h][i + 1] = r]
      <3>1. slots[h] \in Seq(GoodRefs) /\ r \in GoodRefs
        BY <1>0, Lengths DEF Contents, GoodRefs, Ref
      <3>2. Len([slots[h] EXCEPT ![i + 1] = r]) = Len(slots[h]) BY <3>1, SetSeq
      <3>3. slots'[h] = [slots[h] EXCEPT ![i + 1] = r] BY <1>2, <2>3
      <3>4. slots' = [slots EXCEPT ![h] = slots'[h]] BY <1>2, <2>3, <3>3
      <3>5. Len(slots'[h]) = Len(slots[h]) BY <3>2, <3>3
      <3>6. Insts' = Insts /\ Bound' = Bound BY <1>3, <2>1
      <3>7. AStep BY <1>1, <2>1, <3>4, <3>5, <3>6, HostChanges
      <3> QED BY <1>4, <2>1, <3>7
    <2> QED BY <2>1, <2>2, <2>3
  <1>9. ASSUME NEW a \in Addr, Drop(a) PROVE AStep /\ Marked'
    <2>1. /\ status[a] = "live" /\ UNCHANGED <<slots, owner, mem>>
          /\ status' = [status EXCEPT ![a] = "free"] /\ born' = [born EXCEPT ![a] = 0]
          /\ births' = births
      BY <1>9 DEF Drop, DropInstance, tableVars
    <2>2. Visible(a) BY <2>1, NilAssumption DEF Visible
    <2>3. /\ Insts' = Insts \ {a} /\ a \in Insts
          /\ Bound' = [h \in Handles |-> IF Bound[h] = a THEN Nil ELSE Bound[h]]
      BY <1>0, <2>1, <2>2, InstanceEnds
    <2>4. AStep BY <1>1, <2>1, <2>3, Unlinks
    <2>5. Marked' BY <1>2, <2>1, SameMarks
    <2> QED BY <2>4, <2>5
  <1>10. ASSUME HostFails PROVE AStep /\ Marked'
    BY <1>0, <1>10, UnwindStep DEF HostFails
  <1>11. CASE \E h \in Handles, i \in Index : HostGet(h, i)
    BY <1>5, <1>11 DEF HostGet, instVars, tableVars
  <1>12. CASE \E a \in Addr : HostGlobalGet(a) \/ HostGlobalSet(a) \/ Invoke(a)
    BY <1>5, <1>12 DEF HostGlobalGet, HostGlobalSet, Invoke, instVars, tableVars
  <1>13. CASE HostReturn BY <1>5, <1>13 DEF HostReturn, instVars, tableVars
  <1> QED BY <1>6, <1>7, <1>8, <1>9, <1>10, <1>11, <1>12, <1>13 DEF HostStep

-----------------------------------------------------------------------------
\* The tables when the index space is complete.
LEMMA BeforeSegments ==
    ASSUME LInv, Laid, mode = "preflight"
    PROVE  slots = Atomic!Before(prog[build.a], tabs[build.a])
  <1>0. IInv /\ Contents /\ Staged BY DEF LInv
  <1> DEFINE a == build.a
             m == prog[a]
             ts == tabs[a]
             i == Len(m.imports)
             Empty(k) == [j \in 1..m.defines[k - i].min |-> Nil]
             New(h) == h \in Range(ts) /\ \A k \in DOMAIN ts : ts[k] = h => k > i
             At(h) == CHOOSE k \in DOMAIN ts : ts[k] = h
  <1>1. /\ Defined(a) = {ts[k] : k \in {j \in DOMAIN ts : j > i}}
        /\ \A h \in Handles : h \notin Defined(a) => slots[h] = pub.slots[h]
        /\ \A k \in DOMAIN ts : k > i =>
             slots[ts[k]] = Empty(k) /\ \A j \in DOMAIN ts : ts[j] = ts[k] => j = k
    BY <1>0 DEF Defined, Staged, Laid, Fill
  <1>2. Atomic!Before(m, ts) = [h \in Handles |-> IF New(h) THEN Empty(At(h)) ELSE pub.slots[h]]
    BY DEF Atomic!Before, Atomic!Range, Range
  <1> HIDE DEF m, ts, i, Empty, a
  <1>3. ASSUME NEW h \in Handles
        PROVE  slots[h] = IF New(h) THEN Empty(At(h)) ELSE pub.slots[h]
    <2>1. CASE New(h)
      <3>1. At(h) \in DOMAIN ts /\ ts[At(h)] = h BY <2>1 DEF Range
      <3>2. At(h) > i BY <2>1, <3>1
      <3> HIDE DEF At
      <3> QED BY <1>1, <2>1, <3>1, <3>2
    <2>2. CASE ~New(h)
      <3>1. h \notin Defined(a)
        <4> SUFFICES ASSUME NEW k \in DOMAIN ts, k > i, h = ts[k] PROVE FALSE BY <1>1
        <4>1. h \in Range(ts) BY DEF Range
        <4>2. \A j \in DOMAIN ts : ts[j] = h => j > i BY <1>1
        <4> QED BY <2>2, <4>1, <4>2
      <3> QED BY <1>1, <2>2, <3>1
    <2> QED BY <2>1, <2>2
  <1>4. slots = [h \in Handles |-> slots[h]] BY <1>0 DEF Contents
  <1>5. slots = [h \in Handles |-> IF New(h) THEN Empty(At(h)) ELSE pub.slots[h]] BY <1>3, <1>4
  <1> QED BY <1>2, <1>5 DEF a, m, ts

\* What the abstract operators say depends only on the state before with_config.
LEMMA SameAbstraction ==
    ASSUME pub' = pub, NEW K, NEW m, NEW ts, NEW a, NEW n
    PROVE  /\ Atomic!Before(m, ts)' = Atomic!Before(m, ts)
           /\ Atomic!MemoriesAfter(K, m)' = Atomic!MemoriesAfter(K, m)
           /\ Atomic!TablesAfter(K, m, ts, a, n)' = Atomic!TablesAfter(K, m, ts, a, n)
  <1>1. Atomic!Before(m, ts)' = Atomic!Before(m, ts) BY DEF Atomic!Before
  <1>2. Atomic!MemoriesAfter(K, m)' = Atomic!MemoriesAfter(K, m) BY DEF Atomic!MemoriesAfter
  <1>3. Atomic!TablesAfter(K, m, ts, a, n)' = Atomic!TablesAfter(K, m, ts, a, n)
    BY <1>1 DEF Atomic!TablesAfter
  <1> QED BY <1>1, <1>2, <1>3

\* A step of with_config before its end is none of the abstract system.
LEMMA StageStutters ==
    ASSUME IInv, mode \in BuildModes, pub' = pub,
           status' = status \/ status' = [status EXCEPT ![build.a] = "free"],
           \A h \in Handles : \/ owner'[h] = owner[h]
                              \/ ~(owner[h] # Nil /\ Visible(owner[h])) /\ owner'[h] \in {Nil, build.a}
    PROVE  AStep
  <1>1. build.a \in Addr /\ status[build.a] = "building" BY DEF IInv, Building
  <1>2. /\ status \in [Addr -> {"free", "building", "starting", "live"}]
        /\ \A h \in Handles : owner[h] \in Addr \cup {Nil}
    BY DEF IInv, OwnershipTypes
  <1>3. ~Visible(build.a) /\ (status'[build.a] \in {"building", "free"}) BY <1>1, <1>2 DEF Visible
  <1>4. \A b \in Addr : Visible(b)' <=> Visible(b) BY <1>1, <1>2, <1>3 DEF Visible
  <1>5. Insts' = Insts BY <1>4 DEF Insts
  <1>6. ASSUME NEW h \in Handles
        PROVE  (IF owner[h] # Nil /\ Visible(owner[h]) THEN owner[h] ELSE Nil)'
                 = IF owner[h] # Nil /\ Visible(owner[h]) THEN owner[h] ELSE Nil
    <2>1. CASE owner'[h] = owner[h]
      <3>1. CASE owner[h] = Nil BY <2>1, <3>1
      <3>2. CASE owner[h] # Nil
        <4>1. owner[h] \in Addr BY <1>2, <3>2
        <4>2. Visible(owner[h])' <=> Visible(owner[h]) BY <1>4, <2>1, <4>1 DEF Visible
        <4> QED BY <2>1, <4>2
      <3> QED BY <3>1, <3>2
    <2>2. CASE ~(owner[h] # Nil /\ Visible(owner[h])) /\ owner'[h] \in {Nil, build.a}
      <3>1. owner'[h] = build.a => ~(Visible(owner[h])') BY <1>3 DEF Visible
      <3> QED BY <2>2, <3>1
    <2> QED BY <2>1, <2>2
  <1>7. Bound' = Bound BY <1>6 DEF Bound
  <1> QED BY <1>5, <1>7, Stutters

LEMMA AbortRefines ==
    ASSUME LInv, Marked, mode \in BuildModes, NEW err, Abort(err)
    PROVE  AStep /\ Marked' /\ Laid' /\ Applied'
  <1>0. IInv /\ Contents BY DEF LInv
  <1>1. build.a \in Addr /\ status[build.a] = "building" BY <1>0 DEF IInv, Building
  <1>2. /\ status' = [status EXCEPT ![build.a] = "free"] /\ born' = [born EXCEPT ![build.a] = 0]
        /\ births' = births /\ pub' = pub /\ mode' = "host"
        /\ owner' = [h \in Handles |-> IF h \in Defined(build.a) THEN Nil ELSE owner[h]]
    BY DEF Abort, DropInstance, Release
  <1>3. \A h \in Handles : h \in Defined(build.a) => owner[h] = build.a
    BY <1>0, <1>1, DefinedIsOwn DEF IInv, BindingExact
  <1>4. ~Visible(build.a) BY <1>1 DEF Visible
  <1>5. \A h \in Handles : \/ owner'[h] = owner[h]
                           \/ ~(owner[h] # Nil /\ Visible(owner[h])) /\ owner'[h] \in {Nil, build.a}
    BY <1>2, <1>3, <1>4
  <1>6. AStep BY <1>0, <1>2, <1>5, StageStutters
  <1>7. Marked'
    <2>1. DOMAIN status = Addr /\ DOMAIN born = Addr BY <1>0 DEF IInv, OwnershipTypes, Contents
    <2> QED BY <1>1, <1>2, <2>1, SameMarks
  <1> QED BY <1>2, <1>6, <1>7 DEF Laid, Applied

LEMMA BindRefines ==
    ASSUME LInv, Marked, Laid, BindImport
    PROVE  AStep /\ Marked' /\ Laid' /\ Applied'
  <1>0. IInv /\ Contents /\ Counted BY DEF LInv
  <1> DEFINE a == build.a
             n == Len(tabs[a])
             h == build.imp[n + 1]
  <1>1. mode = "bind" /\ mode \in BuildModes /\ n < Len(build.imp) BY DEF BindImport, BuildModes
  <1>2. CASE Abort("HostTableAlreadyBound") BY <1>1, <1>2, AbortRefines
  <1>3. CASE ~BoundElsewhere(h, a) /\ AddTable(h)
    <2>1. /\ owner' = [owner EXCEPT ![h] = a] /\ tabs' = [tabs EXCEPT ![a] = Append(tabs[a], h)]
          /\ mode' \in {"bind", "preflight"}
          /\ UNCHANGED <<status, born, births, prog, build, pub>>
      BY <1>3 DEF AddTable
    <2>2. a \in Addr /\ tabs[a] \in Seq(Handles) /\ prog[a] \in Modules
          /\ Len(build.imp) = Len(prog[a].imports)
      BY <1>0, <1>1, BuiltModule DEF Counted
    <2>3. \A g \in Handles : \/ owner'[g] = owner[g]
                             \/ ~(owner[g] # Nil /\ Visible(owner[g])) /\ owner'[g] \in {Nil, build.a}
      <3>1. owner[h] # Nil /\ Visible(owner[h]) => owner[h] = a
        BY <1>3 DEF BoundElsewhere, Upgrades, Visible
      <3>2. status[a] = "building" BY <1>0, <1>1 DEF IInv, Building
      <3>3. ~(owner[h] # Nil /\ Visible(owner[h])) BY <3>1, <3>2 DEF Visible
      <3>4. DOMAIN owner = Handles BY <1>0 DEF IInv, OwnershipTypes
      <3> HIDE DEF h
      <3> QED BY <2>1, <3>3, <3>4
    <2>4. AStep BY <1>0, <1>1, <2>1, <2>3, StageStutters
    <2>5. Marked' BY <2>1, SameMarks
    <2>6. Laid'
      <3>1. tabs'[a] = Append(tabs[a], h) BY <1>0, <2>1, <2>2 DEF IInv, OwnershipTypes
      <3>2. n \in Nat /\ Len(prog[a].imports) \in Nat BY <2>2, TableSpace
      <3>3. DOMAIN tabs'[a] = 1..(n + 1)
        <4> DEFINE s == tabs[a]
        <4>1. s \in Seq(Handles) /\ Len(s) = n /\ tabs'[a] = Append(s, h) BY <2>2, <3>1
        <4> HIDE DEF s, n, h
        <4> QED BY <4>1
      <3>4. \A k \in 1..(n + 1) : ~(k > Len(prog[a].imports))
        <4>1. \A x, y \in Nat : x < y => \A k \in 1..(x + 1) : ~(k > y) OBVIOUS
        <4>2. n < Len(prog[a].imports) BY <1>1, <2>2
        <4> HIDE DEF n
        <4> QED BY <3>2, <4>1, <4>2, Zenon
      <3> QED BY <2>1, <3>3, <3>4 DEF Laid
    <2> QED BY <2>1, <2>4, <2>5, <2>6 DEF Applied
  <1> QED BY <1>2, <1>3 DEF BindImport

LEMMA DefineRefines ==
    ASSUME LInv, Marked, Laid, NEW h \in Handles, DefineTable(h)
    PROVE  AStep /\ Marked' /\ Laid' /\ Applied'
  <1>0. IInv /\ Contents /\ Counted BY DEF LInv
  <1> DEFINE a == build.a
             n == Len(tabs[a])
             i == Len(prog[a].imports)
             s == tabs[a]
             Empty(k) == Fill(prog[a].defines[k - i].min, Nil)
  <1>1. mode = "bind" /\ mode \in BuildModes /\ n >= Len(build.imp) /\ h \notin made
    BY DEF DefineTable, BuildModes
  <1>2. a \in Addr /\ s \in Seq(Handles) /\ prog[a] \in Modules /\ Len(build.imp) = i
        /\ status[a] = "building"
    BY <1>0, <1>1, BuiltModule DEF Counted
  <1>3. /\ owner' = [owner EXCEPT ![h] = a] /\ tabs' = [tabs EXCEPT ![a] = Append(s, h)]
        /\ mode' \in {"bind", "preflight"}
        /\ UNCHANGED <<status, born, births, prog, build, pub>>
        /\ slots' = [slots EXCEPT ![h] = Empty(n + 1)]
    BY <1>2 DEF DefineTable, AddTable
  <1>4. AStep
    <2>1. owner[h] = Nil /\ DOMAIN owner = Handles BY <1>0, <1>1 DEF IInv, BoundIsMade, OwnershipTypes
    <2>2. \A g \in Handles : \/ owner'[g] = owner[g]
                             \/ ~(owner[g] # Nil /\ Visible(owner[g])) /\ owner'[g] \in {Nil, build.a}
      BY <1>3, <2>1
    <2> QED BY <1>0, <1>1, <1>3, <2>2, StageStutters
  <1>5. Marked' BY <1>3, SameMarks
  <1>6. Laid'
    <2>1. tabs'[a] = Append(s, h) BY <1>0, <1>2, <1>3 DEF IInv, OwnershipTypes
    <2>2. n \in Nat /\ i \in Nat BY <1>2, TableSpace
    <2>3. /\ DOMAIN tabs'[a] = 1..(n + 1) /\ tabs'[a][n + 1] = h
          /\ \A k \in 1..n : tabs'[a][k] = s[k]
          /\ DOMAIN s = 1..n
      <3>1. s \in Seq(Handles) /\ Len(s) = n /\ tabs'[a] = Append(s, h) BY <1>2, <2>1
      <3> HIDE DEF s, n
      <3> QED BY <3>1
    <2>4. \A k \in 1..n : s[k] \in Handles /\ s[k] # h
      <3>1. \A g \in Range(s) \cap Handles : g \in made BY <1>0, <1>2, BoundExists
      <3> QED BY <1>1, <1>2, <2>3, <3>1 DEF Range
    <2>5. slots'[h] = Empty(n + 1) /\ \A g \in Handles : g # h => slots'[g] = slots[g]
      BY <1>0, <1>3 DEF Contents
    <2>6. \A k \in 1..n : k > i => slots[s[k]] = Empty(k) /\ \A j \in 1..n : s[j] = s[k] => j = k
      BY <1>1, <2>3 DEF Laid
    <2>7. prog'[build'.a] = prog[a] /\ build'.a = a BY <1>3
    <2> HIDE DEF s, n, Empty
    <2>8. ASSUME NEW k \in 1..(n + 1), k > i
          PROVE  /\ slots'[tabs'[a][k]] = Empty(k)
                 /\ \A j \in 1..(n + 1) : tabs'[a][j] = tabs'[a][k] => j = k
      <3>1. \A j \in 1..(n + 1) : j = n + 1 \/ j \in 1..n BY <2>2
      <3>2. CASE k = n + 1
        <4>1. \A j \in 1..n : tabs'[a][j] # h BY <2>3, <2>4
        <4> QED BY <2>3, <2>5, <3>1, <3>2, <4>1
      <3>3. CASE k \in 1..n
        <4>1. tabs'[a][k] = s[k] /\ s[k] # h /\ s[k] \in Handles BY <2>3, <2>4, <3>3
        <4>2. slots'[s[k]] = Empty(k) BY <2>5, <2>6, <2>8, <3>3, <4>1
        <4>3. \A j \in 1..n : tabs'[a][j] = tabs'[a][k] => j = k BY <2>3, <2>6, <2>8, <3>3
        <4> QED BY <2>3, <3>1, <4>1, <4>2, <4>3
      <3> QED BY <3>1, <3>2, <3>3
    <2> HIDE DEF a, i
    <2>9. \A k \in DOMAIN tabs'[a] : k > i =>
            /\ slots'[tabs'[a][k]] = Empty(k)
            /\ \A j \in DOMAIN tabs'[a] : tabs'[a][j] = tabs'[a][k] => j = k
      BY <2>3, <2>8
    <2>10. \A k \in DOMAIN tabs'[build'.a] : k > Len(prog'[build'.a].imports) =>
            /\ slots'[tabs'[build'.a][k]]
                 = Fill(prog'[build'.a].defines[k - Len(prog'[build'.a].imports)].min, Nil)
            /\ \A j \in DOMAIN tabs'[build'.a] : tabs'[build'.a][j] = tabs'[build'.a][k] => j = k
      BY <2>7, <2>9, Zenon DEF Empty, i
    <2> QED BY <2>10 DEF Laid
  <1> QED BY <1>3, <1>4, <1>5, <1>6 DEF Applied

LEMMA PreflightRefines ==
    ASSUME LInv, Marked, Laid, Preflight
    PROVE  AStep /\ Marked' /\ Laid' /\ Applied'
  <1>0. IInv /\ Contents /\ Staged BY DEF LInv
  <1>1. mode = "preflight" /\ mode \in BuildModes BY DEF Preflight, BuildModes
  <1>2. ASSUME NEW err, Abort(err) PROVE AStep /\ Marked' /\ Laid' /\ Applied'
    BY <1>1, <1>2, AbortRefines
  <1>3. CASE /\ mode' = "data" /\ build' = [build EXCEPT !.k = 1]
             /\ UNCHANGED <<instVars, tableVars, embedVars, stack, result, pub>>
    <2>1. UNCHANGED <<status, born, births, prog, tabs, slots, owner, mem, pub>>
      BY <1>3 DEF instVars, tableVars
    <2>2. AStep BY <1>0, <1>1, <2>1, StageStutters
    <2>3. Marked' BY <2>1, SameMarks
    <2>4. PICK a, m, ts : a = build.a /\ m = prog[a] /\ ts = tabs[a] OBVIOUS
    <2>5. build'.a = a /\ build'.k = 1 /\ prog'[a] = m /\ tabs'[a] = ts
      BY <1>0, <1>3, <2>1, <2>4 DEF IInv, OwnershipTypes, Build
    <2>6. slots = Atomic!Before(m, ts) BY <1>1, <2>4, BeforeSegments
    <2>7. mem = Atomic!MemoriesAfter({}, m)
      <3>1. pub.mem \in [Mems -> Seq(Bytes)] /\ mem = pub.mem BY <1>0, <1>1 DEF Staged
      <3> QED BY <3>1, NoneApplied
    <2>8. /\ slots' = Atomic!Before(m, ts)'
          /\ mem' = Atomic!MemoriesAfter({}, m)'
      BY <2>1, <2>6, <2>7, SameAbstraction
    <2>9. m.data \in Seq([mem : Mems, off : Nat, bytes : Seq(Bytes)])
      <3>1. m \in Modules BY <1>0, <1>1, <2>4, BuiltModule
      <3> QED BY <3>1, FunctionsOf DEF ModuleType
    <2>10. build'.k - 1 = 0 /\ 1..0 = {} /\ 0 <= Len(m.data) BY <2>5, <2>9
    <2>11. Applied' BY <1>3, <2>5, <2>8, <2>10 DEF Applied
    <2>12. Laid' BY <1>3 DEF Laid
    <2> QED BY <2>2, <2>3, <2>11, <2>12
  <1> QED BY <1>2, <1>3 DEF Preflight

LEMMA DataRefines ==
    ASSUME LInv, Marked, Applied, WriteData
    PROVE  AStep /\ Marked' /\ Laid' /\ Applied'
  <1>0. IInv /\ Contents /\ Staged BY DEF LInv
  <1>1. mode = "data" /\ mode \in BuildModes /\ ElementsFit(build.a)
    BY <1>0 DEF WriteData, BuildModes, Staged
  <1>2. PICK a, m, ts, n : a = build.a /\ m = prog[a] /\ ts = tabs[a] /\ n = build.k - 1 OBVIOUS
  <1>3. /\ m \in Modules /\ build.k \in Nat \ {0} /\ n \in Nat /\ build.k = n + 1
    BY <1>0, <1>1, <1>2, BuiltModule
  <1>4. m.data \in Seq([mem : Mems, off : Nat, bytes : Seq(Bytes)])
    BY <1>3, FunctionsOf DEF ModuleType
  <1>5. Len(m.data) \in Nat /\ DOMAIN m.data = 1..Len(m.data) BY <1>4
  <1>6. n <= Len(m.data) /\ slots = Atomic!Before(m, ts) /\ mem = Atomic!MemoriesAfter(1..n, m)
    BY <1>1, <1>2 DEF Applied
  <1>7. CASE build.k <= Len(m.data)
    <2> DEFINE seg == m.data[n + 1]
    <2>1. /\ mem' = [mem EXCEPT ![seg.mem] = Splice(mem[seg.mem], seg.off, seg.bytes)]
          /\ build' = [build EXCEPT !.k = build.k + 1] /\ mode' = mode
          /\ UNCHANGED <<status, born, births, prog, tabs, slots, owner, pub>>
      BY <1>2, <1>3, <1>7 DEF WriteData, instVars
    <2>2. AStep BY <1>0, <1>1, <2>1, StageStutters
    <2>3. Marked' BY <2>1, SameMarks
    <2>4. n + 1 \in DOMAIN m.data BY <1>3, <1>5, <1>7
    <2>5. seg.mem \in Mems /\ seg.off \in Nat /\ seg.bytes \in Seq(Bytes)
      BY <1>3, <2>4, DataSegment
    <2>6. pub.mem \in [Mems -> Seq(Bytes)] /\ mem \in [Mems -> Seq(Bytes)]
      BY <1>0 DEF Staged, Contents
    <2>7. mem' = Atomic!MemoriesAfter(1..(n + 1), m)
      <3>1. PICK T \in [Mems -> Seq(Bytes)], off \in Nat, bytes \in Seq(Bytes), q \in Mems :
              T = mem /\ off = seg.off /\ bytes = seg.bytes /\ q = seg.mem
        BY <2>5, <2>6
      <3>2. T = Atomic!MemoriesAfter(1..n, m) BY <1>6, <3>1
      <3>3. PICK U : U = mem' OBVIOUS
      <3>4. U = [T EXCEPT ![q] = Splice(T[q], off, bytes)] BY <2>1, <3>1, <3>3
      <3>5. off = m.data[n + 1].off /\ bytes = m.data[n + 1].bytes /\ q = m.data[n + 1].mem BY <3>1
      <3> HIDE DEF seg
      <3>6. U = Atomic!MemoriesAfter(1..(n + 1), m)
        <4>1. PICK x \in Nat : x = n BY <1>3
        <4>2. pub.mem \in [Mems -> Seq(Bytes)] /\ T = Atomic!MemoriesAfter(1..x, m) BY <2>6, <3>2, <4>1
        <4>3. off = m.data[x + 1].off /\ bytes = m.data[x + 1].bytes /\ q = m.data[x + 1].mem
          BY <3>5, <4>1
        <4>4. U = Atomic!MemoriesAfter(1..(x + 1), m)
          BY <3>4, <4>2, <4>3, MemoriesStep
        <4> QED BY <4>1, <4>4
      <3> QED BY <3>3, <3>6
    <2>8. build'.a = a /\ build'.k = n + 2 /\ prog'[a] = m /\ tabs'[a] = ts
      BY <1>0, <1>2, <1>3, <2>1 DEF IInv, OwnershipTypes, Build
    <2>9. build'.k - 1 = n + 1 /\ n + 1 <= Len(m.data) BY <1>3, <1>7, <2>8
    <2>10. slots' = Atomic!Before(m, ts)' /\ mem' = Atomic!MemoriesAfter(1..(n + 1), m)'
      BY <1>6, <2>1, <2>7, SameAbstraction
    <2>11. Applied' BY <1>1, <2>1, <2>8, <2>9, <2>10 DEF Applied
    <2>12. Laid' BY <1>1, <2>1 DEF Laid
    <2> QED BY <2>2, <2>3, <2>11, <2>12
  <1>8. CASE ~(build.k <= Len(m.data))
    <2>1. /\ mode' = "elements" /\ build' = [build EXCEPT !.k = 1]
          /\ UNCHANGED <<status, born, births, prog, tabs, slots, owner, mem, pub>>
      BY <1>1, <1>2, <1>8 DEF WriteData, instVars, tableVars
    <2>2. AStep BY <1>0, <1>1, <2>1, StageStutters
    <2>3. Marked' BY <2>1, SameMarks
    <2>4. 1..n = DOMAIN m.data
      <3>1. n = Len(m.data) BY <1>3, <1>5, <1>6, <1>8
      <3> QED BY <1>5, <3>1
    <2>5. build'.a = a /\ build'.k = 1 /\ prog'[a] = m /\ tabs'[a] = ts
      BY <1>0, <1>2, <2>1 DEF IInv, OwnershipTypes, Build
    <2>6. PICK b : b = born[a] OBVIOUS
    <2>7. slots = Atomic!TablesAfter({}, m, ts, a, b)
      <3>1. Atomic!Before(m, ts) \in [Handles -> Seq(GoodRefs)] BY <1>0, <1>6 DEF Contents
      <3> QED BY <1>6, <3>1, NoneApplied
    <2>8. /\ slots' = Atomic!TablesAfter({}, m, ts, a, b)'
          /\ mem' = Atomic!MemoriesAfter(DOMAIN m.data, m)'
      BY <1>6, <2>1, <2>4, <2>7, SameAbstraction
    <2>9. m.active \in Seq([t : Nat, off : Nat, fns : Seq(Nat \cup {Nil})])
      BY <1>3, FunctionsOf DEF ModuleType
    <2>10. build'.k - 1 = 0 /\ 1..0 = {} /\ 0 <= Len(m.active) /\ born'[a] = b BY <2>1, <2>5, <2>6, <2>9
    <2>11. Applied' BY <2>1, <2>5, <2>8, <2>10 DEF Applied
    <2>12. Laid' BY <2>1 DEF Laid
    <2> QED BY <2>2, <2>3, <2>11, <2>12
  <1> QED BY <1>7, <1>8

LEMMA ElementsRefine ==
    ASSUME LInv, Marked, Applied, WriteElements
    PROVE  AStep /\ Marked' /\ Laid' /\ Applied'
  <1>0. IInv /\ Contents /\ Staged BY DEF LInv
  <1>1. mode = "elements" /\ mode \in BuildModes /\ build.k <= Len(prog[build.a].active)
    BY DEF WriteElements, BuildModes
  <1>2. PICK a, m, ts, n, b : a = build.a /\ m = prog[a] /\ ts = tabs[a] /\ n = build.k - 1 /\ b = born[a]
    OBVIOUS
  <1>3. /\ m \in Modules /\ build.k \in Nat \ {0} /\ n \in Nat /\ build.k = n + 1 /\ b \in Nat
    BY <1>0, <1>1, <1>2, BuiltModule
  <1> DEFINE seg == m.active[n + 1]
             h == ts[seg.t]
  <1>4. /\ SegmentFits(a, seg) /\ ~BoundElsewhere(h, a) /\ h \in made /\ owner[h] = a
        /\ seg.off \in Nat /\ seg.fns \in Seq(Funcs(m) \cup {Nil})
    BY <1>0, <1>1, <1>2, <1>3, NothingLeftToFail
  <1>5. /\ slots' = [slots EXCEPT ![h] = Splice(slots[h], seg.off, OwnRefs(a, seg.fns))]
        /\ owner' = owner \/ owner' = [owner EXCEPT ![h] = a]
        /\ build' = [build EXCEPT !.k = build.k + 1] /\ mode' = mode
        /\ UNCHANGED <<status, born, births, prog, tabs, mem, pub>>
    BY <1>2, <1>3, <1>4 DEF WriteElements, instVars
  <1>6. n <= Len(m.active) /\ slots = Atomic!TablesAfter(1..n, m, ts, a, b)
        /\ mem = Atomic!MemoriesAfter(DOMAIN m.data, m)
    BY <1>1, <1>2 DEF Applied
  <1>7. AStep
    <2>1. \A g \in Handles : owner'[g] = owner[g]
      <3> HIDE DEF h
      <3> QED BY <1>0, <1>4, <1>5 DEF IInv, OwnershipTypes
    <2> QED BY <1>0, <1>1, <1>5, <2>1, StageStutters
  <1>8. Marked' BY <1>5, SameMarks
  <1>9. h \in Handles BY <1>0, <1>4, MadeHandles
  <1>10. seg.fns \in Seq(Nat \cup {Nil})
    <2>1. Funcs(m) \subseteq Nat BY <1>3, FunctionsOf
    <2>2. \A k \in DOMAIN seg.fns : seg.fns[k] \in Nat \cup {Nil}
      <3> HIDE DEF seg
      <3> QED BY <1>4, <2>1
    <2> HIDE DEF seg
    <2> QED BY <1>4, <2>2, SeqOver
  <1>11. slots \in [Handles -> Seq(GoodRefs)] BY <1>0 DEF Contents
  <1>12. slots' = Atomic!TablesAfter(1..(n + 1), m, ts, a, b)
    <2>1. PICK T \in [Handles -> Seq(GoodRefs)], off \in Nat, fns \in Seq(Nat \cup {Nil}), g \in Handles :
            T = slots /\ off = seg.off /\ fns = seg.fns /\ g = h
      BY <1>4, <1>9, <1>10, <1>11
    <2>2. PICK U : U = slots' OBVIOUS
    <2>3. PICK x \in Nat, y \in Nat : x = n /\ y = b BY <1>3
    <2>4. NextSegment(T, x, m, ts, a, y, g, off, fns)
      BY <1>2, <1>6, <2>1, <2>3 DEF NextSegment
    <2>5. Atomic!TablesAfter(1..(x + 1), m, ts, a, y) = Written(T, a, g, off, fns)
      BY <2>4, TablesStep
    <2>6. PICK W : W = Splice(T[g], off, OwnRefs(a, fns)) OBVIOUS
    <2>7. U = [T EXCEPT ![g] = W] BY <1>5, <2>1, <2>2, <2>6
    <2>8. U = Written(T, a, g, off, fns) BY <2>6, <2>7 DEF Written
    <2> QED BY <2>2, <2>3, <2>5, <2>8
  <1> HIDE DEF seg, h
  <1>13. build'.a = a /\ build'.k = n + 2 /\ prog'[a] = m /\ tabs'[a] = ts /\ born'[a] = b
    BY <1>0, <1>2, <1>3, <1>5 DEF IInv, OwnershipTypes, Build
  <1>14. build'.k - 1 = n + 1 /\ n + 1 <= Len(m.active)
    <2>1. n + 1 <= Len(m.active) BY <1>1, <1>2, <1>3
    <2> QED BY <1>3, <1>13, <2>1
  <1>15. /\ slots' = Atomic!TablesAfter(1..(n + 1), m, ts, a, b)'
         /\ mem' = Atomic!MemoriesAfter(DOMAIN m.data, m)'
    BY <1>5, <1>6, <1>12, SameAbstraction
  <1>16. Applied' BY <1>1, <1>5, <1>13, <1>14, <1>15 DEF Applied
  <1>17. Laid' BY <1>1, <1>5 DEF Laid
  <1> QED BY <1>7, <1>8, <1>16, <1>17

\* The end of with_config is the abstract link step.
LEMMA CommitRefines ==
    ASSUME LInv, Marked, Applied, Commit
    PROVE  AStep /\ Marked' /\ Laid' /\ Applied'
  <1>0. IInv /\ Contents BY DEF LInv
  <1>1. mode = "elements" /\ mode \in BuildModes /\ build.k > Len(prog[build.a].active)
    BY DEF Commit, BuildModes
  <1>2. PICK a, m, ts, n, b : a = build.a /\ m = prog[a] /\ ts = tabs[a] /\ n = build.k - 1 /\ b = born[a]
    OBVIOUS
  <1>3. /\ a \in Addr /\ status[a] = "building" /\ m \in Modules /\ build.k \in Nat \ {0} /\ n \in Nat
        /\ ts \in Seq(Handles) /\ Len(ts) = TableCount(m) /\ b \in 1..MaxBirths
    BY <1>0, <1>1, <1>2, BuiltModule DEF IInv, Building, Marked
  <1>4. /\ UNCHANGED <<born, births, prog, tabs, slots, mem, owner>>
        /\ pub' = [slots |-> slots, mem |-> mem] /\ mode' \in {"host", "guest"}
        /\ \/ status' = [status EXCEPT ![a] = "starting"]
           \/ status' = [status EXCEPT ![a] = "live"]
    BY <1>2 DEF Commit, tableVars
  <1>5. /\ n <= Len(m.active) /\ slots = Atomic!TablesAfter(1..n, m, ts, a, b)
        /\ mem = Atomic!MemoriesAfter(DOMAIN m.data, m)
    BY <1>1, <1>2 DEF Applied
  <1>6. 1..n = DOMAIN m.active
    <2>1. m.active \in Seq([t : Nat, off : Nat, fns : Seq(Nat \cup {Nil})])
      BY <1>3, FunctionsOf DEF ModuleType
    <2>2. Len(m.active) \in Nat /\ DOMAIN m.active = 1..Len(m.active) BY <2>1
    <2>3. build.k > Len(m.active) BY <1>1, <1>2
    <2>4. n = Len(m.active) BY <1>2, <1>3, <1>5, <2>2, <2>3
    <2> QED BY <2>2, <2>4
  <1>7. ~Visible(a) /\ Visible(a)' /\ a # Nil
    BY <1>0, <1>3, <1>4, NilAssumption DEF Visible, IInv, OwnershipTypes
  <1>8. \A c \in Addr : c # a => (Visible(c)' <=> Visible(c))
    BY <1>0, <1>3, <1>4 DEF Visible, IInv, OwnershipTypes
  <1>9. a \notin Insts /\ Insts' = Insts \cup {a} BY <1>3, <1>7, <1>8 DEF Insts
  <1>10. \A h \in Handles : owner[h] = a <=> h \in Range(ts)
    BY <1>0, <1>2, <1>3 DEF IInv, BindingExact
  <1>11. Range(ts) \subseteq Handles BY <1>3 DEF Range
  <1>12. \A h \in Range(ts) : Bound[h] = Nil BY <1>7, <1>10, <1>11 DEF Bound
  <1>13. Bound' = [h \in Handles |-> IF h \in Range(ts) THEN a ELSE Bound[h]]
    <2>1. ASSUME NEW h \in Handles
          PROVE  (IF owner[h] # Nil /\ Visible(owner[h]) THEN owner[h] ELSE Nil)'
                   = IF h \in Range(ts) THEN a ELSE Bound[h]
      <3>1. Bound[h] = IF owner[h] # Nil /\ Visible(owner[h]) THEN owner[h] ELSE Nil BY DEF Bound
      <3>2. owner[h] \in Addr \cup {Nil} BY <1>0 DEF IInv, OwnershipTypes
      <3>3. CASE owner[h] = a BY <1>4, <1>7, <1>10, <3>3 DEF Visible
      <3>4. CASE owner[h] = Nil BY <1>4, <1>7, <1>10, <3>1, <3>4
      <3>5. CASE owner[h] # a /\ owner[h] # Nil
        <4>1. Visible(owner[h])' <=> Visible(owner[h]) BY <1>4, <1>8, <3>2, <3>5 DEF Visible
        <4> QED BY <1>4, <1>10, <3>1, <3>5, <4>1
      <3> QED BY <3>3, <3>4, <3>5
    <2> QED BY <2>1 DEF Bound
  <1>14. Atomic!Link(a, m, ts, b)
    <2>1. pub'.slots = Atomic!TablesAfter(DOMAIN m.active, m, ts, a, b)
      BY <1>4, <1>5, <1>6
    <2>2. pub'.mem = Atomic!MemoriesAfter(DOMAIN m.data, m) BY <1>4, <1>5
    <2>3. Atomic!Range(ts) = Range(ts) BY DEF Atomic!Range, Range
    <2> QED BY <1>12, <1>13, <2>1, <2>2, <2>3 DEF Atomic!Link, Bound
  <1>15. ts \in [1..(Len(m.imports) + Len(m.defines)) -> Handles]
    <2>1. Len(ts) = Len(m.imports) + Len(m.defines) BY <1>3, TableSpace
    <2>2. ts \in [1..Len(ts) -> Handles] BY <1>3
    <2> QED BY <2>1, <2>2
  <1>16. AStep BY <1>3, <1>9, <1>14, <1>15 DEF AStep, Atomic!Next, Insts
  <1>17. Marked' BY <1>0, <1>3, <1>4, SameMarks DEF IInv, OwnershipTypes
  <1> QED BY <1>4, <1>16, <1>17 DEF Laid, Applied

\* The beginning of with_config is invisible.
LEMMA BeginRefines ==
    ASSUME LInv, Marked, Begin
    PROVE  AStep /\ Marked' /\ Laid' /\ Applied'
  <1>0. IInv /\ Contents BY DEF LInv
  <1> PICK m \in Modules, a \in Addr : \E imp \in [1..Len(m.imports) -> Known] : Instantiate(m, a, imp)
    BY DEF Begin
  <1> PICK imp \in [1..Len(m.imports) -> Known] : Instantiate(m, a, imp) OBVIOUS
  <1>1. /\ UNCHANGED <<tabs, owner, pub>> /\ mode = "host" /\ status[a] = "free"
        /\ births < MaxBirths /\ births' = births + 1
    BY DEF Instantiate, tableVars
  <1>2. births \in Nat /\ births' \in 0..MaxBirths /\ births' \in 1..MaxBirths
    BY <1>1, BoundsAssumption DEF Marked
  <1>3. DOMAIN status = Addr /\ DOMAIN born = Addr BY <1>0 DEF IInv, OwnershipTypes, Contents
  <1>4. CASE /\ status' = [status EXCEPT ![a] = "building"] /\ born' = [born EXCEPT ![a] = births + 1]
             /\ mode' \in {"bind", "preflight"} /\ build' = [a |-> a, imp |-> imp, k |-> 1]
    <2>1. \A c \in Addr : Visible(c)' <=> Visible(c) BY <1>1, <1>3, <1>4 DEF Visible
    <2>2. Insts' = Insts /\ Bound' = Bound BY <1>0, <1>1, <2>1, SameInstances
    <2>3. AStep BY <1>1, <2>2, Stutters
    <2>4. Marked' BY <1>1, <1>2, <1>3, <1>4 DEF Marked
    <2>5. build'.a = a /\ tabs'[a] = <<>> BY <1>0, <1>1, <1>4 DEF IInv, FreeIsEmpty
    <2>6. DOMAIN tabs'[build'.a] = {} BY <2>5
    <2>7. Laid' BY <2>6 DEF Laid
    <2> QED BY <1>4, <2>3, <2>4, <2>7 DEF Applied
  <1>5. CASE UNCHANGED <<status, born, mode, build>>
    <2>1. Insts' = Insts /\ Bound' = Bound BY <1>0, <1>1, <1>5, SameInstances DEF Visible
    <2>2. AStep BY <1>1, <2>1, Stutters
    <2>3. Marked' BY <1>2, <1>5 DEF Marked
    <2> QED BY <1>1, <1>5, <2>2, <2>3 DEF Laid, Applied
  <1> QED BY <1>4, <1>5 DEF Instantiate

LEMMA StepRefines == RInv /\ [Next]_vars => RInv' /\ AStep
  <1> SUFFICES ASSUME RInv, [Next]_vars PROVE RInv' /\ AStep OBVIOUS
  <1>0. LInv /\ Marked /\ Laid /\ Applied /\ LInv' BY StepLInv DEF RInv
  <1>1. AStep /\ Marked' /\ Laid' /\ Applied'
    <2>1. CASE Begin BY <1>0, <2>1, BeginRefines
    <2>2. CASE BuildStep
      <3>1. CASE DefineFails BY <1>0, <3>1, AbortRefines DEF DefineFails, BuildModes
      <3> QED BY <1>0, <2>2, <3>1, BindRefines, DefineRefines, PreflightRefines, DataRefines,
                 ElementsRefine, CommitRefines DEF BuildStep
    <2>3. CASE mode = "guest" /\ GuestStep /\ Publish
      <3>1. mode' \in {"host", "guest"} BY <2>3, GuestModes
      <3> QED BY <1>0, <2>3, <3>1, GuestRefines DEF Laid, Applied
    <2>4. CASE HostStep /\ Publish
      <3>1. mode' \in {"host", "guest"} BY <2>4, HostModes
      <3> QED BY <1>0, <2>4, <3>1, HostRefines DEF Laid, Applied
    <2>5. CASE UNCHANGED vars
      <3>1. UNCHANGED <<status, born, births, prog, tabs, slots, owner, mem, mode, build, pub>>
        BY <2>5 DEF vars, instVars, tableVars, runVars
      <3>2. Insts' = Insts /\ Bound' = Bound BY <3>1 DEF Insts, Bound, Visible
      <3>3. AStep BY <3>1, <3>2, Stutters
      <3>4. Marked' BY <1>0, <3>1 DEF Marked
      <3>5. Laid' BY <1>0, <3>1 DEF Laid
      <3>6. Applied'
        <4>1. PICK a, m, ts, n, b : a = build.a /\ m = prog[a] /\ ts = tabs[a] /\ n = build.k - 1 /\ b = born[a]
          OBVIOUS
        <4>2. build'.a = a /\ prog'[a] = m /\ tabs'[a] = ts /\ build'.k - 1 = n /\ born'[a] = b
          BY <3>1, <4>1
        <4>3. /\ Atomic!Before(m, ts)' = Atomic!Before(m, ts)
              /\ Atomic!MemoriesAfter(1..n, m)' = Atomic!MemoriesAfter(1..n, m)
              /\ Atomic!MemoriesAfter(DOMAIN m.data, m)' = Atomic!MemoriesAfter(DOMAIN m.data, m)
              /\ Atomic!TablesAfter(1..n, m, ts, a, b)' = Atomic!TablesAfter(1..n, m, ts, a, b)
          BY <3>1, SameAbstraction
        <4> QED BY <1>0, <3>1, <4>1, <4>2, <4>3 DEF Applied
      <3> QED BY <3>3, <3>4, <3>5, <3>6
    <2> QED BY <2>1, <2>2, <2>3, <2>4, <2>5 DEF Next
  <1> QED BY <1>0, <1>1 DEF RInv

LEMMA InitRefines == Init => RInv /\ Atomic!Init
  <1> SUFFICES ASSUME Init PROVE RInv /\ Atomic!Init OBVIOUS
  <1>1. LInv BY InitLInv
  <1>2. Marked BY BoundsAssumption DEF Init, Marked
  <1>3. Laid /\ Applied BY DEF Init, Laid, Applied
  <1>4. {a \in Addr : Visible(a)} = {} BY DEF Init, Visible
  <1>5. [h \in Handles |-> IF owner[h] # Nil /\ Visible(owner[h]) THEN owner[h] ELSE Nil]
          = [h \in Handles |-> Nil]
    BY DEF Init
  <1>6. pub.slots = [h \in Handles |-> <<>>] BY DEF Init
  <1> QED BY <1>1, <1>2, <1>3, <1>4, <1>5, <1>6 DEF RInv, Atomic!Init

\* with_config, with its separate stages and its failures in between, nested in
\* host functions or not, implements indivisible linking.
THEOREM StagedLinkingIsAtomic == Spec => ImplementsAtomicLinking
  <1>1. Init => RInv /\ Atomic!Init BY InitRefines
  <1>2. RInv /\ [Next]_vars => RInv' /\ [Atomic!Next]_(Atomic!vars) BY StepRefines DEF AStep
  <1> QED BY <1>1, <1>2, PTL DEF Spec, ImplementsAtomicLinking, Atomic!Spec
=============================================================================
