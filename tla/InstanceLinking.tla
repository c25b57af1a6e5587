-------------------------- MODULE InstanceLinking --------------------------
(***************************************************************************)
(* Instances, the table handles they share with the embedder, and the      *)
(* opaque function references stored in them                               *)
(* (crates/wasm-runtime/src/lib.rs).                                       *)
(*                                                                         *)
(* The runtime is single threaded, but it is reentrant: a host function    *)
(* called by a guest may instantiate modules, invoke exports of other      *)
(* instances, drop them and use any table handle it has kept.  `stack`     *)
(* holds the instances with an invocation under way, innermost last, and   *)
(* `mode` says who runs: the embedder ("host"), the guest code of the      *)
(* innermost instance ("guest"), or one of the stages of                   *)
(* Instance::with_config.                                                  *)
(*                                                                         *)
(* An instance is known by the address of its identity cell, an Rc<()>.    *)
(* Table bindings and function references hold Weak pointers to that cell. *)
(* Rust reuses an address only when neither an Rc nor a Weak refers to it; *)
(* `born` is a history variable that tells the incarnations of an address  *)
(* apart, and `origin` in a reference is the incarnation that created it.  *)
(***************************************************************************)
EXTENDS Integers, Sequences, Functions

CONSTANTS
    Addr,         \* addresses of identity cells
    Handles,      \* table backing stores
    Mems,         \* host memory handles
    Modules,      \* validated modules, as the records ModuleType describes
    Types,        \* function types
    Bytes,        \* values of a memory cell
    InitMem,      \* what the host memories hold at first
    Limits,       \* the [min, max] pairs the embedder creates tables with
    MaxLen,       \* u32::MAX, scaled down
    MaxBirths,    \* bound on the number of instantiations
    RefGlobals,   \* the embedder writes exported funcref globals
    Nil           \* None: a null reference, an unbound table

\* `maximum: None` compares as a maximum above every u32.
NoMax == MaxLen + 1

LimitType == [min : 0..MaxLen, max : 0..NoMax]

\* What a module says about linking.  Table indices are 1-based here: the
\* imported tables first, then the defined ones.  A function index f is
\* 0-based and has type sigs[f + 1].
ModuleType == [imports : Seq(LimitType),
               defines : Seq(LimitType),
               sigs    : Seq(Types),
               active  : Seq([t : Nat, off : Nat, fns : Seq(Nat \cup {Nil})]),
               passive : Seq(Seq(Nat \cup {Nil})),
               data    : Seq([mem : Mems, off : Nat, bytes : Seq(Bytes)]),
               global  : Nat \cup {Nil},
               mutable : BOOLEAN,
               start   : BOOLEAN]

TableCount(m) == Len(m.imports) + Len(m.defines)

Funcs(m) == 0..(Len(m.sigs) - 1)

\* What wasm_validator::validate has established about a module.
Validated(m) ==
    /\ \A k \in DOMAIN m.defines : m.defines[k].min <= m.defines[k].max
    /\ \A k \in DOMAIN m.active :
         /\ m.active[k].t \in 1..TableCount(m)
         /\ \A j \in DOMAIN m.active[k].fns :
              m.active[k].fns[j] \in Funcs(m) \cup {Nil}
    /\ \A k \in DOMAIN m.passive : \A j \in DOMAIN m.passive[k] :
         m.passive[k][j] \in Funcs(m) \cup {Nil}
    /\ m.global \in Funcs(m) \cup {Nil}

ASSUME BoundsAssumption == MaxLen \in Nat /\ MaxBirths \in Nat
ASSUME FlagAssumption == RefGlobals \in BOOLEAN
ASSUME LimitsAssumption == /\ Limits \subseteq LimitType
                           /\ \A l \in Limits : l.min <= l.max
ASSUME ModulesAssumption == \A m \in Modules : m \in ModuleType /\ Validated(m)
ASSUME MemAssumption == InitMem \in [Mems -> Seq(Bytes)]
ASSUME NilAssumption == Nil \notin Addr \cup Nat \cup [fn : Nat, origin : Nat]

VARIABLES
    status,   \* of an identity: "free", "building", "starting" or "live"
    born,     \* incarnation of the instance at an address (history)
    births,   \* instantiations begun so far
    prog,     \* Instance::module
    tabs,     \* Instance::tables
    elems,    \* Instance::element_segments
    glob,     \* the value of the instance's exported funcref global
    made,     \* the table backing stores that exist
    slots,    \* TableHandle::slots
    tmax,     \* TableHandle::maximum
    owner,    \* TableHandle::owner
    mem,      \* bytes of the host memories
    held,     \* a FunctionRef the embedder has kept
    heldVal,  \* a Value::FuncRef the embedder has read from a global
    stack,    \* instances with an invocation under way
    mode,     \* who runs
    build,    \* the instantiation under way: its identity and its imports
    result,   \* how the last operation ended
    pub       \* tables and memories as of the last completed operation

instVars  == <<status, born, births, prog, tabs, elems, glob>>
tableVars == <<made, slots, tmax, owner, mem>>
embedVars == <<held, heldVal>>
runVars   == <<stack, mode, build, result>>
vars == <<instVars, tableVars, embedVars, runVars, pub>>

BuildModes == {"bind", "preflight", "data", "elements"}

Value == [fn : Nat, origin : Nat] \cup {Nil}
Ref   == [owner : Addr, fn : Nat, origin : Nat] \cup {Nil}
Build == [a : Addr \cup {Nil}, imp : Seq(Handles), k : Nat]
NoBuild == [a |-> Nil, imp |-> <<>>, k |-> 0]

-----------------------------------------------------------------------------
\* Helpers

\* s with w written over it from the 0-based position d on.
Splice(s, d, w) ==
    [k \in 1..Len(s) |-> IF d < k /\ k <= d + Len(w) THEN w[k - d] ELSE s[k]]

Fill(n, v) == [k \in 1..n |-> v]

\* Weak::upgrade succeeds.
Upgrades(a) == a # Nil /\ status[a] # "free"

\* The identity a has a Weak pointer to it, so its address is not reused.
Pinned(a) ==
    \/ \E h \in Handles : owner[h] = a
    \/ \E h \in Handles : \E k \in DOMAIN slots[h] :
         slots[h][k] # Nil /\ slots[h][k].owner = a
    \/ held # Nil /\ held.owner = a

\* Rc::downgrade(&self.identity) attached to a reference operand.
Mint(a, v) == IF v = Nil THEN Nil
              ELSE [owner |-> a, fn |-> v.fn, origin |-> v.origin]

\* A reference operand to one of the instance's own functions.
OwnVal(a, f) == IF f = Nil THEN Nil ELSE [fn |-> f, origin |-> born[a]]

OwnRefs(a, fns) == [k \in DOMAIN fns |-> Mint(a, OwnVal(a, fns[k]))]

\* Mutant: the identity of the owner is not compared.
FunctionIndexFor_AnyLiveOwner(a, h, i) ==
    IF i >= Len(slots[h]) THEN "TableElementOutOfBounds"
    ELSE IF slots[h][i + 1] = Nil THEN "Null"
    ELSE IF ~Upgrades(slots[h][i + 1].owner) THEN "ForeignTableFunctionReference"
    ELSE "Ok"

\* TableHandle::function_index_for_instance
FunctionIndexFor(a, h, i) ==
    IF i >= Len(slots[h]) THEN "TableElementOutOfBounds"
    ELSE IF slots[h][i + 1] = Nil THEN "Null"
    ELSE IF ~Upgrades(slots[h][i + 1].owner) \/ slots[h][i + 1].owner # a
         THEN "ForeignTableFunctionReference"
    ELSE "Ok"

\* Instance::resolve_indirect_callee
ResolveIndirect(a, ty, h, i) ==
    LET out == FunctionIndexFor(a, h, i) IN
    IF out = "Null" THEN "UninitializedTableElement"
    ELSE IF out # "Ok" THEN out
    ELSE IF slots[h][i + 1].fn \notin Funcs(prog[a]) THEN "FunctionOutOfBounds"
    ELSE IF prog[a].sigs[slots[h][i + 1].fn + 1] # ty
         THEN "IndirectCallTypeMismatch"
    ELSE "Ok"

\* The references table.get can read from the tables of instance a.
Readable(a) ==
    UNION {{slots[tabs[a][t]][i + 1] :
              i \in {j \in 0..(Len(slots[tabs[a][t]]) - 1) :
                        FunctionIndexFor(a, tabs[a][t], j) = "Ok"}} :
           t \in DOMAIN tabs[a]}

\* The reference operands guest code of instance a can produce: ref.null,
\* ref.func, global.get and table.get.
Operands(a) == {Nil, glob[a]}
               \cup {OwnVal(a, f) : f \in Funcs(prog[a])}
               \cup {[fn |-> r.fn, origin |-> r.origin] : r \in Readable(a)}

\* The tables instance a defines itself.
Defined(a) == {tabs[a][k] : k \in {j \in DOMAIN tabs[a] : j > Len(prog[a].imports)}}

\* The handles the embedder can have: the ones it created, and those exported
\* by an instance that with_config has returned.
Known == made \ UNION {Defined(a) : a \in {b \in Addr : status[b] \in {"building", "starting"}}}

\* Dropping an instance releases its identity and its table handles.
DropInstance(a) ==
    /\ status' = [status EXCEPT ![a] = "free"]
    /\ tabs' = [tabs EXCEPT ![a] = <<>>]
    /\ elems' = [elems EXCEPT ![a] = <<>>]
    /\ glob' = [glob EXCEPT ![a] = Nil]
    /\ born' = [born EXCEPT ![a] = 0]
    /\ prog' = [prog EXCEPT ![a] = Nil]
    /\ births' = births

\* The backing stores H go away with the last clone of their handles.
Release(H) ==
    /\ made' = made \ H
    /\ slots' = [h \in Handles |-> IF h \in H THEN <<>> ELSE slots[h]]
    /\ owner' = [h \in Handles |-> IF h \in H THEN Nil ELSE owner[h]]
    /\ tmax' = [h \in Handles |-> IF h \in H THEN 0 ELSE tmax[h]]

-----------------------------------------------------------------------------
\* Instance::with_config, stage by stage.  Nothing else runs between the
\* stages: no callback is made before the start function.

\* validate_table_limits
LimitsMatch(lim, h) == Len(slots[h]) >= lim.min /\ tmax[h] <= lim.max
\* With an expected maximum of None every handle matches: tmax[h] <= NoMax.

\* validate_host_bindings, then the identity cell is allocated.
Instantiate(m, a, imp) ==
    /\ mode = "host" /\ births < MaxBirths
    /\ status[a] = "free" /\ ~Pinned(a)
    /\ births' = births + 1
    /\ IF \A k \in DOMAIN imp : LimitsMatch(m.imports[k], imp[k])
       THEN /\ status' = [status EXCEPT ![a] = "building"]
            /\ born' = [born EXCEPT ![a] = births + 1]
            /\ prog' = [prog EXCEPT ![a] = m]
            /\ elems' = [elems EXCEPT ![a] = m.passive]
            /\ glob' = [glob EXCEPT ![a] =
                          IF m.global = Nil THEN Nil
                          ELSE [fn |-> m.global, origin |-> births + 1]]
            /\ mode' = IF TableCount(m) = 0 THEN "preflight" ELSE "bind"
            /\ build' = [a |-> a, imp |-> imp, k |-> 1]
            /\ result' = "ok"
            /\ UNCHANGED tabs
       ELSE /\ result' = "HostTableLimitsMismatch"
            /\ UNCHANGED <<status, born, prog, tabs, elems, glob, mode, build>>
    /\ UNCHANGED <<tableVars, embedVars, stack, pub>>

\* An error return of with_config before the start function: the instance is
\* dropped, and with it the tables it defined, which nobody else has seen.
Abort(err) ==
    /\ DropInstance(build.a)
    /\ Release(Defined(build.a))
    /\ mode' = "host"
    /\ result' = err
    /\ build' = NoBuild
    /\ UNCHANGED <<mem, embedVars, stack, pub>>

\* Mutant: a binding left by a dropped instance is not replaced.
AddTable_KeepsDeadBinding(h) == LET a == build.a IN
    /\ owner' = IF owner[h] = Nil THEN [owner EXCEPT ![h] = a] ELSE owner
    /\ tabs' = [tabs EXCEPT ![a] = Append(@, h)]
    /\ mode' = IF Len(tabs[a]) + 1 = TableCount(prog[a])
               THEN "preflight" ELSE "bind"
    /\ UNCHANGED <<status, born, births, prog, elems, glob, mem,
                   embedVars, stack, build, result, pub>>


\* Taking the n-th entry of the table index space moves on to the next stage
\* when it was the last one.
AddTable(h) == LET a == build.a IN
    /\ owner' = [owner EXCEPT ![h] = a]
    /\ tabs' = [tabs EXCEPT ![a] = Append(@, h)]
    /\ mode' = IF Len(tabs[a]) + 1 = TableCount(prog[a])
               THEN "preflight" ELSE "bind"
    /\ UNCHANGED <<status, born, births, prog, elems, glob, mem,
                   embedVars, stack, build, result, pub>>

\* Mutant: a table is rebound whoever has it.
BoundElsewhere_Never(h, a) == FALSE

\* TableHandle::bind refuses: the table belongs to another live instance.
BoundElsewhere(h, a) == Upgrades(owner[h]) /\ owner[h] # a

\* instantiate_tables, an imported table.
BindImport == LET a == build.a
                  h == build.imp[Len(tabs[a]) + 1] IN
    /\ mode = "bind" /\ Len(tabs[a]) < Len(build.imp)
    /\ IF BoundElsewhere(h, a)
       THEN Abort("HostTableAlreadyBound")
       ELSE AddTable(h) /\ UNCHANGED <<made, slots, tmax>>

\* instantiate_tables, a defined table: TableHandle::new and bind.
DefineTable(h) == LET a == build.a
                      lim == prog[a].defines[Len(tabs[a]) + 1 - Len(build.imp)] IN
    /\ mode = "bind" /\ Len(tabs[a]) >= Len(build.imp)
    /\ h \notin made
    /\ made' = made \cup {h}
    /\ slots' = [slots EXCEPT ![h] = Fill(lim.min, Nil)]
    /\ tmax' = [tmax EXCEPT ![h] = lim.max]
    /\ AddTable(h)

\* TableHandle::new fails to allocate; imported tables are bound by now.
DefineFails ==
    /\ mode = "bind" /\ Len(tabs[build.a]) >= Len(build.imp)
    /\ Abort("TableAllocationFailed")

SegmentFits(a, seg) == seg.off + Len(seg.fns) <= Len(slots[tabs[a][seg.t]])

DataFits(seg) == seg.off + Len(seg.bytes) <= Len(mem[seg.mem])

\* Mutant: only the first segment is checked.
ElementsFit_FirstOnly(a) == \A k \in DOMAIN prog[a].active :
                                k = 1 => SegmentFits(a, prog[a].active[k])

\* preflight_element_segments
ElementsFit(a) == \A k \in DOMAIN prog[a].active : SegmentFits(a, prog[a].active[k])

\* Mutant: element segments are checked only after the data is written.
Preflight_DataOnly == LET a == build.a IN
    /\ mode = "preflight"
    /\ IF \E k \in DOMAIN prog[a].data : ~DataFits(prog[a].data[k])
       THEN Abort("DataSegmentOutOfBounds")
       ELSE /\ mode' = "data"
            /\ build' = [build EXCEPT !.k = 1]
            /\ UNCHANGED <<instVars, tableVars, embedVars, stack, result, pub>>

\* preflight_element_segments, and the first loop of initialize_data_segments,
\* which checks every active data segment.
Preflight == LET a == build.a IN
    /\ mode = "preflight"
    /\ IF ~ElementsFit(a) THEN Abort("ElementSegmentOutOfBounds")
       ELSE IF \E k \in DOMAIN prog[a].data : ~DataFits(prog[a].data[k])
       THEN Abort("DataSegmentOutOfBounds")
       ELSE /\ mode' = "data"
            /\ build' = [build EXCEPT !.k = 1]
            /\ UNCHANGED <<instVars, tableVars, embedVars, stack, result, pub>>

\* The second loop of initialize_data_segments, one segment; after the last,
\* initialize_element_segments preflights the element segments again.
WriteData == LET a == build.a IN
    /\ mode = "data"
    /\ IF build.k <= Len(prog[a].data)
       THEN LET seg == prog[a].data[build.k] IN
            /\ mem' = [mem EXCEPT ![seg.mem] = Splice(@, seg.off, seg.bytes)]
            /\ build' = [build EXCEPT !.k = @ + 1]
            /\ UNCHANGED <<instVars, made, slots, tmax, owner, embedVars,
                           stack, mode, result, pub>>
       ELSE IF ~ElementsFit(a) THEN Abort("ElementSegmentOutOfBounds")
       ELSE /\ mode' = "elements"
            /\ build' = [build EXCEPT !.k = 1]
            /\ UNCHANGED <<instVars, tableVars, embedVars, stack, result, pub>>

\* Mutant: null entries of a segment leave the slot as it is.
WriteElements_SkipsNull == LET a == build.a
                               seg == prog[a].active[build.k]
                               h == tabs[a][seg.t] IN
    /\ mode = "elements" /\ build.k <= Len(prog[a].active)
    /\ slots' = [slots EXCEPT ![h] = Splice(@, seg.off,
                    [j \in DOMAIN seg.fns |-> IF seg.fns[j] = Nil THEN @[seg.off + j]
                                              ELSE OwnRefs(a, seg.fns)[j]])]
    /\ build' = [build EXCEPT !.k = @ + 1]
    /\ UNCHANGED <<instVars, made, tmax, owner, mem, embedVars,
                   stack, mode, result, pub>>

\* initialize_element_segments, the writes of one segment.  Every write is
\* bounds checked again, and that of a function binds the table again.
WriteElements == LET a == build.a
                     seg == prog[a].active[build.k]
                     h == tabs[a][seg.t]
                     binds == \E j \in DOMAIN seg.fns : seg.fns[j] # Nil IN
    /\ mode = "elements" /\ build.k <= Len(prog[a].active)
    /\ IF ~SegmentFits(a, seg) \/ (binds /\ BoundElsewhere(h, a))
       THEN Abort("ControlInvariant")
       ELSE /\ slots' = [slots EXCEPT ![h] = Splice(@, seg.off, OwnRefs(a, seg.fns))]
            /\ owner' = IF binds THEN [owner EXCEPT ![h] = a] ELSE owner
            /\ build' = [build EXCEPT !.k = @ + 1]
            /\ UNCHANGED <<instVars, made, tmax, mem, embedVars,
                           stack, mode, result, pub>>

\* Every segment is written: the start function is entered, or the instance
\* is handed to the embedder.
Commit == LET a == build.a IN
    /\ mode = "elements" /\ build.k > Len(prog[a].active)
    /\ IF prog[a].start
       THEN /\ status' = [status EXCEPT ![a] = "starting"]
            /\ stack' = Append(stack, a)
            /\ mode' = "guest"
       ELSE /\ status' = [status EXCEPT ![a] = "live"]
            /\ mode' = "host"
            /\ UNCHANGED stack
    /\ result' = "ok"
    /\ build' = NoBuild
    /\ pub' = [slots |-> slots, mem |-> mem]
    /\ UNCHANGED <<born, births, prog, tabs, elems, glob, tableVars, embedVars>>

-----------------------------------------------------------------------------
\* Guest code of the innermost instance.  A failed instruction unwinds the
\* whole invocation.

Running == stack[Len(stack)]

\* The invocation of the innermost instance ends with an error.  An instance
\* whose start function fails is dropped by with_config.
Unwind(err) == LET a == Running IN
    /\ stack' = SubSeq(stack, 1, Len(stack) - 1)
    /\ mode' = "host"
    /\ result' = err
    /\ IF status[a] = "starting"
       THEN DropInstance(a) /\ Release(Defined(a))
       ELSE UNCHANGED <<instVars, made, slots, tmax, owner>>
    /\ UNCHANGED <<mem, embedVars, build>>

\* An instruction that completed and changed only table h.
Wrote(h, s) ==
    /\ slots' = [slots EXCEPT ![h] = s]
    /\ result' = "ok"
    /\ UNCHANGED <<instVars, made, tmax, owner, mem, embedVars, stack, mode, build>>

Instruction(t) == mode = "guest" /\ t \in DOMAIN tabs[Running]

\* table.get
TableGet(t, i) ==
    LET out == FunctionIndexFor(Running, tabs[Running][t], i) IN
    /\ Instruction(t)
    /\ IF out \in {"Ok", "Null"}
       THEN result' = "ok" /\ UNCHANGED <<instVars, tableVars, embedVars, stack, mode, build>>
       ELSE Unwind(out)

\* table.set
TableSet(t, i, v) == LET h == tabs[Running][t] IN
    /\ Instruction(t)
    /\ IF i < Len(slots[h])
       THEN Wrote(h, [slots[h] EXCEPT ![i + 1] = Mint(Running, v)])
       ELSE Unwind("TableElementOutOfBounds")

\* Mutant: the declared maximum is not consulted.
TableGrow_NoMaximum(t, d, v) == LET h == tabs[Running][t]
                                    n == Len(slots[h]) + d IN
    /\ Instruction(t)
    /\ IF n > MaxLen
       THEN result' = "-1" /\ UNCHANGED <<instVars, tableVars, embedVars, stack, mode, build>>
       ELSE Wrote(h, slots[h] \o Fill(d, Mint(Running, v)))

\* Mutant: the new length may overflow u32 when no maximum is declared.
TableGrow_MaximumOnly(t, d, v) == LET h == tabs[Running][t]
                                      n == Len(slots[h]) + d IN
    /\ Instruction(t)
    /\ IF n > tmax[h]
       THEN result' = "-1" /\ UNCHANGED <<instVars, tableVars, embedVars, stack, mode, build>>
       ELSE Wrote(h, slots[h] \o Fill(d, Mint(Running, v)))

\* table.grow: TableHandle::grow answers -1 and changes nothing when the new
\* length overflows u32 or exceeds the maximum.
TableGrow(t, d, v) == LET h == tabs[Running][t]
                          n == Len(slots[h]) + d IN
    /\ Instruction(t)
    /\ IF n > MaxLen \/ n > tmax[h]
       THEN result' = "-1" /\ UNCHANGED <<instVars, tableVars, embedVars, stack, mode, build>>
       ELSE Wrote(h, slots[h] \o Fill(d, Mint(Running, v)))

\* table.fill
TableFill(t, i, v, n) == LET h == tabs[Running][t] IN
    /\ Instruction(t)
    /\ IF i + n <= Len(slots[h])
       THEN Wrote(h, Splice(slots[h], i, Fill(n, Mint(Running, v))))
       ELSE Unwind("TableElementOutOfBounds")

\* table.copy: the source range is copied out, references of other instances
\* included, and then written.
TableCopy(t, u, i, j, n) == LET dst == tabs[Running][t]
                                src == tabs[Running][u] IN
    /\ Instruction(t) /\ Instruction(u)
    /\ IF j + n <= Len(slots[src]) /\ i + n <= Len(slots[dst])
       THEN Wrote(dst, Splice(slots[dst], i, SubSeq(slots[src], j + 1, j + n)))
       ELSE Unwind("TableElementOutOfBounds")

\* table.init
TableInit(e, t, i, j, n) == LET h == tabs[Running][t]
                                seg == elems[Running][e] IN
    /\ Instruction(t) /\ e \in DOMAIN elems[Running]
    /\ IF j + n > Len(seg) THEN Unwind("ElementSegmentSourceOutOfBounds")
       ELSE IF i + n > Len(slots[h]) THEN Unwind("TableElementOutOfBounds")
       ELSE Wrote(h, Splice(slots[h], i,
                            OwnRefs(Running, SubSeq(seg, j + 1, j + n))))

\* elem.drop
ElemDrop(e) ==
    /\ mode = "guest" /\ e \in DOMAIN elems[Running]
    /\ elems' = [elems EXCEPT ![Running][e] = <<>>]
    /\ result' = "ok"
    /\ UNCHANGED <<status, born, births, prog, tabs, glob, tableVars,
                   embedVars, stack, mode, build>>

\* global.set of the funcref global
GlobalSet(v) ==
    /\ mode = "guest" /\ prog[Running].mutable
    /\ glob' = [glob EXCEPT ![Running] = v]
    /\ result' = "ok"
    /\ UNCHANGED <<status, born, births, prog, tabs, elems, tableVars,
                   embedVars, stack, mode, build>>

\* call_indirect: a callee that is a guest function runs on in this
\* activation, so only the dispatch is visible here.
CallIndirect(ty, t, i) ==
    LET out == ResolveIndirect(Running, ty, tabs[Running][t], i) IN
    /\ Instruction(t)
    /\ IF out = "Ok"
       THEN result' = "ok" /\ UNCHANGED <<instVars, tableVars, embedVars, stack, mode, build>>
       ELSE Unwind(out)

\* A host import is called: the embedder's code runs.
CallHost ==
    /\ mode = "guest"
    /\ mode' = "host" /\ result' = "ok"
    /\ UNCHANGED <<instVars, tableVars, embedVars, stack, build>>

\* The invocation returns to the embedder's code that made it.
Return == LET a == Running IN
    /\ mode = "guest"
    /\ stack' = SubSeq(stack, 1, Len(stack) - 1)
    /\ mode' = "host" /\ result' = "ok"
    /\ status' = [status EXCEPT ![a] = "live"]
    /\ UNCHANGED <<born, births, prog, tabs, elems, glob, tableVars,
                   embedVars, build>>

\* Any other trap: unreachable, fuel, a memory access.
Trap == mode = "guest" /\ Unwind("Trap")

-----------------------------------------------------------------------------
\* The embedder, between invocations or inside a host function.

\* TableHandle::new
HostNewTable(h, lim) ==
    /\ mode = "host" /\ h \notin made
    /\ made' = made \cup {h}
    /\ slots' = [slots EXCEPT ![h] = Fill(lim.min, Nil)]
    /\ tmax' = [tmax EXCEPT ![h] = lim.max]
    /\ result' = "ok"
    /\ UNCHANGED <<instVars, owner, mem, embedVars, stack, mode, build>>

\* The embedder drops its last clone of a table no instance uses.
HostForgetTable(h) ==
    /\ mode = "host" /\ h \in Known
    /\ \A a \in Addr : \A k \in DOMAIN tabs[a] : tabs[a][k] # h
    /\ Release({h})
    /\ result' = "ok"
    /\ UNCHANGED <<instVars, mem, embedVars, stack, mode, build>>

\* TableHandle::get, keeping the reference
HostGet(h, i) ==
    /\ mode = "host" /\ h \in Known
    /\ IF i < Len(slots[h])
       THEN held' = slots[h][i + 1] /\ result' = "ok"
       ELSE held' = held /\ result' = "TableElementOutOfBounds"
    /\ UNCHANGED <<instVars, tableVars, heldVal, stack, mode, build>>

\* TableHandle::set, of the kept reference or of None
HostSet(h, i, r) ==
    /\ mode = "host" /\ h \in Known
    /\ IF i < Len(slots[h])
       THEN slots' = [slots EXCEPT ![h][i + 1] = r] /\ result' = "ok"
       ELSE slots' = slots /\ result' = "TableElementOutOfBounds"
    /\ UNCHANGED <<instVars, made, tmax, owner, mem, embedVars, stack, mode, build>>

\* Instance::exported_global, then GlobalHandle::get
HostGlobalGet(a) ==
    /\ mode = "host" /\ status[a] = "live"
    /\ heldVal' = glob[a] /\ result' = "ok"
    /\ UNCHANGED <<instVars, tableVars, held, stack, mode, build>>

\* Instance::exported_global, then GlobalHandle::set
HostGlobalSet(a) ==
    /\ RefGlobals /\ mode = "host" /\ status[a] = "live"
    /\ IF prog[a].mutable
       THEN glob' = [glob EXCEPT ![a] = heldVal] /\ result' = "ok"
       ELSE glob' = glob /\ result' = "Immutable"
    /\ UNCHANGED <<status, born, births, prog, tabs, elems, tableVars,
                   embedVars, stack, mode, build>>


\* Instance::invoke_export takes &mut self: an instance with an invocation
\* under way cannot be entered again.
Invoke(a) ==
    /\ mode = "host" /\ status[a] = "live"
    /\ \A k \in DOMAIN stack : stack[k] # a
    /\ stack' = Append(stack, a)
    /\ mode' = "guest" /\ result' = "ok"
    /\ UNCHANGED <<instVars, tableVars, embedVars, build>>

\* The embedder drops an instance it owns and is not borrowing.
Drop(a) ==
    /\ mode = "host" /\ status[a] = "live"
    /\ \A k \in DOMAIN stack : stack[k] # a
    /\ DropInstance(a)
    /\ result' = "ok"
    /\ UNCHANGED <<tableVars, embedVars, stack, mode, build>>

\* A host function returns to the guest that called it...
HostReturn ==
    /\ mode = "host" /\ stack # <<>>
    /\ mode' = "guest" /\ result' = "ok"
    /\ UNCHANGED <<instVars, tableVars, embedVars, stack, build>>

\* ... or fails, and the guest's invocation with it.
HostFails ==
    /\ mode = "host" /\ stack # <<>>
    /\ Unwind("HostFunctionFailed")

-----------------------------------------------------------------------------
Init ==
    /\ status = [a \in Addr |-> "free"]
    /\ born = [a \in Addr |-> 0] /\ births = 0
    /\ prog = [a \in Addr |-> Nil]
    /\ tabs = [a \in Addr |-> <<>>] /\ elems = [a \in Addr |-> <<>>]
    /\ glob = [a \in Addr |-> Nil]
    /\ made = {} /\ slots = [h \in Handles |-> <<>>]
    /\ tmax = [h \in Handles |-> 0] /\ owner = [h \in Handles |-> Nil]
    /\ mem = InitMem
    /\ held = Nil /\ heldVal = Nil
    /\ stack = <<>> /\ mode = "host" /\ result = "ok"
    /\ build = NoBuild
    /\ pub = [slots |-> slots, mem |-> mem]

Publish == pub' = [slots |-> slots', mem |-> mem']

BuildStep ==
    \/ BindImport
    \/ \E h \in Handles : DefineTable(h)
    \/ DefineFails
    \/ Preflight
    \/ WriteData
    \/ WriteElements
    \/ Commit

\* Element indices and lengths of an instruction: one past every table.
Index == 0..(MaxLen + 1)

GuestStep ==
    \/ \E t \in DOMAIN tabs[Running], i \in Index : TableGet(t, i)
    \/ \E t \in DOMAIN tabs[Running], i \in Index, v \in Operands(Running) :
         TableSet(t, i, v)
    \/ \E t \in DOMAIN tabs[Running], d \in Index, v \in Operands(Running) :
         TableGrow(t, d, v)
    \/ \E t \in DOMAIN tabs[Running], i, n \in Index, v \in Operands(Running) :
         TableFill(t, i, v, n)
    \/ \E t, u \in DOMAIN tabs[Running], i, j, n \in Index : TableCopy(t, u, i, j, n)
    \/ \E e \in DOMAIN elems[Running], t \in DOMAIN tabs[Running], i, j, n \in Index :
         TableInit(e, t, i, j, n)
    \/ \E e \in DOMAIN elems[Running] : ElemDrop(e)
    \/ \E v \in Operands(Running) : GlobalSet(v)
    \/ \E ty \in Types, t \in DOMAIN tabs[Running], i \in Index : CallIndirect(ty, t, i)
    \/ CallHost
    \/ Return
    \/ Trap

HostStep ==
    \/ \E h \in Handles, lim \in Limits : HostNewTable(h, lim)
    \/ \E h \in Handles : HostForgetTable(h)
    \/ \E h \in Handles, i \in Index : HostGet(h, i)
    \/ \E h \in Handles, i \in Index, r \in {Nil, held} : HostSet(h, i, r)
    \/ \E a \in Addr : HostGlobalGet(a)
    \/ \E a \in Addr : HostGlobalSet(a)
    \/ \E a \in Addr : Invoke(a)
    \/ \E a \in Addr : Drop(a)
    \/ HostReturn
    \/ HostFails

Begin == \E m \in Modules, a \in Addr :
           \E imp \in [1..Len(m.imports) -> Known] : Instantiate(m, a, imp)

Next == \/ Begin
        \/ BuildStep
        \/ mode = "guest" /\ GuestStep /\ Publish
        \/ HostStep /\ Publish

Spec == Init /\ [][Next]_vars

-----------------------------------------------------------------------------
\* The variables hold values of the types the code gives them.  A table's
\* length respects u32 and the table's maximum, and a backing store that is
\* gone has no slots and no binding.  An identity is in use exactly while its
\* instance exists: an address without one has kept no module, table, segment,
\* global or incarnation, and an instance has a module and tables that exist.
TypeOK ==
    /\ status \in [Addr -> {"free", "building", "starting", "live"}]
    /\ born \in [Addr -> Nat] /\ births \in Nat
    /\ prog \in [Addr -> Modules \cup {Nil}]
    /\ \A a \in Addr :
         IF status[a] = "free"
         THEN prog[a] = Nil /\ tabs[a] = <<>> /\ elems[a] = <<>> /\ glob[a] = Nil /\ born[a] = 0
         ELSE prog[a] \in Modules /\ Range(tabs[a]) \subseteq made /\ born[a] \in 1..births
    /\ \A h \in Handles :
         IF h \in made THEN Len(slots[h]) <= MaxLen /\ Len(slots[h]) <= tmax[h]
         ELSE slots[h] = <<>> /\ owner[h] = Nil
    /\ tabs \in [Addr -> Seq(Handles)]
    /\ elems \in [Addr -> Seq(Seq(Nat \cup {Nil}))]
    /\ glob \in [Addr -> Value]
    /\ made \subseteq Handles
    /\ slots \in [Handles -> Seq(Ref)]
    /\ tmax \in [Handles -> 0..NoMax]
    /\ owner \in [Handles -> Addr \cup {Nil}]
    /\ mem \in [Mems -> Seq(Bytes)]
    /\ held \in Ref /\ heldVal \in Value
    /\ stack \in Seq(Addr)
    /\ mode \in BuildModes \cup {"host", "guest"}
    /\ build \in Build
    /\ mode \in BuildModes => build.a \in Addr
    /\ mode = "guest" => stack # <<>>

\* A table handle backs at most one instance at a time, in whatever order the
\* embedder and its host functions instantiate, fail to instantiate and drop
\* instances (TableHandle::bind, instantiate_tables).
OneLiveOwner == \A a, b \in Addr : a # b => Range(tabs[a]) \cap Range(tabs[b]) = {}

\* A table is bound to an existing instance exactly when that instance has
\* it: an instantiation that binds some imports and then fails leaves no
\* table locked (TableHandle::bind with a dead Weak).
BindingExact == \A h \in Handles, a \in Addr :
    status[a] # "free" => (owner[h] = a <=> h \in Range(tabs[a]))

\* Whatever function_index_for_instance lets an instance read or call was
\* created by this very instance, and not by an earlier one at the same
\* address, and is one of its functions.
ResolvedIsOwn == \A a \in Addr : \A t \in DOMAIN tabs[a] :
    \A i \in 0..(Len(slots[tabs[a][t]]) - 1) :
        FunctionIndexFor(a, tabs[a][t], i) = "Ok" =>
            /\ slots[tabs[a][t]][i + 1].origin = born[a]
            /\ slots[tabs[a][t]][i + 1].fn \in Funcs(prog[a])

\* An instantiation that fails before its start function leaves host-shared
\* tables and memories as it found them: no segment is written unless all of
\* them will be (the preflights of with_config).
AllOrNothing == mode \notin BuildModes => pub = [slots |-> slots, mem |-> mem]

\* The internal errors the code reports as broken invariants do not occur:
\* "table binding changed while instance is live", a preflighted segment that
\* no longer fits, and a callee that is not a function of the instance.
NoInternalError == result \notin {"ControlInvariant", "FunctionOutOfBounds"}

\* Guest code changes only tables bound to its own instance.
GuestTouchesOnlyItsTables ==
    [][mode = "guest" =>
        \A h \in Handles : slots'[h] # slots[h] => owner[h] = Running]_vars

\* A table never shrinks and never exceeds its maximum while anyone has it.
TablesGrowWithinMaximum ==
    [][\A h \in made \cap made' : /\ Len(slots'[h]) >= Len(slots[h])
                                  /\ tmax'[h] = tmax[h]
                                  /\ Len(slots'[h]) <= tmax[h]]_vars

=============================================================================
