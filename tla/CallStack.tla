----------------------------- MODULE CallStack -----------------------------
(***************************************************************************)
(* One invocation of an instance: the frame trampoline                     *)
(* Instance::invoke_function, the guest frames it suspends and resumes,    *)
(* and the ExecutionBudget it spends (crates/wasm-runtime/src/lib.rs).     *)
(*                                                                         *)
(* Guest code is abstracted to what the trampoline sees of it: every       *)
(* instruction is paid for and then computes, calls a function, tail-calls *)
(* one, ends the frame or traps.  A direct and an indirect call differ     *)
(* only in how the callee is found (see InstanceLinking).                  *)
(***************************************************************************)
EXTENDS Integers, Sequences

CONSTANTS
    Imports,         \* imported functions, implemented by the host
    Defined,         \* functions with guest code
    Results,         \* result types
    Multi,           \* the result types with more than one value
    ResultOf,        \* ResultOf[f]: the result type of function f
    MaxCallDepth,    \* MAX_CALL_DEPTH, 26 in the code
    DepthLimit,      \* RuntimeLimits::max_call_depth
    FuelLimit,       \* RuntimeLimits::fuel
    HostLimit,       \* RuntimeLimits::max_host_calls
    Unlimited        \* None in the two options

Funcs == Imports \cup Defined

ASSUME FuncsAssumption == Imports \cap Defined = {}
ASSUME ResultAssumption == ResultOf \in [Funcs -> Results] /\ Multi \subseteq Results
ASSUME DepthAssumption == MaxCallDepth \in Nat /\ DepthLimit \in Nat
ASSUME BudgetAssumption == /\ Unlimited \notin Nat
                           /\ FuelLimit \in Nat \cup {Unlimited}
                           /\ HostLimit \in Nat \cup {Unlimited}

VARIABLES
    phase,     \* "idle", "enter", "host", "run" or "return"
    entry,     \* the function the embedder invoked
    cur,       \* current_function, or the function of current_frame
    callers,   \* callers: suspended frames, with the results each waits for
    depth,     \* current_depth
    fuel,      \* ExecutionBudget::fuel_remaining
    hostCalls, \* ExecutionBudget::host_calls
    outcome    \* how the last invocation ended

vars == <<phase, entry, cur, callers, depth, fuel, hostCalls, outcome>>

\* Mutant: the configured limit is not capped.
CallDepthLimit_Uncapped == DepthLimit

\* limits.max_call_depth.min(MAX_CALL_DEPTH)
CallDepthLimit == IF DepthLimit < MaxCallDepth THEN DepthLimit ELSE MaxCallDepth

Frame == [fn : Defined, want : Results]

-----------------------------------------------------------------------------
\* An error leaves invoke_function through every `?`: all frames are dropped.
Fail(err) ==
    /\ phase' = "idle"
    /\ outcome' = err
    /\ callers' = <<>>
    /\ UNCHANGED <<entry, cur, depth, fuel, hostCalls>>

\* Mutant: the budget of the previous invocation is carried on.
Invoke_KeepsBudget(f, api) ==
    /\ phase = "idle"
    /\ phase' = "enter" /\ entry' = f /\ cur' = f
    /\ callers' = <<>> /\ depth' = 0 /\ outcome' = "running"
    /\ UNCHANGED <<fuel, hostCalls>>

\* Instance::invoke_export ("single"), invoke_export_values ("values").  The
\* single-result interface refuses a multi-value function before running it.
Invoke(f, api) ==
    /\ phase = "idle"
    /\ IF api = "single" /\ ResultOf[f] \in Multi
       THEN /\ outcome' = "MultiValueResultRequiresValuesApi"
            /\ UNCHANGED <<phase, entry, cur, callers, depth, fuel, hostCalls>>
       ELSE /\ phase' = "enter"
            /\ entry' = f /\ cur' = f
            /\ callers' = <<>> /\ depth' = 0
            /\ fuel' = FuelLimit /\ hostCalls' = 0
            /\ outcome' = "running"

\* invoke_host up to the callback: consume_host_call.
EnterHost ==
    /\ phase = "enter" /\ cur \in Imports
    /\ IF HostLimit # Unlimited /\ hostCalls >= HostLimit
       THEN Fail("HostCallLimitExceeded")
       ELSE /\ hostCalls' = hostCalls + 1
            /\ phase' = "host"
            /\ UNCHANGED <<entry, cur, callers, depth, fuel, outcome>>

\* The callback returns values of the import's result type...
HostReturns ==
    /\ phase = "host"
    /\ phase' = "return"
    /\ UNCHANGED <<entry, cur, callers, depth, fuel, hostCalls, outcome>>

\* ... or fails, or returns values of the wrong number or types.
HostFails ==
    /\ phase = "host"
    /\ \E err \in {"HostCallFailed", "HostResultMismatch"} : Fail(err)

\* The depth check, and prepare_guest_frame.
EnterGuest ==
    /\ phase = "enter" /\ cur \in Defined
    /\ IF depth >= CallDepthLimit
       THEN Fail("CallDepthExceeded")
       ELSE /\ phase' = "run"
            /\ UNCHANGED <<entry, cur, callers, depth, fuel, hostCalls, outcome>>

\* ExecutionBudget::consume_instruction, at the top of every instruction.
Spend == fuel' = IF fuel = Unlimited THEN fuel ELSE fuel - 1

OutOfFuel ==
    /\ phase = "run" /\ fuel = 0
    /\ Fail("FuelExhausted")

\* Mutant: an instruction runs with no fuel left.
Paid_NoFuelCheck == phase = "run"

Paid == phase = "run" /\ fuel # 0

\* An instruction that stays in the frame, branches and loops included.
Compute ==
    /\ Paid /\ Spend
    /\ UNCHANGED <<phase, entry, cur, callers, depth, hostCalls, outcome>>

\* An instruction traps.
Trap ==
    /\ Paid /\ Spend
    /\ phase' = "idle" /\ outcome' = "Trap" /\ callers' = <<>>
    /\ UNCHANGED <<entry, cur, depth, hostCalls>>

\* Mutant: the depth is not raised.
Call_SameDepth(f) ==
    /\ Paid /\ Spend
    /\ callers' = Append(callers, [fn |-> cur, want |-> ResultOf[f]])
    /\ cur' = f
    /\ phase' = "enter"
    /\ UNCHANGED <<entry, depth, hostCalls, outcome>>

\* call, call_indirect: the frame is suspended.  The depth grows also when
\* the callee is a host function or will not be entered.
Call(f) ==
    /\ Paid /\ Spend
    /\ callers' = Append(callers, [fn |-> cur, want |-> ResultOf[f]])
    /\ depth' = depth + 1
    /\ cur' = f
    /\ phase' = "enter"
    /\ UNCHANGED <<entry, hostCalls, outcome>>

\* Mutant: the callee's results are not compared with the frame's.
TailCall_AnyResult(f) ==
    /\ Paid /\ Spend
    /\ cur' = f
    /\ phase' = "enter"
    /\ UNCHANGED <<entry, callers, depth, hostCalls, outcome>>

\* Mutant: a tail call is free.
TailCall_Free(f) ==
    /\ Paid
    /\ ResultOf[f] = ResultOf[cur]
    /\ cur' = f
    /\ phase' = "enter"
    /\ UNCHANGED <<entry, callers, depth, fuel, hostCalls, outcome>>

\* return_call, return_call_indirect: the callee replaces the frame.  That
\* its results are the frame's is established by the validator; the runtime
\* checks it again.
TailCall(f) ==
    /\ Paid /\ Spend
    /\ ResultOf[f] = ResultOf[cur]
    /\ cur' = f
    /\ phase' = "enter"
    /\ UNCHANGED <<entry, callers, depth, hostCalls, outcome>>

\* The end of the function body, or a branch to it.
End ==
    /\ Paid /\ Spend
    /\ phase' = "return"
    /\ UNCHANGED <<entry, cur, callers, depth, hostCalls, outcome>>

\* FunctionOutcome::Return
Return ==
    /\ phase = "return"
    /\ IF callers = <<>>
       THEN /\ phase' = "idle" /\ outcome' = "Ok"
            /\ UNCHANGED <<cur, callers, depth>>
       ELSE IF depth = 0
       THEN /\ phase' = "idle" /\ outcome' = "ControlInvariant"
            /\ callers' = <<>>
            /\ UNCHANGED <<cur, depth>>
       ELSE /\ cur' = callers[Len(callers)].fn
            /\ callers' = SubSeq(callers, 1, Len(callers) - 1)
            /\ depth' = depth - 1
            /\ phase' = "run"
            /\ UNCHANGED outcome
    /\ UNCHANGED <<entry, fuel, hostCalls>>

-----------------------------------------------------------------------------
Init ==
    /\ phase = "idle" /\ entry \in Funcs /\ cur = entry
    /\ callers = <<>> /\ depth = 0
    /\ fuel = FuelLimit /\ hostCalls = 0
    /\ outcome = "none"

\* What runs by itself once an invocation has begun.
Engine ==
    \/ EnterHost \/ HostReturns \/ HostFails
    \/ EnterGuest
    \/ OutOfFuel \/ Compute \/ Trap \/ End
    \/ \E f \in Funcs : Call(f)
    \/ \E f \in Funcs : TailCall(f)
    \/ Return

Next == Engine \/ \E f \in Funcs, api \in {"single", "values"} : Invoke(f, api)

Spec == Init /\ [][Next]_vars

\* invoke_function is a loop without waiting, and host functions are assumed
\* to return: the engine keeps going.
FairSpec == Spec /\ WF_vars(Engine)

-----------------------------------------------------------------------------
\* The variables hold values of the types the code gives them.
TypeOK ==
    /\ phase \in {"idle", "enter", "host", "run", "return"}
    /\ entry \in Funcs /\ cur \in Funcs
    /\ callers \in Seq(Frame)
    /\ depth \in Nat
    /\ fuel \in Nat \cup {Unlimited}
    /\ hostCalls \in Nat

\* The number of guest frames in existence, suspended ones included, never
\* exceeds the configured limit nor MAX_CALL_DEPTH, however calls, tail calls
\* and returns alternate; host functions are called from within the limit.
FramesBounded ==
    /\ phase = "run" => Len(callers) < DepthLimit /\ Len(callers) < MaxCallDepth
    /\ phase # "idle" => Len(callers) <= DepthLimit /\ Len(callers) <= MaxCallDepth

\* current_depth counts the suspended frames, so that "guest call stack depth
\* underflow" cannot be reported.
DepthIsStackHeight ==
    /\ phase # "idle" => depth = Len(callers)
    /\ outcome # "ControlInvariant"

\* Values returned to a suspended frame, or to the embedder, have the type of
\* the function that was called there, although after tail calls another
\* function returns them.
ResultsFitCaller ==
    phase = "return" =>
        ResultOf[cur] = IF callers = <<>> THEN ResultOf[entry]
                        ELSE callers[Len(callers)].want

\* Host calls respect max_host_calls, and fuel bounds them as well: but for
\* an invoked import, each is paid for by a call instruction of the same
\* invocation, never by an earlier one.
HostCallsBounded ==
    /\ HostLimit # Unlimited => hostCalls <= HostLimit
    /\ FuelLimit # Unlimited => hostCalls + fuel <= FuelLimit + 1

\* With a fuel limit every invocation ends, whatever the guest does.
InvocationsEnd == (phase # "idle") ~> (phase = "idle")

=============================================================================
