-------------------------- MODULE CallStackProofs --------------------------
(***************************************************************************)
(* The safety properties of CallStack, for every set of functions and      *)
(* every setting of the limits.                                            *)
(***************************************************************************)
EXTENDS CallStack, TLAPS

\* Every suspended frame waits for what the frame above it will return, and
\* the frame at the bottom will return what the embedder asked for.
Waits(fn, k) == ResultOf[fn] = IF k = 0 THEN ResultOf[entry] ELSE callers[k].want

Chained ==
    phase # "idle" =>
        /\ Waits(cur, Len(callers))
        /\ \A k \in 1..Len(callers) : Waits(callers[k].fn, k - 1)

Shape ==
    /\ phase = "run" => cur \in Defined
    /\ phase = "enter" => (FuelLimit # Unlimited => hostCalls + fuel <= FuelLimit)
    /\ fuel = Unlimited <=> FuelLimit = Unlimited

\* The inductive invariant.
IInv == /\ TypeOK
        /\ FramesBounded
        /\ DepthIsStackHeight
        /\ HostCallsBounded
        /\ Chained
        /\ Shape

-----------------------------------------------------------------------------
\* The limit of the trampoline is the smaller of the two limits.
LEMMA LimitNat == /\ CallDepthLimit \in Nat /\ DepthLimit \in Nat /\ MaxCallDepth \in Nat
                  /\ \A n \in Nat : n < CallDepthLimit <=> n < DepthLimit /\ n < MaxCallDepth
  BY DepthAssumption DEF CallDepthLimit

\* Initially nothing runs and the budget is full.
LEMMA InitIInv == Init => IInv
  <1> SUFFICES ASSUME Init PROVE IInv OBVIOUS
  <1> USE BudgetAssumption, FuncsAssumption DEF Init
  <1>1. TypeOK BY DEF TypeOK, Frame, Funcs
  <1>2. HostCallsBounded /\ Shape BY DEF HostCallsBounded, Shape
  <1>3. FramesBounded /\ DepthIsStackHeight /\ Chained
    BY DEF FramesBounded, DepthIsStackHeight, Chained
  <1> QED BY <1>1, <1>2, <1>3 DEF IInv

\* An error return empties the stack and keeps the budget.
LEMMA FailIInv == ASSUME IInv, NEW err, err # "ControlInvariant", Fail(err)
                  PROVE  IInv'
  BY DEF IInv, Fail, TypeOK, FramesBounded, DepthIsStackHeight,
         HostCallsBounded, Chained, Shape, Frame

\* A step that does not touch the stack keeps its shape.
LEMMA SameStack == ASSUME Chained, phase # "idle",
                          UNCHANGED <<entry, cur, callers>>
                   PROVE  Chained'
  BY DEF Chained, Waits

\* Paying for an instruction lowers the fuel, if there is a limit.
LEMMA SpendIInv == ASSUME IInv, Paid, Spend
                   PROVE  /\ fuel' \in Nat \cup {Unlimited}
                          /\ fuel' = Unlimited <=> FuelLimit = Unlimited
                          /\ FuelLimit # Unlimited =>
                                hostCalls + fuel' <= FuelLimit
  BY BudgetAssumption DEF IInv, TypeOK, Paid, Spend, HostCallsBounded, Shape

\* Every step of the trampoline keeps the invariant.
LEMMA StepIInv == IInv /\ [Next]_vars => IInv'
  <1> SUFFICES ASSUME IInv, [Next]_vars PROVE IInv' OBVIOUS
  <1> USE LimitNat, BudgetAssumption
  <1>1. ASSUME NEW f \in Funcs, NEW api \in {"single", "values"}, Invoke(f, api)
        PROVE IInv'
    <2>1. CASE UNCHANGED <<phase, entry, cur, callers, depth, fuel, hostCalls>>
               /\ outcome' = "MultiValueResultRequiresValuesApi"
      BY <2>1 DEF IInv, TypeOK, FramesBounded, DepthIsStackHeight,
                  HostCallsBounded, Chained, Waits, Shape
    <2>2. CASE phase' = "enter" /\ entry' = f /\ cur' = f /\ callers' = <<>>
               /\ depth' = 0 /\ fuel' = FuelLimit /\ hostCalls' = 0
               /\ outcome' = "running"
      BY <2>2 DEF IInv, TypeOK, FramesBounded, DepthIsStackHeight,
                  HostCallsBounded, Chained, Waits, Shape, Frame
    <2> QED BY <1>1, <2>1, <2>2 DEF Invoke
  <1>2. CASE EnterHost
    <2>1. CASE Fail("HostCallLimitExceeded") BY <2>1, FailIInv
    <2>2. CASE /\ hostCalls' = hostCalls + 1 /\ phase' = "host"
               /\ HostLimit # Unlimited => hostCalls < HostLimit
               /\ UNCHANGED <<entry, cur, callers, depth, fuel, outcome>>
      <3>1. Chained' BY <1>2, <2>2, SameStack DEF EnterHost, IInv
      <3>2. HostCallsBounded'
        BY <1>2, <2>2 DEF IInv, TypeOK, HostCallsBounded, Shape, EnterHost
      <3>3. TypeOK' /\ FramesBounded' /\ DepthIsStackHeight' /\ Shape'
        BY <1>2, <2>2 DEF IInv, TypeOK, FramesBounded, DepthIsStackHeight, Shape,
                          EnterHost
      <3> QED BY <3>1, <3>2, <3>3 DEF IInv
    <2> QED BY <1>2, <2>1, <2>2 DEF EnterHost, IInv, TypeOK
  <1>3. CASE HostReturns
    BY <1>3, SameStack DEF HostReturns, IInv, TypeOK, FramesBounded,
         DepthIsStackHeight, HostCallsBounded, Shape
  <1>4. CASE HostFails
    BY <1>4, FailIInv DEF HostFails
  <1>5. CASE EnterGuest
    <2>1. CASE Fail("CallDepthExceeded") BY <2>1, FailIInv
    <2>2. CASE /\ phase' = "run" /\ depth < CallDepthLimit
               /\ UNCHANGED <<entry, cur, callers, depth, fuel, hostCalls, outcome>>
      BY <1>5, <2>2, SameStack DEF EnterGuest, IInv, TypeOK, FramesBounded,
           DepthIsStackHeight, HostCallsBounded, Shape
    <2> QED BY <1>5, <2>1, <2>2 DEF EnterGuest, IInv, TypeOK
  <1>6. CASE OutOfFuel
    BY <1>6, FailIInv DEF OutOfFuel
  <1>7. CASE Compute
    BY <1>7, SpendIInv, SameStack DEF Compute, Paid, IInv, TypeOK, FramesBounded,
         DepthIsStackHeight, HostCallsBounded, Shape
  <1>8. CASE Trap
    BY <1>8, SpendIInv DEF Trap, Paid, IInv, TypeOK, FramesBounded,
         DepthIsStackHeight, HostCallsBounded, Shape, Chained, Frame
  <1>9. CASE End
    BY <1>9, SpendIInv, SameStack DEF End, Paid, IInv, TypeOK, FramesBounded,
         DepthIsStackHeight, HostCallsBounded, Shape
  <1>10. ASSUME NEW f \in Funcs, Call(f) PROVE IInv'
    <2>1. /\ phase = "run" /\ cur \in Defined /\ f \in Funcs
          /\ phase' = "enter" /\ cur' = f /\ depth' = depth + 1
          /\ callers' = Append(callers, [fn |-> cur, want |-> ResultOf[f]])
          /\ UNCHANGED <<entry, hostCalls, outcome>>
      BY <1>10 DEF Call, Paid, IInv, Shape
    <2>2. [fn |-> cur, want |-> ResultOf[f]] \in Frame
      BY <2>1, ResultAssumption DEF Frame
    <2>3. callers \in Seq(Frame) /\ depth = Len(callers)
      BY <2>1 DEF IInv, TypeOK, DepthIsStackHeight
    <2>4. /\ callers' \in Seq(Frame) /\ Len(callers') = Len(callers) + 1
          /\ callers'[Len(callers) + 1] = [fn |-> cur, want |-> ResultOf[f]]
          /\ \A k \in 1..Len(callers) : callers'[k] = callers[k]
      BY <2>1, <2>2, <2>3
    <2>5. TypeOK'
      BY <1>10, <2>1, <2>3, <2>4, SpendIInv DEF Call, IInv, TypeOK
    <2>6. FramesBounded' /\ DepthIsStackHeight'
      BY <2>1, <2>3, <2>4 DEF IInv, FramesBounded, DepthIsStackHeight
    <2>7. HostCallsBounded' /\ Shape'
      BY <1>10, <2>1, SpendIInv DEF Call, IInv, HostCallsBounded, Shape, TypeOK
    <2>8. Chained'
      <3>1. Waits(cur, Len(callers)) /\ \A k \in 1..Len(callers) : Waits(callers[k].fn, k - 1)
        BY <2>1 DEF IInv, Chained
      <3>2. Waits(cur, Len(callers))'
        BY <2>1, <2>3, <2>4 DEF Waits
      <3>3. ASSUME NEW k \in 1..Len(callers') PROVE Waits(callers[k].fn, k - 1)'
        <4>1. CASE k = Len(callers) + 1 BY <4>1, <3>1, <2>1, <2>3, <2>4 DEF Waits
        <4>2. CASE k \in 1..Len(callers) BY <4>2, <3>1, <2>1, <2>3, <2>4 DEF Waits
        <4> QED BY <4>1, <4>2, <2>3, <2>4
      <3> QED BY <3>2, <3>3 DEF Chained
    <2> QED BY <2>5, <2>6, <2>7, <2>8 DEF IInv
  <1>11. ASSUME NEW f \in Funcs, TailCall(f) PROVE IInv'
    <2>1. Chained'
      BY <1>11 DEF TailCall, Paid, IInv, Chained, Waits
    <2> QED BY <1>11, <2>1, SpendIInv DEF TailCall, Paid, IInv, TypeOK,
             FramesBounded, DepthIsStackHeight, HostCallsBounded, Shape
  <1>12. CASE Return
    <2>1. CASE callers = <<>>
      BY <1>12, <2>1 DEF Return, IInv, TypeOK, FramesBounded, DepthIsStackHeight,
           HostCallsBounded, Shape, Chained
    <2>2. CASE callers # <<>>
      <3>1. callers \in Seq(Frame) /\ depth = Len(callers) /\ Len(callers) \in Nat
        BY <1>12 DEF Return, IInv, TypeOK, DepthIsStackHeight
      <3>2. Len(callers) > 0 BY <2>2, <3>1
      <3>3. /\ phase = "return" /\ phase' = "run"
            /\ cur' = callers[Len(callers)].fn
            /\ callers' = SubSeq(callers, 1, Len(callers) - 1)
            /\ depth' = depth - 1
            /\ UNCHANGED <<entry, fuel, hostCalls, outcome>>
        BY <1>12, <2>2, <3>1, <3>2 DEF Return
      <3>4. /\ callers' \in Seq(Frame) /\ Len(callers') = Len(callers) - 1
            /\ \A k \in 1..Len(callers') : callers'[k] = callers[k]
        BY <3>1, <3>2, <3>3
      <3>5. callers[Len(callers)] \in Frame BY <3>1, <3>2
      <3>6. TypeOK' /\ Shape'
        BY <3>1, <3>3, <3>4, <3>5, <3>2 DEF IInv, TypeOK, Shape, Frame, Funcs
      <3>7. FramesBounded' /\ DepthIsStackHeight' /\ HostCallsBounded'
        BY <3>1, <3>3, <3>4, <3>2
           DEF IInv, FramesBounded, DepthIsStackHeight, HostCallsBounded
      <3>8. Chained'
        <4>1. \A k \in 1..Len(callers) : Waits(callers[k].fn, k - 1)
          BY <3>3 DEF IInv, Chained
        <4> QED BY <4>1, <3>1, <3>2, <3>3, <3>4 DEF Chained, Waits
      <3> QED BY <3>6, <3>7, <3>8 DEF IInv
    <2> QED BY <2>1, <2>2
  <1>13. CASE UNCHANGED vars
    BY <1>13 DEF vars, IInv, TypeOK, FramesBounded, DepthIsStackHeight,
         HostCallsBounded, Shape, Chained, Waits
  <1> QED BY <1>1, <1>2, <1>3, <1>4, <1>5, <1>6, <1>7, <1>8, <1>9, <1>10,
             <1>11, <1>12, <1>13 DEF Next, Engine

\* The inductive invariant holds throughout.
LEMMA Invariance == Spec => []IInv
  BY InitIInv, StepIInv, PTL DEF Spec

\* In every reachable state the variables have their types, for every
\* module shape and every limit.
THEOREM TypeCorrect == Spec => []TypeOK
  <1>1. IInv => TypeOK BY DEF IInv
  <1> QED BY <1>1, Invariance, PTL

\* invoke_function never holds more guest frames than the configured limit
\* and MAX_CALL_DEPTH allow.
THEOREM CallDepthSafe == Spec => []FramesBounded
  <1>1. IInv => FramesBounded BY DEF IInv
  <1> QED BY <1>1, Invariance, PTL

\* current_depth is the number of suspended frames; the underflow error is
\* unreachable.
THEOREM DepthExact == Spec => []DepthIsStackHeight
  <1>1. IInv => DepthIsStackHeight BY DEF IInv
  <1> QED BY <1>1, Invariance, PTL

\* Results reach the frame that waits for results of their type, across any
\* sequence of tail calls.
THEOREM ResultsWellTyped == Spec => []ResultsFitCaller
  <1>1. IInv => ResultsFitCaller
    BY DEF IInv, Chained, Waits, ResultsFitCaller, TypeOK
  <1> QED BY <1>1, Invariance, PTL

\* Host calls stay within max_host_calls and within what the fuel pays for.
THEOREM HostCallsSafe == Spec => []HostCallsBounded
  <1>1. IInv => HostCallsBounded BY DEF IInv
  <1> QED BY <1>1, Invariance, PTL

=============================================================================
