------------------------ MODULE AttachProcessProofs ------------------------
(***************************************************************************)
(* Proofs about run_attachments and the listeners it serves, for any set   *)
(* of listeners, any finite set of local connections and any limits.       *)
(* The budgets bound the counters, so that the types of the two semaphores *)
(* and the exactness of both budgets are one inductive invariant.          *)
(***************************************************************************)
EXTENDS AttachProcess, FiniteSetTheorems, TLAPS

TypeOK == ForwarderTypeOK /\ ProcessTypeOK

Books == TypeOK /\ BudgetsExact

\* What run_attachments has started, and not yet ended, at each of its stages.
StageInv ==
  /\ main \in {"endpoint", "bind"} =>
       driver = "none" /\ reporter = "none" /\ \A l \in Listeners : serve[l] = "off"
  /\ main \notin {"endpoint", "bind"} => bound = {}
  /\ main \in {"driver", "reporter"} => \A l \in Listeners : serve[l] = "ended"
  /\ main = "reporter" => driver # "running"
  /\ ExitReleases

-----------------------------------------------------------------------------

\* Sets of local connections are finite, so their sizes are natural numbers.
LEMMA LocalsFinite == \A S \in SUBSET Locals : IsFiniteSet(S) /\ Cardinality(S) \in Nat
  BY ForwarderAssumption, FS_Subset, FS_CardinalityType

\* A connection that takes a permit of its listener and one of the process
\* keeps both budgets exact.
LEMMA TaskStarts ==
  ASSUME ForwarderTypeOK, BudgetsExact, NEW k \in Locals, NEW x \in Active,
         fwd[k] \notin Active, fwd' = [fwd EXCEPT ![k] = x], UNCHANGED at,
         free[at[k]] > 0, total > 0,
         free' = [free EXCEPT ![at[k]] = @ - 1], total' = total - 1
  PROVE  /\ BudgetsExact'
         /\ free' \in [Listeners -> 0 .. MaxListener] /\ total' \in 0 .. MaxTotal
<1> DEFINE All == {c \in Locals : fwd[c] \in Active}
<1>1. free' \in [Listeners -> 0 .. MaxListener] /\ total' \in 0 .. MaxTotal
  BY ForwarderAssumption DEF ForwarderTypeOK
<1>2. ASSUME NEW l \in Listeners PROVE free'[l] + Cardinality(ActiveAt(l)') = MaxListener
  <2>0. free[l] + Cardinality(ActiveAt(l)) = MaxListener
    BY DEF BudgetsExact
  <2>1. IsFiniteSet(ActiveAt(l)) /\ Cardinality(ActiveAt(l)) \in Nat
    BY LocalsFinite DEF ActiveAt
  <2>2. CASE l = at[k]
    <3>1. ActiveAt(l)' = ActiveAt(l) \cup {k} /\ k \notin ActiveAt(l)
      BY <2>2 DEF ActiveAt, ForwarderTypeOK
    <3>2. Cardinality(ActiveAt(l)') = Cardinality(ActiveAt(l)) + 1
      BY <2>1, <3>1, FS_AddElement
    <3>3. free'[l] = free[l] - 1 /\ free[l] \in Nat
      BY <2>2 DEF ForwarderTypeOK
    <3> QED BY <2>0, <2>1, <3>2, <3>3, ForwarderAssumption
  <2>3. CASE l # at[k]
    <3>1. ActiveAt(l)' = ActiveAt(l) /\ free'[l] = free[l]
      BY <2>3 DEF ActiveAt, ForwarderTypeOK
    <3> QED BY <2>0, <3>1
  <2> QED BY <2>2, <2>3
<1>3. total' + Cardinality(All') = MaxTotal
  <2>1. IsFiniteSet(All) /\ Cardinality(All) \in Nat
    BY LocalsFinite
  <2>2. All' = All \cup {k} /\ k \notin All
    BY DEF ForwarderTypeOK
  <2>3. Cardinality(All') = Cardinality(All) + 1
    <3> HIDE DEF All
    <3> QED BY <2>1, <2>2, FS_AddElement
  <2>4. total + Cardinality(All) = MaxTotal
    BY DEF BudgetsExact
  <2> HIDE DEF All
  <2> QED BY <2>1, <2>3, <2>4, ForwarderAssumption DEF ForwarderTypeOK
<1> QED
  BY <1>1, <1>2, <1>3 DEF BudgetsExact

\* A task that ends returns both permits, once.
LEMMA TaskEnds ==
  ASSUME ForwarderTypeOK, BudgetsExact, NEW k \in Locals, fwd[k] \in Active, End(k)
  PROVE  /\ BudgetsExact'
         /\ free' \in [Listeners -> 0 .. MaxListener] /\ total' \in 0 .. MaxTotal
<1> DEFINE All == {c \in Locals : fwd[c] \in Active}
<1>0. fwd' = [fwd EXCEPT ![k] = "done"] /\ "done" \notin Active /\ UNCHANGED at
  BY DEF End, Active
<1>1. ASSUME NEW l \in Listeners
      PROVE  free'[l] + Cardinality(ActiveAt(l)') = MaxListener /\ free'[l] \in 0 .. MaxListener
  <2>0. free[l] + Cardinality(ActiveAt(l)) = MaxListener /\ free[l] \in Nat
    BY DEF BudgetsExact, ForwarderTypeOK
  <2>1. IsFiniteSet(ActiveAt(l)) /\ Cardinality(ActiveAt(l)) \in Nat
    BY LocalsFinite DEF ActiveAt
  <2>2. CASE l = at[k]
    <3>1. ActiveAt(l)' = ActiveAt(l) \ {k} /\ k \in ActiveAt(l)
      BY <1>0, <2>2 DEF ActiveAt, ForwarderTypeOK
    <3>2. Cardinality(ActiveAt(l)') = Cardinality(ActiveAt(l)) - 1
      BY <2>1, <3>1, FS_RemoveElement
    <3>3. Cardinality(ActiveAt(l)') \in Nat
      BY <3>1, LocalsFinite DEF ActiveAt
    <3>4. free'[l] = free[l] + 1
      BY <2>2 DEF ForwarderTypeOK, End
    <3> QED BY <2>0, <2>1, <3>2, <3>3, <3>4, ForwarderAssumption
  <2>3. CASE l # at[k]
    <3>1. ActiveAt(l)' = ActiveAt(l) /\ free'[l] = free[l]
      BY <1>0, <2>3 DEF ActiveAt, ForwarderTypeOK, End
    <3> QED BY <2>0, <3>1 DEF ForwarderTypeOK
  <2> QED BY <2>2, <2>3
<1>2. total' + Cardinality(All') = MaxTotal /\ total' \in 0 .. MaxTotal
  <2>1. IsFiniteSet(All) /\ Cardinality(All) \in Nat
    BY LocalsFinite
  <2>2. All' = All \ {k} /\ k \in All
    BY <1>0 DEF ForwarderTypeOK
  <2>3. Cardinality(All') = Cardinality(All) - 1 /\ Cardinality(All') \in Nat
    <3>1. All \ {k} \in SUBSET Locals
      OBVIOUS
    <3>2. Cardinality(All \ {k}) \in Nat
      BY <3>1, LocalsFinite
    <3> HIDE DEF All
    <3> QED BY <2>1, <2>2, <3>2, FS_RemoveElement
  <2>4. total + Cardinality(All) = MaxTotal /\ total' = total + 1 /\ total \in Nat
    BY DEF BudgetsExact, End, ForwarderTypeOK
  <2> HIDE DEF All
  <2> QED BY <2>1, <2>3, <2>4, ForwarderAssumption
<1>3. free' \in [Listeners -> 0 .. MaxListener]
  BY <1>1 DEF End, ForwarderTypeOK
<1> QED
  BY <1>1, <1>2, <1>3 DEF BudgetsExact

\* A step that starts and ends no task leaves the budgets as they are.
LEMMA TasksSame ==
  ASSUME BudgetsExact, UNCHANGED <<free, total, at>>,
         \A c \in Locals : fwd'[c] \in Active <=> fwd[c] \in Active
  PROVE  BudgetsExact'
<1>1. \A l \in Listeners : ActiveAt(l)' = ActiveAt(l)
  BY DEF ActiveAt
<1>2. {c \in Locals : fwd[c] \in Active}' = {c \in Locals : fwd[c] \in Active}
  OBVIOUS
<1> QED
  BY <1>1, <1>2 DEF BudgetsExact

-----------------------------------------------------------------------------

\* A back-off stays between one unit and the longest.
LEMMA DoubledType == \A d \in 1 .. MaxDelay : Doubled(d) \in 1 .. MaxDelay
  BY ForwarderAssumption DEF Doubled

\* A listener without a failure on record has the retry state of a new one.
LEMMA RecoveredType ==
  ASSUME ForwarderTypeOK, NEW l \in Listeners, Recovered(l)
  PROVE  /\ accept' \in [Listeners -> {"sleep", "call"}]
         /\ armed' \in [Listeners -> BOOLEAN]
         /\ left' \in [Listeners -> 0 .. MaxDelay]
         /\ delay' \in [Listeners -> 1 .. MaxDelay]
         /\ owed' \in [Listeners -> 0 .. MaxDelay]
         /\ waited' \in [Listeners -> 0 .. MaxDelay]
<1>1. 1 \in 1 .. MaxDelay /\ 0 \in 0 .. MaxDelay
  BY ForwarderAssumption
<1> QED
  BY <1>1 DEF ForwarderTypeOK, Recovered, Default, Recreated

\* The main task and its helpers start and end no forwarding task.
LEMMA MainKeepsBooks ==
  ASSUME Books,
         Start \/ Loop \/ WindUp \/ DriverEnds \/ DriverLost \/ ReporterEnds \/ Signal
  PROVE  Books'
<1> USE DEF Books, TypeOK, ForwarderTypeOK, ProcessTypeOK, forwarderVars, listener, retry, backoff, history
<1>1. UNCHANGED <<free, total, at, fwd>> /\ TypeOK'
  <2>1. CASE Start
    <3>1. CASE StartInterrupted          BY <3>1 DEF StartInterrupted, Leave
    <3>2. CASE StartFails                BY <3>2 DEF StartFails, Leave
    <3>3. CASE BindEndpoint              BY <3>3 DEF BindEndpoint
    <3>4. CASE \E l \in Listeners : BindListener(l)  BY <3>4 DEF BindListener
    <3>5. CASE StartTasks                BY <3>5 DEF StartTasks
    <3> QED BY <2>1, <3>1, <3>2, <3>3, <3>4, <3>5 DEF Start
  <2>2. CASE Loop
    BY <2>2 DEF Loop, LoopSignal, LoopDriver, LoopListener, Break
  <2>3. CASE WindUp
    <3>1. CASE CloseReturns   BY <3>1 DEF CloseReturns, Proceed
    <3>2. CASE CloseTimesOut  BY <3>2 DEF CloseTimesOut, Proceed, AfterClose
    <3>3. CASE Drained        BY <3>3 DEF Drained, Proceed
    <3>4. CASE DrainDeadline  BY <3>4 DEF DrainDeadline, Proceed
    <3>5. CASE JoinDriver     BY <3>5 DEF JoinDriver, Proceed
    <3>6. CASE JoinReporter   BY <3>6 DEF JoinReporter, Proceed
    <3> QED BY <2>3, <3>1, <3>2, <3>3, <3>4, <3>5, <3>6 DEF WindUp
  <2>4. CASE DriverEnds    BY <2>4 DEF DriverEnds
  <2>5. CASE DriverLost    BY <2>5 DEF DriverLost
  <2>6. CASE ReporterEnds  BY <2>6 DEF ReporterEnds
  <2>7. CASE Signal        BY <2>7 DEF Signal
  <2> QED BY <2>1, <2>2, <2>3, <2>4, <2>5, <2>6, <2>7
<1> QED
  BY <1>1, TasksSame

\* A listener that fails, waits or stops starts and ends no forwarding task.
LEMMA ListenerKeepsBooks ==
  ASSUME Books, NEW l \in Listeners, ListenerStep(l), UNCHANGED processVars
  PROVE  Books'
<1> USE DEF Books, TypeOK, ForwarderTypeOK, ProcessTypeOK, listener, retry, backoff, history,
            processVars
<1>1. UNCHANGED <<free, total, at, fwd>> /\ TypeOK'
  <2>1. CASE AcceptRetries(l)
    <3>1. owed[l] # 0 => owed[l] \in 1 .. MaxDelay
      OBVIOUS
    <3>2. 1 \in 0 .. MaxDelay /\ 0 \in 0 .. MaxDelay /\ 1 .. MaxDelay \subseteq 0 .. MaxDelay
      BY ForwarderAssumption
    <3>3. Doubled(delay[l]) \in 1 .. MaxDelay
      BY DoubledType
    <3>4. (IF owed[l] = 0 THEN 1 ELSE Doubled(owed[l])) \in 0 .. MaxDelay
      BY <3>1, <3>2, DoubledType
    <3> QED BY <2>1, <3>2, <3>3, <3>4 DEF AcceptRetries
  <2>2. CASE Tick(l)
    <3>1. /\ (IF left[l] = 0 THEN 0 ELSE left[l] - 1) \in 0 .. MaxDelay
          /\ (IF waited[l] < owed[l] THEN waited[l] + 1 ELSE waited[l]) \in 0 .. MaxDelay
      BY ForwarderAssumption
    <3> QED BY <2>2, <3>1 DEF Tick
  <2>3. CASE SleepEnds(l)       BY <2>3 DEF SleepEnds
  <2>4. CASE StopServing(l)     BY <2>4, RecoveredType DEF StopServing
  <2>5. CASE AcceptFails(l)     BY <2>5, RecoveredType DEF AcceptFails
  <2>6. CASE DrainTimesOut(l)   BY <2>6 DEF DrainTimesOut
  <2>7. CASE JoinAll(l)         BY <2>7 DEF JoinAll
  <2> QED BY <2>1, <2>2, <2>3, <2>4, <2>5, <2>6, <2>7 DEF ListenerStep
<1> QED
  BY <1>1, TasksSame

\* A connection takes both permits or none, and gives both back at its end.
LEMMA ForwardKeepsBooks ==
  ASSUME Books, NEW k \in Locals, ForwardStep(k), UNCHANGED processVars
  PROVE  Books'
<1> USE DEF Books, TypeOK, ForwarderTypeOK, ProcessTypeOK, listener, retry, backoff, history,
            processVars
<1>0. ASSUME fwd[k] \in Active, End(k) PROVE Books'
  <2>1. BudgetsExact' /\ free' \in [Listeners -> 0 .. MaxListener] /\ total' \in 0 .. MaxTotal
    BY <1>0, TaskEnds
  <2>2. fwd' \in [Locals -> Active \cup {"none", "done", "reaped", "refused"}]
    BY <1>0 DEF End
  <2> QED BY <1>0, <2>1, <2>2 DEF End
<1>1. CASE Accept(k)
  <2>0. at[k] \in Listeners /\ free[at[k]] \in Nat /\ total \in Nat
    BY ForwarderAssumption
  <2>1. /\ accept' \in [Listeners -> {"sleep", "call"}]
        /\ armed' \in [Listeners -> BOOLEAN]
        /\ left' \in [Listeners -> 0 .. MaxDelay]
        /\ delay' \in [Listeners -> 1 .. MaxDelay]
        /\ owed' \in [Listeners -> 0 .. MaxDelay]
        /\ waited' \in [Listeners -> 0 .. MaxDelay]
        /\ UNCHANGED <<shutdown, serve, failed, at>>
    BY <1>1, <2>0, RecoveredType DEF Accept
  <2>2. CASE free[at[k]] > 0 /\ total > 0
    <3>1. PICK x \in Active : fwd' = [fwd EXCEPT ![k] = x]
      <4>1. ~(free[at[k]] = 0 \/ total = 0)
        BY <2>0, <2>2
      <4> QED BY <1>1, <4>1 DEF Accept, Active
    <3>2. /\ fwd[k] \notin Active
          /\ free' = [free EXCEPT ![at[k]] = @ - 1] /\ total' = total - 1
      BY <1>1, <2>2 DEF Accept, TakePermits, Active
    <3>3. BudgetsExact' /\ free' \in [Listeners -> 0 .. MaxListener] /\ total' \in 0 .. MaxTotal
      BY <2>1, <2>2, <3>1, <3>2, TaskStarts
    <3>4. fwd' \in [Locals -> Active \cup {"none", "done", "reaped", "refused"}]
      BY <3>1
    <3> QED BY <2>1, <3>3, <3>4
  <2>3. CASE ~(free[at[k]] > 0 /\ total > 0)
    <3>1. fwd' = [fwd EXCEPT ![k] = "refused"] /\ UNCHANGED <<free, total>>
      <4>1. free[at[k]] = 0 \/ total = 0
        BY <2>0, <2>3
      <4> QED BY <1>1, <2>3, <4>1 DEF Accept, TakePermits
    <3>2. \A c \in Locals : fwd'[c] \in Active <=> fwd[c] \in Active
      BY <1>1, <3>1 DEF Accept, Active
    <3> QED BY <2>1, <3>1, <3>2, TasksSame
  <2> QED BY <2>2, <2>3
<1>2. ASSUME NEW from \in Active, NEW to \in Active, Step(k, from, to) PROVE Books'
  <2>1. \A c \in Locals : fwd'[c] \in Active <=> fwd[c] \in Active
    BY <1>2 DEF Step
  <2> QED BY <1>2, <2>1, TasksSame DEF Step
<1>3. CASE AcquireLease(k)  BY <1>2, <1>3 DEF AcquireLease, Active
<1>4. CASE AcquireFails(k)  BY <1>0, <1>4 DEF AcquireFails, Active
<1>5. CASE OpenStream(k)    BY <1>2, <1>5 DEF OpenStream, Active
<1>6. CASE OpenFails(k)     BY <1>0, <1>6 DEF OpenFails, Active
<1>7. CASE RelayEnds(k)     BY <1>0, <1>7 DEF RelayEnds, Active
<1>8. CASE HttpEnds(k)      BY <1>0, <1>8 DEF HttpEnds, Active
<1>9. CASE AbortForward(k)  BY <1>0, <1>9 DEF AbortForward
<1>10. CASE Reap(k)
  <2>1. \A c \in Locals : fwd'[c] \in Active <=> fwd[c] \in Active
    BY <1>10 DEF Reap, Active
  <2>2. fwd' \in [Locals -> Active \cup {"none", "done", "reaped", "refused"}]
    BY <1>10 DEF Reap
  <2> QED BY <1>10, <2>1, <2>2, TasksSame DEF Reap, RetrySurvives, Recreated
<1> QED
  BY <1>1, <1>3, <1>4, <1>5, <1>6, <1>7, <1>8, <1>9, <1>10 DEF ForwardStep

\* Type correctness of the process and its listeners, and both connection
\* budgets: each permit is free or belongs to one forwarding task.
THEOREM BudgetTheorem == Spec => [](TypeOK /\ BudgetsExact)
<1>1. Init => Books
  <2> SUFFICES ASSUME Init PROVE Books
    OBVIOUS
  <2>1. TypeOK
    <3>1. /\ 1 \in 1 .. MaxDelay /\ MaxListener \in 0 .. MaxListener /\ MaxTotal \in 0 .. MaxTotal
          /\ 0 \in 0 .. MaxDelay
      BY ForwarderAssumption
    <3>2. ForwarderTypeOK
      BY <3>1, Zenon DEF Init, ForwarderInit, ForwarderTypeOK
    <3>3. ProcessTypeOK
      BY DEF Init, ProcessTypeOK
    <3> QED BY <3>2, <3>3 DEF TypeOK
  <2>2. {k \in Locals : fwd[k] \in Active} = {} /\ \A l \in Listeners : ActiveAt(l) = {}
    BY DEF Init, ForwarderInit, ActiveAt, Active
  <2>3. Cardinality({}) = 0 /\ MaxTotal \in Nat /\ MaxListener \in Nat
    BY FS_EmptySet, ForwarderAssumption
  <2>4. BudgetsExact
    <3>1. total = MaxTotal /\ \A l \in Listeners : free[l] = MaxListener
      BY DEF Init, ForwarderInit
    <3>2. \A l \in Listeners : Cardinality(ActiveAt(l)) = 0
      BY <2>2, <2>3
    <3>3. Cardinality({k \in Locals : fwd[k] \in Active}) = 0
      BY <2>2, <2>3
    <3> QED BY <2>3, <3>1, <3>2, <3>3 DEF BudgetsExact
  <2> QED
    BY <2>1, <2>4 DEF Books
<1>2. Books /\ [Next]_vars => Books'
  <2> SUFFICES ASSUME Books, [Next]_vars PROVE Books'
    OBVIOUS
  <2>1. CASE UNCHANGED vars
    <3>1. UNCHANGED <<free, total, at, fwd>> /\ TypeOK'
      BY <2>1 DEF Books, TypeOK, ForwarderTypeOK, ProcessTypeOK, vars, forwarderVars, processVars,
                  listener, retry, backoff, history
    <3> QED BY <3>1, TasksSame DEF Books
  <2> QED
    BY <2>1, MainKeepsBooks, ListenerKeepsBooks, ForwardKeepsBooks DEF Next
<1> QED
  BY <1>1, <1>2, PTL DEF Spec, Books

\* The retry state of a listener agrees with its history: the next delay is the one
\* the next failure calls for, and a future starts with a sleep where one is owed.
RetryInv ==
  \A l \in Listeners :
    /\ delay[l] = IF owed[l] = 0 THEN 1 ELSE Doubled(owed[l])
    /\ armed[l] <=> owed[l] # 0
    /\ waited[l] <= owed[l]
    /\ left[l] = owed[l] - waited[l]
    /\ left[l] > 0 => accept[l] = "sleep"

\* A listener without a failure on record owes no wait; the others are untouched.
LEMMA RecoveredKeeps ==
  ASSUME ForwarderTypeOK, RetryInv, NEW l \in Listeners, Recovered(l)
  PROVE  RetryInv'
BY DEF ForwarderTypeOK, RetryInv, Recovered, Default, Recreated

\* After a transient failure accept() is called again when the back-off that the
\* failure calls for has elapsed, on any listener and however many finished
\* connections drop and recreate the accept future in the meantime.
THEOREM RetryTheorem == Spec => []BackoffKept
<1>1. Init => RetryInv
  BY DEF Init, ForwarderInit, RetryInv
<1>2. TypeOK /\ RetryInv /\ [Next]_vars => RetryInv'
  <2> SUFFICES ASSUME TypeOK, RetryInv, [Next]_vars PROVE RetryInv'
    OBVIOUS
  <2> USE DEF TypeOK, ForwarderTypeOK
  <2>0. ASSUME UNCHANGED retry PROVE RetryInv'
    BY <2>0 DEF RetryInv, retry, backoff, history
  <2>1. ASSUME NEW l \in Listeners, ListenerStep(l) PROVE RetryInv'
    <3>1. CASE AcceptRetries(l)
      <4>1. owed'[l] = delay[l] /\ owed'[l] # 0 /\ owed'[l] \in Nat
        BY <3>1 DEF AcceptRetries, RetryInv
      <4>2. /\ delay'[l] = Doubled(owed'[l]) /\ armed'[l] /\ waited'[l] = 0
            /\ left'[l] = owed'[l] /\ accept'[l] = "sleep"
        BY <3>1, <4>1 DEF AcceptRetries
      <4>3. \A m \in Listeners \ {l} :
              /\ delay'[m] = delay[m] /\ owed'[m] = owed[m] /\ armed'[m] = armed[m]
              /\ waited'[m] = waited[m] /\ left'[m] = left[m] /\ accept'[m] = accept[m]
        BY <3>1 DEF AcceptRetries
      <4> QED BY <4>1, <4>2, <4>3 DEF RetryInv
    <3>2. CASE Tick(l)       BY <3>2 DEF Tick, RetryInv
    <3>3. CASE SleepEnds(l)  BY <3>3 DEF SleepEnds, RetryInv, backoff, history
    <3>4. CASE StopServing(l) \/ AcceptFails(l)
      BY <3>4, RecoveredKeeps DEF StopServing, AcceptFails
    <3>5. CASE DrainTimesOut(l) \/ JoinAll(l)
      BY <3>5, <2>0 DEF DrainTimesOut, JoinAll
    <3> QED BY <2>1, <3>1, <3>2, <3>3, <3>4, <3>5 DEF ListenerStep
  <2>2. ASSUME NEW k \in Locals, ForwardStep(k) PROVE RetryInv'
    <3>1. CASE Accept(k)  BY <3>1, RecoveredKeeps DEF Accept
    <3>2. CASE Reap(k)
      BY <3>2 DEF Reap, RetrySurvives, Recreated, RetryInv, backoff, history
    <3>3. CASE ~Accept(k) /\ ~Reap(k)
      <4>1. UNCHANGED retry
        BY <2>2, <3>3
        DEF ForwardStep, AcquireLease, AcquireFails, OpenStream, OpenFails, RelayEnds, HttpEnds,
            AbortForward, Step, End
      <4> QED BY <4>1, <2>0
    <3> QED BY <3>1, <3>2, <3>3
  <2>3. ASSUME Start \/ Loop \/ WindUp \/ DriverEnds \/ DriverLost \/ ReporterEnds \/ Signal
        PROVE  RetryInv'
    <3>1. UNCHANGED retry
      BY <2>3
      DEF Start, StartInterrupted, StartFails, Leave, BindEndpoint, BindListener, StartTasks,
          Loop, LoopSignal, LoopDriver, LoopListener, Break, WindUp, CloseReturns, CloseTimesOut,
          Drained, DrainDeadline, JoinDriver, JoinReporter, DriverEnds, DriverLost, ReporterEnds,
          Signal, forwarderVars
    <3> QED BY <3>1, <2>0
  <2>4. CASE UNCHANGED vars
    BY <2>4, <2>0 DEF vars, forwarderVars
  <2> QED
    BY <2>1, <2>2, <2>3, <2>4 DEF Next
<1>3. RetryInv => BackoffKept
  BY DEF RetryInv, BackoffKept
<1> QED
  BY <1>1, <1>2, <1>3, BudgetTheorem, PTL DEF Spec

\* However run_attachments returns, from startup or after the loop, it leaves
\* no listener bound or serving and neither driver nor reporter running.
THEOREM ExitTheorem == Spec => []ExitReleases
<1>1. Init => StageInv
  BY DEF Init, ForwarderInit, StageInv, ExitReleases
<1>2. TypeOK /\ StageInv /\ [Next]_vars => StageInv'
  <2> SUFFICES ASSUME TypeOK, StageInv, [Next]_vars PROVE StageInv'
    OBVIOUS
  <2> USE DEF TypeOK, ForwarderTypeOK, ProcessTypeOK, StageInv, ExitReleases
  <2>1. CASE Start
    <3> USE DEF forwarderVars, listener
    <3>1. CASE StartInterrupted  BY <3>1 DEF StartInterrupted, Leave
    <3>2. CASE StartFails        BY <3>2 DEF StartFails, Leave
    <3>3. CASE BindEndpoint      BY <3>3 DEF BindEndpoint
    <3>4. CASE \E l \in Listeners : BindListener(l)  BY <3>4 DEF BindListener
    <3>5. CASE StartTasks        BY <3>5 DEF StartTasks
    <3> QED BY <2>1, <3>1, <3>2, <3>3, <3>4, <3>5 DEF Start
  <2>2. CASE Loop
    BY <2>2 DEF Loop, LoopSignal, LoopDriver, LoopListener, Break, listener
  <2>3. CASE WindUp
    <3> USE DEF Proceed, forwarderVars, listener
    <3>1. CASE CloseReturns   BY <3>1 DEF CloseReturns
    <3>2. CASE CloseTimesOut  BY <3>2 DEF CloseTimesOut, AfterClose
    <3>3. CASE Drained        BY <3>3 DEF Drained
    <3>4. CASE DrainDeadline  BY <3>4 DEF DrainDeadline
    <3>5. CASE JoinDriver     BY <3>5 DEF JoinDriver
    <3>6. CASE JoinReporter   BY <3>6 DEF JoinReporter
    <3> QED BY <2>3, <3>1, <3>2, <3>3, <3>4, <3>5, <3>6 DEF WindUp
  <2>4. CASE DriverEnds \/ DriverLost \/ ReporterEnds \/ Signal
    BY <2>4 DEF DriverEnds, DriverLost, ReporterEnds, Signal, forwarderVars, listener
  <2>5. ASSUME NEW l \in Listeners, ListenerStep(l), UNCHANGED processVars PROVE StageInv'
    <3> USE DEF processVars, listener
    <3>1. CASE AcceptRetries(l)   BY <2>5, <3>1 DEF AcceptRetries
    <3>2. CASE Tick(l) \/ SleepEnds(l)  BY <2>5, <3>2 DEF Tick, SleepEnds
    <3>3. CASE StopServing(l)     BY <2>5, <3>3 DEF StopServing
    <3>4. CASE AcceptFails(l)
      <4>1. /\ serve[l] = "accepting" /\ UNCHANGED <<main, bound, driver, reporter>>
            /\ serve' = [serve EXCEPT ![l] = serve'[l]]
        BY <2>5, <3>4 DEF AcceptFails, Calling
      <4>2. main \notin {"endpoint", "bind", "driver", "reporter", "exited"}
        BY <4>1
      <4> QED BY <4>1, <4>2
    <3>5. CASE DrainTimesOut(l)   BY <2>5, <3>5 DEF DrainTimesOut
    <3>6. CASE JoinAll(l)         BY <2>5, <3>6 DEF JoinAll
    <3> QED BY <2>5, <3>1, <3>2, <3>3, <3>4, <3>5, <3>6 DEF ListenerStep
  <2>6. ASSUME NEW k \in Locals, ForwardStep(k), UNCHANGED processVars PROVE StageInv'
    <3>1. UNCHANGED serve
      BY <2>6
      DEF ForwardStep, Accept, AcquireLease, AcquireFails, OpenStream, OpenFails, RelayEnds,
          HttpEnds, AbortForward, Reap, Step, End, listener
    <3> QED BY <2>6, <3>1 DEF processVars
  <2>7. CASE UNCHANGED vars
    BY <2>7 DEF vars, forwarderVars, processVars, listener
  <2> QED
    BY <2>1, <2>2, <2>3, <2>4, <2>5, <2>6, <2>7 DEF Next
<1>3. StageInv => ExitReleases
  BY DEF StageInv
<1> QED
  BY <1>1, <1>2, <1>3, BudgetTheorem, PTL DEF Spec
=============================================================================
