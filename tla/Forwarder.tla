------------------------------ MODULE Forwarder ------------------------------
(***************************************************************************)
(* The local listeners of one attachment process: serve_listener for each  *)
(* TCP or Unix listener, run_http_listener for each HTTP one, their accept *)
(* retries, and a task per accepted connection. A connection needs a       *)
(* permit of its listener and one of the semaphore all listeners of the    *)
(* process share. AttachProcess starts and stops the listeners.            *)
(*                                                                         *)
(* Time is counted, for each listener, in units of 100 ms since the last   *)
(* accept() that failed; beyond its deadline nobody looks at it.           *)
(***************************************************************************)
EXTENDS Naturals, FiniteSets

CONSTANTS
  Listeners,    \* listeners of the process
  Http,         \* those of HTTP services
  Locals,       \* local connections that arrive
  MaxListener,  \* permits per listener (128 in the code)
  MaxTotal,     \* permits of the process (512 in the code)
  MaxDelay      \* longest back-off (10, that is one second)

ASSUME ForwarderAssumption ==
  /\ IsFiniteSet(Locals) /\ Http \subseteq Listeners
  /\ MaxListener \in Nat \ {0} /\ MaxTotal \in Nat \ {0}
  /\ MaxDelay \in Nat \ {0}

VARIABLES
  shutdown,  \* the token of the process
  serve,     \* each listener's task, "off" before it is spawned
  failed,    \* its result is an error
  accept,    \* where its AcceptRetry::accept future is: "sleep" or "call"
  armed,     \* its AcceptRetry::next_attempt is Some
  left,      \* the time until that instant, 0 when it has passed
  delay,     \* its AcceptRetry::delay
  free,      \* free permits of each listener
  total,     \* free permits of the process
  at,        \* the listener of each connection
  fwd,       \* the task of each connection
  owed,      \* history: the wait that the last failure calls for, 0 for none
  waited     \* history: the time since that failure, up to owed

backoff == <<armed, left, delay>>
history == <<owed, waited>>
retry == <<accept, backoff, history>>
listener == <<serve, failed>>
forwarderVars == <<shutdown, listener, retry, free, total, at, fwd>>

Active == {"acquire", "open", "relay", "http"}

ForwarderTypeOK ==
  /\ shutdown \in BOOLEAN
  /\ serve \in [Listeners -> {"off", "accepting", "draining", "aborting", "ended"}]
  /\ failed \in [Listeners -> BOOLEAN]
  /\ accept \in [Listeners -> {"sleep", "call"}]
  /\ armed \in [Listeners -> BOOLEAN]
  /\ left \in [Listeners -> 0 .. MaxDelay]
  /\ delay \in [Listeners -> 1 .. MaxDelay]
  /\ free \in [Listeners -> 0 .. MaxListener]
  /\ total \in 0 .. MaxTotal
  /\ at \in [Locals -> Listeners]
  /\ fwd \in [Locals -> Active \cup {"none", "done", "reaped", "refused"}]
  /\ owed \in [Listeners -> 0 .. MaxDelay]
  /\ waited \in [Listeners -> 0 .. MaxDelay]

\* A connection arrives at a listener of its choice.
ForwarderInit ==
  /\ shutdown = FALSE
  /\ serve = [l \in Listeners |-> "off"]
  /\ failed = [l \in Listeners |-> FALSE]
  /\ accept = [l \in Listeners |-> "call"]
  /\ armed = [l \in Listeners |-> FALSE]
  /\ left = [l \in Listeners |-> 0]
  /\ delay = [l \in Listeners |-> 1]
  /\ free = [l \in Listeners |-> MaxListener]
  /\ total = MaxTotal
  /\ at \in [Locals -> Listeners]
  /\ fwd = [k \in Locals |-> "none"]
  /\ owed = [l \in Listeners |-> 0]
  /\ waited = [l \in Listeners |-> 0]

-----------------------------------------------------------------------------
(* serve_listener, run_http_listener and AcceptRetry::accept               *)

\* The loop of an accept future calls accept() now.
Calling(l) == serve[l] = "accepting" /\ ~shutdown /\ accept[l] = "call"

\* AcceptRetry::default()
Default(l) ==
  /\ armed' = [armed EXCEPT ![l] = FALSE]
  /\ left' = [left EXCEPT ![l] = 0]
  /\ delay' = [delay EXCEPT ![l] = 1]

\* A new accept future: its loop sleeps first when next_attempt is Some.
Recreated(l) == accept' = [accept EXCEPT ![l] = IF armed'[l] THEN "sleep" ELSE "call"]

\* No failure is on record, and the next accept() is not delayed.
Recovered(l) ==
  /\ Default(l) /\ Recreated(l)
  /\ owed' = [owed EXCEPT ![l] = 0]
  /\ waited' = [waited EXCEPT ![l] = 0]

\* Fault: a connection refused by the process keeps its listener's permit.
TakePermitsLeaky(k) ==
  LET l == at[k] IN
  /\ free' = [free EXCEPT ![l] = IF @ = 0 THEN 0 ELSE @ - 1]
  /\ total' = IF free[l] = 0 \/ total = 0 THEN total ELSE total - 1

\* try_acquire_owned() on both semaphores: all or nothing.
TakePermits(k) ==
  LET l == at[k] IN
  IF free[l] > 0 /\ total > 0
  THEN free' = [free EXCEPT ![l] = @ - 1] /\ total' = total - 1
  ELSE UNCHANGED <<free, total>>

\* A connection is accepted and served, or dropped at a limit; the retry state
\* is reset.
Accept(k) ==
  LET l == at[k] IN
  /\ Calling(l) /\ fwd[k] = "none"
  /\ TakePermits(k)
  /\ fwd' = [fwd EXCEPT ![k] = IF free[l] = 0 \/ total = 0 THEN "refused"
                                   ELSE IF l \in Http THEN "http" ELSE "acquire"]
  /\ Recovered(l)
  /\ UNCHANGED <<shutdown, listener, at>>

Doubled(d) == IF 2 * d > MaxDelay THEN MaxDelay ELSE 2 * d

\* A retryable error sets next_attempt, by the delay before it is doubled, and
\* the loop begins again.
AcceptRetries(l) ==
  /\ Calling(l)
  /\ armed' = [armed EXCEPT ![l] = TRUE]
  /\ left' = [left EXCEPT ![l] = delay[l]]
  /\ delay' = [delay EXCEPT ![l] = Doubled(@)]
  /\ accept' = [accept EXCEPT ![l] = "sleep"]
  /\ owed' = [owed EXCEPT ![l] = IF @ = 0 THEN 1 ELSE Doubled(@)]
  /\ waited' = [waited EXCEPT ![l] = 0]
  /\ UNCHANGED <<shutdown, listener, free, total, at, fwd>>

Tick(l) ==
  /\ serve[l] = "accepting" /\ ~shutdown /\ (left[l] > 0 \/ waited[l] < owed[l])
  /\ left' = [left EXCEPT ![l] = IF @ = 0 THEN 0 ELSE @ - 1]
  /\ waited' = [waited EXCEPT ![l] = IF @ < owed[l] THEN @ + 1 ELSE @]
  /\ UNCHANGED <<shutdown, listener, accept, armed, delay, owed, free, total, at, fwd>>

\* sleep_until(next_attempt)
SleepEnds(l) ==
  /\ serve[l] = "accepting" /\ ~shutdown /\ accept[l] = "sleep" /\ left[l] = 0
  /\ accept' = [accept EXCEPT ![l] = "call"]
  /\ UNCHANGED <<shutdown, listener, backoff, history, free, total, at, fwd>>

\* Fault: the retry state is a part of the accept future.
RetryForgotten(l) == Default(l)

\* The retry state belongs to the listener's task and outlives the future.
RetrySurvives(l) == UNCHANGED backoff

\* join_next() wins the select: the accept future is dropped in its sleep or in its
\* call, and the next turn of the loop makes a new one. The HTTP loop reaps every
\* finished task, and its select is not biased towards shutdown.
Reap(k) ==
  LET l == at[k] IN
  /\ serve[l] = "accepting" /\ fwd[k] = "done" /\ (shutdown => l \in Http)
  /\ fwd' = [c \in Locals |->
               IF c = k \/ (l \in Http /\ at[c] = l /\ fwd[c] = "done") THEN "reaped" ELSE fwd[c]]
  /\ RetrySurvives(l) /\ Recreated(l)
  /\ UNCHANGED <<shutdown, listener, history, free, total, at>>

\* Shutdown ends the accept loop, also while it waits for a back-off; nobody reads
\* its AcceptRetry again.
StopServing(l) ==
  /\ serve[l] = "accepting" /\ shutdown
  /\ serve' = [serve EXCEPT ![l] = "draining"]
  /\ Recovered(l)
  /\ UNCHANGED <<shutdown, failed, free, total, at, fwd>>

\* So does any other error, which becomes the result: serve_listener drains its
\* tasks first, run_http_listener returns and drops them.
AcceptFails(l) ==
  /\ Calling(l)
  /\ serve' = [serve EXCEPT ![l] = IF l \in Http THEN "ended" ELSE "draining"]
  /\ failed' = [failed EXCEPT ![l] = TRUE]
  /\ Recovered(l)
  /\ UNCHANGED <<shutdown, free, total, at, fwd>>

\* Fault: the listener waits for its tasks as long as they like.
DrainTimesOutNever(l) == FALSE /\ UNCHANGED forwarderVars

\* The listener is dropped; its tasks have SHUTDOWN_TIMEOUT to end...
DrainTimesOut(l) ==
  /\ serve[l] = "draining"
  /\ serve' = [serve EXCEPT ![l] = "aborting"]
  /\ UNCHANGED <<shutdown, failed, retry, free, total, at, fwd>>

Joined(l) == \A k \in Locals : at[k] = l => fwd[k] \notin Active

\* ...and are joined before serve_listener returns; run_http_listener returns
\* without waiting for the tasks it has aborted.
JoinAll(l) ==
  /\ \/ serve[l] \in {"draining", "aborting"} /\ Joined(l)
     \/ serve[l] = "aborting" /\ l \in Http
  /\ serve' = [serve EXCEPT ![l] = "ended"]
  /\ UNCHANGED <<shutdown, failed, retry, free, total, at, fwd>>

-----------------------------------------------------------------------------
(* forward_connection, or the HTTP connection: its permits end with it.    *)

Step(k, from, to) ==
  /\ fwd[k] = from
  /\ fwd' = [fwd EXCEPT ![k] = to]
  /\ UNCHANGED <<shutdown, listener, retry, free, total, at>>

End(k) ==
  /\ fwd' = [fwd EXCEPT ![k] = "done"]
  /\ free' = [free EXCEPT ![at[k]] = @ + 1]
  /\ total' = total + 1
  /\ UNCHANGED <<shutdown, listener, retry, at>>

\* session.acquire, or its deadline, or shutdown
AcquireLease(k) == Step(k, "acquire", "open")
AcquireFails(k) == fwd[k] = "acquire" /\ End(k)

\* lease.open_tcp under the same token
OpenStream(k) == Step(k, "open", "relay")
OpenFails(k) == fwd[k] = "open" /\ End(k)

\* relay_with_idle_policy, which does not look at the token
RelayEnds(k) == fwd[k] = "relay" /\ End(k)

\* serve_connection: the client goes, or hyper is done with it.
HttpEnds(k) == fwd[k] = "http" /\ End(k)

\* tasks.abort_all(), or the drop of the task's JoinSet
AbortForward(k) ==
  fwd[k] \in Active /\ serve[at[k]] \in {"aborting", "ended"} /\ End(k)

-----------------------------------------------------------------------------

ListenerStep(l) ==
  \/ AcceptRetries(l) \/ Tick(l) \/ SleepEnds(l) \/ StopServing(l) \/ AcceptFails(l)
  \/ DrainTimesOut(l) \/ JoinAll(l)

ForwardStep(k) ==
  \/ Accept(k) \/ AcquireLease(k) \/ AcquireFails(k) \/ OpenStream(k) \/ OpenFails(k)
  \/ RelayEnds(k) \/ HttpEnds(k) \/ AbortForward(k) \/ Reap(k)

-----------------------------------------------------------------------------

ActiveAt(l) == {k \in Locals : at[k] = l /\ fwd[k] \in Active}

\* Both budgets are exact: a permit is free or belongs to a forwarding task,
\* also after a connection was refused by the second of the two semaphores.
BudgetsExact ==
  /\ \A l \in Listeners : free[l] + Cardinality(ActiveAt(l)) = MaxListener
  /\ total + Cardinality({k \in Locals : fwd[k] \in Active}) = MaxTotal

\* An accept() that failed is repeated neither before nor later than its back-off
\* asks: 100 ms at first, twice the last one up to a second, counted from the
\* failure, although every connection that ends drops the sleeping future and the
\* next one starts over from AcceptRetry.
BackoffKept ==
  \A l \in Listeners :
    /\ left[l] = owed[l] - waited[l]
    /\ left[l] > 0 => accept[l] = "sleep"

\* docs/unix-sockets.md, Connection budgets: at most 128 (MaxListener) active
\* raw-stream connections per attachment process.
ProcessBudget == Cardinality({k \in Locals : fwd[k] \in Active}) <= MaxListener
=============================================================================
