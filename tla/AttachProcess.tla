---------------------------- MODULE AttachProcess ----------------------------
(***************************************************************************)
(* run_attachments, the process of `locho attach`: it binds one listener   *)
(* per service, starts the session driver, a reporter of its status and a  *)
(* task per listener (Forwarder), waits for the first of a signal, the end *)
(* of the driver and the end of a listener, and then winds everything up.  *)
(* The session itself is PeerSession; here its driver ends when it is told *)
(* to, or by itself when the endpoint is lost or the task panics.          *)
(***************************************************************************)
EXTENDS Forwarder

VARIABLES
  main,      \* where run_attachments is
  signal,    \* an interrupt or terminate signal has arrived
  bound,     \* listeners bound so far
  closing,   \* the session was told to close
  driver,    \* the task of the session driver
  reporter,  \* the task that prints status changes
  result     \* what the process reports

processVars == <<main, signal, bound, closing, driver, reporter, result>>
vars == <<forwarderVars, processVars>>

ProcessTypeOK ==
  /\ main \in {"endpoint", "bind", "loop", "close", "drain", "driver",
               "reporter", "exited"}
  /\ signal \in BOOLEAN /\ closing \in BOOLEAN
  /\ bound \subseteq Listeners
  /\ driver \in {"none", "running", "ended", "lost"}
  /\ reporter \in {"none", "running", "ended"}
  /\ result \in {"none", "ok", "error"}

Init ==
  /\ ForwarderInit
  /\ main = "endpoint" /\ signal = FALSE /\ bound = {} /\ closing = FALSE
  /\ driver = "none" /\ reporter = "none" /\ result = "none"

-----------------------------------------------------------------------------
(* Startup. Each await is raced, biased, with the signal; returning drops   *)
(* the endpoint and the listeners bound so far.                            *)

Leave(verdict) ==
  /\ main' = "exited" /\ result' = verdict /\ bound' = {}
  /\ UNCHANGED <<forwarderVars, signal, closing, driver, reporter>>

StartInterrupted == main \in {"endpoint", "bind"} /\ signal /\ Leave("ok")

StartFails == main \in {"endpoint", "bind"} /\ ~signal /\ Leave("error")

BindEndpoint ==
  /\ main = "endpoint" /\ ~signal
  /\ main' = "bind"
  /\ UNCHANGED <<forwarderVars, signal, bound, closing, driver, reporter, result>>

BindListener(l) ==
  /\ main = "bind" /\ ~signal /\ l \notin bound
  /\ bound' = bound \cup {l}
  /\ UNCHANGED <<forwarderVars, main, signal, closing, driver, reporter, result>>

\* PeerSession::start; driver, reporter and listeners become tasks.
StartTasks ==
  /\ main = "bind" /\ ~signal /\ bound = Listeners
  /\ main' = "loop" /\ driver' = "running" /\ reporter' = "running" /\ bound' = {}
  /\ serve' = [l \in Listeners |-> "accepting"]
  /\ UNCHANGED <<shutdown, failed, retry, free, total, at, fwd, signal, closing, result>>

-----------------------------------------------------------------------------
(* The loop, and what follows it.                                          *)

\* shutdown.cancel() and the call of close()
Break(verdict) ==
  /\ main = "loop"
  /\ main' = "close" /\ result' = verdict
  /\ shutdown' = TRUE /\ closing' = TRUE
  /\ UNCHANGED <<listener, retry, free, total, at, fwd, signal, bound, driver, reporter>>

LoopSignal == signal /\ Break("ok")
LoopDriver == driver = "lost" /\ Break("error")

\* A listener can only end by an error while the token is not cancelled.
LoopListener == (\E l \in Listeners : serve[l] = "ended" /\ failed[l]) /\ Break("error")

Proceed(from, to) ==
  /\ main = from /\ main' = to
  /\ UNCHANGED <<signal, bound, closing, driver, reporter>>

\* close() returns the session's terminal error, if it has one.
CloseReturns ==
  /\ driver # "running" /\ Proceed("close", "drain")
  /\ result' = IF driver = "lost" THEN "error" ELSE result
  /\ UNCHANGED forwarderVars

\* Fault: an error of close() ends the process at once.
AfterCloseError == "exited"

AfterClose == "drain"

CloseTimesOut ==
  /\ driver = "running" /\ Proceed("close", AfterClose)
  /\ result' = "error"
  /\ UNCHANGED forwarderVars

Drained ==
  /\ \A l \in Listeners : serve[l] = "ended"
  /\ Proceed("drain", "driver")
  /\ UNCHANGED <<forwarderVars, result>>

\* listener_tasks.abort_all(): a dropped listener task drops its connections.
DrainDeadline ==
  /\ \E l \in Listeners : serve[l] # "ended"
  /\ Proceed("drain", "driver")
  /\ serve' = [l \in Listeners |-> "ended"]
  /\ UNCHANGED <<shutdown, failed, retry, free, total, at, fwd, result>>

JoinDriver ==
  /\ driver # "running" /\ Proceed("driver", "reporter")
  /\ UNCHANGED <<forwarderVars, result>>

JoinReporter ==
  /\ reporter = "ended" /\ Proceed("reporter", "exited")
  /\ UNCHANGED <<forwarderVars, result>>

-----------------------------------------------------------------------------
(* The other tasks, and the user.                                          *)

DriverEnds ==
  /\ driver = "running" /\ closing
  /\ driver' = "ended"
  /\ UNCHANGED <<forwarderVars, main, signal, bound, closing, reporter, result>>

\* The endpoint is lost or the task panics.
DriverLost ==
  /\ driver = "running"
  /\ driver' = "lost"
  /\ UNCHANGED <<forwarderVars, main, signal, bound, closing, reporter, result>>

\* The reporter sees the Closed status, which the driver leaves in either case.
ReporterEnds ==
  /\ reporter = "running" /\ driver # "running"
  /\ reporter' = "ended"
  /\ UNCHANGED <<forwarderVars, main, signal, bound, closing, driver, result>>

Signal ==
  /\ ~signal /\ main # "exited"
  /\ signal' = TRUE
  /\ UNCHANGED <<forwarderVars, main, bound, closing, driver, reporter, result>>

-----------------------------------------------------------------------------

Start ==
  \/ StartInterrupted \/ StartFails \/ BindEndpoint
  \/ (\E l \in Listeners : BindListener(l)) \/ StartTasks

Loop == LoopSignal \/ LoopDriver \/ LoopListener

WindUp ==
  CloseReturns \/ CloseTimesOut \/ Drained \/ DrainDeadline \/ JoinDriver \/ JoinReporter

Next ==
  \/ Start \/ Loop \/ WindUp
  \/ DriverEnds \/ DriverLost \/ ReporterEnds \/ Signal
  \/ (\E l \in Listeners : ListenerStep(l)) /\ UNCHANGED processVars
  \/ (\E k \in Locals : ForwardStep(k)) /\ UNCHANGED processVars

\* The main task is polled, the driver obeys its token (PeerSession proves it
\* can), the selects see theirs, timers fire and aborted tasks are dropped.
\* Clients, peers and relays need never do anything.
Fairness ==
  /\ WF_vars(StartInterrupted) /\ WF_vars(Loop) /\ WF_vars(WindUp)
  /\ WF_vars(DriverEnds) /\ WF_vars(ReporterEnds)
  /\ \A l \in Listeners :
       WF_vars((StopServing(l) \/ DrainTimesOut(l) \/ JoinAll(l)) /\ UNCHANGED processVars)
  /\ \A k \in Locals : WF_vars(AbortForward(k) /\ UNCHANGED processVars)

Spec == Init /\ [][Next]_vars /\ Fairness

-----------------------------------------------------------------------------

\* When run_attachments returns, by whatever path, no listener is left bound
\* and neither the driver nor the reporter is still running.
ExitReleases ==
  main = "exited" =>
    /\ driver # "running" /\ reporter # "running" /\ bound = {}
    /\ \A l \in Listeners : serve[l] \in {"off", "ended"}

\* A signal at any moment, also during startup, a lost driver or a failed
\* listener ends the process and every local connection, although relays and
\* idle HTTP connections do not observe the token.
ProcessStops ==
  signal \/ driver = "lost" \/ (\E l \in Listeners : failed[l])
    ~> main = "exited" /\ \A k \in Locals : fwd[k] \notin Active
=============================================================================
