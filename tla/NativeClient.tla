----------------------------- MODULE NativeClient -----------------------------
(***************************************************************************)
(* The native attachment client: a Client registers attachments, each      *)
(* attachment is owned by one task (run_attachment) that binds a loopback  *)
(* listener, runs a peer session and mirrors the session's status into its *)
(* own. Startup futures, attachment handles, Client::close and the last    *)
(* client handle all end an attachment by cancelling its token, from any   *)
(* thread and at any moment.                                               *)
(*                                                                         *)
(* The peer session appears only through its status channel (what it can   *)
(* publish is PeerSession's business) and the listener task only through   *)
(* whether its port is bound. Time is abstract: a timer may expire         *)
(* whenever its branch can be taken. ExecutorStalls says whether the       *)
(* 13-second timers of the close calls may expire at all: the tasks they   *)
(* wait for end within 12 seconds as long as the executor polls them.      *)
(***************************************************************************)
EXTENDS Naturals, FiniteSets

CONSTANTS
  Attachments,   \* one identity per start_tcp / attach_tcp call
  Closers,       \* concurrent Client::close calls
  ExecutorStalls,\* the executor may be too slow for the 13-second timers, or
                 \* be destroyed before it polls a spawned task
  RuntimeDrops   \* the runtime may be destroyed under a task it has polled

ASSUME ClientAssumption == ExecutorStalls \in BOOLEAN /\ RuntimeDrops \in BOOLEAN

\* SessionState; Connecting also stands for Reconnecting.
States == {"Starting", "Connecting", "Connected", "Failed", "Closing", "Closed"}

\* ClientError as a terminal cause: Setup stands for every validation or bind
\* error, Peer for an error the session ended with.
Errors == {"None", "Setup", "StartupTimeout", "Peer", "TaskFailed",
           "ListenerFailed", "ShutdownTimeout"}

TaskPC == {"none", "spawned", "setup", "refuse", "mirror", "select", "stop",
           "fail", "closing", "cleanup", "join", "report", "final", "complete",
           "unwind", "gone", "lost"}

\* The task has ended, and with it TaskCleanup has aborted its children.
Ended == {"complete", "unwind", "gone", "lost"}

\* Where run_attachment is suspended; a destroyed runtime drops it there.
AwaitPoints == {"setup", "select", "cleanup", "join"}

VARIABLES
  \* Registry
  closed, attached, closeError, clientAlive,
  \* the task of each attachment, and its locals
  task, connect, failure,
  \* Control: token and status
  cancel, state, terminal,
  \* the listener task, the driver task and the session's status
  listener, driver, peer, peerError, peerNews,
  \* the startup future, its oneshot channel, and the handles it gave out
  start, reply, handle, closing, results,
  \* Client::close calls
  closer, pending, closerError, closeResult

registry == <<closed, attached, closeError, clientAlive>>
local == <<task, connect, failure>>
control == <<cancel, state, terminal>>
children == <<listener, driver, peer, peerError, peerNews>>
owners == <<start, handle, closing, results>>
closers == <<closer, pending, closerError, closeResult>>
vars == <<registry, local, control, children, owners, reply, closers>>

TypeOK ==
  /\ closed \in BOOLEAN /\ clientAlive \in BOOLEAN
  /\ attached \in SUBSET Attachments
  /\ closeError \in Errors
  /\ task \in [Attachments -> TaskPC]
  /\ connect \in [Attachments -> BOOLEAN]
  /\ failure \in [Attachments -> Errors]
  /\ cancel \in [Attachments -> BOOLEAN]
  /\ state \in [Attachments -> States]
  /\ terminal \in [Attachments -> Errors]
  /\ listener \in [Attachments -> {"none", "bound", "failed", "released"}]
  /\ driver \in [Attachments -> {"none", "running", "done"}]
  /\ peer \in [Attachments -> States]
  /\ peerError \in [Attachments -> {"None", "Session"}]
  /\ peerNews \in [Attachments -> BOOLEAN]
  /\ start \in [Attachments -> {"idle", "waiting", "ok", "failed"}]
  /\ reply \in [Attachments -> {"empty", "ok", "error", "dropped"}]
  /\ handle \in [Attachments -> BOOLEAN]
  /\ closing \in [Attachments -> BOOLEAN]
  /\ results \in [Attachments -> SUBSET Errors]
  /\ closer \in [Closers -> {"idle", "cancelling", "waiting", "record", "done"}]
  /\ pending \in [Closers -> SUBSET Attachments]
  /\ closerError \in [Closers -> Errors]
  /\ closeResult \in [Closers -> Errors]

Init ==
  /\ closed = FALSE /\ attached = {} /\ closeError = "None" /\ clientAlive = TRUE
  /\ task = [a \in Attachments |-> "none"]
  /\ connect \in [Attachments -> BOOLEAN]
  /\ failure = [a \in Attachments |-> "None"]
  /\ cancel = [a \in Attachments |-> FALSE]
  /\ state = [a \in Attachments |-> "Starting"]
  /\ terminal = [a \in Attachments |-> "None"]
  /\ listener = [a \in Attachments |-> "none"]
  /\ driver = [a \in Attachments |-> "none"]
  /\ peer = [a \in Attachments |-> "Starting"]
  /\ peerError = [a \in Attachments |-> "None"]
  /\ peerNews = [a \in Attachments |-> FALSE]
  /\ start = [a \in Attachments |-> "idle"]
  /\ reply = [a \in Attachments |-> "empty"]
  /\ handle = [a \in Attachments |-> FALSE]
  /\ closing = [a \in Attachments |-> FALSE]
  /\ results = [a \in Attachments |-> {}]
  /\ closer = [k \in Closers |-> "idle"]
  /\ pending = [k \in Closers |-> {}]
  /\ closerError = [k \in Closers |-> "None"]
  /\ closeResult = [k \in Closers |-> "None"]

-----------------------------------------------------------------------------

OrElse(error, other) == IF error = "None" THEN other ELSE error

Goto(a, from, to) == task[a] = from /\ task' = [task EXCEPT ![a] = to]

\* The token's cancel(), as every owner of the attachment calls it.
Cancel(a) == cancel' = [cancel EXCEPT ![a] = TRUE]

SetStatus(a, newState, error) ==
  /\ state' = [state EXCEPT ![a] = newState]
  /\ terminal' = [terminal EXCEPT ![a] = error]

-----------------------------------------------------------------------------
(* Client::start and the guards of the future it returns.                  *)

\* Fault: a start that waited for the lock does not look at `closed` again.
StartUnchecked(a) ==
  /\ start[a] = "idle" /\ clientAlive
  /\ Goto(a, "none", "spawned")
  /\ start' = [start EXCEPT ![a] = "waiting"]
  /\ attached' = attached \cup {a}
  /\ UNCHANGED <<closed, closeError, clientAlive, connect, failure, control,
                 children, reply, handle, closing, results, closers>>

\* Registration happens under the registry lock, before any await.
Start(a) ==
  /\ start[a] = "idle" /\ clientAlive /\ ~closed
  /\ Goto(a, "none", "spawned")
  /\ start' = [start EXCEPT ![a] = "waiting"]
  /\ attached' = attached \cup {a}
  /\ UNCHANGED <<closed, closeError, clientAlive, connect, failure, control,
                 children, reply, handle, closing, results, closers>>

StartRefused(a) ==
  /\ start[a] = "idle" /\ clientAlive /\ closed
  /\ start' = [start EXCEPT ![a] = "failed"]
  /\ UNCHANGED <<registry, local, control, children, reply, handle, closing, results, closers>>

StartReturns(a) ==
  /\ start[a] = "waiting" /\ reply[a] = "ok"
  /\ start' = [start EXCEPT ![a] = "ok"]
  /\ handle' = [handle EXCEPT ![a] = TRUE]
  /\ UNCHANGED <<registry, local, control, children, reply, closing, results, closers>>

\* wait_closed() before the error is returned, whatever it says
StartFails(a) ==
  /\ start[a] = "waiting" /\ reply[a] = "error"
  /\ state[a] = "Closed" \/ ExecutorStalls
  /\ start' = [start EXCEPT ![a] = "failed"]
  /\ UNCHANGED <<registry, local, control, children, reply, handle, closing, results, closers>>

\* Fault: the guard is disarmed before the reply is there.
StartDroppedSilently(a) ==
  /\ start[a] = "waiting" /\ reply[a] # "dropped"
  /\ start' = [start EXCEPT ![a] = "failed"]
  /\ UNCHANGED <<registry, local, control, children, reply, handle, closing, results, closers>>

\* The caller drops the future: the armed StartupGuard cancels.
StartDropped(a) ==
  /\ start[a] = "waiting" /\ reply[a] # "dropped"
  /\ start' = [start EXCEPT ![a] = "failed"]
  /\ Cancel(a)
  /\ UNCHANGED <<registry, local, state, terminal, children, reply, handle, closing, results, closers>>

\* The task's end of the oneshot channel is gone.
StartLosesTask(a) ==
  /\ start[a] = "waiting" /\ reply[a] = "dropped"
  /\ start' = [start EXCEPT ![a] = "failed"]
  /\ Cancel(a)
  /\ UNCHANGED <<registry, local, state, terminal, children, reply, handle, closing, results, closers>>

-----------------------------------------------------------------------------
(* run_attachment.                                                         *)

TaskBegins(a) ==
  /\ Goto(a, "spawned", "setup")
  /\ UNCHANGED <<registry, connect, failure, control, children, owners, reply, closers>>

\* The runtime is destroyed before the first poll: no Completion exists yet.
TaskLost(a) ==
  /\ ExecutorStalls
  /\ Goto(a, "spawned", "lost")
  /\ reply' = [reply EXCEPT ![a] = "dropped"]
  /\ UNCHANGED <<registry, connect, failure, control, children, owners, closers>>

\* Cancelled (no terminal error), or setup failed or timed out.
SetupFails(a) ==
  /\ Goto(a, "setup", "refuse")
  /\ \E error \in IF cancel[a] THEN {"None"} ELSE {"Setup", "StartupTimeout"} :
       SetStatus(a, "Closed", error)
  /\ UNCHANGED <<registry, connect, failure, cancel, children, owners, reply, closers>>

Refuse(a) ==
  /\ Goto(a, "refuse", "complete")
  /\ reply' = [reply EXCEPT ![a] = "error"]
  /\ UNCHANGED <<registry, connect, failure, control, children, owners, closers>>

\* Listener and endpoint are bound, both tasks spawned; start_tcp is answered.
SetupSucceeds(a) ==
  /\ ~cancel[a]
  /\ Goto(a, "setup", "mirror")
  /\ listener' = [listener EXCEPT ![a] = "bound"]
  /\ driver' = [driver EXCEPT ![a] = "running"]
  /\ SetStatus(a, "Connecting", terminal[a])
  /\ reply' = [reply EXCEPT ![a] = IF connect[a] THEN @ ELSE "ok"]
  /\ UNCHANGED <<registry, connect, failure, cancel, peer, peerError, peerNews, owners, closers>>

\* ClientError::Peer wraps an error of the session.
PeerCause(error) == IF error = "None" THEN "None" ELSE "Peer"

\* The head of the loop copies the session's snapshot, whatever it is.
Mirror(a) ==
  /\ Goto(a, "mirror", IF peer[a] = "Closed" THEN "stop" ELSE "select")
  /\ peerNews' = [peerNews EXCEPT ![a] = FALSE]
  /\ SetStatus(a, peer[a], terminal[a])
  /\ failure' = [failure EXCEPT
       ![a] = IF peer[a] = "Closed" THEN OrElse(PeerCause(peerError[a]), "TaskFailed")
              ELSE @]
  /\ reply' = [reply EXCEPT
       ![a] = IF peer[a] = "Connected" /\ @ = "empty" THEN "ok" ELSE @]
  /\ UNCHANGED <<registry, connect, cancel, listener, driver, peer, peerError, owners, closers>>

\* The branches of the biased select, in order.
SelectCancelled(a) ==
  /\ cancel[a]
  /\ Goto(a, "select", "stop")
  /\ UNCHANGED <<registry, connect, failure, control, children, owners, reply, closers>>

\* Fault: attach_tcp's budget covers the setup only.
BranchReadyUntimed(a, error) ==
  \/ error = "TaskFailed" /\ driver[a] = "done"
  \/ error = "ListenerFailed" /\ driver[a] # "done" /\ listener[a] = "failed"

\* Which failing branch the select takes.
BranchReady(a, error) ==
  \/ error = "TaskFailed" /\ driver[a] = "done"
  \/ error = "ListenerFailed" /\ driver[a] # "done" /\ listener[a] = "failed"
  \/ error = "StartupTimeout" /\ driver[a] # "done" /\ listener[a] = "bound"
     /\ reply[a] = "empty"

SelectFails(a, error) ==
  /\ ~cancel[a] /\ BranchReady(a, error)
  /\ Goto(a, "select", "stop")
  /\ failure' = [failure EXCEPT ![a] = error]
  /\ UNCHANGED <<registry, connect, control, children, owners, reply, closers>>

SelectChanged(a) ==
  /\ ~cancel[a] /\ driver[a] # "done" /\ listener[a] = "bound" /\ peerNews[a]
  /\ Goto(a, "select", "mirror")
  /\ UNCHANGED <<registry, connect, failure, control, children, owners, reply, closers>>

StopAttachment(a) ==
  /\ Goto(a, "stop", IF failure[a] = "None" THEN "closing" ELSE "fail")
  /\ Cancel(a)
  /\ UNCHANGED <<registry, connect, failure, state, terminal, children, owners, reply, closers>>

ReportFailed(a) ==
  /\ Goto(a, "fail", "closing")
  /\ SetStatus(a, "Failed", failure[a])
  /\ UNCHANGED <<registry, connect, failure, cancel, children, owners, reply, closers>>

\* Control::closing
ReportClosing(a) ==
  /\ Goto(a, "closing", "cleanup")
  /\ SetStatus(a, IF state[a] = "Closed" THEN "Closed" ELSE "Closing", terminal[a])
  /\ UNCHANGED <<registry, connect, failure, cancel, children, owners, reply, closers>>

\* session.close() returns the session's terminal error, or gives up waiting.
CloseSession(a) ==
  /\ Goto(a, "cleanup", "join")
  /\ failure' = [failure EXCEPT
       ![a] = OrElse(@, PeerCause(IF peer[a] = "Closed" THEN peerError[a] ELSE "Session"))]
  /\ UNCHANGED <<registry, connect, control, children, owners, reply, closers>>

Join(a) ==
  /\ listener[a] \in {"failed", "released"} /\ driver[a] = "done"
  /\ Goto(a, "join", "report")
  /\ UNCHANGED <<registry, connect, failure, control, children, owners, reply, closers>>

\* Fault: what the budget cuts off is left to itself.
AbortChildrenNot(a) == UNCHANGED children

\* Abort and join both tasks; a dropped driver closes its session.
AbortChildren(a) ==
  /\ listener' = [listener EXCEPT ![a] = IF @ = "failed" THEN @ ELSE "released"]
  /\ driver' = [driver EXCEPT ![a] = "done"]
  /\ peer' = [peer EXCEPT ![a] = "Closed"]
  /\ peerError' = [peerError EXCEPT ![a] = IF peer[a] = "Closed" THEN @ ELSE "Session"]
  /\ UNCHANGED peerNews

\* What the 12-second budget covers.
InBudget(a) == task[a] \in {"cleanup", "join"}

TimeoutCause(a) == OrElse(failure[a], "ShutdownTimeout")

CleanupTimesOut(a) ==
  /\ InBudget(a)
  /\ task' = [task EXCEPT ![a] = "report"]
  /\ AbortChildren(a)
  /\ failure' = [failure EXCEPT ![a] = TimeoutCause(a)]
  /\ UNCHANGED <<registry, connect, control, owners, reply, closers>>

ReportStartup(a) ==
  /\ Goto(a, "report", "final")
  /\ reply' = [reply EXCEPT ![a] = IF @ = "empty" THEN "error" ELSE @]
  /\ UNCHANGED <<registry, connect, failure, control, children, owners, closers>>

\* Control::closed
ReportClosed(a) ==
  /\ Goto(a, "final", "complete")
  /\ SetStatus(a, "Closed", failure[a])
  /\ UNCHANGED <<registry, connect, failure, cancel, children, owners, reply, closers>>

\* The runtime is destroyed under the task; TaskCleanup aborts its children.
TaskDropped(a) ==
  /\ RuntimeDrops /\ task[a] \in AwaitPoints
  /\ task' = [task EXCEPT ![a] = "unwind"]
  /\ reply' = [reply EXCEPT ![a] = IF @ = "empty" THEN "dropped" ELSE @]
  /\ UNCHANGED <<registry, connect, failure, control, children, owners, closers>>

\* Fault: a task that is unwound leaves its status as it was.
CompletionStatusKept(a) == UNCHANGED <<cancel, state, terminal>>

\* Drop for Completion: a task that did not get to Closed failed...
CompletionStatus(a) ==
  IF state[a] = "Closed" THEN UNCHANGED control
  ELSE Cancel(a) /\ SetStatus(a, "Closed", "TaskFailed")

\* ...and the attachment leaves the registry, with its error if the client
\* is closing.
Complete(a) ==
  LET error == terminal'[a] IN
  /\ Goto(a, "complete", "gone") \/ Goto(a, "unwind", "gone")
  /\ CompletionStatus(a)
  /\ IF clientAlive
     THEN /\ closeError' = IF closed THEN OrElse(closeError, error) ELSE closeError
          /\ attached' = attached \ {a}
     ELSE UNCHANGED <<closeError, attached>>
  /\ UNCHANGED <<closed, clientAlive, connect, failure, children, owners, reply, closers>>

-----------------------------------------------------------------------------
(* What the listener task and the peer session do meanwhile.               *)

ListenerFails(a) ==
  /\ listener[a] = "bound"
  /\ listener' = [listener EXCEPT ![a] = "failed"]
  /\ UNCHANGED <<registry, local, control, driver, peer, peerError, peerNews, owners, reply, closers>>

\* serve_listener drops the listener and drains once the token is cancelled,
\* or its task is aborted.
ListenerStops(a) ==
  /\ listener[a] = "bound" /\ (cancel[a] \/ task[a] \in Ended)
  /\ listener' = [listener EXCEPT ![a] = "released"]
  /\ UNCHANGED <<registry, local, control, driver, peer, peerError, peerNews, owners, reply, closers>>

\* The statuses a session publishes (see PeerSession): it fails when its
\* endpoint is lost, and shuts down after that or when close() is called.
PeerPublishes(a, newState) ==
  /\ driver[a] = "running" /\ newState # peer[a]
  /\ CASE newState \in {"Connecting", "Connected", "Failed"} ->
              peer[a] \in {"Starting", "Connecting", "Connected"}
       [] newState = "Closing" ->
              peer[a] # "Closed" /\ (peer[a] = "Failed" \/ task[a] \in {"cleanup", "join"})
       [] newState = "Closed" -> peer[a] = "Closing"
       [] OTHER -> FALSE
  /\ peer' = [peer EXCEPT ![a] = newState]
  /\ \E error \in {peerError[a], "Session"} :
       /\ newState = "Failed" => error = "Session"
       /\ newState \notin {"Failed", "Closed"} => error = peerError[a]
       /\ peerError' = [peerError EXCEPT ![a] = error]
  /\ peerNews' = [peerNews EXCEPT ![a] = TRUE]
  /\ UNCHANGED <<registry, local, control, listener, driver, owners, reply, closers>>

\* The driver's future is dropped: its task panicked or was aborted.
DriverDropped(a) ==
  /\ driver[a] = "running" /\ peer[a] # "Closed"
  /\ peer' = [peer EXCEPT ![a] = "Closed"]
  /\ peerError' = [peerError EXCEPT ![a] = "Session"]
  /\ peerNews' = [peerNews EXCEPT ![a] = TRUE]
  /\ UNCHANGED <<registry, local, control, listener, driver, owners, reply, closers>>

DriverEnds(a) ==
  /\ driver[a] = "running" /\ peer[a] = "Closed"
  /\ driver' = [driver EXCEPT ![a] = "done"]
  /\ UNCHANGED <<registry, local, control, listener, peer, peerError, peerNews, owners, reply, closers>>

-----------------------------------------------------------------------------
(* Attachment handles.                                                     *)

\* Any number of concurrent Attachment::close calls: cancel, then wait.
CloseAttachment(a) ==
  /\ handle[a] /\ ~closing[a]
  /\ closing' = [closing EXCEPT ![a] = TRUE]
  /\ Cancel(a)
  /\ UNCHANGED <<registry, local, state, terminal, children, start, reply, handle, results, closers>>

CloseAttachmentReturns(a) ==
  /\ closing[a]
  /\ \/ /\ state[a] = "Closed"
        /\ results' = [results EXCEPT ![a] = @ \cup {terminal[a]}]
     \/ /\ ExecutorStalls /\ state[a] # "Closed"
        /\ results' = [results EXCEPT ![a] = @ \cup {"ShutdownTimeout"}]
  /\ UNCHANGED <<registry, local, control, children, start, reply, handle, closing, closers>>

\* Drop for AttachmentOwner
DropHandle(a) ==
  /\ handle[a] /\ ~closing[a]
  /\ handle' = [handle EXCEPT ![a] = FALSE]
  /\ Cancel(a)
  /\ UNCHANGED <<registry, local, state, terminal, children, start, reply, closing, results, closers>>

-----------------------------------------------------------------------------
(* Client::close and Drop for ClientOwner.                                 *)

CloseClient(k) ==
  /\ closer[k] = "idle" /\ clientAlive
  /\ closer' = [closer EXCEPT ![k] = "cancelling"]
  /\ closed' = TRUE
  /\ pending' = [pending EXCEPT ![k] = attached]
  /\ UNCHANGED <<attached, closeError, clientAlive, local, control, children, owners, reply, closerError, closeResult>>

CloserCancels(k) ==
  /\ closer[k] = "cancelling"
  /\ closer' = [closer EXCEPT ![k] = "waiting"]
  /\ cancel' = [a \in Attachments |-> cancel[a] \/ a \in pending[k]]
  /\ UNCHANGED <<registry, local, state, terminal, children, owners, reply, pending, closerError, closeResult>>

\* wait_closed() on one control after the other, in any order
CloserSeesClosed(k, a) ==
  /\ closer[k] = "waiting" /\ a \in pending[k] /\ state[a] = "Closed"
  /\ pending' = [pending EXCEPT ![k] = @ \ {a}]
  /\ closerError' = [closerError EXCEPT ![k] = OrElse(@, terminal[a])]
  /\ UNCHANGED <<registry, local, control, children, owners, reply, closer, closeResult>>

CloserWaited(k) ==
  /\ closer[k] = "waiting" /\ pending[k] = {}
  /\ closer' = [closer EXCEPT ![k] = "record"]
  /\ UNCHANGED <<registry, local, control, children, owners, reply, pending, closerError, closeResult>>

CloserTimesOut(k) ==
  /\ ExecutorStalls
  /\ closer[k] = "waiting" /\ pending[k] # {}
  /\ closer' = [closer EXCEPT ![k] = "record"]
  /\ closerError' = [closerError EXCEPT ![k] = OrElse(@, "ShutdownTimeout")]
  /\ UNCHANGED <<registry, local, control, children, owners, reply, pending, closeResult>>

\* The first error of any close is the result of all that follow.
CloserRecords(k) ==
  /\ closer[k] = "record"
  /\ closer' = [closer EXCEPT ![k] = "done"]
  /\ closeError' = OrElse(closeError, closerError[k])
  /\ closeResult' = [closeResult EXCEPT ![k] = closeError']
  /\ UNCHANGED <<closed, attached, clientAlive, local, control, children, owners, reply, pending, closerError>>

DropClient ==
  /\ clientAlive
  /\ \A a \in Attachments : start[a] # "waiting"
  /\ \A k \in Closers : closer[k] \in {"idle", "done"}
  /\ clientAlive' = FALSE
  /\ cancel' = [a \in Attachments |-> cancel[a] \/ a \in attached]
  /\ UNCHANGED <<closed, attached, closeError, local, state, terminal, children, owners, reply, closers>>

-----------------------------------------------------------------------------

\* Everything the executor polls: the attachment's own task...
TaskStep(a) ==
  \/ TaskBegins(a) \/ SetupFails(a) \/ Refuse(a) \/ SetupSucceeds(a) \/ Mirror(a)
  \/ SelectCancelled(a) \/ (\E error \in Errors : SelectFails(a, error))
  \/ SelectChanged(a) \/ StopAttachment(a) \/ ReportFailed(a) \/ ReportClosing(a)
  \/ CloseSession(a) \/ Join(a) \/ CleanupTimesOut(a) \/ ReportStartup(a)
  \/ ReportClosed(a) \/ Complete(a)

\* ...its children...
ChildStep(a) ==
  \/ ListenerFails(a) \/ ListenerStops(a) \/ DriverDropped(a) \/ DriverEnds(a)
  \/ \E newState \in States : PeerPublishes(a, newState)

\* ...and the futures of its owners.
OwnerStep(a) ==
  \/ Start(a) \/ StartRefused(a) \/ StartReturns(a) \/ StartFails(a)
  \/ StartDropped(a) \/ StartLosesTask(a)
  \/ CloseAttachment(a) \/ CloseAttachmentReturns(a) \/ DropHandle(a)

CloserStep(k) ==
  \/ CloseClient(k) \/ CloserCancels(k) \/ CloserWaited(k) \/ CloserTimesOut(k)
  \/ CloserRecords(k)
  \/ \E a \in Attachments : CloserSeesClosed(k, a)

Next ==
  \/ \E a \in Attachments : TaskStep(a) \/ ChildStep(a) \/ OwnerStep(a)
                            \/ TaskLost(a) \/ TaskDropped(a)
  \/ \E k \in Closers : CloserStep(k)
  \/ DropClient

\* The executor polls what is ready and its timers fire; nobody is obliged to
\* start, close or drop anything, and the peer need never answer. The startup
\* deadline is absolute and its branch precedes the session's news, so news
\* that keep coming cannot postpone it for ever (hence SF).
Fairness ==
  /\ \A a \in Attachments :
       /\ WF_vars(TaskStep(a))
       /\ SF_vars(SelectFails(a, "StartupTimeout"))
       /\ WF_vars(ListenerStops(a))
       /\ WF_vars(DriverEnds(a) \/ (task[a] \in Ended /\ DriverDropped(a)))
       /\ WF_vars(StartReturns(a) \/ StartFails(a) \/ StartLosesTask(a))
  /\ \A k \in Closers :
       /\ WF_vars(closer[k] # "idle" /\ CloserStep(k))

Spec == Init /\ [][Next]_vars /\ Fairness

-----------------------------------------------------------------------------
(* Safety.                                                                 *)

\* Where a task that nobody cancels could stay for ever.
Running == {"spawned", "setup", "mirror", "select"}

\* Nobody's attachment never keeps running: once the startup future is gone
\* and no handle is left, or the last client handle is dropped, the task has
\* been told to stop (StartupGuard, Drop of AttachmentOwner and ClientOwner).
NoOrphan ==
  \A a \in Attachments :
    /\ task[a] \in Running
    /\ ~clientAlive \/ (start[a] \in {"ok", "failed"} /\ ~handle[a])
    => cancel[a]

\* Client::close misses no attachment: once it waits, or has returned, every
\* task still running is cancelled, also one whose start raced the close.
CloseCancelsAll ==
  \A k \in Closers : closer[k] \in {"waiting", "record", "done"} =>
    \A a \in Attachments : task[a] \in Running => cancel[a]

\* Before run_attachment reports its result, to the startup future or as the
\* final status, the listener is released and the driver has ended; also when
\* the cleanup budget ran out.
FinalReportReleases ==
  \A a \in Attachments :
    task[a] \in {"report", "final", "complete"} \/ reply[a] = "error"
    => /\ listener[a] # "bound"
       /\ driver[a] # "running"

\* docs/native-client.md: concurrent close calls observe the same result.
ClosesAgree == \A a \in Attachments : Cardinality(results[a]) <= 1

-----------------------------------------------------------------------------
(* Liveness.                                                               *)

\* A startup future is answered although the peer may never be reached.
StartupAnswered ==
  \A a \in Attachments : start[a] = "waiting" ~> start[a] # "waiting"

\* Client::close returns, and does not need its own timer to.
ClientCloseReturns ==
  \A k \in Closers : closer[k] # "idle" ~> closer[k] = "done"
=============================================================================
