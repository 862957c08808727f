----------------------------- MODULE PeerSession -----------------------------
(***************************************************************************)
(* The owned peer session of locho-core: one SessionDriver task keeps a    *)
(* QUIC connection to the host alive and publishes it, by generation, in a *)
(* watch channel; any number of callers acquire leases on it, open         *)
(* authorised TCP streams, report dead connections and close the session.  *)
(*                                                                         *)
(* An action is one access to shared state (a watch channel, the shutdown  *)
(* token, the stream semaphore, the QUIC connection), so that everything   *)
(* the tasks of a multi-threaded runtime can interleave is interleaved.    *)
(* Time is abstract: a timer may expire whenever its branch of the select  *)
(* can be taken, so back-off delays and the stability timer (which only    *)
(* reset the delay) leave no trace in the state.                           *)
(***************************************************************************)
EXTENDS Naturals, FiniteSets

CONSTANTS
  Callers,      \* tasks that hold a PeerSession handle or one of its leases
  MaxStreams,   \* permits of the shared stream semaphore (512 in the code)
  Routes,       \* path descriptions a connection can report
  MaxRevision   \* bound: no new connect outcome or path change beyond it

ASSUME SessionAssumption ==
  /\ IsFiniteSet(Callers) /\ "driver" \notin Callers
  /\ MaxStreams \in Nat \ {0}
  /\ "none" \in Routes
  /\ MaxRevision \in Nat

States == {"Starting", "Connecting", "Connected", "Reconnecting", "Failed",
           "Closing", "Closed"}

\* SessionError, as far as a status or a close() result tells it apart; both
\* failures of a connect attempt (timeout, transport) are "Connect".
Errors == {"None", "Connect", "DriverStopped", "TimeoutShutdown"}

\* Receivers of the connections channel: the driver and every caller.
Receivers == Callers \cup {"driver"}

DriverPC == {"new", "top", "fail", "stop", "connect", "retry", "connected",
             "path", "publish", "observe", "check", "monitor", "clear",
             "teardown", "recover", "closing", "unpublish", "cleanup",
             "done", "dropClear", "dropStatus", "dropped"}

CallerPC == {"idle", "check", "borrow", "wait", "leased", "permit", "opening",
             "authorizing", "stream", "suspect", "closing"}

\* Where the caller holds a permit of the stream semaphore.
Holding == {"opening", "authorizing", "stream"}

\* Where the driver's future is suspended, so that it can be dropped there.
AwaitPoints == {"new", "connect", "retry", "monitor", "cleanup"}

VARIABLES
  drv,         \* where the driver is in run/supervise/drop
  recovering,  \* a connection was lost before (supervise's local)
  generation,  \* generations handed out so far (supervise's local)
  conns,       \* the connections channel: a generation, 0 for None
  unseen,      \* receivers that have not seen the channel's last version
  live,        \* generations whose QUIC connection has no close_reason
  endpointClosed,
  shutdown,    \* the shutdown token
  status,      \* the status channel
  owner,       \* some PeerSession handle is left
  pc,          \* where each caller is
  lease,       \* the generation of each caller's lease, 0 for none
  keeps,       \* the caller owns the lease (acquire), or open_tcp does
  permits,     \* free permits of the stream semaphore
  outcome      \* what the caller's last close() returned

locals == <<recovering, generation>>
channel == <<conns, unseen>>
network == <<live, endpointClosed>>
calls == <<owner, pc, lease, keeps, permits, outcome>>
session == <<drv, locals, channel, network, shutdown, status>>
vars == <<session, calls>>

Status == [revision : Nat, state : States, path : Routes,
           lastError : Errors, terminalError : Errors]

TypeOK ==
  /\ drv \in DriverPC
  /\ recovering \in BOOLEAN
  /\ generation \in Nat
  /\ conns \in Nat
  /\ unseen \in SUBSET Receivers
  /\ live \in SUBSET (Nat \ {0})
  /\ endpointClosed \in BOOLEAN
  /\ shutdown \in BOOLEAN
  /\ status \in Status
  /\ owner \in BOOLEAN
  /\ pc \in [Callers -> CallerPC]
  /\ lease \in [Callers -> Nat]
  /\ keeps \in [Callers -> BOOLEAN]
  /\ permits \in Nat
  /\ outcome \in [Callers -> Errors \cup {"Pending"}]

Init ==
  /\ drv = "new"
  /\ recovering = FALSE
  /\ generation = 0
  /\ conns = 0
  /\ unseen = {}
  /\ live = {}
  /\ endpointClosed = FALSE
  /\ shutdown = FALSE
  /\ status = [revision |-> 0, state |-> "Starting", path |-> "none",
               lastError |-> "None", terminalError |-> "None"]
  /\ owner = TRUE
  /\ pc = [c \in Callers |-> "idle"]
  /\ lease = [c \in Callers |-> 0]
  /\ keeps = [c \in Callers |-> FALSE]
  /\ permits = MaxStreams
  /\ outcome = [c \in Callers |-> "Pending"]

-----------------------------------------------------------------------------
(* Writes to the two watch channels, and the shapes of a driver step.      *)

\* A write to the status channel: every send_modify bumps the revision.
Snapshot(state, path, lastError, terminalError) ==
  [revision |-> status.revision + 1, state |-> state, path |-> path,
   lastError |-> lastError, terminalError |-> terminalError]

\* SessionDriver::update.
Updated(state, error) ==
  Snapshot(state,
           IF state = "Connected" THEN status.path ELSE "none",
           IF error # "None" \/ state = "Connected" THEN error ELSE status.lastError,
           status.terminalError)

\* SessionDriver::path: only a changed description is a new revision.
Routed(route) ==
  IF status.path = route THEN status
  ELSE Snapshot(status.state, route, status.lastError, status.terminalError)

\* Fault: the channel's value changes without a notification.
SendQuietly(value) == conns' = value /\ UNCHANGED unseen

\* watch::Sender::send_replace on the connections channel.
Send(value) == conns' = value /\ unseen' = Receivers

DriverAt(from, to) == drv = from /\ drv' = to

\* The driver moves on, publishes a status, or replaces the connection.
Goto(from, to) ==
  DriverAt(from, to) /\ UNCHANGED <<locals, channel, network, shutdown, status, calls>>

Report(from, to, snapshot) ==
  /\ DriverAt(from, to)
  /\ status' = snapshot
  /\ UNCHANGED <<locals, channel, network, shutdown, calls>>

Replace(from, to, value) ==
  /\ DriverAt(from, to)
  /\ Send(value)
  /\ UNCHANGED <<locals, network, shutdown, status, calls>>

Attempting == IF recovering THEN "Reconnecting" ELSE "Connecting"

-----------------------------------------------------------------------------
(* SessionDriver::supervise.                                               *)

StartDriver == Goto("new", "top")

\* The endpoint is gone although nobody asked for shutdown: the first of the
\* three writes that end the session.
EndpointLost ==
  /\ endpointClosed /\ ~shutdown
  /\ Report("top", "fail", Updated("Failed", "DriverStopped"))

RecordTerminal ==
  Report("fail", "stop",
         Snapshot(status.state, status.path, status.lastError, "DriverStopped"))

StopSelf ==
  /\ DriverAt("stop", "closing")
  /\ shutdown' = TRUE
  /\ UNCHANGED <<locals, channel, network, status, calls>>

BeginAttempt ==
  /\ ~(endpointClosed /\ ~shutdown)
  /\ Report("top", "connect", Updated(Attempting, "None"))

\* The biased first branch of the selects around connect and sleep.
ShutdownBetween ==
  shutdown /\ (Goto("connect", "closing") \/ Goto("retry", "closing"))

ConnectFails ==
  /\ ~shutdown /\ status.revision < MaxRevision
  /\ Report("connect", "retry", Updated(Attempting, "Connect"))

ConnectSucceeds ==
  /\ ~shutdown /\ ~endpointClosed /\ status.revision < MaxRevision
  /\ DriverAt("connect", "connected")
  /\ generation' = generation + 1
  /\ live' = live \cup {generation + 1}
  /\ UNCHANGED <<recovering, channel, endpointClosed, shutdown, status, calls>>

RetryElapsed == ~shutdown /\ Goto("retry", "top")

ReportConnected == Report("connected", "path", Updated("Connected", "None"))

ReportPath == \E route \in Routes : Report("path", "publish", Routed(route))

Publish == Replace("publish", "observe", generation)

\* invalidation.borrow_and_update()
Observe ==
  /\ DriverAt("observe", "check")
  /\ unseen' = unseen \ {"driver"}
  /\ UNCHANGED <<locals, conns, network, shutdown, status, calls>>

\* Fault: only notifications are inspected, not the value.
InspectNothing == Goto("check", "monitor")

\* invalidation.borrow().is_none() at the head of the monitor loop
Inspect == Goto("check", IF conns = 0 THEN "clear" ELSE "monitor")

\* Fault: shutdown leaves the connection open.
MonitorShutdownKeepsConnection == shutdown /\ Goto("monitor", "closing")

\* Fault: the monitor's select has no shutdown branch.
MonitorDeaf == FALSE /\ UNCHANGED vars

\* The branches of the monitor's select, shutdown first.
MonitorShutdown ==
  /\ shutdown
  /\ DriverAt("monitor", "closing")
  /\ live' = live \ {generation}
  /\ UNCHANGED <<locals, channel, endpointClosed, shutdown, status, calls>>

\* Fault: closure is noticed only through an invalidation.
MonitorClosedIfInvalidated ==
  /\ ~shutdown /\ generation \notin live /\ "driver" \in unseen
  /\ Goto("monitor", "clear")

\* connection.closed(), or the end of its path stream
MonitorClosed ==
  /\ ~shutdown /\ generation \notin live
  /\ Goto("monitor", "clear")

\* invalidation.changed()
MonitorInvalidated ==
  /\ ~shutdown /\ "driver" \in unseen
  /\ DriverAt("monitor", IF conns = 0 THEN "clear" ELSE "check")
  /\ unseen' = unseen \ {"driver"}
  /\ UNCHANGED <<locals, conns, network, shutdown, status, calls>>

MonitorPath ==
  /\ ~shutdown /\ generation \in live /\ status.revision < MaxRevision
  /\ \E route \in Routes : Report("monitor", "check", Routed(route))

Clear == Replace("clear", "teardown", 0)

Teardown ==
  /\ DriverAt("teardown", "recover")
  /\ live' = live \ {generation}
  /\ recovering' = TRUE
  /\ UNCHANGED <<generation, channel, endpointClosed, shutdown, status, calls>>

Recover == Report("recover", "retry", Updated("Reconnecting", "Connect"))

-----------------------------------------------------------------------------
(* SessionDriver::run after supervise, and Drop for SessionDriver.         *)

ReportClosing == Report("closing", "unpublish", Updated("Closing", "None"))

Unpublish == Replace("unpublish", "cleanup", 0)

\* The last snapshot of run(): endpoint.close() ended, or its timeout did.
ClosedSnapshot(late) ==
  Snapshot("Closed", status.path, status.lastError,
           IF late THEN "TimeoutShutdown" ELSE status.terminalError)

FinishRun == endpointClosed /\ Report("cleanup", "done", ClosedSnapshot(FALSE))

FinishRunLate == Report("cleanup", "done", ClosedSnapshot(TRUE))

\* The driver's future is dropped where it is suspended, for instance because
\* its task is aborted: Drop makes three writes.
Droppable == drv \in AwaitPoints

DropDriver ==
  /\ Droppable
  /\ drv' = "dropClear"
  /\ shutdown' = TRUE
  /\ UNCHANGED <<locals, channel, network, status, calls>>

DropClear ==
  /\ DriverAt("dropClear", "dropStatus")
  /\ live' = live \ {conns}
  /\ Send(0)
  /\ UNCHANGED <<locals, endpointClosed, shutdown, status, calls>>

DropStatus ==
  Report("dropStatus", "dropped",
         Snapshot("Closed", "none", "DriverStopped", "DriverStopped"))

-----------------------------------------------------------------------------
(* The network and the endpoint (iroh), outside this repository.           *)

ConnectionLost ==
  /\ \E g \in live : live' = live \ {g}
  /\ UNCHANGED <<drv, locals, channel, endpointClosed, shutdown, status, calls>>

\* endpoint.close() during cleanup, or a failure of the endpoint at any time.
EndpointCloses ==
  /\ ~endpointClosed
  /\ endpointClosed' = TRUE
  /\ live' = {}
  /\ UNCHANGED <<drv, locals, channel, shutdown, status, calls>>

-----------------------------------------------------------------------------
(* PeerSession and ConnectionLease, called by Callers.                     *)

CallerAt(c, from, to) == pc[c] = from /\ pc' = [pc EXCEPT ![c] = to]

\* The caller moves on and leaves everything else alone.
Step(c, from, to) ==
  CallerAt(c, from, to) /\ UNCHANGED <<session, owner, lease, keeps, permits, outcome>>

\* The call of c ends: a caller that owns its lease still has it.
Return(c) ==
  /\ pc' = [pc EXCEPT ![c] = IF keeps[c] THEN "leased" ELSE "idle"]
  /\ lease' = [lease EXCEPT ![c] = IF keeps[c] THEN @ ELSE 0]

\* Mark the channel's current version as seen by c.
MarkSeen(c) ==
  /\ unseen' = unseen \ {c}
  /\ UNCHANGED <<drv, locals, conns, network, shutdown, status>>

\* acquire() (own) or PeerSession::open_tcp(), which start with subscribe().
Call(c, own) ==
  /\ owner
  /\ CallerAt(c, "idle", "check")
  /\ keeps' = [keeps EXCEPT ![c] = own]
  /\ MarkSeen(c)
  /\ UNCHANGED <<owner, lease, permits, outcome>>

\* An acquisition ends without a lease.
GiveUp(c, from) ==
  /\ CallerAt(c, from, "idle")
  /\ keeps' = [keeps EXCEPT ![c] = FALSE]
  /\ UNCHANGED <<session, owner, lease, permits, outcome>>

\* is_cancelled() at the head of acquire's loop
AcquireCheck(c) ==
  \/ shutdown /\ GiveUp(c, "check")
  \/ ~shutdown /\ Step(c, "check", "borrow")

\* receiver.borrow_and_update()
AcquireBorrow(c) ==
  /\ CallerAt(c, "borrow", IF conns = 0 THEN "wait"
                           ELSE IF keeps[c] THEN "leased" ELSE "permit")
  /\ lease' = [lease EXCEPT ![c] = conns]
  /\ MarkSeen(c)
  /\ UNCHANGED <<owner, keeps, permits, outcome>>

\* receiver.changed()
AcquireWake(c) ==
  /\ ~shutdown /\ c \in unseen
  /\ CallerAt(c, "wait", "check")
  /\ MarkSeen(c)
  /\ UNCHANGED <<owner, lease, keeps, permits, outcome>>

\* Fault: acquire() waits for the channel only, not for the token.
AcquireShutdownIfChanged(c) == shutdown /\ c \in unseen /\ GiveUp(c, "wait")

AcquireShutdown(c) == shutdown /\ GiveUp(c, "wait")

\* The deadline; for open_tcp also the caller's cancellation token.
AcquireAbandoned(c) ==
  /\ ~shutdown /\ (c \notin unseen \/ ~keeps[c])
  /\ GiveUp(c, "wait")

\* ConnectionLease::open_tcp on a lease the caller owns.
LeaseOpen(c) == Step(c, "leased", "permit")

DropLease(c) ==
  /\ CallerAt(c, "leased", "idle")
  /\ lease' = [lease EXCEPT ![c] = 0]
  /\ keeps' = [keeps EXCEPT ![c] = FALSE]
  /\ UNCHANGED <<session, owner, permits, outcome>>

\* try_acquire_owned(): at the limit the call fails at once.
TryPermit(c) ==
  /\ pc[c] = "permit"
  /\ \/ /\ permits > 0
        /\ permits' = permits - 1
        /\ pc' = [pc EXCEPT ![c] = "opening"]
        /\ UNCHANGED lease
     \/ /\ permits = 0
        /\ Return(c)
        /\ UNCHANGED permits
  /\ UNCHANGED <<session, owner, keeps, outcome>>

OpenBi(c) ==
  /\ ~shutdown /\ lease[c] \in live
  /\ Step(c, "opening", "authorizing")

Authorized(c) ==
  /\ ~shutdown /\ lease[c] \in live
  /\ Step(c, "authorizing", "stream")

\* open_bi fails with its connection; authorize_tcp also when the host rejects
\* the stream. The permit goes back and the connection becomes suspect.
OpenFails(c) ==
  /\ ~shutdown
  /\ \/ pc[c] = "opening" /\ lease[c] \notin live
     \/ pc[c] = "authorizing"
  /\ pc' = [pc EXCEPT ![c] = "suspect"]
  /\ permits' = permits + 1
  /\ UNCHANGED <<session, owner, lease, keeps, outcome>>

\* Fault: a cancelled handshake keeps its permit.
OpenAbandonedLeak(c) ==
  /\ pc[c] \in {"opening", "authorizing"}
  /\ Return(c)
  /\ UNCHANGED <<session, owner, keeps, permits, outcome>>

\* Shutdown, cancellation or the deadline drops the operation: the permit goes
\* back, and the connection is not inspected.
OpenAbandoned(c) ==
  /\ pc[c] \in {"opening", "authorizing"}
  /\ Return(c)
  /\ permits' = permits + 1
  /\ UNCHANGED <<session, owner, keeps, outcome>>

\* Drop for ServiceStream: the permit goes back.
StreamEnds(c) ==
  /\ pc[c] = "stream"
  /\ Return(c)
  /\ permits' = permits + 1
  /\ UNCHANGED <<session, owner, keeps, outcome>>

\* A relay, or an HTTP request, that failed on a lease its caller owns.
RelayFails(c) ==
  /\ keeps[c]
  /\ CallerAt(c, "stream", "suspect")
  /\ permits' = permits + 1
  /\ UNCHANGED <<session, owner, lease, keeps, outcome>>

RequestFails(c) == Step(c, "leased", "suspect")

\* Fault: the lease does not compare generations.
InvalidateAny(c) == Send(0)

\* ConnectionLease::invalidate: send_if_modified, for its own generation only.
InvalidateLease(c) ==
  IF conns = lease[c] THEN Send(0) ELSE UNCHANGED channel

\* close_reason().is_some() decides whether the lease is invalidated.
InspectLease(c) ==
  /\ pc[c] = "suspect"
  /\ IF lease[c] \in live THEN UNCHANGED channel ELSE InvalidateLease(c)
  /\ Return(c)
  /\ UNCHANGED <<drv, locals, network, shutdown, status, owner, keeps, permits, outcome>>

\* close(): cancel, then wait at most 11 seconds for the Closed snapshot.
CloseCall(c) ==
  /\ owner
  /\ CallerAt(c, "idle", "closing")
  /\ shutdown' = TRUE
  /\ UNCHANGED <<drv, locals, channel, network, status, owner, lease, keeps, permits, outcome>>

CloseEnds(c, result) ==
  /\ CallerAt(c, "closing", "idle")
  /\ outcome' = [outcome EXCEPT ![c] = result]
  /\ UNCHANGED <<session, owner, lease, keeps, permits>>

CloseReturns(c) ==
  status.state = "Closed" /\ CloseEnds(c, status.terminalError)

CloseTimesOut(c) ==
  status.state # "Closed" /\ CloseEnds(c, "TimeoutShutdown")

\* Drop for Owner: leases and subscriptions do not keep it alive.
DropOwner ==
  /\ owner
  /\ \A c \in Callers :
       pc[c] # "idle" => keeps[c] /\ pc[c] \notin {"check", "borrow", "wait"}
  /\ owner' = FALSE
  /\ shutdown' = TRUE
  /\ UNCHANGED <<drv, locals, channel, network, status, pc, lease, keeps, permits, outcome>>

-----------------------------------------------------------------------------

DriverNext ==
  \/ StartDriver \/ EndpointLost \/ RecordTerminal \/ StopSelf
  \/ BeginAttempt \/ ShutdownBetween \/ ConnectFails \/ ConnectSucceeds
  \/ RetryElapsed \/ ReportConnected \/ ReportPath \/ Publish \/ Observe
  \/ Inspect \/ MonitorShutdown \/ MonitorClosed \/ MonitorInvalidated
  \/ MonitorPath \/ Clear \/ Teardown \/ Recover
  \/ ReportClosing \/ Unpublish \/ FinishRun \/ FinishRunLate

DropNext == DropDriver \/ DropClear \/ DropStatus

NetworkNext == ConnectionLost \/ EndpointCloses

\* The steps of a call in progress.
CallerProgress(c) ==
  \/ AcquireCheck(c) \/ AcquireBorrow(c) \/ AcquireWake(c)
  \/ AcquireShutdown(c) \/ TryPermit(c) \/ OpenBi(c) \/ Authorized(c)
  \/ OpenFails(c) \/ OpenAbandoned(c) \/ InspectLease(c) \/ CloseReturns(c)

CallerNext(c) ==
  \/ \E own \in BOOLEAN : Call(c, own)
  \/ CallerProgress(c)
  \/ AcquireAbandoned(c) \/ LeaseOpen(c) \/ DropLease(c)
  \/ StreamEnds(c) \/ RelayFails(c) \/ RequestFails(c)
  \/ CloseCall(c) \/ CloseTimesOut(c)

Next ==
  \/ DriverNext \/ DropNext \/ NetworkNext \/ DropOwner
  \/ \E c \in Callers : CallerNext(c)

\* The driver is polled on a persistent executor, a Drop that began runs to
\* its end, and a call in progress is polled. Nothing makes a caller start a
\* call, the network fail, or a deadline pass while the call can proceed.
Fairness ==
  /\ WF_vars(DriverNext)
  /\ WF_vars(DropClear \/ DropStatus)
  /\ \A c \in Callers : WF_vars(CallerProgress(c))

Spec == Init /\ [][Next]_vars /\ Fairness

-----------------------------------------------------------------------------
(* Safety.                                                                 *)

\* A lease can be acquired only on the newest connection, after the status
\* said Connected (update before send_replace in supervise), and until the
\* status stops saying so (send_replace(None) before update), shutdown apart.
PublishedIsConnected ==
  conns # 0 => /\ conns = generation
               /\ status.state = "Connected" \/ shutdown

\* The driver never sleeps in its monitor loop on a connection that a lease has
\* withdrawn: either the value was inspected after publication, or the
\* notification is still pending (session.rs, the comment in the loop).
NoLostInvalidation ==
  drv = "monitor" /\ conns = 0 => "driver" \in unseen

\* A caller never sleeps in acquire() while a connection is published, unless
\* its wake-up is pending.
NoLostPublication ==
  \A c \in Callers : pc[c] = "wait" /\ conns # 0 => c \in unseen

\* When the status says Closed the session has let go of everything: shutdown
\* is cancelled, nothing is published, and no QUIC connection it ever opened
\* is still up, whether run() finished, timed out in cleanup or was dropped.
ClosedReleasesAll ==
  status.state = "Closed" => shutdown /\ conns = 0 /\ live = {}

\* A close() that does not time out returns the terminal error of the final
\* snapshot, so concurrent and repeated callers agree.
CloseReturnsFinalResult ==
  \A c \in Callers :
    outcome[c] \notin {"Pending", "TimeoutShutdown"} =>
      status.state = "Closed" /\ outcome[c] = status.terminalError

\* Every permit of the stream semaphore is free or held by exactly one opening
\* or open stream: no error, timeout, cancellation or shutdown path leaks one.
PermitsConserved ==
  permits + Cardinality({c \in Callers : pc[c] \in Holding}) = MaxStreams

\* Callers withdraw only dead connections: a stale lease never withdraws a
\* newer generation, and a rejected or cancelled stream never withdraws a
\* healthy peer.
OnlyDeadWithdrawn ==
  [][conns # 0 /\ conns' = 0 /\ drv' = drv => conns \notin live]_vars

\* Closed is the last status: neither a late path change nor the Drop of a
\* driver that completed replaces it.
ClosedIsFinal == [][status.state # "Closed"]_status

-----------------------------------------------------------------------------
(* The session implements its contract. A generation counts as issued when *)
(* it is published, three steps after supervise took it.                   *)

Issued == IF drv \in {"connected", "path", "publish"} THEN generation - 1
          ELSE generation

Contract ==
  INSTANCE SessionContract WITH
    Results <- Errors,
    offered <- conns,
    broken <- conns # 0 /\ conns \notin live,
    issued <- Issued,
    stopping <- shutdown,
    result <- IF status.state = "Closed" THEN status.terminalError ELSE "Pending"

\* Every step of driver, callers and network is a step of the contract or
\* changes nothing it mentions: a lease of a lost connection, for one, never
\* withdraws the connection that replaced it.
ImplementsContract == Contract!ContractSpec

-----------------------------------------------------------------------------
(* Liveness.                                                               *)

\* Whoever cancels the shutdown token, the session reaches Closed.
ShutdownCompletes == shutdown ~> status.state = "Closed"

\* A dead connection does not stay published.
DeadConnectionWithdrawn == (conns # 0 /\ conns \notin live) ~> conns = 0

\* A caller asleep in acquire() wakes up when a connection is published or the
\* session shuts down, without the help of its deadline.
WaitersWake ==
  \A c \in Callers : (pc[c] = "wait" /\ (conns # 0 \/ shutdown)) ~> pc[c] # "wait"
=============================================================================
