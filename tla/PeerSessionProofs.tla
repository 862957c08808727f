-------------------------- MODULE PeerSessionProofs --------------------------
(***************************************************************************)
(* Safety of PeerSession for any number of callers, permits and revisions. *)
(***************************************************************************)
EXTENDS PeerSession, FiniteSetTheorems, TLAPS

\* Where the driver holds a connection that it has published.
Attached == {"observe", "check", "monitor", "clear"}

\* What relates the driver's position to the channels and the network:
\* who can have published what, and which connections can still be up.
DriverInv ==
  /\ conns # 0 =>
       /\ conns = generation
       /\ drv \in Attached \cup {"closing", "unpublish", "dropClear"}
  /\ drv \in Attached \cup {"path", "publish"} => status.state = "Connected"
  /\ drv \in {"closing", "unpublish", "cleanup", "done", "dropClear",
              "dropStatus", "dropped"} => shutdown
  /\ (status.state = "Closed") <=> (drv \in {"done", "dropped"})
  /\ live \subseteq {generation}
  /\ live # {} =>
       drv \in Attached \cup {"connected", "path", "publish", "teardown", "dropClear"}
  /\ drv \in Attached \cup {"dropClear"} /\ live # {} => conns = generation
  /\ drv = "clear" => live = {}

-----------------------------------------------------------------------------

\* Every action keeps every variable in its type: update() and path() write
\* well-formed snapshots, and try_acquire_owned never goes below zero.
THEOREM TypeCorrect == Spec => []TypeOK
<1> USE SessionAssumption DEF SessionAssumption
<1>1. Init => TypeOK
  <2> SUFFICES ASSUME Init PROVE TypeOK
    OBVIOUS
  <2>1. drv \in DriverPC /\ status \in Status
    BY DEF Init, DriverPC, Status, States, Errors
  <2>2. pc \in [Callers -> CallerPC]
    BY DEF Init, CallerPC
  <2>3. unseen \in SUBSET Receivers /\ live \in SUBSET (Nat \ {0})
    BY DEF Init
  <2>4. /\ lease \in [Callers -> Nat]
        /\ keeps \in [Callers -> BOOLEAN]
        /\ outcome \in [Callers -> Errors \cup {"Pending"}]
    BY DEF Init
  <2>5. QED
    BY <2>1, <2>2, <2>3, <2>4 DEF Init, TypeOK
<1>2. TypeOK /\ [Next]_vars => TypeOK'
  <2> SUFFICES ASSUME TypeOK, [Next]_vars PROVE TypeOK'
    OBVIOUS
  <2> USE DEF TypeOK, session, calls, locals, channel, network
  <2>1. CASE DriverNext
    <3> USE DEF DriverAt, Goto, Report, Replace, Send, Updated, Routed, Snapshot,
                Status, States, Errors, DriverPC, Attempting
    <3>1. CASE StartDriver BY <3>1 DEF StartDriver
    <3>2. CASE EndpointLost BY <3>2 DEF EndpointLost
    <3>3. CASE RecordTerminal BY <3>3 DEF RecordTerminal
    <3>4. CASE StopSelf BY <3>4 DEF StopSelf
    <3>5. CASE BeginAttempt BY <3>5 DEF BeginAttempt
    <3>6. CASE ShutdownBetween BY <3>6 DEF ShutdownBetween
    <3>7. CASE ConnectFails BY <3>7 DEF ConnectFails
    <3>8. CASE ConnectSucceeds BY <3>8 DEF ConnectSucceeds
    <3>9. CASE RetryElapsed BY <3>9 DEF RetryElapsed
    <3>10. CASE ReportConnected BY <3>10 DEF ReportConnected
    <3>11. CASE ReportPath BY <3>11 DEF ReportPath
    <3>12. CASE Publish BY <3>12 DEF Publish
    <3>13. CASE Observe BY <3>13 DEF Observe
    <3>14. CASE Inspect BY <3>14 DEF Inspect
    <3>15. CASE MonitorShutdown BY <3>15 DEF MonitorShutdown
    <3>16. CASE MonitorClosed BY <3>16 DEF MonitorClosed
    <3>17. CASE MonitorInvalidated BY <3>17 DEF MonitorInvalidated
    <3>18. CASE MonitorPath BY <3>18 DEF MonitorPath
    <3>19. CASE Clear BY <3>19 DEF Clear
    <3>20. CASE Teardown BY <3>20 DEF Teardown
    <3>21. CASE Recover BY <3>21 DEF Recover
    <3>22. CASE ReportClosing BY <3>22 DEF ReportClosing
    <3>23. CASE Unpublish BY <3>23 DEF Unpublish
    <3>24. CASE FinishRun BY <3>24 DEF FinishRun, ClosedSnapshot
    <3>25. CASE FinishRunLate BY <3>25 DEF FinishRunLate, ClosedSnapshot
    <3>26. QED
      BY <2>1, <3>1, <3>2, <3>3, <3>4, <3>5, <3>6, <3>7, <3>8, <3>9, <3>10, <3>11,
         <3>12, <3>13, <3>14, <3>15, <3>16, <3>17, <3>18, <3>19, <3>20, <3>21,
         <3>22, <3>23, <3>24, <3>25 DEF DriverNext
  <2>2. CASE DropNext
    <3> USE DEF DriverAt, Report, Send, Snapshot, Status, States, Errors, DriverPC
    <3>1. CASE DropDriver BY <3>1 DEF DropDriver
    <3>2. CASE DropClear BY <3>2 DEF DropClear
    <3>3. CASE DropStatus BY <3>3 DEF DropStatus
    <3>4. QED BY <2>2, <3>1, <3>2, <3>3 DEF DropNext
  <2>3. CASE NetworkNext
    BY <2>3 DEF NetworkNext, ConnectionLost, EndpointCloses
  <2>4. CASE DropOwner
    BY <2>4 DEF DropOwner
  <2>5. ASSUME NEW c \in Callers, CallerNext(c) PROVE TypeOK'
    <3> USE DEF CallerAt, MarkSeen, CallerPC
    <3>1. CASE \E own \in BOOLEAN : Call(c, own) BY <3>1 DEF Call
    <3>2. CASE AcquireCheck(c) BY <3>2 DEF AcquireCheck, GiveUp, Step
    <3>3. CASE AcquireBorrow(c) BY <3>3 DEF AcquireBorrow
    <3>4. CASE AcquireWake(c) BY <3>4 DEF AcquireWake
    <3>5. CASE AcquireShutdown(c) BY <3>5 DEF AcquireShutdown, GiveUp
    <3>6. CASE AcquireAbandoned(c) BY <3>6 DEF AcquireAbandoned, GiveUp
    <3>7. CASE LeaseOpen(c) BY <3>7 DEF LeaseOpen, Step
    <3>8. CASE DropLease(c) BY <3>8 DEF DropLease
    <3>9. CASE TryPermit(c) BY <3>9 DEF TryPermit, Return
    <3>10. CASE OpenBi(c) BY <3>10 DEF OpenBi, Step
    <3>11. CASE Authorized(c) BY <3>11 DEF Authorized, Step
    <3>12. CASE OpenFails(c) BY <3>12 DEF OpenFails
    <3>13. CASE OpenAbandoned(c) BY <3>13 DEF OpenAbandoned, Return
    <3>14. CASE StreamEnds(c) BY <3>14 DEF StreamEnds, Return
    <3>15. CASE RelayFails(c) BY <3>15 DEF RelayFails
    <3>16. CASE RequestFails(c) BY <3>16 DEF RequestFails, Step
    <3>17. CASE InspectLease(c) BY <3>17 DEF InspectLease, InvalidateLease, Return, Send
    <3>18. CASE CloseCall(c) BY <3>18 DEF CloseCall
    <3>19. CASE CloseReturns(c) BY <3>19 DEF CloseReturns, CloseEnds, Status, Errors
    <3>20. CASE CloseTimesOut(c) BY <3>20 DEF CloseTimesOut, CloseEnds, Errors
    <3>21. QED
      BY <2>5, <3>1, <3>2, <3>3, <3>4, <3>5, <3>6, <3>7, <3>8, <3>9, <3>10,
         <3>11, <3>12, <3>13, <3>14, <3>15, <3>16, <3>17, <3>18, <3>19, <3>20
         DEF CallerNext, CallerProgress
  <2>6. CASE UNCHANGED vars BY <2>6 DEF vars
  <2>7. QED BY <2>1, <2>2, <2>3, <2>4, <2>5, <2>6 DEF Next
<1>3. QED BY <1>1, <1>2, PTL DEF Spec
-----------------------------------------------------------------------------
(* The driver and what it shares.                                          *)

\* What a caller's step can do to the session: cancel the token, mark its own
\* receiver, or withdraw a dead connection and notify everybody.
LEMMA CallerEffect ==
  ASSUME NEW c \in Callers, CallerNext(c)
  PROVE  /\ UNCHANGED <<drv, recovering, generation, live, endpointClosed, status>>
         /\ shutdown' = shutdown \/ shutdown' = TRUE
         /\ \/ conns' = conns /\ unseen \ {c} \subseteq unseen'
            \/ conns' = 0 /\ conns \notin live /\ unseen' = Receivers
<1> USE DEF CallerAt, MarkSeen, session, locals, channel, network
<1>1. CASE \E own \in BOOLEAN : Call(c, own) BY <1>1 DEF Call
<1>2. CASE AcquireCheck(c) BY <1>2 DEF AcquireCheck, GiveUp, Step
<1>3. CASE AcquireBorrow(c) BY <1>3 DEF AcquireBorrow
<1>4. CASE AcquireWake(c) BY <1>4 DEF AcquireWake
<1>5. CASE AcquireShutdown(c) BY <1>5 DEF AcquireShutdown, GiveUp
<1>6. CASE AcquireAbandoned(c) BY <1>6 DEF AcquireAbandoned, GiveUp
<1>7. CASE LeaseOpen(c) BY <1>7 DEF LeaseOpen, Step
<1>8. CASE DropLease(c) BY <1>8 DEF DropLease
<1>9. CASE TryPermit(c) BY <1>9 DEF TryPermit
<1>10. CASE OpenBi(c) BY <1>10 DEF OpenBi, Step
<1>11. CASE Authorized(c) BY <1>11 DEF Authorized, Step
<1>12. CASE OpenFails(c) BY <1>12 DEF OpenFails
<1>13. CASE OpenAbandoned(c) BY <1>13 DEF OpenAbandoned
<1>14. CASE StreamEnds(c) BY <1>14 DEF StreamEnds
<1>15. CASE RelayFails(c) BY <1>15 DEF RelayFails
<1>16. CASE RequestFails(c) BY <1>16 DEF RequestFails, Step
<1>17. CASE InspectLease(c) BY <1>17 DEF InspectLease, InvalidateLease, Send
<1>18. CASE CloseCall(c) BY <1>18 DEF CloseCall
<1>19. CASE CloseReturns(c) BY <1>19 DEF CloseReturns, CloseEnds
<1>20. CASE CloseTimesOut(c) BY <1>20 DEF CloseTimesOut, CloseEnds
<1>21. QED
  BY <1>1, <1>2, <1>3, <1>4, <1>5, <1>6, <1>7, <1>8, <1>9, <1>10, <1>11,
     <1>12, <1>13, <1>14, <1>15, <1>16, <1>17, <1>18, <1>19, <1>20 DEF
     CallerNext, CallerProgress

\* DriverInv is inductive: the order of the driver's writes, together with
\* leases that withdraw only dead connections, keeps channels, status and
\* network in step.
THEOREM DriverInvariant == Spec => []DriverInv
<1> USE DEF Attached
<1>1. Init => DriverInv
  BY DEF Init, DriverInv
<1>2. TypeOK /\ DriverInv /\ [Next]_vars => DriverInv'
  <2> SUFFICES ASSUME TypeOK, DriverInv, [Next]_vars PROVE DriverInv'
    OBVIOUS
  <2> USE DEF DriverInv
  <2>1. CASE DriverNext
    <3> USE DEF DriverAt, Goto, Report, Replace, Send, Updated, Routed, Snapshot,
                Attempting, locals, channel, network
    <3>1. CASE StartDriver BY <3>1 DEF StartDriver
    <3>2. CASE EndpointLost BY <3>2 DEF EndpointLost
    <3>3. CASE RecordTerminal BY <3>3 DEF RecordTerminal
    <3>4. CASE StopSelf BY <3>4 DEF StopSelf
    <3>5. CASE BeginAttempt BY <3>5 DEF BeginAttempt
    <3>6. CASE ShutdownBetween BY <3>6 DEF ShutdownBetween
    <3>7. CASE ConnectFails BY <3>7 DEF ConnectFails
    <3>8. CASE ConnectSucceeds BY <3>8 DEF ConnectSucceeds
    <3>9. CASE RetryElapsed BY <3>9 DEF RetryElapsed
    <3>10. CASE ReportConnected BY <3>10 DEF ReportConnected
    <3>11. CASE ReportPath BY <3>11 DEF ReportPath
    <3>12. CASE Publish BY <3>12 DEF Publish
    <3>13. CASE Observe BY <3>13 DEF Observe
    <3>14. CASE Inspect BY <3>14 DEF Inspect, TypeOK
    <3>15. CASE MonitorShutdown BY <3>15 DEF MonitorShutdown
    <3>16. CASE MonitorClosed BY <3>16 DEF MonitorClosed
    <3>17. CASE MonitorInvalidated BY <3>17 DEF MonitorInvalidated, TypeOK
    <3>18. CASE MonitorPath BY <3>18 DEF MonitorPath
    <3>19. CASE Clear BY <3>19 DEF Clear
    <3>20. CASE Teardown BY <3>20 DEF Teardown
    <3>21. CASE Recover BY <3>21 DEF Recover
    <3>22. CASE ReportClosing BY <3>22 DEF ReportClosing
    <3>23. CASE Unpublish BY <3>23 DEF Unpublish
    <3>24. CASE FinishRun BY <3>24 DEF FinishRun, ClosedSnapshot
    <3>25. CASE FinishRunLate BY <3>25 DEF FinishRunLate, ClosedSnapshot
    <3>26. QED
      BY <2>1, <3>1, <3>2, <3>3, <3>4, <3>5, <3>6, <3>7, <3>8, <3>9, <3>10,
         <3>11, <3>12, <3>13, <3>14, <3>15, <3>16, <3>17, <3>18, <3>19, <3>20,
         <3>21, <3>22, <3>23, <3>24, <3>25 DEF DriverNext
  <2>2. CASE DropNext
    <3> USE DEF DriverAt, Report, Send, Snapshot, locals, channel, network
    <3>1. CASE DropDriver BY <3>1 DEF DropDriver, Droppable, AwaitPoints
    <3>2. CASE DropClear BY <3>2 DEF DropClear
    <3>3. CASE DropStatus BY <3>3 DEF DropStatus
    <3>4. QED BY <2>2, <3>1, <3>2, <3>3 DEF DropNext
  <2>3. CASE NetworkNext
    BY <2>3 DEF NetworkNext, ConnectionLost, EndpointCloses, locals, channel
  <2>4. CASE DropOwner
    BY <2>4 DEF DropOwner, locals, channel, network
  <2>5. ASSUME NEW c \in Callers, CallerNext(c) PROVE DriverInv'
    BY <2>5, CallerEffect DEF TypeOK
  <2>6. CASE UNCHANGED vars
    BY <2>6 DEF vars, session, locals, channel, network
  <2>7. QED BY <2>1, <2>2, <2>3, <2>4, <2>5, <2>6 DEF Next
<1>3. QED BY <1>1, <1>2, TypeCorrect, PTL DEF Spec

\* A lease is on the newest connection while the status says Connected.
THEOREM PublishedTheorem == Spec => []PublishedIsConnected
<1>1. DriverInv => PublishedIsConnected
  BY DEF DriverInv, PublishedIsConnected, Attached
<1>2. QED BY <1>1, DriverInvariant, PTL

\* A Closed session has withdrawn and closed every connection.
THEOREM ReleaseTheorem == Spec => []ClosedReleasesAll
<1>1. DriverInv => ClosedReleasesAll
  BY DEF DriverInv, ClosedReleasesAll, Attached
<1>2. QED BY <1>1, DriverInvariant, PTL
-----------------------------------------------------------------------------
(* Wake-ups, results and permits.                                          *)

\* A driver step never takes a wake-up from a sleeping caller, and a connection
\* is published only together with a notification.
LEMMA DriverWakes ==
  ASSUME TypeOK, SessionAssumption, DriverNext \/ DropNext
  PROVE  /\ UNCHANGED calls
         /\ \/ unseen' = Receivers
            \/ conns' = conns /\ unseen \ {"driver"} \subseteq unseen'
<1> USE DEF DriverAt, Goto, Report, Replace, Send, channel, locals, network, calls
<1>1. CASE DriverNext
  <2>1. CASE StartDriver BY <2>1 DEF StartDriver
  <2>2. CASE EndpointLost BY <2>2 DEF EndpointLost
  <2>3. CASE RecordTerminal BY <2>3 DEF RecordTerminal
  <2>4. CASE StopSelf BY <2>4 DEF StopSelf
  <2>5. CASE BeginAttempt BY <2>5 DEF BeginAttempt
  <2>6. CASE ShutdownBetween BY <2>6 DEF ShutdownBetween
  <2>7. CASE ConnectFails BY <2>7 DEF ConnectFails
  <2>8. CASE ConnectSucceeds BY <2>8 DEF ConnectSucceeds
  <2>9. CASE RetryElapsed BY <2>9 DEF RetryElapsed
  <2>10. CASE ReportConnected BY <2>10 DEF ReportConnected
  <2>11. CASE ReportPath BY <2>11 DEF ReportPath
  <2>12. CASE Publish BY <2>12 DEF Publish
  <2>13. CASE Observe BY <2>13 DEF Observe
  <2>14. CASE Inspect BY <2>14 DEF Inspect
  <2>15. CASE MonitorShutdown BY <2>15 DEF MonitorShutdown
  <2>16. CASE MonitorClosed BY <2>16 DEF MonitorClosed
  <2>17. CASE MonitorInvalidated BY <2>17 DEF MonitorInvalidated
  <2>18. CASE MonitorPath BY <2>18 DEF MonitorPath
  <2>19. CASE Clear BY <2>19 DEF Clear
  <2>20. CASE Teardown BY <2>20 DEF Teardown
  <2>21. CASE Recover BY <2>21 DEF Recover
  <2>22. CASE ReportClosing BY <2>22 DEF ReportClosing
  <2>23. CASE Unpublish BY <2>23 DEF Unpublish
  <2>24. CASE FinishRun BY <2>24 DEF FinishRun, ClosedSnapshot
  <2>25. CASE FinishRunLate BY <2>25 DEF FinishRunLate, ClosedSnapshot
  <2>26. QED
    BY <1>1, <2>1, <2>2, <2>3, <2>4, <2>5, <2>6, <2>7, <2>8, <2>9, <2>10,
       <2>11, <2>12, <2>13, <2>14, <2>15, <2>16, <2>17, <2>18, <2>19, <2>20,
       <2>21, <2>22, <2>23, <2>24, <2>25 DEF DriverNext
<1>2. CASE DropNext
  BY <1>2 DEF DropNext, DropDriver, DropClear, DropStatus
<1>3. QED BY <1>1, <1>2

\* No caller sleeps in acquire() past a publication.
THEOREM PublicationTheorem == Spec => []NoLostPublication
<1> USE SessionAssumption DEF SessionAssumption, NoLostPublication
<1>1. Init => NoLostPublication
  BY DEF Init
<1>2. TypeOK /\ NoLostPublication /\ [Next]_vars => NoLostPublication'
  <2> SUFFICES ASSUME TypeOK, NoLostPublication, [Next]_vars,
                      NEW d \in Callers, pc'[d] = "wait", conns' # 0
               PROVE  d \in unseen'
    OBVIOUS
  <2>1. CASE DriverNext \/ DropNext
    BY <2>1, DriverWakes DEF calls, Receivers
  <2>2. CASE NetworkNext \/ DropOwner \/ UNCHANGED vars
    BY <2>2 DEF NetworkNext, ConnectionLost, EndpointCloses, DropOwner, vars,
                session, calls, channel
  <2>3. ASSUME NEW c \in Callers, CallerNext(c), c # d PROVE d \in unseen'
    <3>1. pc'[d] = pc[d]
      BY <2>3 DEF CallerNext, CallerProgress, TypeOK, CallerAt, Step, Return, GiveUp,
           Call, AcquireCheck, AcquireBorrow, AcquireWake, AcquireShutdown,
           AcquireAbandoned, LeaseOpen, DropLease, TryPermit, OpenBi, Authorized,
           OpenFails, OpenAbandoned, StreamEnds, RelayFails, RequestFails,
           InspectLease, CloseCall, CloseReturns, CloseTimesOut, CloseEnds
    <3>2. QED
      BY <2>3, <3>1, CallerEffect
  <2>4. CASE CallerNext(d)
    <3>1. CASE AcquireBorrow(d)
      BY <3>1 DEF AcquireBorrow, CallerAt, TypeOK, MarkSeen
    <3>2. CASE ~AcquireBorrow(d)
      BY <2>4, <3>2 DEF CallerNext, CallerProgress, TypeOK, CallerAt, Step, Return,
           GiveUp, Call, AcquireCheck, AcquireWake, AcquireShutdown,
           AcquireAbandoned, LeaseOpen, DropLease, TryPermit, OpenBi, Authorized,
           OpenFails, OpenAbandoned, StreamEnds, RelayFails, RequestFails,
           InspectLease, CloseCall, CloseReturns, CloseTimesOut, CloseEnds
    <3>3. QED BY <3>1, <3>2
  <2>5. QED BY <2>1, <2>2, <2>3, <2>4 DEF Next
<1>3. QED BY <1>1, <1>2, TypeCorrect, PTL DEF Spec

\* The driver never sleeps on a withdrawn connection.
THEOREM InvalidationTheorem == Spec => []NoLostInvalidation
<1> USE SessionAssumption DEF SessionAssumption, NoLostInvalidation
<1>1. Init => NoLostInvalidation
  BY DEF Init
<1>2. NoLostInvalidation /\ [Next]_vars => NoLostInvalidation'
  <2> SUFFICES ASSUME NoLostInvalidation, [Next]_vars PROVE NoLostInvalidation'
    OBVIOUS
  <2>1. CASE DriverNext
    <3> USE DEF DriverAt, Goto, Report, Replace, Send, locals, channel, network
    <3>1. CASE StartDriver BY <3>1 DEF StartDriver
    <3>2. CASE EndpointLost BY <3>2 DEF EndpointLost
    <3>3. CASE RecordTerminal BY <3>3 DEF RecordTerminal
    <3>4. CASE StopSelf BY <3>4 DEF StopSelf
    <3>5. CASE BeginAttempt BY <3>5 DEF BeginAttempt
    <3>6. CASE ShutdownBetween BY <3>6 DEF ShutdownBetween
    <3>7. CASE ConnectFails BY <3>7 DEF ConnectFails
    <3>8. CASE ConnectSucceeds BY <3>8 DEF ConnectSucceeds
    <3>9. CASE RetryElapsed BY <3>9 DEF RetryElapsed
    <3>10. CASE ReportConnected BY <3>10 DEF ReportConnected
    <3>11. CASE ReportPath BY <3>11 DEF ReportPath
    <3>12. CASE Publish BY <3>12 DEF Publish
    <3>13. CASE Observe BY <3>13 DEF Observe
    <3>14. CASE Inspect BY <3>14 DEF Inspect
    <3>15. CASE MonitorShutdown BY <3>15 DEF MonitorShutdown
    <3>16. CASE MonitorClosed BY <3>16 DEF MonitorClosed
    <3>17. CASE MonitorInvalidated BY <3>17 DEF MonitorInvalidated
    <3>18. CASE MonitorPath BY <3>18 DEF MonitorPath
    <3>19. CASE Clear BY <3>19 DEF Clear
    <3>20. CASE Teardown BY <3>20 DEF Teardown
    <3>21. CASE Recover BY <3>21 DEF Recover
    <3>22. CASE ReportClosing BY <3>22 DEF ReportClosing
    <3>23. CASE Unpublish BY <3>23 DEF Unpublish
    <3>24. CASE FinishRun BY <3>24 DEF FinishRun, ClosedSnapshot
    <3>25. CASE FinishRunLate BY <3>25 DEF FinishRunLate, ClosedSnapshot
    <3>26. QED
      BY <2>1, <3>1, <3>2, <3>3, <3>4, <3>5, <3>6, <3>7, <3>8, <3>9, <3>10,
         <3>11, <3>12, <3>13, <3>14, <3>15, <3>16, <3>17, <3>18, <3>19, <3>20,
         <3>21, <3>22, <3>23, <3>24, <3>25 DEF DriverNext
  <2>2. CASE DropNext
    BY <2>2 DEF DropNext, DropDriver, DropClear, DropStatus, DriverAt, Report
  <2>3. CASE NetworkNext \/ DropOwner \/ UNCHANGED vars
    BY <2>3 DEF NetworkNext, ConnectionLost, EndpointCloses, DropOwner, vars,
                session, channel
  <2>4. ASSUME NEW c \in Callers, CallerNext(c) PROVE NoLostInvalidation'
    BY <2>4, CallerEffect DEF Receivers
  <2>5. QED BY <2>1, <2>2, <2>3, <2>4 DEF Next
<1>3. QED BY <1>1, <1>2, PTL DEF Spec
-----------------------------------------------------------------------------
(* Final results, withdrawals and the contract.                            *)

\* Closed is written by run() or Drop, never both, and never overwritten.
THEOREM ClosedFinalTheorem == Spec => ClosedIsFinal
<1>1. DriverInv /\ [Next]_vars => [status.state # "Closed"]_status
  <2> SUFFICES ASSUME DriverInv, [Next]_vars, status' # status
               PROVE  status.state # "Closed"
    OBVIOUS
  <2> USE DEF DriverInv, DriverAt, Goto, Report, Replace, locals, channel, network
  <2>1. CASE DriverNext
    <3>1. CASE StartDriver BY <3>1 DEF StartDriver
    <3>2. CASE EndpointLost BY <3>2 DEF EndpointLost
    <3>3. CASE RecordTerminal BY <3>3 DEF RecordTerminal
    <3>4. CASE StopSelf BY <3>4 DEF StopSelf
    <3>5. CASE BeginAttempt BY <3>5 DEF BeginAttempt
    <3>6. CASE ShutdownBetween BY <3>6 DEF ShutdownBetween
    <3>7. CASE ConnectFails BY <3>7 DEF ConnectFails
    <3>8. CASE ConnectSucceeds BY <3>8 DEF ConnectSucceeds
    <3>9. CASE RetryElapsed BY <3>9 DEF RetryElapsed
    <3>10. CASE ReportConnected BY <3>10 DEF ReportConnected
    <3>11. CASE ReportPath BY <3>11 DEF ReportPath
    <3>12. CASE Publish BY <3>12 DEF Publish
    <3>13. CASE Observe BY <3>13 DEF Observe
    <3>14. CASE Inspect BY <3>14 DEF Inspect
    <3>15. CASE MonitorShutdown BY <3>15 DEF MonitorShutdown
    <3>16. CASE MonitorClosed BY <3>16 DEF MonitorClosed
    <3>17. CASE MonitorInvalidated BY <3>17 DEF MonitorInvalidated
    <3>18. CASE MonitorPath BY <3>18 DEF MonitorPath
    <3>19. CASE Clear BY <3>19 DEF Clear
    <3>20. CASE Teardown BY <3>20 DEF Teardown
    <3>21. CASE Recover BY <3>21 DEF Recover
    <3>22. CASE ReportClosing BY <3>22 DEF ReportClosing
    <3>23. CASE Unpublish BY <3>23 DEF Unpublish
    <3>24. CASE FinishRun BY <3>24 DEF FinishRun, ClosedSnapshot
    <3>25. CASE FinishRunLate BY <3>25 DEF FinishRunLate, ClosedSnapshot
    <3>26. QED
      BY <2>1, <3>1, <3>2, <3>3, <3>4, <3>5, <3>6, <3>7, <3>8, <3>9, <3>10,
         <3>11, <3>12, <3>13, <3>14, <3>15, <3>16, <3>17, <3>18, <3>19, <3>20,
         <3>21, <3>22, <3>23, <3>24, <3>25 DEF DriverNext
  <2>2. CASE DropNext
    BY <2>2 DEF DropNext, DropDriver, DropClear, DropStatus
  <2>3. CASE NetworkNext \/ DropOwner \/ UNCHANGED vars
    BY <2>3 DEF NetworkNext, ConnectionLost, EndpointCloses, DropOwner, vars, session
  <2>4. ASSUME NEW c \in Callers, CallerNext(c) PROVE FALSE
    BY <2>4, CallerEffect
  <2>5. QED BY <2>1, <2>2, <2>3, <2>4 DEF Next
<1>2. QED BY <1>1, DriverInvariant, PTL DEF Spec, ClosedIsFinal

\* Only the driver withdraws a connection that is still up.
THEOREM WithdrawalTheorem == Spec => OnlyDeadWithdrawn
<1>1. [Next]_vars =>
        [conns # 0 /\ conns' = 0 /\ drv' = drv => conns \notin live]_vars
  <2> SUFFICES ASSUME Next, conns # 0, conns' = 0, drv' = drv
               PROVE  conns \notin live
    BY DEF vars
  <2>1. CASE DriverNext \/ DropNext
    BY <2>1 DEF DriverNext, DropNext, DriverAt, Goto, Report, Replace, StartDriver,
         EndpointLost, RecordTerminal, StopSelf, BeginAttempt, ShutdownBetween,
         ConnectFails, ConnectSucceeds, RetryElapsed, ReportConnected, ReportPath,
         Publish, Observe, Inspect, MonitorShutdown, MonitorClosed,
         MonitorInvalidated, MonitorPath, Clear, Teardown, Recover, ReportClosing,
         Unpublish, FinishRun, FinishRunLate, DropDriver, Droppable, AwaitPoints,
         DropClear, DropStatus
  <2>2. CASE NetworkNext \/ DropOwner
    BY <2>2 DEF NetworkNext, ConnectionLost, EndpointCloses, DropOwner, channel
  <2>3. ASSUME NEW c \in Callers, CallerNext(c) PROVE conns \notin live
    BY <2>3, CallerEffect
  <2>4. QED BY <2>1, <2>2, <2>3 DEF Next
<1>2. QED BY <1>1, PTL DEF Spec, OnlyDeadWithdrawn

\* close() callers that see an end see the same one.
THEOREM CloseTheorem == Spec => []CloseReturnsFinalResult
<1> USE DEF CloseReturnsFinalResult
<1>1. Init => CloseReturnsFinalResult
  BY DEF Init
<1>2. TypeOK /\ CloseReturnsFinalResult /\ [status.state # "Closed"]_status /\ [Next]_vars
        => CloseReturnsFinalResult'
  <2> SUFFICES ASSUME TypeOK, CloseReturnsFinalResult,
                      [status.state # "Closed"]_status, [Next]_vars,
                      NEW d \in Callers, outcome'[d] \notin {"Pending", "TimeoutShutdown"}
               PROVE  status'.state = "Closed" /\ outcome'[d] = status'.terminalError
    OBVIOUS
  <2>1. CASE outcome'[d] = outcome[d]
    BY <2>1
  <2>2. CASE outcome'[d] # outcome[d]
    <3>1. PICK c \in Callers : CloseReturns(c) \/ CloseTimesOut(c)
      <4>1. ~(DriverNext \/ DropNext)
        BY <2>2, DriverWakes, SessionAssumption DEF calls
      <4>2. ~(NetworkNext \/ DropOwner \/ UNCHANGED vars)
        BY <2>2 DEF NetworkNext, ConnectionLost, EndpointCloses, DropOwner, vars, calls
      <4>3. ASSUME NEW c \in Callers, CallerNext(c), ~CloseReturns(c), ~CloseTimesOut(c)
            PROVE  FALSE
        BY <2>2, <4>3 DEF CallerNext, CallerProgress, CallerAt, Step, Return, GiveUp,
           Call, AcquireCheck, AcquireBorrow, AcquireWake, AcquireShutdown,
           AcquireAbandoned, LeaseOpen, DropLease, TryPermit, OpenBi, Authorized,
           OpenFails, OpenAbandoned, StreamEnds, RelayFails, RequestFails,
           InspectLease, CloseCall, calls
      <4>4. QED BY <4>1, <4>2, <4>3 DEF Next
    <3>2. QED
      BY <2>2, <3>1 DEF CloseReturns, CloseTimesOut, CloseEnds, TypeOK, session
  <2>3. QED BY <2>1, <2>2
<1>3. QED
  BY <1>1, <1>2, TypeCorrect, ClosedFinalTheorem, PTL DEF Spec, ClosedIsFinal

\* Every path out of open_tcp and of a stream gives its permit back, once.
THEOREM PermitTheorem == Spec => []PermitsConserved
<1> DEFINE Held == {c \in Callers : pc[c] \in Holding}
<1> USE SessionAssumption DEF SessionAssumption
<1>0. IsFiniteSet(Held) /\ Cardinality(Held) \in Nat
  BY FS_Subset, FS_CardinalityType
<1>1. Init => PermitsConserved
  <2> SUFFICES ASSUME Init PROVE PermitsConserved
    OBVIOUS
  <2>1. Held = {}
    BY DEF Init, Holding
  <2>2. QED
    BY <2>1, FS_EmptySet DEF Init, PermitsConserved
<1>2. TypeOK /\ PermitsConserved /\ [Next]_vars => PermitsConserved'
  <2> SUFFICES ASSUME TypeOK, PermitsConserved, [Next]_vars PROVE PermitsConserved'
    OBVIOUS
  <2>1. CASE permits' = permits /\ Held' = Held
    BY <2>1 DEF PermitsConserved
  <2>2. ASSUME NEW c \in Callers, permits' = permits - 1, Held' = Held \cup {c}, c \notin Held
        PROVE  PermitsConserved'
    <3>1. Cardinality(Held \cup {c}) = Cardinality(Held) + 1
      BY <1>0, <2>2, FS_AddElement
    <3>2. permits + Cardinality(Held) = MaxStreams
      BY DEF PermitsConserved
    <3>3. permits' + Cardinality(Held') = MaxStreams
      BY <1>0, <2>2, <3>1, <3>2 DEF TypeOK
    <3>4. QED BY <3>3 DEF PermitsConserved
  <2>3. ASSUME NEW c \in Callers, permits' = permits + 1, Held' = Held \ {c}, c \in Held
        PROVE  PermitsConserved'
    <3> HIDE DEF Held
    <3>1. Cardinality(Held') = Cardinality(Held) - 1
      BY <1>0, <2>3, FS_RemoveElement
    <3>2. permits + Cardinality(Held) = MaxStreams
      BY DEF PermitsConserved, Held
    <3>3. permits' + Cardinality(Held') = MaxStreams
      BY <1>0, <2>3, <3>1, <3>2 DEF TypeOK
    <3>4. QED BY <3>3 DEF PermitsConserved, Held
  <2>4. CASE DriverNext \/ DropNext \/ NetworkNext \/ DropOwner \/ UNCHANGED vars
    BY <2>1, <2>4, DriverWakes DEF NetworkNext, ConnectionLost, EndpointCloses,
       DropOwner, vars, calls
  <2>5. ASSUME NEW c \in Callers, CallerNext(c) PROVE PermitsConserved'
    <3> USE DEF TypeOK, CallerAt, Holding
    <3>1. CASE \E own \in BOOLEAN : Call(c, own) BY <2>1, <3>1 DEF Call
    <3>2. CASE AcquireCheck(c) BY <2>1, <3>2 DEF AcquireCheck, GiveUp, Step
    <3>3. CASE AcquireBorrow(c) BY <2>1, <3>3 DEF AcquireBorrow
    <3>4. CASE AcquireWake(c) BY <2>1, <3>4 DEF AcquireWake
    <3>5. CASE AcquireShutdown(c) BY <2>1, <3>5 DEF AcquireShutdown, GiveUp
    <3>6. CASE AcquireAbandoned(c) BY <2>1, <3>6 DEF AcquireAbandoned, GiveUp
    <3>7. CASE LeaseOpen(c) BY <2>1, <3>7 DEF LeaseOpen, Step
    <3>8. CASE DropLease(c) BY <2>1, <3>8 DEF DropLease
    <3>9. CASE TryPermit(c) BY <2>1, <2>2, <3>9 DEF TryPermit, Return
    <3>10. CASE OpenBi(c) BY <2>1, <3>10 DEF OpenBi, Step
    <3>11. CASE Authorized(c) BY <2>1, <3>11 DEF Authorized, Step
    <3>12. CASE OpenFails(c) BY <2>3, <3>12 DEF OpenFails
    <3>13. CASE OpenAbandoned(c) BY <2>3, <3>13 DEF OpenAbandoned, Return
    <3>14. CASE StreamEnds(c) BY <2>3, <3>14 DEF StreamEnds, Return
    <3>15. CASE RelayFails(c) BY <2>3, <3>15 DEF RelayFails
    <3>16. CASE RequestFails(c) BY <2>1, <3>16 DEF RequestFails, Step
    <3>17. CASE InspectLease(c) BY <2>1, <3>17 DEF InspectLease, Return
    <3>18. CASE CloseCall(c) BY <2>1, <3>18 DEF CloseCall
    <3>19. CASE CloseReturns(c) BY <2>1, <3>19 DEF CloseReturns, CloseEnds
    <3>20. CASE CloseTimesOut(c) BY <2>1, <3>20 DEF CloseTimesOut, CloseEnds
    <3>21. QED
      BY <2>5, <3>1, <3>2, <3>3, <3>4, <3>5, <3>6, <3>7, <3>8, <3>9, <3>10,
         <3>11, <3>12, <3>13, <3>14, <3>15, <3>16, <3>17, <3>18, <3>19, <3>20
         DEF CallerNext, CallerProgress
  <2>6. QED BY <2>4, <2>5 DEF Next
<1>3. QED BY <1>1, <1>2, TypeCorrect, PTL DEF Spec

\* A caller's step that cancels the token does nothing else to the session.
LEMMA OnlyCloseStops ==
  ASSUME NEW c \in Callers, CallerNext(c), ~CloseCall(c)
  PROVE  shutdown' = shutdown
BY DEF CallerNext, CallerProgress, CallerAt, Step, MarkSeen, GiveUp, Call,
   AcquireCheck, AcquireBorrow, AcquireWake, AcquireShutdown, AcquireAbandoned,
   LeaseOpen, DropLease, TryPermit, OpenBi, Authorized, OpenFails, OpenAbandoned,
   StreamEnds, RelayFails, RequestFails, InspectLease, CloseReturns,
   CloseTimesOut, CloseEnds, session

\* The detailed session implements the contract its callers rely on.
THEOREM ContractTheorem == Spec => ImplementsContract
<1> USE DEF Issued, Contract!contractVars
<1>1. Init => Contract!ContractInit
  BY DEF Init, Contract!ContractInit
<1>2. TypeOK /\ DriverInv /\ DriverInv' /\ [Next]_vars
        => [Contract!ContractNext]_(Contract!contractVars)
  <2> SUFFICES ASSUME TypeOK, DriverInv, DriverInv', [Next]_vars
               PROVE  [Contract!ContractNext]_(Contract!contractVars)
    OBVIOUS
  <2> USE DEF Contract!ContractNext, Contract!Offer, Contract!Lose, Contract!Withdraw,
              Contract!Stop, Contract!End, TypeOK, DriverInv, Attached
  <2>1. CASE DriverNext
    <3> USE DEF DriverAt, Goto, Report, Replace, Send, Updated, Routed, Snapshot,
                Attempting, Status, Errors, locals, channel, network
    <3>1. CASE StartDriver BY <3>1 DEF StartDriver
    <3>2. CASE EndpointLost BY <3>2 DEF EndpointLost
    <3>3. CASE RecordTerminal BY <3>3 DEF RecordTerminal
    <3>4. CASE StopSelf BY <3>4 DEF StopSelf
    <3>5. CASE BeginAttempt BY <3>5 DEF BeginAttempt
    <3>6. CASE ShutdownBetween BY <3>6 DEF ShutdownBetween
    <3>7. CASE ConnectFails BY <3>7 DEF ConnectFails
    <3>8. CASE ConnectSucceeds BY <3>8 DEF ConnectSucceeds
    <3>9. CASE RetryElapsed BY <3>9 DEF RetryElapsed
    <3>10. CASE ReportConnected BY <3>10 DEF ReportConnected
    <3>11. CASE ReportPath BY <3>11 DEF ReportPath
    <3>12. CASE Publish BY <3>12 DEF Publish
    <3>13. CASE Observe BY <3>13 DEF Observe
    <3>14. CASE Inspect BY <3>14 DEF Inspect
    <3>15. CASE MonitorShutdown BY <3>15 DEF MonitorShutdown
    <3>16. CASE MonitorClosed BY <3>16 DEF MonitorClosed
    <3>17. CASE MonitorInvalidated BY <3>17 DEF MonitorInvalidated
    <3>18. CASE MonitorPath BY <3>18 DEF MonitorPath
    <3>19. CASE Clear BY <3>19 DEF Clear
    <3>20. CASE Teardown BY <3>20 DEF Teardown
    <3>21. CASE Recover BY <3>21 DEF Recover
    <3>22. CASE ReportClosing BY <3>22 DEF ReportClosing
    <3>23. CASE Unpublish BY <3>23 DEF Unpublish
    <3>24. CASE FinishRun BY <3>24 DEF FinishRun, ClosedSnapshot
    <3>25. CASE FinishRunLate BY <3>25 DEF FinishRunLate, ClosedSnapshot
    <3>26. QED
      BY <2>1, <3>1, <3>2, <3>3, <3>4, <3>5, <3>6, <3>7, <3>8, <3>9, <3>10,
         <3>11, <3>12, <3>13, <3>14, <3>15, <3>16, <3>17, <3>18, <3>19, <3>20,
         <3>21, <3>22, <3>23, <3>24, <3>25 DEF DriverNext
  <2>2. CASE DropNext
    <3> USE DEF DriverAt, Report, Send, Snapshot, Status, Errors, locals, channel, network
    <3>1. CASE DropDriver BY <3>1 DEF DropDriver, Droppable, AwaitPoints
    <3>2. CASE DropClear BY <3>2 DEF DropClear
    <3>3. CASE DropStatus BY <3>3 DEF DropStatus
    <3>4. QED BY <2>2, <3>1, <3>2, <3>3 DEF DropNext
  <2>3. CASE NetworkNext \/ DropOwner \/ UNCHANGED vars
    BY <2>3 DEF NetworkNext, ConnectionLost, EndpointCloses, DropOwner, vars,
                session, locals, channel, network
  <2>4. ASSUME NEW c \in Callers, CallerNext(c)
        PROVE  [Contract!ContractNext]_(Contract!contractVars)
    <3>1. CASE CloseCall(c)
      BY <3>1 DEF CloseCall, locals, channel, network
    <3>2. CASE ~CloseCall(c)
      BY <2>4, <3>2, CallerEffect, OnlyCloseStops
    <3>3. QED BY <3>1, <3>2
  <2>5. QED BY <2>1, <2>2, <2>3, <2>4 DEF Next
<1>3. QED
  BY <1>1, <1>2, TypeCorrect, DriverInvariant, PTL
     DEF Spec, ImplementsContract, Contract!ContractSpec
=============================================================================
