------------------------- MODULE NativeClientProofs -------------------------
(***************************************************************************)
(* Proofs about the ownership of attachments, for any set of attachments   *)
(* and of concurrent Client::close calls, whether or not the executor may  *)
(* stall and the runtime may be destroyed.                                 *)
(***************************************************************************)
EXTENDS NativeClient, TLAPS

\* Where run_attachment has started neither of its children.
Childless == {"none", "spawned", "setup", "refuse", "lost"}

\* What the task of an attachment owes before it reports: startup is refused
\* only at its end, and by then both children are gone.
Settled(a) ==
  /\ reply[a] = "error" => task[a] \in {"final", "complete", "gone"}
  /\ task[a] \in Childless => listener[a] = "none" /\ driver[a] = "none"
  /\ task[a] \in {"report", "final", "complete"} \/ reply[a] = "error" =>
       listener[a] # "bound" /\ driver[a] # "running"

\* An attachment is registered as long as its task has not completed.
Registered(a) ==
  /\ start[a] = "idle" => task[a] = "none"
  /\ clientAlive /\ task[a] \notin {"none", "gone"} => a \in attached

\* Client::close has shut the door before it looks who is inside.
CloserInv ==
  \A k \in Closers :
    /\ closer[k] # "idle" => closed
    /\ closer[k] = "cancelling" => \A a \in Attachments : task[a] \in Running => a \in pending[k]

ClientInv ==
  /\ \A a \in Attachments : Settled(a) /\ Registered(a)
  /\ CloserInv
  /\ NoOrphan
  /\ CloseCancelsAll

\* What a step of an attachment's task or of its children may do to anything
\* that an owner relies on.
Effect(a) ==
  /\ UNCHANGED <<closed, clientAlive, start, handle, closer, pending>>
  /\ \A b \in Attachments \ {a} :
       /\ task'[b] = task[b] /\ cancel'[b] = cancel[b] /\ reply'[b] = reply[b]
       /\ listener'[b] = listener[b] /\ driver'[b] = driver[b]
  /\ cancel[a] => cancel'[a]
  /\ task'[a] \in Running => task[a] \in Running
  /\ task'[a] = "none" <=> task[a] = "none"
  /\ attached \ {a} \subseteq attached' /\ (task'[a] # "gone" => attached' = attached)
  /\ task[a] = "gone" => task'[a] = "gone"
  /\ Settled(a) => Settled(a)'

-----------------------------------------------------------------------------

\* Every step of run_attachment, its Completion included.
LEMMA TaskEffect ==
  ASSUME TypeOK, NEW a \in Attachments, TaskStep(a)
  PROVE  TypeOK' /\ Effect(a)
<1> USE DEF TypeOK, TaskPC, Errors, States, Running, Childless, Effect, Settled, Goto, SetStatus,
            Cancel, OrElse, registry, control, children, owners, closers
<1>1. CASE TaskBegins(a)             BY <1>1 DEF TaskBegins
<1>2. CASE SetupFails(a)             BY <1>2 DEF SetupFails
<1>3. CASE Refuse(a)                 BY <1>3 DEF Refuse
<1>4. CASE SetupSucceeds(a)          BY <1>4 DEF SetupSucceeds
<1>5. CASE Mirror(a)                 BY <1>5 DEF Mirror, PeerCause
<1>6. CASE SelectCancelled(a)        BY <1>6 DEF SelectCancelled
<1>7. ASSUME NEW error \in Errors, SelectFails(a, error) PROVE TypeOK' /\ Effect(a)
  BY <1>7 DEF SelectFails
<1>8. CASE SelectChanged(a)          BY <1>8 DEF SelectChanged
<1>9. CASE StopAttachment(a)         BY <1>9 DEF StopAttachment
<1>10. CASE ReportFailed(a)          BY <1>10 DEF ReportFailed
<1>11. CASE ReportClosing(a)         BY <1>11 DEF ReportClosing
<1>12. CASE CloseSession(a)          BY <1>12 DEF CloseSession, PeerCause
<1>13. CASE Join(a)                  BY <1>13 DEF Join
<1>14. CASE CleanupTimesOut(a)
  BY <1>14 DEF CleanupTimesOut, InBudget, AbortChildren, TimeoutCause
<1>15. CASE ReportStartup(a)         BY <1>15 DEF ReportStartup
<1>16. CASE ReportClosed(a)          BY <1>16 DEF ReportClosed
<1>17. CASE Complete(a)
  <2>1. /\ task[a] \in {"complete", "unwind"} /\ task' = [task EXCEPT ![a] = "gone"]
        /\ UNCHANGED <<closed, clientAlive, connect, failure, children, owners, reply, closers>>
    BY <1>17 DEF Complete
  <2>2. \/ UNCHANGED control
        \/ cancel' = [cancel EXCEPT ![a] = TRUE] /\ SetStatus(a, "Closed", "TaskFailed")
    BY <1>17 DEF Complete, CompletionStatus
  <2>3. /\ cancel' \in [Attachments -> BOOLEAN] /\ state' \in [Attachments -> States]
        /\ terminal' \in [Attachments -> Errors]
        /\ \A b \in Attachments \ {a} : cancel'[b] = cancel[b]
        /\ cancel[a] => cancel'[a]
    <3>1. CASE UNCHANGED control  BY <3>1
    <3>2. CASE cancel' = [cancel EXCEPT ![a] = TRUE] /\ SetStatus(a, "Closed", "TaskFailed")
      BY <3>2
    <3> QED BY <2>2, <3>1, <3>2
  <2>4. attached' \in {attached, attached \ {a}} /\ closeError' \in {closeError, terminal'[a]}
    BY <1>17 DEF Complete
  <2>5. closeError' \in Errors /\ attached' \in SUBSET Attachments /\ attached \ {a} \subseteq attached'
    <3>1. terminal'[a] \in Errors /\ closeError \in Errors
      BY <2>3
    <3>2. attached \subseteq Attachments
      OBVIOUS
    <3> QED BY <2>4, <3>1, <3>2
  <2>6. TypeOK'
    BY <2>1, <2>3, <2>5
  <2>7. Settled(a) => Settled(a)'
    BY <2>1
  <2> QED BY <2>1, <2>3, <2>5, <2>6, <2>7
<1> HIDE DEF TypeOK, Effect
<1> QED
  BY <1>1, <1>2, <1>3, <1>4, <1>5, <1>6, <1>7, <1>8, <1>9, <1>10, <1>11, <1>12, <1>13, <1>14,
     <1>15, <1>16, <1>17
  DEF TaskStep

\* Every step of the listener task and of the session driver.
LEMMA ChildEffect ==
  ASSUME TypeOK, NEW a \in Attachments, ChildStep(a)
  PROVE  TypeOK' /\ Effect(a)
<1> USE DEF TypeOK, States, Running, Childless, Effect, Settled, registry, local, control, owners,
            closers
<1>1. CASE ListenerFails(a)          BY <1>1 DEF ListenerFails
<1>2. CASE ListenerStops(a)          BY <1>2 DEF ListenerStops
<1>3. CASE DriverDropped(a)          BY <1>3 DEF DriverDropped
<1>4. CASE DriverEnds(a)             BY <1>4 DEF DriverEnds
<1>5. ASSUME NEW newState \in States, PeerPublishes(a, newState) PROVE TypeOK' /\ Effect(a)
  BY <1>5 DEF PeerPublishes
<1> HIDE DEF TypeOK, Effect
<1> QED
  BY <1>1, <1>2, <1>3, <1>4, <1>5
  DEF ChildStep

\* A destroyed runtime drops a task before its first poll, or where it waits.
LEMMA DropEffect ==
  ASSUME TypeOK, NEW a \in Attachments, TaskLost(a) \/ TaskDropped(a)
  PROVE  TypeOK' /\ Effect(a)
<1> USE DEF TypeOK, TaskPC, Running, Childless, Effect, Settled, Goto, AwaitPoints, registry, control,
            children, owners, closers
<1>1. CASE TaskLost(a)     BY <1>1 DEF TaskLost
<1>2. CASE TaskDropped(a)  BY <1>2 DEF TaskDropped
<1> QED
  BY <1>1, <1>2

\* The owners' calls and futures are well typed.
LEMMA OwnerType ==
  ASSUME TypeOK, NEW a \in Attachments, OwnerStep(a)
  PROVE  TypeOK'
<1> USE DEF TypeOK, TaskPC, Errors, Goto, Cancel, registry, local, control, children, owners, closers
<1>1. CASE Start(a)                  BY <1>1 DEF Start
<1>2. CASE StartRefused(a)           BY <1>2 DEF StartRefused
<1>3. CASE StartReturns(a)           BY <1>3 DEF StartReturns
<1>4. CASE StartFails(a)             BY <1>4 DEF StartFails
<1>5. CASE StartDropped(a)           BY <1>5 DEF StartDropped
<1>6. CASE StartLosesTask(a)         BY <1>6 DEF StartLosesTask
<1>7. CASE CloseAttachment(a)        BY <1>7 DEF CloseAttachment
<1>8. CASE CloseAttachmentReturns(a) BY <1>8 DEF CloseAttachmentReturns
<1>9. CASE DropHandle(a)             BY <1>9 DEF DropHandle
<1> HIDE DEF TypeOK
<1> QED
  BY <1>1, <1>2, <1>3, <1>4, <1>5, <1>6, <1>7, <1>8, <1>9
  DEF OwnerStep

\* So are Client::close and the drop of the last client handle.
LEMMA CloserType ==
  ASSUME TypeOK, (\E k \in Closers : CloserStep(k)) \/ DropClient
  PROVE  TypeOK'
<1> USE DEF TypeOK, Errors, OrElse, registry, local, control, children, owners, closers
<1>1. CASE DropClient  BY <1>1 DEF DropClient
<1>2. ASSUME NEW k \in Closers, CloserStep(k) PROVE TypeOK'
  <2>1. CASE CloseClient(k)          BY <2>1 DEF CloseClient
  <2>2. CASE CloserCancels(k)        BY <2>2 DEF CloserCancels
  <2>3. CASE CloserWaited(k)         BY <2>3 DEF CloserWaited
  <2>4. CASE CloserTimesOut(k)       BY <2>4 DEF CloserTimesOut
  <2>5. CASE CloserRecords(k)        BY <2>5 DEF CloserRecords
  <2>6. ASSUME NEW a \in Attachments, CloserSeesClosed(k, a) PROVE TypeOK'
    BY <2>6 DEF CloserSeesClosed
  <2> HIDE DEF TypeOK
  <2> QED
    BY <1>2, <2>1, <2>2, <2>3, <2>4, <2>5, <2>6
    DEF CloserStep
<1> HIDE DEF TypeOK
<1> QED
  BY <1>1, <1>2

\* Type correctness of the native client.
THEOREM TypeCorrect == Spec => []TypeOK
<1>1. Init => TypeOK
  <2> SUFFICES ASSUME Init PROVE TypeOK
    OBVIOUS
  <2>1. /\ closed \in BOOLEAN /\ clientAlive \in BOOLEAN
        /\ cancel \in [Attachments -> BOOLEAN] /\ peerNews \in [Attachments -> BOOLEAN]
        /\ handle \in [Attachments -> BOOLEAN] /\ closing \in [Attachments -> BOOLEAN]
        /\ connect \in [Attachments -> BOOLEAN]
    BY Zenon DEF Init
  <2>2. /\ attached \in SUBSET Attachments
        /\ results \in [Attachments -> SUBSET Errors]
        /\ pending \in [Closers -> SUBSET Attachments]
    BY DEF Init
  <2> QED BY <2>1, <2>2 DEF Init, TypeOK, TaskPC, Errors, States
<1>2. TypeOK /\ [Next]_vars => TypeOK'
  <2>1. TypeOK /\ UNCHANGED vars => TypeOK'
    BY DEF TypeOK, vars, registry, local, control, children, owners, closers
  <2> QED
    BY <2>1, TaskEffect, ChildEffect, DropEffect, OwnerType, CloserType DEF Next
<1> QED
  BY <1>1, <1>2, PTL DEF Spec

-----------------------------------------------------------------------------

\* A task and its children cannot escape their owners.
LEMMA EffectKeeps ==
  ASSUME TypeOK, ClientInv, NEW a \in Attachments, Effect(a)
  PROVE  ClientInv'
<1> USE DEF ClientInv, Effect
<1>1. ASSUME NEW b \in Attachments PROVE Settled(b)' /\ Registered(b)'
  <2>1. CASE b = a
    BY <2>1 DEF Registered
  <2>2. CASE b # a
    BY <2>2 DEF Settled, Registered
  <2> QED BY <2>1, <2>2
<1>2. CloserInv'
  <2>1. \A b \in Attachments : task'[b] \in Running => task[b] \in Running
    OBVIOUS
  <2> QED BY <2>1 DEF CloserInv
<1>3. NoOrphan'
  BY DEF NoOrphan
<1>4. CloseCancelsAll'
  BY DEF CloseCancelsAll
<1> QED
  BY <1>1, <1>2, <1>3, <1>4

\* Starting, returning, failing or dropping a startup future, and closing or
\* dropping a handle, leave no running task without an owner.
LEMMA OwnerKeeps ==
  ASSUME TypeOK, ClientInv, NEW a \in Attachments, OwnerStep(a)
  PROVE  ClientInv'
<1> USE DEF TypeOK, ClientInv, Goto, Cancel, registry, local, control, children, owners, closers,
            Settled, Registered, CloserInv, NoOrphan, CloseCancelsAll, Running, Childless
<1>1. CASE Start(a)
  <2>1. /\ task[a] = "none" /\ task' = [task EXCEPT ![a] = "spawned"]
        /\ start' = [start EXCEPT ![a] = "waiting"] /\ attached' = attached \cup {a}
        /\ clientAlive /\ ~closed
        /\ UNCHANGED <<closed, clientAlive, cancel, reply, listener, driver, handle, closer, pending>>
    BY <1>1 DEF Start
  <2>2. \A b \in Attachments : (Settled(b) /\ Registered(b))'
    BY <2>1
  <2>3. CloserInv' /\ CloseCancelsAll'
    BY <2>1
  <2>4. NoOrphan'
    BY <2>1
  <2> HIDE DEF Settled, Registered, CloserInv, NoOrphan, CloseCancelsAll
  <2> QED BY <2>2, <2>3, <2>4
<1>2. CASE StartRefused(a)           BY <1>2 DEF StartRefused
<1>3. CASE StartReturns(a)           BY <1>3 DEF StartReturns
<1>4. CASE StartFails(a)             BY <1>4 DEF StartFails
<1>5. CASE StartDropped(a)           BY <1>5 DEF StartDropped
<1>6. CASE StartLosesTask(a)         BY <1>6 DEF StartLosesTask
<1>7. CASE CloseAttachment(a)        BY <1>7 DEF CloseAttachment
<1>8. CASE CloseAttachmentReturns(a) BY <1>8 DEF CloseAttachmentReturns
<1>9. CASE DropHandle(a)             BY <1>9 DEF DropHandle
<1> HIDE DEF ClientInv
<1> QED
  BY <1>1, <1>2, <1>3, <1>4, <1>5, <1>6, <1>7, <1>8, <1>9
  DEF OwnerStep

\* Client::close and the drop of the last handle reach every running task.
LEMMA CloserKeeps ==
  ASSUME TypeOK, ClientInv, (\E k \in Closers : CloserStep(k)) \/ DropClient
  PROVE  ClientInv'
<1> USE DEF TypeOK, ClientInv, registry, local, control, children, owners, closers,
            Settled, Registered, CloserInv, NoOrphan, CloseCancelsAll, Running, Childless
<1>1. CASE DropClient  BY <1>1 DEF DropClient
<1>2. ASSUME NEW k \in Closers, CloserStep(k) PROVE ClientInv'
  <2>1. CASE CloseClient(k)          BY <2>1 DEF CloseClient
  <2>2. CASE CloserCancels(k)        BY <2>2 DEF CloserCancels
  <2>3. CASE CloserWaited(k)         BY <2>3 DEF CloserWaited
  <2>4. CASE CloserTimesOut(k)       BY <2>4 DEF CloserTimesOut
  <2>5. CASE CloserRecords(k)        BY <2>5 DEF CloserRecords
  <2>6. ASSUME NEW a \in Attachments, CloserSeesClosed(k, a) PROVE ClientInv'
    BY <2>6 DEF CloserSeesClosed
  <2> HIDE DEF ClientInv
  <2> QED
    BY <1>2, <2>1, <2>2, <2>3, <2>4, <2>5, <2>6
    DEF CloserStep
<1> HIDE DEF ClientInv
<1> QED
  BY <1>1, <1>2

\* The inductive invariant of the native client.
THEOREM ClientTheorem == Spec => []ClientInv
<1>1. Init => ClientInv
  BY DEF Init, ClientInv, Settled, Registered, CloserInv, NoOrphan, CloseCancelsAll, Running, Childless
<1>2. TypeOK /\ ClientInv /\ [Next]_vars => ClientInv'
  <2>1. ClientInv /\ UNCHANGED vars => ClientInv'
    BY DEF ClientInv, Settled, Registered, CloserInv, NoOrphan, CloseCancelsAll, vars, registry, local,
           control, children, owners, closers
  <2> QED
    BY <2>1, TaskEffect, ChildEffect, DropEffect, EffectKeeps, OwnerKeeps, CloserKeeps DEF Next
<1> QED
  BY <1>1, <1>2, TypeCorrect, PTL DEF Spec

\* No attachment keeps running that nobody owns any more: the startup guard, the
\* last attachment handle and the last client handle all cancel its task.
THEOREM OrphanTheorem == Spec => []NoOrphan
<1>1. ClientInv => NoOrphan
  BY DEF ClientInv
<1> QED
  BY <1>1, ClientTheorem, PTL

\* Client::close cancels every attachment, also one whose start raced it.
THEOREM CloseTheorem == Spec => []CloseCancelsAll
<1>1. ClientInv => CloseCancelsAll
  BY DEF ClientInv
<1> QED
  BY <1>1, ClientTheorem, PTL

\* run_attachment reports its end only after listener and driver are gone.
THEOREM ReleaseTheorem == Spec => []FinalReportReleases
<1>1. ClientInv => FinalReportReleases
  BY DEF ClientInv, Settled, FinalReportReleases
<1> QED
  BY <1>1, ClientTheorem, PTL
=============================================================================
