--------------------------- MODULE HostServerProofs ---------------------------
(***************************************************************************)
(* Proofs about the host's stream tasks, for any set of connections, any   *)
(* finite set of streams, any requests and any number of permits.          *)
(***************************************************************************)
EXTENDS HostServer, FiniteSetTheorems, TLAPS

\* The streams that hold a permit of tcp_connections.
Holders == {s \in Streams : stream[s] \in Holding}

\* Where a stream task has not begun a response.
BeforeHead == {"none", "head", "validate", "send", "join", "respond", "refuse",
               "permit", "connect", "reply"}

\* What response_started knows: no head has been sent before the task answers,
\* and after a failure only if the flag says so; the flag is set with the body.
HeadInv ==
  \A s \in Streams :
    /\ heads[s] <= 1
    /\ stream[s] \in BeforeHead => heads[s] = 0
    /\ stream[s] = "failed" /\ ~started[s] => heads[s] = 0
    /\ stream[s] = "body" => started[s]

-----------------------------------------------------------------------------

\* A step of one stream is well typed and touches no other stream: tasks share
\* only the permits.
LEMMA StreamEffect ==
  ASSUME TypeOK, NEW s \in Streams, StreamStep(s)
  PROVE  /\ TypeOK'
         /\ \A t \in Streams \ {s} :
              /\ stream'[t] = stream[t] /\ upload'[t] = upload[t]
              /\ heads'[t] = heads[t] /\ started'[t] = started[t]
<1> DEFINE Effect ==
      /\ TypeOK'
      /\ \A t \in Streams \ {s} :
           /\ stream'[t] = stream[t] /\ upload'[t] = upload[t]
           /\ heads'[t] = heads[t] /\ started'[t] = started[t]
<1> SUFFICES Effect
  OBVIOUS
<1> USE DEF TypeOK, StreamPC, UploadDropped, PermitsAfter, process, work, halves
<1>1. CASE AcceptBi(s)           BY <1>1 DEF AcceptBi
<1>2. CASE CancelStream(s)       BY <1>2 DEF CancelStream, Finish
<1>3. CASE AbortStream(s)        BY <1>3 DEF AbortStream, Finish
<1>4. CASE StopSending(s)        BY <1>4 DEF StopSending
<1>5. ASSUME NEW ok \in BOOLEAN, ReadHead(s, ok) PROVE Effect
  BY <1>5 DEF ReadHead, Step
<1>6. ASSUME NEW ok \in BOOLEAN, BodyEnds(s, ok) PROVE Effect
  <2>0. ASSUME Finish(s), UNCHANGED <<host, shutdown, conn, link, req, started, heads, halves>>
        PROVE  Effect
    BY <2>0 DEF Finish
  <2>1. CASE ok
    <3>1. Finish(s) /\ UNCHANGED <<host, shutdown, conn, link, req, started, heads, halves>>
      BY <1>6, <2>1 DEF BodyEnds
    <3> QED BY <2>0, <3>1
  <2>2. CASE ~ok
    <3>1. /\ stream' = [stream EXCEPT ![s] = "failed"] /\ upstream' = [upstream EXCEPT ![s] = FALSE]
          /\ UNCHANGED <<process, conn, link, req, started, heads, halves, upload, permits>>
      BY <1>6, <2>2 DEF BodyEnds, Step
    <3> QED BY <3>1
  <2> QED BY <2>1, <2>2
<1>7. CASE Validate(s)           BY <1>7 DEF Validate, Step
<1>8. CASE Refuse(s)             BY <1>8 DEF Refuse, Finish
<1>9. CASE SendFails(s)          BY <1>9 DEF SendFails, Step
<1>10. CASE SendReturns(s)       BY <1>10 DEF SendReturns, Step
<1>11. CASE JoinUpload(s)        BY <1>11 DEF JoinUpload, Step
<1>12. CASE ResponseTooLarge(s)  BY <1>12 DEF ResponseTooLarge, Step
<1>13. CASE Respond(s)           BY <1>13 DEF Respond, MarkStarted, Step
<1>14. CASE HttpFails(s)
  <2>0. ASSUME Finish(s), UNCHANGED <<host, shutdown, conn, link, req, started, heads, halves>>
        PROVE  Effect
    BY <2>0 DEF Finish
  <2>1. CASE started[s]   BY <1>14, <2>0, <2>1 DEF HttpFails
  <2>2. CASE ~started[s]  BY <1>14, <2>2 DEF HttpFails, Step
  <2> QED BY <2>1, <2>2
<1>15. CASE HttpDeadline(s)      BY <1>15 DEF HttpDeadline, InDeadline
<1>16. ASSUME NEW result \in {"done", "failed"}, UploadEnds(s, result) PROVE Effect
  BY <1>16 DEF UploadEnds
<1>17. CASE UploadAborted(s)     BY <1>17 DEF UploadAborted
<1>18. CASE TryPermit(s)         BY <1>18 DEF TryPermit, Step
<1>19. CASE ConnectFails(s)      BY <1>19 DEF ConnectFails, Finish
<1>20. CASE ConnectUpstream(s)   BY <1>20 DEF ConnectUpstream, Step
<1>21. CASE Reply(s)             BY <1>21 DEF Reply, Step
<1>22. CASE FinishSend(s)        BY <1>22 DEF FinishSend
<1>23. CASE FinishReceive(s)     BY <1>23 DEF FinishReceive
<1>24. CASE RelayBreaks(s)       BY <1>24 DEF RelayBreaks
<1>25. CASE RelayEnds(s)         BY <1>25 DEF RelayEnds, Finish
<1> QED
  BY <1>1, <1>2, <1>3, <1>4, <1>5, <1>6, <1>7, <1>8, <1>9, <1>10, <1>11, <1>12, <1>13, <1>14,
     <1>15, <1>16, <1>17, <1>18, <1>19, <1>20, <1>21, <1>22, <1>23, <1>24, <1>25
  DEF StreamStep

\* The host and its connections change no stream task.
LEMMA OthersEffect ==
  ASSUME TypeOK, HostStep \/ (\E c \in Connections : ConnectionStep(c)) \/ UNCHANGED vars
  PROVE  TypeOK' /\ UNCHANGED <<stream, link, req, started, heads, upload, upstream, permits>>
<1> USE DEF TypeOK, process, work, halves
<1>1. CASE HostStep
  BY <1>1
  DEF HostStep, StopAccepting, Drained, DrainTimesOut, AbortConnections, CloseEndpoint
<1>2. ASSUME NEW c \in Connections, ConnectionStep(c)
      PROVE  TypeOK' /\ UNCHANGED <<stream, link, req, started, heads, upload, upstream, permits>>
  BY <1>2 DEF ConnectionStep, Incoming, HandshakeEnds, LeaveConnection, JoinStreams
<1>3. CASE UNCHANGED vars
  BY <1>3 DEF vars
<1> QED
  BY <1>1, <1>2, <1>3

\* Type correctness of the host process.
THEOREM TypeCorrect == Spec => []TypeOK
<1>1. Init => TypeOK
  <2> SUFFICES ASSUME Init PROVE TypeOK
    OBVIOUS
  <2>1. /\ started \in [Streams -> BOOLEAN] /\ upstream \in [Streams -> BOOLEAN]
        /\ received \in [Streams -> BOOLEAN] /\ broken \in [Streams -> BOOLEAN]
        /\ shutdown \in BOOLEAN
    BY Zenon DEF Init
  <2>2. heads \in [Streams -> Nat] /\ permits \in Nat
    BY ServerAssumption DEF Init
  <2> QED BY <2>1, <2>2 DEF Init, TypeOK, StreamPC
<1>2. TypeOK /\ [Next]_vars => TypeOK'
  BY StreamEffect, OthersEffect DEF Next
<1> QED
  BY <1>1, <1>2, PTL DEF Spec

-----------------------------------------------------------------------------

\* A step of a stream task takes a permit when it starts to hold one, returns
\* one when it stops holding it, and otherwise leaves the semaphore alone.
LEMMA PermitEffect ==
  ASSUME TypeOK, NEW s \in Streams, StreamStep(s)
  PROVE  \/ UNCHANGED permits /\ (stream'[s] \in Holding <=> stream[s] \in Holding)
         \/ /\ permits > 0 /\ permits' = permits - 1
            /\ stream[s] \notin Holding /\ stream'[s] \in Holding
         \/ /\ permits' = permits + 1
            /\ stream[s] \in Holding /\ stream'[s] \notin Holding
<1> DEFINE Effect ==
      \/ UNCHANGED permits /\ (stream'[s] \in Holding <=> stream[s] \in Holding)
      \/ /\ permits > 0 /\ permits' = permits - 1
         /\ stream[s] \notin Holding /\ stream'[s] \in Holding
      \/ /\ permits' = permits + 1
         /\ stream[s] \in Holding /\ stream'[s] \notin Holding
<1> SUFFICES Effect
  OBVIOUS
<1> USE DEF TypeOK, StreamPC, PermitsAfter, Holding, Idle
<1>0. ASSUME Finish(s) PROVE Effect
  BY <1>0 DEF Finish
<1>1. CASE AcceptBi(s)           BY <1>1 DEF AcceptBi
<1>2. CASE CancelStream(s)       BY <1>2 DEF CancelStream, Finish
<1>3. CASE AbortStream(s)        BY <1>3 DEF AbortStream, Finish
<1>4. CASE StopSending(s)        BY <1>4 DEF StopSending
<1>5. ASSUME NEW ok \in BOOLEAN, ReadHead(s, ok) PROVE Effect
  BY <1>5 DEF ReadHead, Step
<1>6. ASSUME NEW ok \in BOOLEAN, BodyEnds(s, ok) PROVE Effect
  <2>1. CASE ok   BY <1>6, <2>1, <1>0 DEF BodyEnds
  <2>2. CASE ~ok  BY <1>6, <2>2 DEF BodyEnds, Step
  <2> QED BY <2>1, <2>2
<1>7. CASE Validate(s)           BY <1>7 DEF Validate, Step
<1>8. CASE Refuse(s)             BY <1>8 DEF Refuse, Finish
<1>9. CASE SendFails(s)          BY <1>9 DEF SendFails, Step
<1>10. CASE SendReturns(s)       BY <1>10 DEF SendReturns, Step
<1>11. CASE JoinUpload(s)        BY <1>11 DEF JoinUpload, Step
<1>12. CASE ResponseTooLarge(s)  BY <1>12 DEF ResponseTooLarge, Step
<1>13. CASE Respond(s)           BY <1>13 DEF Respond, MarkStarted, Step
<1>14. CASE HttpFails(s)
  <2>1. CASE started[s]   BY <1>14, <2>1, <1>0 DEF HttpFails
  <2>2. CASE ~started[s]  BY <1>14, <2>2 DEF HttpFails, Step
  <2> QED BY <2>1, <2>2
<1>15. CASE HttpDeadline(s)      BY <1>15 DEF HttpDeadline, InDeadline
<1>16. ASSUME NEW result \in {"done", "failed"}, UploadEnds(s, result) PROVE Effect
  BY <1>16 DEF UploadEnds
<1>17. CASE UploadAborted(s)     BY <1>17 DEF UploadAborted
<1>18. CASE TryPermit(s)         BY <1>18 DEF TryPermit, Step
<1>19. CASE ConnectFails(s)      BY <1>19 DEF ConnectFails, Finish
<1>20. CASE ConnectUpstream(s)   BY <1>20 DEF ConnectUpstream, Step
<1>21. CASE Reply(s)             BY <1>21 DEF Reply, Step
<1>22. CASE FinishSend(s)        BY <1>22 DEF FinishSend
<1>23. CASE FinishReceive(s)     BY <1>23 DEF FinishReceive
<1>24. CASE RelayBreaks(s)       BY <1>24 DEF RelayBreaks
<1>25. CASE RelayEnds(s)         BY <1>25 DEF RelayEnds, Finish
<1> QED
  BY <1>1, <1>2, <1>3, <1>4, <1>5, <1>6, <1>7, <1>8, <1>9, <1>10, <1>11, <1>12, <1>13, <1>14,
     <1>15, <1>16, <1>17, <1>18, <1>19, <1>20, <1>21, <1>22, <1>23, <1>24, <1>25
  DEF StreamStep

\* The budget of TCP streams: every permit is free or held by exactly one
\* stream that is connecting or relaying, however streams end.
THEOREM PermitTheorem == Spec => []PermitsConserved
<1>1. Init => PermitsConserved
  <2> SUFFICES ASSUME Init PROVE PermitsConserved
    OBVIOUS
  <2>1. Holders = {}
    BY DEF Init, Holders, Holding
  <2> QED BY <2>1, FS_EmptySet, ServerAssumption DEF Init, PermitsConserved, Holders
<1>2. TypeOK /\ PermitsConserved /\ [Next]_vars => PermitsConserved'
  <2> SUFFICES ASSUME TypeOK, PermitsConserved, [Next]_vars PROVE PermitsConserved'
    OBVIOUS
  <2>0. permits + Cardinality(Holders) = MaxTcp /\ permits \in Nat /\ MaxTcp \in Nat
    BY ServerAssumption DEF PermitsConserved, Holders, TypeOK
  <2>1. IsFiniteSet(Holders) /\ Cardinality(Holders) \in Nat
    BY ServerAssumption, FS_Subset, FS_CardinalityType DEF Holders
  <2>2. CASE HostStep \/ (\E c \in Connections : ConnectionStep(c)) \/ UNCHANGED vars
    <3>1. UNCHANGED <<stream, permits>>
      BY <2>2, OthersEffect
    <3>2. Holders' = Holders
      BY <3>1 DEF Holders
    <3> QED BY <2>0, <3>1, <3>2 DEF PermitsConserved, Holders
  <2>3. ASSUME NEW s \in Streams, StreamStep(s) PROVE PermitsConserved'
    <3>0. \A t \in Streams \ {s} : stream'[t] = stream[t]
      BY <2>3, StreamEffect
    <3> SUFFICES permits' + Cardinality(Holders') = MaxTcp
      BY DEF PermitsConserved, Holders
    <3>1. CASE UNCHANGED permits /\ (stream'[s] \in Holding <=> stream[s] \in Holding)
      <4>1. Holders' = Holders
        BY <3>0, <3>1 DEF Holders
      <4> QED BY <2>0, <3>1, <4>1
    <3>2. CASE /\ permits > 0 /\ permits' = permits - 1
               /\ stream[s] \notin Holding /\ stream'[s] \in Holding
      <4>1. Holders' = Holders \cup {s} /\ s \notin Holders
        BY <3>0, <3>2 DEF Holders
      <4>2. Cardinality(Holders') = Cardinality(Holders) + 1
        BY <2>1, <4>1, FS_AddElement
      <4> QED BY <2>0, <2>1, <3>2, <4>2
    <3>3. CASE /\ permits' = permits + 1
               /\ stream[s] \in Holding /\ stream'[s] \notin Holding
      <4>1. Holders' = Holders \ {s} /\ s \in Holders
        BY <3>0, <3>3 DEF Holders
      <4>2. Cardinality(Holders') = Cardinality(Holders) - 1
        BY <2>1, <4>1, FS_RemoveElement
      <4> QED BY <2>0, <2>1, <3>3, <4>2
    <3> QED BY <2>3, <3>1, <3>2, <3>3, PermitEffect
  <2> QED
    BY <2>2, <2>3 DEF Next
<1> QED
  BY <1>1, <1>2, TypeCorrect, PTL DEF Spec

-----------------------------------------------------------------------------

\* At most one response head per stream: the deadline, an upstream failure and
\* the response itself cannot both answer, because response_started is set
\* before a head is written and looked at after every failure.
THEOREM HeadTheorem == Spec => []OneResponseHead
<1> DEFINE Answer(s) == /\ heads[s] <= 1
                        /\ stream[s] \in BeforeHead => heads[s] = 0
                        /\ stream[s] = "failed" /\ ~started[s] => heads[s] = 0
                        /\ stream[s] = "body" => started[s]
<1>1. Init => HeadInv
  BY DEF Init, HeadInv
<1>2. TypeOK /\ HeadInv /\ [Next]_vars => HeadInv'
  <2> SUFFICES ASSUME TypeOK, HeadInv, [Next]_vars PROVE HeadInv'
    OBVIOUS
  <2>1. CASE HostStep \/ (\E c \in Connections : ConnectionStep(c)) \/ UNCHANGED vars
    <3>1. UNCHANGED <<stream, heads, started>>
      BY <2>1, OthersEffect
    <3> QED BY <3>1 DEF HeadInv
  <2>2. ASSUME NEW s \in Streams, StreamStep(s) PROVE Answer(s)'
    <3> USE DEF TypeOK, HeadInv, StreamPC, BeforeHead, work
    <3>0. ASSUME Finish(s), UNCHANGED <<heads, started>> PROVE Answer(s)'
      BY <3>0 DEF Finish
    <3>1. CASE AcceptBi(s)       BY <3>1 DEF AcceptBi
    <3>2. CASE CancelStream(s)   BY <3>2 DEF CancelStream, Finish
    <3>3. CASE AbortStream(s)    BY <3>3 DEF AbortStream, Finish
    <3>4. CASE StopSending(s)    BY <3>4 DEF StopSending
    <3>5. ASSUME NEW ok \in BOOLEAN, ReadHead(s, ok) PROVE Answer(s)'
      BY <3>5 DEF ReadHead, Step
    <3>6. ASSUME NEW ok \in BOOLEAN, BodyEnds(s, ok) PROVE Answer(s)'
      <4>1. CASE ok   BY <3>6, <4>1, <3>0 DEF BodyEnds
      <4>2. CASE ~ok  BY <3>6, <4>2 DEF BodyEnds, Step
      <4> QED BY <4>1, <4>2
    <3>7. CASE Validate(s)       BY <3>7 DEF Validate, Step
    <3>8. CASE Refuse(s)         BY <3>8 DEF Refuse, Finish
    <3>9. CASE SendFails(s)      BY <3>9 DEF SendFails, Step
    <3>10. CASE SendReturns(s)   BY <3>10 DEF SendReturns, Step
    <3>11. CASE JoinUpload(s)    BY <3>11 DEF JoinUpload, Step
    <3>12. CASE ResponseTooLarge(s) BY <3>12 DEF ResponseTooLarge, Step
    <3>13. CASE Respond(s)       BY <3>13 DEF Respond, MarkStarted, Step
    <3>14. CASE HttpFails(s)
      <4>1. CASE started[s]   BY <3>14, <4>1, <3>0 DEF HttpFails
      <4>2. CASE ~started[s]  BY <3>14, <4>2 DEF HttpFails, Step
      <4> QED BY <4>1, <4>2
    <3>15. CASE HttpDeadline(s)  BY <3>15 DEF HttpDeadline, InDeadline
    <3>16. ASSUME NEW result \in {"done", "failed"}, UploadEnds(s, result) PROVE Answer(s)'
      BY <3>16 DEF UploadEnds
    <3>17. CASE UploadAborted(s) BY <3>17 DEF UploadAborted
    <3>18. CASE TryPermit(s)     BY <3>18 DEF TryPermit, Step
    <3>19. CASE ConnectFails(s)  BY <3>19 DEF ConnectFails, Finish
    <3>20. CASE ConnectUpstream(s) BY <3>20 DEF ConnectUpstream, Step
    <3>21. CASE Reply(s)         BY <3>21 DEF Reply, Step
    <3>22. CASE FinishSend(s)    BY <3>22 DEF FinishSend
    <3>23. CASE FinishReceive(s) BY <3>23 DEF FinishReceive
    <3>24. CASE RelayBreaks(s)   BY <3>24 DEF RelayBreaks
    <3>25. CASE RelayEnds(s)     BY <3>25 DEF RelayEnds, Finish
    <3> QED
      BY <2>2, <3>1, <3>2, <3>3, <3>4, <3>5, <3>6, <3>7, <3>8, <3>9, <3>10, <3>11, <3>12, <3>13, <3>14,
         <3>15, <3>16, <3>17, <3>18, <3>19, <3>20, <3>21, <3>22, <3>23, <3>24, <3>25
      DEF StreamStep
  <2>3. ASSUME NEW s \in Streams, StreamStep(s) PROVE HeadInv'
    <3>1. \A t \in Streams \ {s} :
            stream'[t] = stream[t] /\ heads'[t] = heads[t] /\ started'[t] = started[t]
      BY <2>3, StreamEffect
    <3> QED BY <2>2, <2>3, <3>1 DEF HeadInv
  <2> QED
    BY <2>1, <2>3 DEF Next
<1>3. HeadInv => OneResponseHead
  BY DEF HeadInv, OneResponseHead
<1> QED
  BY <1>1, <1>2, <1>3, TypeCorrect, PTL DEF Spec

\* Whatever drops a stream task aborts its request body task (AbortOnDrop).
THEOREM UploadTheorem == Spec => []NoDetachedUpload
<1>1. Init => NoDetachedUpload
  BY DEF Init, NoDetachedUpload
<1>2. TypeOK /\ NoDetachedUpload /\ [Next]_vars => NoDetachedUpload'
  <2> SUFFICES ASSUME TypeOK, NoDetachedUpload, [Next]_vars PROVE NoDetachedUpload'
    OBVIOUS
  <2>1. CASE HostStep \/ (\E c \in Connections : ConnectionStep(c)) \/ UNCHANGED vars
    <3>1. UNCHANGED <<stream, upload>>
      BY <2>1, OthersEffect
    <3> QED BY <3>1 DEF NoDetachedUpload
  <2>2. ASSUME NEW s \in Streams, StreamStep(s)
        PROVE  (stream[s] = "done" => upload[s] # "running")'
    <3> DEFINE Joined == stream[s] = "done" => upload[s] # "running"
    <3> SUFFICES Joined'
      OBVIOUS
    <3> USE DEF TypeOK, NoDetachedUpload, StreamPC, UploadDropped, work
    <3>0. ASSUME Finish(s) PROVE Joined'
      BY <3>0 DEF Finish
    <3>1. CASE AcceptBi(s)       BY <3>1 DEF AcceptBi
    <3>2. CASE CancelStream(s)   BY <3>2 DEF CancelStream, Finish
    <3>3. CASE AbortStream(s)    BY <3>3 DEF AbortStream, Finish
    <3>4. CASE StopSending(s)    BY <3>4 DEF StopSending
    <3>5. ASSUME NEW ok \in BOOLEAN, ReadHead(s, ok) PROVE Joined'
      BY <3>5 DEF ReadHead, Step
    <3>6. ASSUME NEW ok \in BOOLEAN, BodyEnds(s, ok) PROVE Joined'
      <4>1. CASE ok   BY <3>6, <4>1, <3>0 DEF BodyEnds
      <4>2. CASE ~ok  BY <3>6, <4>2 DEF BodyEnds, Step
      <4> QED BY <4>1, <4>2
    <3>7. CASE Validate(s)       BY <3>7 DEF Validate, Step
    <3>8. CASE Refuse(s)         BY <3>8 DEF Refuse, Finish
    <3>9. CASE SendFails(s)      BY <3>9 DEF SendFails, Step
    <3>10. CASE SendReturns(s)   BY <3>10 DEF SendReturns, Step
    <3>11. CASE JoinUpload(s)    BY <3>11 DEF JoinUpload, Step
    <3>12. CASE ResponseTooLarge(s) BY <3>12 DEF ResponseTooLarge, Step
    <3>13. CASE Respond(s)       BY <3>13 DEF Respond, MarkStarted, Step
    <3>14. CASE HttpFails(s)
      <4>1. CASE started[s]   BY <3>14, <4>1, <3>0 DEF HttpFails
      <4>2. CASE ~started[s]  BY <3>14, <4>2 DEF HttpFails, Step
      <4> QED BY <4>1, <4>2
    <3>15. CASE HttpDeadline(s)  BY <3>15 DEF HttpDeadline, InDeadline
    <3>16. ASSUME NEW result \in {"done", "failed"}, UploadEnds(s, result) PROVE Joined'
      BY <3>16 DEF UploadEnds
    <3>17. CASE UploadAborted(s) BY <3>17 DEF UploadAborted
    <3>18. CASE TryPermit(s)     BY <3>18 DEF TryPermit, Step
    <3>19. CASE ConnectFails(s)  BY <3>19 DEF ConnectFails, Finish
    <3>20. CASE ConnectUpstream(s) BY <3>20 DEF ConnectUpstream, Step
    <3>21. CASE Reply(s)         BY <3>21 DEF Reply, Step
    <3>22. CASE FinishSend(s)    BY <3>22 DEF FinishSend
    <3>23. CASE FinishReceive(s) BY <3>23 DEF FinishReceive
    <3>24. CASE RelayBreaks(s)   BY <3>24 DEF RelayBreaks
    <3>25. CASE RelayEnds(s)     BY <3>25 DEF RelayEnds, Finish
    <3> QED
      BY <2>2, <3>1, <3>2, <3>3, <3>4, <3>5, <3>6, <3>7, <3>8, <3>9, <3>10, <3>11, <3>12, <3>13, <3>14,
         <3>15, <3>16, <3>17, <3>18, <3>19, <3>20, <3>21, <3>22, <3>23, <3>24, <3>25
      DEF StreamStep
  <2>3. ASSUME NEW s \in Streams, StreamStep(s) PROVE NoDetachedUpload'
    <3>1. \A t \in Streams \ {s} : stream'[t] = stream[t] /\ upload'[t] = upload[t]
      BY <2>3, StreamEffect
    <3> QED BY <2>2, <2>3, <3>1 DEF NoDetachedUpload
  <2> QED
    BY <2>1, <2>3 DEF Next
<1> QED
  BY <1>1, <1>2, TypeCorrect, PTL DEF Spec

-----------------------------------------------------------------------------

\* Finishing the send half of a relay is not taken for STOP_SENDING: the relay
\* ends only with its other direction, by a failure or with its connection.
THEOREM HalfCloseTheorem == Spec => HalfCloseSurvives
<1> DEFINE Survives == \A s \in Streams :
             stream[s] = "relay" /\ sent[s] = "finished" /\ stream'[s] = "done" =>
               received[s] \/ broken[s] \/ conn[link[s]] # "open"
<1>1. TypeOK /\ [Next]_vars => [Survives]_vars
  <2> SUFFICES ASSUME TypeOK, Next, NEW s \in Streams,
                      stream[s] = "relay", sent[s] = "finished", stream'[s] = "done"
               PROVE  received[s] \/ broken[s] \/ conn[link[s]] # "open"
    BY DEF vars
  <2>1. StreamStep(s)
    <3>1. stream'[s] # stream[s]
      OBVIOUS
    <3>2. PICK t \in Streams : StreamStep(t)
      BY <3>1, OthersEffect DEF Next
    <3>3. t = s
      BY <3>1, <3>2, StreamEffect
    <3> QED BY <3>2, <3>3
  <2>2. CASE AbortStream(s)  BY <2>2 DEF AbortStream
  <2>3. CASE RelayEnds(s)    BY <2>3 DEF RelayEnds
  <2>4. CASE CancelStream(s) BY <2>4 DEF CancelStream, Cancelled
  <2>5. CASE ~AbortStream(s) /\ ~RelayEnds(s) /\ ~CancelStream(s)
    BY <2>1, <2>5
    DEF TypeOK, StreamStep, AcceptBi, StopSending, ReadHead, BodyEnds, Validate, Refuse, SendFails,
        SendReturns, JoinUpload, ResponseTooLarge, Respond, HttpFails, HttpDeadline, InDeadline,
        UploadEnds, UploadAborted, TryPermit, ConnectFails, ConnectUpstream, Reply, FinishSend,
        FinishReceive, RelayBreaks, Step
  <2> QED
    BY <2>2, <2>3, <2>4, <2>5
<1> QED
  BY <1>1, TypeCorrect, PTL DEF Spec, HalfCloseSurvives
=============================================================================
