------------------------------ MODULE HostServer ------------------------------
(***************************************************************************)
(* The host process serving tunnel streams. run() accepts peer connections *)
(* until it is told to stop; each connection task accepts streams; each    *)
(* stream task reads a request head, authorises it and forwards it: an     *)
(* HTTP request to its upstream under one deadline, with the upload in a   *)
(* task of its own, or a TCP stream under a permit of the shared           *)
(* semaphore. A stream task is dropped wherever it waits when the peer     *)
(* sends STOP_SENDING, its connection ends or the host shuts down.         *)
(*                                                                         *)
(* A request is a record of what the checks see: its kind and whether      *)
(* protocol version, service name, service type and secret proof are       *)
(* right. Response heads are counted; statuses and bytes are left out.     *)
(***************************************************************************)
EXTENDS Naturals, FiniteSets

CONSTANTS
  Connections,   \* incoming connections
  Streams,       \* streams the peers open
  Requests,      \* request heads the peers send
  MaxTcp         \* permits of tcp_connections (128 in the code)

Request == [kind : {"http", "tcp"}, version : BOOLEAN, known : BOOLEAN,
            typed : BOOLEAN, proof : BOOLEAN, body : BOOLEAN]

ASSUME ServerAssumption ==
  /\ IsFiniteSet(Streams)
  /\ Requests \subseteq Request /\ Requests # {}
  /\ MaxTcp \in Nat \ {0}

VARIABLES
  host,      \* where run() is
  shutdown,  \* the shutdown token
  conn,      \* each connection task
  stream,    \* each stream task
  link,      \* the connection of each stream
  req,       \* its request head
  started,   \* response_started
  heads,     \* response heads begun on the stream
  upload,    \* the request body task
  upstream,  \* an upstream request or connection is in progress
  permits,   \* free permits
  sent,      \* what became of the send half: open, finished or stopped
  received,  \* a relay's other direction has ended
  broken     \* a relay met an I/O error or its idle deadline

process == <<host, shutdown>>
halves == <<sent, received, broken>>
work == <<started, heads, upload, upstream>>
vars == <<process, conn, stream, link, req, work, permits, halves>>

StreamPC == {"none", "head", "validate", "send", "join", "respond", "body",
             "failed", "refuse", "permit", "connect", "reply", "relay", "done"}

Idle == {"none", "done"}

\* The part of handle_tcp_stream where _permit is alive.
Holding == {"connect", "reply", "relay"}

TypeOK ==
  /\ host \in {"accepting", "draining", "closing", "stopped"}
  /\ shutdown \in BOOLEAN
  /\ conn \in [Connections -> {"none", "handshake", "open", "closing", "aborted", "done"}]
  /\ stream \in [Streams -> StreamPC]
  /\ link \in [Streams -> Connections]
  /\ req \in [Streams -> Requests]
  /\ started \in [Streams -> BOOLEAN]
  /\ heads \in [Streams -> Nat]
  /\ upload \in [Streams -> {"none", "running", "done", "failed", "aborting"}]
  /\ upstream \in [Streams -> BOOLEAN]
  /\ permits \in Nat
  /\ sent \in [Streams -> {"open", "finished", "stopped"}]
  /\ received \in [Streams -> BOOLEAN]
  /\ broken \in [Streams -> BOOLEAN]

\* link and req are chosen by the peer, here ahead of time.
Init ==
  /\ host = "accepting" /\ shutdown = FALSE
  /\ conn = [c \in Connections |-> "none"]
  /\ stream = [s \in Streams |-> "none"]
  /\ link \in [Streams -> Connections]
  /\ req \in [Streams -> Requests]
  /\ started = [s \in Streams |-> FALSE]
  /\ heads = [s \in Streams |-> 0]
  /\ upload = [s \in Streams |-> "none"]
  /\ upstream = [s \in Streams |-> FALSE]
  /\ permits = MaxTcp
  /\ sent = [s \in Streams |-> "open"]
  /\ received = [s \in Streams |-> FALSE]
  /\ broken = [s \in Streams |-> FALSE]

-----------------------------------------------------------------------------
(* run(): the accept loop and its shutdown.                                *)

Incoming(c) ==
  /\ host = "accepting" /\ conn[c] = "none"
  /\ conn' = [conn EXCEPT ![c] = "handshake"]
  /\ UNCHANGED <<process, stream, link, req, work, permits, halves>>

\* A signal, or the end of the endpoint.
StopAccepting ==
  /\ host = "accepting"
  /\ host' = "draining" /\ shutdown' = TRUE
  /\ UNCHANGED <<conn, stream, link, req, work, permits, halves>>

Drained ==
  /\ host = "draining" /\ \A c \in Connections : conn[c] \in {"none", "done"}
  /\ host' = "closing"
  /\ UNCHANGED <<shutdown, conn, stream, link, req, work, permits, halves>>

\* Fault: what is left at the deadline is not aborted.
AbortLeft == UNCHANGED conn

\* connections.abort_all(): a dropped connection task drops its JoinSet.
AbortConnections ==
  conn' = [c \in Connections |-> IF conn[c] \in {"none", "done"} THEN conn[c] ELSE "aborted"]

DrainTimesOut ==
  /\ host = "draining"
  /\ host' = "closing"
  /\ AbortConnections
  /\ UNCHANGED <<shutdown, stream, link, req, work, permits, halves>>

\* endpoint.close()
CloseEndpoint ==
  /\ host = "closing"
  /\ host' = "stopped"
  /\ UNCHANGED <<shutdown, conn, stream, link, req, work, permits, halves>>

-----------------------------------------------------------------------------
(* handle_connection                                                       *)

\* The handshake does not look at the shutdown token.
HandshakeEnds(c, ok) ==
  /\ conn[c] = "handshake"
  /\ conn' = [conn EXCEPT ![c] = IF ok THEN "open" ELSE "done"]
  /\ UNCHANGED <<process, stream, link, req, work, permits, halves>>

AcceptBi(s) ==
  /\ conn[link[s]] = "open" /\ stream[s] = "none"
  /\ stream' = [stream EXCEPT ![s] = "head"]
  /\ UNCHANGED <<process, conn, link, req, work, permits, halves>>

\* The peer is gone or the host stops: close, and abort every stream.
LeaveConnection(c) ==
  /\ conn[c] = "open"
  /\ conn' = [conn EXCEPT ![c] = "closing"]
  /\ UNCHANGED <<process, stream, link, req, work, permits, halves>>

JoinStreams(c) ==
  /\ conn[c] = "closing" /\ \A s \in Streams : link[s] = c => stream[s] \in Idle
  /\ conn' = [conn EXCEPT ![c] = "done"]
  /\ UNCHANGED <<process, stream, link, req, work, permits, halves>>

-----------------------------------------------------------------------------
(* The stream task. Finish is the end of its future, returned or dropped:  *)
(* the permit and the upstream go with it, AbortOnDrop aborts the upload.  *)

\* Fault: join() takes the handle before it awaits it.
UploadDroppedInJoin(s) ==
  IF upload[s] = "running" /\ stream[s] # "join" THEN "aborting" ELSE upload[s]

\* Drop for AbortOnDrop
UploadDropped(s) == IF upload[s] = "running" THEN "aborting" ELSE upload[s]

\* Fault: a dropped stream keeps its permit.
PermitsAfterLeak(s) == permits

PermitsAfter(s) == IF stream[s] \in Holding THEN permits + 1 ELSE permits

Finish(s) ==
  /\ stream' = [stream EXCEPT ![s] = "done"]
  /\ upload' = [upload EXCEPT ![s] = UploadDropped(s)]
  /\ upstream' = [upstream EXCEPT ![s] = FALSE]
  /\ permits' = PermitsAfter(s)

Step(s, from, to) == stream[s] = from /\ stream' = [stream EXCEPT ![s] = to]

\* Fault: every end of the send half counts as cancellation.
CancelledByFinish(s) == sent[s] # "open"

\* Only STOP_SENDING (or a lost connection) resolves `cancelled`.
Cancelled(s) == sent[s] = "stopped"

\* Fault: STOP_SENDING is noticed by the next write only.
CancelWriter(s) ==
  /\ stream[s] \in {"body", "relay"} /\ Cancelled(s)
  /\ Finish(s)
  /\ UNCHANGED <<process, conn, link, req, started, heads, halves>>

\* handle_peer_stream's biased branch
CancelStream(s) ==
  /\ stream[s] \notin Idle /\ Cancelled(s)
  /\ Finish(s)
  /\ UNCHANGED <<process, conn, link, req, started, heads, halves>>

\* The JoinSet of the connection aborts the task.
AbortStream(s) ==
  /\ stream[s] \notin Idle /\ conn[link[s]] \in {"closing", "aborted"}
  /\ Finish(s)
  /\ UNCHANGED <<process, conn, link, req, started, heads, halves>>

\* read_request_head: a head, or 408 or 400
ReadHead(s, ok) ==
  /\ Step(s, "head", IF ok THEN "validate" ELSE "refuse")
  /\ UNCHANGED <<process, conn, link, req, work, permits, halves>>

\* validate_http_request and the checks of handle_tcp_stream; they differ only
\* in the order of the last two, that is in the status of a refusal.
Admitted(r) == r.version /\ r.known /\ r.typed /\ r.proof

Validate(s) ==
  /\ Step(s, "validate", IF ~Admitted(req[s]) THEN "refuse"
                         ELSE IF req[s].kind = "http" THEN "send" ELSE "permit")
  /\ IF Admitted(req[s]) /\ req[s].kind = "http"
     THEN /\ upstream' = [upstream EXCEPT ![s] = TRUE]
          /\ upload' = [upload EXCEPT ![s] = IF req[s].body THEN "running" ELSE @]
     ELSE UNCHANGED <<upstream, upload>>
  /\ UNCHANGED <<process, conn, link, req, started, heads, permits, halves>>

\* write_error and return
Refuse(s) ==
  /\ stream[s] = "refuse"
  /\ heads' = [heads EXCEPT ![s] = @ + 1]
  /\ Finish(s)
  /\ UNCHANGED <<process, conn, link, req, started, halves>>

-----------------------------------------------------------------------------
(* forward_to_upstream_with_state, under the request deadline.             *)

\* The request could not be built or sent: the upload is aborted and joined.
SendFails(s) ==
  /\ Step(s, "send", "failed")
  /\ upload' = [upload EXCEPT ![s] = IF @ = "running" THEN "aborting" ELSE @]
  /\ upstream' = [upstream EXCEPT ![s] = FALSE]
  /\ UNCHANGED <<process, conn, link, req, started, heads, permits, halves>>

SendReturns(s) ==
  /\ Step(s, "send", IF req[s].body THEN "join" ELSE "respond")
  /\ UNCHANGED <<process, conn, link, req, work, permits, halves>>

\* The upload must have been complete for the response to be passed on.
JoinUpload(s) ==
  /\ upload[s] \in {"done", "failed"}
  /\ Step(s, "join", IF upload[s] = "done" THEN "respond" ELSE "failed")
  /\ upstream' = [upstream EXCEPT ![s] = upload[s] = "done"]
  /\ UNCHANGED <<process, conn, link, req, started, heads, upload, permits, halves>>

\* A declared length beyond the limit
ResponseTooLarge(s) ==
  /\ Step(s, "respond", "failed")
  /\ upstream' = [upstream EXCEPT ![s] = FALSE]
  /\ UNCHANGED <<process, conn, link, req, started, heads, upload, permits, halves>>

\* Fault: the flag is not set before the head is written.
MarkStartedNot(s) == UNCHANGED started

MarkStarted(s) == started' = [started EXCEPT ![s] = TRUE]

Respond(s) ==
  /\ Step(s, "respond", "body")
  /\ MarkStarted(s)
  /\ heads' = [heads EXCEPT ![s] = @ + 1]
  /\ UNCHANGED <<process, conn, link, req, upload, upstream, permits, halves>>

\* The head and the body are written, or a read, a write or the limit fails.
BodyEnds(s, ok) ==
  /\ stream[s] = "body"
  /\ IF ok THEN Finish(s)
     ELSE /\ Step(s, "body", "failed")
          /\ upstream' = [upstream EXCEPT ![s] = FALSE]
          /\ UNCHANGED <<upload, permits>>
  /\ UNCHANGED <<process, conn, link, req, started, heads, halves>>

\* Ok(Err(_)): 413, 502 or 504, unless the response has begun.
HttpFails(s) ==
  /\ stream[s] = "failed" /\ upload[s] # "aborting"
  /\ IF started[s] THEN Finish(s)
     ELSE Step(s, "failed", "refuse") /\ UNCHANGED <<upload, upstream, permits>>
  /\ UNCHANGED <<process, conn, link, req, started, heads, halves>>

InDeadline(s) == stream[s] \in {"send", "join", "respond", "body"}

\* Err(Elapsed): the forwarding future is dropped; then 504, if one can still
\* be sent.
HttpDeadline(s) ==
  /\ InDeadline(s)
  /\ upload' = [upload EXCEPT ![s] = UploadDropped(s)]
  /\ upstream' = [upstream EXCEPT ![s] = FALSE]
  /\ stream' = [stream EXCEPT ![s] = IF started[s] THEN "done" ELSE "refuse"]
  /\ UNCHANGED <<process, conn, link, req, started, heads, permits, halves>>

\* The upload task: the body is passed on, or reading or sending it fails.
UploadEnds(s, result) ==
  /\ upload[s] = "running"
  /\ upload' = [upload EXCEPT ![s] = result]
  /\ UNCHANGED <<process, conn, stream, link, req, started, heads, upstream, permits, halves>>

UploadAborted(s) ==
  /\ upload[s] = "aborting"
  /\ upload' = [upload EXCEPT ![s] = "done"]
  /\ UNCHANGED <<process, conn, stream, link, req, started, heads, upstream, permits, halves>>

-----------------------------------------------------------------------------
(* handle_tcp_stream once the request is authorised.                       *)

\* try_acquire_owned(), or 429
TryPermit(s) ==
  /\ \/ permits > 0 /\ Step(s, "permit", "connect") /\ permits' = permits - 1
     \/ permits = 0 /\ Step(s, "permit", "refuse") /\ UNCHANGED permits
  /\ UNCHANGED <<process, conn, link, req, work, halves>>

\* 502 or 504: the reply is written before the permit goes.
ConnectFails(s) ==
  /\ stream[s] = "connect"
  /\ heads' = [heads EXCEPT ![s] = @ + 1]
  /\ Finish(s)
  /\ UNCHANGED <<process, conn, link, req, started, halves>>

ConnectUpstream(s) ==
  /\ Step(s, "connect", "reply")
  /\ upstream' = [upstream EXCEPT ![s] = TRUE]
  /\ UNCHANGED <<process, conn, link, req, started, heads, upload, permits, halves>>

Reply(s) ==
  /\ Step(s, "reply", "relay")
  /\ heads' = [heads EXCEPT ![s] = @ + 1]
  /\ UNCHANGED <<process, conn, link, req, started, upload, upstream, permits, halves>>

\* One direction ends: the upstream's end finishes the send half, and the
\* peer's end shuts down the upstream's.
FinishSend(s) ==
  /\ stream[s] = "relay" /\ sent[s] = "open"
  /\ sent' = [sent EXCEPT ![s] = "finished"]
  /\ UNCHANGED <<process, conn, stream, link, req, work, permits, received, broken>>

FinishReceive(s) ==
  /\ stream[s] = "relay" /\ ~received[s]
  /\ received' = [received EXCEPT ![s] = TRUE]
  /\ UNCHANGED <<process, conn, stream, link, req, work, permits, sent, broken>>

\* An I/O error, or the idle deadline.
RelayBreaks(s) ==
  /\ stream[s] = "relay" /\ ~broken[s]
  /\ broken' = [broken EXCEPT ![s] = TRUE]
  /\ UNCHANGED <<process, conn, stream, link, req, work, permits, sent, received>>

RelayEnds(s) ==
  /\ stream[s] = "relay" /\ (broken[s] \/ (sent[s] = "finished" /\ received[s]))
  /\ Finish(s)
  /\ UNCHANGED <<process, conn, link, req, started, heads, halves>>

-----------------------------------------------------------------------------

\* The peer gives up on the response (external).
StopSending(s) ==
  /\ stream[s] \notin Idle /\ sent[s] # "stopped"
  /\ sent' = [sent EXCEPT ![s] = "stopped"]
  /\ UNCHANGED <<process, conn, stream, link, req, work, permits, received, broken>>

ConnectionStep(c) ==
  \/ Incoming(c) \/ (\E ok \in BOOLEAN : HandshakeEnds(c, ok))
  \/ LeaveConnection(c) \/ JoinStreams(c)

StreamStep(s) ==
  \/ AcceptBi(s) \/ CancelStream(s) \/ AbortStream(s) \/ StopSending(s)
  \/ \E ok \in BOOLEAN : ReadHead(s, ok) \/ BodyEnds(s, ok)
  \/ Validate(s) \/ Refuse(s)
  \/ SendFails(s) \/ SendReturns(s) \/ JoinUpload(s) \/ ResponseTooLarge(s)
  \/ Respond(s) \/ HttpFails(s) \/ HttpDeadline(s)
  \/ (\E result \in {"done", "failed"} : UploadEnds(s, result)) \/ UploadAborted(s)
  \/ TryPermit(s) \/ ConnectFails(s) \/ ConnectUpstream(s) \/ Reply(s)
  \/ FinishSend(s) \/ FinishReceive(s) \/ RelayBreaks(s) \/ RelayEnds(s)

HostStep == StopAccepting \/ Drained \/ DrainTimesOut \/ CloseEndpoint

Next ==
  \/ HostStep
  \/ \E c \in Connections : ConnectionStep(c)
  \/ \E s \in Streams : StreamStep(s)

\* Tasks that are aborted are dropped, the host's own timers fire and requests
\* meet their deadline. Nobody has to connect, answer, read, send or stop
\* anything: peers and upstreams may stay silent for ever.
Fairness ==
  /\ WF_vars(Drained \/ DrainTimesOut \/ CloseEndpoint)
  /\ \A c \in Connections :
       WF_vars(JoinStreams(c)) /\ WF_vars(shutdown /\ LeaveConnection(c))
  /\ \A s \in Streams :
       /\ WF_vars(CancelStream(s)) /\ WF_vars(AbortStream(s))
       /\ WF_vars(HttpDeadline(s)) /\ WF_vars(UploadAborted(s))

Spec == Init /\ [][Next]_vars /\ Fairness

-----------------------------------------------------------------------------
(* Safety.                                                                 *)

\* A stream never carries two response heads: the deadline, an upstream error
\* and the response itself compete for it, and response_started decides.
OneResponseHead == \A s \in Streams : heads[s] <= 1

\* The TCP budget is exact: each permit is free or held by one stream that is
\* connecting or relaying; cancelled, aborted and failed streams return theirs.
PermitsConserved ==
  permits + Cardinality({s \in Streams : stream[s] \in Holding}) = MaxTcp

\* No request body task outlives its stream unaborted, also when the stream is
\* dropped while it joins the task (AbortOnDrop).
NoDetachedUpload ==
  \A s \in Streams : stream[s] = "done" => upload[s] # "running"

\* A finished send half is not a cancellation: a half-closed relay goes on until
\* its other direction ends, it breaks, or its connection ends.
HalfCloseSurvives ==
  [][\A s \in Streams :
       stream[s] = "relay" /\ sent[s] = "finished" /\ stream'[s] = "done" =>
         received[s] \/ broken[s] \/ conn[link[s]] # "open"]_vars

-----------------------------------------------------------------------------
(* Liveness.                                                               *)

\* STOP_SENDING is observed although the upstream is silent: the stream ends,
\* and its upload and upstream with it.
StopSendingReleases ==
  \A s \in Streams :
    sent[s] = "stopped" ~> stream[s] = "done" /\ upload[s] # "running" /\ ~upstream[s]

\* A requested shutdown completes although a handshake does not look at the
\* token, and no connection task, stream, permit or upload survives it.
ShutdownCompletes ==
  shutdown ~> /\ host = "stopped"
              /\ \A c \in Connections : conn[c] \in {"none", "aborted", "done"}
              /\ \A s \in Streams : stream[s] \in Idle /\ upload[s] \in {"none", "done", "failed"}
              /\ permits = MaxTcp

=============================================================================
