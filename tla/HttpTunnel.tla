------------------------------ MODULE HttpTunnel ------------------------------
(***************************************************************************)
(* One HTTP request through the tunnel: tunnel_request_on_lease in the     *)
(* attachment process writes head and body, then reads the response;       *)
(* forward_to_upstream_with_state in the host passes the body on in a task *)
(* of its own and writes the response back. Between them is one QUIC       *)
(* stream: bytes in order, each direction with a window, ended by a finish *)
(* (the sender was dropped), STOP_SENDING (the reader was dropped) or the  *)
(* loss of the connection.                                                 *)
(*                                                                         *)
(* Bodies are counted in units, a frame is its number of units, and 0 is   *)
(* the frame of write_body_end. Bytes of a body of declared length carry   *)
(* no frames: a written piece is then simply the next bytes. Which checks  *)
(* refuse a request is HostServer's subject.                               *)
(***************************************************************************)
EXTENDS Naturals, Sequences

CONSTANTS
  MaxBody,   \* MAX_BODY_LEN
  ChunkLen,  \* BODY_CHUNK_LEN
  MaxFrame,  \* largest piece that a client or an upstream hands over at once
  MaxSize,   \* largest body anybody sends (bound)
  Window     \* pieces that fit into one direction of the stream (bound)

ASSUME TunnelAssumption ==
  /\ MaxBody \in Nat /\ MaxSize \in Nat
  /\ ChunkLen \in Nat \ {0} /\ MaxFrame \in Nat \ {0} /\ Window \in Nat \ {0}

VARIABLES
  req,      \* the local request's body: its size, and whether it is declared
  resp,     \* the upstream's response body
  alive,    \* the connection
  attach,   \* where the attachment's request is
  written,  \* units of the local body it has taken
  frame,    \* units of the taken frame not yet written
  up,       \* request body pieces in the stream
  upEnd,    \* its sender or reader is gone
  host,     \* where the host's stream task is
  upload,   \* the host's body task
  passed,   \* units handed to the upstream request
  seen,     \* how the request body ends for the upstream
  total,    \* response units the host has taken
  reply,    \* the response head in the stream
  down,     \* response body pieces behind it
  downEnd,  \* its sender or reader is gone
  status,   \* the status the local client was given
  got,      \* response units it was given
  local     \* how the exchange ends for the local client

request == <<attach, written, frame>>
forward == <<host, upload, passed, seen, total>>
pipes == <<up, upEnd, reply, down, downEnd>>
answer == <<status, got, local>>
fixed == <<req, resp>>
httpVars == <<fixed, alive, request, forward, pipes, answer>>

BodyType == [size : 0 .. MaxSize, declared : BOOLEAN]
Heads == {"upstream", "refused", "413", "502", "504"}

HttpTypeOK ==
  /\ req \in BodyType /\ resp \in BodyType /\ alive \in BOOLEAN
  /\ attach \in {"idle", "acquire", "body", "write", "end", "await", "stream", "done"}
  /\ written \in 0 .. MaxSize /\ frame \in 0 .. MaxFrame
  /\ up \in Seq(0 .. MaxFrame)
  /\ upEnd \in {"open", "finished", "stopped"}
  /\ host \in {"none", "validate", "send", "join", "respond", "failed", "body", "done"}
  /\ upload \in {"none", "running", "done", "failed", "over", "aborted"}
  /\ passed \in 0 .. MaxBody /\ total \in 0 .. MaxBody
  /\ seen \in {"open", "complete", "cut"}
  /\ reply \in Heads \cup {"none"} /\ down \in Seq(0 .. MaxFrame)
  /\ downEnd \in {"open", "finished", "stopped"}
  /\ status \in Heads \cup {"none", "503"}
  /\ got \in 0 .. MaxBody /\ local \in {"open", "complete", "cut"}

\* A request arrives at the local listener (attach = "acquire"), or no HTTP
\* request is made on this stream (attach = "idle").
HttpInit(start) ==
  /\ req \in BodyType /\ resp \in BodyType
  /\ start = "idle" => req.size = 0 /\ req.declared /\ resp = req
  /\ alive = TRUE /\ attach = start /\ written = 0 /\ frame = 0
  /\ up = <<>> /\ upEnd = "open" /\ reply = "none" /\ down = <<>> /\ downEnd = "open"
  /\ host = "none" /\ upload = "none" /\ passed = 0 /\ seen = "open" /\ total = 0
  /\ status = "none" /\ got = 0 /\ local = "open"

-----------------------------------------------------------------------------
(* The attachment: handle_request and tunnel_request_on_lease.             *)

\* Writer and reader are dropped: one finishes, the other stops.
AttachDrops ==
  /\ attach' = "done"
  /\ upEnd' = IF upEnd = "open" THEN "finished" ELSE upEnd
  /\ downEnd' = IF downEnd = "open" THEN "stopped" ELSE downEnd

\* handle_request turns the error into a status of its own.
Fail(code) ==
  /\ AttachDrops
  /\ status' = code /\ local' = "complete"
  /\ UNCHANGED <<fixed, alive, written, frame, forward, up, reply, down, got>>

\* acquire_connection: no lease in time is 503
Unavailable == attach = "acquire" /\ Fail("503")

\* open_bi timed out or failed, or the declared length is beyond the limit.
OpenFails ==
  \/ attach = "acquire" /\ Fail("502")
  \/ attach = "acquire" /\ req.declared /\ req.size > MaxBody /\ Fail("413")

\* The head is written; the host sees the stream.
WriteHead ==
  /\ attach = "acquire" /\ alive /\ ~(req.declared /\ req.size > MaxBody)
  /\ attach' = "body" /\ host' = "validate"
  /\ UNCHANGED <<fixed, alive, written, frame, upload, passed, seen, total, pipes, answer>>

\* body.frame(): the next piece of the local body, which must not exceed the
\* limit. (hyper holds a local client to its Content-Length.)
TakeFrame(n) ==
  /\ attach = "body" /\ written + n <= req.size
  /\ IF ~req.declared /\ written + n > MaxBody
     THEN Fail("413")
     ELSE /\ attach' = "write" /\ written' = written + n /\ frame' = n
          /\ UNCHANGED <<fixed, alive, forward, pipes, answer>>

\* The local body ends: write_body_end, or nothing for a declared length.
BodyEnds ==
  /\ attach = "body" /\ written = req.size
  /\ attach' = IF req.declared THEN "await" ELSE "end"
  /\ UNCHANGED <<fixed, alive, written, frame, forward, pipes, answer>>

\* The local body fails: the client is gone, or sends trailers.
BodyFails == attach = "body" /\ Fail("502")

\* frame.chunks(BODY_CHUNK_LEN)
Piece == IF frame > ChunkLen THEN ChunkLen ELSE frame

\* write_body or write_body_chunk
WritePiece ==
  /\ attach = "write" /\ alive /\ upEnd = "open" /\ Len(up) < Window
  /\ up' = Append(up, Piece) /\ frame' = frame - Piece
  /\ attach' = IF frame = Piece THEN "body" ELSE "write"
  /\ UNCHANGED <<fixed, alive, written, forward, upEnd, reply, down, downEnd, answer>>

WriteEnd ==
  /\ attach = "end" /\ alive /\ upEnd = "open" /\ Len(up) < Window
  /\ up' = Append(up, 0) /\ attach' = "await"
  /\ UNCHANGED <<fixed, alive, written, frame, forward, upEnd, reply, down, downEnd, answer>>

\* The host has stopped the stream, or the connection is lost.
WriteFails == attach \in {"write", "end"} /\ (upEnd = "stopped" \/ ~alive) /\ Fail("502")

\* read_json_head of the response
ReadResponse ==
  /\ attach = "await" /\ alive /\ reply # "none"
  /\ attach' = "stream" /\ status' = reply
  /\ UNCHANGED <<fixed, alive, written, frame, forward, pipes, got, local>>

Exhausted == ~alive \/ (down = <<>> /\ downEnd = "finished")

ResponseTimesOut == attach = "await" /\ Fail("504")
ResponseFails ==
  attach = "await" /\ (~alive \/ (reply = "none" /\ downEnd = "finished")) /\ Fail("502")

\* The body stream of the response: an error cuts the local connection off.
CutLocal ==
  /\ AttachDrops
  /\ local' = "cut"
  /\ UNCHANGED <<fixed, alive, written, frame, forward, up, reply, down, status, got>>

\* write_error declares an empty body.
Declared == IF status = "upstream" THEN resp.declared ELSE TRUE
Length == IF status = "upstream" THEN resp.size ELSE 0

\* All bytes of a declared length, or the empty chunk, were read.
BodyComplete ==
  /\ attach = "stream"
  /\ \/ Declared /\ got = Length /\ down' = down
     \/ ~Declared /\ alive /\ down # <<>> /\ Head(down) = 0 /\ down' = Tail(down)
  /\ AttachDrops
  /\ local' = "complete"
  /\ UNCHANGED <<fixed, alive, written, frame, forward, up, reply, status, got>>

\* read_exact, or read_body_chunk with its limit
ReadPiece ==
  /\ attach = "stream" /\ alive /\ down # <<>> /\ Head(down) > 0
  /\ IF ~Declared /\ Head(down) > ChunkLen
     THEN CutLocal
     ELSE /\ got' = got + Head(down) /\ down' = Tail(down)
          /\ UNCHANGED <<fixed, alive, request, forward, up, upEnd, reply, downEnd, status, local>>

ReadFails ==
  /\ attach = "stream" /\ Exhausted /\ ~(Declared /\ got = Length)
  /\ CutLocal

ReadTimesOut == attach = "stream" /\ ~(Declared /\ got = Length) /\ CutLocal

\* The local client disconnects: hyper drops the request wherever it is.
LocalGone ==
  /\ attach \notin {"idle", "done"}
  /\ CutLocal

-----------------------------------------------------------------------------
(* The host: handle_http_stream and forward_to_upstream_with_state.        *)

\* The task's future ends: upload and upstream request are dropped with it,
\* the reader stops the request body and the writer finishes the response.
HostDrops ==
  /\ host' = "done"
  /\ upload' = IF upload = "running" THEN "aborted" ELSE upload
  /\ upEnd' = IF upEnd = "open" THEN "stopped" ELSE upEnd
  /\ downEnd' = IF downEnd = "open" THEN "finished" ELSE downEnd
  /\ seen' = IF seen = "open" THEN "cut" ELSE seen

\* write_error and return
HostAnswers(code) ==
  /\ HostDrops
  /\ reply' = code
  /\ UNCHANGED <<fixed, alive, request, up, down, passed, total, answer>>

Refuse == host = "validate" /\ HostAnswers("refused")

Forward ==
  /\ host = "validate"
  /\ host' = "send"
  /\ upload' = IF req.declared /\ req.size = 0 THEN "none" ELSE "running"
  /\ UNCHANGED <<fixed, alive, request, passed, seen, total, pipes, answer>>

\* Fault: a body of exactly the limit is refused.
HostOverEarly(n) == passed + n >= MaxBody

HostOver(n) == passed + n > MaxBody

\* The body task owns the reader: a task that ends stops the request body.
UploadEnds(fate) ==
  /\ upload' = fate
  /\ upEnd' = IF fate # "running" /\ upEnd = "open" THEN "stopped" ELSE upEnd

\* The body task: a piece is read and sent to the request, with the limits of
\* read_body_chunk and of the whole body.
UploadPiece ==
  /\ upload = "running" /\ alive /\ up # <<>>
  /\ LET n == Head(up)
         fate == IF ~req.declared /\ n > ChunkLen THEN "failed"
                 ELSE IF ~req.declared /\ HostOver(n) THEN "over"
                 ELSE IF n = 0 \/ (req.declared /\ passed + n = req.size) THEN "done"
                 ELSE "running"
     IN /\ up' = Tail(up)
        /\ passed' = IF fate \in {"running", "done"} THEN passed + n ELSE passed
        /\ UploadEnds(fate)
  /\ UNCHANGED <<fixed, alive, request, host, seen, total, reply, down, downEnd, answer>>

\* The stream ends early, or the request no longer takes the body.
UploadFails ==
  /\ upload = "running"
  /\ UploadEnds("failed")
  /\ UNCHANGED <<fixed, alive, request, host, passed, seen, total, up, reply, down, downEnd, answer>>

\* The body task is gone and with it the sender: the request's body ends. A
\* short body of declared length is an error; a chunked one looks complete.
EndSeen == IF req.declared /\ passed # req.size THEN "cut" ELSE "complete"

UpstreamSeesEnd ==
  /\ host \in {"send", "join", "respond", "body"} /\ seen = "open"
  /\ upload \in {"none", "done", "failed", "over"}
  /\ seen' = EndSeen
  /\ UNCHANGED <<fixed, alive, request, host, upload, passed, total, pipes, answer>>

\* send() returns a response, perhaps an early one...
SendReturns ==
  /\ host = "send"
  /\ host' = IF upload = "none" THEN "respond" ELSE "join"
  /\ UNCHANGED <<fixed, alive, request, upload, passed, seen, total, pipes, answer>>

\* ...or fails or times out, and the body task is aborted and joined.
SendFails == host = "send" /\ \E code \in {"502", "504"} : HostAnswers(code)

\* Fault: the response is passed on whatever became of the upload.
JoinedAlways == upload # "running"

Joined == upload = "done"

JoinUpload ==
  /\ host = "join" /\ Joined
  /\ host' = "respond"
  /\ UNCHANGED <<fixed, alive, request, upload, passed, seen, total, pipes, answer>>

JoinFails ==
  /\ host = "join" /\ upload \in {"failed", "over"}
  /\ HostAnswers(IF upload = "over" THEN "413" ELSE "502")

\* A declared length beyond the limit is refused before the head.
Respond ==
  /\ host = "respond"
  /\ IF resp.declared /\ resp.size > MaxBody
     THEN HostAnswers("502")
     ELSE /\ host' = "body" /\ reply' = "upstream"
          /\ UNCHANGED <<fixed, alive, request, upload, passed, seen, total,
                         up, upEnd, down, downEnd, answer>>

\* An upstream chunk is passed on as it comes, as one frame, unless it exceeds
\* the limit: then the stream just ends.
ResponsePiece(n) ==
  /\ host = "body" /\ total + n <= resp.size
  /\ IF total + n > MaxBody
     THEN HostDrops /\ UNCHANGED <<total, down>>
     ELSE /\ Len(down) < Window
          /\ total' = total + n /\ down' = Append(down, n)
          /\ UNCHANGED <<host, upload, seen, upEnd, downEnd>>
  /\ UNCHANGED <<fixed, alive, request, passed, up, reply, answer>>

ResponseEnds ==
  /\ host = "body" /\ total = resp.size /\ (resp.declared \/ Len(down) < Window)
  /\ HostDrops
  /\ down' = IF resp.declared THEN down ELSE Append(down, 0)
  /\ UNCHANGED <<fixed, alive, request, passed, up, reply, total, answer>>

\* The upstream fails after the head: the stream ends without an end frame.
ResponseBreaks ==
  /\ host = "body"
  /\ HostDrops
  /\ UNCHANGED <<fixed, alive, request, passed, up, total, reply, down, answer>>

\* Fault: only the wait for the response head is limited.
DeadlineRunsForHead == host = "respond"

DeadlineRuns == host \in {"send", "join", "respond", "body"}

\* Fault: a response that was begun is not remembered.
ResponseForgotten == FALSE

\* response_started
ResponseStarted == host = "body"

\* The request deadline: 504 if no head was begun and it can be written at once.
Deadline ==
  /\ DeadlineRuns
  /\ HostDrops
  /\ reply' \in IF ResponseStarted THEN {reply} ELSE {reply, "504"}
  /\ UNCHANGED <<fixed, alive, request, passed, up, down, total, answer>>

\* handle_peer_stream: STOP_SENDING or a lost connection drops the task.
Cancel ==
  /\ host \notin {"none", "done"} /\ (downEnd = "stopped" \/ ~alive)
  /\ HostDrops
  /\ UNCHANGED <<fixed, alive, request, passed, up, total, reply, down, answer>>

\* The connection is lost, with everything in flight (external).
Lose ==
  /\ alive /\ attach \notin {"idle", "done"}
  /\ alive' = FALSE
  /\ UNCHANGED <<fixed, request, forward, pipes, answer>>

-----------------------------------------------------------------------------

AttachStep ==
  \/ Unavailable \/ OpenFails \/ WriteHead
  \/ \E n \in 1 .. MaxFrame : TakeFrame(n)
  \/ BodyEnds \/ BodyFails \/ WritePiece \/ WriteEnd \/ WriteFails
  \/ ReadResponse \/ ResponseTimesOut \/ ResponseFails
  \/ BodyComplete \/ ReadPiece \/ ReadFails \/ ReadTimesOut \/ LocalGone

HostStep ==
  \/ Refuse \/ Forward \/ UploadPiece \/ UploadFails \/ UpstreamSeesEnd
  \/ SendReturns \/ SendFails \/ JoinUpload \/ JoinFails \/ Respond
  \/ \E n \in 1 .. MaxFrame : ResponsePiece(n)
  \/ ResponseEnds \/ ResponseBreaks \/ Deadline \/ Cancel

HttpNext == AttachStep \/ HostStep \/ Lose

\* Writes fail once they can, the attachment's wait for a head and the host's
\* request have deadlines, streams that are open get a task. Upstream, local
\* client and network may stay silent for ever.
HttpFairness ==
  /\ WF_httpVars(WriteFails) /\ WF_httpVars(ResponseTimesOut)
  /\ WF_httpVars(Forward \/ Refuse) /\ WF_httpVars(Deadline)

-----------------------------------------------------------------------------

\* The local client gets the upstream's response only for a request whose body
\* the host handed over completely, however early the upstream answered; and an
\* upstream never takes a short body of declared length for a whole one,
\* although the host's sender is dropped in the same way for both.
UploadWhole ==
  /\ status = "upstream" => passed = req.size
  /\ req.declared /\ seen = "complete" => passed = req.size

\* A response that ends properly for the local client has the upstream's whole
\* body, whatever frames it came in and whoever broke off.
ResponseWhole == local = "complete" /\ status = "upstream" => got = resp.size

\* The upstream is never handed more than the limit, no response beyond it ends
\* properly, and 413 is given only for a body beyond it: both sides count frames
\* independently, and a body of exactly the limit passes both.
LimitExact ==
  /\ passed <= MaxBody
  /\ local = "complete" /\ status = "upstream" => got <= MaxBody
  /\ status = "413" => req.size > MaxBody

\* The attachment is never stuck in a write or in the wait for a response, even
\* if the upstream neither reads nor answers: the host's deadline stops the
\* stream under the writer, and the reader has a deadline of its own.
RequestMovesOn == \A p \in {"write", "end", "await"} : attach = p ~> attach # p
=============================================================================
