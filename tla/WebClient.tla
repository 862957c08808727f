------------------------------ MODULE WebClient ------------------------------
(***************************************************************************)
(* The browser SDK: connect and close of a LochoClient, and its requests.  *)
(* A streamed body is pulled by a JavaScript reader, owned by a Rust task  *)
(* and stopped by an abort signal, the reader or close. Everything runs on *)
(* one thread, so an action is what runs between two awaits. PeerSession   *)
(* and the upstream are external: what a read returns is chosen freely.    *)
(***************************************************************************)
EXTENDS Naturals, FiniteSets

CONSTANTS
  Calls,        \* requests made of the client
  Plain,        \* those made with fetch or health; the others with fetchStream
  Limit,        \* permits of WebClient.requests (16 in the code)
  ReadBytes,    \* READ_BYTES
  MaxBody,      \* MAX_BODY of a buffered response
  MaxSize,      \* the largest body an upstream sends
  MaxInterim    \* interim heads that are accepted (8 in the code)

ASSUME WebAssumption ==
  /\ {Limit, ReadBytes, MaxSize} \subseteq Nat \ {0} /\ {MaxBody, MaxInterim} \subseteq Nat
  /\ Plain \subseteq Calls

VARIABLES
  client,    \* LochoClient: connect, then close
  session,   \* the PeerSession
  shutdown,  \* WebClient.shutdown
  quit,      \* the abort signal of connect
  awaited,   \* the streams close waits for
  call,      \* the promise of each call
  kind,      \* fetchStream, fetch or health
  task,      \* the future of the WebClient operation
  owner,     \* the task that owns a streamed body
  permit,    \* whether a request permit is held for the call
  token,     \* WebCancellation and WebStreamingResponse.cancellation
  aborted,   \* AbortSignal.aborted
  wire,      \* what the upstream has still to send, and what its body was
  framing,   \* Body.framing
  got,       \* body bytes handed on
  short,     \* observer: a clean end was reported before the body was whole
  next,      \* WebStreamingResponse.next() and the pull that awaits it
  failure,   \* the error cell
  stopping,  \* the promise of stop()
  released,  \* whether release() freed the Rust objects
  reader     \* what the ReadableStream shows its reader

clientVars == <<client, session, shutdown, quit, awaited>>
bodyVars == <<wire, framing, got, short>>
jsVars == <<stopping, released, reader>>
vars == <<clientVars, call, kind, task, owner, permit, token, aborted, bodyVars,
          next, failure, jsVars>>

Framings == [is : {"empty", "length", "chunked", "last", "eof"}, n : 0 .. MaxSize, ending : BOOLEAN]
Empty == [is |-> "empty", n |-> 0, ending |-> FALSE]

\* External: the upstream's side of a body: what comes next, the bytes left of the
\* current chunk and of the body, its size, and whether only a close ends it.
Wire == [at : {"bytes", "size", "chunk", "crlf", "last", "end"}, chunk : 0 .. MaxSize,
         left : 0 .. MaxSize, size : 0 .. MaxSize, close : BOOLEAN]
NoWire == [at |-> "end", chunk |-> 0, left |-> 0, size |-> 0, close |-> FALSE]

TypeOK ==
  /\ client \in {"new", "binding", "waiting", "undoing", "connected", "failed",
                 "open", "closing", "closed", "rejected"}
  /\ session \in {"none", "open", "closed"}
  /\ {shutdown, quit} \subseteq BOOLEAN
  /\ awaited \subseteq Calls
  /\ call \in [Calls -> {"idle", "pending", "open", "refusing", "resolved", "rejected"}]
  /\ kind \in [Calls -> {"none", "stream", "buffered", "health"}]
  /\ task \in [Calls -> {"none", "called", "setup", "read", "ok", "null", "err"}]
  /\ owner \in [Calls -> {"none", "wait", "next", "done"}]
  /\ {permit, token, aborted, failure, released, short} \subseteq [Calls -> BOOLEAN]
  /\ wire \in [Calls -> Wire]
  /\ framing \in [Calls -> Framings]
  /\ got \in [Calls -> 0 .. MaxSize]
  /\ next \in [Calls -> {"none", "queued", "data", "end", "error"}]
  /\ stopping \in [Calls -> {"no", "pending", "finish", "done"}]
  /\ reader \in [Calls -> {"none", "readable", "closed", "errored"}]

Init ==
  /\ client = "new" /\ session = "none" /\ shutdown = FALSE /\ quit = FALSE /\ awaited = {}
  /\ call = [c \in Calls |-> "idle"]
  /\ kind = [c \in Calls |-> "none"]
  /\ task = [c \in Calls |-> "none"]
  /\ owner = [c \in Calls |-> "none"]
  /\ permit = [c \in Calls |-> FALSE]
  /\ token = [c \in Calls |-> FALSE]
  /\ aborted = [c \in Calls |-> FALSE]
  /\ wire = [c \in Calls |-> NoWire]
  /\ framing = [c \in Calls |-> Empty]
  /\ got = [c \in Calls |-> 0]
  /\ short = [c \in Calls |-> FALSE]
  /\ next = [c \in Calls |-> "none"]
  /\ failure = [c \in Calls |-> FALSE]
  /\ stopping = [c \in Calls |-> "no"]
  /\ released = [c \in Calls |-> FALSE]
  /\ reader = [c \in Calls |-> "none"]

Set(f, c, v) == [f EXCEPT ![c] = v]

-----------------------------------------------------------------------------
(* connect_inner, LochoClient.connect and close                            *)

Abandon ==
  /\ client \in {"new", "binding", "waiting", "connected"} /\ ~quit
  /\ quit' = TRUE
  /\ UNCHANGED <<client, session, shutdown, awaited, call, kind, task, owner, permit, token, aborted,
                 bodyVars, next, failure, jsVars>>

\* Arguments are checked and the endpoint is bound, within 15 s.
Bind ==
  /\ \/ client = "new" /\ client' = (IF quit THEN "failed" ELSE "binding") /\ UNCHANGED session
     \/ client = "binding" /\ client' = "failed" /\ UNCHANGED session
     \/ client = "binding" /\ ~quit /\ client' = "waiting" /\ session' = "open"
  /\ UNCHANGED <<shutdown, quit, awaited>>

\* wait_connected returns, fails or takes 15 s.
WaitConnected ==
  /\ client = "waiting"
  /\ \/ ~quit /\ client' = "connected"
     \/ client' = "undoing"
  /\ UNCHANGED <<session, shutdown, quit, awaited>>

\* The promise resolved; an abort may have come before this runs.
Connected ==
  /\ client = "connected"
  /\ client' = IF quit THEN "undoing" ELSE "open"
  /\ UNCHANGED <<session, shutdown, quit, awaited>>

Undone ==
  /\ client = "undoing" /\ session = "closed"
  /\ client' = "failed"
  /\ UNCHANGED <<session, shutdown, quit, awaited>>

\* PeerSession::close; that a driver may stop by itself only fails operations.
SessionCloses ==
  /\ client = "undoing" \/ shutdown
  /\ session = "open" /\ session' = "closed"
  /\ UNCHANGED <<client, shutdown, quit, awaited>>

\* WebClient::close runs when its promise is first polled.
RawClose ==
  /\ client = "closing" /\ ~shutdown
  /\ shutdown' = TRUE
  /\ UNCHANGED <<client, session, quit, awaited>>

Stopped(c) == released[c] \/ stopping[c] = "done"

\* Promise.all: every promise fulfilled, or one rejected.
CloseSettles ==
  /\ client = "closing" /\ session = "closed"
  /\ \/ client' = "rejected"
     \/ client' = "closed" /\ \A c \in awaited : Stopped(c)
  /\ UNCHANGED <<session, shutdown, quit, awaited>>

ClientStep ==
  /\ \/ Bind \/ WaitConnected \/ Connected \/ Undone
     \/ SessionCloses \/ RawClose \/ CloseSettles
  /\ UNCHANGED <<call, kind, task, owner, permit, token, aborted, bodyVars, next, failure, jsVars>>

-----------------------------------------------------------------------------
(* http.rs: the framing a head announces, and Body::next                   *)

Line(n) == <<"size", n>>
CrLf == <<"crlf", 0>>
Junk == <<"junk", 0>>

\* External: the framing lines that may come next, cut into chunks as the upstream
\* likes; Junk is a line that is none.
Lines(w) ==
  {Junk} \cup (IF w.at = "size" THEN {Line(n) : n \in IF w.left = 0 THEN {0} ELSE 1 .. w.left}
               ELSE IF w.at \in {"crlf", "last"} THEN {CrLf} ELSE {})

Past(w, line) ==
  [w EXCEPT !.chunk = line[2],
            !.at = IF line = Line(0) THEN "last" ELSE IF line # CrLf THEN "chunk"
                   ELSE IF w.at = "crlf" THEN "size" ELSE "end"]

\* External: the body bytes before the next framing line, and how much can arrive;
\* a reader that asks for bytes where a line comes gets that line.
Room(w) == IF w.at = "bytes" THEN w.left ELSE w.chunk
Arriving(w) == Room(w) + (IF w.at \in {"bytes", "end"} THEN 0 ELSE 1)

Taken(w, k) ==
  LET n == IF k > Room(w) THEN Room(w) ELSE k IN
  IF w.at = "bytes" THEN [w EXCEPT !.left = w.left - n]
  ELSE [w EXCEPT !.left = w.left - n, !.chunk = w.chunk - n, !.at = IF n = w.chunk THEN "crlf" ELSE w.at]

NoLength == MaxSize + 1

\* External: the responses of an upstream. A body without content is not sent.
Responses ==
  [head : BOOLEAN, status : {200, 204, 205, 304}, length : 0 .. NoLength,
   chunked : BOOLEAN, interim : 0 .. MaxInterim + 1]

NoContent(m) == m.head \/ m.status \in {204, 205, 304}

Refused(m) ==
  \/ m.interim > MaxInterim
  \/ m.chunked /\ m.length # NoLength
  \/ m.status = 205 /\ (m.chunked \/ m.length \notin {0, NoLength})
  \/ m.status = 204 /\ (m.chunked \/ m.length # NoLength)

FramingOf(m) ==
  IF NoContent(m) THEN Empty
  ELSE IF m.chunked THEN [is |-> "chunked", n |-> 0, ending |-> FALSE]
  ELSE IF m.length # NoLength THEN [is |-> "length", n |-> m.length, ending |-> FALSE]
  ELSE [is |-> "eof", n |-> 0, ending |-> FALSE]

\* External: what follows the head, by the rules of HTTP/1.1.
Wires(m) ==
  IF NoContent(m) THEN {NoWire}
  ELSE {[at |-> IF m.chunked THEN "size" ELSE "bytes", chunk |-> 0, left |-> n, size |-> n,
         close |-> ~m.chunked /\ m.length = NoLength] :
        n \in IF m.length # NoLength THEN {m.length} ELSE 0 .. MaxSize}

\* The responses as request_stream and request see them, and as health does.
Answers ==
  UNION {{[ok |-> ~Refused(m), null |-> NoContent(m), framing |-> FramingOf(m), wire |-> w] :
            w \in IF Refused(m) THEN {NoWire} ELSE Wires(m)} : m \in Responses}
HealthAnswers ==
  UNION {{[chunked |-> m.chunked, length |-> m.length, wire |-> w] : w \in Wires(m)} :
           m \in {r \in Responses : ~r.head /\ r.interim = 0}}

IsEmpty(f) == f.is = "empty" \/ f = [is |-> "length", n |-> 0, ending |-> FALSE]

Out(result, f, w, k) == [result |-> result, framing |-> f, wire |-> w, bytes |-> k]

\* Fault: a stream that ends early is an ordinary end.
AtEofQuiet(f, w) == Out("end", Empty, w, 0)

\* The stream ended.
AtEof(f, w) == IF f.is = "eof" THEN Out("end", Empty, w, 0) ELSE Out("error", f, w, 0)

\* A framing line arrived.
AtLine(f, w, line, limit) ==
  IF f.is = "last" THEN Out(IF line = CrLf THEN "end" ELSE "error", Empty, Past(w, line), 0)
  ELSE IF f.ending
  THEN Out(IF line = CrLf THEN "again" ELSE "error", [f EXCEPT !.ending = FALSE], Past(w, line), 0)
  ELSE IF line[1] # "size" \/ line[2] > limit THEN Out("error", f, w, 0)
  ELSE Out("again", IF line[2] = 0 THEN [f EXCEPT !.is = "last"] ELSE [f EXCEPT !.n = line[2]],
           Past(w, line), 0)

\* k bytes were there.
AtBytes(f, w, k) ==
  Out("data",
      IF f.is = "eof" THEN f
      ELSE [is |-> f.is, n |-> f.n - k, ending |-> f.is = "chunked" /\ f.n = k],
      Taken(w, k), k)

Upto(f) == {ReadBytes, MaxSize} \cup (IF f.is = "eof" THEN {} ELSE {f.n})

\* Whether Body::next waits for a line.
AtFrame(f) == f.is = "last" \/ (f.is = "chunked" /\ f.n = 0)

\* What the next wait for the upstream may lead to: an error or a timeout, the end
\* of the stream (the rest is lost), a framing line or some bytes.
Reads(f, w, limit) ==
  IF IsEmpty(f) THEN {Out("end", f, w, 0)}
  ELSE {Out("error", f, w, 0), AtEof(f, w)} \cup
  (IF AtFrame(f) THEN {AtLine(f, w, line, limit) : line \in Lines(w)}
   ELSE {AtBytes(f, w, k) : k \in {j \in 1 .. Arriving(w) : \A u \in Upto(f) : j <= u}})

-----------------------------------------------------------------------------
(* WebClient::request_stream, request and health                           *)

Interrupted(c) == shutdown \/ token[c]

Held == {c \in Calls : permit[c]}

\* A ticket hands each operation to the client with its capability.
Kinds(c) == IF c \in Plain THEN {"buffered", "health"} ELSE {"stream"}

\* fetchStream, fetch and health of LochoClient
Call(c) ==
  /\ client \in {"open", "closing", "closed", "rejected"} /\ call[c] = "idle"
  /\ IF client = "open"
     THEN /\ call' = Set(call, c, "pending") /\ task' = Set(task, c, "called")
          /\ \E k \in Kinds(c) : kind' = Set(kind, c, k)
     ELSE call' = Set(call, c, "rejected") /\ UNCHANGED <<task, kind>>
  /\ UNCHANGED <<clientVars, owner, permit, token, aborted, bodyVars, next, failure, jsVars>>

\* The body is dropped, after a clean end or not.
DropBody(c, clean, w, bytes) ==
  /\ short' = Set(short, c, clean /\ ~w.close /\ bytes # w.size)
  /\ wire' = Set(wire, c, NoWire) /\ framing' = Set(framing, c, Empty) /\ got' = Set(got, c, 0)

Fail(c) ==
  /\ task' = Set(task, c, "err") /\ permit' = Set(permit, c, FALSE)
  /\ DropBody(c, FALSE, wire[c], got[c])
  /\ UNCHANGED owner

\* The first poll: the checks, and try_acquire_owned.
Begin(c) ==
  /\ task[c] = "called"
  /\ IF Interrupted(c) \/ (kind[c] # "health" /\ Cardinality(Held) >= Limit)
     THEN Fail(c)
     ELSE /\ task' = Set(task, c, "setup")
          /\ permit' = Set(permit, c, kind[c] # "health")
          /\ UNCHANGED <<owner, bodyVars>>

\* A request that cannot be encoded, or an argument that does not parse.
Invalid(c) == task[c] = "called" /\ Fail(c)

\* The biased select of an operation, its timeout, and every error of it.
OperationFails(c) ==
  /\ task[c] \in {"setup", "read"}
  /\ Fail(c)

\* http::head; a streamed body then gets its owner task.
ReadHead(c, a) ==
  /\ kind[c] # "health" /\ ~Interrupted(c)
  /\ IF ~a.ok \/ (kind[c] = "buffered" /\ a.framing.n > MaxBody)
     THEN Fail(c)
     ELSE /\ framing' = Set(framing, c, a.framing)
          /\ wire' = Set(wire, c, a.wire)
          /\ task' = Set(task, c, IF kind[c] = "buffered" THEN "read" ELSE IF a.null THEN "null" ELSE "ok")
          /\ owner' = Set(owner, c, IF kind[c] = "stream" THEN "wait" ELSE "none")
          /\ UNCHANGED <<permit, got, short>>

Advance(c, o) ==
  /\ framing' = Set(framing, c, o.framing)
  /\ wire' = Set(wire, c, o.wire)
  /\ got' = Set(got, c, got[c] + o.bytes)
  /\ UNCHANGED short

\* http::read: one wait of the loop over Body::next.
ReadBody(c, o) ==
  /\ ~Interrupted(c)
  /\ IF o.result = "error" \/ (o.result = "data" /\ got[c] + o.bytes > MaxBody)
     THEN Fail(c)
     ELSE IF o.result = "end"
     THEN /\ task' = Set(task, c, "ok") /\ permit' = Set(permit, c, FALSE)
          /\ DropBody(c, TRUE, wire[c], got[c])
          /\ UNCHANGED owner
     ELSE Advance(c, o) /\ UNCHANGED <<task, permit, owner>>

\* health reads to the end of the stream and then looks at the length: k bytes came.
Health(c, a, k) ==
  /\ kind[c] = "health" /\ ~Interrupted(c)
  /\ IF a.chunked \/ (a.length # NoLength /\ a.length # k)
     THEN Fail(c)
     ELSE /\ task' = Set(task, c, "ok")
          /\ DropBody(c, TRUE, a.wire, k)
          /\ UNCHANGED <<owner, permit>>

Operation(c) ==
  /\ \/ Begin(c) \/ Invalid(c) \/ OperationFails(c)
     \/ task[c] = "setup" /\ \E a \in Answers : ReadHead(c, a)
     \/ task[c] = "setup" /\ \E a \in HealthAnswers : \E k \in 0 .. a.wire.left : Health(c, a, k)
     \/ task[c] = "read" /\ \E o \in Reads(framing[c], wire[c], MaxBody) : ReadBody(c, o)
  /\ UNCHANGED <<clientVars, call, kind, token, aborted, next, failure, jsVars>>

-----------------------------------------------------------------------------
(* The owner task                                                          *)

\* The end of the task: no await is between these assignments.
OwnerDone(c, failed, bytes) ==
  /\ owner' = Set(owner, c, "done")
  /\ DropBody(c, ~failed, wire[c], bytes)
  /\ failure' = Set(failure, c, failed)
  /\ permit' = Set(permit, c, FALSE)

\* Fault: cancellation is looked at only when there is a pull to answer.
MayStopPulled(c) == Interrupted(c) /\ next[c] = "queued"

MayStop(c) == Interrupted(c)

\* A pull that is dropped unanswered finds the error cell.
OwnerStops(c) ==
  /\ owner[c] \in {"wait", "next"} /\ MayStop(c)
  /\ OwnerDone(c, TRUE, got[c])
  /\ next' = Set(next, c, IF next[c] = "queued" THEN "error" ELSE next[c])

OwnerTakes(c) ==
  /\ owner[c] = "wait" /\ ~Interrupted(c)
  /\ IF IsEmpty(framing[c])
     THEN /\ OwnerDone(c, FALSE, got[c])
          /\ next' = Set(next, c, IF next[c] = "queued" THEN "end" ELSE next[c])
     ELSE /\ next[c] = "queued"
          /\ owner' = Set(owner, c, "next")
          /\ UNCHANGED <<next, failure, permit, bodyVars>>

OwnerReads(c, o) ==
  /\ ~Interrupted(c)
  /\ next' = IF o.result = "again" THEN next ELSE Set(next, c, o.result)
  /\ IF o.result \in {"end", "error"} \/ (o.result = "data" /\ IsEmpty(o.framing))
     THEN OwnerDone(c, o.result = "error", got[c] + o.bytes)
     ELSE /\ owner' = Set(owner, c, IF o.result = "data" THEN "wait" ELSE "next")
          /\ Advance(c, o)
          /\ UNCHANGED <<failure, permit>>

Owner(c) ==
  /\ \/ OwnerStops(c) \/ OwnerTakes(c)
     \/ owner[c] = "next" /\ \E o \in Reads(framing[c], wire[c], MaxSize) : OwnerReads(c, o)
  /\ UNCHANGED <<clientVars, call, kind, task, token, aborted, jsVars>>

-----------------------------------------------------------------------------
(* fetchStreamWithMetadata and the ReadableStream                          *)

\* release(): freeing the Rust response cancels it.
Release(c) ==
  /\ released' = Set(released, c, TRUE)
  /\ token' = Set(token, c, TRUE)

\* stop() on each of a set of streams that is not released yet; a reader that
\* cancels has already closed its stream.
StopAll(cs, shown) ==
  /\ stopping' = [c \in Calls |-> IF c \in cs /\ stopping[c] = "no" THEN "pending" ELSE stopping[c]]
  /\ reader' = [c \in Calls |-> IF c \in cs /\ reader[c] = "readable" THEN shown ELSE reader[c]]

\* this.streams
Streams == {c \in Calls : call[c] \in {"open", "refusing"} /\ ~released[c]}

\* The operation's promise settled.
Settle(c) ==
  /\ call[c] = "pending" /\ task[c] \in {"ok", "null", "err"}
  /\ IF task[c] = "ok" /\ kind[c] = "stream" /\ ~aborted[c]
     THEN IF client = "open"
          THEN /\ call' = Set(call, c, "open") /\ reader' = Set(reader, c, "readable")
               /\ UNCHANGED <<token, released, stopping>>
          ELSE /\ call' = Set(call, c, "refusing")
               /\ StopAll({c}, "errored") /\ token' = Set(token, c, TRUE)
               /\ UNCHANGED released
     ELSE /\ call' = Set(call, c, IF task[c] # "err" /\ ~aborted[c] THEN "resolved" ELSE "rejected")
          /\ Release(c)
          /\ UNCHANGED <<stopping, reader>>
  /\ UNCHANGED <<next, aborted>>

Refuse(c) ==
  /\ call[c] = "refusing" /\ Stopped(c)
  /\ call' = Set(call, c, "rejected")
  /\ UNCHANGED <<next, aborted, token, jsVars>>

\* pull(): the reader asks and next() is called.
Pull(c) ==
  /\ reader[c] = "readable" /\ next[c] = "none"
  /\ next' = Set(next, c, IF owner[c] # "done" THEN "queued" ELSE IF failure[c] THEN "error" ELSE "end")
  /\ UNCHANGED <<call, aborted, token, jsVars>>

\* ...and returned.
Pulled(c) ==
  /\ next[c] \in {"data", "end", "error"}
  /\ next' = Set(next, c, "none")
  /\ IF stopping[c] = "no" /\ next[c] # "data"
     THEN /\ reader' = Set(reader, c, IF next[c] = "end" THEN "closed" ELSE "errored")
          /\ Release(c)
     ELSE UNCHANGED <<reader, released, token>>
  /\ UNCHANGED <<call, aborted, stopping>>

\* The abort signal of a call; release() removes its listener.
Abort(c) ==
  /\ call[c] \in {"pending", "open", "refusing"} /\ ~aborted[c] /\ ~released[c]
  /\ aborted' = Set(aborted, c, TRUE)
  /\ token' = Set(token, c, TRUE) /\ StopAll({c} \cap Streams, "errored")
  /\ UNCHANGED <<call, next, released>>

\* reader.cancel()
Cancel(c) ==
  /\ c \in Streams /\ reader[c] = "readable"
  /\ token' = Set(token, c, TRUE) /\ StopAll({c}, "closed")
  /\ UNCHANGED <<call, next, aborted, released>>

\* Fault: the pull in flight is not waited for.
PendingDoneAtOnce(c) == TRUE

PendingDone(c) == next[c] = "none"

\* Fault: stop() frees the response without finish().
FinishedAtOnce(c) == TRUE

\* finish(): the task said it is done.
Finished(c) == owner[c] = "done"

StopPulled(c) ==
  /\ stopping[c] = "pending" /\ PendingDone(c)
  /\ stopping' = Set(stopping, c, "finish")
  /\ UNCHANGED <<call, next, aborted, token, released, reader>>

StopFinished(c) ==
  /\ stopping[c] = "finish" /\ Finished(c)
  /\ stopping' = Set(stopping, c, "done")
  /\ Release(c)
  /\ UNCHANGED <<call, next, aborted, reader>>

Script(c) == Settle(c) \/ Refuse(c) \/ Pulled(c) \/ StopPulled(c) \/ StopFinished(c)

Page(c) ==
  /\ Script(c) \/ Pull(c) \/ Abort(c) \/ Cancel(c)
  /\ UNCHANGED <<clientVars, kind, task, owner, permit, bodyVars, failure>>

\* LochoClient.close
Close ==
  /\ client = "open"
  /\ client' = "closing"
  /\ awaited' = Streams
  /\ token' = [c \in Calls |-> token[c] \/ c \in Streams]
  /\ StopAll(Streams, "errored")
  /\ UNCHANGED <<session, shutdown, quit, call, kind, task, owner, permit, aborted, bodyVars,
                 next, failure, released>>

Next ==
  \/ ClientStep \/ Abandon \/ Close
  \/ \E c \in Calls : Call(c) \/ Operation(c) \/ Owner(c) \/ Page(c)

\* The executor polls what is ready, callbacks run, deadlines fire and the
\* session's close returns; nobody has to read, abort or close.
Fairness ==
  /\ WF_vars(ClientStep)
  /\ \A c \in Calls :
       /\ WF_vars(Operation(c)) /\ WF_vars(Owner(c))
       /\ WF_vars(Script(c) /\ Page(c))

Spec == Init /\ [][Next]_vars /\ Fairness

-----------------------------------------------------------------------------

\* Bytes are handed on once and in order, and a response that ends without an
\* error is whole: only a body framed by the end of its stream may be short.
BodyWhole ==
  \A c \in Calls :
    /\ ~short[c]
    /\ ~wire[c].close => got[c] + wire[c].left = wire[c].size

\* release() never frees an object that next() or finish() still borrows.
FreedUnborrowed ==
  \A c \in Calls : released[c] => next[c] = "none" /\ stopping[c] # "finish"

\* Once close() has resolved no body that was handed out holds a permit or its
\* stream, and a connect that was rejected leaves no session behind.
CloseReleases ==
  /\ client = "closed" => \A c \in Calls : call[c] = "open" => ~permit[c] /\ owner[c] = "done"
  /\ client = "failed" => session # "open"

\* A paused or unread body gives its permit back after an abort, a cancel or
\* close, without another pull; and every pull settles.
PausedBodyEnds ==
  \A c \in Calls :
    /\ permit[c] /\ Interrupted(c) ~> ~permit[c]
    /\ next[c] # "none" ~> next[c] = "none"
=============================================================================
