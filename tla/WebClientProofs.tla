-------------------------- MODULE WebClientProofs --------------------------
(***************************************************************************)
(* The objects of a streamed response are freed only when nobody borrows   *)
(* them, a close() that resolved has released every body that was handed   *)
(* out, and a body that ends without an error is whole, for any number of  *)
(* calls, every limit and bodies of every size. The first two rest on the  *)
(* control state alone; the last one follows reader and upstream.          *)
(***************************************************************************)
EXTENDS WebClient, TLAPS

\* The control part of the types; framing, bytes and wire are not looked at.
ControlOK ==
  /\ client \in {"new", "binding", "waiting", "undoing", "connected", "failed",
                 "open", "closing", "closed", "rejected"}
  /\ session \in {"none", "open", "closed"}
  /\ awaited \subseteq Calls
  /\ call \in [Calls -> {"idle", "pending", "open", "refusing", "resolved", "rejected"}]
  /\ kind \in [Calls -> {"none", "stream", "buffered", "health"}]
  /\ task \in [Calls -> {"none", "called", "setup", "read", "ok", "null", "err"}]
  /\ owner \in [Calls -> {"none", "wait", "next", "done"}]
  /\ permit \in [Calls -> BOOLEAN]
  /\ released \in [Calls -> BOOLEAN]
  /\ next \in [Calls -> {"none", "queued", "data", "end", "error"}]
  /\ stopping \in [Calls -> {"no", "pending", "finish", "done"}]
  /\ reader \in [Calls -> {"none", "readable", "closed", "errored"}]

\* A call that has not settled has no stream yet.
Unsettled(c) ==
  call[c] \in {"idle", "pending"} =>
    next[c] = "none" /\ stopping[c] = "no" /\ ~released[c] /\ reader[c] = "none"

\* Only an open stream that nobody stops or freed can be read.
Readable(c) == reader[c] = "readable" => call[c] = "open" /\ stopping[c] = "no" /\ ~released[c]

\* The owner task answers a pull that is there; an end is the last answer.
Answering(c) ==
  /\ owner[c] = "next" => next[c] = "queued"
  /\ next[c] \in {"end", "error"} => owner[c] = "done"

\* finish() is called when no pull is left, and release() after both.
Borrowed(c) ==
  /\ stopping[c] \in {"finish", "done"} => next[c] = "none"
  /\ stopping[c] = "done" => released[c]
  /\ released[c] => next[c] = "none" /\ stopping[c] \in {"no", "done"}

\* The owner task is started by an operation that has finished, and its end
\* gives the permit back before an open stream is released.
Owned(c) ==
  /\ call[c] = "idle" => task[c] = "none"
  /\ owner[c] # "none" => task[c] \in {"ok", "null", "err"}
  /\ owner[c] = "done" => ~permit[c]
  /\ released[c] /\ call[c] = "open" => owner[c] = "done"

CallInv(c) == Unsettled(c) /\ Readable(c) /\ Answering(c) /\ Borrowed(c) /\ Owned(c)

\* close() waits for every stream it finds, and no stream opens after it.
CloseInv ==
  /\ client \in {"closing", "closed", "rejected"} =>
       \A c \in Calls : call[c] = "open" => released[c] \/ c \in awaited
  /\ client = "closed" => \A c \in awaited : released[c]

\* A session exists from bind on, and a connect fails only without one.
ConnectInv ==
  /\ client \in {"new", "binding"} => session = "none"
  /\ client = "failed" => session # "open"

WebInv == ControlOK /\ (\A c \in Calls : CallInv(c)) /\ CloseInv /\ ConnectInv

\* The reader stands where the upstream's body does: its framing expects what
\* comes next, and what was handed on is what was sent.
Fits(f, w, n) ==
  /\ n + w.left = w.size
  /\ w.close <=> f.is = "eof"
  /\ f.is = "empty" => f = Empty /\ w = NoWire
  /\ f.is \in {"length", "eof"} => w.at = "bytes" /\ ~f.ending
  /\ f.is = "length" => f.n = w.left
  /\ f.is = "last" => w.at = "last" /\ w.left = 0 /\ f.n = 0 /\ ~f.ending
  /\ f.is = "chunked" =>
       /\ f.n = w.chunk /\ w.chunk <= w.left
       /\ w.at = IF f.n > 0 THEN "chunk" ELSE IF f.ending THEN "crlf" ELSE "size"
       /\ f.n > 0 => ~f.ending

\* Each body fits, none was reported whole too early, and there is none before
\* the head was read.
BodyInv ==
  /\ framing \in [Calls -> Framings] /\ wire \in [Calls -> Wire] /\ got \in [Calls -> Nat]
  /\ short = [c \in Calls |-> FALSE]
  /\ \A c \in Calls :
       /\ Fits(framing[c], wire[c], got[c])
       /\ task[c] \in {"none", "called", "setup"} => framing[c] = Empty

-----------------------------------------------------------------------------

\* Body::next leads to one of four outcomes, whatever framing it is in.
LEMMA ReadResults ==
  ASSUME NEW f, NEW w, NEW limit, NEW o \in Reads(f, w, limit)
  PROVE  o.result \in {"again", "data", "end", "error"}
<1>1. \A r, g, v, k : Out(r, g, v, k).result = r
  BY DEF Out
<1>2. AtEof(f, w).result \in {"end", "error"}
  BY <1>1 DEF AtEof
<1>3. \A line : AtLine(f, w, line, limit).result \in {"again", "end", "error"}
  BY <1>1 DEF AtLine
<1>4. \A k : AtBytes(f, w, k).result = "data"
  BY <1>1 DEF AtBytes
<1> QED BY <1>1, <1>2, <1>3, <1>4 DEF Reads

-----------------------------------------------------------------------------
(* What a read does to a body                                              *)

\* A body whose reader expects nothing more was handed on whole.
LEMMA EmptyWhole ==
  ASSUME NEW f \in Framings, NEW w \in Wire, NEW n \in Nat, Fits(f, w, n), IsEmpty(f)
  PROVE  n = w.size
<1>1. w.left \in Nat /\ w.size \in Nat /\ n + w.left = w.size
  BY WebAssumption DEF Wire, Fits
<1>2. CASE f.is = "empty"
  BY <1>1, <1>2 DEF Fits, NoWire
<1>3. CASE f = [is |-> "length", n |-> 0, ending |-> FALSE]
  BY <1>1, <1>3 DEF Fits
<1> QED BY <1>2, <1>3 DEF IsEmpty

\* A framing line that Body::next accepts is the one the upstream sent there.
LEMMA LineFits ==
  ASSUME NEW f \in Framings, NEW w \in Wire, NEW n \in Nat, Fits(f, w, n), AtFrame(f),
         NEW limit, NEW line \in Lines(w), AtLine(f, w, line, limit).result # "error"
  PROVE  LET o == AtLine(f, w, line, limit) IN
         /\ o.bytes = 0
         /\ o.result = "end" => n = w.size
         /\ o.result # "end" => /\ o.framing \in Framings /\ o.wire \in Wire
                                /\ o.wire.size = w.size
                                /\ Fits(o.framing, o.wire, n)
<1> DEFINE o == AtLine(f, w, line, limit)
<1>0. /\ w.at \in {"bytes", "size", "chunk", "crlf", "last", "end"}
      /\ w.chunk \in 0 .. MaxSize /\ w.left \in 0 .. MaxSize /\ w.size \in 0 .. MaxSize
      /\ w.close \in BOOLEAN /\ MaxSize \in Nat
      /\ w = [at |-> w.at, chunk |-> w.chunk, left |-> w.left, size |-> w.size, close |-> w.close]
  BY WebAssumption DEF Wire
<1>1. /\ f = [is |-> f.is, n |-> f.n, ending |-> f.ending]
      /\ f.is \in {"last", "chunked"} /\ f.n = 0 /\ f.ending \in BOOLEAN
  BY DEF Framings, AtFrame, Fits
<1>2. n + w.left = w.size /\ ~w.close
  BY <1>0, <1>1 DEF Fits
<1>3. CASE f.is = "last"
  <2>1. w.left = 0
    BY <1>3 DEF Fits
  <2>2. o.result \in {"end", "error"} /\ o.bytes = 0
    BY <1>3 DEF AtLine, Out
  <2> QED BY <1>0, <1>2, <2>1, <2>2
<1>4. CASE f.is = "chunked" /\ f.ending
  <2>1. w.at = "crlf" /\ w.chunk = 0
    BY <1>1, <1>4 DEF Fits
  <2>2. line = CrLf /\ o.result = "again" /\ o.bytes = 0
    BY <1>4 DEF AtLine, Out
  <2>3. o.framing = [is |-> "chunked", n |-> 0, ending |-> FALSE]
    BY <1>1, <1>4 DEF AtLine, Out
  <2>4. o.wire = [at |-> "size", chunk |-> 0, left |-> w.left, size |-> w.size, close |-> w.close]
    <3>1. o.wire = Past(w, line)
      BY <1>4 DEF AtLine, Out
    <3>2. CrLf # Line(0) /\ CrLf[2] = 0
      BY DEF CrLf, Line
    <3> QED BY <1>0, <2>1, <2>2, <3>1, <3>2 DEF Past
  <2>5. o.framing \in Framings /\ o.wire \in Wire
    BY <1>0, <2>3, <2>4 DEF Framings, Wire
  <2>6. Fits(o.framing, o.wire, n)
    BY <1>0, <1>2, <2>3, <2>4 DEF Fits
  <2> QED BY <2>2, <2>4, <2>5, <2>6
<1>5. CASE f.is = "chunked" /\ ~f.ending
  <2>1. w.at = "size" /\ w.chunk = 0
    BY <1>1, <1>5 DEF Fits
  <2>2. line[1] = "size" /\ o.result = "again" /\ o.bytes = 0 /\ o.wire = Past(w, line)
    BY <1>5 DEF AtLine, Out
  <2>3. PICK s \in 0 .. w.left : line = <<"size", s>> /\ (s = 0 => w.left = 0)
    BY <1>0, <2>1, <2>2 DEF Lines, Junk, Line
  <2>4. line # CrLf /\ line[2] = s /\ (line = Line(0) <=> s = 0)
    BY <2>3 DEF CrLf, Line
  <2>5. CASE s = 0
    <3>1. o.framing = [is |-> "last", n |-> 0, ending |-> FALSE]
      BY <1>1, <1>5, <2>2, <2>4, <2>5 DEF AtLine, Out
    <3>2. o.wire = [at |-> "last", chunk |-> 0, left |-> w.left, size |-> w.size, close |-> w.close]
      BY <1>0, <2>2, <2>4, <2>5 DEF Past
    <3>3. o.framing \in Framings /\ o.wire \in Wire
      BY <1>0, <3>1, <3>2 DEF Framings, Wire
    <3>4. Fits(o.framing, o.wire, n)
      BY <1>0, <1>2, <2>3, <2>5, <3>1, <3>2 DEF Fits
    <3> QED BY <2>2, <3>2, <3>3, <3>4
  <2>6. CASE s # 0
    <3>1. o.framing = [is |-> "chunked", n |-> s, ending |-> FALSE]
      BY <1>1, <1>5, <2>2, <2>4, <2>6 DEF AtLine, Out
    <3>2. o.wire = [at |-> "chunk", chunk |-> s, left |-> w.left, size |-> w.size, close |-> w.close]
      BY <1>0, <2>2, <2>4, <2>6 DEF Past
    <3>3. o.framing \in Framings /\ o.wire \in Wire
      <4>1. s \in 0 .. MaxSize
        BY <1>0, <2>3
      <4> QED BY <1>0, <3>1, <3>2, <4>1 DEF Framings, Wire
    <3>4. Fits(o.framing, o.wire, n)
      BY <1>0, <1>2, <2>3, <2>6, <3>1, <3>2 DEF Fits
    <3> QED BY <2>2, <3>2, <3>3, <3>4
  <2> QED BY <2>5, <2>6
<1> QED BY <1>1, <1>3, <1>4, <1>5

\* What taking bytes leaves of a body and, in a chunked one, of its chunk.
LEMMA TakenIs ==
  ASSUME NEW w \in Wire, NEW k \in Nat, k <= Room(w)
  PROVE  /\ w.at = "bytes" =>
              Taken(w, k) = [at |-> "bytes", chunk |-> w.chunk, left |-> w.left - k,
                             size |-> w.size, close |-> w.close]
         /\ w.at # "bytes" =>
              Taken(w, k) = [at |-> IF k = w.chunk THEN "crlf" ELSE w.at, chunk |-> w.chunk - k,
                             left |-> w.left - k, size |-> w.size, close |-> w.close]
<1>1. w = [at |-> w.at, chunk |-> w.chunk, left |-> w.left, size |-> w.size, close |-> w.close]
  BY DEF Wire
<1>2. Room(w) \in Nat
  BY WebAssumption DEF Room, Wire
<1>3. (IF k > Room(w) THEN Room(w) ELSE k) = k
  BY <1>2
<1>4. Taken(w, k) = IF w.at = "bytes" THEN [w EXCEPT !.left = w.left - k]
                    ELSE [w EXCEPT !.left = w.left - k, !.chunk = w.chunk - k,
                                   !.at = IF k = w.chunk THEN "crlf" ELSE w.at]
  BY <1>3, Zenon DEF Taken
<1>5. CASE w.at = "bytes"
  BY <1>1, <1>4, <1>5
<1>6. CASE w.at # "bytes"
  <2> HIDE DEF Taken
  <2> DEFINE a == IF k = w.chunk THEN "crlf" ELSE w.at
             x == w.chunk - k
             y == w.left - k
  <2>1. Taken(w, k) = [w EXCEPT !.left = y, !.chunk = x, !.at = a]
    BY <1>4, <1>6
  <2> HIDE DEF a, x, y
  <2>2. Taken(w, k) = [at |-> a, chunk |-> x, left |-> y, size |-> w.size, close |-> w.close]
    BY <1>1, <2>1
  <2> QED BY <1>6, <2>2 DEF a, x, y
<1> QED BY <1>5, <1>6

\* Bytes that arrive are body bytes: Body::next never asks past the current chunk.
LEMMA BytesFit ==
  ASSUME NEW f \in Framings, NEW w \in Wire, NEW n \in Nat, Fits(f, w, n),
         ~AtFrame(f), ~IsEmpty(f),
         NEW k \in 1 .. Arriving(w), \A u \in Upto(f) : k <= u
  PROVE  LET o == AtBytes(f, w, k) IN
         /\ o.result = "data" /\ o.bytes = k /\ k \in Nat
         /\ o.framing \in Framings /\ o.wire \in Wire
         /\ o.wire.size = w.size
         /\ Fits(o.framing, o.wire, n + k)
<1> DEFINE o == AtBytes(f, w, k)
<1>0. /\ w.at \in {"bytes", "size", "chunk", "crlf", "last", "end"}
      /\ w.chunk \in 0 .. MaxSize /\ w.left \in 0 .. MaxSize /\ w.size \in 0 .. MaxSize
      /\ w.close \in BOOLEAN /\ MaxSize \in Nat
      /\ w = [at |-> w.at, chunk |-> w.chunk, left |-> w.left, size |-> w.size, close |-> w.close]
  BY WebAssumption DEF Wire
<1>1. /\ f = [is |-> f.is, n |-> f.n, ending |-> f.ending]
      /\ f.is \in {"length", "eof", "chunked"}
      /\ f.n \in 0 .. MaxSize /\ f.ending \in BOOLEAN
      /\ f.is = "chunked" => f.n > 0
  BY DEF Framings, AtFrame, IsEmpty
<1>2. n + w.left = w.size
  BY DEF Fits
<1>3. /\ o.result = "data" /\ o.bytes = k /\ k \in Nat /\ k > 0 /\ o.wire = Taken(w, k)
      /\ o.framing = IF f.is = "eof" THEN f
                     ELSE [is |-> f.is, n |-> f.n - k, ending |-> f.is = "chunked" /\ f.n = k]
  <2>1. Arriving(w) \in Nat
    BY <1>0 DEF Arriving, Room
  <2> QED BY <2>1 DEF AtBytes, Out
<1>4. f.is # "eof" => k <= f.n
  BY DEF Upto
<1>5. CASE f.is = "eof"
  <2>1. w.at = "bytes" /\ ~f.ending /\ w.close /\ k <= w.left
    BY <1>0, <1>3, <1>5 DEF Fits, Arriving, Room
  <2>2. o.wire = [at |-> "bytes", chunk |-> w.chunk, left |-> w.left - k, size |-> w.size, close |-> w.close]
    BY <1>0, <1>3, <2>1, TakenIs DEF Room
  <2>3. o.framing = f /\ o.wire \in Wire
    BY <1>0, <1>3, <1>5, <2>1, <2>2 DEF Wire
  <2>4. Fits(f, o.wire, n + k)
    BY <1>0, <1>2, <1>3, <1>5, <2>1, <2>2 DEF Fits
  <2> QED BY <1>3, <2>2, <2>3, <2>4
<1>6. CASE f.is = "length"
  <2>1. w.at = "bytes" /\ f.n = w.left /\ ~w.close /\ k <= w.left
    BY <1>0, <1>4, <1>6 DEF Fits
  <2>2. o.wire = [at |-> "bytes", chunk |-> w.chunk, left |-> w.left - k, size |-> w.size, close |-> w.close]
    BY <1>0, <1>3, <2>1, TakenIs DEF Room
  <2>3. o.framing = [is |-> "length", n |-> w.left - k, ending |-> FALSE]
    BY <1>3, <1>6, <2>1
  <2>4. o.wire \in Wire /\ o.framing \in Framings
    BY <1>0, <1>3, <2>1, <2>2, <2>3 DEF Wire, Framings
  <2>5. Fits(o.framing, o.wire, n + k)
    BY <1>0, <1>2, <1>3, <2>1, <2>2, <2>3 DEF Fits
  <2> QED BY <1>3, <2>2, <2>4, <2>5
<1>7. CASE f.is = "chunked"
  <2>1. w.at = "chunk" /\ f.n = w.chunk /\ ~w.close /\ k <= w.chunk /\ w.chunk <= w.left
    BY <1>0, <1>1, <1>4, <1>7 DEF Fits
  <2>2. o.wire = [at |-> IF k = w.chunk THEN "crlf" ELSE "chunk", chunk |-> w.chunk - k,
                  left |-> w.left - k, size |-> w.size, close |-> w.close]
    BY <1>0, <1>3, <2>1, TakenIs DEF Room
  <2>3. o.framing = [is |-> "chunked", n |-> w.chunk - k, ending |-> w.chunk = k]
    BY <1>3, <1>7, <2>1
  <2>4. o.wire \in Wire /\ o.framing \in Framings
    <3>1. w.chunk - k \in 0 .. MaxSize /\ w.left - k \in 0 .. MaxSize
      BY <1>0, <1>3, <2>1
    <3> QED BY <1>0, <2>2, <2>3, <3>1 DEF Wire, Framings
  <2>5. Fits(o.framing, o.wire, n + k)
    <3>1. /\ n + k + (w.left - k) = w.size /\ w.chunk - k <= w.left - k
          /\ w.chunk - k = 0 <=> k = w.chunk
          /\ w.chunk - k > 0 <=> k # w.chunk
      <4>1. w.chunk \in Nat /\ w.left \in Nat /\ k \in Nat /\ k <= w.chunk /\ w.chunk <= w.left
        BY <1>0, <1>3, <2>1
      <4>2. n + k + (w.left - k) = n + w.left
        BY <4>1
      <4> QED BY <1>2, <4>1, <4>2
    <3>2. CASE k = w.chunk
      <4>1. /\ o.framing = [is |-> "chunked", n |-> 0, ending |-> TRUE]
            /\ o.wire = [at |-> "crlf", chunk |-> 0, left |-> w.left - k, size |-> w.size, close |-> FALSE]
        <5>1. w.chunk - k = 0 /\ w.close = FALSE
          BY <1>0, <2>1, <3>1, <3>2
        <5>2. (w.chunk = k) = TRUE
          BY <3>2
        <5> QED BY <2>2, <2>3, <3>2, <5>1, <5>2
      <4> QED BY <1>0, <3>1, <3>2, <4>1 DEF Fits
    <3>3. CASE k # w.chunk
      <4>1. /\ o.framing = [is |-> "chunked", n |-> w.chunk - k, ending |-> FALSE]
            /\ o.wire = [at |-> "chunk", chunk |-> w.chunk - k, left |-> w.left - k,
                         size |-> w.size, close |-> FALSE]
        BY <1>0, <2>1, <2>2, <2>3, <3>3
      <4> QED BY <1>0, <3>1, <3>3, <4>1 DEF Fits
    <3> QED BY <3>2, <3>3
  <2> QED BY <1>3, <2>2, <2>4, <2>5
<1> QED BY <1>1, <1>5, <1>6, <1>7

\* One wait of Body::next: the reader stays where the upstream is, and an end
\* without an error comes after the last byte.
LEMMA ReadFits ==
  ASSUME NEW f \in Framings, NEW w \in Wire, NEW n \in Nat, Fits(f, w, n),
         NEW limit, NEW o \in Reads(f, w, limit), o.result # "error"
  PROVE  /\ o.bytes \in Nat
         /\ o.result = "end" => o.bytes = 0 /\ (w.close \/ n = w.size)
         /\ o.result # "end" => /\ o.framing \in Framings /\ o.wire \in Wire
                                /\ o.wire.size = w.size
                                /\ Fits(o.framing, o.wire, n + o.bytes)
<1>1. CASE IsEmpty(f)
  <2>1. o.result = "end" /\ o.bytes = 0
    BY <1>1 DEF Reads, Out
  <2> QED BY <1>1, <2>1, EmptyWhole
<1>2. CASE ~IsEmpty(f) /\ o = AtEof(f, w)
  <2>1. f.is = "eof" /\ o.result = "end" /\ o.bytes = 0
    BY <1>2 DEF AtEof, Out
  <2> QED BY <2>1 DEF Fits
<1>3. CASE AtFrame(f) /\ \E line \in Lines(w) : o = AtLine(f, w, line, limit)
  <2>1. PICK line \in Lines(w) : o = AtLine(f, w, line, limit)
    BY <1>3
  <2>2. n + 0 = n
    OBVIOUS
  <2> QED BY <1>3, <2>1, <2>2, LineFits
<1>4. CASE ~AtFrame(f) /\ ~IsEmpty(f) /\
           \E k \in 1 .. Arriving(w) : o = AtBytes(f, w, k) /\ \A u \in Upto(f) : k <= u
  <2>1. PICK k \in 1 .. Arriving(w) : o = AtBytes(f, w, k) /\ \A u \in Upto(f) : k <= u
    BY <1>4
  <2> QED BY <1>4, <2>1, BytesFit
<1>5. CASE o = Out("error", f, w, 0)
  BY <1>5 DEF Out
<1> QED BY <1>1, <1>2, <1>3, <1>4, <1>5 DEF Reads

\* The framing that http::head announces is that of the body which follows it.
LEMMA AnswerFits ==
  ASSUME NEW a \in Answers, a.ok
  PROVE  a.framing \in Framings /\ a.wire \in Wire /\ Fits(a.framing, a.wire, 0)
<1>1. PICK m \in Responses : \E w \in IF Refused(m) THEN {NoWire} ELSE Wires(m) :
        a = [ok |-> ~Refused(m), null |-> NoContent(m), framing |-> FramingOf(m), wire |-> w]
  BY DEF Answers
<1>0. ASSUME Refused(m) PROVE FALSE
  <2>1. (~Refused(m)) = FALSE
    BY <1>0
  <2>2. PICK w : a = [ok |-> FALSE, null |-> NoContent(m), framing |-> FramingOf(m), wire |-> w]
    BY <1>1, <2>1
  <2> QED BY <2>2
<1>2. PICK w \in Wires(m) : a.framing = FramingOf(m) /\ a.wire = w
  BY <1>0, <1>1
<1>3. ~Refused(m) /\ m.chunked \in BOOLEAN /\ m.length \in 0 .. NoLength
  BY <1>0 DEF Responses
<1>4. MaxSize \in Nat /\ MaxSize > 0 /\ NoLength = MaxSize + 1
  BY WebAssumption DEF NoLength
<1>5. CASE NoContent(m)
  <2>1. w = NoWire /\ FramingOf(m) = Empty
    BY <1>2, <1>5 DEF Wires, FramingOf
  <2>2. Empty \in Framings /\ NoWire \in Wire
    BY <1>4 DEF Empty, Framings, NoWire, Wire
  <2>3. Fits(Empty, NoWire, 0)
    BY DEF Fits, Empty, NoWire
  <2> QED BY <1>2, <2>1, <2>2, <2>3
<1>6. CASE ~NoContent(m) /\ m.chunked
  <2>1. PICK n \in 0 .. MaxSize : w = [at |-> "size", chunk |-> 0, left |-> n, size |-> n, close |-> FALSE]
    <3>1. m.length = NoLength
      BY <1>3, <1>6 DEF Refused
    <3> QED BY <1>2, <1>6, <3>1 DEF Wires
  <2>2. FramingOf(m) = [is |-> "chunked", n |-> 0, ending |-> FALSE]
    BY <1>6 DEF FramingOf
  <2>3. FramingOf(m) \in Framings /\ w \in Wire
    BY <1>4, <2>1, <2>2 DEF Framings, Wire
  <2>4. Fits(FramingOf(m), w, 0)
    BY <1>4, <2>1, <2>2 DEF Fits
  <2> QED BY <1>2, <2>3, <2>4
<1>7. CASE ~NoContent(m) /\ ~m.chunked /\ m.length # NoLength
  <2>1. m.length \in 0 .. MaxSize
    BY <1>3, <1>4, <1>7
  <2>2. w = [at |-> "bytes", chunk |-> 0, left |-> m.length, size |-> m.length, close |-> FALSE]
    <3>1. (~m.chunked /\ m.length = NoLength) = FALSE
      BY <1>7
    <3> QED BY <1>2, <1>7, <3>1 DEF Wires
  <2>3. FramingOf(m) = [is |-> "length", n |-> m.length, ending |-> FALSE]
    BY <1>7 DEF FramingOf
  <2>4. FramingOf(m) \in Framings /\ w \in Wire
    BY <1>4, <2>1, <2>2, <2>3 DEF Framings, Wire
  <2>5. Fits(FramingOf(m), w, 0)
    BY <1>4, <2>1, <2>2, <2>3 DEF Fits
  <2> QED BY <1>2, <2>4, <2>5
<1>8. CASE ~NoContent(m) /\ ~m.chunked /\ m.length = NoLength
  <2>1. PICK n \in 0 .. MaxSize : w = [at |-> "bytes", chunk |-> 0, left |-> n, size |-> n, close |-> TRUE]
    <3>1. (~m.chunked /\ m.length = NoLength) = TRUE
      BY <1>8
    <3> QED BY <1>2, <1>8, <3>1 DEF Wires
  <2>2. FramingOf(m) = [is |-> "eof", n |-> 0, ending |-> FALSE]
    BY <1>8 DEF FramingOf
  <2>3. FramingOf(m) \in Framings /\ w \in Wire
    BY <1>4, <2>1, <2>2 DEF Framings, Wire
  <2>4. Fits(FramingOf(m), w, 0)
    BY <1>4, <2>1, <2>2 DEF Fits
  <2> QED BY <1>2, <2>3, <2>4
<1> QED BY <1>5, <1>6, <1>7, <1>8

\* A health answer that is accepted without a length was ended by a close.
LEMMA HealthWhole ==
  ASSUME NEW a \in HealthAnswers, NEW k \in 0 .. a.wire.left, ~a.chunked,
         a.length \in {NoLength, k}
  PROVE  a.wire.close \/ k = a.wire.size
<1>0. PICK m \in Responses : \E w \in Wires(m) : a = [chunked |-> m.chunked, length |-> m.length, wire |-> w]
  BY DEF HealthAnswers
<1>1. PICK w \in Wires(m) : a = [chunked |-> m.chunked, length |-> m.length, wire |-> w]
  BY <1>0
<1>2. CASE NoContent(m)
  <2>1. a.wire.left = 0 /\ a.wire.size = 0
    BY <1>1, <1>2 DEF Wires, NoWire
  <2> QED BY <2>1
<1>3. CASE ~NoContent(m) /\ m.length # NoLength
  BY <1>1, <1>3 DEF Wires
<1>4. CASE ~NoContent(m) /\ m.length = NoLength
  <2>1. m.chunked = a.chunked /\ w = a.wire
    BY <1>1
  <2>2. (~m.chunked /\ m.length = NoLength) = TRUE
    BY <1>4, <2>1
  <2>3. PICK n \in 0 .. MaxSize : w = [at |-> "bytes", chunk |-> 0, left |-> n, size |-> n, close |-> TRUE]
    BY <1>1, <1>4, <2>1, <2>2 DEF Wires
  <2> QED BY <2>1, <2>3
<1> QED BY <1>2, <1>3, <1>4

\* Nothing is asked of the client yet.
LEMMA InitWeb == Init => WebInv
<1> SUFFICES ASSUME Init PROVE WebInv
  OBVIOUS
<1>1. permit \in [Calls -> BOOLEAN] /\ released \in [Calls -> BOOLEAN]
  BY Zenon DEF Init
<1>2. ControlOK
  BY <1>1 DEF Init, ControlOK
<1>3. \A c \in Calls : CallInv(c)
  BY DEF Init, CallInv, Unsettled, Readable, Answering, Borrowed, Owned
<1> QED BY <1>2, <1>3 DEF Init, WebInv, CloseInv, ConnectInv

-----------------------------------------------------------------------------
(* The steps of the client                                                 *)

LEMMA ClientKeeps == WebInv /\ (ClientStep \/ Abandon) => WebInv'
<1> SUFFICES ASSUME WebInv, ClientStep \/ Abandon PROVE WebInv'
  OBVIOUS
<1>1. UNCHANGED <<awaited, call, kind, task, owner, permit, next, stopping, released, reader>>
  BY DEF ClientStep, Abandon, Bind, WaitConnected, Connected, Undone, SessionCloses,
         RawClose, CloseSettles, jsVars
<1>2. ControlOK'
  BY <1>1 DEF WebInv, ControlOK, ClientStep, Abandon, Bind, WaitConnected, Connected, Undone,
              SessionCloses, RawClose, CloseSettles
<1>3. \A c \in Calls : CallInv(c)'
  BY <1>1 DEF WebInv, CallInv, Unsettled, Readable, Answering, Borrowed, Owned
<1>4. CloseInv'
  <2>1. CASE CloseSettles
    BY <1>1, <2>1 DEF WebInv, ControlOK, CloseInv, CallInv, Borrowed, CloseSettles, Stopped
  <2>2. CASE ~CloseSettles
    BY <1>1, <2>2 DEF WebInv, CloseInv, ClientStep, Abandon, Bind, WaitConnected, Connected,
                      Undone, SessionCloses, RawClose
  <2> QED BY <2>1, <2>2
<1>5. ConnectInv'
  BY DEF WebInv, ControlOK, ConnectInv, ClientStep, Abandon, Bind, WaitConnected, Connected,
         Undone, SessionCloses, RawClose, CloseSettles
<1> QED BY <1>2, <1>3, <1>4, <1>5 DEF WebInv

LEMMA CloseKeeps == WebInv /\ Close => WebInv'
<1> SUFFICES ASSUME WebInv, Close PROVE WebInv'
  OBVIOUS
<1> USE DEF WebInv, Close, StopAll, Streams
<1>1. ControlOK'
  BY DEF ControlOK
<1>2. ASSUME NEW c \in Calls PROVE CallInv(c)'
  BY DEF ControlOK, CallInv, Unsettled, Readable, Answering, Borrowed, Owned
<1>3. CloseInv'
  BY DEF CloseInv
<1>4. ConnectInv'
  BY DEF ConnectInv
<1> QED BY <1>1, <1>2, <1>3, <1>4

-----------------------------------------------------------------------------
(* The steps of a call                                                     *)

\* What is to be shown of a step that leaves the client and the other calls
\* alone: close() is disturbed only by a stream that opens.
LEMMA CallSuffices ==
  ASSUME WebInv, NEW c \in Calls, UNCHANGED <<client, session, awaited>>,
         ControlOK', CallInv(c)',
         \A d \in Calls \ {c} :
           /\ UNCHANGED <<call[d], task[d], owner[d], permit[d]>>
           /\ UNCHANGED <<next[d], stopping[d], released[d], reader[d]>>,
         call'[c] = "open" => call[c] = "open" \/ client = "open",
         released[c] => released'[c]
  PROVE  WebInv'
<1>1. ASSUME NEW d \in Calls PROVE CallInv(d)'
  BY DEF WebInv, CallInv, Unsettled, Readable, Answering, Borrowed, Owned
<1>2. \A d \in Calls : (call'[d] = "open" => call[d] = "open" \/ client = "open")
                      /\ (released[d] => released'[d])
  OBVIOUS
<1>3. CloseInv'
  BY <1>2 DEF WebInv, CloseInv, ControlOK
<1>4. ConnectInv'
  BY DEF WebInv, ConnectInv
<1> QED BY <1>1, <1>3, <1>4 DEF WebInv

LEMMA CallKeeps == ASSUME WebInv, NEW c \in Calls, Call(c) PROVE WebInv'
<1> USE DEF Call, Set
<1>1. UNCHANGED <<client, session, awaited, owner, permit, next, stopping, released, reader>>
  BY DEF clientVars, jsVars
<1>2. ControlOK'
  BY <1>1 DEF WebInv, ControlOK, Kinds
<1>3. CallInv(c)'
  BY <1>1 DEF WebInv, ControlOK, CallInv, Unsettled, Readable, Answering, Borrowed, Owned
<1>4. \A d \in Calls \ {c} : UNCHANGED <<call[d], task[d]>>
  BY DEF WebInv, ControlOK
<1>5. call'[c] # "open"
  BY DEF WebInv, ControlOK
<1> QED BY <1>1, <1>2, <1>3, <1>4, <1>5, CallSuffices

\* An operation settles its task once: its owner task starts then, or never.
LEMMA OperationEffect ==
  ASSUME WebInv, NEW c \in Calls, Operation(c)
  PROVE  /\ task[c] \in {"called", "setup", "read"}
         /\ \E t \in {"setup", "read", "ok", "null", "err"} : task' = [task EXCEPT ![c] = t]
         /\ \E b \in BOOLEAN : permit' = [permit EXCEPT ![c] = b]
         /\ \/ UNCHANGED owner
            \/ \E w \in {"none", "wait"} : owner' = [owner EXCEPT ![c] = w]
         /\ owner'[c] # "none" => task'[c] \in {"ok", "null"}
<1> USE DEF Set
<1>0. /\ task \in [Calls -> {"none", "called", "setup", "read", "ok", "null", "err"}]
      /\ owner \in [Calls -> {"none", "wait", "next", "done"}]
      /\ permit \in [Calls -> BOOLEAN]
      /\ task[c] \in {"called", "setup", "read"} => owner[c] = "none"
  BY DEF WebInv, ControlOK, CallInv, Owned
<1> HIDE DEF WebInv
<1>1. permit = [permit EXCEPT ![c] = permit[c]] /\ permit[c] \in BOOLEAN
  BY <1>0
<1>2. CASE task[c] \in {"called", "setup", "read"} /\ Fail(c)
  BY <1>0, <1>2 DEF Fail
<1>3. CASE Begin(c) /\ ~Fail(c)
  <2>1. (kind[c] # "health") \in BOOLEAN
    OBVIOUS
  <2> QED BY <1>0, <1>3, <2>1 DEF Begin
<1>4. ASSUME NEW a, task[c] = "setup", ReadHead(c, a), ~Fail(c)
      PROVE  /\ UNCHANGED permit
             /\ task' = Set(task, c, IF kind[c] = "buffered" THEN "read" ELSE IF a.null THEN "null" ELSE "ok")
             /\ owner' = Set(owner, c, IF kind[c] = "stream" THEN "wait" ELSE "none")
  BY <1>4 DEF ReadHead
<1>5. ASSUME NEW a, NEW k, task[c] = "setup", Health(c, a, k), ~Fail(c)
      PROVE  UNCHANGED <<permit, owner>> /\ task' = Set(task, c, "ok")
  BY <1>5 DEF Health
<1>6. ASSUME NEW o, task[c] = "read", ReadBody(c, o), ~Fail(c)
      PROVE  /\ UNCHANGED owner
             /\ \/ UNCHANGED <<task, permit>>
                \/ task' = Set(task, c, "ok") /\ permit' = Set(permit, c, FALSE)
  BY <1>6 DEF ReadBody
<1>7. CASE ~Fail(c) /\ task[c] = "setup" /\ \E a \in Answers : ReadHead(c, a)
  BY <1>0, <1>1, <1>4, <1>7
<1>8. CASE ~Fail(c) /\ task[c] = "setup"
           /\ \E a \in HealthAnswers : \E k \in 0 .. a.wire.left : Health(c, a, k)
  BY <1>0, <1>1, <1>5, <1>8
<1>9. CASE ~Fail(c) /\ task[c] = "read"
           /\ \E o \in Reads(framing[c], wire[c], MaxBody) : ReadBody(c, o)
  <2>1. task = [task EXCEPT ![c] = "read"]
    BY <1>0, <1>9
  <2> QED BY <1>0, <1>1, <1>6, <1>9, <2>1
<1> QED BY <1>2, <1>3, <1>7, <1>8, <1>9 DEF Operation, Begin, Invalid, OperationFails

LEMMA OperationKeeps == ASSUME WebInv, NEW c \in Calls, Operation(c) PROVE WebInv'
<1>1. UNCHANGED <<client, session, awaited, call, kind, next, stopping, released, reader>>
  BY DEF Operation, clientVars, jsVars
<1>2. PICK t \in {"setup", "read", "ok", "null", "err"} : task' = [task EXCEPT ![c] = t]
  BY OperationEffect
<1>3. PICK b \in BOOLEAN : permit' = [permit EXCEPT ![c] = b]
  BY OperationEffect
<1>4. PICK w \in {"none", "wait"} : owner' = [owner EXCEPT ![c] = w]
  <2>1. owner = [owner EXCEPT ![c] = "none"]
    BY OperationEffect DEF WebInv, ControlOK, CallInv, Owned
  <2> QED BY <2>1, OperationEffect
<1>5. ControlOK'
  BY <1>1, <1>2, <1>3, <1>4 DEF WebInv, ControlOK
<1>6. CallInv(c)'
  <2>0. /\ task[c] \in {"called", "setup", "read"}
        /\ owner'[c] # "none" => task'[c] \in {"ok", "null"}
    BY OperationEffect
  <2>1. /\ owner[c] = "none" /\ call[c] # "idle"
        /\ owner'[c] \in {"none", "wait"}
    BY <1>4, <2>0 DEF WebInv, ControlOK, CallInv, Owned
  <2>2. (Unsettled(c) /\ Readable(c) /\ Answering(c) /\ Borrowed(c))'
    BY <1>1, <2>1 DEF WebInv, CallInv, Unsettled, Readable, Answering, Borrowed
  <2>3. Owned(c)'
    BY <1>1, <2>0, <2>1 DEF WebInv, CallInv, Owned
  <2> QED BY <2>2, <2>3 DEF CallInv
<1>7. \A d \in Calls \ {c} : UNCHANGED <<task[d], owner[d], permit[d]>>
  BY <1>2, <1>3, <1>4 DEF WebInv, ControlOK
<1> QED BY <1>1, <1>5, <1>6, <1>7, CallSuffices

\* The end of the owner task answers the pull, returns the permit and is final.
LEMMA OwnerEffect ==
  ASSUME WebInv, NEW c \in Calls, Owner(c)
  PROVE  /\ owner[c] \in {"wait", "next"}
         /\ \E w \in {"wait", "next", "done"} : owner' = [owner EXCEPT ![c] = w]
         /\ \/ UNCHANGED next
            \/ /\ next[c] = "queued"
               /\ \E r \in {"data", "end", "error"} : next' = [next EXCEPT ![c] = r]
         /\ \/ UNCHANGED permit
            \/ permit' = [permit EXCEPT ![c] = FALSE]
         /\ owner'[c] = "next" => next'[c] = "queued"
         /\ next'[c] \in {"end", "error"} => owner'[c] = "done"
         /\ owner'[c] = "done" => ~permit'[c]
<1> USE DEF Set
<1>0. /\ owner \in [Calls -> {"none", "wait", "next", "done"}]
      /\ next \in [Calls -> {"none", "queued", "data", "end", "error"}]
      /\ permit \in [Calls -> BOOLEAN]
      /\ Answering(c)
  BY DEF WebInv, ControlOK, CallInv
<1>1. CASE OwnerStops(c)
  BY <1>0, <1>1 DEF OwnerStops, OwnerDone, Answering
<1>2. CASE OwnerTakes(c)
  BY <1>0, <1>2 DEF OwnerTakes, OwnerDone, Answering
<1>3. CASE owner[c] = "next" /\ \E o \in Reads(framing[c], wire[c], MaxSize) : OwnerReads(c, o)
  <2>1. PICK o \in Reads(framing[c], wire[c], MaxSize) : OwnerReads(c, o)
    BY <1>3
  <2>2. o.result \in {"again", "data", "end", "error"}
    BY ReadResults
  <2>3. next[c] = "queued"
    BY <1>0, <1>3 DEF Answering
  <2>4. CASE o.result \in {"end", "error"} \/ (o.result = "data" /\ IsEmpty(o.framing))
    BY <1>0, <1>3, <2>1, <2>2, <2>3, <2>4 DEF OwnerReads, OwnerDone
  <2>5. CASE ~(o.result \in {"end", "error"} \/ (o.result = "data" /\ IsEmpty(o.framing)))
    BY <1>0, <1>3, <2>1, <2>2, <2>3, <2>5 DEF OwnerReads
  <2> QED BY <2>4, <2>5
<1> QED BY <1>1, <1>2, <1>3 DEF Owner

LEMMA OwnerKeeps == ASSUME WebInv, NEW c \in Calls, Owner(c) PROVE WebInv'
<1>1. UNCHANGED <<client, session, awaited, call, kind, task, stopping, released, reader>>
  BY DEF Owner, clientVars, jsVars
<1>2. PICK w \in {"wait", "next", "done"} : owner' = [owner EXCEPT ![c] = w]
  BY OwnerEffect
<1>3. PICK b \in BOOLEAN : permit' = [permit EXCEPT ![c] = b]
  <2>1. permit = [permit EXCEPT ![c] = permit[c]] /\ permit[c] \in BOOLEAN
    BY DEF WebInv, ControlOK
  <2> QED BY <2>1, OwnerEffect
<1>4. \/ UNCHANGED next
      \/ next[c] = "queued" /\ \E r \in {"data", "end", "error"} : next' = [next EXCEPT ![c] = r]
  BY OwnerEffect
<1>5. ControlOK'
  <2>1. next' \in [Calls -> {"none", "queued", "data", "end", "error"}]
    BY <1>4 DEF WebInv, ControlOK
  <2> QED BY <1>1, <1>2, <1>3, <2>1 DEF WebInv, ControlOK
<1>6. CallInv(c)'
  <2>1. next[c] = "queued" \/ next'[c] = next[c]
    BY <1>4
  <2>2. Answering(c)'
    BY OwnerEffect DEF Answering
  <2>3. (Unsettled(c) /\ Readable(c) /\ Borrowed(c))'
    BY <1>1, <2>1 DEF WebInv, CallInv, Unsettled, Readable, Borrowed
  <2>4. Owned(c)'
    BY <1>1, OwnerEffect DEF WebInv, CallInv, Owned
  <2> QED BY <2>2, <2>3, <2>4 DEF CallInv
<1>7. \A d \in Calls \ {c} : UNCHANGED <<owner[d], permit[d], next[d]>>
  BY <1>2, <1>3, <1>4 DEF WebInv, ControlOK
<1> QED BY <1>1, <1>5, <1>6, <1>7, CallSuffices

\* A step of the page: each of its parts touches one call.
LEMMA PageKeeps == ASSUME WebInv, NEW c \in Calls, Page(c) PROVE WebInv'
<1>1. UNCHANGED <<client, session, awaited, kind, task, owner, permit>>
  BY DEF Page, clientVars
<1> DEFINE Others == \A d \in Calls \ {c} :
                       UNCHANGED <<call[d], next[d], stopping[d], released[d], reader[d]>>
           Kept == /\ ControlOK' /\ CallInv(c)' /\ Others
                   /\ call'[c] = "open" => call[c] = "open" \/ client = "open"
                   /\ released[c] => released'[c]
<1> SUFFICES Kept
  BY <1>1, CallSuffices
<1> USE DEF Set
<1>2. CASE Settle(c)
  <2>1. CASE task[c] = "ok" /\ kind[c] = "stream" /\ ~aborted[c] /\ client = "open"
    BY <1>1, <1>2, <2>1 DEF WebInv, ControlOK, CallInv, Unsettled, Readable, Answering, Borrowed, Owned, Settle
  <2>2. CASE task[c] = "ok" /\ kind[c] = "stream" /\ ~aborted[c] /\ client # "open"
    <3>1. call[c] = "pending" /\ call' = [call EXCEPT ![c] = "refusing"] /\ UNCHANGED <<released, next>>
      BY <1>2, <2>2 DEF Settle
    <3>2. /\ stopping' = [d \in Calls |-> IF d \in {c} /\ stopping[d] = "no" THEN "pending" ELSE stopping[d]]
          /\ reader' = [d \in Calls |-> IF d \in {c} /\ reader[d] = "readable" THEN "errored" ELSE reader[d]]
      BY <1>2, <2>2 DEF Settle, StopAll
    <3>3. ControlOK' /\ Others
      BY <1>1, <3>1, <3>2 DEF WebInv, ControlOK
    <3>4. stopping'[c] = "pending" /\ reader'[c] = "none" /\ next[c] = "none" /\ ~released[c]
      BY <3>1, <3>2 DEF WebInv, CallInv, Unsettled
    <3>5. CallInv(c)'
      BY <1>1, <3>1, <3>4 DEF WebInv, ControlOK, CallInv, Unsettled, Readable, Answering, Borrowed, Owned
    <3> QED BY <3>1, <3>3, <3>5 DEF WebInv, ControlOK
  <2>3. CASE ~(task[c] = "ok" /\ kind[c] = "stream" /\ ~aborted[c])
    <3>1. PICK r \in {"resolved", "rejected"} : call' = [call EXCEPT ![c] = r]
      BY <1>2, <2>3 DEF Settle
    <3>2. /\ call[c] = "pending" /\ task[c] # "none" /\ released' = [released EXCEPT ![c] = TRUE]
          /\ UNCHANGED <<next, stopping, reader>>
      BY <1>2, <2>3 DEF Settle, Release
    <3>3. ControlOK' /\ Others
      BY <1>1, <3>1, <3>2 DEF WebInv, ControlOK
    <3>4. call'[c] = r /\ released'[c] /\ next[c] = "none" /\ stopping[c] = "no" /\ reader[c] = "none"
      BY <3>1, <3>2 DEF WebInv, ControlOK, CallInv, Unsettled
    <3>5. CallInv(c)'
      BY <1>1, <3>1, <3>2, <3>4 DEF WebInv, CallInv, Unsettled, Readable, Answering, Borrowed, Owned
    <3> QED BY <3>1, <3>3, <3>4, <3>5
  <2> QED BY <2>1, <2>2, <2>3
<1>3. CASE Refuse(c)
  BY <1>1, <1>3
     DEF WebInv, ControlOK, CallInv, Unsettled, Readable, Answering, Borrowed, Owned, Refuse, jsVars
<1>4. CASE Pulled(c)
  <2>1. CASE stopping[c] = "no" /\ next[c] # "data"
    <3>1. next' = [next EXCEPT ![c] = "none"] /\ released' = [released EXCEPT ![c] = TRUE]
          /\ UNCHANGED <<call, stopping>> /\ next[c] \in {"end", "error"}
      BY <1>4, <2>1 DEF Pulled, Release
    <3>2. PICK r \in {"closed", "errored"} : reader' = [reader EXCEPT ![c] = r]
      BY <1>4, <2>1 DEF Pulled
    <3>3. ControlOK' /\ Others
      BY <1>1, <3>1, <3>2 DEF WebInv, ControlOK
    <3>4. CallInv(c)'
      BY <1>1, <2>1, <3>1, <3>2
         DEF WebInv, ControlOK, CallInv, Unsettled, Readable, Answering, Borrowed, Owned
    <3> QED BY <3>1, <3>3, <3>4 DEF WebInv, ControlOK
  <2>2. CASE ~(stopping[c] = "no" /\ next[c] # "data")
    BY <1>1, <1>4, <2>2
       DEF WebInv, ControlOK, CallInv, Unsettled, Readable, Answering, Borrowed, Owned, Pulled
  <2> QED BY <2>1, <2>2
<1>5. CASE StopPulled(c)
  BY <1>1, <1>5
     DEF WebInv, ControlOK, CallInv, Unsettled, Readable, Answering, Borrowed, Owned, StopPulled, PendingDone
<1>6. CASE StopFinished(c)
  BY <1>1, <1>6
     DEF WebInv, ControlOK, CallInv, Unsettled, Readable, Answering, Borrowed, Owned, StopFinished,
         Finished, Release
<1>7. CASE Pull(c)
  BY <1>1, <1>7
     DEF WebInv, ControlOK, CallInv, Unsettled, Readable, Answering, Borrowed, Owned, Pull, jsVars
<1>8. CASE Abort(c)
  BY <1>1, <1>8
     DEF WebInv, ControlOK, CallInv, Unsettled, Readable, Answering, Borrowed, Owned, Abort, StopAll, Streams
<1>9. CASE Cancel(c)
  BY <1>1, <1>9
     DEF WebInv, ControlOK, CallInv, Unsettled, Readable, Answering, Borrowed, Owned, Cancel, StopAll, Streams
<1> QED BY <1>2, <1>3, <1>4, <1>5, <1>6, <1>7, <1>8, <1>9 DEF Page, Script

-----------------------------------------------------------------------------
(* The bodies                                                              *)

\* What is to be shown of a step that gives one call another body.
LEMMA BodySuffices ==
  ASSUME BodyInv, NEW c \in Calls, NEW f \in Framings, NEW w \in Wire, NEW n \in Nat,
         Fits(f, w, n),
         framing' = Set(framing, c, f), wire' = Set(wire, c, w), got' = Set(got, c, n),
         UNCHANGED short,
         \A d \in Calls \ {c} : UNCHANGED task[d],
         task'[c] \in {"none", "called", "setup"} => f = Empty
  PROVE  BodyInv'
<1>1. framing' \in [Calls -> Framings] /\ wire' \in [Calls -> Wire] /\ got' \in [Calls -> Nat]
  BY DEF BodyInv, Set
<1>2. framing'[c] = f /\ wire'[c] = w /\ got'[c] = n
  BY DEF BodyInv, Set
<1>3. \A d \in Calls \ {c} : UNCHANGED <<framing[d], wire[d], got[d]>>
  BY DEF BodyInv, Set
<1>4. ASSUME NEW d \in Calls
      PROVE  /\ Fits(framing'[d], wire'[d], got'[d])
             /\ task'[d] \in {"none", "called", "setup"} => framing'[d] = Empty
  BY <1>2, <1>3 DEF BodyInv
<1> QED BY <1>1, <1>4, Zenon DEF BodyInv, Fits

\* A body may be dropped at any time, as whole only after its last byte.
LEMMA DropKeeps ==
  ASSUME BodyInv, NEW c \in Calls, NEW clean \in BOOLEAN, NEW w, NEW bytes,
         clean => w.close \/ bytes = w.size,
         DropBody(c, clean, w, bytes),
         \A d \in Calls \ {c} : UNCHANGED task[d]
  PROVE  BodyInv'
<1>1. short' = short
  <2>1. (clean /\ ~w.close /\ bytes # w.size) = FALSE
    OBVIOUS
  <2>2. short' = Set(short, c, FALSE)
    BY <2>1 DEF DropBody
  <2> QED BY <2>2 DEF BodyInv, Set
<1>2. Empty \in Framings /\ NoWire \in Wire
  BY WebAssumption DEF Empty, Framings, NoWire, Wire
<1>3. Fits(Empty, NoWire, 0)
  BY DEF Fits, Empty, NoWire
<1> QED BY <1>1, <1>2, <1>3, BodySuffices DEF DropBody

\* The bodies fit as long as nobody touches them.
LEMMA BodyIdle ==
  ASSUME BodyInv, UNCHANGED bodyVars,
         \A c \in Calls : task'[c] \in {"none", "called", "setup"} => task[c] \in {"none", "called", "setup"}
  PROVE  BodyInv'
BY DEF BodyInv, bodyVars, Fits

LEMMA OperationBody == ASSUME WebInv, BodyInv, NEW c \in Calls, Operation(c) PROVE BodyInv'
<1>1. /\ task[c] \in {"called", "setup", "read"}
      /\ \A d \in Calls \ {c} : UNCHANGED task[d]
  BY OperationEffect DEF WebInv, ControlOK
<1>2. /\ framing[c] \in Framings /\ wire[c] \in Wire /\ got[c] \in Nat
      /\ Fits(framing[c], wire[c], got[c])
      /\ task[c] \in {"none", "called", "setup"} => framing[c] = Empty
  BY DEF BodyInv
<1>3. CASE Fail(c)
  BY <1>1, <1>3, DropKeeps DEF Fail
<1>4. CASE Begin(c) /\ ~Fail(c)
  <2>1. UNCHANGED bodyVars /\ task[c] = "called"
    BY <1>4 DEF Begin
  <2> QED BY <1>1, <2>1, BodyIdle
<1>5. ASSUME NEW a \in Answers, task[c] = "setup", ReadHead(c, a), ~Fail(c) PROVE BodyInv'
  <2>1. /\ a.ok
        /\ framing' = Set(framing, c, a.framing) /\ wire' = Set(wire, c, a.wire)
        /\ UNCHANGED <<got, short>>
        /\ task' = Set(task, c, IF kind[c] = "buffered" THEN "read" ELSE IF a.null THEN "null" ELSE "ok")
    BY <1>5 DEF ReadHead
  <2>2. task'[c] \in {"read", "null", "ok"}
    BY <2>1 DEF WebInv, ControlOK, Set
  <2>3. got[c] = 0
    <3>1. wire[c].left = 0 /\ wire[c].size = 0
      BY <1>2, <1>5 DEF Fits, Empty, NoWire
    <3> QED BY <1>2, <3>1 DEF Fits
  <2>4. got' = Set(got, c, 0)
    BY <2>1, <2>3 DEF Set, BodyInv
  <2> QED BY <1>1, <2>1, <2>2, <2>4, AnswerFits, BodySuffices
<1>6. ASSUME NEW a \in HealthAnswers, NEW k \in 0 .. a.wire.left, Health(c, a, k), ~Fail(c) PROVE BodyInv'
  <2>1. ~a.chunked /\ a.length \in {NoLength, k} /\ DropBody(c, TRUE, a.wire, k)
    BY <1>6 DEF Health
  <2> QED BY <1>1, <2>1, HealthWhole, DropKeeps
<1>7. ASSUME NEW o \in Reads(framing[c], wire[c], MaxBody), task[c] = "read", ReadBody(c, o), ~Fail(c)
      PROVE  BodyInv'
  <2>1. o.result # "error"
    BY <1>7 DEF ReadBody
  <2>2. CASE o.result = "end"
    <3>1. DropBody(c, TRUE, wire[c], got[c])
      BY <1>7, <2>2 DEF ReadBody
    <3>2. wire[c].close \/ got[c] = wire[c].size
      BY <1>2, <2>1, <2>2, ReadFits
    <3> QED BY <1>1, <3>1, <3>2, DropKeeps
  <2>3. CASE o.result # "end"
    <3>1. Advance(c, o) /\ UNCHANGED task
      BY <1>7, <2>3 DEF ReadBody
    <3>2. /\ o.framing \in Framings /\ o.wire \in Wire /\ o.bytes \in Nat
          /\ Fits(o.framing, o.wire, got[c] + o.bytes)
      BY <1>2, <2>1, <2>3, ReadFits
    <3>3. got[c] + o.bytes \in Nat
      BY <1>2, <3>2
    <3> QED BY <1>1, <1>7, <3>1, <3>2, <3>3, BodySuffices DEF Advance
  <2> QED BY <2>2, <2>3
<1> QED BY <1>3, <1>4, <1>5, <1>6, <1>7 DEF Operation, Begin, Invalid, OperationFails

LEMMA OwnerBody == ASSUME WebInv, BodyInv, NEW c \in Calls, Owner(c) PROVE BodyInv'
<1>1. UNCHANGED task
  BY DEF Owner
<1>2. /\ framing[c] \in Framings /\ wire[c] \in Wire /\ got[c] \in Nat
      /\ Fits(framing[c], wire[c], got[c])
  BY DEF BodyInv
<1>3. task[c] \notin {"none", "called", "setup"}
  <2>1. owner[c] # "none"
    BY OwnerEffect
  <2> QED BY <2>1 DEF WebInv, CallInv, Owned
<1>4. CASE OwnerStops(c)
  <2>1. DropBody(c, FALSE, wire[c], got[c])
    BY <1>4 DEF OwnerStops, OwnerDone
  <2> QED BY <1>1, <2>1, DropKeeps
<1>5. CASE OwnerTakes(c)
  <2>1. CASE IsEmpty(framing[c])
    <3>1. DropBody(c, TRUE, wire[c], got[c])
      BY <1>5, <2>1 DEF OwnerTakes, OwnerDone
    <3> QED BY <1>1, <1>2, <2>1, <3>1, EmptyWhole, DropKeeps
  <2>2. CASE ~IsEmpty(framing[c])
    BY <1>1, <1>5, <2>2, BodyIdle DEF OwnerTakes
  <2> QED BY <2>1, <2>2
<1>6. ASSUME NEW o \in Reads(framing[c], wire[c], MaxSize), OwnerReads(c, o) PROVE BodyInv'
  <2>1. o.result \in {"again", "data", "end", "error"}
    BY ReadResults
  <2>2. CASE o.result = "error"
    <3>1. DropBody(c, FALSE, wire[c], got[c] + o.bytes)
      BY <1>6, <2>2 DEF OwnerReads, OwnerDone
    <3> QED BY <1>1, <3>1, DropKeeps
  <2>3. CASE o.result = "end"
    <3>1. DropBody(c, TRUE, wire[c], got[c] + o.bytes)
      BY <1>6, <2>3 DEF OwnerReads, OwnerDone
    <3>2. o.bytes = 0 /\ (wire[c].close \/ got[c] = wire[c].size)
      BY <1>2, <2>3, ReadFits
    <3>3. got[c] + o.bytes = got[c]
      BY <1>2, <3>2
    <3> QED BY <1>1, <3>1, <3>2, <3>3, DropKeeps
  <2>4. CASE o.result \in {"again", "data"}
    <3>1. /\ o.framing \in Framings /\ o.wire \in Wire /\ o.bytes \in Nat
          /\ o.wire.size = wire[c].size
          /\ Fits(o.framing, o.wire, got[c] + o.bytes)
      BY <1>2, <2>4, ReadFits
    <3>2. got[c] + o.bytes \in Nat
      BY <1>2, <3>1
    <3>3. CASE o.result = "data" /\ IsEmpty(o.framing)
      <4>1. DropBody(c, TRUE, wire[c], got[c] + o.bytes)
        BY <1>6, <3>3 DEF OwnerReads, OwnerDone
      <4>2. got[c] + o.bytes = wire[c].size
        BY <3>1, <3>2, <3>3, EmptyWhole
      <4> QED BY <1>1, <4>1, <4>2, DropKeeps
    <3>4. CASE ~(o.result = "data" /\ IsEmpty(o.framing))
      <4>1. Advance(c, o)
        BY <1>6, <2>4, <3>4 DEF OwnerReads
      <4> QED BY <1>1, <1>3, <3>1, <3>2, <4>1, BodySuffices DEF Advance
    <3> QED BY <3>3, <3>4
  <2> QED BY <2>1, <2>2, <2>3, <2>4
<1> QED BY <1>4, <1>5, <1>6 DEF Owner

-----------------------------------------------------------------------------

\* Every step keeps the invariant: a body is freed after its last borrower, and
\* close() waits for every stream that it finds open.
THEOREM WebTheorem == Spec => []WebInv
<1>1. WebInv /\ [Next]_vars => WebInv'
  <2> SUFFICES ASSUME WebInv, [Next]_vars PROVE WebInv'
    OBVIOUS
  <2>1. CASE UNCHANGED vars
    BY <2>1 DEF vars, clientVars, jsVars, WebInv, ControlOK, CallInv, Unsettled, Readable,
                Answering, Borrowed, Owned, CloseInv, ConnectInv
  <2>2. CASE ClientStep \/ Abandon
    BY <2>2, ClientKeeps
  <2>3. CASE Close
    BY <2>3, CloseKeeps
  <2>4. ASSUME NEW c \in Calls, Call(c) \/ Operation(c) \/ Owner(c) \/ Page(c) PROVE WebInv'
    BY <2>4, CallKeeps, OperationKeeps, OwnerKeeps, PageKeeps
  <2> QED BY <2>1, <2>2, <2>3, <2>4 DEF Next
<1> QED BY <1>1, InitWeb, PTL DEF Spec

\* release() never frees a response that a pending next() or finish() of the
\* JavaScript wrapper still borrows.
THEOREM FreeTheorem == Spec => []FreedUnborrowed
<1>1. WebInv => FreedUnborrowed
  BY DEF WebInv, CallInv, Borrowed, FreedUnborrowed
<1> QED BY <1>1, WebTheorem, PTL

\* A resolved LochoClient.close() leaves no handed-out body with a permit or a
\* running owner task, and a rejected connect leaves no open session.
THEOREM CloseTheorem == Spec => []CloseReleases
<1>1. WebInv => CloseReleases
  BY DEF WebInv, CallInv, Owned, CloseInv, ConnectInv, CloseReleases
<1> QED BY <1>1, WebTheorem, PTL

\* Every reader stands where its upstream does: the framing a response announced,
\* the lines that were read and the bytes that were handed on agree.
THEOREM BodyTheorem == Spec => []BodyInv
<1>1. Init => BodyInv
  <2>1. Empty \in Framings /\ NoWire \in Wire
    BY WebAssumption DEF Empty, Framings, NoWire, Wire
  <2>2. Fits(Empty, NoWire, 0)
    BY DEF Fits, Empty, NoWire
  <2> QED BY <2>1, <2>2 DEF Init, BodyInv
<1>2. WebInv /\ BodyInv /\ [Next]_vars => BodyInv'
  <2> SUFFICES ASSUME WebInv, BodyInv, [Next]_vars PROVE BodyInv'
    OBVIOUS
  <2>1. CASE UNCHANGED vars \/ ClientStep \/ Abandon \/ Close
    <3>1. UNCHANGED <<task, bodyVars>>
      BY <2>1 DEF vars, ClientStep, Abandon, Close, bodyVars
    <3> QED BY <3>1, BodyIdle
  <2>2. ASSUME NEW c \in Calls, Call(c) \/ Page(c) PROVE BodyInv'
    <3>1. UNCHANGED bodyVars
      BY <2>2 DEF Call, Page
    <3>2. UNCHANGED task \/ (call[c] = "idle" /\ task' = Set(task, c, "called"))
      BY <2>2 DEF Call, Page
    <3>3. \A d \in Calls : task'[d] = task[d] \/ task[d] = "none"
      BY <3>2 DEF Set, WebInv, ControlOK, CallInv, Owned
    <3> QED BY <3>1, <3>3, BodyIdle
  <2>3. ASSUME NEW c \in Calls, Operation(c) \/ Owner(c) PROVE BodyInv'
    BY <2>3, OperationBody, OwnerBody
  <2> QED BY <2>1, <2>2, <2>3 DEF Next
<1> QED BY <1>1, <1>2, WebTheorem, PTL DEF Spec

\* A response that Body::next or health ends without an error was handed on whole
\* and in order, for bodies and chunks of every size: only one framed by the end of
\* its stream may be short.
THEOREM WholeTheorem == Spec => []BodyWhole
<1>1. BodyInv => BodyWhole
  BY DEF BodyInv, Fits, BodyWhole
<1> QED BY <1>1, BodyTheorem, PTL

\* The abort signals and the error cells are flags.
FlagsOK ==
  /\ shutdown \in BOOLEAN /\ quit \in BOOLEAN
  /\ token \in [Calls -> BOOLEAN] /\ aborted \in [Calls -> BOOLEAN] /\ failure \in [Calls -> BOOLEAN]

\* A step changes flags by setting or clearing those of one call, or by setting
\* those of all streams.
LEMMA FlagsKeep == ASSUME FlagsOK, [Next]_vars PROVE FlagsOK'
<1> USE DEF FlagsOK
<1>0. ASSUME NEW f \in [Calls -> BOOLEAN], NEW c \in Calls, NEW b \in BOOLEAN
      PROVE  Set(f, c, b) \in [Calls -> BOOLEAN]
  BY <1>0 DEF Set
<1>1. CASE UNCHANGED vars
  BY <1>1 DEF vars, clientVars
<1>2. CASE ClientStep \/ Abandon
  <2>1. UNCHANGED <<token, aborted, failure>>
    BY <1>2 DEF ClientStep, Abandon
  <2>2. shutdown' \in BOOLEAN /\ quit' \in BOOLEAN
    BY <1>2 DEF ClientStep, Abandon, Bind, WaitConnected, Connected, Undone, SessionCloses,
                RawClose, CloseSettles
  <2> QED BY <2>1, <2>2
<1>3. CASE Close
  <2>1. token' = [c \in Calls |-> token[c] \/ c \in Streams]
        /\ UNCHANGED <<shutdown, quit, aborted, failure>>
    BY <1>3 DEF Close
  <2>2. token' \in [Calls -> BOOLEAN]
    BY <2>1, Zenon
  <2> QED BY <2>1, <2>2
<1>4. ASSUME NEW c \in Calls, Call(c) \/ Operation(c) PROVE FlagsOK'
  BY <1>4 DEF Call, Operation, clientVars
<1>5. ASSUME NEW c \in Calls, Owner(c) PROVE FlagsOK'
  <2>1. UNCHANGED <<shutdown, quit, token, aborted>>
    BY <1>5 DEF Owner, clientVars
  <2>2. UNCHANGED failure \/ \E b \in BOOLEAN : failure' = Set(failure, c, b)
    BY <1>5 DEF Owner, OwnerStops, OwnerTakes, OwnerReads, OwnerDone
  <2> QED BY <1>0, <2>1, <2>2
<1>6. ASSUME NEW c \in Calls, Page(c) PROVE FlagsOK'
  <2>1. UNCHANGED <<shutdown, quit, failure>>
    BY <1>6 DEF Page, clientVars
  <2>2. /\ UNCHANGED token \/ token' = Set(token, c, TRUE)
        /\ UNCHANGED aborted \/ aborted' = Set(aborted, c, TRUE)
    BY <1>6 DEF Page, Script, Settle, Refuse, Pulled, StopPulled, StopFinished, Pull, Abort, Cancel,
                Release, jsVars
  <2> QED BY <1>0, <2>1, <2>2
<1> QED
  BY <1>1, <1>2, <1>3, <1>4, <1>5, <1>6 DEF Next

\* Type correctness of the browser client, the sizes of bodies included.
THEOREM WebTypeCorrect == Spec => []TypeOK
<1>1. Init => FlagsOK
  <2> SUFFICES ASSUME Init PROVE FlagsOK
    OBVIOUS
  <2>1. token \in [Calls -> BOOLEAN] /\ aborted \in [Calls -> BOOLEAN] /\ failure \in [Calls -> BOOLEAN]
    BY Zenon DEF Init
  <2>2. shutdown \in BOOLEAN /\ quit \in BOOLEAN
    BY DEF Init
  <2> QED BY <2>1, <2>2 DEF FlagsOK
<1>2. WebInv /\ BodyInv /\ FlagsOK => TypeOK
  <2> SUFFICES ASSUME WebInv, BodyInv, FlagsOK PROVE TypeOK
    OBVIOUS
  <2>1. short \in [Calls -> BOOLEAN]
    BY Zenon DEF BodyInv
  <2>2. got \in [Calls -> 0 .. MaxSize]
    <3>1. ASSUME NEW c \in Calls PROVE got[c] \in 0 .. MaxSize
      <4>1. /\ got[c] \in Nat /\ wire[c].left \in 0 .. MaxSize /\ wire[c].size \in 0 .. MaxSize
            /\ got[c] + wire[c].left = wire[c].size /\ MaxSize \in Nat
        BY WebAssumption DEF BodyInv, Fits, Wire
      <4> QED BY <4>1
    <3> QED BY <3>1 DEF BodyInv
  <2> QED BY <2>1, <2>2 DEF WebInv, ControlOK, BodyInv, FlagsOK, TypeOK
<1>3. FlagsOK /\ [Next]_vars => FlagsOK'
  BY FlagsKeep
<1> QED
  BY <1>1, <1>2, <1>3, WebTheorem, BodyTheorem, PTL DEF Spec
=============================================================================
