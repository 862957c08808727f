---------------------------- MODULE TunnelProofs ----------------------------
(***************************************************************************)
(* Proofs about one stream of a peer connection, for every body limit,     *)
(* chunk length, window, body size and idle timeout.                       *)
(*                                                                         *)
(* What is in flight in a direction is a sequence of pieces, and the sum   *)
(* of its pieces would be a recursive function. A Trail avoids it: it      *)
(* exhibits the partial sums, from what has been taken out of the pipe to  *)
(* what has been put into it. Append and Tail extend and shift the trail.  *)
(***************************************************************************)
EXTENDS Tunnel, SequenceTheorems, TLAPS

\* Reading the pieces of s one by one leads from `from` to `to`.
Trail(s, from, to) ==
  \E f \in [0 .. Len(s) -> 0 .. to] :
    f[0] = from /\ f[Len(s)] = to /\ \A i \in 1 .. Len(s) : f[i] = f[i - 1] + s[i]

\* The type invariant without the bounds that follow from the flow of bytes.
HttpShape ==
  /\ req \in BodyType /\ resp \in BodyType /\ alive \in BOOLEAN
  /\ attach \in {"idle", "acquire", "body", "write", "end", "await", "stream", "done"}
  /\ written \in Nat /\ frame \in 0 .. MaxFrame
  /\ up \in Seq(0 .. MaxFrame)
  /\ upEnd \in {"open", "finished", "stopped"}
  /\ host \in {"none", "validate", "send", "join", "respond", "failed", "body", "done"}
  /\ upload \in {"none", "running", "done", "failed", "over", "aborted"}
  /\ passed \in Nat /\ total \in Nat
  /\ seen \in {"open", "complete", "cut"}
  /\ reply \in Heads \cup {"none"} /\ down \in Seq(0 .. MaxFrame)
  /\ downEnd \in {"open", "finished", "stopped"}
  /\ status \in Heads \cup {"none", "503"}
  /\ got \in Nat /\ local \in {"open", "complete", "cut"}

\* The attachment's side of the request body: what it has taken and not yet
\* written is one frame, and the end frame comes last, after the whole body.
SendInv ==
  /\ attach \in {"idle", "acquire"} => host = "none"
  /\ attach \in {"acquire", "body", "end", "await", "stream"} => frame = 0
  /\ attach = "write" => frame > 0
  /\ frame <= written /\ written <= req.size
  /\ attach = "end" => written = req.size /\ ~req.declared
  /\ \A i \in 1 .. Len(up) :
       up[i] = 0 => /\ i = Len(up) /\ ~req.declared /\ written = req.size /\ frame = 0
                    /\ attach \in {"await", "stream", "done"}

\* The host's side: nothing is lost between the two while the body task reads,
\* and what the host answers depends on how that task ended.
PassInv ==
  /\ host \in {"none", "validate"} => upload = "none" /\ seen = "open"
  /\ host # "none" => ~(req.declared /\ req.size > MaxBody)
  /\ upload \in {"none", "running"} => Trail(up, passed, written - frame)
  /\ upload = "done" => passed = req.size
  /\ upload = "none" /\ host \in {"send", "join", "respond", "body"} => req.size = 0
  /\ upload = "over" => req.size > MaxBody
  /\ host \in {"respond", "body"} => upload \in {"none", "done"}
  /\ passed <= MaxBody
  /\ seen = "complete" => upload # "running" /\ (req.declared => passed = req.size)
  /\ reply = "upstream" => host \in {"body", "done"} /\ passed = req.size /\ upload # "running"
  /\ reply = "413" => req.size > MaxBody
  /\ status = "upstream" => reply = "upstream"
  /\ status = "413" => req.size > MaxBody

\* The response: nothing is lost between the host and the local client, and
\* the end frame comes last, after the whole body.
ReceiveInv ==
  /\ Trail(down, got, total)
  /\ total <= MaxBody /\ total <= resp.size
  /\ \A i \in 1 .. Len(down) :
       down[i] = 0 => i = Len(down) /\ host = "done" /\ total = resp.size
  /\ local = "complete" => attach = "done" /\ (status = "upstream" => got = resp.size)

HttpInv == HttpShape /\ SendInv /\ PassInv /\ ReceiveInv

\* The age of `activity` is the time no byte has moved, and the sleep never
\* lasts beyond the end of the idle period.
IdleInv ==
  /\ RelayTypeOK
  /\ idle = quiet
  /\ timer + idle <= IdleTimeout
  /\ relay = "expired" => policy /\ idle >= IdleTimeout

-----------------------------------------------------------------------------
(* Trails.                                                                 *)

\* An empty pipe: all that was put in has been taken out.
LEMMA TrailEmpty ==
  ASSUME NEW n \in Nat
  PROVE  Trail(<<>>, n, n)
<1> DEFINE f == [i \in {0} |-> n]
<1>1. Len(<<>>) = 0 /\ 0 .. 0 = {0} /\ 1 .. 0 = {}
  OBVIOUS
<1>2. f \in [0 .. 0 -> 0 .. n] /\ f[0] = n
  BY <1>1
<1> QED
  BY <1>1, <1>2 DEF Trail

\* What was taken out was put in.
LEMMA TrailBounds ==
  ASSUME NEW s \in Seq(Nat), NEW from \in Nat, NEW to \in Nat, Trail(s, from, to)
  PROVE  from <= to
<1>1. PICK f \in [0 .. Len(s) -> 0 .. to] : f[0] = from
  BY DEF Trail
<1>2. 0 \in 0 .. Len(s)
  OBVIOUS
<1>3. f[0] \in 0 .. to
  BY <1>1, <1>2
<1> QED BY <1>1, <1>3

\* A piece is put in at the end.
LEMMA TrailAppend ==
  ASSUME NEW s \in Seq(Nat), NEW from \in Nat, NEW to \in Nat, NEW n \in Nat, Trail(s, from, to)
  PROVE  Trail(Append(s, n), from, to + n)
<1>1. PICK f \in [0 .. Len(s) -> 0 .. to] :
        f[0] = from /\ f[Len(s)] = to /\ \A i \in 1 .. Len(s) : f[i] = f[i - 1] + s[i]
  BY DEF Trail
<1> DEFINE t == Append(s, n)
           g == [i \in 0 .. Len(s) + 1 |-> IF i = Len(s) + 1 THEN to + n ELSE f[i]]
<1>2. Len(s) \in Nat /\ Len(t) = Len(s) + 1 /\ t[Len(s) + 1] = n /\ \A i \in 1 .. Len(s) : t[i] = s[i]
  OBVIOUS
<1>3. g \in [0 .. Len(s) + 1 -> 0 .. to + n]
  BY <1>1, <1>2
<1>4. g[0] = from /\ g[Len(s) + 1] = to + n
  BY <1>1, <1>2
<1>5. ASSUME NEW i \in 1 .. Len(s) + 1 PROVE g[i] = g[i - 1] + t[i]
  <2>1. CASE i = Len(s) + 1
    <3>1. g[i] = to + n /\ g[i - 1] = to /\ t[i] = n
      BY <1>1, <1>2, <2>1
    <3> QED BY <3>1
  <2>2. CASE i \in 1 .. Len(s)
    <3>1. g[i] = f[i] /\ g[i - 1] = f[i - 1] /\ t[i] = s[i]
      BY <1>2, <2>2
    <3> QED BY <1>1, <2>2, <3>1
  <2> QED BY <1>2, <2>1, <2>2
<1> HIDE DEF g, t
<1>6. Trail(t, from, to + n)
  BY <1>2, <1>3, <1>4, <1>5 DEF Trail
<1> QED
  BY <1>6 DEF t

\* The first piece is taken out; the last one leaves nothing in the pipe.
LEMMA TrailTail ==
  ASSUME NEW s \in Seq(Nat), NEW from \in Nat, NEW to \in Nat, Trail(s, from, to), s # <<>>
  PROVE  /\ Trail(Tail(s), from + Head(s), to) /\ from + Head(s) <= to
         /\ Len(s) = 1 => from + Head(s) = to
<1>1. PICK f \in [0 .. Len(s) -> 0 .. to] :
        f[0] = from /\ f[Len(s)] = to /\ \A i \in 1 .. Len(s) : f[i] = f[i - 1] + s[i]
  BY DEF Trail
<1> DEFINE t == Tail(s)
           g == [i \in 0 .. Len(s) - 1 |-> f[i + 1]]
<1>2. /\ Len(s) \in Nat \ {0} /\ Len(t) = Len(s) - 1 /\ Head(s) = s[1] /\ s[1] \in Nat
      /\ \A i \in 1 .. Len(s) - 1 : t[i] = s[i + 1]
  <2>1. Len(s) \in Nat \ {0} /\ Head(s) = s[1] /\ s[1] \in Nat
    OBVIOUS
  <2>2. t \in Seq(Nat) /\ Len(t) = Len(s) - 1
    OBVIOUS
  <2>3. \A i \in 1 .. Len(s) - 1 : t[i] = s[i + 1]
    OBVIOUS
  <2> QED BY <2>1, <2>2, <2>3
<1>3. f[1] = from + Head(s) /\ f[1] \in 0 .. to
  <2>1. 1 \in 1 .. Len(s) /\ 1 \in 0 .. Len(s) /\ 1 - 1 = 0
    BY <1>2
  <2>2. f[1] = f[1 - 1] + s[1] /\ f[1] \in 0 .. to
    BY <1>1, <2>1
  <2> QED BY <1>1, <1>2, <2>1, <2>2
<1>4. g \in [0 .. Len(s) - 1 -> 0 .. to]
  <2>1. \A i \in 0 .. Len(s) - 1 : i + 1 \in 0 .. Len(s)
    BY <1>2
  <2> QED BY <1>1, <2>1
<1>5. g[0] = from + Head(s) /\ g[Len(s) - 1] = to
  BY <1>1, <1>2, <1>3
<1>6. ASSUME NEW i \in 1 .. Len(s) - 1 PROVE g[i] = g[i - 1] + t[i]
  <2>1. g[i] = f[i + 1] /\ g[i - 1] = f[i] /\ t[i] = s[i + 1]
    BY <1>2
  <2>2. f[i + 1] = f[(i + 1) - 1] + s[i + 1] /\ (i + 1) - 1 = i
    BY <1>1, <1>2
  <2> QED BY <2>1, <2>2
<1>7. Len(s) = 1 => from + Head(s) = to
  BY <1>1, <1>3
<1> HIDE DEF g, t
<1>8. Trail(t, from + Head(s), to)
  BY <1>2, <1>4, <1>5, <1>6 DEF Trail
<1> QED
  BY <1>3, <1>7, <1>8 DEF t

-----------------------------------------------------------------------------
(* The HTTP request.                                                       *)

\* Bodies have a size and may declare it; pieces are numbers.
LEMMA BodyFacts ==
  ASSUME HttpShape
  PROVE  /\ req.size \in Nat /\ req.declared \in BOOLEAN /\ req.size <= MaxSize
         /\ resp.size \in Nat /\ resp.declared \in BOOLEAN /\ resp.size <= MaxSize
         /\ frame \in Nat /\ frame <= MaxFrame
         /\ up \in Seq(Nat) /\ down \in Seq(Nat) /\ Len(up) \in Nat /\ Len(down) \in Nat
         /\ MaxBody \in Nat /\ MaxFrame \in Nat
<1>1. MaxBody \in Nat /\ MaxFrame \in Nat /\ MaxSize \in Nat
  BY TunnelAssumption
<1>2. /\ req.size \in 0 .. MaxSize /\ req.declared \in BOOLEAN
      /\ resp.size \in 0 .. MaxSize /\ resp.declared \in BOOLEAN
  BY DEF HttpShape, BodyType
<1>3. up \in Seq(0 .. MaxFrame) /\ down \in Seq(0 .. MaxFrame) /\ frame \in 0 .. MaxFrame
  BY DEF HttpShape
<1>4. ASSUME NEW s \in Seq(0 .. MaxFrame) PROVE s \in Seq(Nat) /\ Len(s) \in Nat
  <2>1. 0 .. MaxFrame \subseteq Nat
    BY <1>1
  <2> QED BY <2>1, SeqMonotonic, LenProperties
<1> QED
  BY <1>1, <1>2, <1>3, <1>4

\* The exchange ends for the attachment: with a status of its own, or cut off.
LEMMA AttachmentEnds ==
  ASSUME HttpInv, AttachDrops,
         UNCHANGED <<fixed, alive, written, frame, forward, up, reply, down, got>>,
         \/ UNCHANGED status /\ local' = "cut"
         \/ /\ status' \in {"413", "502", "503", "504"} /\ local' = "complete"
            /\ status' = "413" => req.size > MaxBody
  PROVE  HttpInv'
<1> USE DEF HttpInv, AttachDrops, fixed, forward
<1>1. HttpShape'
  BY DEF HttpShape, Heads
<1>2. SendInv'
  BY DEF SendInv
<1>3. PassInv'
  BY DEF PassInv
<1>4. ReceiveInv'
  BY DEF ReceiveInv
<1> QED
  BY <1>1, <1>2, <1>3, <1>4

\* The exchange ends for the host, with an answer or without one.
LEMMA HostTaskEnds ==
  ASSUME HttpInv, HostDrops, host \notin {"none", "done"},
         UNCHANGED <<fixed, alive, request, passed, up, total, down, answer>>,
         \/ UNCHANGED reply
         \/ /\ reply' \in {"refused", "413", "502", "504"} /\ host # "body"
            /\ reply' = "413" => req.size > MaxBody
  PROVE  HttpInv'
<1> USE DEF HttpInv, HostDrops, fixed, request, answer
<1>1. HttpShape'
  BY DEF HttpShape, Heads
<1>2. SendInv'
  BY DEF SendInv
<1>3. PassInv'
  BY DEF PassInv
<1>4. ReceiveInv'
  BY DEF ReceiveInv
<1> QED
  BY <1>1, <1>2, <1>3, <1>4

\* Every step of the attachment keeps the flow of both bodies.
LEMMA AttachKeeps ==
  ASSUME HttpInv, AttachStep
  PROVE  HttpInv'
<1>0. /\ req.size \in Nat /\ req.declared \in BOOLEAN
      /\ resp.size \in Nat /\ resp.declared \in BOOLEAN
      /\ frame \in Nat /\ frame <= MaxFrame /\ passed \in Nat /\ written \in Nat
      /\ up \in Seq(Nat) /\ down \in Seq(Nat) /\ Len(up) \in Nat /\ Len(down) \in Nat
      /\ MaxBody \in Nat /\ MaxFrame \in Nat /\ ChunkLen \in Nat \ {0}
  BY BodyFacts, TunnelAssumption DEF HttpInv, HttpShape
<1> USE DEF HttpInv, fixed, request, forward, pipes, answer
<1>1. ASSUME NEW code \in {"502", "503", "504"}, Fail(code) PROVE HttpInv'
  BY <1>1, AttachmentEnds DEF Fail
<1>2. ASSUME Fail("413"), req.size > MaxBody PROVE HttpInv'
  BY <1>2, AttachmentEnds DEF Fail
<1>3. ASSUME CutLocal PROVE HttpInv'
  BY <1>3, AttachmentEnds DEF CutLocal
<1>4. CASE Unavailable       BY <1>1, <1>4 DEF Unavailable
<1>5. CASE OpenFails         BY <1>1, <1>2, <1>5 DEF OpenFails
<1>6. CASE WriteHead
  <2>0. host = "none"  BY <1>6 DEF WriteHead, SendInv
  <2>1. HttpShape'     BY <1>6 DEF WriteHead, HttpShape
  <2>2. SendInv'       BY <1>6 DEF WriteHead, SendInv
  <2>3. PassInv'       BY <1>6, <2>0 DEF WriteHead, PassInv
  <2>4. ReceiveInv'    BY <1>6, <2>0 DEF WriteHead, ReceiveInv
  <2> QED BY <2>1, <2>2, <2>3, <2>4
<1>7. ASSUME NEW n \in 1 .. MaxFrame, TakeFrame(n) PROVE HttpInv'
  <2>1. CASE ~req.declared /\ written + n > MaxBody
    <3>1. Fail("413") /\ req.size > MaxBody
      BY <1>0, <1>7, <2>1 DEF TakeFrame
    <3> QED BY <1>2, <3>1
  <2>2. CASE ~(~req.declared /\ written + n > MaxBody)
    <3>0. /\ attach = "body" /\ frame = 0 /\ written' = written + n /\ frame' = n
          /\ written + n <= req.size /\ UNCHANGED <<req, up>>
      BY <1>7, <2>2 DEF TakeFrame, SendInv, fixed, pipes
    <3>1. frame = 0 /\ written' - frame' = written - frame /\ frame' <= written'
      BY <1>0, <3>0
    <3>2. HttpShape'
      <4>1. written' \in Nat /\ frame' \in 0 .. MaxFrame /\ attach' = "write"
        BY <1>0, <1>7, <2>2, <3>0 DEF TakeFrame
      <4> QED BY <1>7, <2>2, <4>1 DEF TakeFrame, HttpShape
    <3>3. SendInv'
      <4>1. \A i \in 1 .. Len(up') : up'[i] # 0
        BY <3>0 DEF SendInv
      <4>2. attach' = "write" /\ frame' > 0
        BY <1>0, <1>7, <2>2, <3>0 DEF TakeFrame
      <4> QED BY <1>0, <3>0, <3>1, <4>1, <4>2 DEF SendInv
    <3>4. PassInv'     BY <1>7, <2>2, <3>1 DEF TakeFrame, PassInv
    <3>5. ReceiveInv'  BY <1>7, <2>2 DEF TakeFrame, ReceiveInv
    <3> QED BY <3>2, <3>3, <3>4, <3>5
  <2> QED BY <2>1, <2>2
<1>8. CASE BodyEnds
  <2>1. HttpShape'   BY <1>8 DEF BodyEnds, HttpShape
  <2>2. SendInv'     BY <1>8 DEF BodyEnds, SendInv
  <2>3. PassInv'     BY <1>8 DEF BodyEnds, PassInv
  <2>4. ReceiveInv'  BY <1>8 DEF BodyEnds, ReceiveInv
  <2> QED BY <2>1, <2>2, <2>3, <2>4
<1>9. CASE BodyFails         BY <1>1, <1>9 DEF BodyFails
<1>10. CASE WritePiece
  <2>1. /\ frame > 0 /\ Piece \in 1 .. MaxFrame /\ Piece <= frame
        /\ written - frame \in Nat /\ written - frame' = (written - frame) + Piece
        /\ frame' \in 0 .. MaxFrame /\ frame' <= written
        /\ frame = Piece <=> frame' = 0
    BY <1>0, <1>10 DEF WritePiece, Piece, SendInv
  <2>2. up' = Append(up, Piece) /\ up' \in Seq(0 .. MaxFrame)
    BY <1>0, <1>10, <2>1 DEF WritePiece, HttpShape
  <2>3. Len(up') = Len(up) + 1 /\ \A i \in 1 .. Len(up') : up'[i] # 0
    <3>1. /\ Len(up') = Len(up) + 1 /\ up'[Len(up) + 1] = Piece
          /\ \A i \in 1 .. Len(up) : up'[i] = up[i]
      BY <1>0, <2>1, <2>2
    <3>2. \A i \in 1 .. Len(up) : up[i] # 0
      BY <1>10 DEF WritePiece, SendInv
    <3>3. \A i \in 1 .. Len(up') : i \in 1 .. Len(up) \/ i = Len(up) + 1
      BY <1>0, <3>1
    <3> QED BY <2>1, <3>1, <3>2, <3>3
  <2>4. upload \in {"none", "running"} => Trail(up', passed, written - frame')
    <3>1. upload \in {"none", "running"} => Trail(Append(up, Piece), passed, (written - frame) + Piece)
      BY <1>0, <2>1, TrailAppend DEF PassInv
    <3> QED BY <2>1, <2>2, <3>1
  <2>5. HttpShape'   BY <1>10, <2>1, <2>2 DEF WritePiece, HttpShape
  <2>6. SendInv'     BY <1>0, <1>10, <2>1, <2>3 DEF WritePiece, SendInv
  <2>7. PassInv'     BY <1>10, <2>4 DEF WritePiece, PassInv
  <2>8. ReceiveInv'  BY <1>10 DEF WritePiece, ReceiveInv
  <2> QED BY <2>5, <2>6, <2>7, <2>8
<1>11. CASE WriteEnd
  <2>1. frame = 0 /\ written = req.size /\ ~req.declared
    BY <1>11 DEF WriteEnd, SendInv
  <2>2. up' = Append(up, 0) /\ up' \in Seq(0 .. MaxFrame)
    BY <1>0, <1>11 DEF WriteEnd, HttpShape
  <2>3. Len(up') = Len(up) + 1 /\ \A i \in 1 .. Len(up') : up'[i] = 0 => i = Len(up')
    <3>1. Len(up') = Len(up) + 1 /\ \A i \in 1 .. Len(up) : up'[i] = up[i]
      BY <1>0, <2>2
    <3>2. \A i \in 1 .. Len(up) : up[i] # 0
      BY <1>11 DEF WriteEnd, SendInv
    <3>3. \A i \in 1 .. Len(up') : i \in 1 .. Len(up) \/ i = Len(up')
      BY <1>0, <3>1
    <3> QED BY <3>1, <3>2, <3>3
  <2>4. upload \in {"none", "running"} => Trail(up', passed, written - frame)
    <3>1. written - frame \in Nat /\ (written - frame) + 0 = written - frame
      BY <1>0, <2>1
    <3> QED BY <1>0, <2>2, <3>1, TrailAppend DEF PassInv
  <2>5. HttpShape'   BY <1>11, <2>2 DEF WriteEnd, HttpShape
  <2>6. SendInv'     BY <1>11, <2>1, <2>3 DEF WriteEnd, SendInv
  <2>7. PassInv'     BY <1>11, <2>4 DEF WriteEnd, PassInv
  <2>8. ReceiveInv'  BY <1>11 DEF WriteEnd, ReceiveInv
  <2> QED BY <2>5, <2>6, <2>7, <2>8
<1>12. CASE WriteFails        BY <1>1, <1>12 DEF WriteFails
<1>13. CASE ReadResponse
  <2>1. HttpShape'   BY <1>13 DEF ReadResponse, HttpShape
  <2>2. SendInv'     BY <1>13 DEF ReadResponse, SendInv
  <2>3. PassInv'     BY <1>13 DEF ReadResponse, PassInv
  <2>4. ReceiveInv'  BY <1>13 DEF ReadResponse, ReceiveInv
  <2> QED BY <2>1, <2>2, <2>3, <2>4
<1>14. CASE ResponseTimesOut  BY <1>1, <1>14 DEF ResponseTimesOut
<1>15. CASE ResponseFails     BY <1>1, <1>15 DEF ResponseFails
<1>16. CASE BodyComplete
  <2> USE DEF AttachDrops
  <2>1. /\ down' \in Seq(0 .. MaxFrame) /\ Trail(down', got, total)
        /\ \A i \in 1 .. Len(down') :
             down'[i] = 0 => i = Len(down') /\ host = "done" /\ total = resp.size
        /\ status = "upstream" => got = resp.size
    <3>1. CASE Declared /\ got = Length /\ down' = down
      BY <3>1 DEF Declared, Length, HttpShape, ReceiveInv
    <3>2. CASE down # <<>> /\ Head(down) = 0 /\ down' = Tail(down)
      <4>1. Len(down) > 0 /\ down[1] = 0
        <5>1. Len(down) # 0 /\ Head(down) = down[1]
          BY <1>0, <3>2
        <5> QED BY <1>0, <3>2, <5>1
      <4>2. Len(down) = 1 /\ total = resp.size /\ host = "done"
        <5>1. 1 \in 1 .. Len(down)
          BY <1>0, <4>1
        <5> QED BY <4>1, <5>1 DEF ReceiveInv
      <4>3. got \in Nat /\ total \in Nat /\ got + 0 = got
        BY DEF HttpShape
      <4>4. Trail(down', got, total) /\ got = total
        BY <1>0, <3>2, <4>2, <4>3, TrailTail DEF ReceiveInv
      <4>5. down' \in Seq(0 .. MaxFrame) /\ Len(down') = 0
        BY <1>0, <3>2, <4>2 DEF HttpShape
      <4> QED BY <4>2, <4>4, <4>5
    <3> QED BY <1>16, <3>1, <3>2 DEF BodyComplete
  <2>2. HttpShape'   BY <1>16, <2>1 DEF BodyComplete, HttpShape
  <2>3. SendInv'     BY <1>16 DEF BodyComplete, SendInv
  <2>4. PassInv'     BY <1>16 DEF BodyComplete, PassInv
  <2>5. ReceiveInv'  BY <1>16, <2>1 DEF BodyComplete, ReceiveInv
  <2> QED BY <2>2, <2>3, <2>4, <2>5
<1>17. CASE ReadPiece
  <2>1. CASE ~Declared /\ Head(down) > ChunkLen
    BY <1>3, <1>17, <2>1 DEF ReadPiece
  <2>2. CASE ~(~Declared /\ Head(down) > ChunkLen)
    <3>1. down # <<>> /\ down' = Tail(down) /\ got' = got + Head(down)
      BY <1>17, <2>2 DEF ReadPiece
    <3>2. got \in Nat /\ total \in Nat /\ Head(down) \in Nat
      BY <1>0, <3>1 DEF HttpShape
    <3>3. Trail(down', got', total)
      BY <1>0, <3>1, <3>2, TrailTail DEF ReceiveInv
    <3>4. down' \in Seq(0 .. MaxFrame) /\ got' \in Nat
      BY <1>0, <3>1, <3>2 DEF HttpShape
    <3>5. Len(down') = Len(down) - 1 /\ \A i \in 1 .. Len(down') : down'[i] = down[i + 1]
      BY <1>0, <3>1
    <3>6. \A i \in 1 .. Len(down') :
            down'[i] = 0 => i = Len(down') /\ host = "done" /\ total = resp.size
      <4>1. \A i \in 1 .. Len(down') : i + 1 \in 1 .. Len(down) /\ (i + 1 = Len(down) => i = Len(down'))
        BY <1>0, <3>5
      <4> QED BY <3>5, <4>1 DEF ReceiveInv
    <3>7. HttpShape'   BY <1>17, <2>2, <3>4 DEF ReadPiece, HttpShape
    <3>8. SendInv'     BY <1>17, <2>2 DEF ReadPiece, SendInv
    <3>9. PassInv'     BY <1>17, <2>2 DEF ReadPiece, PassInv
    <3>10. ReceiveInv' BY <1>17, <2>2, <3>3, <3>6 DEF ReadPiece, ReceiveInv
    <3> QED BY <3>7, <3>8, <3>9, <3>10
  <2> QED BY <2>1, <2>2
<1>18. CASE ReadFails         BY <1>3, <1>18 DEF ReadFails
<1>19. CASE ReadTimesOut      BY <1>3, <1>19 DEF ReadTimesOut
<1>20. CASE LocalGone         BY <1>3, <1>20 DEF LocalGone
<1> QED
  BY <1>4, <1>5, <1>6, <1>7, <1>8, <1>9, <1>10, <1>11, <1>12, <1>13, <1>14, <1>15, <1>16, <1>17,
     <1>18, <1>19, <1>20
  DEF AttachStep

\* The body task takes the first piece: it is passed on, or it is too large.
LEMMA UploadKeeps ==
  ASSUME HttpInv, UploadPiece
  PROVE  HttpInv'
<1>0. /\ req.size \in Nat /\ req.declared \in BOOLEAN
      /\ frame \in Nat /\ passed \in Nat /\ written \in Nat
      /\ up \in Seq(Nat) /\ Len(up) \in Nat /\ MaxBody \in Nat /\ ChunkLen \in Nat
  BY BodyFacts, TunnelAssumption DEF HttpInv, HttpShape
<1> DEFINE n == Head(up)
           fate == IF ~req.declared /\ n > ChunkLen THEN "failed"
                   ELSE IF ~req.declared /\ HostOver(n) THEN "over"
                   ELSE IF n = 0 \/ (req.declared /\ passed + n = req.size) THEN "done"
                   ELSE "running"
<1> USE DEF HttpInv, fixed, request, answer
<1>1. /\ upload = "running" /\ up # <<>> /\ up' = Tail(up) /\ upload' = fate
      /\ passed' = IF fate \in {"running", "done"} THEN passed + n ELSE passed
      /\ upEnd' \in {"stopped", upEnd}
      /\ UNCHANGED <<req, resp, alive, attach, written, frame, host, seen, total, reply, down,
                     downEnd, status, got, local>>
  BY DEF UploadPiece, UploadEnds
<1>2. /\ n \in Nat /\ n = up[1] /\ Len(up) # 0 /\ 1 \in 1 .. Len(up)
      /\ Len(up') = Len(up) - 1 /\ \A i \in 1 .. Len(up') : up'[i] = up[i + 1]
  BY <1>0, <1>1
<1>3. up' \in Seq(0 .. MaxFrame)
  BY <1>1 DEF HttpShape
<1>4. written - frame \in Nat /\ written - frame <= req.size
  BY <1>0 DEF SendInv
<1>5. /\ Trail(up', passed + n, written - frame) /\ passed + n <= written - frame
      /\ Len(up) = 1 => passed + n = written - frame
  BY <1>0, <1>1, <1>4, TrailTail DEF PassInv
<1>6. passed + n <= req.size
  BY <1>0, <1>2, <1>4, <1>5
<1>7. host # "none" /\ host \notin {"respond", "body", "validate"} /\ reply # "upstream" /\ seen # "complete"
  BY <1>1 DEF PassInv
<1>8. req.declared => req.size <= MaxBody
  BY <1>0, <1>7 DEF PassInv
<1>9. fate = "over" => req.size > MaxBody
  BY <1>0, <1>2, <1>6 DEF HostOver
<1>10. fate = "done" => passed + n = req.size
  <2>1. CASE n = 0
    <3>1. Len(up) = 1 /\ written = req.size /\ frame = 0
      BY <1>2, <2>1 DEF SendInv
    <3> QED BY <1>0, <1>5, <3>1
  <2>2. CASE n # 0
    BY <2>2
  <2> QED BY <2>1, <2>2
<1>11. passed' <= MaxBody /\ passed' \in Nat
  <2>1. CASE fate \in {"running", "done"}
    <3>1. passed' = passed + n /\ (req.declared \/ passed + n <= MaxBody)
      BY <1>0, <1>1, <1>2, <2>1 DEF HostOver
    <3> QED BY <1>0, <1>2, <1>6, <1>8, <3>1
  <2>2. CASE fate \notin {"running", "done"}
    BY <1>0, <1>1, <2>2 DEF PassInv
  <2> QED BY <2>1, <2>2
<1>12. fate \in {"failed", "over", "done", "running"}
  OBVIOUS
<1> HIDE DEF fate
<1>13. HttpShape'
  BY <1>1, <1>3, <1>11, <1>12 DEF HttpShape
<1>14. SendInv'
  <2>1. \A i \in 1 .. Len(up') :
          up'[i] = 0 => /\ i = Len(up') /\ ~req.declared /\ written = req.size /\ frame = 0
                        /\ attach \in {"await", "stream", "done"}
    <3>1. \A i \in 1 .. Len(up') : i + 1 \in 1 .. Len(up) /\ (i + 1 = Len(up) => i = Len(up'))
      BY <1>0, <1>2
    <3> QED BY <1>2, <3>1 DEF SendInv
  <2> QED BY <1>1, <2>1 DEF SendInv
<1>15. PassInv'
  <2>1. upload' # "none"
    BY <1>1, <1>12
  <2>2. upload' = "running" => Trail(up', passed', written - frame)
    BY <1>1, <1>5
  <2>3. upload' = "done" => passed' = req.size
    BY <1>1, <1>10
  <2>4. upload' = "over" => req.size > MaxBody
    BY <1>1, <1>9
  <2> QED BY <1>1, <1>7, <1>11, <2>1, <2>2, <2>3, <2>4 DEF PassInv
<1>16. ReceiveInv'
  BY <1>1 DEF ReceiveInv
<1> QED
  BY <1>13, <1>14, <1>15, <1>16

\* Every step of the host keeps the flow of both bodies.
LEMMA HostKeeps ==
  ASSUME HttpInv, HostStep
  PROVE  HttpInv'
<1>0. /\ req.size \in Nat /\ req.declared \in BOOLEAN /\ resp.size \in Nat /\ resp.declared \in BOOLEAN
      /\ frame \in Nat /\ passed \in Nat /\ written \in Nat /\ total \in Nat /\ got \in Nat
      /\ up \in Seq(Nat) /\ down \in Seq(Nat) /\ Len(up) \in Nat /\ Len(down) \in Nat
      /\ MaxBody \in Nat /\ MaxFrame \in Nat
  BY BodyFacts, TunnelAssumption DEF HttpInv, HttpShape
<1> USE DEF HttpInv, fixed, request, forward, pipes, answer
<1>1. ASSUME NEW code \in {"refused", "413", "502", "504"}, HostAnswers(code),
             host \in {"validate", "send", "join", "respond"}, code = "413" => req.size > MaxBody
      PROVE  HttpInv'
  BY <1>1, HostTaskEnds DEF HostAnswers
<1>2. CASE Refuse    BY <1>1, <1>2 DEF Refuse
<1>3. CASE Forward
  <2>1. HttpShape'   BY <1>3 DEF Forward, HttpShape
  <2>2. SendInv'     BY <1>3 DEF Forward, SendInv
  <2>3. PassInv'     BY <1>3 DEF Forward, PassInv
  <2>4. ReceiveInv'  BY <1>3 DEF Forward, ReceiveInv
  <2> QED BY <2>1, <2>2, <2>3, <2>4
<1>4. CASE UploadPiece  BY <1>4, UploadKeeps
<1>5. CASE UploadFails
  <2> USE DEF UploadEnds
  <2>1. HttpShape'   BY <1>5 DEF UploadFails, HttpShape
  <2>2. SendInv'     BY <1>5 DEF UploadFails, SendInv
  <2>3. PassInv'     BY <1>5 DEF UploadFails, PassInv
  <2>4. ReceiveInv'  BY <1>5 DEF UploadFails, ReceiveInv
  <2> QED BY <2>1, <2>2, <2>3, <2>4
<1>6. CASE UpstreamSeesEnd
  <2>1. HttpShape'   BY <1>6 DEF UpstreamSeesEnd, EndSeen, HttpShape
  <2>2. SendInv'     BY <1>6 DEF UpstreamSeesEnd, SendInv
  <2>3. PassInv'     BY <1>6 DEF UpstreamSeesEnd, EndSeen, PassInv
  <2>4. ReceiveInv'  BY <1>6 DEF UpstreamSeesEnd, ReceiveInv
  <2> QED BY <2>1, <2>2, <2>3, <2>4
<1>7. CASE SendReturns
  <2>1. HttpShape'   BY <1>7 DEF SendReturns, HttpShape
  <2>2. SendInv'     BY <1>7 DEF SendReturns, SendInv
  <2>3. PassInv'     BY <1>7 DEF SendReturns, PassInv
  <2>4. ReceiveInv'  BY <1>7 DEF SendReturns, ReceiveInv
  <2> QED BY <2>1, <2>2, <2>3, <2>4
<1>8. CASE SendFails   BY <1>1, <1>8 DEF SendFails
<1>9. CASE JoinUpload
  <2>1. HttpShape'   BY <1>9 DEF JoinUpload, HttpShape
  <2>2. SendInv'     BY <1>9 DEF JoinUpload, SendInv
  <2>3. PassInv'     BY <1>9 DEF JoinUpload, Joined, PassInv
  <2>4. ReceiveInv'  BY <1>9 DEF JoinUpload, ReceiveInv
  <2> QED BY <2>1, <2>2, <2>3, <2>4
<1>10. CASE JoinFails
  <2>1. upload = "over" => req.size > MaxBody
    BY DEF PassInv
  <2> QED BY <1>1, <1>10, <2>1 DEF JoinFails
<1>11. CASE Respond
  <2>1. CASE resp.declared /\ resp.size > MaxBody
    BY <1>1, <1>11, <2>1 DEF Respond
  <2>2. CASE ~(resp.declared /\ resp.size > MaxBody)
    <3>1. passed = req.size
      <4>1. CASE upload = "done"
        BY <4>1 DEF PassInv
      <4>2. CASE upload = "none"
        <5>1. written - frame \in Nat /\ written - frame <= req.size /\ req.size = 0
          BY <1>0, <1>11, <4>2 DEF Respond, SendInv, PassInv
        <5>2. passed <= written - frame
          BY <1>0, <4>2, <5>1, TrailBounds DEF PassInv
        <5> QED BY <1>0, <5>1, <5>2
      <4> QED BY <1>11, <4>1, <4>2 DEF Respond, PassInv
    <3>2. HttpShape'   BY <1>11, <2>2 DEF Respond, HttpShape, Heads
    <3>3. SendInv'     BY <1>11, <2>2 DEF Respond, SendInv
    <3>4. PassInv'     BY <1>11, <2>2, <3>1 DEF Respond, PassInv
    <3>5. ReceiveInv'  BY <1>11, <2>2 DEF Respond, ReceiveInv
    <3> QED BY <3>2, <3>3, <3>4, <3>5
  <2> QED BY <2>1, <2>2
<1>12. ASSUME NEW n \in 1 .. MaxFrame, ResponsePiece(n) PROVE HttpInv'
  <2>1. CASE total + n > MaxBody
    BY <1>12, <2>1, HostTaskEnds DEF ResponsePiece
  <2>2. CASE ~(total + n > MaxBody)
    <3>1. host = "body" /\ n \in Nat /\ n # 0 /\ total' = total + n /\ down' = Append(down, n)
      BY <1>0, <1>12, <2>2 DEF ResponsePiece
    <3>2. total' \in Nat /\ total' <= MaxBody /\ total' <= resp.size
      BY <1>0, <1>12, <2>2, <3>1 DEF ResponsePiece
    <3>3. Trail(down', got, total')
      BY <1>0, <3>1, TrailAppend DEF ReceiveInv
    <3>4. down' \in Seq(0 .. MaxFrame)
      BY <1>0, <1>12, <3>1 DEF HttpShape
    <3>5. \A i \in 1 .. Len(down') : down'[i] # 0
      <4>0. Len(down') = Len(down) + 1
        BY <1>0, <3>1
      <4>1. down'[Len(down) + 1] = n /\ \A i \in 1 .. Len(down) : down'[i] = down[i]
        BY <1>0, <3>1
      <4>2. \A i \in 1 .. Len(down) : down[i] # 0
        BY <3>1 DEF ReceiveInv
      <4>3. \A i \in 1 .. Len(down') : i \in 1 .. Len(down) \/ i = Len(down) + 1
        BY <1>0, <4>0
      <4> QED BY <3>1, <4>0, <4>1, <4>2, <4>3
    <3>6. HttpShape'   BY <1>12, <2>2, <3>2, <3>4 DEF ResponsePiece, HttpShape
    <3>7. SendInv'     BY <1>12, <2>2 DEF ResponsePiece, SendInv
    <3>8. PassInv'     BY <1>12, <2>2 DEF ResponsePiece, PassInv
    <3>9. ReceiveInv'  BY <1>12, <2>2, <3>2, <3>3, <3>5 DEF ResponsePiece, ReceiveInv
    <3> QED BY <3>6, <3>7, <3>8, <3>9
  <2> QED BY <2>1, <2>2
<1>13. CASE ResponseEnds
  <2>1. CASE resp.declared
    BY <1>13, <2>1, HostTaskEnds DEF ResponseEnds
  <2>2. CASE ~resp.declared
    <3> USE DEF HostDrops
    <3>1. host = "body" /\ host' = "done" /\ total = resp.size /\ down' = Append(down, 0)
      BY <1>13, <2>2 DEF ResponseEnds
    <3>2. Trail(down', got, total)
      <4>1. total + 0 = total
        BY <1>0
      <4> QED BY <1>0, <3>1, <4>1, TrailAppend DEF ReceiveInv
    <3>3. down' \in Seq(0 .. MaxFrame)
      BY <1>0, <3>1 DEF HttpShape
    <3>4. \A i \in 1 .. Len(down') : down'[i] = 0 => i = Len(down')
      <4>0. Len(down') = Len(down) + 1
        BY <1>0, <3>1
      <4>1. \A i \in 1 .. Len(down) : down'[i] = down[i]
        BY <1>0, <3>1
      <4>2. \A i \in 1 .. Len(down) : down[i] # 0
        BY <3>1 DEF ReceiveInv
      <4>3. \A i \in 1 .. Len(down') : i \in 1 .. Len(down) \/ i = Len(down) + 1
        BY <1>0, <4>0
      <4> QED BY <4>0, <4>1, <4>2, <4>3
    <3>5. HttpShape'   BY <1>13, <3>3 DEF ResponseEnds, HttpShape
    <3>6. SendInv'     BY <1>13 DEF ResponseEnds, SendInv
    <3>7. PassInv'     BY <1>13 DEF ResponseEnds, PassInv
    <3>8. ReceiveInv'  BY <1>13, <3>1, <3>2, <3>4 DEF ResponseEnds, ReceiveInv
    <3> QED BY <3>5, <3>6, <3>7, <3>8
  <2> QED BY <2>1, <2>2
<1>14. CASE ResponseBreaks  BY <1>14, HostTaskEnds DEF ResponseBreaks
<1>15. CASE Deadline        BY <1>15, HostTaskEnds DEF Deadline, DeadlineRuns, ResponseStarted
<1>16. CASE Cancel          BY <1>16, HostTaskEnds DEF Cancel
<1> QED
  BY <1>2, <1>3, <1>4, <1>5, <1>6, <1>7, <1>8, <1>9, <1>10, <1>11, <1>12, <1>13, <1>14, <1>15, <1>16
  DEF HostStep

\* Nothing is lost or invented between the local client and the upstream: the
\* inductive invariant of one HTTP request through the tunnel.
THEOREM FlowTheorem == Spec => []HttpInv
<1>1. Init => HttpInv
  <2> SUFFICES ASSUME NEW start \in {"acquire", "idle"}, HttpInit(start) PROVE HttpInv
    BY DEF Init
  <2> USE DEF HttpInit
  <2>0. up = <<>> /\ down = <<>> /\ written = 0 /\ frame = 0 /\ passed = 0 /\ got = 0 /\ total = 0
    OBVIOUS
  <2>1. HttpShape
    <3>1. 0 \in 0 .. MaxFrame /\ 0 \in Nat /\ <<>> \in Seq(0 .. MaxFrame)
      BY TunnelAssumption
    <3> QED BY <3>1 DEF HttpShape
  <2>2. req.size \in Nat /\ resp.size \in Nat /\ MaxBody \in Nat
    BY <2>1, BodyFacts
  <2>3. Trail(<<>>, 0, 0) /\ Len(<<>>) = 0 /\ 0 - 0 = 0
    BY TrailEmpty
  <2>4. 1 .. Len(up) = {} /\ 1 .. Len(down) = {}
    BY <2>0, <2>3
  <2>5. SendInv
    BY <2>2, <2>4 DEF SendInv
  <2>6. PassInv
    BY <2>0, <2>2, <2>3 DEF PassInv
  <2>7. ReceiveInv
    BY <2>0, <2>2, <2>3, <2>4 DEF ReceiveInv
  <2> QED BY <2>1, <2>5, <2>6, <2>7 DEF HttpInv
<1>2. HttpInv /\ [Next]_vars => HttpInv'
  <2> SUFFICES ASSUME HttpInv, [Next]_vars PROVE HttpInv'
    OBVIOUS
  <2>1. ASSUME UNCHANGED <<fixed, request, forward, pipes, answer>>, alive' \in BOOLEAN
        PROVE  HttpInv'
    <3> USE <2>1 DEF HttpInv, fixed, request, forward, pipes, answer
    <3>1. HttpShape'   BY DEF HttpShape
    <3>2. SendInv'     BY DEF SendInv
    <3>3. PassInv'     BY DEF PassInv
    <3>4. ReceiveInv'  BY DEF ReceiveInv
    <3> QED BY <3>1, <3>2, <3>3, <3>4
  <2>2. CASE Lose
    BY <2>1, <2>2 DEF Lose
  <2>3. CASE UNCHANGED httpVars
    BY <2>1, <2>3 DEF httpVars, HttpInv, HttpShape
  <2> QED
    BY <2>2, <2>3, AttachKeeps, HostKeeps DEF Next, HttpNext, vars
<1> QED
  BY <1>1, <1>2, PTL DEF Spec

\* Type correctness of the HTTP request, with its bounds: neither side counts
\* beyond MAX_BODY_LEN, whatever the peers send.
THEOREM HttpTypeCorrect == Spec => []HttpTypeOK
<1>1. HttpInv => HttpTypeOK
  <2> SUFFICES ASSUME HttpInv PROVE HttpTypeOK
    OBVIOUS
  <2>1. /\ req.size \in Nat /\ req.size <= MaxSize /\ MaxBody \in Nat /\ MaxSize \in Nat
        /\ down \in Seq(Nat) /\ got \in Nat /\ total \in Nat
    BY BodyFacts, TunnelAssumption DEF HttpInv, HttpShape
  <2>2. written \in 0 .. MaxSize
    BY <2>1 DEF HttpInv, HttpShape, SendInv
  <2>3. passed \in 0 .. MaxBody /\ total \in 0 .. MaxBody
    BY <2>1 DEF HttpInv, HttpShape, PassInv, ReceiveInv
  <2>4. got \in 0 .. MaxBody
    BY <2>1, <2>3, TrailBounds DEF HttpInv, ReceiveInv
  <2> QED BY <2>2, <2>3, <2>4 DEF HttpInv, HttpShape, HttpTypeOK
<1> QED
  BY <1>1, FlowTheorem, PTL

\* The response of the upstream is passed on only for a body that was passed on
\* completely, and a short body of declared length is never taken for whole.
THEOREM UploadTheorem == Spec => []UploadWhole
<1>1. HttpInv => UploadWhole
  BY DEF HttpInv, PassInv, UploadWhole
<1> QED
  BY <1>1, FlowTheorem, PTL

\* A response that ends properly for the local client is the whole response.
THEOREM ResponseTheorem == Spec => []ResponseWhole
<1>1. HttpInv /\ HttpTypeOK => ResponseWhole
  BY TunnelAssumption DEF HttpInv, HttpTypeOK, ReceiveInv, ResponseWhole
<1> QED
  BY <1>1, FlowTheorem, HttpTypeCorrect, PTL

\* The body limit is exact on both sides: never exceeded, and 413 only beyond it.
THEOREM LimitTheorem == Spec => []LimitExact
<1>1. HttpInv /\ HttpTypeOK => LimitExact
  BY TunnelAssumption DEF HttpInv, HttpTypeOK, PassInv, ReceiveInv, LimitExact
<1> QED
  BY <1>1, FlowTheorem, HttpTypeCorrect, PTL

-----------------------------------------------------------------------------
(* The contract of an exchange.                                            *)

\* The local client is answered at one point of the attachment's request, with the
\* head the host wrote, and the host writes one head, before any byte of a body.
AnswerInv ==
  /\ attach # "done" => local = "open"
  /\ attach \in {"idle", "acquire", "body", "write", "end", "await"} => status = "none"
  /\ attach = "stream" => status = reply /\ reply # "none"
  /\ reply # "none" => host \in {"body", "done"}
  /\ host = "body" => reply = "upstream"
  /\ total > 0 => reply = "upstream"

\* A step of the attachment: it answers, or ends, at most once.
LEMMA AttachAnswers ==
  ASSUME HttpInv, AnswerInv, AttachStep
  PROVE  AnswerInv'
<1> USE DEF AnswerInv, fixed, request, forward, pipes, answer
<1>1. ASSUME AttachDrops, UNCHANGED <<host, reply, total>> PROVE AnswerInv'
  BY <1>1 DEF AttachDrops
<1>2. ASSUME NEW code, Fail(code) PROVE AnswerInv'
  BY <1>1, <1>2 DEF Fail
<1>3. ASSUME CutLocal PROVE AnswerInv'
  BY <1>1, <1>3 DEF CutLocal
<1>4. CASE Unavailable \/ OpenFails \/ BodyFails \/ WriteFails \/ ResponseTimesOut \/ ResponseFails
  BY <1>2, <1>4 DEF Unavailable, OpenFails, BodyFails, WriteFails, ResponseTimesOut, ResponseFails
<1>5. CASE WriteHead
  <2>1. host = "none"
    BY <1>5 DEF WriteHead, HttpInv, SendInv
  <2> QED BY <1>5, <2>1 DEF WriteHead
<1>6. ASSUME NEW n \in 1 .. MaxFrame, TakeFrame(n) PROVE AnswerInv'
  BY <1>2, <1>6 DEF TakeFrame
<1>7. CASE BodyEnds \/ WritePiece \/ WriteEnd
  BY <1>7 DEF BodyEnds, WritePiece, WriteEnd
<1>8. CASE ReadResponse
  BY <1>8 DEF ReadResponse
<1>9. CASE BodyComplete
  BY <1>1, <1>9 DEF BodyComplete
<1>10. CASE ReadPiece
  BY <1>3, <1>10 DEF ReadPiece
<1>11. CASE ReadFails \/ ReadTimesOut \/ LocalGone
  BY <1>3, <1>11 DEF ReadFails, ReadTimesOut, LocalGone
<1> QED
  BY <1>4, <1>5, <1>6, <1>7, <1>8, <1>9, <1>10, <1>11 DEF AttachStep

\* A step of the host: it begins one response.
LEMMA HostReplies ==
  ASSUME HttpInv, AnswerInv, HostStep
  PROVE  AnswerInv' /\ (reply = "upstream" => reply' = "upstream")
<1>0. total \in Nat /\ MaxFrame \in Nat
  BY BodyFacts DEF HttpInv, HttpShape
<1> USE DEF AnswerInv, fixed, request, forward, pipes, answer
<1> DEFINE Goal == AnswerInv' /\ (reply = "upstream" => reply' = "upstream")
<1>1. ASSUME HostDrops, UNCHANGED <<attach, total, status, local>>,
             UNCHANGED reply \/ host \notin {"none", "body", "done"}
      PROVE  Goal
  BY <1>1 DEF HostDrops
<1>2. ASSUME NEW code, HostAnswers(code), host \notin {"none", "body", "done"} PROVE Goal
  BY <1>1, <1>2 DEF HostAnswers
<1>3. CASE Refuse \/ SendFails \/ JoinFails
  BY <1>2, <1>3 DEF Refuse, SendFails, JoinFails
<1>4. CASE Forward \/ SendReturns \/ JoinUpload
  BY <1>4 DEF Forward, SendReturns, JoinUpload
<1>5. CASE UploadPiece \/ UploadFails \/ UpstreamSeesEnd
  BY <1>5 DEF UploadPiece, UploadFails, UpstreamSeesEnd
<1>6. CASE Respond
  BY <1>2, <1>6 DEF Respond
<1>7. ASSUME NEW n \in 1 .. MaxFrame, ResponsePiece(n) PROVE Goal
  BY <1>1, <1>7 DEF ResponsePiece
<1>8. CASE ResponseEnds \/ ResponseBreaks
  BY <1>1, <1>8 DEF ResponseEnds, ResponseBreaks
<1>9. CASE Deadline
  BY <1>1, <1>9 DEF Deadline, DeadlineRuns, ResponseStarted
<1>10. CASE Cancel
  BY <1>1, <1>10 DEF Cancel
<1> QED
  BY <1>3, <1>4, <1>5, <1>6, <1>7, <1>8, <1>9, <1>10 DEF HostStep

\* One status and one head, whatever the order of the two sides' steps.
THEOREM AnswerTheorem == Spec => []AnswerInv
<1>1. Init => AnswerInv
  BY DEF Init, HttpInit, AnswerInv
<1>2. HttpInv /\ AnswerInv /\ [Next]_vars => AnswerInv'
  <2> SUFFICES ASSUME HttpInv, AnswerInv, [Next]_vars PROVE AnswerInv'
    OBVIOUS
  <2>1. CASE Lose \/ UNCHANGED httpVars
    BY <2>1 DEF Lose, httpVars, request, forward, pipes, answer, AnswerInv
  <2> QED
    BY <2>1, AttachAnswers, HostReplies DEF Next, HttpNext, vars
<1> QED
  BY <1>1, <1>2, FlowTheorem, PTL DEF Spec

\* A step of the attachment is one of the contract: an answer, a piece that was
\* sent, or the end.
LEMMA AttachExchanges ==
  ASSUME HttpInv, AnswerInv, HttpInv', AttachStep
  PROVE  [Exchange!ExchangeNext]_(Exchange!exchangeVars)
<1> USE DEF Exchange!exchangeVars, fixed, request, forward, pipes, answer
<1> DEFINE Goal == [Exchange!ExchangeNext]_(Exchange!exchangeVars)
<1>1. ASSUME NEW code \in {"413", "502", "503", "504"}, Fail(code), attach \notin {"stream", "done"}
      PROVE  Goal
  <2>1. status = "none" /\ local = "open"
    BY <1>1 DEF AnswerInv, HttpInv, HttpShape
  <2>2. Exchange!Answer
    BY <1>1, <2>1 DEF Fail, Exchange!Answer, Heads
  <2> QED BY <2>2 DEF Exchange!ExchangeNext
<1>2. ASSUME CutLocal, attach # "done" PROVE Goal
  <2>1. Exchange!Break
    BY <1>2 DEF CutLocal, Exchange!Break, AnswerInv
  <2> QED BY <2>1 DEF Exchange!ExchangeNext
<1>3. CASE Unavailable \/ OpenFails \/ BodyFails \/ WriteFails \/ ResponseTimesOut \/ ResponseFails
  BY <1>1, <1>3 DEF Unavailable, OpenFails, BodyFails, WriteFails, ResponseTimesOut, ResponseFails
<1>4. CASE WriteHead
  BY <1>4 DEF WriteHead
<1>5. ASSUME NEW n \in 1 .. MaxFrame, TakeFrame(n) PROVE Goal
  BY <1>1, <1>5 DEF TakeFrame
<1>6. CASE BodyEnds \/ WritePiece \/ WriteEnd
  BY <1>6 DEF BodyEnds, WritePiece, WriteEnd
<1>7. CASE ReadResponse
  <2>1. Exchange!Answer
    BY <1>7 DEF ReadResponse, Exchange!Answer, AnswerInv, HttpInv, HttpShape, Heads
  <2> QED BY <2>1 DEF Exchange!ExchangeNext
<1>8. CASE BodyComplete
  <2>1. local = "open" /\ status # "none"
    BY <1>8 DEF BodyComplete, AnswerInv
  <2>2. status = "upstream" => got = resp.size
    BY <1>8 DEF BodyComplete, HttpInv, ReceiveInv
  <2>3. Exchange!Finish
    BY <1>8, <2>1, <2>2 DEF BodyComplete, Exchange!Finish
  <2> QED BY <2>3 DEF Exchange!ExchangeNext
<1>9. CASE ReadPiece
  <2>1. CASE ~Declared /\ Head(down) > ChunkLen
    BY <1>2, <1>9, <2>1 DEF ReadPiece
  <2>2. CASE ~(~Declared /\ Head(down) > ChunkLen)
    <3>1. /\ attach = "stream" /\ down # <<>> /\ Head(down) > 0 /\ got' = got + Head(down)
          /\ UNCHANGED <<req, resp, passed, reply, total, status, local>>
      BY <1>9, <2>2 DEF ReadPiece
    <3>2. got \in Nat /\ got' \in Nat /\ total \in Nat /\ Head(down) \in Nat
      <4>1. got \in Nat /\ got' \in Nat /\ total \in Nat /\ down \in Seq(Nat)
        BY BodyFacts DEF HttpInv, HttpShape
      <4> QED BY <3>1, <4>1
    <3>3. got' <= total
      <4>1. Trail(down', got', total') /\ total' = total
        BY <3>1 DEF HttpInv, ReceiveInv
      <4>2. down \in Seq(Nat) /\ down' = Tail(down)
        BY <1>9, <2>2, BodyFacts DEF HttpInv, ReadPiece
      <4>3. down' \in Seq(Nat)
        BY <3>1, <4>2
      <4> QED BY <3>2, <4>1, <4>3, TrailBounds
    <3>4. got' \in got + 1 .. total /\ total > 0
      BY <3>1, <3>2, <3>3
    <3>5. status = "upstream" /\ local = "open"
      BY <3>1, <3>4 DEF AnswerInv
    <3>6. Exchange!Deliver
      BY <3>1, <3>4, <3>5 DEF Exchange!Deliver
    <3> QED BY <3>6 DEF Exchange!ExchangeNext
  <2> QED BY <2>1, <2>2
<1>10. CASE ReadFails \/ ReadTimesOut \/ LocalGone
  BY <1>2, <1>10 DEF ReadFails, ReadTimesOut, LocalGone
<1> QED
  BY <1>3, <1>4, <1>5, <1>6, <1>7, <1>8, <1>9, <1>10 DEF AttachStep

\* A step of the host is one of the contract: it hands a piece over, accepts the
\* answer to a whole request, or takes a piece of it.
LEMMA HostExchanges ==
  ASSUME HttpInv, AnswerInv, HttpInv', HostStep
  PROVE  [Exchange!ExchangeNext]_(Exchange!exchangeVars)
<1>0. /\ req.size \in Nat /\ resp.size \in Nat /\ MaxFrame \in Nat
      /\ passed \in Nat /\ total \in Nat /\ passed' \in Nat
  BY BodyFacts DEF HttpInv, HttpShape
<1> USE DEF Exchange!exchangeVars, fixed, request, forward, pipes, answer
<1> DEFINE Goal == [Exchange!ExchangeNext]_(Exchange!exchangeVars)
<1>1. ASSUME UNCHANGED <<req, resp, passed, total, status, got, local>>, reply' # "upstream",
             host # "body", host # "done"
      PROVE  Goal
  <2>1. reply # "upstream"
    BY <1>1 DEF AnswerInv
  <2>2. (reply = "upstream") = FALSE /\ (reply' = "upstream") = FALSE
    BY <1>1, <2>1
  <2> QED BY <1>1, <2>2
<1>2. ASSUME UNCHANGED <<req, resp, passed, total, reply, status, got, local>> PROVE Goal
  BY <1>2
<1>3. ASSUME NEW code \in {"refused", "413", "502", "504"}, HostAnswers(code),
             host \notin {"none", "body", "done"}
      PROVE  Goal
  BY <1>1, <1>3 DEF HostAnswers
<1>4. CASE Refuse \/ SendFails \/ JoinFails
  BY <1>3, <1>4 DEF Refuse, SendFails, JoinFails
<1>5. CASE Forward \/ SendReturns \/ JoinUpload \/ UploadFails \/ UpstreamSeesEnd
  BY <1>2, <1>5 DEF Forward, SendReturns, JoinUpload, UploadFails, UpstreamSeesEnd
<1>6. CASE UploadPiece
  <2>1. /\ upload = "running" /\ up # <<>>
        /\ passed' = passed \/ passed' = passed + Head(up)
        /\ UNCHANGED <<req, resp, total, reply, status, got, local>>
    BY <1>6 DEF UploadPiece
  <2>2. CASE passed' = passed
    BY <1>2, <2>1, <2>2
  <2>3. CASE passed' # passed
    <3>0. up \in Seq(Nat) /\ frame \in Nat /\ written \in Nat
      BY BodyFacts DEF HttpInv, HttpShape
    <3>1. Head(up) \in Nat /\ up \in Seq(Nat)
      BY <2>1, <3>0
    <3>2. passed' > passed
      BY <1>0, <2>1, <2>3, <3>1
    <3>3. passed' <= req.size
      <4>0. Trail(up, passed, written - frame) /\ frame <= written /\ written <= req.size
        BY <2>1 DEF HttpInv, SendInv, PassInv
      <4>1. /\ written - frame \in Nat /\ written - frame <= req.size
            /\ Trail(up, passed, written - frame)
        BY <1>0, <3>0, <4>0
      <4>2. passed + Head(up) <= written - frame
        BY <1>0, <2>1, <3>1, <4>1, TrailTail
      <4> QED BY <1>0, <2>1, <2>3, <3>1, <4>1, <4>2
    <3>4. passed' \in passed + 1 .. req.size
      BY <1>0, <3>2, <3>3
    <3>5. reply # "upstream"
      BY <2>1 DEF HttpInv, PassInv
    <3>6. Exchange!Upload
      BY <2>1, <3>4, <3>5 DEF Exchange!Upload
    <3> QED BY <3>6 DEF Exchange!ExchangeNext
  <2> QED BY <2>2, <2>3
<1>7. CASE Respond
  <2>1. CASE resp.declared /\ resp.size > MaxBody
    BY <1>3, <1>7, <2>1 DEF Respond
  <2>2. CASE ~(resp.declared /\ resp.size > MaxBody)
    <3>1. /\ host = "respond" /\ reply' = "upstream"
          /\ UNCHANGED <<req, resp, passed, total, status, got, local>>
      BY <1>7, <2>2 DEF Respond
    <3>2. reply # "upstream" /\ passed = req.size
      BY <3>1 DEF AnswerInv, HttpInv, PassInv
    <3>3. (reply' = "upstream") = TRUE
      BY <3>1
    <3>4. Exchange!Accept
      BY <3>1, <3>2, <3>3 DEF Exchange!Accept
    <3> QED BY <3>4 DEF Exchange!ExchangeNext
  <2> QED BY <2>1, <2>2
<1>8. ASSUME NEW n \in 1 .. MaxFrame, ResponsePiece(n) PROVE Goal
  <2>1. CASE total + n > MaxBody
    BY <1>2, <1>8, <2>1 DEF ResponsePiece
  <2>2. CASE ~(total + n > MaxBody)
    <3>1. /\ host = "body" /\ total' = total + n /\ total + n <= resp.size
          /\ UNCHANGED <<req, resp, passed, reply, status, got, local>>
      BY <1>8, <2>2 DEF ResponsePiece
    <3>2. total' \in total + 1 .. resp.size
      BY <1>0, <3>1
    <3>3. Exchange!Send
      BY <3>1, <3>2 DEF Exchange!Send, AnswerInv
    <3> QED BY <3>3 DEF Exchange!ExchangeNext
  <2> QED BY <2>1, <2>2
<1>9. CASE ResponseEnds \/ ResponseBreaks \/ Cancel
  BY <1>2, <1>9 DEF ResponseEnds, ResponseBreaks, Cancel
<1>10. CASE Deadline
  <2>1. CASE host = "body"
    BY <1>2, <1>10, <2>1 DEF Deadline, ResponseStarted
  <2>2. CASE host # "body"
    BY <1>1, <1>10, <2>2 DEF Deadline, DeadlineRuns, ResponseStarted, AnswerInv
  <2> QED BY <2>1, <2>2
<1> QED
  BY <1>4, <1>5, <1>6, <1>7, <1>8, <1>9, <1>10 DEF HostStep

\* The tunnel implements ExchangeContract for every body, limit, chunk length and
\* window: the local client sees one status, only bytes the upstream sent after it
\* was handed the whole request, and one end.
THEOREM ExchangeTheorem == Spec => ImplementsExchange
<1>1. Init => Exchange!ExchangeInit
  <2> SUFFICES ASSUME NEW start \in {"acquire", "idle"}, HttpInit(start) PROVE Exchange!ExchangeInit
    BY DEF Init
  <2>1. req.size \in 0 .. MaxSize /\ resp.size \in 0 .. MaxSize
    BY DEF HttpInit, BodyType
  <2>2. (reply = "upstream") = FALSE
    BY DEF HttpInit
  <2> QED BY <2>1, <2>2 DEF HttpInit, Exchange!ExchangeInit
<1>2. HttpInv /\ AnswerInv /\ HttpInv' /\ [Next]_vars
        => [Exchange!ExchangeNext]_(Exchange!exchangeVars)
  <2> SUFFICES ASSUME HttpInv, AnswerInv, HttpInv', [Next]_vars
               PROVE  [Exchange!ExchangeNext]_(Exchange!exchangeVars)
    OBVIOUS
  <2>1. CASE Lose \/ UNCHANGED httpVars
    BY <2>1 DEF Lose, httpVars, fixed, request, forward, pipes, answer, Exchange!exchangeVars
  <2> QED
    BY <2>1, AttachExchanges, HostExchanges DEF Next, HttpNext, vars
<1> QED
  BY <1>1, <1>2, FlowTheorem, AnswerTheorem, PTL
  DEF Spec, ImplementsExchange, Exchange!ExchangeSpec

-----------------------------------------------------------------------------
(* The relay.                                                              *)

\* The sleep of relay_with_idle_policy and the age of its activity.
THEOREM IdleTheorem == Spec => []IdleInv
<1> USE RelayAssumption DEF IdleInv, RelayTypeOK
<1>1. Init => IdleInv
  <2> SUFFICES ASSUME NEW start \in {"none", "running"}, RelayInit(start) PROVE IdleInv
    BY DEF Init
  <2>1. policy \in BOOLEAN
    BY DEF RelayInit
  <2>2. buffer \in [Directions -> BOOLEAN]
    BY Zenon DEF RelayInit
  <2> QED BY <2>1, <2>2 DEF RelayInit
<1>2. IdleInv /\ [Next]_vars => IdleInv'
  <2> SUFFICES ASSUME IdleInv, [Next]_vars PROVE IdleInv'
    OBVIOUS
  <2>1. CASE Tick       BY <2>1 DEF Tick, Aged
  <2>2. CASE SleepEnds  BY <2>2 DEF SleepEnds, Expired
  <2>3. ASSUME NEW d \in Directions, Read(d) \/ Write(d) PROVE IdleInv'
    <3>1. buffer' \in [Directions -> BOOLEAN] /\ UNCHANGED <<relay, policy, timer, side>>
      BY <2>3 DEF Read, Write
    <3>2. idle' = 0 /\ quiet' = 0 /\ relay = "running"
      BY <2>3 DEF Read, Write, Touched
    <3> QED BY <3>1, <3>2
  <2>4. ASSUME NEW d \in Directions, NEW end \in BOOLEAN, Shut(d) \/ Poll(d, end) PROVE IdleInv'
    BY <2>4 DEF Shut, Poll, Touched
  <2>5. ASSUME NEW result \in {"copied", "failed"}, CopyEnds(result) PROVE IdleInv'
    BY <2>5 DEF CopyEnds
  <2>6. CASE UNCHANGED relayVars
    BY <2>6 DEF relayVars
  <2> QED
    BY <2>1, <2>2, <2>3, <2>4, <2>5, <2>6 DEF Next, RelayNext, vars
<1> QED
  BY <1>1, <1>2, PTL DEF Spec

\* A relay expires only after a whole idle period without a byte.
THEOREM ExpiryTheorem == Spec => []ExpiresOnlyIdle
<1>1. IdleInv => ExpiresOnlyIdle
  BY DEF IdleInv, ExpiresOnlyIdle
<1> QED
  BY <1>1, IdleTheorem, PTL

\* And it is not late: when the idle period is over the sleep is over too, so
\* the next turn of the loop ends the relay, although activity never wakes it.
THEOREM PromptTheorem == Spec => [](quiet >= IdleTimeout => timer = 0)
<1>1. IdleInv => (quiet >= IdleTimeout => timer = 0)
  BY RelayAssumption DEF IdleInv, RelayTypeOK
<1> QED
  BY <1>1, IdleTheorem, PTL
=============================================================================
