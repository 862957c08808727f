--------------------------- MODULE ExchangeContract ---------------------------
(***************************************************************************)
(* What the tunnel promises about one HTTP exchange, seen from its two     *)
(* ends: the upstream's answer is taken only for a request it was handed   *)
(* whole, the local client is given one status and bytes that the upstream *)
(* sent, in their number, and an exchange ends once: whole, or cut off.    *)
(***************************************************************************)
EXTENDS Naturals

CONSTANTS
  MaxSize,   \* the largest body anybody sends
  Codes      \* the answers the tunnel makes up itself

VARIABLES
  asked,     \* units of the request body
  owed,      \* units of the response body
  taken,     \* request units the upstream was handed
  accepted,  \* the upstream's answer is passed on
  sent,      \* response units taken from the upstream
  status,    \* the status the local client was given
  given,     \* response units it was given
  ending     \* how the exchange ended for it

exchangeVars == <<asked, owed, taken, accepted, sent, status, given, ending>>

ExchangeInit ==
  /\ asked \in 0 .. MaxSize /\ owed \in 0 .. MaxSize
  /\ taken = 0 /\ accepted = FALSE /\ sent = 0
  /\ status = "none" /\ given = 0 /\ ending = "open"

Upload ==
  /\ ~accepted
  /\ taken' \in taken + 1 .. asked
  /\ UNCHANGED <<asked, owed, accepted, sent, status, given, ending>>

Accept ==
  /\ ~accepted /\ taken = asked
  /\ accepted' = TRUE
  /\ UNCHANGED <<asked, owed, taken, sent, status, given, ending>>

Send ==
  /\ accepted
  /\ sent' \in sent + 1 .. owed
  /\ UNCHANGED <<asked, owed, taken, accepted, status, given, ending>>

\* One status: the upstream's, or one of the tunnel's own, perhaps with its end.
Answer ==
  /\ status = "none" /\ ending = "open"
  /\ \/ accepted /\ status' = "upstream" /\ ending' = "open"
     \/ status' \in Codes /\ ending' \in {"open", "complete"}
  /\ UNCHANGED <<asked, owed, taken, accepted, sent, given>>

Deliver ==
  /\ status = "upstream" /\ ending = "open"
  /\ given' \in given + 1 .. sent
  /\ UNCHANGED <<asked, owed, taken, accepted, sent, status, ending>>

Finish ==
  /\ status # "none" /\ ending = "open"
  /\ status = "upstream" => given = owed
  /\ ending' = "complete"
  /\ UNCHANGED <<asked, owed, taken, accepted, sent, status, given>>

Break ==
  /\ ending = "open"
  /\ ending' = "cut"
  /\ UNCHANGED <<asked, owed, taken, accepted, sent, status, given>>

ExchangeNext == Upload \/ Accept \/ Send \/ Answer \/ Deliver \/ Finish \/ Break

ExchangeSpec == ExchangeInit /\ [][ExchangeNext]_exchangeVars
=============================================================================
