-------------------------------- MODULE Tunnel --------------------------------
(***************************************************************************)
(* One stream of a peer connection. Its first head, StreamRequestHead,     *)
(* decides whether it carries an HTTP request (HttpTunnel) or the bytes of *)
(* a TCP connection (Relay); only one of the two ever moves.               *)
(***************************************************************************)
EXTENDS HttpTunnel, Relay

vars == <<httpVars, relayVars>>

Init ==
  \/ HttpInit("acquire") /\ RelayInit("none")
  \/ HttpInit("idle") /\ RelayInit("running")

Next ==
  \/ HttpNext /\ UNCHANGED relayVars
  \/ RelayNext /\ UNCHANGED httpVars

Spec == Init /\ [][Next]_vars /\ HttpFairness /\ RelayFairness

-----------------------------------------------------------------------------
(* An HTTP request implements the contract of an exchange: what the host   *)
(* hands over and takes, and what the local client is shown.               *)

Exchange ==
  INSTANCE ExchangeContract WITH
    Codes <- (Heads \cup {"503"}) \ {"upstream"},
    asked <- req.size,
    owed <- resp.size,
    taken <- passed,
    accepted <- reply = "upstream",
    sent <- total,
    given <- got,
    ending <- local

\* Every step of attachment, host and network is a step of the contract or changes
\* nothing it mentions: no status is replaced, no byte comes before its status or
\* after the end, and no answer overtakes the request body.
ImplementsExchange == Exchange!ExchangeSpec
=============================================================================
