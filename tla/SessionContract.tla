--------------------------- MODULE SessionContract ---------------------------
(***************************************************************************)
(* What a peer session promises whoever holds a handle: connections are    *)
(* offered one at a time under ever newer generations, an offer is         *)
(* withdrawn only when its connection is dead or the session is stopping,  *)
(* and a session that was asked to stop ends once, with nothing offered    *)
(* and one result that never changes.                                      *)
(***************************************************************************)
EXTENDS Naturals

CONSTANT Results   \* the results close() can report

VARIABLES
  offered,    \* the generation callers can lease, 0 for none
  broken,     \* the offered connection is dead
  issued,     \* the newest generation ever offered
  stopping,   \* shutdown was requested
  result      \* "Pending" until the session has ended

contractVars == <<offered, broken, issued, stopping, result>>

ContractInit ==
  /\ offered = 0
  /\ broken = FALSE
  /\ issued = 0
  /\ stopping = FALSE
  /\ result = "Pending"

\* The connection may have died before it is offered.
Offer ==
  /\ offered = 0 /\ result = "Pending"
  /\ offered' = issued + 1
  /\ broken' \in BOOLEAN
  /\ issued' = issued + 1
  /\ UNCHANGED <<stopping, result>>

Lose ==
  /\ offered # 0
  /\ broken' = TRUE
  /\ UNCHANGED <<offered, issued, stopping, result>>

Withdraw ==
  /\ offered # 0 /\ (broken \/ stopping)
  /\ offered' = 0
  /\ broken' = FALSE
  /\ UNCHANGED <<issued, stopping, result>>

Stop ==
  /\ stopping' = TRUE
  /\ UNCHANGED <<offered, broken, issued, result>>

End ==
  /\ stopping /\ offered = 0 /\ result = "Pending"
  /\ result' \in Results
  /\ UNCHANGED <<offered, broken, issued, stopping>>

ContractNext == Offer \/ Lose \/ Withdraw \/ Stop \/ End

ContractSpec == ContractInit /\ [][ContractNext]_contractVars
=============================================================================
