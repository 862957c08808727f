----------------------------- MODULE MCHostServer -----------------------------
(* HostServer for TLC: good requests of both kinds, and one with each        *)
(* defect. All that is refused goes on in the same way.                      *)
EXTENDS HostServer

Good == {[kind |-> "http", version |-> TRUE, known |-> TRUE, typed |-> TRUE,
          proof |-> TRUE, body |-> body] : body \in BOOLEAN}
        \cup {[kind |-> "tcp", version |-> TRUE, known |-> TRUE, typed |-> TRUE,
               proof |-> TRUE, body |-> FALSE]}

Plain(kind) == CHOOSE r \in Good : r.kind = kind /\ ~r.body

MCRequests ==
  Good \cup {[Plain("http") EXCEPT !.version = FALSE], [Plain("tcp") EXCEPT !.known = FALSE],
             [Plain("http") EXCEPT !.typed = FALSE], [Plain("tcp") EXCEPT !.proof = FALSE]}
=============================================================================
