---------------------------- MODULE MCPeerSession ----------------------------
(* Instances of PeerSession for TLC. *)
EXTENDS PeerSession, TLC

CallerSymmetry == Permutations(Callers)
=============================================================================
