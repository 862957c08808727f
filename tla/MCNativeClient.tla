---------------------------- MODULE MCNativeClient ----------------------------
(* NativeClient for TLC. Attachments are interchangeable, and so are close   *)
(* calls; symmetry is used for safety only.                                  *)
EXTENDS NativeClient, TLC

ClientSymmetry == Permutations(Attachments) \cup Permutations(Closers)
=============================================================================
