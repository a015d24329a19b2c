---------------------------- MODULE MCClientKeys ----------------------------
(* Small instances of ClientKeys for TLC. *)
EXTENDS ClientKeys, TLC

CONSTANTS u1, u2, s1, s2, s3

=============================================================================
