------------------------- MODULE MCConsoleSession -------------------------
(* Small instances of ConsoleSession for TLC. *)
EXTENDS ConsoleSession, TLC

CONSTANTS u1, u2, h1, h2

===========================================================================
