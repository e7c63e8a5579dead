------------------------------ MODULE MCTerminal ------------------------------
(***************************************************************************)
(* Terminal for TLC: a Codex session and one of OpenCode.                  *)
(***************************************************************************)
EXTENDS Terminal, TLC

CONSTANTS s1, s2, b1, b2, b3

=============================================================================
