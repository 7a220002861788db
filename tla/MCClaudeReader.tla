--------------------------- MODULE MCClaudeReader ---------------------------
(* Small instances of ClaudeReader for TLC; a tick is three minutes. *)
EXTENDS ClaudeReader

\* Claude's policy: the first rung is MinInterval, the pause is longer than it.
MCLadder == <<1, 2>>
=============================================================================
