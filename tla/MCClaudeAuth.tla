---------------------------- MODULE MCClaudeAuth ----------------------------
(* Small instances of ClaudeAuth for TLC. *)
EXTENDS ClaudeAuth

\* Two rungs tell a growing wait from its cap.
MCLadder == <<1, 2>>
=============================================================================
