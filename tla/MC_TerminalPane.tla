---------------------------- MODULE MC_TerminalPane ----------------------------
(* Model-checking instances of TerminalPane. *)
EXTENDS TerminalPane
=============================================================================
