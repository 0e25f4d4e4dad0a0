-------------------------- MODULE MCNrsTbfRuleWalk ---------------------------
(* Two rules, of which the older fits the client. *)
EXTENDS NrsTbfRuleWalk
CONSTANTS newer, older
MCInitList == <<newer, older>>
==============================================================================
