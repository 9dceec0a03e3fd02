---------------------------- MODULE MCRuleEngine ----------------------------
(* Three edits on top of each other, two resolutions, or an edit and a        *)
(* resolution in either order, with the validation before, between and after. *)
EXTENDS RuleEngine
=============================================================================
