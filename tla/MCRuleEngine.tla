---------------------------- MODULE MCRuleEngine ----------------------------
(* An instance of RuleEngine for TLC. *)
EXTENDS RuleEngine, TLC

CONSTANT k

MCEventRules == <<1, 2>>
\* Nothing to do, one draft, and two packages that look the same, followed by
\* an action that drafts nothing
MCPlans == {<<>>, <<Lookup, k>>, <<Lookup, k, k, Lookup>>}

Symmetry == Permutations(Execs)
=============================================================================
