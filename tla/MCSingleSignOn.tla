--------------------------- MODULE MCSingleSignOn ---------------------------
(* Instances of SingleSignOn for TLC. *)
EXTENDS SingleSignOn, TLC

\* A provider open to everybody, and one closed altogether.  A callback looks at
\* enabled in one step and at the rest in another, with updates between them, so
\* the settings in between add nothing; what a list refuses ends like a failed
\* exchange.
OpenOrClosed == {[enabled |-> on, autoProvision |-> on, allowed |-> Emails] : on \in BOOLEAN}

Symmetry == Permutations(Requests) \cup Permutations(Emails) \cup Permutations(Ids)
            \cup Permutations(Flows) \cup Permutations(Handoffs)
=============================================================================
