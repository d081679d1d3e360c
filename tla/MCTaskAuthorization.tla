------------------------ MODULE MCTaskAuthorization ------------------------
(* Instances of TaskAuthorization for TLC. *)
EXTENDS TaskAuthorization, TLC

DefaultPolicy == [mfa |-> FALSE, tinfoil |-> FALSE, base |-> 1, high |-> 2]
MfaPolicy == [DefaultPolicy EXCEPT !.mfa = TRUE]
TinfoilPolicy == [MfaPolicy EXCEPT !.tinfoil = TRUE, !.high = 1]

MixedPolicies == {DefaultPolicy, MfaPolicy, TinfoilPolicy}

Symmetry == Permutations(Users) \cup Permutations(Requests) \cup Permutations(Tasks)
=============================================================================
