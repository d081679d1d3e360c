--------------------------- MODULE MCSiemPipeline ---------------------------
(* Instances of SiemPipeline for TLC. *)
EXTENDS SiemPipeline, TLC

\* Two events of one tenant and one of another
Owners == [e \in Events |-> IF e = 2 THEN "t2" ELSE "t1"]
LeftOver == <<3>>

Full == [to |-> <<"webhook", "syslog">>, keeps |-> Events]
Minimal == [to |-> <<"webhook">>, keeps |-> {1}]
SomeConfigs == {Full, Minimal}

Symmetry == Permutations(Requests)
=============================================================================
