---------------------------- MODULE MCNodeTrust ----------------------------
(* Instances of NodeTrust for TLC. *)
EXTENDS NodeTrust

Sent(deduct, ceiling, worst) == [deduct |-> deduct, ceiling |-> ceiling, worst |-> worst]

\* Clean under an established, a new and an unhardened node's ceiling (the last at,
\* above and below the threshold), and with problems from slight to all at once.
SampleReports ==
    {Sent(0, 100, "healthy"), Sent(0, 60, "healthy"), Sent(0, 30, "healthy"),
     Sent(0, 20, "healthy"), Sent(6, 100, "healthy"), Sent(8, 75, "degraded"),
     Sent(25, 60, "unhealthy"), Sent(108, 100, "unhealthy")}

SamplePenalties == {25, 35, 40}
=============================================================================
