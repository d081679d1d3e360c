-------------------------- MODULE AppendOnlyLedger --------------------------
(***************************************************************************)
(* What the task ledger promises (TaskLedgerService: "Append-only - never  *)
(* deletes the record"): entries are only ever added at the end, as active *)
(* entries, their contents never change, and the only change of an entry   *)
(* is its revocation, which is final.                                      *)
(***************************************************************************)
EXTENDS Naturals, Sequences

CONSTANT Contents    \* what an entry says: task, approvals, risk

VARIABLE log

Record == [content : Contents, state : {"active", "revoked"}]

Init == log = <<>>

\* Some entries are appended; every old one stays where it is.
Extend ==
    /\ log' \in Seq(Record)
    /\ Len(log') > Len(log)
    /\ \A i \in 1 .. Len(log) : log'[i] = log[i]
    /\ \A i \in Len(log) + 1 .. Len(log') : log'[i].state = "active"

RevokeOne ==
    \E i \in 1 .. Len(log) :
        /\ log[i].state = "active"
        /\ log' = [log EXCEPT ![i].state = "revoked"]

Next == Extend \/ RevokeOne

Spec == Init /\ [][Next]_log
=============================================================================
