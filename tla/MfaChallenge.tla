---------------------------- MODULE MfaChallenge ----------------------------
(***************************************************************************)
(* MfaChallengeService: the challenges that approvals are paid with.       *)
(*                                                                         *)
(* A challenge is a record in Dragonfly, an external store that executes   *)
(* one command at a time.  verifyChallenge reads the record, checks it and *)
(* the TOTP code, and writes it back; consumeVerifiedChallenge reads it,   *)
(* checks it and deletes it.  The commands of concurrent requests          *)
(* interleave between the read and the write, so both operations are split *)
(* there.  With Outages a write or a delete may be lost without an error:  *)
(* DragonflyService only logs a failed command.                            *)
(***************************************************************************)
EXTENDS Naturals

CONSTANTS
    Users,
    NoUser,       \* the user of a record that is not there
    Challenges,   \* challenge ids
    Requests,     \* slots for requests between their read and their write
    Outages,      \* whether the store may lose commands
    MaxUses       \* bound on the acceptances counted per challenge

ASSUME NoUserAssumption == NoUser \notin Users
ASSUME OutagesAssumption == Outages \in BOOLEAN
ASSUME MaxUsesAssumption == MaxUses \in Nat \ {0, 1}

VARIABLES
    store,     \* store[c]: the record of c in Dragonfly
    issued,    \* challenge ids handed out so far
    req,       \* req[r]: the operation of r between its read and its write
    \* history: no operation reads these
    proven,    \* <<c, u>>: u has given a right TOTP code for c
    uses,      \* uses[c]: approvals c was accepted for
    disturbed  \* challenges on which requests overlapped or a delete was lost

vars == <<store, issued, req, proven, uses, disturbed>>

Record == [user : Users, verified : BOOLEAN]
Absent == [user |-> NoUser, verified |-> FALSE]

Idle == [op |-> "idle"]
Operation == [op : {"verify", "consume"}, challenge : Challenges, user : Users]

TypeOK ==
    /\ store \in [Challenges -> Record \cup {Absent}]
    /\ issued \subseteq Challenges
    /\ req \in [Requests -> Operation \cup {Idle}]
    /\ proven \subseteq Challenges \X Users
    /\ uses \in [Challenges -> 0 .. MaxUses]
    /\ disturbed \subseteq Challenges

-----------------------------------------------------------------------------
(* A command of DragonflyService that writes record r for challenge c *)

Write(c, r) ==
    \/ store' = [store EXCEPT ![c] = r]
    \/ Outages /\ store' = store

Busy(c) == \E r \in Requests : req[r].op # "idle" /\ req[r].challenge = c

Begin(r, op, c, u) ==
    /\ req[r] = Idle
    /\ req' = [req EXCEPT ![r] = [op |-> op, challenge |-> c, user |-> u]]
    /\ disturbed' = IF Busy(c) THEN disturbed \cup {c} ELSE disturbed
    /\ UNCHANGED <<store, issued, proven, uses>>

End(r) == req' = [req EXCEPT ![r] = Idle]

\* issueChallenge: a fresh random id
Issue(c, u) ==
    /\ c \notin issued
    /\ issued' = issued \cup {c}
    /\ Write(c, [user |-> u, verified |-> FALSE])
    /\ UNCHANGED <<req, proven, uses, disturbed>>

\* verifyChallenge: a missing, foreign or verified record is an error.
StartVerify(r, c, u) ==
    /\ store[c] = [user |-> u, verified |-> FALSE]
    /\ Begin(r, "verify", c, u)

\* The code is right: the record read is written back as verified, whatever has
\* happened to it since.
FinishVerify(r) ==
    /\ req[r].op = "verify"
    /\ Write(req[r].challenge, [user |-> req[r].user, verified |-> TRUE])
    /\ proven' = proven \cup {<<req[r].challenge, req[r].user>>}
    /\ End(r)
    /\ UNCHANGED <<issued, uses, disturbed>>

\* The code is wrong.
RejectVerify(r) ==
    /\ req[r].op = "verify"
    /\ End(r)
    /\ UNCHANGED <<store, issued, proven, uses, disturbed>>

\* Slip: consume does not ask whether the challenge was verified.
OwnRecord(c, u) == store[c].user = u

Consumable(c, u) == store[c] = [user |-> u, verified |-> TRUE]

\* consumeVerifiedChallenge, up to the delete
StartConsume(r, c, u) ==
    /\ Consumable(c, u)
    /\ Begin(r, "consume", c, u)

\* Slip: consume puts the record back to unverified instead of deleting it.
Unverify(c) == store' = [store EXCEPT ![c].verified = FALSE]

Delete(c) == store' = [store EXCEPT ![c] = Absent]

\* The approval goes ahead whether or not there was a record left to delete.
FinishConsume(r) ==
    /\ req[r].op = "consume"
    /\ uses[req[r].challenge] < MaxUses
    /\ \/ Delete(req[r].challenge) /\ UNCHANGED disturbed
       \/ /\ Outages
          /\ disturbed' = disturbed \cup {req[r].challenge}
          /\ UNCHANGED store
    /\ uses' = [uses EXCEPT ![req[r].challenge] = @ + 1]
    /\ End(r)
    /\ UNCHANGED <<issued, proven>>

\* The record's TTL runs out.
Expire(c) ==
    /\ store[c] # Absent
    /\ store' = [store EXCEPT ![c] = Absent]
    /\ UNCHANGED <<issued, req, proven, uses, disturbed>>

\* The server restarts; Dragonfly keeps its records.
Restart ==
    /\ req' = [r \in Requests |-> Idle]
    /\ UNCHANGED <<store, issued, proven, uses, disturbed>>

-----------------------------------------------------------------------------
Init ==
    /\ store = [c \in Challenges |-> Absent]
    /\ issued = {}
    /\ req = [r \in Requests |-> Idle]
    /\ proven = {}
    /\ uses = [c \in Challenges |-> 0]
    /\ disturbed = {}

RequestStep(r) ==
    \/ \E c \in Challenges, u \in Users : StartVerify(r, c, u) \/ StartConsume(r, c, u)
    \/ FinishVerify(r) \/ RejectVerify(r) \/ FinishConsume(r)

Next ==
    \/ \E c \in Challenges, u \in Users : Issue(c, u)
    \/ \E c \in Challenges : Expire(c)
    \/ \E r \in Requests : RequestStep(r)
    \/ Restart

Spec == Init /\ [][Next]_vars

-----------------------------------------------------------------------------
(* Properties *)

\* An approval that has passed the store was paid for by a TOTP code its own
\* approver entered for this challenge: no lost write, late write-back, expiry
\* or restart lets an unproven challenge through (consumeVerifiedChallenge).
UsesAreProven ==
    \A r \in Requests : req[r].op = "consume" =>
        <<req[r].challenge, req[r].user>> \in proven

\* A challenge pays for one approval, whatever expires or restarts between its
\* verification and its use, unless two requests overlapped on it or the store
\* lost its deletion: an accepted challenge cannot be verified again
\* (consumeVerifiedChallenge).
SingleUseUndisturbed == \A c \in Challenges \ disturbed : uses[c] <= 1
=============================================================================
