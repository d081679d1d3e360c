---------------------------- MODULE NodeRegistry ----------------------------
(***************************************************************************)
(* NodesService's registry of backend nodes, their one-time enrollment     *)
(* tokens, and the client certificates that Vault issues them through      *)
(* VaultPkiService.                                                        *)
(*                                                                         *)
(* Handlers are suspended at their awaits: bcrypt in register and          *)
(* reEnroll, Vault in register, renewCert and removeNode, and the node     *)
(* itself in removeNode.  What a handler read before an await it uses      *)
(* after it: the token it compares, the serial it revokes, the position    *)
(* in the array it removes.  A node's record outlives its place in the     *)
(* array while a handler refers to it.                                     *)
(*                                                                         *)
(* Abstractions: a token is its generation; a certificate is its number in *)
(* Vault's history; what the decommissioned node answers changes nothing.  *)
(* Time only takes possibilities away: a token past its 24 hours is as one *)
(* nobody tries, and an expired certificate as one nobody renews with.     *)
(***************************************************************************)
EXTENDS Naturals, Sequences, SequencesExt

CONSTANTS
    Nodes,      \* ids of the nodes that can be enrolled
    Requests,   \* slots for suspended requests
    MaxTokens,  \* bound on a node's enrollment tokens
    MaxCerts    \* bound on the certificates issued

ASSUME BoundsAssumption == MaxTokens \in Nat /\ MaxCerts \in Nat

VARIABLES
    list,       \* MemoryStore.backendNodes, in its order
    token,      \* token[n]: enrollment token hash, and whether it is used
    serial,     \* serial[n]: tlsCertSerial, 0 when undefined
    vault,      \* Vault's certificates
    req,        \* req[r]: the request suspended in slot r
    accepted,   \* history: registrations accepted on each token of a node, up to 2
    removed,    \* history: nodes whose removal has been answered with removed: true
    disturbed   \* history: nodes with overlapping requests, or failed ones at Vault

vars == <<list, token, serial, vault, req, accepted, removed, disturbed>>

Token == [gen : 0 .. MaxTokens, used : BOOLEAN]
Cert == [node : Nodes, valid : BOOLEAN]

Idle == [op |-> "idle"]
Compare == [op : {"compare"}, node : Nodes, gen : 1 .. MaxTokens]
Hash == [op : {"hash"}, node : Nodes]
Reasons == {"register", "renew", "remove"}
Revocation == [op : {"revoke"}, node : Nodes, why : Reasons, cert : 1 .. MaxCerts,
               index : Nat]
Issue == [op : {"issue"}, node : Nodes]
Leave == [op : {"leave"}, node : Nodes, index : Nat]

TypeOK ==
    /\ list \in Seq(Nodes)
    /\ token \in [Nodes -> Token]
    /\ serial \in [Nodes -> 0 .. Len(vault)]
    /\ vault \in Seq(Cert)
    /\ req \in [Requests -> {Idle} \cup Compare \cup Hash \cup Revocation \cup Issue \cup Leave]
    /\ accepted \in [Nodes -> [1 .. MaxTokens -> 0 .. 2]]
    /\ removed \subseteq Nodes
    /\ disturbed \subseteq Nodes

-----------------------------------------------------------------------------
Listed(n) == \E i \in 1 .. Len(list) : list[i] = n

\* Slip: the position counted from one where splice counts from zero.
NextPosition(n) == 1 + CHOOSE i \in 1 .. Len(list) : list[i] = n

\* findIndex
Position(n) == CHOOSE i \in 1 .. Len(list) : list[i] = n

\* splice(index, 1)
Spliced(index) == IF index <= Len(list) THEN RemoveAt(list, index) ELSE list

Busy(n) == \E r \in Requests : req[r] # Idle /\ req[r].node = n

Removing == {n \in Nodes : \E r \in Requests :
                /\ req[r].op = "leave" \/ (req[r].op = "revoke" /\ req[r].why = "remove")
                /\ req[r].node = n}

Suspend(r, request) == req' = [req EXCEPT ![r] = request]
End(r) == Suspend(r, Idle)

\* A request on node n starts; the history notes whether it overlaps another.
Begin(r, n, request) ==
    /\ req[r] = Idle
    /\ Suspend(r, request)
    /\ disturbed' = IF Busy(n) THEN disturbed \cup {n} ELSE disturbed

-----------------------------------------------------------------------------
(* Enrollment tokens *)

\* Slip: a re-enrollment without a token of its own.
Reopened(tok) == [tok EXCEPT !.used = FALSE]

Reissued(tok) == [gen |-> tok.gen + 1, used |-> FALSE]

\* createEnrollment: everything before its await concerns the new node alone.
CreateEnrollment(n) ==
    /\ token[n].gen = 0 /\ MaxTokens > 0
    /\ token' = [token EXCEPT ![n] = [gen |-> 1, used |-> FALSE]]
    /\ list' = Append(list, n)
    /\ UNCHANGED <<serial, vault, req, accepted, removed, disturbed>>

StartReEnroll(r, n) ==
    /\ Listed(n)
    /\ Begin(r, n, [op |-> "hash", node |-> n])
    /\ UNCHANGED <<list, token, serial, vault, accepted, removed>>

FinishReEnroll(r) ==
    /\ req[r].op = "hash"
    /\ token[req[r].node].gen < MaxTokens
    /\ token' = [token EXCEPT ![req[r].node] = Reissued(@)]
    /\ End(r)
    /\ UNCHANGED <<list, serial, vault, accepted, removed, disturbed>>

-----------------------------------------------------------------------------
(* Certificates *)

\* What comes after the revocation, or at once without a certificate to revoke
AfterRevoke(n, why, index) ==
    IF why = "remove" THEN [op |-> "leave", node |-> n, index |-> index]
    ELSE [op |-> "issue", node |-> n]

\* Slip: the certificate a node had is forgotten.
NeverRevoke(n, why, index) == AfterRevoke(n, why, index)

\* What registration, renewal and removal do first: revoke the recorded certificate.
FirstStep(n, why, index) ==
    IF serial[n] = 0 THEN AfterRevoke(n, why, index)
    ELSE [op |-> "revoke", node |-> n, why |-> why, cert |-> serial[n], index |-> index]

\* register up to its comparison of the token: the hash it compares with is read
\* now, so only the current token passes.
StartRegister(r, n) ==
    /\ Listed(n)
    /\ ~token[n].used
    /\ Begin(r, n, [op |-> "compare", node |-> n, gen |-> token[n].gen])
    /\ UNCHANGED <<list, token, serial, vault, accepted, removed>>

\* The comparison succeeds: the token, whichever it is by now, counts as used.
FinishCompare(r) ==
    LET n == req[r].node IN
    /\ req[r].op = "compare"
    /\ token' = [token EXCEPT ![n].used = TRUE]
    /\ accepted' = [accepted EXCEPT ![n][req[r].gen] = IF @ = 0 THEN 1 ELSE 2]
    /\ Suspend(r, FirstStep(n, "register", 0))
    /\ UNCHANGED <<list, serial, vault, removed, disturbed>>

\* renewCert, called with any certificate of the node's: the guard tests that the
\* authority signed it, and revocation lists lag.
StartRenew(r, n) ==
    /\ Listed(n)
    /\ \E c \in 1 .. Len(vault) : vault[c].node = n
    /\ Begin(r, n, FirstStep(n, "renew", 0))
    /\ UNCHANGED <<list, token, serial, vault, accepted, removed>>

\* Vault takes up a revocation or not; its answer, an error included, reaches the
\* server or not.  Without an answer revokeCert throws: register and renewCert
\* give up, removeNode goes on.
FinishRevoke(r, done, answered) ==
    LET this == req[r] IN
    /\ this.op = "revoke"
    /\ vault' = IF done THEN [vault EXCEPT ![this.cert].valid = FALSE] ELSE vault
    /\ IF answered \/ this.why = "remove"
       THEN Suspend(r, AfterRevoke(this.node, this.why, this.index))
       ELSE End(r)
    /\ disturbed' = IF done /\ answered THEN disturbed ELSE disturbed \cup {this.node}
    /\ UNCHANGED <<list, token, serial, accepted, removed>>

Record(n, c) == serial' = [serial EXCEPT ![n] = c]

FinishIssue(r) ==
    /\ req[r].op = "issue"
    /\ Len(vault) < MaxCerts
    /\ vault' = Append(vault, [node |-> req[r].node, valid |-> TRUE])
    /\ Record(req[r].node, Len(vault) + 1)
    /\ End(r)
    /\ UNCHANGED <<list, token, accepted, removed, disturbed>>

\* Vault refuses, or its answer is lost after it has issued the certificate.
FailIssue(r, issued) ==
    /\ req[r].op = "issue"
    /\ issued => Len(vault) < MaxCerts
    /\ vault' = IF issued THEN Append(vault, [node |-> req[r].node, valid |-> TRUE])
                ELSE vault
    /\ disturbed' = disturbed \cup {req[r].node}
    /\ End(r)
    /\ UNCHANGED <<list, token, serial, accepted, removed>>

-----------------------------------------------------------------------------
(* Removal *)

\* Removals of two nodes disturb each other: positions shift.
StartRemove(r, n) ==
    /\ Listed(n)
    /\ req[r] = Idle
    /\ Suspend(r, FirstStep(n, "remove", Position(n)))
    /\ disturbed' = disturbed \cup (IF Busy(n) THEN {n} ELSE {})
                              \cup (IF Removing # {} THEN Removing \cup {n} ELSE {})
    /\ UNCHANGED <<list, token, serial, vault, accepted, removed>>

\* The node has answered, or three seconds have passed.
FinishRemove(r) ==
    /\ req[r].op = "leave"
    /\ list' = Spliced(req[r].index)
    /\ removed' = removed \cup {req[r].node}
    /\ End(r)
    /\ UNCHANGED <<token, serial, vault, accepted, disturbed>>

-----------------------------------------------------------------------------
Init ==
    /\ list = <<>>
    /\ token = [n \in Nodes |-> [gen |-> 0, used |-> FALSE]]
    /\ serial = [n \in Nodes |-> 0]
    /\ vault = <<>>
    /\ req = [r \in Requests |-> Idle]
    /\ accepted = [n \in Nodes |-> [g \in 1 .. MaxTokens |-> 0]]
    /\ removed = {}
    /\ disturbed = {}

\* The server restarts: what was suspended ends where it was.
Restart ==
    /\ req' = [r \in Requests |-> Idle]
    /\ disturbed' = disturbed \cup {n \in Nodes : Busy(n)}
    /\ UNCHANGED <<list, token, serial, vault, accepted, removed>>

NodeStep(n) ==
    \/ CreateEnrollment(n)
    \/ \E r \in Requests : StartReEnroll(r, n) \/ StartRegister(r, n) \/ StartRenew(r, n)
                           \/ StartRemove(r, n)

RequestStep(r) ==
    \/ FinishReEnroll(r) \/ FinishCompare(r) \/ FinishIssue(r) \/ FinishRemove(r)
    \/ \E done, answered \in BOOLEAN : FinishRevoke(r, done, answered)
    \/ \E issued \in BOOLEAN : FailIssue(r, issued)

Next ==
    \/ \E n \in Nodes : NodeStep(n)
    \/ \E r \in Requests : RequestStep(r)
    \/ Restart

Spec == Init /\ [][Next]_vars

-----------------------------------------------------------------------------
(* Properties.  They speak of nodes whose requests did not overlap and did not *)
(* fail at Vault, while those of other nodes do as they please.                *)

\* An enrollment token registers a node once, over re-enrollments, restarts and
\* removals, and no registration spends another token (register, reEnroll).
TokensOnce ==
    \A n \in Nodes \ disturbed :
        /\ \A g \in 1 .. MaxTokens : accepted[n][g] <= 1
        /\ token[n].used => accepted[n][token[n].gen] = 1

\* A certificate of a node that Vault would still accept is the one on record:
\* none is forgotten by re-registration or renewal (register, renewCert).
CertsRecorded ==
    \A n \in Nodes \ disturbed, c \in 1 .. Len(vault) :
        vault[c] = [node |-> n, valid |-> TRUE] => serial[n] = c

\* The README's "Certs are revoked immediately when a node is decommissioned": a
\* removed node has no valid certificate, however many it was issued (removeNode).
RemovedHasNoCert ==
    \A n \in removed \ disturbed, c \in 1 .. Len(vault) :
        vault[c] # [node |-> n, valid |-> TRUE]

\* A node leaves the registry only when its own removal ends, although the removal
\* found its position in the array two awaits earlier (removeNode).
Leaves(n) == Listed(n) /\ ~\E i \in 1 .. Len(list') : list'[i] = n

RemovedByName ==
    [][\A n \in Nodes : Leaves(n) =>
          \E r \in Requests : req[r].op = "leave"
                              /\ (req[r].node = n \/ req[r].node \in disturbed)]_vars
=============================================================================
