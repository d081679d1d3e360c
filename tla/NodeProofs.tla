----------------------------- MODULE NodeProofs -----------------------------
(***************************************************************************)
(* Proofs about the backend nodes: about NodeRegistry for any set of       *)
(* nodes, any number of requests, tokens and certificates, and about       *)
(* NodeTrust for any enrolled nodes, any reports and penalties and any     *)
(* threshold up to the score an operator's clearance restores.             *)
(***************************************************************************)
EXTENDS NodeRegistry, NodeTrust, SequenceTheorems, TLAPS

-----------------------------------------------------------------------------
(* Requests and the list *)

On(r, n) == req[r] # Idle /\ req[r].node = n

IsRemoval(request) ==
    \/ request.op = "leave"
    \/ request.op = "revoke" /\ request.why = "remove"

\* What a request is, by its op.
LEMMA Kinds ==
    ASSUME TypeOK, NEW r \in Requests
    PROVE  /\ req[r].op = "idle" => req[r] = Idle
           /\ req[r].op = "compare" => req[r] \in Compare
           /\ req[r].op = "hash" => req[r] \in Hash
           /\ req[r].op = "revoke" => req[r] \in Revocation
           /\ req[r].op = "issue" => req[r] \in Issue
           /\ req[r].op = "leave" => req[r] \in Leave
           /\ req[r].op # "idle" => req[r] # Idle
           /\ req[r] # Idle => req[r].node \in Nodes
<1>1. req[r] \in {Idle} \cup Compare \cup Hash \cup Revocation \cup Issue \cup Leave
  BY DEF TypeOK
<1>2. CASE req[r] = Idle
  BY <1>2 DEF Idle
<1>3. CASE req[r] \in Compare
  BY <1>3 DEF Idle, Compare
<1>4. CASE req[r] \in Hash
  BY <1>4 DEF Idle, Hash
<1>5. CASE req[r] \in Revocation
  BY <1>5 DEF Idle, Revocation
<1>6. CASE req[r] \in Issue
  BY <1>6 DEF Idle, Issue
<1>7. CASE req[r] \in Leave
  BY <1>7 DEF Idle, Leave
<1>8. QED
  BY <1>1, <1>2, <1>3, <1>4, <1>5, <1>6, <1>7

\* splice takes out one element and keeps the order of the others.
LEMMA SpliceFacts ==
    ASSUME NEW S, NEW s \in Seq(S), NEW i \in 1 .. Len(s)
    PROVE  /\ RemoveAt(s, i) \in Seq(S)
           /\ Len(RemoveAt(s, i)) = Len(s) - 1
           /\ \A k \in 1 .. Len(s) - 1 : RemoveAt(s, i)[k] = IF k < i THEN s[k] ELSE s[k + 1]
<1> DEFINE front == SubSeq(s, 1, i - 1)
           back == SubSeq(s, i + 1, Len(s))
<1>1. Len(s) \in Nat /\ \A k \in 1 .. Len(s) : s[k] \in S
  BY LenProperties, ElementOfSeq
<1>2. /\ front \in Seq(S) /\ Len(front) = i - 1
      /\ \A k \in 1 .. i - 1 : front[k] = s[k]
  <2>1. \A k \in 1 .. i - 1 : s[k] \in S
    BY <1>1
  <2>2. QED
    BY <1>1, <2>1, SubSeqProperties
<1>3. /\ back \in Seq(S) /\ Len(back) = Len(s) - i
      /\ \A k \in 1 .. Len(s) - i : back[k] = s[i + k]
  BY <1>1, SubSeqProperties
<1>4. /\ front \o back \in Seq(S) /\ Len(front \o back) = Len(front) + Len(back)
      /\ \A k \in 1 .. Len(front) + Len(back) :
           (front \o back)[k] = IF k <= Len(front) THEN front[k] ELSE back[k - Len(front)]
  BY <1>2, <1>3, ConcatProperties
<1>5. RemoveAt(s, i) = front \o back
  BY DEF RemoveAt
<1>6. QED
  <2> HIDE DEF front, back
  <2> DEFINE c == front \o back
  <2>1. Len(c) = Len(s) - 1
    BY <1>1, <1>2, <1>3, <1>4
  <2>2. \A k \in 1 .. Len(s) - 1 : c[k] = IF k < i THEN s[k] ELSE s[k + 1]
    <3>1. ASSUME NEW k \in 1 .. Len(s) - 1 PROVE c[k] = IF k < i THEN s[k] ELSE s[k + 1]
      <4>1. c[k] = IF k <= i - 1 THEN front[k] ELSE back[k - (i - 1)]
        BY <1>1, <1>2, <1>3, <1>4
      <4>2. CASE k < i
        BY <1>1, <1>2, <4>1, <4>2
      <4>3. CASE ~(k < i)
        <5>1. k - (i - 1) \in 1 .. Len(s) - i /\ i + (k - (i - 1)) = k + 1 /\ ~(k <= i - 1)
          BY <1>1, <4>3
        <5>2. QED
          BY <1>3, <4>1, <4>3, <5>1
      <4>4. QED
        BY <4>2, <4>3
    <3>2. QED
      BY <3>1
  <2>3. QED
    <3> HIDE DEF c
    <3>1. c \in Seq(S)
      BY <1>4 DEF c
    <3>2. RemoveAt(s, i) = c
      BY <1>5 DEF c
    <3>3. QED
      BY <2>1, <2>2, <3>1, <3>2

LEMMA PositionFacts ==
    ASSUME TypeOK, NEW n \in Nodes, Listed(n)
    PROVE  /\ Position(n) \in 1 .. Len(list) /\ list[Position(n)] = n
           /\ Position(n) \in Nat \ {0}
<1>1. \E i \in 1 .. Len(list) : list[i] = n
  BY DEF Listed
<1>2. Position(n) \in 1 .. Len(list) /\ list[Position(n)] = n
  BY <1>1 DEF Position
<1>3. Len(list) \in Nat
  BY LenProperties DEF TypeOK
<1>4. QED
  BY <1>2, <1>3
-----------------------------------------------------------------------------
(* Types *)

\* Beyond the types: the certificates are within their bound, which is why a serial
\* is a certificate's number; whoever may register has had a token; and a removal
\* has found a position.
Types ==
    /\ TypeOK
    /\ Len(vault) <= MaxCerts
    /\ \A i \in 1 .. Len(list) : token[list[i]].gen >= 1
    /\ \A r \in Requests : req[r] # Idle => token[req[r].node].gen >= 1
    /\ \A n \in removed : token[n].gen >= 1
    /\ \A r \in Requests : IsRemoval(req[r]) => req[r].index # 0

LEMMA FirstStepTyped ==
    ASSUME TypeOK, Len(vault) <= MaxCerts, NEW n \in Nodes, NEW why \in Reasons, NEW index \in Nat
    PROVE  /\ FirstStep(n, why, index) \in Revocation \cup Issue \cup Leave
           /\ FirstStep(n, why, index) # Idle
           /\ FirstStep(n, why, index).node = n
           /\ IsRemoval(FirstStep(n, why, index)) =>
                why = "remove" /\ FirstStep(n, why, index).index = index
<1>1. CASE serial[n] = 0 /\ why = "remove"
  BY <1>1 DEF FirstStep, AfterRevoke, Leave, Idle, IsRemoval
<1>2. CASE serial[n] = 0 /\ why # "remove"
  BY <1>2 DEF FirstStep, AfterRevoke, Issue, Idle, IsRemoval
<1>3. CASE serial[n] # 0
  <2>1. serial[n] \in 0 .. Len(vault) /\ Len(vault) \in Nat
    BY LenProperties DEF TypeOK
  <2>2. serial[n] \in 1 .. MaxCerts
    BY <1>3, <2>1, BoundsAssumption
  <2>3. QED
    BY <1>3, <2>2 DEF FirstStep, Revocation, Idle, IsRemoval
<1>4. QED
  BY <1>1, <1>2, <1>3

\* A request that starts leaves everything else as it is.
LEMMA StartTypes ==
    ASSUME Types, NEW r \in Requests, NEW n \in Nodes, Listed(n),
           NEW q \in Compare \cup Hash \cup Revocation \cup Issue \cup Leave,
           q.node = n, IsRemoval(q) => q.index # 0, Suspend(r, q), disturbed' \subseteq Nodes,
           UNCHANGED <<list, token, serial, vault, accepted, removed>>
    PROVE  Types'
<1>1. token[n].gen >= 1
  BY DEF Listed, Types
<1>2. req' = [req EXCEPT ![r] = q]
  BY DEF Suspend
<1>3. req' \in [Requests -> {Idle} \cup Compare \cup Hash \cup Revocation \cup Issue \cup Leave]
  BY <1>2 DEF Types, TypeOK
<1>4. \A s \in Requests : req'[s] = req[s] \/ (s = r /\ req'[s] = q)
  BY <1>2 DEF Types, TypeOK
<1>5. \A s \in Requests : req'[s] # Idle => token'[req'[s].node].gen >= 1
  BY <1>1, <1>4 DEF Types
<1>6. \A s \in Requests : IsRemoval(req'[s]) => req'[s].index # 0
  BY <1>4 DEF Types
<1>7. QED
  BY <1>3, <1>5, <1>6 DEF Types, TypeOK, IsRemoval

\* A request that goes on stays on its node; tokens only grow.
LEMMA MoveTypes ==
    ASSUME Types, NEW r \in Requests, req[r] # Idle,
           NEW q \in {Idle} \cup Compare \cup Hash \cup Revocation \cup Issue \cup Leave,
           q = Idle \/ q.node = req[r].node, IsRemoval(q) => q.index # 0, Suspend(r, q),
           list' \in Seq(Nodes), token' \in [Nodes -> Token], vault' \in Seq(Cert),
           serial' \in [Nodes -> 0 .. Len(vault')], Len(vault') <= MaxCerts,
           accepted' \in [Nodes -> [1 .. MaxTokens -> 0 .. 2]],
           disturbed' \subseteq Nodes,
           \A n \in Nodes : token'[n].gen >= token[n].gen,
           \A i \in 1 .. Len(list') : \E k \in 1 .. Len(list) : list'[i] = list[k],
           removed' \subseteq removed \cup {req[r].node}
    PROVE  Types'
<1>1. req[r].node \in Nodes /\ token[req[r].node].gen >= 1
  BY Kinds DEF Types
<1>2. req' = [req EXCEPT ![r] = q]
  BY DEF Suspend
<1>3. req' \in [Requests -> {Idle} \cup Compare \cup Hash \cup Revocation \cup Issue \cup Leave]
  BY <1>2 DEF Types, TypeOK
<1>4. \A s \in Requests : req'[s] = req[s] \/ (s = r /\ req'[s] = q)
  BY <1>2 DEF Types, TypeOK
<1>5. ASSUME NEW n \in Nodes, token[n].gen >= 1 PROVE token'[n].gen >= 1
  <2>1. token[n].gen \in Int /\ token'[n].gen \in Int
    BY DEF Types, TypeOK, Token
  <2>2. token'[n].gen >= token[n].gen
    OBVIOUS
  <2>3. QED
    BY <1>5, <2>1, <2>2
<1>6. \A s \in Requests : req'[s] # Idle => token'[req'[s].node].gen >= 1
  <2>1. ASSUME NEW s \in Requests, req'[s] # Idle PROVE token'[req'[s].node].gen >= 1
    <3>1. CASE req'[s] = req[s]
      <4>1. req[s].node \in Nodes /\ token[req[s].node].gen >= 1
        BY <2>1, <3>1, Kinds DEF Types
      <4>2. QED
        BY <1>5, <3>1, <4>1
    <3>2. CASE s = r /\ req'[s] = q
      BY <1>1, <1>5, <2>1, <3>2
    <3>3. QED
      BY <1>4, <3>1, <3>2
  <2>2. QED
    BY <2>1
<1>7. \A i \in 1 .. Len(list') : token'[list'[i]].gen >= 1
  <2>1. ASSUME NEW i \in 1 .. Len(list') PROVE token'[list'[i]].gen >= 1
    <3>1. PICK k \in 1 .. Len(list) : list'[i] = list[k]
      OBVIOUS
    <3>2. list[k] \in Nodes /\ token[list[k]].gen >= 1
      BY ElementOfSeq DEF Types, TypeOK
    <3>3. QED
      BY <1>5, <3>1, <3>2
  <2>2. QED
    BY <2>1
<1>8. removed' \subseteq Nodes /\ \A n \in removed' : token'[n].gen >= 1
  BY <1>1, <1>5 DEF Types, TypeOK
<1>9. \A s \in Requests : IsRemoval(req'[s]) => req'[s].index # 0
  BY <1>4 DEF Types
<1>10. QED
  BY <1>3, <1>6, <1>7, <1>8, <1>9 DEF Types, TypeOK, IsRemoval

LEMMA CreateTypes ==
    ASSUME Types, NEW n \in Nodes, CreateEnrollment(n) PROVE Types'
<1>1. /\ token' = [token EXCEPT ![n] = [gen |-> 1, used |-> FALSE]]
      /\ list' = Append(list, n)
      /\ UNCHANGED <<serial, vault, req, accepted, removed, disturbed>>
      /\ MaxTokens > 0
  BY DEF CreateEnrollment
<1>2. token' \in [Nodes -> Token]
  BY <1>1, BoundsAssumption DEF Types, TypeOK, Token
<1>3. \A k \in Nodes : token[k].gen >= 1 => token'[k].gen >= 1
  BY <1>1 DEF Types, TypeOK
<1>4. /\ list \in Seq(Nodes) /\ list' \in Seq(Nodes) /\ Len(list') = Len(list) + 1 /\ Len(list) \in Nat
      /\ \A i \in 1 .. Len(list) : list'[i] = list[i]
      /\ list'[Len(list) + 1] = n
  BY <1>1, AppendProperties, LenProperties DEF Types, TypeOK
<1>5. \A i \in 1 .. Len(list') : token'[list'[i]].gen >= 1
  <2>1. ASSUME NEW i \in 1 .. Len(list') PROVE token'[list'[i]].gen >= 1
    <3>1. CASE i \in 1 .. Len(list)
      BY <1>3, <1>4, <3>1, ElementOfSeq DEF Types
    <3>2. CASE i = Len(list) + 1
      BY <1>1, <1>4, <3>2 DEF Types, TypeOK
    <3>3. QED
      BY <1>4, <3>1, <3>2
  <2>2. QED
    BY <2>1
<1>6. \A r \in Requests : req'[r] # Idle => token'[req'[r].node].gen >= 1
  BY <1>1, <1>3, Kinds DEF Types
<1>7. QED
  BY <1>1, <1>2, <1>3, <1>4, <1>5, <1>6 DEF Types, TypeOK, IsRemoval

LEMMA TypesStart == Init => Types
<1> SUFFICES ASSUME Init PROVE Types
  OBVIOUS
<1>1. <<>> \in Seq(Nodes) /\ <<>> \in Seq(Cert) /\ Len(<<>>) = 0
  BY EmptySeq
<1>2. QED
  BY <1>1, BoundsAssumption DEF Init, Types, TypeOK, Token, IsRemoval, Idle
LEMMA VaultFacts ==
    ASSUME TypeOK, NEW n \in Nodes
    PROVE  /\ Append(vault, [node |-> n, valid |-> TRUE]) \in Seq(Cert)
           /\ Len(Append(vault, [node |-> n, valid |-> TRUE])) = Len(vault) + 1
           /\ \A c \in 1 .. Len(vault) : Append(vault, [node |-> n, valid |-> TRUE])[c] = vault[c]
           /\ Append(vault, [node |-> n, valid |-> TRUE])[Len(vault) + 1] = [node |-> n, valid |-> TRUE]
           /\ Len(vault) \in Nat
<1>1. vault \in Seq(Cert) /\ [node |-> n, valid |-> TRUE] \in Cert
  BY DEF TypeOK, Cert
<1>2. QED
  BY <1>1, AppendProperties, LenProperties

LEMMA SameEnd ==
    ASSUME NEW m \in Nat, NEW k \in Nat, 1 .. m = 1 .. k PROVE m = k
<1>1. CASE m < k
  <2>1. k \in 1 .. k /\ k \notin 1 .. m
    BY <1>1
  <2>2. QED
    BY <2>1
<1>2. CASE k < m
  <2>1. m \in 1 .. m /\ m \notin 1 .. k
    BY <1>2
  <2>2. QED
    BY <2>1
<1>3. QED
  BY <1>1, <1>2

LEMMA RevokedFacts ==
    ASSUME TypeOK, NEW c \in Nat
    PROVE  /\ [vault EXCEPT ![c].valid = FALSE] \in Seq(Cert)
           /\ Len([vault EXCEPT ![c].valid = FALSE]) = Len(vault)
           /\ \A d \in 1 .. Len(vault) :
                /\ [vault EXCEPT ![c].valid = FALSE][d].node = vault[d].node
                /\ [vault EXCEPT ![c].valid = FALSE][d].valid = (vault[d].valid /\ d # c)
<1> DEFINE v == [vault EXCEPT ![c].valid = FALSE]
<1>1. vault \in [1 .. Len(vault) -> Cert] /\ Len(vault) \in Nat
  <2>1. vault \in Seq(Cert)
    BY DEF TypeOK
  <2>2. QED
    BY <2>1, LenProperties, ElementOfSeq
<1>2. v \in [1 .. Len(vault) -> Cert]
  BY <1>1 DEF Cert
<1>3. v \in Seq(Cert) /\ Len(v) = Len(vault)
  <2> HIDE DEF v
  <2>1. v \in Seq(Cert)
    BY <1>1, <1>2, SeqDef
  <2>2. DOMAIN v = 1 .. Len(v) /\ DOMAIN v = 1 .. Len(vault) /\ Len(v) \in Nat
    BY <1>2, <2>1, LenProperties
  <2>3. Len(v) = Len(vault)
    BY <1>1, <2>2, SameEnd
  <2>4. QED
    BY <2>1, <2>3
<1>4. \A d \in 1 .. Len(vault) : v[d].node = vault[d].node /\ v[d].valid = (vault[d].valid /\ d # c)
  BY <1>1 DEF Cert
<1>5. QED
  BY <1>3, <1>4

LEMMA AfterRevokeTyped ==
    ASSUME NEW n \in Nodes, NEW why \in Reasons, NEW index \in Nat
    PROVE  /\ AfterRevoke(n, why, index) \in Issue \cup Leave
           /\ AfterRevoke(n, why, index).node = n /\ AfterRevoke(n, why, index) # Idle
           /\ IsRemoval(AfterRevoke(n, why, index)) =>
                why = "remove" /\ AfterRevoke(n, why, index).index = index
BY DEF AfterRevoke, Issue, Leave, Idle, IsRemoval

\* Splicing leaves members of the list.
LEMMA SplicedFacts ==
    ASSUME TypeOK, NEW index \in Nat \ {0}
    PROVE  /\ Spliced(index) \in Seq(Nodes)
           /\ \A i \in 1 .. Len(Spliced(index)) : \E k \in 1 .. Len(list) : Spliced(index)[i] = list[k]
<1>1. list \in Seq(Nodes) /\ Len(list) \in Nat
  BY LenProperties DEF TypeOK
<1>2. CASE ~(index <= Len(list))
  BY <1>1, <1>2 DEF Spliced
<1>3. CASE index <= Len(list)
  <2>1. index \in 1 .. Len(list)
    BY <1>1, <1>3
  <2>2. /\ RemoveAt(list, index) \in Seq(Nodes) /\ Len(RemoveAt(list, index)) = Len(list) - 1
        /\ \A k \in 1 .. Len(list) - 1 :
             RemoveAt(list, index)[k] = IF k < index THEN list[k] ELSE list[k + 1]
    BY <1>1, <2>1, SpliceFacts
  <2>3. \A k \in 1 .. Len(list) - 1 : k \in 1 .. Len(list) /\ k + 1 \in 1 .. Len(list)
    BY <1>1
  <2>4. Spliced(index) = RemoveAt(list, index)
    BY <1>3 DEF Spliced
  <2>5. QED
    BY <2>2, <2>3, <2>4
<1>4. QED
  BY <1>2, <1>3
LEMMA NodeStepTypes ==
    ASSUME Types, NEW n \in Nodes, NodeStep(n) PROVE Types'
<1>0. TypeOK /\ Len(vault) <= MaxCerts
  BY DEF Types
<1>1. CASE CreateEnrollment(n)
  BY <1>1, CreateTypes
<1>2. ASSUME NEW r \in Requests, StartReEnroll(r, n) PROVE Types'
  <2> DEFINE q == [op |-> "hash", node |-> n]
  <2>1. q \in Hash /\ q.node = n /\ ~IsRemoval(q)
    BY DEF Hash, IsRemoval
  <2>2. /\ Listed(n) /\ Suspend(r, q) /\ disturbed' \subseteq Nodes
        /\ UNCHANGED <<list, token, serial, vault, accepted, removed>>
    BY <1>0, <1>2 DEF StartReEnroll, Begin, TypeOK
  <2>3. QED
    BY <2>1, <2>2, StartTypes
<1>3. ASSUME NEW r \in Requests, StartRegister(r, n) PROVE Types'
  <2> DEFINE q == [op |-> "compare", node |-> n, gen |-> token[n].gen]
  <2>1. Listed(n)
    BY <1>3 DEF StartRegister
  <2>2. token[n].gen \in 1 .. MaxTokens
    BY <1>0, <2>1, BoundsAssumption DEF Types, TypeOK, Token, Listed
  <2>3. q \in Compare /\ q.node = n /\ ~IsRemoval(q)
    BY <2>2 DEF Compare, IsRemoval
  <2>4. /\ Suspend(r, q) /\ disturbed' \subseteq Nodes
        /\ UNCHANGED <<list, token, serial, vault, accepted, removed>>
    BY <1>0, <1>3 DEF StartRegister, Begin, TypeOK
  <2>5. QED
    BY <2>1, <2>3, <2>4, StartTypes
<1>4. ASSUME NEW r \in Requests, StartRenew(r, n) PROVE Types'
  <2>1. /\ Listed(n) /\ Suspend(r, FirstStep(n, "renew", 0)) /\ disturbed' \subseteq Nodes
        /\ UNCHANGED <<list, token, serial, vault, accepted, removed>>
    BY <1>0, <1>4 DEF StartRenew, Begin, TypeOK
  <2>2. "renew" \in Reasons /\ 0 \in Nat
    BY DEF Reasons
  <2>3. QED
    BY <1>0, <2>1, <2>2, FirstStepTyped, StartTypes
<1>5. ASSUME NEW r \in Requests, StartRemove(r, n) PROVE Types'
  <2>1. /\ Listed(n) /\ Suspend(r, FirstStep(n, "remove", Position(n))) /\ disturbed' \subseteq Nodes
        /\ UNCHANGED <<list, token, serial, vault, accepted, removed>>
    BY <1>0, <1>5 DEF StartRemove, TypeOK, Removing
  <2>2. "remove" \in Reasons /\ Position(n) \in Nat \ {0}
    BY <1>0, <2>1, PositionFacts DEF Reasons
  <2>3. QED
    BY <1>0, <2>1, <2>2, FirstStepTyped, StartTypes
<1>6. QED
  BY <1>1, <1>2, <1>3, <1>4, <1>5 DEF NodeStep

LEMMA RequestStepTypes ==
    ASSUME Types, NEW r \in Requests, RequestStep(r) PROVE Types'
<1>0. /\ TypeOK /\ Len(vault) <= MaxCerts
      /\ list \in Seq(Nodes) /\ vault \in Seq(Cert) /\ Len(vault) \in Nat
      /\ \A i \in 1 .. Len(list) : \E k \in 1 .. Len(list) : list[i] = list[k]
      /\ \A n \in Nodes : token[n].gen \in Nat /\ token[n].gen >= token[n].gen
      /\ ~IsRemoval(Idle)
  BY LenProperties DEF Types, TypeOK, Token, IsRemoval, Idle
<1>1. CASE FinishReEnroll(r)
  <2>1. /\ req[r] # Idle /\ req[r].node \in Nodes /\ token[req[r].node].gen < MaxTokens
        /\ token' = [token EXCEPT ![req[r].node] = Reissued(@)]
        /\ Suspend(r, Idle)
        /\ UNCHANGED <<list, serial, vault, accepted, removed, disturbed>>
    BY <1>0, <1>1, Kinds DEF FinishReEnroll, End
  <2>2. token' \in [Nodes -> Token] /\ \A n \in Nodes : token'[n].gen >= token[n].gen
    BY <1>0, <2>1, BoundsAssumption DEF TypeOK, Token, Reissued
  <2>3. QED
    BY <1>0, <2>1, <2>2, MoveTypes DEF TypeOK
<1>2. CASE FinishCompare(r)
  <2>1. req[r] \in Compare /\ req[r].node \in Nodes /\ req[r] # Idle /\ req[r].gen \in 1 .. MaxTokens
    BY <1>0, <1>2, Kinds DEF FinishCompare, Compare
  <2> DEFINE n == req[r].node
             q == FirstStep(n, "register", 0)
  <2>2. /\ token' = [token EXCEPT ![n].used = TRUE]
        /\ accepted' = [accepted EXCEPT ![n][req[r].gen] = IF @ = 0 THEN 1 ELSE 2]
        /\ Suspend(r, q)
        /\ UNCHANGED <<list, serial, vault, removed, disturbed>>
    BY <1>2 DEF FinishCompare
  <2>3. q \in Revocation \cup Issue \cup Leave /\ q.node = n /\ ~IsRemoval(q)
    <3>1. "register" \in Reasons /\ "register" # "remove" /\ 0 \in Nat
      BY DEF Reasons
    <3>2. QED
      BY <1>0, <2>1, <3>1, FirstStepTyped
  <2>4. token' \in [Nodes -> Token] /\ \A k \in Nodes : token'[k].gen >= token[k].gen
    BY <1>0, <2>1, <2>2 DEF TypeOK, Token
  <2>5. accepted' \in [Nodes -> [1 .. MaxTokens -> 0 .. 2]]
    BY <1>0, <2>1, <2>2 DEF TypeOK
  <2>6. QED
    <3> HIDE DEF q
    <3>1. QED
      BY <1>0, <2>1, <2>2, <2>3, <2>4, <2>5, MoveTypes DEF TypeOK
<1>3. CASE FinishIssue(r)
  <2>1. req[r] # Idle /\ req[r].node \in Nodes /\ Len(vault) < MaxCerts
    BY <1>0, <1>3, Kinds DEF FinishIssue
  <2>2. /\ vault' = Append(vault, [node |-> req[r].node, valid |-> TRUE])
        /\ serial' = [serial EXCEPT ![req[r].node] = Len(vault) + 1]
        /\ Suspend(r, Idle)
        /\ UNCHANGED <<list, token, accepted, removed, disturbed>>
    BY <1>3 DEF FinishIssue, Record, End
  <2>3. vault' \in Seq(Cert) /\ Len(vault') = Len(vault) + 1
    BY <1>0, <2>1, <2>2, VaultFacts
  <2>4. Len(vault') <= MaxCerts /\ serial' \in [Nodes -> 0 .. Len(vault')]
    BY <1>0, <2>1, <2>2, <2>3, BoundsAssumption DEF TypeOK
  <2>5. QED
    BY <1>0, <2>1, <2>2, <2>3, <2>4, MoveTypes DEF TypeOK
<1>4. CASE FinishRemove(r)
  <2>1. req[r] \in Leave /\ req[r] # Idle /\ IsRemoval(req[r])
    BY <1>0, <1>4, Kinds DEF FinishRemove, IsRemoval
  <2>2. req[r].index \in Nat \ {0}
    BY <2>1 DEF Leave, Types
  <2>3. /\ list' = Spliced(req[r].index) /\ removed' = removed \cup {req[r].node}
        /\ Suspend(r, Idle)
        /\ UNCHANGED <<token, serial, vault, accepted, disturbed>>
    BY <1>4 DEF FinishRemove, End
  <2>4. list' \in Seq(Nodes) /\ \A i \in 1 .. Len(list') : \E k \in 1 .. Len(list) : list'[i] = list[k]
    BY <1>0, <2>2, <2>3, SplicedFacts
  <2>5. QED
    BY <1>0, <2>1, <2>3, <2>4, MoveTypes DEF TypeOK
<1>5. ASSUME NEW done \in BOOLEAN, NEW answered \in BOOLEAN, FinishRevoke(r, done, answered)
      PROVE  Types'
  <2>1. req[r] \in Revocation /\ req[r] # Idle
    BY <1>0, <1>5, Kinds DEF FinishRevoke
  <2>2. /\ req[r].node \in Nodes /\ req[r].why \in Reasons /\ req[r].index \in Nat
        /\ req[r].cert \in Nat /\ req[r].op = "revoke"
    BY <2>1 DEF Revocation
  <2> DEFINE q == IF answered \/ req[r].why = "remove"
                  THEN AfterRevoke(req[r].node, req[r].why, req[r].index) ELSE Idle
  <2>3. /\ vault' = IF done THEN [vault EXCEPT ![req[r].cert].valid = FALSE] ELSE vault
        /\ Suspend(r, q)
        /\ disturbed' \subseteq disturbed \cup {req[r].node}
        /\ UNCHANGED <<list, token, serial, accepted, removed>>
    BY <1>5 DEF FinishRevoke, End
  <2>4. vault' \in Seq(Cert) /\ Len(vault') = Len(vault)
    BY <1>0, <2>2, <2>3, RevokedFacts
  <2>5. /\ q \in {Idle} \cup Compare \cup Hash \cup Revocation \cup Issue \cup Leave
        /\ q = Idle \/ q.node = req[r].node
        /\ IsRemoval(q) => q.index # 0
    BY <1>0, <2>2, AfterRevokeTyped DEF Types, IsRemoval
  <2>6. QED
    <3> HIDE DEF q
    <3>1. QED
      BY <1>0, <2>1, <2>2, <2>3, <2>4, <2>5, MoveTypes DEF TypeOK
<1>6. ASSUME NEW issued \in BOOLEAN, FailIssue(r, issued) PROVE Types'
  <2>1. req[r] # Idle /\ req[r].node \in Nodes /\ (issued => Len(vault) < MaxCerts)
    BY <1>0, <1>6, Kinds DEF FailIssue
  <2>2. /\ vault' = IF issued THEN Append(vault, [node |-> req[r].node, valid |-> TRUE]) ELSE vault
        /\ Suspend(r, Idle) /\ disturbed' = disturbed \cup {req[r].node}
        /\ UNCHANGED <<list, token, serial, accepted, removed>>
    BY <1>6 DEF FailIssue, End
  <2>3. vault' \in Seq(Cert) /\ (Len(vault') = Len(vault) \/ (issued /\ Len(vault') = Len(vault) + 1))
    BY <1>0, <2>1, <2>2, VaultFacts
  <2>4. Len(vault') <= MaxCerts /\ serial' \in [Nodes -> 0 .. Len(vault')]
    BY <1>0, <2>1, <2>2, <2>3, BoundsAssumption DEF TypeOK
  <2>5. QED
    BY <1>0, <2>1, <2>2, <2>3, <2>4, MoveTypes DEF TypeOK
<1>7. QED
  BY <1>1, <1>2, <1>3, <1>4, <1>5, <1>6 DEF RequestStep

LEMMA TypesStep == Types /\ [Next]_vars => Types'
<1> SUFFICES ASSUME Types, [Next]_vars PROVE Types'
  OBVIOUS
<1>1. CASE Restart
  <2>1. /\ req' = [r \in Requests |-> Idle] /\ disturbed' \subseteq disturbed \cup Nodes
        /\ UNCHANGED <<list, token, serial, vault, accepted, removed>>
    BY <1>1 DEF Restart
  <2>2. QED
    BY <2>1 DEF Types, TypeOK, IsRemoval, Idle
<1>2. CASE UNCHANGED vars
  BY <1>2 DEF vars, Types, TypeOK, IsRemoval
<1>3. QED
  BY <1>1, <1>2, NodeStepTypes, RequestStepTypes DEF Next
-----------------------------------------------------------------------------
(* Undisturbed nodes, one at a time *)

NoCert(n) == \A c \in 1 .. Len(vault) : vault[c] # [node |-> n, valid |-> TRUE]

\* Tokens up to the current one have registered n once at most, later ones never; the
\* request that compares does so with the current token, which is unused.
TokenPart(n) ==
    /\ \A g \in 1 .. MaxTokens :
         accepted[n][g] <= 1 /\ (g > token[n].gen => accepted[n][g] = 0)
    /\ token[n].gen >= 1 => accepted[n][token[n].gen] = IF token[n].used THEN 1 ELSE 0
    /\ token[n].used => token[n].gen >= 1
    /\ \A r \in Requests : On(r, n) /\ req[r].op = "compare" =>
         req[r].gen = token[n].gen /\ ~token[n].used

\* The one certificate that may be valid is on record; a request that revokes, revokes
\* that one, and a request past its revocation finds none left.
CertPart(n) ==
    /\ \A c \in 1 .. Len(vault) : vault[c] = [node |-> n, valid |-> TRUE] => serial[n] = c
    /\ \A r \in Requests : On(r, n) =>
         /\ req[r].op = "revoke" => req[r].cert = serial[n]
         /\ req[r].op \in {"issue", "leave"} => NoCert(n)

RemovedPart(n) == n \in removed => NoCert(n) /\ ~Listed(n) /\ ~Busy(n)

NodePart(n) == TokenPart(n) /\ CertPart(n) /\ RemovedPart(n)

\* What a step leaves of a node it is not about.
Elsewhere(n) ==
    /\ token'[n] = token[n] /\ accepted'[n] = accepted[n] /\ serial'[n] = serial[n]
    /\ \A c \in 1 .. Len(vault') : vault'[c] = [node |-> n, valid |-> TRUE] =>
         c \in 1 .. Len(vault) /\ vault[c] = [node |-> n, valid |-> TRUE]
    /\ \A s \in Requests : On(s, n)' => On(s, n) /\ req'[s] = req[s]
    /\ n \in removed' => n \in removed
    /\ Listed(n)' => Listed(n)

LEMMA ElsewhereKeeps ==
    ASSUME NEW n \in Nodes, NodePart(n), Elsewhere(n) PROVE NodePart(n)'
<1>1. NoCert(n) => NoCert(n)'
  BY DEF NoCert, Elsewhere
<1>2. TokenPart(n)'
  BY DEF NodePart, TokenPart, Elsewhere
<1>3. CertPart(n)'
  BY <1>1 DEF NodePart, CertPart, Elsewhere
<1>4. Busy(n)' => Busy(n)
  BY DEF Busy, On, Elsewhere
<1>5. RemovedPart(n)'
  BY <1>1, <1>4 DEF NodePart, RemovedPart, Elsewhere
<1>6. QED
  BY <1>2, <1>3, <1>5 DEF NodePart

LEMMA SuspendFacts ==
    ASSUME TypeOK, NEW r \in Requests, NEW q, Suspend(r, q)
    PROVE  \A s \in Requests : req'[s] = IF s = r THEN q ELSE req[s]
BY DEF TypeOK, Suspend

LEMMA SplicedElsewhere ==
    ASSUME TypeOK, NEW r \in Requests, FinishRemove(r), Types, NEW n \in Nodes
    PROVE  Listed(n)' => Listed(n)
<1>1. req[r] \in Leave /\ IsRemoval(req[r])
  BY Kinds DEF FinishRemove, IsRemoval
<1>2. req[r].index \in Nat \ {0} /\ list' = Spliced(req[r].index)
  BY <1>1 DEF Leave, Types, FinishRemove
<1>3. \A i \in 1 .. Len(list') : \E k \in 1 .. Len(list) : list'[i] = list[k]
  BY <1>2, SplicedFacts
<1>4. QED
  BY <1>3 DEF Listed

LEMMA OtherNodes ==
    ASSUME Types, NEW m \in Nodes, NEW n \in Nodes, n # m,
           NodeStep(m) \/ \E r \in Requests : RequestStep(r) /\ req[r].node = m
    PROVE  Elsewhere(n)
<1>0. TypeOK
  BY DEF Types
<1>1. CASE CreateEnrollment(m)
  <2>1. /\ token'[n] = token[n] /\ list' = Append(list, m)
        /\ UNCHANGED <<serial, vault, req, accepted, removed, disturbed>>
    BY <1>0, <1>1 DEF CreateEnrollment, TypeOK
  <2>2. Listed(n)' => Listed(n)
    <3>1. /\ Len(list') = Len(list) + 1 /\ Len(list) \in Nat
          /\ \A i \in 1 .. Len(list) : list'[i] = list[i]
          /\ list'[Len(list) + 1] = m
      BY <1>0, <2>1, AppendProperties, LenProperties DEF TypeOK
    <3>2. QED
      BY <3>1 DEF Listed
  <2>3. QED
    BY <2>1, <2>2 DEF Elsewhere, On
<1>2. ASSUME NEW r \in Requests, NEW q, q.node = m, Suspend(r, q),
             UNCHANGED <<list, token, serial, vault, accepted, removed>>
      PROVE  Elsewhere(n)
  <2>1. \A s \in Requests : On(s, n)' => On(s, n) /\ req'[s] = req[s]
    BY <1>0, <1>2, SuspendFacts DEF On
  <2>2. QED
    BY <1>2, <2>1 DEF Elsewhere, Listed
<1>3. ASSUME NEW r \in Requests,
             StartReEnroll(r, m) \/ StartRegister(r, m) \/ StartRenew(r, m) \/ StartRemove(r, m)
      PROVE  Elsewhere(n)
  <2>1. CASE StartReEnroll(r, m)
    BY <1>2, <2>1 DEF StartReEnroll, Begin
  <2>2. CASE StartRegister(r, m)
    BY <1>2, <2>2 DEF StartRegister, Begin
  <2>3. "renew" \in Reasons /\ "remove" \in Reasons /\ 0 \in Nat
    BY DEF Reasons
  <2>4. CASE StartRenew(r, m)
    <3>1. FirstStep(m, "renew", 0).node = m
      BY <1>0, <2>3, FirstStepTyped DEF Types
    <3>2. QED
      BY <1>2, <2>4, <3>1 DEF StartRenew, Begin
  <2>5. CASE StartRemove(r, m)
    <3>1. FirstStep(m, "remove", Position(m)).node = m
      BY <1>0, <2>3, <2>5, PositionFacts, FirstStepTyped DEF Types, StartRemove
    <3>2. QED
      BY <1>2, <2>5, <3>1 DEF StartRemove
  <2>6. QED
    BY <1>3, <2>1, <2>2, <2>4, <2>5
<1>4. ASSUME NEW r \in Requests, RequestStep(r), req[r].node = m PROVE Elsewhere(n)
  <2>0. ASSUME NEW q, q = Idle \/ q.node = m, Suspend(r, q)
        PROVE  \A s \in Requests : On(s, n)' => On(s, n) /\ req'[s] = req[s]
    BY <1>0, <2>0, SuspendFacts DEF On
  <2>1. CASE FinishReEnroll(r)
    BY <1>0, <1>4, <2>0, <2>1 DEF FinishReEnroll, End, Elsewhere, Listed, TypeOK
  <2>2. CASE FinishCompare(r)
    <3>1. FirstStep(m, "register", 0).node = m
      <4>1. "register" \in Reasons /\ 0 \in Nat
        BY DEF Reasons
      <4>2. QED
        BY <1>0, <4>1, FirstStepTyped DEF Types
    <3>2. \A s \in Requests : On(s, n)' => On(s, n) /\ req'[s] = req[s]
      BY <1>4, <2>0, <2>2, <3>1 DEF FinishCompare
    <3>3. token'[n] = token[n] /\ accepted'[n] = accepted[n]
      BY <1>0, <1>4, <2>2 DEF FinishCompare, TypeOK
    <3>4. QED
      BY <2>2, <3>2, <3>3 DEF FinishCompare, Elsewhere, Listed
  <2>3. ASSUME vault' = Append(vault, [node |-> m, valid |-> TRUE])
        PROVE  \A c \in 1 .. Len(vault') : vault'[c] = [node |-> n, valid |-> TRUE] =>
                 c \in 1 .. Len(vault) /\ vault[c] = [node |-> n, valid |-> TRUE]
    <3>1. /\ Len(vault') = Len(vault) + 1 /\ Len(vault) \in Nat
          /\ \A c \in 1 .. Len(vault) : vault'[c] = vault[c]
          /\ vault'[Len(vault) + 1] = [node |-> m, valid |-> TRUE]
      BY <1>0, <2>3, VaultFacts
    <3>2. [node |-> m, valid |-> TRUE] # [node |-> n, valid |-> TRUE]
      OBVIOUS
    <3>3. \A c \in 1 .. Len(vault') : c \in 1 .. Len(vault) \/ c = Len(vault) + 1
      BY <3>1
    <3>4. QED
      BY <3>1, <3>2, <3>3
  <2>4. CASE FinishIssue(r)
    <3>1. /\ vault' = Append(vault, [node |-> m, valid |-> TRUE]) /\ serial'[n] = serial[n]
          /\ Suspend(r, Idle)
          /\ UNCHANGED <<list, token, accepted, removed>>
      BY <1>0, <1>4, <2>4 DEF FinishIssue, Record, End, TypeOK
    <3>2. QED
      BY <2>0, <2>3, <3>1 DEF Elsewhere, Listed
  <2>5. ASSUME NEW issued \in BOOLEAN, FailIssue(r, issued) PROVE Elsewhere(n)
    <3>1. /\ vault' = Append(vault, [node |-> m, valid |-> TRUE]) \/ vault' = vault
          /\ Suspend(r, Idle)
          /\ UNCHANGED <<list, token, serial, accepted, removed>>
      BY <1>4, <2>5 DEF FailIssue, End
    <3>2. QED
      BY <2>0, <2>3, <3>1 DEF Elsewhere, Listed
  <2>6. ASSUME NEW done \in BOOLEAN, NEW answered \in BOOLEAN, FinishRevoke(r, done, answered)
        PROVE  Elsewhere(n)
    <3>1. req[r] \in Revocation
      BY <1>0, <2>6, Kinds DEF FinishRevoke
    <3>2. AfterRevoke(m, req[r].why, req[r].index).node = m /\ req[r].cert \in Nat
      BY <1>4, <3>1, AfterRevokeTyped DEF Revocation
    <3>3. \A s \in Requests : On(s, n)' => On(s, n) /\ req'[s] = req[s]
      BY <1>4, <2>0, <2>6, <3>2 DEF FinishRevoke, End
    <3>4. vault' = vault \/ vault' = [vault EXCEPT ![req[r].cert].valid = FALSE]
      BY <2>6 DEF FinishRevoke
    <3>5. \A c \in 1 .. Len(vault') : vault'[c] = [node |-> n, valid |-> TRUE] =>
            c \in 1 .. Len(vault) /\ vault[c] = [node |-> n, valid |-> TRUE]
      <4>1. CASE vault' = [vault EXCEPT ![req[r].cert].valid = FALSE]
        <5>1. /\ Len(vault') = Len(vault)
              /\ \A c \in 1 .. Len(vault) :
                   vault'[c].node = vault[c].node /\ vault'[c].valid = (vault[c].valid /\ c # req[r].cert)
          BY <1>0, <3>2, <4>1, RevokedFacts
        <5>2. ASSUME NEW c \in 1 .. Len(vault'), vault'[c] = [node |-> n, valid |-> TRUE]
              PROVE  c \in 1 .. Len(vault) /\ vault[c] = [node |-> n, valid |-> TRUE]
          <6>1. c \in 1 .. Len(vault)
            BY <5>1
          <6>2. vault[c] \in Cert
            BY <1>0, <6>1, ElementOfSeq DEF TypeOK
          <6>3. vault'[c].node = n /\ vault'[c].valid
            BY <5>2
          <6>4. vault[c].node = n /\ vault[c].valid
            BY <5>1, <6>1, <6>3
          <6>5. QED
            BY <6>1, <6>2, <6>4 DEF Cert
        <5>3. QED
          BY <5>2
      <4>2. QED
        BY <3>4, <4>1
    <3>6. QED
      BY <2>6, <3>3, <3>5 DEF FinishRevoke, Elsewhere, Listed
  <2>7. CASE FinishRemove(r)
    <3>1. Listed(n)' => Listed(n)
      BY <1>0, <2>7, SplicedElsewhere
    <3>2. QED
      BY <1>4, <2>0, <2>7, <3>1 DEF FinishRemove, End, Elsewhere
  <2>8. QED
    BY <1>4, <2>1, <2>2, <2>4, <2>5, <2>6, <2>7 DEF RequestStep
<1>5. QED
  BY <1>1, <1>3, <1>4 DEF NodeStep
-----------------------------------------------------------------------------
(* Undisturbed nodes, together *)

\* An undisturbed node has one request at a time.
Alone == \A n \in Nodes \ disturbed, r, s \in Requests : On(r, n) /\ On(s, n) => r = s

\* Two removals at a time disturb both their nodes: an undisturbed one has the list's
\* positions to itself.
OneRemoval ==
    \A r, s \in Requests :
        r # s /\ IsRemoval(req[r]) /\ IsRemoval(req[s]) => req[r].node \in disturbed

\* No node is listed twice.
Distinct == \A i, k \in 1 .. Len(list) : list[i] = list[k] => i = k

\* The position that a removal found two awaits ago is the node's still.
Found ==
    \A r \in Requests : IsRemoval(req[r]) /\ req[r].node \notin disturbed =>
        /\ req[r].index \in 1 .. Len(list)
        /\ list[req[r].index] = req[r].node

Order == Alone /\ OneRemoval /\ Distinct /\ Found

LEMMA OrderStart ==
    ASSUME TypeOK, Order, NEW r \in Requests, NEW n \in Nodes, NEW q, req[r] = Idle,
           Suspend(r, q), q.node = n, disturbed \subseteq disturbed', UNCHANGED list,
           Busy(n) => n \in disturbed',
           IsRemoval(q) =>
               /\ q.index \in 1 .. Len(list) /\ list[q.index] = n
               /\ \A s \in Requests : IsRemoval(req[s]) =>
                    req[s].node \in disturbed' /\ n \in disturbed'
    PROVE  Order'
<1>1. \A s \in Requests : req'[s] = IF s = r THEN q ELSE req[s]
  BY SuspendFacts
<1>2. ~IsRemoval(Idle)
  BY DEF IsRemoval, Idle
<1>3. Alone'
  BY <1>1 DEF Order, Alone, On, Busy
<1>4. OneRemoval'
  BY <1>1, <1>2 DEF Order, OneRemoval, IsRemoval
<1>5. Distinct'
  BY DEF Order, Distinct
<1>6. Found'
  BY <1>1 DEF Order, Found, IsRemoval
<1>7. QED
  BY <1>3, <1>4, <1>5, <1>6 DEF Order

LEMMA OrderMove ==
    ASSUME TypeOK, Order, NEW r \in Requests, NEW q, req[r] # Idle,
           Suspend(r, q), disturbed \subseteq disturbed', UNCHANGED list,
           q = Idle \/ q.node = req[r].node,
           IsRemoval(q) => IsRemoval(req[r]) /\ q.index = req[r].index
    PROVE  Order'
<1>1. \A s \in Requests : req'[s] = IF s = r THEN q ELSE req[s]
  BY SuspendFacts
<1>2. ~IsRemoval(Idle)
  BY DEF IsRemoval, Idle
<1>3. Alone'
  BY <1>1 DEF Order, Alone, On
<1>4. OneRemoval'
  BY <1>1, <1>2 DEF Order, OneRemoval, IsRemoval
<1>5. Distinct'
  BY DEF Order, Distinct
<1>6. Found'
  BY <1>1, <1>2 DEF Order, Found, IsRemoval
<1>7. QED
  BY <1>3, <1>4, <1>5, <1>6 DEF Order

LEMMA OrderCreate ==
    ASSUME Types, Order, NEW n \in Nodes, CreateEnrollment(n) PROVE Order'
<1>1. /\ list' = Append(list, n) /\ UNCHANGED <<req, disturbed>> /\ token[n].gen = 0
  BY DEF CreateEnrollment
<1>2. /\ Len(list') = Len(list) + 1 /\ Len(list) \in Nat
      /\ \A i \in 1 .. Len(list) : list'[i] = list[i]
      /\ list'[Len(list) + 1] = n
  BY <1>1, AppendProperties, LenProperties DEF Types, TypeOK
<1>3. \A i \in 1 .. Len(list) : list[i] # n
  BY <1>1 DEF Types
<1>4. \A i \in 1 .. Len(list') : i \in 1 .. Len(list) \/ i = Len(list) + 1
  BY <1>2
<1>5. Distinct'
  BY <1>2, <1>3, <1>4 DEF Order, Distinct
<1>6. Found'
  <2>1. \A i \in 1 .. Len(list) : i \in 1 .. Len(list')
    BY <1>2
  <2>2. QED
    BY <1>1, <1>2, <2>1 DEF Order, Found
<1>7. QED
  BY <1>1, <1>5, <1>6 DEF Order, Alone, OneRemoval, On

\* Where an element of a spliced list was.
LEMMA SpliceOrigin ==
    ASSUME NEW S, NEW s \in Seq(S), NEW p \in 1 .. Len(s), NEW k \in 1 .. Len(RemoveAt(s, p))
    PROVE  \E i \in 1 .. Len(s) :
             i # p /\ RemoveAt(s, p)[k] = s[i] /\ i = IF k < p THEN k ELSE k + 1
<1>1. /\ Len(s) \in Nat /\ k \in 1 .. Len(s) - 1
      /\ RemoveAt(s, p)[k] = IF k < p THEN s[k] ELSE s[k + 1]
  BY SpliceFacts, LenProperties
<1>2. CASE k < p
  <2>1. k \in 1 .. Len(s) /\ k # p /\ RemoveAt(s, p)[k] = s[k]
    BY <1>1, <1>2
  <2>2. QED
    BY <1>2, <2>1
<1>3. CASE ~(k < p)
  <2>1. k + 1 \in 1 .. Len(s) /\ k + 1 # p /\ RemoveAt(s, p)[k] = s[k + 1]
    BY <1>1, <1>3
  <2>2. QED
    BY <1>3, <2>1
<1>4. QED
  BY <1>2, <1>3

LEMMA SplicedDistinct ==
    ASSUME TypeOK, Distinct, NEW p \in Nat \ {0}, list' = Spliced(p) PROVE Distinct'
<1>1. list \in Seq(Nodes) /\ Len(list) \in Nat
  BY LenProperties DEF TypeOK
<1>2. CASE ~(p <= Len(list))
  BY <1>2 DEF Spliced, Distinct
<1>3. CASE p <= Len(list)
  <2>1. p \in 1 .. Len(list) /\ list' = RemoveAt(list, p)
    BY <1>1, <1>3 DEF Spliced
  <2>2. ASSUME NEW k \in 1 .. Len(list'), NEW l \in 1 .. Len(list'), list'[k] = list'[l] PROVE k = l
    <3>1. PICK i \in 1 .. Len(list) : i # p /\ list'[k] = list[i] /\ i = IF k < p THEN k ELSE k + 1
      BY <1>1, <2>1, SpliceOrigin
    <3>2. PICK j \in 1 .. Len(list) : j # p /\ list'[l] = list[j] /\ j = IF l < p THEN l ELSE l + 1
      BY <1>1, <2>1, SpliceOrigin
    <3>3. i = j
      BY <2>2, <3>1, <3>2 DEF Distinct
    <3>4. Len(list') \in Nat
      BY <1>1, <2>1, SpliceFacts
    <3>5. QED
      BY <1>1, <2>1, <3>1, <3>2, <3>3, <3>4
  <2>3. QED
    BY <2>2 DEF Distinct
<1>4. QED
  BY <1>2, <1>3

\* The node that an undisturbed removal takes out is its own; no other leaves.
LEMMA RemovesOwn ==
    ASSUME Types, Order, NEW r \in Requests, FinishRemove(r), req[r].node \notin disturbed
    PROVE  \A n \in Nodes : Listed(n)' <=> Listed(n) /\ n # req[r].node
<1> DEFINE m == req[r].node
           p == req[r].index
<1>0. TypeOK /\ list \in Seq(Nodes) /\ Len(list) \in Nat /\ UNCHANGED disturbed
  BY LenProperties DEF Types, TypeOK, FinishRemove
<1>1. p \in 1 .. Len(list) /\ list[p] = m
  BY DEF Order, Found, FinishRemove, IsRemoval
<1>2. list' = RemoveAt(list, p)
  BY <1>0, <1>1 DEF FinishRemove, Spliced
<1>3. /\ Len(list') = Len(list) - 1
      /\ \A k \in 1 .. Len(list) - 1 : list'[k] = IF k < p THEN list[k] ELSE list[k + 1]
  BY <1>0, <1>1, <1>2, SpliceFacts
<1>4. \A i, k \in 1 .. Len(list) : list[i] = list[k] => i = k
  BY DEF Order, Distinct
<1> DEFINE gone == \A k \in 1 .. Len(list') : list'[k] # m
<1>5. gone
  <2>1. ASSUME NEW k \in 1 .. Len(list'), list'[k] = m PROVE FALSE
    <3>1. PICK i \in 1 .. Len(list) : i # p /\ list'[k] = list[i]
      BY <1>0, <1>1, <1>2, SpliceOrigin
    <3>2. list[i] = list[p]
      BY <1>1, <2>1, <3>1
    <3>3. QED
      BY <1>1, <1>4, <3>1, <3>2
  <2>2. QED
    BY <2>1
<1>6. ASSUME NEW n \in Nodes, n # m, Listed(n) PROVE Listed(n)'
  <2>1. PICK i \in 1 .. Len(list) : list[i] = n
    BY <1>6 DEF Listed
  <2>2. i # p
    BY <1>1, <1>6, <2>1
  <2> HIDE DEF p, m
  <2>3. CASE i < p
    <3>1. i \in 1 .. Len(list') /\ list'[i] = n
      BY <1>0, <1>1, <1>3, <2>1, <2>3
    <3>2. QED
      BY <3>1 DEF Listed
  <2>4. CASE i > p
    <3>1. i - 1 \in 1 .. Len(list) - 1 /\ ~(i - 1 < p) /\ (i - 1) + 1 = i
      BY <1>0, <1>1, <2>4
    <3>2. i - 1 \in 1 .. Len(list') /\ list'[i - 1] = n
      BY <1>3, <2>1, <3>1
    <3>3. QED
      BY <3>2 DEF Listed
  <2>5. QED
    BY <1>1, <2>2, <2>3, <2>4
<1>7. ASSUME NEW n \in Nodes, Listed(n)' PROVE Listed(n) /\ n # m
  <2>1. Listed(n)
    BY <1>0, <1>7, SplicedElsewhere
  <2>2. n # m
    BY <1>5, <1>7 DEF Listed
  <2>3. QED
    BY <2>1, <2>2
<1>8. QED
  BY <1>6, <1>7
LEMMA OrderRemove ==
    ASSUME Types, Order, NEW r \in Requests, FinishRemove(r) PROVE Order'
<1>1. /\ TypeOK /\ req[r] \in Leave /\ req[r] # Idle /\ IsRemoval(req[r])
  BY Kinds DEF FinishRemove, IsRemoval, Types
<1>2. req[r].index \in Nat \ {0} /\ list' = Spliced(req[r].index) /\ Suspend(r, Idle) /\ UNCHANGED disturbed
  BY <1>1 DEF Leave, Types, FinishRemove, End
<1>3. \A s \in Requests : req'[s] = IF s = r THEN Idle ELSE req[s]
  BY <1>1, <1>2, SuspendFacts
<1>4. ~IsRemoval(Idle)
  BY DEF IsRemoval, Idle
<1>5. Distinct'
  BY <1>1, <1>2, SplicedDistinct DEF Order
<1>6. Found'
  <2>1. ASSUME NEW s \in Requests, IsRemoval(req'[s]) PROVE req'[s].node \in disturbed'
    <3>1. s # r /\ req'[s] = req[s]
      BY <1>3, <1>4, <2>1
    <3>2. QED
      BY <1>1, <1>2, <2>1, <3>1 DEF Order, OneRemoval
  <2>2. QED
    BY <2>1 DEF Found, IsRemoval
<1>7. Alone'
  BY <1>2, <1>3 DEF Order, Alone, On
<1>8. OneRemoval'
  BY <1>2, <1>3, <1>4 DEF Order, OneRemoval, IsRemoval
<1>9. QED
  BY <1>5, <1>6, <1>7, <1>8 DEF Order

LEMMA OrderStep == Types /\ Order /\ [Next]_vars => Order'
<1> SUFFICES ASSUME Types, Order, [Next]_vars PROVE Order'
  OBVIOUS
<1>0. TypeOK /\ Len(vault) <= MaxCerts /\ 0 \in Nat /\ Reasons = {"register", "renew", "remove"}
  BY DEF Types, Reasons
<1>1. ASSUME NEW n \in Nodes, CreateEnrollment(n) PROVE Order'
  BY <1>1, OrderCreate
<1>2. ASSUME NEW r \in Requests, NEW n \in Nodes, NEW q, Begin(r, n, q), q.node = n, ~IsRemoval(q),
             UNCHANGED list
      PROVE  Order'
  BY <1>0, <1>2, OrderStart DEF Begin
<1>3. ASSUME NEW r \in Requests, NEW n \in Nodes,
             StartReEnroll(r, n) \/ StartRegister(r, n) \/ StartRenew(r, n)
      PROVE  Order'
  <2>1. CASE StartReEnroll(r, n)
    BY <1>2, <2>1 DEF StartReEnroll, IsRemoval
  <2>2. CASE StartRegister(r, n)
    BY <1>2, <2>2 DEF StartRegister, IsRemoval
  <2>3. CASE StartRenew(r, n)
    <3>1. FirstStep(n, "renew", 0).node = n /\ ~IsRemoval(FirstStep(n, "renew", 0))
      BY <1>0, FirstStepTyped
    <3>2. QED
      BY <1>2, <2>3, <3>1 DEF StartRenew
  <2>4. QED
    BY <1>3, <2>1, <2>2, <2>3
<1>4. ASSUME NEW r \in Requests, NEW n \in Nodes, StartRemove(r, n) PROVE Order'
  <2> DEFINE q == FirstStep(n, "remove", Position(n))
  <2>1. Position(n) \in 1 .. Len(list) /\ list[Position(n)] = n /\ Position(n) \in Nat
    BY <1>0, <1>4, PositionFacts DEF StartRemove
  <2>2. q.node = n /\ (IsRemoval(q) => q.index = Position(n))
    BY <1>0, <2>1, FirstStepTyped
  <2>3. /\ req[r] = Idle /\ Suspend(r, q) /\ UNCHANGED list /\ disturbed \subseteq disturbed'
        /\ Busy(n) => n \in disturbed'
        /\ Removing # {} => Removing \subseteq disturbed' /\ n \in disturbed'
    BY <1>4 DEF StartRemove
  <2>4. ASSUME NEW s \in Requests, IsRemoval(req[s]) PROVE req[s].node \in Removing
    <3>1. req[s] # Idle
      BY <2>4 DEF IsRemoval, Idle
    <3>2. QED
      BY <1>0, <2>4, <3>1, Kinds DEF Removing, IsRemoval
  <2>5. QED
    <3> HIDE DEF q
    <3>1. \A s \in Requests : IsRemoval(req[s]) => req[s].node \in disturbed' /\ n \in disturbed'
      BY <2>3, <2>4
    <3>2. QED
      BY <1>0, <2>1, <2>2, <2>3, <3>1, OrderStart
<1>5. ASSUME NEW r \in Requests, RequestStep(r) PROVE Order'
  <2>0. ASSUME req[r] # Idle, Suspend(r, Idle), disturbed \subseteq disturbed', UNCHANGED list PROVE Order'
    <3>1. ~IsRemoval(Idle)
      BY DEF IsRemoval, Idle
    <3>2. QED
      BY <1>0, <2>0, <3>1, OrderMove
  <2>1. CASE FinishReEnroll(r) \/ FinishIssue(r) \/ \E issued \in BOOLEAN : FailIssue(r, issued)
    <3>1. req[r] # Idle
      BY <1>0, <2>1, Kinds DEF FinishReEnroll, FinishIssue, FailIssue
    <3>2. QED
      BY <2>0, <2>1, <3>1 DEF FinishReEnroll, FinishIssue, FailIssue, End
  <2>2. CASE FinishCompare(r)
    <3> DEFINE q == FirstStep(req[r].node, "register", 0)
    <3>1. req[r] # Idle /\ req[r].node \in Nodes
      BY <1>0, <2>2, Kinds DEF FinishCompare
    <3>2. q.node = req[r].node /\ ~IsRemoval(q)
      BY <1>0, <3>1, FirstStepTyped
    <3>3. Suspend(r, q) /\ UNCHANGED <<list, disturbed>>
      BY <2>2 DEF FinishCompare
    <3>4. QED
      <4> HIDE DEF q
      <4>1. QED
        BY <1>0, <3>1, <3>2, <3>3, OrderMove
  <2>3. ASSUME NEW done \in BOOLEAN, NEW answered \in BOOLEAN, FinishRevoke(r, done, answered)
        PROVE  Order'
    <3>1. req[r] \in Revocation /\ req[r] # Idle /\ req[r].op = "revoke"
      BY <1>0, <2>3, Kinds DEF FinishRevoke
    <3>2. req[r].node \in Nodes /\ req[r].why \in Reasons /\ req[r].index \in Nat
      BY <3>1 DEF Revocation
    <3> DEFINE q == AfterRevoke(req[r].node, req[r].why, req[r].index)
    <3>3. q.node = req[r].node /\ (IsRemoval(q) => req[r].why = "remove" /\ q.index = req[r].index)
      BY <3>2, AfterRevokeTyped
    <3>4. IsRemoval(q) => IsRemoval(req[r]) /\ q.index = req[r].index
      BY <3>1, <3>3 DEF IsRemoval
    <3>5. (Suspend(r, q) \/ Suspend(r, Idle)) /\ disturbed \subseteq disturbed' /\ UNCHANGED list
      BY <2>3 DEF FinishRevoke, End
    <3>6. QED
      <4> HIDE DEF q
      <4>1. QED
        BY <1>0, <2>0, <3>1, <3>3, <3>4, <3>5, OrderMove
  <2>4. CASE FinishRemove(r)
    BY <2>4, OrderRemove
  <2>5. QED
    BY <1>5, <2>1, <2>2, <2>3, <2>4 DEF RequestStep
<1>6. CASE Restart
  <2>1. req' = [r \in Requests |-> Idle] /\ UNCHANGED list
    BY <1>6 DEF Restart
  <2>2. ~IsRemoval(Idle)
    BY DEF IsRemoval, Idle
  <2>3. QED
    BY <2>1, <2>2 DEF Order, Alone, OneRemoval, Distinct, Found, On, IsRemoval
<1>7. CASE UNCHANGED vars
  BY <1>7 DEF vars, Order, Alone, OneRemoval, Distinct, Found, On, IsRemoval
<1>8. QED
  BY <1>1, <1>3, <1>4, <1>5, <1>6, <1>7 DEF Next, NodeStep
-----------------------------------------------------------------------------
(* The node a step is about *)

NodesInv == \A n \in Nodes \ disturbed : NodePart(n)

LEMMA OwnStart ==
    ASSUME TypeOK, NEW r \in Requests, NEW n \in Nodes, NEW q, NodePart(n), req[r] = Idle,
           Suspend(r, q), ~Busy(n), Listed(n),
           UNCHANGED <<list, token, serial, vault, accepted, removed>>,
           q.op = "compare" => q.gen = token[n].gen /\ ~token[n].used,
           q.op = "revoke" => q.cert = serial[n],
           q.op \in {"issue", "leave"} => NoCert(n)
    PROVE  NodePart(n)'
<1>1. \A s \in Requests : req'[s] = IF s = r THEN q ELSE req[s]
  BY SuspendFacts
<1>2. \A s \in Requests : On(s, n)' => s = r /\ req'[s] = q
  BY <1>1 DEF On, Busy
<1>3. TokenPart(n)'
  BY <1>2 DEF NodePart, TokenPart
<1>4. CertPart(n)'
  BY <1>2 DEF NodePart, CertPart, NoCert
<1>5. RemovedPart(n)'
  BY DEF NodePart, RemovedPart
<1>6. QED
  BY <1>3, <1>4, <1>5 DEF NodePart

\* With no valid certificate on record there is none at all.
LEMMA NoneRecorded ==
    ASSUME TypeOK, NEW n \in Nodes, NodePart(n), serial[n] = 0 PROVE NoCert(n)
<1>1. Len(vault) \in Nat
  BY LenProperties DEF TypeOK
<1>2. ASSUME NEW c \in 1 .. Len(vault), vault[c] = [node |-> n, valid |-> TRUE] PROVE FALSE
  <2>1. serial[n] = c
    BY <1>2 DEF NodePart, CertPart
  <2>2. QED
    BY <1>1, <2>1
<1>3. QED
  BY <1>2 DEF NoCert

LEMMA FirstStepRight ==
    ASSUME TypeOK, NEW n \in Nodes, NodePart(n), NEW why, NEW index
    PROVE  /\ FirstStep(n, why, index).op # "compare"
           /\ FirstStep(n, why, index).op = "revoke" => FirstStep(n, why, index).cert = serial[n]
           /\ FirstStep(n, why, index).op \in {"issue", "leave"} => NoCert(n)
<1>1. CASE serial[n] = 0
  BY <1>1, NoneRecorded DEF FirstStep, AfterRevoke
<1>2. CASE serial[n] # 0
  BY <1>2 DEF FirstStep
<1>3. QED
  BY <1>1, <1>2

LEMMA OwnNode ==
    ASSUME Types, NEW n \in Nodes, NodePart(n), n \notin disturbed', NodeStep(n)
    PROVE  NodePart(n)'
<1>0. TypeOK
  BY DEF Types
<1>1. CASE CreateEnrollment(n)
  <2>1. /\ token[n].gen = 0 /\ token'[n] = [gen |-> 1, used |-> FALSE] /\ list' = Append(list, n)
        /\ UNCHANGED <<serial, vault, req, accepted, removed, disturbed>>
    BY <1>0, <1>1 DEF CreateEnrollment, TypeOK
  <2>2. \A r \in Requests : ~On(r, n)
    BY <1>0, <2>1, Kinds DEF Types, On
  <2>3. n \notin removed
    BY <2>1 DEF Types
  <2>4. TokenPart(n)'
    <3>1. \A g \in 1 .. MaxTokens : accepted'[n][g] = 0
      BY <2>1, BoundsAssumption DEF NodePart, TokenPart
    <3>2. 1 \in 1 .. MaxTokens
      BY <1>1, BoundsAssumption DEF CreateEnrollment
    <3>3. \A r \in Requests : ~On(r, n)'
      BY <2>1, <2>2 DEF On
    <3>4. QED
      BY <2>1, <3>1, <3>2, <3>3 DEF TokenPart
  <2>5. CertPart(n)' /\ RemovedPart(n)'
    BY <2>1, <2>2, <2>3 DEF NodePart, CertPart, NoCert, RemovedPart, On
  <2>6. QED
    BY <2>4, <2>5 DEF NodePart
<1>2. ASSUME NEW r \in Requests, NEW q, Begin(r, n, q) PROVE ~Busy(n)
  BY <1>2 DEF Begin
<1>3. ASSUME NEW r \in Requests, StartReEnroll(r, n) PROVE NodePart(n)'
  BY <1>0, <1>2, <1>3, OwnStart DEF StartReEnroll, Begin
<1>4. ASSUME NEW r \in Requests, StartRegister(r, n) PROVE NodePart(n)'
  BY <1>0, <1>2, <1>4, OwnStart DEF StartRegister, Begin
<1>5. ASSUME NEW r \in Requests, StartRenew(r, n) PROVE NodePart(n)'
  <2> DEFINE q == FirstStep(n, "renew", 0)
  <2>1. ~Busy(n) /\ req[r] = Idle /\ Suspend(r, q) /\ Listed(n)
    BY <1>2, <1>5 DEF StartRenew, Begin
  <2>2. UNCHANGED <<list, token, serial, vault, accepted, removed>>
    BY <1>5 DEF StartRenew
  <2>3. QED
    BY <1>0, <2>1, <2>2, FirstStepRight, OwnStart
<1>6. ASSUME NEW r \in Requests, StartRemove(r, n) PROVE NodePart(n)'
  <2> DEFINE q == FirstStep(n, "remove", Position(n))
  <2>1. ~Busy(n) /\ req[r] = Idle /\ Suspend(r, q) /\ Listed(n)
    BY <1>6 DEF StartRemove
  <2>2. UNCHANGED <<list, token, serial, vault, accepted, removed>>
    BY <1>6 DEF StartRemove
  <2>3. QED
    BY <1>0, <2>1, <2>2, FirstStepRight, OwnStart
<1>7. QED
  BY <1>1, <1>3, <1>4, <1>5, <1>6 DEF NodeStep

LEMMA OwnRequest ==
    ASSUME Types, Order, NEW r \in Requests, NEW n \in Nodes, req[r].node = n, NodePart(n),
           n \notin disturbed', n \notin disturbed, RequestStep(r)
    PROVE  NodePart(n)'
<1>0. /\ TypeOK /\ Len(vault) <= MaxCerts
      /\ accepted[n] \in [1 .. MaxTokens -> 0 .. 2] /\ token[n].gen \in 0 .. MaxTokens
      /\ token[n].used \in BOOLEAN
  BY DEF Types, TypeOK, Token
<1>1. req[r] # Idle
  BY <1>0, Kinds DEF RequestStep, FinishReEnroll, FinishCompare, FinishIssue, FinishRemove,
                     FinishRevoke, FailIssue
<1>2. On(r, n) /\ n \notin removed /\ \A s \in Requests : On(s, n) => s = r
  BY <1>1 DEF On, Order, Alone, NodePart, RemovedPart, Busy
<1>3. ASSUME NEW q, Suspend(r, q)
      PROVE  /\ req'[r] = q
             /\ \A s \in Requests : On(s, n)' => s = r /\ req'[s] = q /\ q # Idle
  <2>1. \A s \in Requests : req'[s] = IF s = r THEN q ELSE req[s]
    BY <1>0, <1>3, SuspendFacts
  <2>2. QED
    BY <1>2, <2>1 DEF On
<1>4. CASE FinishReEnroll(r)
  <2>1. /\ token'[n] = [gen |-> token[n].gen + 1, used |-> FALSE] /\ token[n].gen < MaxTokens
        /\ Suspend(r, Idle)
        /\ UNCHANGED <<list, serial, vault, accepted, removed, disturbed>>
    BY <1>0, <1>4 DEF FinishReEnroll, Reissued, End, TypeOK
  <2>2. \A s \in Requests : ~On(s, n)'
    BY <1>3, <2>1
  <2>3. TokenPart(n)'
    <3>1. token[n].gen + 1 \in 1 .. MaxTokens
      BY <1>0, <2>1, BoundsAssumption
    <3>2. \A g \in 1 .. MaxTokens : g > token[n].gen + 1 => g > token[n].gen
      BY <1>0, BoundsAssumption
    <3>3. QED
      BY <1>0, <2>1, <2>2, <3>1, <3>2, BoundsAssumption DEF NodePart, TokenPart
  <2>4. QED
    BY <1>2, <2>1, <2>2, <2>3 DEF NodePart, CertPart, RemovedPart
<1>5. CASE FinishCompare(r)
  <2> DEFINE q == FirstStep(n, "register", 0)
             g == req[r].gen
  <2>1. g = token[n].gen /\ ~token[n].used /\ g \in 1 .. MaxTokens
    <3>1. req[r] \in Compare /\ req[r].op = "compare"
      BY <1>0, <1>5, Kinds DEF FinishCompare
    <3>2. QED
      BY <1>2, <3>1 DEF NodePart, TokenPart, Compare
  <2>2. /\ token'[n] = [token[n] EXCEPT !.used = TRUE]
        /\ accepted'[n] = [accepted[n] EXCEPT ![g] = IF @ = 0 THEN 1 ELSE 2]
        /\ Suspend(r, q)
        /\ UNCHANGED <<list, serial, vault, removed, disturbed>>
    BY <1>0, <1>5 DEF FinishCompare, TypeOK
  <2>3. accepted[n][g] = 0
    BY <1>0, <2>1, BoundsAssumption DEF NodePart, TokenPart
  <2>4. token'[n].gen = token[n].gen /\ token'[n].used
    BY <1>0, <2>2 DEF TypeOK, Token
  <2>5. \A h \in 1 .. MaxTokens : accepted'[n][h] = IF h = g THEN 1 ELSE accepted[n][h]
    BY <1>0, <2>1, <2>2, <2>3
  <2>6. /\ q.op # "compare" /\ (q.op = "revoke" => q.cert = serial[n])
        /\ q.op \in {"issue", "leave"} => NoCert(n)
    BY <1>0, FirstStepRight
  <2>7. \A s \in Requests : On(s, n)' => s = r /\ req'[s] = q
    BY <1>3, <2>2
  <2> HIDE DEF q, g
  <2>8. TokenPart(n)'
    <3>1. \A h \in 1 .. MaxTokens :
            accepted'[n][h] <= 1 /\ (h > token[n].gen => accepted'[n][h] = 0)
      BY <1>0, <2>1, <2>5, BoundsAssumption DEF NodePart, TokenPart
    <3>2. accepted'[n][token'[n].gen] = 1 /\ token'[n].gen >= 1
      BY <1>0, <2>1, <2>4, <2>5, BoundsAssumption
    <3>3. \A s \in Requests : On(s, n)' => req'[s].op # "compare"
      BY <2>6, <2>7
    <3>4. QED
      BY <2>4, <3>1, <3>2, <3>3 DEF TokenPart
  <2>9. CertPart(n)'
    BY <2>2, <2>6, <2>7 DEF NodePart, CertPart, NoCert
  <2>10. QED
    BY <1>2, <2>2, <2>8, <2>9 DEF NodePart, RemovedPart
<1>6. CASE FinishIssue(r)
  <2>1. NoCert(n)
    BY <1>2, <1>6 DEF NodePart, CertPart, FinishIssue
  <2>2. /\ vault' = Append(vault, [node |-> n, valid |-> TRUE]) /\ serial'[n] = Len(vault) + 1
        /\ Suspend(r, Idle)
        /\ UNCHANGED <<list, token, accepted, removed, disturbed>>
    BY <1>0, <1>6 DEF FinishIssue, Record, End, TypeOK
  <2>3. \A s \in Requests : ~On(s, n)'
    BY <1>3, <2>2
  <2>4. /\ Len(vault') = Len(vault) + 1 /\ Len(vault) \in Nat
        /\ \A c \in 1 .. Len(vault) : vault'[c] = vault[c]
    BY <1>0, <2>2, VaultFacts
  <2>5. \A c \in 1 .. Len(vault') : c \in 1 .. Len(vault) \/ c = Len(vault) + 1
    BY <2>4
  <2>6. CertPart(n)'
    BY <2>1, <2>2, <2>3, <2>4, <2>5 DEF CertPart, NoCert
  <2>7. TokenPart(n)'
    BY <2>2, <2>3 DEF NodePart, TokenPart
  <2>8. QED
    BY <1>2, <2>2, <2>6, <2>7 DEF NodePart, RemovedPart
<1>7. CASE FinishRemove(r)
  <2>1. NoCert(n)
    BY <1>2, <1>7 DEF NodePart, CertPart, FinishRemove
  <2>2. Suspend(r, Idle) /\ UNCHANGED <<token, serial, vault, accepted, disturbed>>
    BY <1>7 DEF FinishRemove, End
  <2>3. \A s \in Requests : ~On(s, n)'
    BY <1>3, <2>2
  <2>4. ~Listed(n)'
    BY <1>7, RemovesOwn
  <2>5. RemovedPart(n)'
    BY <2>1, <2>2, <2>3, <2>4 DEF RemovedPart, NoCert, Busy, On
  <2>6. QED
    BY <2>2, <2>3, <2>5 DEF NodePart, TokenPart, CertPart
<1>8. ASSUME NEW done \in BOOLEAN, NEW answered \in BOOLEAN, FinishRevoke(r, done, answered)
      PROVE  NodePart(n)'
  <2>1. done /\ answered
    BY <1>8 DEF FinishRevoke
  <2>2. req[r] \in Revocation /\ req[r].op = "revoke" /\ req[r].cert = serial[n]
    BY <1>0, <1>2, <1>8, Kinds DEF NodePart, CertPart, FinishRevoke
  <2> DEFINE q == AfterRevoke(n, req[r].why, req[r].index)
  <2>3. /\ vault' = [vault EXCEPT ![req[r].cert].valid = FALSE] /\ Suspend(r, q)
        /\ UNCHANGED <<list, token, serial, accepted, removed>>
    BY <1>8, <2>1 DEF FinishRevoke
  <2>4. q.op # "compare" /\ q.op # "revoke"
    BY DEF AfterRevoke
  <2>5. req[r].cert \in Nat
    BY <2>2 DEF Revocation
  <2>6. /\ Len(vault') = Len(vault)
        /\ \A c \in 1 .. Len(vault) :
             vault'[c].node = vault[c].node /\ vault'[c].valid = (vault[c].valid /\ c # serial[n])
    <3>1. /\ Len(vault') = Len(vault)
          /\ \A c \in 1 .. Len(vault) :
               /\ vault'[c].node = vault[c].node
               /\ vault'[c].valid = (vault[c].valid /\ c # req[r].cert)
      BY <1>0, <2>3, <2>5, RevokedFacts
    <3>2. QED
      BY <2>2, <3>1
  <2>7. NoCert(n)'
    <3>1. ASSUME NEW c \in 1 .. Len(vault), vault'[c] = [node |-> n, valid |-> TRUE] PROVE FALSE
      <4>1. vault[c] \in Cert
        BY <1>0, ElementOfSeq DEF TypeOK
      <4>2. vault'[c].node = n /\ vault'[c].valid
        BY <3>1
      <4>3. vault[c].node = n /\ vault[c].valid /\ c # serial[n]
        BY <2>6, <4>2
      <4>4. vault[c] = [node |-> n, valid |-> TRUE]
        BY <4>1, <4>3 DEF Cert
      <4>5. QED
        BY <4>3, <4>4 DEF NodePart, CertPart
    <3>2. QED
      BY <2>6, <3>1 DEF NoCert
  <2>8. \A s \in Requests : On(s, n)' => s = r /\ req'[s] = q
    BY <1>3, <2>3
  <2> HIDE DEF q
  <2>9. CertPart(n)'
    BY <2>4, <2>7, <2>8 DEF CertPart, NoCert
  <2>10. TokenPart(n)'
    BY <2>3, <2>4, <2>8 DEF NodePart, TokenPart
  <2>11. QED
    BY <1>2, <2>3, <2>9, <2>10 DEF NodePart, RemovedPart
<1>9. ASSUME NEW issued \in BOOLEAN, FailIssue(r, issued) PROVE FALSE
  BY <1>9 DEF FailIssue
<1>10. QED
  BY <1>4, <1>5, <1>6, <1>7, <1>8, <1>9 DEF RequestStep

LEMMA NodesStep == Types /\ Order /\ NodesInv /\ [Next]_vars => NodesInv'
<1> SUFFICES ASSUME Types, Order, NodesInv, [Next]_vars, NEW n \in Nodes, n \notin disturbed'
             PROVE  NodePart(n)'
  BY DEF NodesInv
<1>0. disturbed \subseteq disturbed'
  BY DEF Next, vars, Restart, NodeStep, CreateEnrollment, StartReEnroll, StartRegister, StartRenew,
         StartRemove, Begin, RequestStep, FinishReEnroll, FinishCompare, FinishIssue, FinishRemove,
         FinishRevoke, FailIssue
<1>1. NodePart(n) /\ n \notin disturbed
  BY <1>0 DEF NodesInv
<1>2. ASSUME NEW m \in Nodes, NodeStep(m) PROVE NodePart(n)'
  BY <1>1, <1>2, OwnNode, OtherNodes, ElsewhereKeeps
<1>3. ASSUME NEW r \in Requests, RequestStep(r) PROVE NodePart(n)'
  <2>1. TypeOK /\ req[r] # Idle
    BY <1>3, Kinds DEF Types, RequestStep, FinishReEnroll, FinishCompare, FinishIssue, FinishRemove,
                       FinishRevoke, FailIssue
  <2>2. req[r].node \in Nodes
    BY <2>1, Kinds
  <2>3. QED
    BY <1>1, <1>3, <2>2, OwnRequest, OtherNodes, ElsewhereKeeps
<1>4. CASE Restart
  <2>1. req' = [r \in Requests |-> Idle] /\ UNCHANGED <<list, token, serial, vault, accepted, removed>>
    BY <1>4 DEF Restart
  <2>2. \A s \in Requests : ~On(s, n)'
    BY <2>1 DEF On
  <2>3. QED
    BY <1>1, <2>1, <2>2, ElsewhereKeeps DEF Elsewhere, Listed
<1>5. CASE UNCHANGED vars
  BY <1>1, <1>5, ElsewhereKeeps DEF vars, Elsewhere, Listed, On
<1>6. QED
  BY <1>2, <1>3, <1>4, <1>5 DEF Next

\* The inductive invariant: what undisturbed nodes have, and the order among the
\* requests and positions that keeps one node's steps away from another's.
RegistryInv == Types /\ Order /\ NodesInv

LEMMA RegistryStart == Init => RegistryInv
<1> SUFFICES ASSUME Init PROVE RegistryInv
  OBVIOUS
<1>1. Types
  BY TypesStart
<1>2. Len(<<>>) = 0 /\ \A r \in Requests : req[r] = Idle /\ ~IsRemoval(req[r])
  BY EmptySeq DEF Init, IsRemoval, Idle
<1>3. Order
  BY <1>2 DEF Init, Order, Alone, OneRemoval, Distinct, Found, On
<1>4. NodesInv
  BY <1>2, BoundsAssumption DEF Init, NodesInv, NodePart, TokenPart, CertPart, RemovedPart, NoCert, On
<1>5. QED
  BY <1>1, <1>3, <1>4 DEF RegistryInv

LEMMA RegistryStep == RegistryInv /\ [Next]_vars => RegistryInv'
BY TypesStep, OrderStep, NodesStep DEF RegistryInv

LEMMA RegistryHolds == Spec => []RegistryInv
BY RegistryStart, RegistryStep, PTL DEF Spec

\* Whatever overlaps, fails or restarts, every field keeps its values: serials are
\* numbers of issued certificates, tokens stay within their generations.
THEOREM RegistryTypesHold == Spec => []TypeOK
<1>1. RegistryInv => TypeOK
  BY DEF RegistryInv, Types
<1>2. QED
  BY <1>1, RegistryHolds, PTL

\* Whoever else registers, renews or is removed, a token of a node whose requests do
\* not overlap is spent by one registration (register, reEnroll).
THEOREM TokensSpentOnce == Spec => []TokensOnce
<1>1. RegistryInv => TokensOnce
  BY DEF RegistryInv, NodesInv, NodePart, TokenPart, TokensOnce
<1>2. QED
  BY <1>1, RegistryHolds, PTL

\* What register and renewCert revoke before they issue is all the node had: its
\* valid certificate is the one on record.
THEOREM ValidCertsRecorded == Spec => []CertsRecorded
<1>1. RegistryInv => CertsRecorded
  BY DEF RegistryInv, NodesInv, NodePart, CertPart, CertsRecorded
<1>2. QED
  BY <1>1, RegistryHolds, PTL

\* removeNode leaves the node nothing to connect with.
THEOREM RemovalRevokes == Spec => []RemovedHasNoCert
<1>1. RegistryInv => RemovedHasNoCert
  BY DEF RegistryInv, Types, TypeOK, NodesInv, NodePart, RemovedPart, NoCert, RemovedHasNoCert
<1>2. QED
  BY <1>1, RegistryHolds, PTL

\* The position removeNode has found before two awaits is still its node's when it
\* splices the array, unless requests of one node overlap.
THEOREM RemovalByName == Spec => RemovedByName
<1>1. RegistryInv /\ [Next]_vars =>
        [\A n \in Nodes : Leaves(n) =>
           \E r \in Requests : req[r].op = "leave"
                               /\ (req[r].node = n \/ req[r].node \in disturbed)]_vars
  <2> SUFFICES ASSUME RegistryInv, Next, NEW n \in Nodes, Leaves(n)
               PROVE  \E r \in Requests : req[r].op = "leave"
                                          /\ (req[r].node = n \/ req[r].node \in disturbed)
    OBVIOUS
  <2>1. Types /\ Order /\ Listed(n) /\ ~Listed(n)'
    BY DEF RegistryInv, Leaves, Listed
  <2>2. PICK r \in Requests : FinishRemove(r)
    <3>1. ASSUME NEW m \in Nodes, CreateEnrollment(m) PROVE FALSE
      <4>1. /\ list' = Append(list, m) /\ list \in Seq(Nodes)
        BY <2>1, <3>1 DEF CreateEnrollment, Types, TypeOK
      <4>2. /\ Len(list') = Len(list) + 1 /\ Len(list) \in Nat
            /\ \A i \in 1 .. Len(list) : list'[i] = list[i]
        BY <3>1, <4>1, AppendProperties, LenProperties
      <4>3. \A i \in 1 .. Len(list) : i \in 1 .. Len(list')
        BY <4>2
      <4>4. QED
        BY <2>1, <4>2, <4>3 DEF Listed
    <3>2. ASSUME UNCHANGED list PROVE FALSE
      BY <2>1, <3>2 DEF Listed
    <3>3. QED
      BY <3>1, <3>2 DEF Next, Restart, NodeStep, StartReEnroll, StartRegister, StartRenew, StartRemove,
                        RequestStep, FinishReEnroll, FinishCompare, FinishIssue, FinishRevoke, FailIssue
  <2>3. QED
    BY <2>1, <2>2, RemovesOwn DEF FinishRemove
<1>2. QED
  BY <1>1, RegistryHolds, PTL DEF Spec, RemovedByName

-----------------------------------------------------------------------------
(* NodeTrust *)

\* What is true of one node between two handlers.  That an incident's event is
\* not of the kind that recovers by itself is what makes IncidentsWait inductive.
Good(n) ==
    /\ Len(open[n]) = IF quarantined[n] THEN 1 ELSE 0
    /\ score[n] < Threshold => quarantined[n]
    /\ health[n] = "quarantined" => quarantined[n]
    /\ incident[n] = "raised" => quarantined[n] /\ open[n][1] # "trust_score_low"

IInv == TrustTypeOK /\ \A n \in Enrolled : Good(n)

\* A step leaves alone what Good says of node m.
Same(m) ==
    /\ score'[m] = score[m]
    /\ health'[m] = health[m] \/ health'[m] = "degraded"
    /\ quarantined'[m] = quarantined[m]
    /\ open'[m] = open[m]
    /\ incident'[m] = incident[m]

-----------------------------------------------------------------------------
(* The helpers *)

\* A report puts the score between zero and its ceiling.
LEMMA ScoreBounded ==
    ASSUME TrustTypeOK, NEW n \in Enrolled, NEW r \in Reports
    PROVE  NextScore(n, r) \in 0 .. 100
<1>1. /\ r.deduct \in Nat
      /\ r.ceiling \in 0 .. 100
  BY ReportsAssumption DEF Report
<1>2. score[n] \in 0 .. 100
  BY DEF TrustTypeOK
<1> DEFINE moved == score[n] + 2 - r.deduct
<1>3. moved \in Int
  BY <1>1, <1>2
<1> HIDE DEF moved
<1>4. Clamp(moved, 0, r.ceiling) \in 0 .. 100
  BY <1>1, <1>3 DEF Clamp
<1>5. NextScore(n, r) = IF r.deduct = 0 THEN r.ceiling ELSE Clamp(moved, 0, r.ceiling)
  BY DEF NextScore, moved
<1>6. QED
  BY <1>1, <1>4, <1>5

\* The health that goes with a score reads "quarantined" just below the threshold.
LEMMA HealthOfScore ==
    ASSUME NEW r \in Reports, NEW s \in 0 .. 100
    PROVE  /\ HealthState(r, s) \in Conditions \cup {"stale", "quarantined"}
           /\ HealthState(r, s) = "quarantined" => s < Threshold
BY DEF HealthState, Conditions

\* Raising a quarantine leaves exactly one open event, a new one only on a node
\* that had none.
LEMMA RaiseOpensOne ==
    ASSUME TrustTypeOK, NEW n \in Enrolled, Good(n),
           NEW trigger \in Triggers \cup {"trust_score_low"}, Raise(n, trigger)
    PROVE  /\ quarantined' = [quarantined EXCEPT ![n] = TRUE]
           /\ open' \in [Enrolled -> Seq(Triggers \cup {"trust_score_low"})]
           /\ Len(open'[n]) = 1
           /\ open'[n][1] = IF quarantined[n] THEN open[n][1] ELSE trigger
           /\ \A m \in Enrolled \ {n} : open'[m] = open[m]
<1>1. /\ quarantined \in [Enrolled -> BOOLEAN]
      /\ open \in [Enrolled -> Seq(Triggers \cup {"trust_score_low"})]
  BY DEF TrustTypeOK
<1>2. CASE quarantined[n]
  <2>1. quarantined' = quarantined /\ open' = open
    BY <1>2 DEF Raise
  <2>2. Len(open[n]) = 1
    BY <1>2 DEF Good
  <2>3. quarantined = [quarantined EXCEPT ![n] = TRUE]
    BY <1>1, <1>2
  <2>4. QED
    BY <1>1, <1>2, <2>1, <2>2, <2>3
<1>3. CASE ~quarantined[n]
  <2>1. /\ quarantined' = [quarantined EXCEPT ![n] = TRUE]
        /\ open' = [open EXCEPT ![n] = <<trigger>> \o @]
    BY <1>3 DEF Raise
  <2>2. open[n] = <<>>
    BY <1>1, <1>3, EmptySeq DEF Good
  <2>3. open'[n] = <<trigger>>
    BY <1>1, <2>1, <2>2
  <2>4. QED
    BY <1>1, <1>3, <2>1, <2>3
<1>4. QED
  BY <1>2, <1>3

\* What Good says of a node that a step leaves alone stays true.
LEMMA SameStaysGood ==
    ASSUME NEW m \in Enrolled, Good(m), Same(m)
    PROVE  Good(m)'
BY DEF Good, Same

-----------------------------------------------------------------------------
(* The steps *)

LEMMA ReportKeeps ==
    ASSUME IInv, NEW n \in Enrolled, NEW r \in Reports, ApplyHealthReport(n, r)
    PROVE  IInv'
<1> DEFINE next == NextScore(n, r)
           state == HealthState(r, next)
<1>1. TrustTypeOK /\ \A m \in Enrolled : Good(m)
  BY DEF IInv
<1>2. next \in 0 .. 100
  BY <1>1, ScoreBounded
<1>3. /\ state \in Conditions \cup {"stale", "quarantined"}
      /\ state = "quarantined" => next < Threshold
  BY <1>2, HealthOfScore
<1>4. /\ score' = [score EXCEPT ![n] = next]
      /\ health' = [health EXCEPT ![n] = state]
      /\ status' = [status EXCEPT ![n] =
            IF state \in {"unhealthy", "quarantined"} THEN "offline" ELSE "online"]
      /\ UNCHANGED <<seen, incident>>
  BY DEF ApplyHealthReport
<1>5. \/ next < Threshold /\ Raise(n, "trust_score_low")
      \/ /\ next >= Threshold /\ quarantined[n] /\ Recovers(n)
         /\ quarantined' = [quarantined EXCEPT ![n] = FALSE]
         /\ open' = [open EXCEPT ![n] = <<>>]
      \/ /\ next >= Threshold /\ ~(quarantined[n] /\ Recovers(n))
         /\ UNCHANGED <<quarantined, open>>
  BY DEF ApplyHealthReport
<1> HIDE DEF next, state
<1>6. Threshold \in Nat
  BY TrustAssumption DEF DefaultTrust
<1>7. /\ quarantined' \in [Enrolled -> BOOLEAN]
      /\ open' \in [Enrolled -> Seq(Triggers \cup {"trust_score_low"})]
      /\ \A m \in Enrolled \ {n} : quarantined'[m] = quarantined[m] /\ open'[m] = open[m]
      /\ Good(n)'
  <2>1. /\ score'[n] = next
        /\ health'[n] = state
        /\ incident'[n] = incident[n]
    BY <1>1, <1>4 DEF TrustTypeOK
  <2>2. CASE next < Threshold /\ Raise(n, "trust_score_low")
    <3>1. /\ quarantined' = [quarantined EXCEPT ![n] = TRUE]
          /\ open' \in [Enrolled -> Seq(Triggers \cup {"trust_score_low"})]
          /\ Len(open'[n]) = 1
          /\ open'[n][1] = IF quarantined[n] THEN open[n][1] ELSE "trust_score_low"
          /\ \A m \in Enrolled \ {n} : open'[m] = open[m]
      BY <1>1, <2>2, RaiseOpensOne
    <3>2. quarantined'[n]
      BY <1>1, <3>1 DEF TrustTypeOK
    <3>3. Good(n)'
      BY <1>1, <2>1, <3>1, <3>2 DEF Good
    <3>4. QED
      BY <1>1, <3>1, <3>3 DEF TrustTypeOK
  <2>3. CASE /\ next >= Threshold /\ quarantined[n] /\ Recovers(n)
             /\ quarantined' = [quarantined EXCEPT ![n] = FALSE]
             /\ open' = [open EXCEPT ![n] = <<>>]
    <3>1. ~quarantined'[n] /\ open'[n] = <<>>
      BY <1>1, <2>3 DEF TrustTypeOK
    <3>2. open[n][1] = "trust_score_low"
      <4>1. Len(open[n]) = 1
        BY <1>1, <2>3 DEF Good
      <4>2. \A i \in 1 .. Len(open[n]) : open[n][i] = "trust_score_low"
        BY <2>3 DEF Recovers
      <4>3. QED
        BY <4>1, <4>2
    <3>3. incident[n] # "raised"
      BY <1>1, <3>2 DEF Good
    <3>4. Good(n)'
      BY <1>2, <1>3, <1>6, <2>1, <2>3, <3>1, <3>3 DEF Good
    <3>5. QED
      BY <1>1, <2>3, <3>4 DEF TrustTypeOK
  <2>4. CASE /\ next >= Threshold /\ ~(quarantined[n] /\ Recovers(n))
             /\ UNCHANGED <<quarantined, open>>
    <3>1. ~(score'[n] < Threshold) /\ health'[n] # "quarantined"
      BY <1>2, <1>3, <1>6, <2>1, <2>4
    <3>2. Good(n)'
      BY <1>1, <2>1, <2>4, <3>1 DEF Good
    <3>3. QED
      BY <1>1, <2>4, <3>2 DEF TrustTypeOK
  <2>5. QED
    BY <1>5, <2>2, <2>3, <2>4
<1>8. TrustTypeOK'
  BY <1>1, <1>2, <1>3, <1>4, <1>7 DEF TrustTypeOK
<1>9. \A m \in Enrolled : m # n => Good(m)'
  BY <1>1, <1>4, <1>7, SameStaysGood DEF Same, TrustTypeOK
<1>10. QED
  BY <1>7, <1>8, <1>9 DEF IInv

LEMMA PenalizeKeeps ==
    ASSUME IInv, NEW n \in Enrolled, NEW trigger \in Triggers, NEW penalty \in Penalties,
           Penalize(n, trigger, penalty)
    PROVE  IInv'
<1>1. TrustTypeOK /\ \A m \in Enrolled : Good(m)
  BY DEF IInv
<1>2. /\ score' = [score EXCEPT ![n] = Clamp(@ - penalty, 0, 100)]
      /\ Raise(n, trigger)
      /\ health' = IF quarantined[n] THEN health ELSE [health EXCEPT ![n] = "quarantined"]
      /\ status' = IF quarantined[n] THEN status ELSE [status EXCEPT ![n] = "offline"]
      /\ incident' = [incident EXCEPT ![n] = IF quarantined[n] THEN @ ELSE "raised"]
      /\ seen' = seen
  BY DEF Penalize
<1>3. Clamp(score[n] - penalty, 0, 100) \in 0 .. 100
  <2>1. score[n] \in 0 .. 100 /\ penalty \in Nat
    BY <1>1, PenaltiesAssumption DEF TrustTypeOK
  <2>2. QED
    BY <2>1 DEF Clamp
<1>4. /\ quarantined' = [quarantined EXCEPT ![n] = TRUE]
      /\ open' \in [Enrolled -> Seq(Triggers \cup {"trust_score_low"})]
      /\ Len(open'[n]) = 1
      /\ open'[n][1] = IF quarantined[n] THEN open[n][1] ELSE trigger
      /\ \A m \in Enrolled \ {n} : open'[m] = open[m]
  BY <1>1, <1>2, RaiseOpensOne
<1>5. TrustTypeOK'
  <2>1. score' \in [Enrolled -> 0 .. 100]
    BY <1>1, <1>2, <1>3 DEF TrustTypeOK
  <2>2. incident' \in [Enrolled -> Incidents]
    BY <1>1, <1>2 DEF TrustTypeOK, Incidents
  <2>3. QED
    BY <1>1, <1>2, <1>4, <2>1, <2>2 DEF TrustTypeOK
<1>6. Good(n)'
  <2>1. quarantined'[n]
    BY <1>1, <1>4 DEF TrustTypeOK
  <2>2. incident'[n] = "raised" => open'[n][1] # "trust_score_low"
    BY <1>1, <1>2, <1>4 DEF TrustTypeOK, Good, Triggers
  <2>3. QED
    BY <1>4, <2>1, <2>2 DEF Good
<1>7. \A m \in Enrolled : m # n => Good(m)'
  BY <1>1, <1>2, <1>4, SameStaysGood DEF Same, TrustTypeOK
<1>8. QED
  BY <1>5, <1>6, <1>7 DEF IInv

LEMMA ClearKeeps ==
    ASSUME IInv, NEW n \in Enrolled, ClearQuarantine(n)
    PROVE  IInv'
<1>1. TrustTypeOK /\ \A m \in Enrolled : Good(m)
  BY DEF IInv
<1>2. /\ quarantined' = [quarantined EXCEPT ![n] = FALSE]
      /\ open' = [open EXCEPT ![n] = <<>>]
      /\ health' = [health EXCEPT ![n] = "degraded"]
      /\ score' = [score EXCEPT ![n] = ClearedScore(n)]
      /\ incident' = [incident EXCEPT ![n] = "none"]
      /\ status' = status /\ seen' = seen
  BY DEF ClearQuarantine
<1>3. ~(ClearedScore(n) < Threshold) /\ ClearedScore(n) \in 0 .. 100
  <2>1. score[n] \in 0 .. 100 /\ Threshold \in 0 .. 80
    BY <1>1, TrustAssumption DEF TrustTypeOK, DefaultTrust
  <2>2. QED
    BY <2>1 DEF ClearedScore, DefaultTrust
<1>4. TrustTypeOK'
  BY <1>1, <1>2, <1>3 DEF TrustTypeOK, Conditions, Incidents
<1>5. Good(n)'
  <2>1. /\ ~quarantined'[n] /\ open'[n] = <<>> /\ health'[n] = "degraded"
        /\ score'[n] = ClearedScore(n) /\ incident'[n] = "none"
    BY <1>1, <1>2 DEF TrustTypeOK
  <2>2. ~(score'[n] < Threshold)
    BY <1>3, <2>1
  <2>3. QED
    BY <2>1, <2>2 DEF Good
<1>6. \A m \in Enrolled : m # n => Good(m)'
  BY <1>1, <1>2, SameStaysGood DEF Same, TrustTypeOK
<1>7. QED
  BY <1>4, <1>5, <1>6 DEF IInv

LEMMA RegisterKeeps ==
    ASSUME IInv, NEW n \in Enrolled, Register(n)
    PROVE  IInv'
<1>1. TrustTypeOK /\ \A m \in Enrolled : Good(m)
  BY DEF IInv
<1>2. /\ status' = [status EXCEPT ![n] = "online"]
      /\ health' = [health EXCEPT ![n] = "degraded"]
      /\ score' = IF ~seen[n] /\ score[n] > InitialTrust
                  THEN [score EXCEPT ![n] = InitialTrust] ELSE score
      /\ seen' = [seen EXCEPT ![n] = TRUE]
      /\ quarantined' = quarantined /\ open' = open /\ incident' = incident
  BY DEF Register
<1>3. InitialTrust \in 0 .. 100 /\ ~(InitialTrust < Threshold)
  BY TrustAssumption DEF DefaultTrust
<1>4. TrustTypeOK'
  BY <1>1, <1>2, <1>3 DEF TrustTypeOK, Conditions
<1>5. Good(n)'
  <2>1. health'[n] = "degraded" /\ (score'[n] = score[n] \/ score'[n] = InitialTrust)
    BY <1>1, <1>2 DEF TrustTypeOK
  <2>2. QED
    BY <1>1, <1>2, <1>3, <2>1 DEF Good
<1>6. \A m \in Enrolled : m # n => Good(m)'
  BY <1>1, <1>2, SameStaysGood DEF Same, TrustTypeOK
<1>7. QED
  BY <1>4, <1>5, <1>6 DEF IInv

\* Re-enrollment, heartbeats and listings touch the status, and a heartbeat makes
\* the health of a node outside quarantine "degraded".
LEMMA OthersKeep ==
    ASSUME IInv, ListNodes \/ \E n \in Enrolled : ReEnroll(n) \/ Heartbeat(n)
    PROVE  IInv'
<1>1. TrustTypeOK /\ \A m \in Enrolled : Good(m)
  BY DEF IInv
<1>2. /\ status' \in [Enrolled -> {"pending", "online", "offline"}]
      /\ health' \in [Enrolled -> Conditions \cup {"stale", "quarantined"}]
      /\ \A m \in Enrolled : health'[m] = health[m] \/ health'[m] = "degraded"
      /\ UNCHANGED <<score, quarantined, open, seen, incident>>
  BY <1>1 DEF TrustTypeOK, Conditions, ListNodes, ReEnroll, Heartbeat
<1>3. TrustTypeOK'
  BY <1>1, <1>2 DEF TrustTypeOK
<1>4. \A m \in Enrolled : Good(m)'
  BY <1>1, <1>2, SameStaysGood DEF Same
<1>5. QED
  BY <1>3, <1>4 DEF IInv

-----------------------------------------------------------------------------
(* The theorems *)

\* Every node is Good after every sequence of reports, penalties, clearances,
\* registrations and heartbeats.
THEOREM TrustInvariant == TrustSpec => []IInv
<1>1. TrustInit => IInv
  <2> SUFFICES ASSUME TrustInit PROVE IInv
    OBVIOUS
  <2>1. InitialTrust \in 0 .. 100 /\ ~(InitialTrust < Threshold)
    BY TrustAssumption DEF DefaultTrust
  <2>2. <<>> \in Seq(Triggers \cup {"trust_score_low"})
    OBVIOUS
  <2>3. TrustTypeOK
    BY <2>1, <2>2 DEF TrustInit, TrustTypeOK, Conditions, Incidents
  <2>4. ASSUME NEW n \in Enrolled PROVE Good(n)
    BY <2>1 DEF TrustInit, Good
  <2>5. QED
    BY <2>3, <2>4 DEF IInv
<1>2. IInv /\ [TrustNext]_trustVars => IInv'
  <2> SUFFICES ASSUME IInv, [TrustNext]_trustVars PROVE IInv'
    OBVIOUS
  <2>1. CASE ListNodes
    BY <2>1, OthersKeep
  <2>2. ASSUME NEW n \in Enrolled, TrustStep(n) PROVE IInv'
    <3>1. CASE \E r \in Reports : ApplyHealthReport(n, r)
      BY <3>1, ReportKeeps
    <3>2. CASE \E trigger \in Triggers, penalty \in Penalties : Penalize(n, trigger, penalty)
      BY <3>2, PenalizeKeeps
    <3>3. CASE ClearQuarantine(n)
      BY <3>3, ClearKeeps
    <3>4. CASE Register(n)
      BY <3>4, RegisterKeeps
    <3>5. CASE ReEnroll(n) \/ Heartbeat(n)
      BY <3>5, OthersKeep
    <3>6. QED
      BY <2>2, <3>1, <3>2, <3>3, <3>4, <3>5 DEF TrustStep
  <2>3. CASE UNCHANGED trustVars
    BY <2>3 DEF trustVars, IInv, TrustTypeOK, Good
  <2>4. QED
    BY <2>1, <2>2, <2>3 DEF TrustNext
<1>3. QED
  BY <1>1, <1>2, PTL DEF TrustSpec

\* Scores stay within 0 .. 100, and every field keeps its values.
THEOREM TypesHold == TrustSpec => []TrustTypeOK
<1>1. IInv => TrustTypeOK
  BY DEF IInv
<1>2. QED
  BY <1>1, TrustInvariant, PTL

\* A node is in quarantine exactly while one quarantine event of it is unresolved.
THEOREM OneOpenEvent == TrustSpec => []EventsMatch
<1>1. IInv => EventsMatch
  BY DEF IInv, Good, EventsMatch
<1>2. QED
  BY <1>1, TrustInvariant, PTL

\* A node below the threshold is in quarantine.
THEOREM LowTrustIsQuarantined == TrustSpec => []LowTrustQuarantined
<1>1. IInv => LowTrustQuarantined
  BY DEF IInv, Good, LowTrustQuarantined
<1>2. QED
  BY <1>1, TrustInvariant, PTL

\* Only an operator ends a quarantine that a security incident has raised.
THEOREM IncidentsStay == TrustSpec => []IncidentsWait
<1>1. IInv => IncidentsWait
  BY DEF IInv, Good, IncidentsWait
<1>2. QED
  BY <1>1, TrustInvariant, PTL

\* Health never says "quarantined" of a node that is not.
THEOREM HealthIsHonest == TrustSpec => []HealthTellsQuarantine
<1>1. IInv => HealthTellsQuarantine
  BY DEF IInv, Good, HealthTellsQuarantine
<1>2. QED
  BY <1>1, TrustInvariant, PTL
=============================================================================
