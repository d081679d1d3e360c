------------------------- MODULE SingleSignOnProofs -------------------------
(***************************************************************************)
(* What logins through identity providers keep, for any number of          *)
(* providers, flows, accounts and concurrent requests.                     *)
(***************************************************************************)
EXTENDS SingleSignOn, TLAPS

-----------------------------------------------------------------------------
(* Types *)

LEMMA NothingTyped == ASSUME NEW S PROVE DOMAIN Nothing = {} /\ Nothing \in [{} -> S]
BY DEF Nothing

\* A slot's new request.
LEMMA MoveTyped ==
    ASSUME TypeOK, NEW r \in Requests, NEW request \in Request, Move(r, request)
    PROVE  /\ req' \in [Requests -> Request]
           /\ req'[r] = request /\ \A q \in Requests : q # r => req'[q] = req[q]
BY DEF TypeOK, Move

LEMMA BeginIsMove ==
    ASSUME NEW r, NEW request, Begin(r, request)
    PROVE  Move(r, request) /\ req[r] = Idle
BY DEF Begin, Move

LEMMA RequestKinds ==
    /\ Idle \in Request
    /\ \A s \in Flows : /\ [op |-> "drop", flow |-> s] \in Request
                        /\ [op |-> "exchange", flow |-> s] \in Request
                        /\ [op |-> "save", flow |-> s] \in Request
                        /\ \A i \in Ids : [op |-> "link", flow |-> s, account |-> i] \in Request
    /\ \A h \in Handoffs : [op |-> "redeem", handoff |-> h] \in Request
    /\ \A email \in Emails : [op |-> "create", email |-> email] \in Request
BY DEF Request, Idle, Callback, Provisioning, Completion, Creation

\* What a request's operation says of its fields.
LEMMA RequestFields ==
    ASSUME TypeOK, NEW r \in Requests
    PROVE  /\ req[r].op \in {"drop", "exchange", "save", "link"} => req[r].flow \in Flows
           /\ req[r].op = "drop" => req[r] = [op |-> "drop", flow |-> req[r].flow]
           /\ req[r].op = "link" => req[r].account \in Ids
           /\ req[r].op = "redeem" => /\ req[r].handoff \in Handoffs
                                      /\ req[r] = [op |-> "redeem", handoff |-> req[r].handoff]
           /\ req[r].op = "create" => /\ req[r].email \in Emails
                                      /\ req[r] = [op |-> "create", email |-> req[r].email]
<1>1. req[r] \in Request
  BY DEF TypeOK
<1>2. CASE req[r] = Idle
  BY <1>2 DEF Idle
<1>3. CASE req[r] \in Callback
  BY <1>3 DEF Callback
<1>4. CASE req[r] \in Provisioning
  BY <1>4 DEF Provisioning
<1>5. CASE req[r] \in Completion
  BY <1>5 DEF Completion
<1>6. CASE req[r] \in Creation
  BY <1>6 DEF Creation
<1>7. QED
  BY <1>1, <1>2, <1>3, <1>4, <1>5, <1>6 DEF Request

-----------------------------------------------------------------------------
(* What each request refers to exists. *)

At(r, s) == req[r].op \in {"drop", "exchange", "save", "link"} /\ req[r].flow = s

Redeems(r, h) == req[r].op = "redeem" /\ req[r].handoff = h

RefsOK ==
    /\ \A r \in Requests : \A s \in Flows : At(r, s) => s \in DOMAIN flows
    /\ \A r \in Requests : req[r].op = "link" => req[r].account \in DOMAIN accounts
    /\ \A r \in Requests : \A h \in Handoffs : Redeems(r, h) => h \in DOMAIN handoffs
    /\ \A h \in DOMAIN handoffs : handoffs[h].flow \in DOMAIN flows
    /\ \A s \in DOMAIN flows : flows[s].provider \in DOMAIN providers

Typed == TypeOK /\ RefsOK

\* The accounts after Push and after Link.
LEMMA PushFacts ==
    ASSUME TypeOK, NEW i \in Ids, NEW email \in Emails, Push(i, email)
    PROVE  /\ i \notin DOMAIN accounts
           /\ DOMAIN accounts' = DOMAIN accounts \cup {i}
           /\ accounts' \in [DOMAIN accounts' -> Account] /\ DOMAIN accounts' \subseteq Ids
           /\ accounts'[i].present = TRUE /\ accounts'[i].email = email
           /\ accounts'[i].links = [p \in Providers |-> 0]
           /\ \A j \in DOMAIN accounts : accounts'[j] = accounts[j]
<1> DEFINE new == [present |-> TRUE, email |-> email, links |-> [p \in Providers |-> 0]]
<1>1. /\ new \in Account
      /\ new.present = TRUE /\ new.email = email /\ new.links = [p \in Providers |-> 0]
  BY DEF Account
<1>2. accounts' = Put(accounts, i, new) /\ i \notin DOMAIN accounts
  BY DEF Push
<1>3. accounts \in [DOMAIN accounts -> Account] /\ DOMAIN accounts \subseteq Ids
  BY DEF TypeOK
<1> HIDE DEF new
<1>4. /\ accounts' \in [DOMAIN accounts' -> Account]
      /\ DOMAIN accounts' = DOMAIN accounts \cup {i}
      /\ accounts'[i] = new
      /\ \A k \in DOMAIN accounts : k # i => accounts'[k] = accounts[k]
  <2>1. /\ Put(accounts, i, new) \in [DOMAIN Put(accounts, i, new) -> Account]
        /\ DOMAIN Put(accounts, i, new) = DOMAIN accounts \cup {i}
        /\ Put(accounts, i, new)[i] = new
        /\ \A k \in DOMAIN accounts : k # i => Put(accounts, i, new)[k] = accounts[k]
    BY <1>1, <1>3 DEF Put
  <2>2. QED
    BY <1>2, <2>1
<1>5. QED
  BY <1>1, <1>2, <1>3, <1>4

LEMMA LinkFacts ==
    ASSUME TypeOK, NEW i \in DOMAIN accounts, NEW p \in Providers, Link(i, p)
    PROVE  /\ accounts' \in [DOMAIN accounts -> Account]
           /\ DOMAIN accounts' = DOMAIN accounts
           /\ \A j \in DOMAIN accounts :
                /\ accounts'[j].present = accounts[j].present
                /\ accounts'[j].email = accounts[j].email
                /\ \A q \in Providers : \/ accounts'[j].links[q] = accounts[j].links[q]
                                        \/ accounts'[j].links[q] = 1
<1>1. accounts \in [DOMAIN accounts -> Account]
  BY DEF TypeOK
<1>2. accounts[i] \in Account /\ accounts[i].links \in [Providers -> Nat]
  BY <1>1 DEF Account
<1>3. CASE HasLink(i, p)
  BY <1>1, <1>3 DEF Link
<1>4. CASE ~HasLink(i, p)
  <2>1. accounts[i].links[p] = 0
    BY <1>2, <1>4 DEF HasLink
  <2> DEFINE linked == [accounts[i] EXCEPT !.links = [accounts[i].links EXCEPT ![p] = accounts[i].links[p] + 1]]
  <2>2. accounts' = [accounts EXCEPT ![i] = linked]
    BY <1>4 DEF Link
  <2>3. /\ linked \in Account
        /\ linked.present = accounts[i].present /\ linked.email = accounts[i].email
        /\ \A q \in Providers : \/ linked.links[q] = accounts[i].links[q]
                                \/ linked.links[q] = 1
    BY <1>2, <2>1 DEF Account
  <2> HIDE DEF linked
  <2>4. QED
    BY <1>1, <2>2, <2>3
<1>5. QED
  BY <1>3, <1>4

\* What the callback's steps leave, with the slot's flow and its provider.
LEMMA FlowOf ==
    ASSUME Typed, NEW r \in Requests, req[r].op \in {"drop", "exchange", "save", "link"}
    PROVE  /\ req[r].flow \in DOMAIN flows /\ req[r].flow \in Flows
           /\ flows[req[r].flow].provider \in Providers
           /\ flows[req[r].flow].provider \in DOMAIN providers
<1>1. req[r].flow \in Flows
  BY RequestFields DEF Typed
<1>2. At(r, req[r].flow)
  BY DEF At
<1>3. req[r].flow \in DOMAIN flows
  BY <1>1, <1>2 DEF Typed, RefsOK
<1>4. flows[req[r].flow] \in Flow
  BY <1>3 DEF Typed, TypeOK
<1>5. QED
  BY <1>1, <1>3, <1>4 DEF Flow, Typed, RefsOK

LEMMA HandoffOf ==
    ASSUME Typed, NEW h \in DOMAIN handoffs
    PROVE  h \in Handoffs /\ handoffs[h].flow \in Flows /\ handoffs[h].flow \in DOMAIN flows
<1>1. handoffs[h] \in Handoff /\ h \in Handoffs
  BY DEF Typed, TypeOK
<1>2. QED
  BY <1>1 DEF Handoff, Typed, RefsOK

\* A slot gets a request that refers to what exists, or becomes idle; nothing
\* that requests refer to goes away.
LEMMA SlotRefs ==
    ASSUME Typed, NEW r \in Requests, NEW request \in Request, Move(r, request),
           DOMAIN flows \subseteq DOMAIN flows', DOMAIN handoffs \subseteq DOMAIN handoffs',
           DOMAIN accounts \subseteq DOMAIN accounts',
           \A s \in Flows : request.op \in {"drop", "exchange", "save", "link"} /\ request.flow = s
                => s \in DOMAIN flows',
           request.op = "link" => request.account \in DOMAIN accounts',
           \A h \in Handoffs : request.op = "redeem" /\ request.handoff = h => h \in DOMAIN handoffs'
    PROVE  /\ \A q \in Requests : \A s \in Flows : At(q, s)' => s \in DOMAIN flows'
           /\ \A q \in Requests : req'[q].op = "link" => req'[q].account \in DOMAIN accounts'
           /\ \A q \in Requests : \A h \in Handoffs : Redeems(q, h)' => h \in DOMAIN handoffs'
<1>1. req'[r] = request /\ \A q \in Requests : q # r => req'[q] = req[q]
  BY MoveTyped DEF Typed
<1>2. QED
  BY <1>1 DEF Typed, RefsOK, At, Redeems

\* Steps that only move one slot on, to a request about a flow or an account
\* that exists, or to none.
LEMMA MoveKeeps ==
    ASSUME Typed, NEW r \in Requests, NEW request \in Request, Move(r, request),
           UNCHANGED <<providers, keys, accounts, sessions>>,
           raced' \subseteq Emails, loose' \subseteq Flows,
           \A s \in Flows : request.op \in {"drop", "exchange", "save", "link"} /\ request.flow = s
                => s \in DOMAIN flows,
           request.op = "link" => request.account \in DOMAIN accounts,
           \A h \in Handoffs : request.op = "redeem" /\ request.handoff = h => h \in DOMAIN handoffs
    PROVE  Typed'
<1>1. flows' = flows /\ handoffs' = handoffs /\ accounts' = accounts /\ providers' = providers
      /\ sessions' = sessions
  BY DEF keys
<1>2. TypeOK'
  BY <1>1, MoveTyped DEF Typed, TypeOK
<1>3. RefsOK'
  BY <1>1, SlotRefs DEF Typed, RefsOK
<1>4. QED
  BY <1>2, <1>3 DEF Typed

LEMMA EndRequest ==
    /\ Idle \in Request
    /\ ~(Idle.op \in {"drop", "exchange", "save", "link"}) /\ Idle.op # "link" /\ Idle.op # "redeem"
BY DEF Request, Idle

\* Steps of the administrator and of time, which move no slot and keep all
\* that is referred to.
LEMMA OutsideKeeps ==
    ASSUME Typed, TypeOK', req' = req,
           DOMAIN flows \subseteq DOMAIN flows', DOMAIN handoffs' = DOMAIN handoffs,
           DOMAIN accounts' = DOMAIN accounts, DOMAIN providers \subseteq DOMAIN providers',
           \A h \in DOMAIN handoffs : handoffs'[h].flow = handoffs[h].flow,
           \A s \in DOMAIN flows : flows'[s].provider = flows[s].provider,
           \A s \in DOMAIN flows' : s \in DOMAIN flows \/ flows'[s].provider \in DOMAIN providers
    PROVE  Typed'
BY DEF Typed, RefsOK, At, Redeems

LEMMA SlotKeeps ==
    ASSUME Typed, TypeOK', NEW r \in Requests, NEW request \in Request, Move(r, request),
           DOMAIN flows' = DOMAIN flows, DOMAIN handoffs \subseteq DOMAIN handoffs',
           DOMAIN accounts \subseteq DOMAIN accounts', DOMAIN providers' = DOMAIN providers,
           \A h \in DOMAIN handoffs : handoffs'[h].flow = handoffs[h].flow,
           \A h \in DOMAIN handoffs' : h \in DOMAIN handoffs \/ handoffs'[h].flow \in DOMAIN flows,
           \A s \in DOMAIN flows : flows'[s].provider = flows[s].provider,
           \A s \in Flows : request.op \in {"drop", "exchange", "save", "link"} /\ request.flow = s
                => s \in DOMAIN flows,
           request.op = "link" => request.account \in DOMAIN accounts',
           \A h \in Handoffs : request.op = "redeem" /\ request.handoff = h => h \in DOMAIN handoffs
    PROVE  Typed'
<1>1. /\ \A q \in Requests : \A s \in Flows : At(q, s)' => s \in DOMAIN flows'
      /\ \A q \in Requests : req'[q].op = "link" => req'[q].account \in DOMAIN accounts'
      /\ \A q \in Requests : \A h \in Handoffs : Redeems(q, h)' => h \in DOMAIN handoffs'
  BY SlotRefs
<1>2. /\ \A h \in DOMAIN handoffs' : handoffs'[h].flow \in DOMAIN flows'
      /\ \A s \in DOMAIN flows' : flows'[s].provider \in DOMAIN providers'
  BY DEF Typed, RefsOK
<1>3. QED
  BY <1>1, <1>2 DEF Typed, RefsOK

LEMMA InitTyped == Init => Typed
<1> SUFFICES ASSUME Init PROVE Typed
  OBVIOUS
<1>1. TypeOK
  BY NothingTyped DEF Init, TypeOK, Request
<1>2. RefsOK
  BY NothingTyped DEF Init, RefsOK, At, Redeems, Idle
<1>3. QED
  BY <1>1, <1>2 DEF Typed

LEMMA ProviderSteps ==
    ASSUME Typed, NEW p \in Providers, NEW settings \in Settings,
           CreateProvider(p, settings) \/ UpdateProvider(p, settings) \/ DeleteProvider(p)
    PROVE  Typed'
<1>1. UNCHANGED <<keys, accounts, req, history>>
  BY DEF CreateProvider, UpdateProvider, DeleteProvider
<1>2. providers \in [DOMAIN providers -> Provider] /\ DOMAIN providers \subseteq Providers
  BY DEF Typed, TypeOK
<1>3. /\ providers' \in [DOMAIN providers' -> Provider] /\ DOMAIN providers' \subseteq Providers
      /\ DOMAIN providers \subseteq DOMAIN providers'
  <2>1. CASE CreateProvider(p, settings)
    <3>1. [listed |-> TRUE, settings |-> settings] \in Provider
      BY DEF Provider
    <3>2. QED
      BY <1>2, <2>1, <3>1 DEF CreateProvider, Put
  <2>2. CASE UpdateProvider(p, settings)
    BY <1>2, <2>2 DEF UpdateProvider, Provider
  <2>3. CASE DeleteProvider(p)
    BY <1>2, <2>3 DEF DeleteProvider, Provider
  <2>4. QED
    BY <2>1, <2>2, <2>3
<1>4. TypeOK'
  BY <1>1, <1>3 DEF Typed, TypeOK, keys, history
<1>5. UNCHANGED <<flows, handoffs, accounts, req>>
  BY <1>1 DEF keys
<1>6. QED
  BY <1>3, <1>4, <1>5, OutsideKeeps DEF Typed, RefsOK

LEMMA StartCreateTyped ==
    ASSUME Typed, NEW r \in Requests, NEW email \in Emails, StartCreate(r, email) PROVE Typed'
<1> DEFINE request == [op |-> "create", email |-> email]
<1>1. /\ request \in Request /\ request.op = "create"
      /\ Move(r, request) /\ UNCHANGED <<providers, keys, accounts, sessions>>
      /\ raced' \subseteq Emails /\ loose' \subseteq Flows
  BY RequestKinds, BeginIsMove DEF StartCreate, Race, Typed, TypeOK
<1> HIDE DEF request
<1>2. QED
  BY <1>1, MoveKeeps

LEMMA FinishCreateTyped ==
    ASSUME Typed, NEW r \in Requests, NEW i \in Ids, FinishCreate(r, i) PROVE Typed'
<1>1. req[r].email \in Emails
  BY RequestFields DEF FinishCreate, Typed
<1>2. /\ Push(i, req[r].email) /\ Move(r, Idle)
      /\ UNCHANGED <<providers, flows, handoffs, sessions, raced, loose>>
  BY DEF FinishCreate, End, keys, history
<1>3. /\ accounts' \in [DOMAIN accounts' -> Account] /\ DOMAIN accounts' \subseteq Ids
      /\ DOMAIN accounts \subseteq DOMAIN accounts'
  BY <1>1, <1>2, PushFacts DEF Typed
<1>4. TypeOK'
  BY <1>2, <1>3, EndRequest, MoveTyped DEF Typed, TypeOK
<1>5. QED
  BY <1>2, <1>3, <1>4, EndRequest, SlotKeeps DEF Typed, RefsOK

LEMMA OutsideSteps ==
    ASSUME Typed,
           \/ \E i \in DOMAIN accounts : DeleteUser(i)
           \/ \E p \in Providers, s \in Flows : Initiate(p, s)
           \/ \E s \in DOMAIN flows : ExpireFlow(s)
           \/ \E h \in DOMAIN handoffs : ExpireHandoff(h)
    PROVE  Typed'
<1>1. CASE \E i \in DOMAIN accounts : DeleteUser(i)
  <2>1. PICK i \in DOMAIN accounts : DeleteUser(i)
    BY <1>1
  <2>2. accounts' \in [DOMAIN accounts -> Account] /\ DOMAIN accounts' = DOMAIN accounts
    BY <2>1 DEF DeleteUser, Typed, TypeOK, Account
  <2>3. UNCHANGED <<providers, flows, handoffs, req, sessions, raced, loose>>
    BY <2>1 DEF DeleteUser, keys, history
  <2>4. TypeOK'
    BY <2>2, <2>3 DEF Typed, TypeOK
  <2>5. QED
    BY <2>2, <2>3, <2>4, OutsideKeeps DEF Typed, RefsOK
<1>2. CASE \E p \in Providers, s \in Flows : Initiate(p, s)
  <2>1. PICK p \in Providers, s \in Flows : Initiate(p, s)
    BY <1>2
  <2>2. [provider |-> p, stored |-> TRUE] \in Flow /\ p \in DOMAIN providers
    BY <2>1 DEF Flow, Initiate, Usable
  <2>3. /\ flows' = Put(flows, s, [provider |-> p, stored |-> TRUE]) /\ s \notin DOMAIN flows
        /\ flows \in [DOMAIN flows -> Flow] /\ DOMAIN flows \subseteq Flows
        /\ UNCHANGED <<providers, handoffs, accounts, req, sessions, raced, loose>>
    BY <2>1 DEF Initiate, history, Typed, TypeOK
  <2>4. /\ flows' \in [DOMAIN flows' -> Flow] /\ DOMAIN flows' = DOMAIN flows \cup {s}
        /\ flows'[s].provider = p /\ \A k \in DOMAIN flows : flows'[k] = flows[k]
    BY <2>2, <2>3 DEF Put
  <2>5. TypeOK'
    BY <2>3, <2>4 DEF Typed, TypeOK
  <2>6. QED
    BY <2>2, <2>3, <2>4, <2>5, OutsideKeeps DEF Typed, RefsOK
<1>3. CASE \E s \in DOMAIN flows : ExpireFlow(s)
  <2>1. PICK s \in DOMAIN flows : ExpireFlow(s)
    BY <1>3
  <2>2. /\ flows' \in [DOMAIN flows -> Flow] /\ DOMAIN flows' = DOMAIN flows
        /\ \A k \in DOMAIN flows : flows'[k].provider = flows[k].provider
    BY <2>1 DEF ExpireFlow, Typed, TypeOK, Flow
  <2>3. UNCHANGED <<providers, handoffs, accounts, req, sessions, raced, loose>>
    BY <2>1 DEF ExpireFlow, history
  <2>4. TypeOK'
    BY <2>2, <2>3 DEF Typed, TypeOK
  <2>5. QED
    BY <2>2, <2>3, <2>4, OutsideKeeps DEF Typed, RefsOK
<1>4. CASE \E h \in DOMAIN handoffs : ExpireHandoff(h)
  <2>1. PICK h \in DOMAIN handoffs : ExpireHandoff(h)
    BY <1>4
  <2>2. /\ handoffs' \in [DOMAIN handoffs -> Handoff] /\ DOMAIN handoffs' = DOMAIN handoffs
        /\ \A k \in DOMAIN handoffs : handoffs'[k].flow = handoffs[k].flow
    BY <2>1 DEF ExpireHandoff, Typed, TypeOK, Handoff
  <2>3. UNCHANGED <<providers, flows, accounts, req, sessions, raced, loose>>
    BY <2>1 DEF ExpireHandoff, history
  <2>4. TypeOK'
    BY <2>2, <2>3 DEF Typed, TypeOK
  <2>5. QED
    BY <2>2, <2>3, <2>4, OutsideKeeps DEF Typed, RefsOK
<1>5. QED
  BY <1>1, <1>2, <1>3, <1>4

\* Where a callback goes on to, and what its flow is.
LEMMA GoOnFacts ==
    ASSUME Typed, NEW r \in Requests, NEW s \in DOMAIN flows, s \in Flows, GoOn(r, s)
    PROVE  \E request \in Request :
             /\ Move(r, request)
             /\ request = Idle \/ request = [op |-> "save", flow |-> s]
BY RequestKinds DEF GoOn, End

LEMMA DropFacts ==
    ASSUME Typed, NEW r \in Requests, DropState(r)
    PROVE  LET s == req[r].flow
           IN  /\ req[r].op = "drop" /\ s \in DOMAIN flows /\ s \in Flows
               /\ \/ flows' = [flows EXCEPT ![s].stored = FALSE] /\ loose' = loose
                  \/ flows' = flows /\ loose' = loose \cup {s}
               /\ \E request \in Request :
                    /\ Move(r, request)
                    /\ request = Idle \/ request = [op |-> "exchange", flow |-> s]
               /\ UNCHANGED <<providers, handoffs, accounts, sessions, raced>>
<1>1. req[r].op = "drop"
  BY DEF DropState
<1>2. req[r].flow \in DOMAIN flows /\ req[r].flow \in Flows
  BY <1>1, FlowOf
<1>3. \E request \in Request :
        /\ Move(r, request)
        /\ request = Idle \/ request = [op |-> "exchange", flow |-> req[r].flow]
  BY <1>2, RequestKinds DEF DropState, End
<1>4. QED
  BY <1>1, <1>2, <1>3 DEF DropState, DeleteState

LEMMA DropTyped == ASSUME Typed, NEW r \in Requests, DropState(r) PROVE Typed'
<1> DEFINE s == req[r].flow
<1>1. PICK request \in Request :
        Move(r, request) /\ (request = Idle \/ request = [op |-> "exchange", flow |-> s])
  BY DropFacts
<1>2. /\ s \in DOMAIN flows /\ s \in Flows
      /\ flows' = flows \/ flows' = [flows EXCEPT ![s].stored = FALSE]
      /\ loose' = loose \/ loose' = loose \cup {s}
      /\ UNCHANGED <<providers, handoffs, accounts, sessions, raced>>
  BY DropFacts
<1> HIDE DEF s
<1>3. /\ flows' \in [DOMAIN flows -> Flow] /\ DOMAIN flows' = DOMAIN flows
      /\ \A k \in DOMAIN flows : flows'[k].provider = flows[k].provider
  BY <1>2 DEF Typed, TypeOK, Flow
<1>4. TypeOK'
  BY <1>1, <1>2, <1>3, MoveTyped DEF Typed, TypeOK
<1>5. /\ \A k \in Flows : request.op \in {"drop", "exchange", "save", "link"} /\ request.flow = k
           => k \in DOMAIN flows
      /\ request.op # "link" /\ request.op # "redeem"
  BY <1>1, <1>2, EndRequest
<1>6. QED
  BY <1>1, <1>2, <1>3, <1>4, <1>5, SlotKeeps DEF Typed, RefsOK

\* A callback that links and goes on.
LEMMA LinkingTyped ==
    ASSUME Typed, NEW r \in Requests, NEW i \in DOMAIN accounts, NEW s \in DOMAIN flows, s \in Flows,
           NEW p \in Providers, Link(i, p), GoOn(r, s), UNCHANGED <<providers, keys, history>>
    PROVE  Typed'
<1>1. PICK request \in Request :
        Move(r, request) /\ (request = Idle \/ request = [op |-> "save", flow |-> s])
  BY GoOnFacts
<1>2. accounts' \in [DOMAIN accounts -> Account] /\ DOMAIN accounts' = DOMAIN accounts
  BY LinkFacts DEF Typed
<1>3. UNCHANGED <<providers, flows, handoffs, sessions, raced, loose>>
  BY DEF keys, history
<1>4. TypeOK'
  BY <1>1, <1>2, <1>3, MoveTyped DEF Typed, TypeOK
<1>5. /\ \A k \in Flows : request.op \in {"drop", "exchange", "save", "link"} /\ request.flow = k
           => k \in DOMAIN flows
      /\ request.op # "link" /\ request.op # "redeem"
  BY <1>1, EndRequest
<1>6. QED
  BY <1>1, <1>2, <1>3, <1>4, <1>5, SlotKeeps DEF Typed, RefsOK

LEMMA LogInFacts ==
    ASSUME Typed, NEW r \in Requests, NEW i \in DOMAIN accounts, LogIn(r, i)
    PROVE  LET s == req[r].flow
           IN  /\ req[r].op = "exchange" /\ s \in DOMAIN flows /\ s \in Flows
               /\ flows[s].provider \in Providers /\ Link(i, flows[s].provider)
               /\ GoOn(r, s) /\ UNCHANGED <<providers, keys, history>>
BY FlowOf DEF LogIn

LEMMA FinishProvisionFacts ==
    ASSUME Typed, NEW r \in Requests, FinishProvision(r)
    PROVE  LET s == req[r].flow
           IN  /\ req[r].op = "link" /\ s \in DOMAIN flows /\ s \in Flows
               /\ req[r].account \in DOMAIN accounts
               /\ flows[s].provider \in Providers /\ Link(req[r].account, flows[s].provider)
               /\ GoOn(r, s) /\ UNCHANGED <<providers, keys, history>>
<1>1. req[r].op = "link"
  BY DEF FinishProvision
<1>2. req[r].account \in DOMAIN accounts
  BY <1>1 DEF Typed, RefsOK
<1>3. QED
  BY <1>1, <1>2, FlowOf DEF FinishProvision, LinkProvisioned

LEMMA ProvisionFacts ==
    ASSUME Typed, NEW r \in Requests, NEW i \in Ids, NEW email \in Emails, Provision(r, i, email)
    PROVE  LET s == req[r].flow
           IN  /\ req[r].op = "exchange" /\ s \in DOMAIN flows /\ s \in Flows
               /\ \A j \in DOMAIN accounts : ~HasEmail(j, email)
               /\ Push(i, email) /\ Race(email)
               /\ [op |-> "link", flow |-> s, account |-> i] \in Request
               /\ Move(r, [op |-> "link", flow |-> s, account |-> i])
               /\ UNCHANGED <<providers, keys, sessions, loose>>
<1>1. req[r].op = "exchange"
  BY DEF Provision
<1>2. req[r].flow \in DOMAIN flows /\ req[r].flow \in Flows
  BY <1>1, FlowOf
<1>3. QED
  BY <1>1, <1>2, RequestKinds DEF Provision, Found

LEMMA ProvisionTyped ==
    ASSUME Typed, NEW r \in Requests, NEW i \in Ids, NEW email \in Emails, Provision(r, i, email)
    PROVE  Typed'
<1> DEFINE s == req[r].flow
           request == [op |-> "link", flow |-> s, account |-> i]
<1>1. /\ s \in DOMAIN flows /\ s \in Flows /\ request \in Request /\ Move(r, request)
      /\ Push(i, email) /\ raced' \subseteq Emails
      /\ UNCHANGED <<providers, flows, handoffs, sessions, loose>>
  BY ProvisionFacts DEF Race, keys, Typed, TypeOK
<1>2. /\ accounts' \in [DOMAIN accounts' -> Account] /\ DOMAIN accounts' \subseteq Ids
      /\ DOMAIN accounts' = DOMAIN accounts \cup {i}
  BY <1>1, PushFacts DEF Typed
<1>3. request.op = "link" /\ request.flow = s /\ request.account = i
  OBVIOUS
<1> HIDE DEF request, s
<1>4. TypeOK'
  BY <1>1, <1>2, MoveTyped DEF Typed, TypeOK
<1>5. QED
  BY <1>1, <1>2, <1>3, <1>4, SlotKeeps DEF Typed, RefsOK

LEMMA SaveFacts ==
    ASSUME Typed, NEW r \in Requests, NEW h \in Handoffs, SaveHandoff(r, h)
    PROVE  LET s == req[r].flow
           IN  /\ req[r].op = "save" /\ s \in DOMAIN flows /\ s \in Flows
               /\ h \notin DOMAIN handoffs
               /\ handoffs' \in [DOMAIN handoffs' -> Handoff]
               /\ DOMAIN handoffs' = DOMAIN handoffs \cup {h}
               /\ handoffs'[h] = [flow |-> s, stored |-> TRUE]
               /\ \A k \in DOMAIN handoffs : handoffs'[k] = handoffs[k]
               /\ Move(r, Idle)
               /\ UNCHANGED <<providers, flows, accounts, sessions, raced, loose>>
<1> DEFINE s == req[r].flow
<1>1. req[r].op = "save"
  BY DEF SaveHandoff
<1>2. s \in DOMAIN flows /\ s \in Flows
  BY <1>1, FlowOf
<1>3. /\ handoffs' = Put(handoffs, h, [flow |-> s, stored |-> TRUE]) /\ h \notin DOMAIN handoffs
      /\ handoffs \in [DOMAIN handoffs -> Handoff]
  BY DEF SaveHandoff, Typed, TypeOK
<1>4. [flow |-> s, stored |-> TRUE] \in Handoff
  BY <1>2 DEF Handoff
<1> HIDE DEF s
<1>5. /\ handoffs' \in [DOMAIN handoffs' -> Handoff]
      /\ DOMAIN handoffs' = DOMAIN handoffs \cup {h}
      /\ handoffs'[h] = [flow |-> s, stored |-> TRUE]
      /\ \A k \in DOMAIN handoffs : handoffs'[k] = handoffs[k]
  BY <1>3, <1>4 DEF Put
<1>6. QED
  BY <1>1, <1>2, <1>3, <1>5 DEF s, SaveHandoff, End, history

LEMMA SaveTyped ==
    ASSUME Typed, NEW r \in Requests, NEW h \in Handoffs, SaveHandoff(r, h) PROVE Typed'
<1> DEFINE s == req[r].flow
<1>1. /\ s \in DOMAIN flows /\ s \in Flows /\ h \notin DOMAIN handoffs
      /\ handoffs' \in [DOMAIN handoffs' -> Handoff] /\ DOMAIN handoffs' = DOMAIN handoffs \cup {h}
      /\ handoffs'[h] = [flow |-> s, stored |-> TRUE]
      /\ \A k \in DOMAIN handoffs : handoffs'[k] = handoffs[k]
      /\ Move(r, Idle) /\ UNCHANGED <<providers, flows, accounts, sessions, raced, loose>>
  BY SaveFacts
<1> HIDE DEF s
<1>2. TypeOK'
  BY <1>1, EndRequest, MoveTyped DEF Typed, TypeOK
<1>3. QED
  BY <1>1, <1>2, EndRequest, SlotKeeps DEF Typed, RefsOK

LEMMA CompleteFacts ==
    ASSUME Typed, NEW r \in Requests, FinishComplete(r)
    PROVE  LET h == req[r].handoff
               s == handoffs[h].flow
           IN  /\ Redeems(r, h) /\ h \in Handoffs /\ h \in DOMAIN handoffs
               /\ s \in DOMAIN flows /\ s \in Flows
               /\ sessions' = [sessions EXCEPT ![s] = @ + 1]
               /\ \/ handoffs' = [handoffs EXCEPT ![h].stored = FALSE] /\ loose' = loose
                  \/ handoffs' = handoffs /\ loose' = loose \cup {s}
               /\ Move(r, Idle) /\ UNCHANGED <<providers, flows, accounts, raced>>
<1>1. req[r].op = "redeem"
  BY DEF FinishComplete
<1>2. req[r].handoff \in Handoffs
  BY <1>1, RequestFields DEF Typed
<1>3. Redeems(r, req[r].handoff) /\ req[r].handoff \in DOMAIN handoffs
  BY <1>1, <1>2 DEF Redeems, Typed, RefsOK
<1>4. QED
  BY <1>2, <1>3, HandoffOf DEF FinishComplete, End

LEMMA CompleteTyped == ASSUME Typed, NEW r \in Requests, FinishComplete(r) PROVE Typed'
<1> DEFINE h == req[r].handoff
           s == handoffs[h].flow
<1>1. /\ h \in DOMAIN handoffs /\ s \in Flows
      /\ sessions' = [sessions EXCEPT ![s] = @ + 1]
      /\ handoffs' = handoffs \/ handoffs' = [handoffs EXCEPT ![h].stored = FALSE]
      /\ loose' = loose \/ loose' = loose \cup {s}
      /\ Move(r, Idle) /\ UNCHANGED <<providers, flows, accounts, raced>>
  BY CompleteFacts
<1> HIDE DEF h, s
<1>2. /\ handoffs' \in [DOMAIN handoffs -> Handoff] /\ DOMAIN handoffs' = DOMAIN handoffs
      /\ \A k \in DOMAIN handoffs : handoffs'[k].flow = handoffs[k].flow
  BY <1>1 DEF Typed, TypeOK, Handoff
<1>3. sessions' \in [Flows -> Nat]
  BY <1>1 DEF Typed, TypeOK
<1>4. TypeOK'
  BY <1>1, <1>2, <1>3, EndRequest, MoveTyped DEF Typed, TypeOK
<1>5. QED
  BY <1>1, <1>2, <1>4, EndRequest, SlotKeeps DEF Typed, RefsOK

LEMMA StartFacts ==
    ASSUME Typed, NEW r \in Requests, NEW request \in Request, Begin(r, request),
           NEW s \in Flows, loose' = IF Reading(request) THEN loose \cup {s} ELSE loose,
           UNCHANGED <<providers, keys, accounts, sessions, raced>>,
           \A k \in Flows : request.op \in {"drop", "exchange", "save", "link"} /\ request.flow = k
                => k \in DOMAIN flows,
           request.op # "link",
           \A h \in Handoffs : request.op = "redeem" /\ request.handoff = h => h \in DOMAIN handoffs
    PROVE  Typed'
<1>1. Move(r, request) /\ raced' \subseteq Emails /\ loose' \subseteq Flows
  BY BeginIsMove DEF Typed, TypeOK
<1>2. QED
  BY <1>1, MoveKeeps

LEMMA StartCallbackTyped ==
    ASSUME Typed, NEW r \in Requests, NEW s \in DOMAIN flows, StartCallback(r, s) PROVE Typed'
<1> DEFINE request == [op |-> "drop", flow |-> s]
<1>1. s \in Flows
  BY DEF Typed, TypeOK
<1>2. /\ request \in Request /\ Begin(r, request) /\ request.op = "drop" /\ request.flow = s
      /\ loose' = IF Reading(request) THEN loose \cup {s} ELSE loose
      /\ UNCHANGED <<providers, keys, accounts, sessions, raced>>
  BY <1>1, RequestKinds DEF StartCallback
<1> HIDE DEF request
<1>3. QED
  BY <1>1, <1>2, StartFacts

LEMMA StartCompleteTyped ==
    ASSUME Typed, NEW r \in Requests, NEW h \in DOMAIN handoffs, StartComplete(r, h) PROVE Typed'
<1> DEFINE request == [op |-> "redeem", handoff |-> h]
           s == handoffs[h].flow
<1>1. h \in Handoffs /\ s \in Flows
  BY HandoffOf
<1>2. /\ request \in Request /\ Begin(r, request) /\ request.op = "redeem" /\ request.handoff = h
      /\ loose' = IF Reading(request) THEN loose \cup {s} ELSE loose
      /\ UNCHANGED <<providers, keys, accounts, sessions, raced>>
  BY <1>1, RequestKinds DEF StartComplete
<1> HIDE DEF request, s
<1>3. QED
  BY <1>1, <1>2, StartFacts

LEMMA RestartFacts ==
    ASSUME Typed, Restart
    PROVE  /\ accounts' \in [DOMAIN accounts -> Account] /\ DOMAIN accounts' = DOMAIN accounts
           /\ \A i \in DOMAIN accounts : /\ accounts'[i].present => accounts[i].present
                                         /\ accounts'[i].email = accounts[i].email
                                         /\ accounts'[i].links = accounts[i].links
           /\ req' = [r \in Requests |-> Idle]
           /\ providers' \in [DOMAIN providers -> Provider] /\ DOMAIN providers' = DOMAIN providers
           /\ UNCHANGED <<flows, handoffs, sessions, raced, loose>>
<1>1. PICK kept \in SUBSET DOMAIN accounts :
        accounts' = [i \in DOMAIN accounts |->
                        IF i \in kept THEN accounts[i] ELSE [accounts[i] EXCEPT !.present = FALSE]]
  BY DEF Restart
<1>2. \A i \in DOMAIN accounts : accounts[i] \in Account
  BY DEF Typed, TypeOK
<1>3. \A i \in DOMAIN accounts : /\ [accounts[i] EXCEPT !.present = FALSE] \in Account
                                 /\ [accounts[i] EXCEPT !.present = FALSE].present = FALSE
                                 /\ [accounts[i] EXCEPT !.present = FALSE].email = accounts[i].email
                                 /\ [accounts[i] EXCEPT !.present = FALSE].links = accounts[i].links
  BY <1>2 DEF Account
<1>4. /\ providers' \in [DOMAIN providers -> Provider] /\ DOMAIN providers' = DOMAIN providers
  <2>1. \A p \in DOMAIN providers : [providers[p] EXCEPT !.listed = FALSE] \in Provider
    BY DEF Typed, TypeOK, Provider
  <2>2. QED
    BY <2>1 DEF Restart
<1>5. QED
  BY <1>1, <1>2, <1>3, <1>4 DEF Restart, keys, history

LEMMA RestartTyped == ASSUME Typed, Restart PROVE Typed'
<1>1. TypeOK'
  BY RestartFacts, EndRequest DEF Typed, TypeOK
<1>2. RefsOK'
  BY RestartFacts, EndRequest DEF Typed, RefsOK, At, Redeems
<1>3. QED
  BY <1>1, <1>2 DEF Typed

\* The steps of Next, named as the lemmas below take them.
LEMMA StepCases ==
    ASSUME Next
    PROVE  \/ \E r \in Requests, email \in Emails : StartCreate(r, email)
           \/ \E r \in Requests, i \in Ids : FinishCreate(r, i)
           \/ \E r \in Requests : \E s \in DOMAIN flows : StartCallback(r, s)
           \/ \E r \in Requests : DropState(r)
           \/ \E r \in Requests : FailExchange(r)
           \/ \E r \in Requests : \E i \in DOMAIN accounts : LogIn(r, i)
           \/ \E r \in Requests, i \in Ids, email \in Emails : Provision(r, i, email)
           \/ \E r \in Requests : FinishProvision(r)
           \/ \E r \in Requests, h \in Handoffs : SaveHandoff(r, h)
           \/ \E r \in Requests : \E h \in DOMAIN handoffs : StartComplete(r, h)
           \/ \E r \in Requests : FinishComplete(r)
           \/ \E p \in Providers, settings \in Settings :
                CreateProvider(p, settings) \/ UpdateProvider(p, settings)
           \/ \E p \in Providers : DeleteProvider(p)
           \/ \E i \in DOMAIN accounts : DeleteUser(i)
           \/ \E p \in Providers, s \in Flows : Initiate(p, s)
           \/ \E s \in DOMAIN flows : ExpireFlow(s)
           \/ \E h \in DOMAIN handoffs : ExpireHandoff(h)
           \/ Restart
BY Zenon DEF Next, RequestStep

LEMMA DeleteProviderTyped == ASSUME Typed, NEW p \in Providers, DeleteProvider(p) PROVE Typed'
<1>1. p \in DOMAIN providers
  BY DEF DeleteProvider
<1>2. providers[p].settings \in Settings
  BY <1>1 DEF Typed, TypeOK, Provider
<1>3. QED
  BY <1>2, ProviderSteps

LEMMA TypedStep == Typed /\ [Next]_vars => Typed'
<1> SUFFICES ASSUME Typed, [Next]_vars PROVE Typed'
  OBVIOUS
<1>1. CASE UNCHANGED vars
  BY <1>1 DEF vars, keys, history, Typed, TypeOK, RefsOK, At, Redeems
<1>4. ASSUME NEW r \in Requests, FailExchange(r) PROVE Typed'
  <2>1. Move(r, Idle) /\ UNCHANGED <<providers, keys, accounts, sessions>>
        /\ raced' \subseteq Emails /\ loose' \subseteq Flows
    BY <1>4 DEF FailExchange, End, history, Typed, TypeOK
  <2>2. QED
    BY <2>1, EndRequest, MoveKeeps
<1>5. ASSUME NEW r \in Requests, NEW i \in DOMAIN accounts, LogIn(r, i) PROVE Typed'
  BY <1>5, LogInFacts, LinkingTyped
<1>6. ASSUME NEW r \in Requests, FinishProvision(r) PROVE Typed'
  BY <1>6, FinishProvisionFacts, LinkingTyped
<1>7. QED
  BY <1>1, <1>4, <1>5, <1>6, StepCases, StartCreateTyped, FinishCreateTyped, StartCallbackTyped, DropTyped, ProvisionTyped,
     SaveTyped, StartCompleteTyped, CompleteTyped, ProviderSteps, DeleteProviderTyped, OutsideSteps,
     RestartTyped

\* Every request, key, account and history keeps its values.
THEOREM TypesHold == Spec => []TypeOK
<1>1. Typed => TypeOK
  BY DEF Typed
<1>2. QED
  BY <1>1, InitTyped, TypedStep, PTL DEF Spec

LEMMA AlwaysTyped == Spec => []Typed
BY InitTyped, TypedStep, PTL DEF Spec

-----------------------------------------------------------------------------
(* Links *)

LEMMA LinkKeepsDistinct ==
    ASSUME Typed, LinksDistinct, NEW i \in DOMAIN accounts, NEW p \in Providers, Link(i, p)
    PROVE  LinksDistinct'
<1>1. /\ DOMAIN accounts' = DOMAIN accounts
      /\ \A j \in DOMAIN accounts : \A q \in Providers :
           accounts'[j].links[q] = accounts[j].links[q] \/ accounts'[j].links[q] = 1
  BY LinkFacts DEF Typed
<1>2. QED
  BY <1>1 DEF LinksDistinct

LEMMA PushKeepsDistinct ==
    ASSUME Typed, LinksDistinct, NEW i \in Ids, NEW email \in Emails, Push(i, email)
    PROVE  LinksDistinct'
<1>1. /\ DOMAIN accounts' = DOMAIN accounts \cup {i}
      /\ accounts'[i].links = [p \in Providers |-> 0]
      /\ \A j \in DOMAIN accounts : accounts'[j] = accounts[j]
  BY PushFacts DEF Typed
<1>2. QED
  BY <1>1 DEF LinksDistinct

LEMMA LinksStep == Typed /\ LinksDistinct /\ [Next]_vars => LinksDistinct'
<1> SUFFICES ASSUME Typed, LinksDistinct, [Next]_vars PROVE LinksDistinct'
  OBVIOUS
<1>1. CASE accounts' = accounts
  BY <1>1 DEF LinksDistinct
<1>2. ASSUME NEW r \in Requests, NEW i \in Ids, FinishCreate(r, i) PROVE LinksDistinct'
  <2>1. req[r].email \in Emails
    BY <1>2, RequestFields DEF FinishCreate, Typed
  <2>2. QED
    BY <1>2, <2>1, PushKeepsDistinct DEF FinishCreate
<1>3. ASSUME NEW r \in Requests, NEW i \in Ids, NEW email \in Emails, Provision(r, i, email)
      PROVE  LinksDistinct'
  BY <1>3, ProvisionFacts, PushKeepsDistinct
<1>4. ASSUME NEW r \in Requests, NEW i \in DOMAIN accounts, LogIn(r, i) PROVE LinksDistinct'
  BY <1>4, LogInFacts, LinkKeepsDistinct
<1>5. ASSUME NEW r \in Requests, FinishProvision(r) PROVE LinksDistinct'
  BY <1>5, FinishProvisionFacts, LinkKeepsDistinct
<1>6. ASSUME NEW i \in DOMAIN accounts, DeleteUser(i) PROVE LinksDistinct'
  <2>1. /\ DOMAIN accounts' = DOMAIN accounts
        /\ \A j \in DOMAIN accounts : accounts'[j].links = accounts[j].links
    BY <1>6 DEF DeleteUser, Typed, TypeOK, Account
  <2>2. QED
    BY <2>1 DEF LinksDistinct
<1>7. CASE Restart
  BY <1>7, RestartFacts DEF LinksDistinct
<1>8. QED
  <2>1. CASE UNCHANGED vars
    BY <1>1, <2>1 DEF vars
  <2>2. CASE Next
    BY <1>1, <1>2, <1>3, <1>4, <1>5, <1>6, <1>7, <2>2, StepCases
    DEF StartCreate, StartCallback, DropState, FailExchange, SaveHandoff, StartComplete,
        FinishComplete, CreateProvider, UpdateProvider, DeleteProvider, Initiate, ExpireFlow,
        ExpireHandoff
  <2>3. QED
    BY <2>1, <2>2

\* No account is linked to one identity twice (resolveUser), for any number of
\* logins that wait for the same account to be saved.
THEOREM LinkedOnce == Spec => []LinksDistinct
<1>1. Init => LinksDistinct
  BY NothingTyped DEF Init, LinksDistinct
<1>2. QED
  BY <1>1, AlwaysTyped, LinksStep, PTL DEF Spec

-----------------------------------------------------------------------------
(* Addresses *)

Creates(r, email) == req[r].op = "create" /\ req[r].email = email

\* A creation under way that has raced with no other finds its address free.
CreationsAlone ==
    \A r \in Requests : \A email \in Emails \ raced : Creates(r, email) =>
        /\ \A i \in DOMAIN accounts : ~HasEmail(i, email)
        /\ \A q \in Requests : Creates(q, email) => q = r

AddressInv == AddressesDistinct /\ CreationsAlone

LEMMA CreatingIs ==
    ASSUME Typed, NEW email \in Emails, NEW r \in Requests, Creates(r, email)
    PROVE  Creating(email)
<1>1. req[r] = [op |-> "create", email |-> email]
  BY RequestFields DEF Creates, Typed
<1>2. QED
  BY <1>1 DEF Creating

\* Steps that start no creation and give no account an address.
LEMMA AddressKeeps ==
    ASSUME Typed, AddressInv, raced' = raced, DOMAIN accounts' = DOMAIN accounts,
           \A i \in DOMAIN accounts : /\ accounts'[i].present => accounts[i].present
                                      /\ accounts'[i].email = accounts[i].email,
           \A q \in Requests : \A email \in Emails : Creates(q, email)' => Creates(q, email)
    PROVE  AddressInv'
<1>1. \A i \in DOMAIN accounts : \A email : HasEmail(i, email)' => HasEmail(i, email)
  BY DEF HasEmail
<1>2. AddressesDistinct'
  BY <1>1 DEF AddressInv, AddressesDistinct
<1>3. CreationsAlone'
  BY <1>1 DEF AddressInv, CreationsAlone
<1>4. QED
  BY <1>2, <1>3 DEF AddressInv

LEMMA StartCreateAddress ==
    ASSUME Typed, AddressInv, NEW r \in Requests, NEW email \in Emails, StartCreate(r, email)
    PROVE  AddressInv'
<1>1. /\ \A i \in DOMAIN accounts : ~HasEmail(i, email)
      /\ accounts' = accounts /\ Race(email)
      /\ Begin(r, [op |-> "create", email |-> email])
  BY DEF StartCreate
<1>2. /\ req[r] = Idle /\ req'[r] = [op |-> "create", email |-> email]
      /\ \A q \in Requests : q # r => req'[q] = req[q]
  BY <1>1, BeginIsMove, RequestKinds, MoveTyped DEF Typed
<1>3. AddressesDistinct'
  <2>1. raced \subseteq raced'
    BY <1>1 DEF Race
  <2>2. QED
    BY <1>1, <2>1 DEF AddressInv, AddressesDistinct, HasEmail
<1>4. CreationsAlone'
  <2> SUFFICES ASSUME NEW s \in Requests, NEW e \in Emails, e \notin raced', Creates(s, e)'
               PROVE  /\ \A i \in DOMAIN accounts' : ~HasEmail(i, e)'
                      /\ \A q \in Requests : Creates(q, e)' => q = s
    BY DEF CreationsAlone
  <2>1. e \notin raced
    BY DEF Race, StartCreate
  <2>2. CASE e = email
    <3>1. ~Creating(email)
      BY <1>1, <2>2 DEF Race
    <3>2. \A q \in Requests : Creates(q, e)' => q = r
      BY <1>2, <2>2, <3>1, CreatingIs DEF Creates
    <3>3. QED
      BY <1>1, <2>2, <3>2 DEF HasEmail
  <2>3. CASE e # email
    <3>1. \A q \in Requests : Creates(q, e)' => Creates(q, e)
      BY <1>2, <2>3 DEF Creates
    <3>2. QED
      BY <1>1, <2>1, <3>1 DEF AddressInv, CreationsAlone, HasEmail
  <2>4. QED
    BY <2>2, <2>3
<1>5. QED
  BY <1>3, <1>4 DEF AddressInv

\* The new account's address was free, or it has raced.
LEMMA PushAddress ==
    ASSUME Typed, AddressInv, NEW i \in Ids, NEW email \in Emails, Push(i, email),
           raced \subseteq raced',
           email \in raced' \/ /\ \A j \in DOMAIN accounts : ~HasEmail(j, email)
                               /\ \A q \in Requests : ~Creates(q, email)',
           \A q \in Requests : \A e \in Emails : Creates(q, e)' => Creates(q, e)
    PROVE  AddressInv'
<1>1. /\ i \notin DOMAIN accounts /\ DOMAIN accounts' = DOMAIN accounts \cup {i}
      /\ accounts'[i].email = email
      /\ \A j \in DOMAIN accounts : accounts'[j] = accounts[j]
  BY PushFacts DEF Typed
<1>2. \A j \in DOMAIN accounts : \A e : HasEmail(j, e)' <=> HasEmail(j, e)
  BY <1>1 DEF HasEmail
<1>3. AddressesDistinct'
  <2> SUFFICES ASSUME NEW j \in DOMAIN accounts', NEW k \in DOMAIN accounts', j # k,
                      accounts'[j].present, HasEmail(k, accounts[j].email)'
               PROVE  accounts'[j].email \in raced'
    BY DEF AddressesDistinct
  <2>1. CASE j \in DOMAIN accounts /\ k \in DOMAIN accounts
    BY <1>1, <2>1 DEF AddressInv, AddressesDistinct, HasEmail
  <2>2. CASE j = i \/ k = i
    <3>1. accounts'[j].email = email
      BY <1>1, <2>2 DEF HasEmail
    <3>2. \E m \in DOMAIN accounts : HasEmail(m, email)
      BY <1>1, <2>2, <3>1 DEF HasEmail
    <3>3. QED
      BY <3>1, <3>2
  <2>3. QED
    BY <1>1, <2>1, <2>2
<1>4. CreationsAlone'
  <2> SUFFICES ASSUME NEW s \in Requests, NEW e \in Emails, e \notin raced', Creates(s, e)'
               PROVE  /\ \A j \in DOMAIN accounts' : ~HasEmail(j, e)'
                      /\ \A q \in Requests : Creates(q, e)' => q = s
    BY DEF CreationsAlone
  <2>1. e # email /\ Creates(s, e) /\ e \in Emails \ raced
    OBVIOUS
  <2>2. /\ \A j \in DOMAIN accounts : ~HasEmail(j, e)
        /\ \A q \in Requests : Creates(q, e) => q = s
    BY <2>1 DEF AddressInv, CreationsAlone
  <2>3. ~HasEmail(i, e)'
    BY <1>1, <2>1 DEF HasEmail
  <2>4. QED
    BY <1>1, <1>2, <2>2, <2>3
<1>5. QED
  BY <1>3, <1>4 DEF AddressInv

LEMMA FinishCreateAddress ==
    ASSUME Typed, AddressInv, NEW r \in Requests, NEW i \in Ids, FinishCreate(r, i)
    PROVE  AddressInv'
<1>0. PICK email \in Emails : email = req[r].email
  BY RequestFields DEF FinishCreate, Typed
<1>1. /\ Creates(r, email)
      /\ Push(i, email) /\ Move(r, Idle) /\ raced' = raced
  BY <1>0 DEF FinishCreate, End, history, Creates
<1>2. req'[r] = Idle /\ \A q \in Requests : q # r => req'[q] = req[q]
  BY <1>1, EndRequest, MoveTyped DEF Typed
<1>3. \A q \in Requests : \A e \in Emails : Creates(q, e)' => Creates(q, e) /\ q # r
  BY <1>2 DEF Creates, Idle
<1>4. email \in raced' \/ /\ \A j \in DOMAIN accounts : ~HasEmail(j, email)
                          /\ \A q \in Requests : ~Creates(q, email)'
  BY <1>1, <1>3 DEF AddressInv, CreationsAlone
<1>5. QED
  BY <1>1, <1>3, <1>4, PushAddress

LEMMA ProvisionAddress ==
    ASSUME Typed, AddressInv, NEW r \in Requests, NEW i \in Ids, NEW email \in Emails,
           Provision(r, i, email)
    PROVE  AddressInv'
<1> DEFINE request == [op |-> "link", flow |-> req[r].flow, account |-> i]
<1>1. /\ Push(i, email) /\ Race(email) /\ Move(r, request) /\ request \in Request
      /\ \A j \in DOMAIN accounts : ~HasEmail(j, email)
  BY ProvisionFacts
<1>2. request.op = "link"
  OBVIOUS
<1> HIDE DEF request
<1>3. \A q \in Requests : \A e \in Emails : Creates(q, e)' => Creates(q, e)
  BY <1>1, <1>2, MoveTyped DEF Creates, Typed
<1>4. email \in raced' \/ \A q \in Requests : ~Creates(q, email)'
  BY <1>1, <1>3, CreatingIs DEF Race
<1>5. raced \subseteq raced'
  BY <1>1 DEF Race
<1>6. QED
  BY <1>1, <1>3, <1>4, <1>5, PushAddress

\* A slot whose new request creates nothing.
LEMMA SlotAddress ==
    ASSUME Typed, AddressInv, NEW r \in Requests, NEW request \in Request, Move(r, request),
           request.op # "create", raced' = raced, DOMAIN accounts' = DOMAIN accounts,
           \A i \in DOMAIN accounts : /\ accounts'[i].present => accounts[i].present
                                      /\ accounts'[i].email = accounts[i].email
    PROVE  AddressInv'
<1>1. \A q \in Requests : \A e \in Emails : Creates(q, e)' => Creates(q, e)
  BY MoveTyped DEF Creates, Typed
<1>2. QED
  BY <1>1, AddressKeeps

LEMMA LinkingAddress ==
    ASSUME Typed, AddressInv, NEW r \in Requests, NEW i \in DOMAIN accounts, NEW s \in DOMAIN flows,
           s \in Flows, NEW p \in Providers, Link(i, p), GoOn(r, s), UNCHANGED <<providers, keys, history>>
    PROVE  AddressInv'
<1>1. PICK request \in Request :
        Move(r, request) /\ (request = Idle \/ request = [op |-> "save", flow |-> s])
  BY GoOnFacts
<1>2. request.op # "create"
  BY <1>1 DEF Idle
<1>3. /\ raced' = raced /\ DOMAIN accounts' = DOMAIN accounts
      /\ \A j \in DOMAIN accounts : /\ accounts'[j].present => accounts[j].present
                                    /\ accounts'[j].email = accounts[j].email
  BY LinkFacts DEF history, Typed
<1>4. QED
  BY <1>1, <1>2, <1>3, SlotAddress

LEMMA AddressStep == Typed /\ AddressInv /\ [Next]_vars => AddressInv'
<1> SUFFICES ASSUME Typed, AddressInv, [Next]_vars PROVE AddressInv'
  OBVIOUS
<1>1. CASE UNCHANGED <<req, accounts, raced>>
  BY <1>1, AddressKeeps DEF Creates
<1>2. ASSUME NEW r \in Requests, NEW request \in Request, Move(r, request), request.op # "create",
             UNCHANGED <<accounts, raced>>
      PROVE  AddressInv'
  BY <1>2, SlotAddress
<1>3. ASSUME NEW r \in Requests, NEW s \in DOMAIN flows, StartCallback(r, s) PROVE AddressInv'
  <2>1. s \in Flows
    BY DEF Typed, TypeOK
  <2>2. /\ Move(r, [op |-> "drop", flow |-> s]) /\ [op |-> "drop", flow |-> s] \in Request
        /\ UNCHANGED <<accounts, raced>>
    BY <1>3, <2>1, RequestKinds, BeginIsMove DEF StartCallback
  <2>3. QED
    BY <1>2, <2>2
<1>4. ASSUME NEW r \in Requests, NEW h \in DOMAIN handoffs, StartComplete(r, h) PROVE AddressInv'
  <2>1. h \in Handoffs
    BY HandoffOf
  <2>2. /\ Move(r, [op |-> "redeem", handoff |-> h]) /\ [op |-> "redeem", handoff |-> h] \in Request
        /\ UNCHANGED <<accounts, raced>>
    BY <1>4, <2>1, RequestKinds, BeginIsMove DEF StartComplete
  <2>3. QED
    BY <1>2, <2>2
<1>5. ASSUME NEW r \in Requests, DropState(r) PROVE AddressInv'
  <2>1. PICK request \in Request :
          Move(r, request) /\ (request = Idle \/ request = [op |-> "exchange", flow |-> req[r].flow])
    BY <1>5, DropFacts
  <2>2. request.op # "create" /\ UNCHANGED <<accounts, raced>>
    BY <1>5, <2>1 DEF Idle, DropState
  <2>3. QED
    BY <1>2, <2>1, <2>2
<1>6. ASSUME NEW r \in Requests, FailExchange(r) \/ FinishComplete(r) \/ \E h \in Handoffs : SaveHandoff(r, h)
      PROVE  AddressInv'
  <2>1. Move(r, Idle) /\ UNCHANGED <<accounts, raced>>
    BY <1>6 DEF FailExchange, FinishComplete, SaveHandoff, End, history
  <2>2. Idle.op # "create"
    BY DEF Idle
  <2>3. QED
    BY <1>2, <2>1, <2>2, EndRequest
<1>7. ASSUME NEW r \in Requests, NEW i \in DOMAIN accounts, LogIn(r, i) PROVE AddressInv'
  BY <1>7, LogInFacts, LinkingAddress
<1>8. ASSUME NEW r \in Requests, FinishProvision(r) PROVE AddressInv'
  BY <1>8, FinishProvisionFacts, LinkingAddress
<1>9. ASSUME NEW i \in DOMAIN accounts, DeleteUser(i) PROVE AddressInv'
  <2>1. /\ DOMAIN accounts' = DOMAIN accounts /\ raced' = raced /\ req' = req
        /\ \A j \in DOMAIN accounts : /\ accounts'[j].present => accounts[j].present
                                      /\ accounts'[j].email = accounts[j].email
    BY <1>9 DEF DeleteUser, history, Typed, TypeOK, Account
  <2>2. QED
    BY <2>1, AddressKeeps DEF Creates
<1>10. CASE Restart
  <2>1. /\ DOMAIN accounts' = DOMAIN accounts /\ raced' = raced
        /\ \A j \in DOMAIN accounts : /\ accounts'[j].present => accounts[j].present
                                      /\ accounts'[j].email = accounts[j].email
        /\ \A q \in Requests : req'[q] = Idle
    BY <1>10, RestartFacts
  <2>2. QED
    BY <2>1, AddressKeeps DEF Creates, Idle
<1>11. QED
  <2>1. CASE UNCHANGED vars
    BY <1>1, <2>1 DEF vars, history
  <2>2. CASE Next
    BY <1>1, <1>3, <1>4, <1>5, <1>6, <1>7, <1>8, <1>9, <1>10, <2>2, StepCases, StartCreateAddress,
       FinishCreateAddress, ProvisionAddress
    DEF CreateProvider, UpdateProvider, DeleteProvider, Initiate, ExpireFlow, ExpireHandoff, history
  <2>3. QED
    BY <2>1, <2>2

\* Two accounts share an address only if an administrator's creation of one was
\* under way when the other came (createUser, provisionUser).
THEOREM AddressesApart == Spec => []AddressesDistinct
<1>1. Init => AddressInv
  BY NothingTyped DEF Init, AddressInv, AddressesDistinct, CreationsAlone, Creates, Idle
<1>2. AddressInv => AddressesDistinct
  BY DEF AddressInv
<1>3. QED
  BY <1>1, <1>2, AlwaysTyped, AddressStep, PTL DEF Spec

-----------------------------------------------------------------------------
(* Sessions *)

Spent(s) ==
    /\ sessions[s] = 1
    /\ s \in DOMAIN flows /\ ~flows[s].stored
    /\ \A r \in Requests : ~At(r, s)
    /\ \A h \in DOMAIN handoffs : handoffs[h].flow = s =>
         ~handoffs[h].stored /\ \A r \in Requests : ~Redeems(r, h)

\* What is left of a flow moves along a line: the state, one callback, one
\* handoff, one completion, one session.
FlowOK(s) ==
    /\ \A r, q \in Requests : At(r, s) /\ At(q, s) => r = q
    /\ \A r \in Requests : At(r, s) /\ req[r].op # "drop" => ~flows[s].stored
    /\ \A h \in DOMAIN handoffs : handoffs[h].flow = s =>
         /\ ~flows[s].stored
         /\ \A r \in Requests : ~At(r, s)
         /\ \A k \in DOMAIN handoffs : handoffs[k].flow = s => k = h
         /\ \A r, q \in Requests : Redeems(r, h) /\ Redeems(q, h) => r = q
    /\ sessions[s] = 0 \/ Spent(s)

FlowInv == \A s \in Flows \ loose : FlowOK(s)

\* Steps that take no flow further along.
LEMMA FlowKeeps ==
    ASSUME Typed, NEW s \in Flows, FlowOK(s),
           \A r \in Requests : At(r, s)' => At(r, s),
           \A r \in Requests : At(r, s)' /\ req'[r].op # "drop" => ~flows'[s].stored,
           s \in DOMAIN flows => s \in DOMAIN flows' /\ (flows'[s].stored => flows[s].stored),
           \A h \in DOMAIN handoffs' : handoffs'[h].flow = s =>
             /\ h \in DOMAIN handoffs /\ handoffs[h].flow = s
             /\ handoffs'[h].stored => handoffs[h].stored
             /\ \A r \in Requests : Redeems(r, h)' => Redeems(r, h),
           sessions'[s] = sessions[s]
    PROVE  FlowOK(s)'
<1>1. \A h \in DOMAIN handoffs : handoffs[h].flow = s => s \in DOMAIN flows
  BY DEF Typed, RefsOK
<1>2. Spent(s) => Spent(s)'
  BY DEF Spent
<1>3. \A h \in DOMAIN handoffs' : handoffs'[h].flow = s =>
         /\ ~flows'[s].stored
         /\ \A r \in Requests : ~At(r, s)'
         /\ \A k \in DOMAIN handoffs' : handoffs'[k].flow = s => k = h
         /\ \A r, q \in Requests : Redeems(r, h)' /\ Redeems(q, h)' => r = q
  BY <1>1 DEF FlowOK
<1>4. QED
  BY <1>2, <1>3 DEF FlowOK

\* A slot moves on at flow k, or to nothing, and no key or session changes.
LEMMA SlotFlow ==
    ASSUME Typed, FlowInv, NEW r \in Requests, NEW request \in Request, Move(r, request),
           request.op \notin {"drop", "redeem"},
           request.op \in {"exchange", "save", "link"} =>
               At(r, request.flow) /\ request.flow \in Flows /\ req[r].op # "drop",
           UNCHANGED <<keys, sessions, loose>>
    PROVE  FlowInv'
<1> SUFFICES ASSUME NEW s \in Flows \ loose PROVE FlowOK(s)'
  BY DEF FlowInv
<1>1. req'[r] = request /\ \A q \in Requests : q # r => req'[q] = req[q]
  BY MoveTyped DEF Typed
<1>2. FlowOK(s) /\ s \in Flows
  BY DEF FlowInv
<1>3. \A q \in Requests : At(q, s)' => At(q, s) /\ (req'[q].op # "drop" => req[q].op # "drop")
  BY <1>1 DEF At
<1>4. \A q \in Requests : \A h \in DOMAIN handoffs : Redeems(q, h)' => Redeems(q, h)
  BY <1>1 DEF Redeems
<1>5. flows' = flows /\ handoffs' = handoffs /\ sessions' = sessions
  BY DEF keys
<1>6. \A q \in Requests : At(q, s)' /\ req'[q].op # "drop" => ~flows'[s].stored
  BY <1>2, <1>3, <1>5 DEF FlowOK
<1>7. QED
  BY <1>2, <1>3, <1>4, <1>5, <1>6, FlowKeeps

\* Steps that move no slot.
LEMMA OutsideFlow ==
    ASSUME Typed, FlowInv, UNCHANGED <<req, sessions, loose>>,
           DOMAIN flows \subseteq DOMAIN flows',
           \A s \in DOMAIN flows : flows'[s].stored => flows[s].stored,
           DOMAIN handoffs' = DOMAIN handoffs,
           \A h \in DOMAIN handoffs : /\ handoffs'[h].flow = handoffs[h].flow
                                      /\ handoffs'[h].stored => handoffs[h].stored
    PROVE  FlowInv'
<1> SUFFICES ASSUME NEW s \in Flows \ loose PROVE FlowOK(s)'
  BY DEF FlowInv
<1>1. FlowOK(s) /\ s \in Flows
  BY DEF FlowInv
<1>2. /\ \A r \in Requests : At(r, s)' <=> At(r, s)
      /\ \A r \in Requests : \A h \in DOMAIN handoffs : Redeems(r, h)' <=> Redeems(r, h)
  BY DEF At, Redeems
<1>3. \A r \in Requests : At(r, s)' /\ req'[r].op # "drop" => ~flows'[s].stored
  BY <1>1, <1>2 DEF FlowOK, Typed, RefsOK
<1>4. QED
  BY <1>1, <1>2, <1>3, FlowKeeps

LEMMA StartCallbackFlow ==
    ASSUME Typed, FlowInv, NEW r \in Requests, NEW k \in DOMAIN flows, StartCallback(r, k)
    PROVE  FlowInv'
<1> DEFINE request == [op |-> "drop", flow |-> k]
<1>1. k \in Flows
  BY DEF Typed, TypeOK
<1>2. /\ flows[k].stored /\ Begin(r, request) /\ request \in Request
      /\ request.op = "drop" /\ request.flow = k
      /\ loose' = IF Reading(request) THEN loose \cup {k} ELSE loose
      /\ UNCHANGED <<flows, handoffs, sessions>>
  BY <1>1, RequestKinds DEF StartCallback, keys
<1>3. \A q \in Requests : req[q].op = "drop" /\ req[q].flow = k => Reading(request)
  BY RequestFields DEF Reading, Typed
<1> HIDE DEF request
<1>4. req'[r] = request /\ req[r] = Idle /\ \A q \in Requests : q # r => req'[q] = req[q]
  BY <1>2, BeginIsMove, MoveTyped DEF Typed
<1> SUFFICES ASSUME NEW s \in Flows \ loose' PROVE FlowOK(s)'
  BY DEF FlowInv
<1>5. FlowOK(s) /\ s \in Flows /\ s \notin loose
  BY <1>2 DEF FlowInv
<1>6. \A q \in Requests : \A h \in DOMAIN handoffs : Redeems(q, h)' => Redeems(q, h)
  BY <1>2, <1>4 DEF Redeems
<1>7. CASE s # k
  <2>1. \A q \in Requests : At(q, s)' => At(q, s) /\ req'[q] = req[q]
    BY <1>2, <1>4, <1>7 DEF At
  <2>2. \A q \in Requests : At(q, s)' /\ req'[q].op # "drop" => ~flows'[s].stored
    BY <1>2, <1>5, <2>1 DEF FlowOK
  <2>3. QED
    BY <1>2, <1>5, <1>6, <2>1, <2>2, FlowKeeps
<1>8. CASE s = k
  <2>1. ~Reading(request)
    BY <1>2, <1>8
  <2>2. \A q \in Requests : ~At(q, k)
    BY <1>2, <1>3, <1>5, <1>8, <2>1 DEF FlowOK, At
  <2>3. \A q \in Requests : At(q, k)' => q = r
    BY <1>4, <2>2 DEF At
  <2>4. \A h \in DOMAIN handoffs : handoffs[h].flow # k
    BY <1>2, <1>5, <1>8 DEF FlowOK
  <2>5. sessions[k] = 0
    BY <1>2, <1>5, <1>8 DEF FlowOK, Spent
  <2>6. QED
    BY <1>2, <1>4, <1>8, <2>3, <2>4, <2>5 DEF FlowOK
<1>9. QED
  BY <1>7, <1>8

LEMMA DropFlow == ASSUME Typed, FlowInv, NEW r \in Requests, DropState(r) PROVE FlowInv'
<1>0. PICK k \in Flows : k = req[r].flow /\ k \in DOMAIN flows
  BY DropFacts
<1>1. PICK request \in Request :
        Move(r, request) /\ (request = Idle \/ request = [op |-> "exchange", flow |-> k])
  BY <1>0, DropFacts
<1>2. /\ At(r, k)
      /\ \/ flows' = [flows EXCEPT ![k].stored = FALSE] /\ loose' = loose
         \/ flows' = flows /\ loose' = loose \cup {k}
      /\ UNCHANGED <<handoffs, sessions>>
  BY <1>0, DropFacts DEF At
<1>3. req'[r] = request /\ \A q \in Requests : q # r => req'[q] = req[q]
  BY <1>1, MoveTyped DEF Typed
<1>4. /\ DOMAIN flows' = DOMAIN flows
      /\ \A s \in DOMAIN flows : flows'[s].stored => flows[s].stored
      /\ k \notin loose' => ~flows'[k].stored
  BY <1>0, <1>2 DEF Typed, TypeOK, Flow
<1> SUFFICES ASSUME NEW s \in Flows \ loose' PROVE FlowOK(s)'
  BY DEF FlowInv
<1>5. FlowOK(s) /\ s \in Flows
  BY <1>2 DEF FlowInv
<1>6. request.op \in {"idle", "exchange"} /\ (request.op = "exchange" => request.flow = k)
  BY <1>1 DEF Idle
<1>7. /\ \A q \in Requests : At(q, s)' => At(q, s)
      /\ \A q \in Requests : \A h \in DOMAIN handoffs : Redeems(q, h)' => Redeems(q, h)
  BY <1>2, <1>3, <1>6 DEF At, Redeems
<1>8. \A q \in Requests : At(q, s)' /\ req'[q].op # "drop" => ~flows'[s].stored
  <2>1. CASE s = k
    BY <1>4, <2>1
  <2>2. CASE s # k
    <3>1. \A q \in Requests : At(q, s)' => req'[q] = req[q] /\ s \in DOMAIN flows
      BY <1>3, <1>6, <1>7, <2>2 DEF At, Typed, RefsOK
    <3>2. QED
      BY <1>4, <1>5, <1>7, <3>1 DEF FlowOK
  <2>3. QED
    BY <2>1, <2>2
<1>9. QED
  BY <1>2, <1>4, <1>5, <1>7, <1>8, FlowKeeps

LEMMA InitiateFlow ==
    ASSUME Typed, FlowInv, NEW p \in Providers, NEW k \in Flows, Initiate(p, k)
    PROVE  FlowInv'
<1>1. /\ k \notin DOMAIN flows /\ DOMAIN flows' = DOMAIN flows \cup {k}
      /\ \A s \in DOMAIN flows : flows'[s] = flows[s]
      /\ UNCHANGED <<handoffs, req, sessions, loose>>
  BY DEF Initiate, Put, history
<1>2. /\ \A q \in Requests : \A s \in Flows : At(q, s)' => At(q, s) /\ s \in DOMAIN flows
      /\ \A q \in Requests : \A h : Redeems(q, h)' => Redeems(q, h)
  BY <1>1 DEF At, Redeems, Typed, RefsOK
<1>3. \A h \in DOMAIN handoffs : handoffs[h].flow # k
  BY <1>1 DEF Typed, RefsOK
<1> SUFFICES ASSUME NEW s \in Flows \ loose PROVE FlowOK(s)'
  BY <1>1 DEF FlowInv
<1>4. FlowOK(s) /\ s \in Flows
  BY DEF FlowInv
<1>5. CASE s = k
  <2>1. sessions[s] = 0
    BY <1>1, <1>4, <1>5 DEF FlowOK, Spent
  <2>2. QED
    BY <1>1, <1>2, <1>3, <1>5, <2>1 DEF FlowOK
<1>6. CASE s # k
  <2>1. \A q \in Requests : At(q, s)' /\ req'[q].op # "drop" => ~flows'[s].stored
    BY <1>1, <1>2, <1>4 DEF FlowOK
  <2>2. s \in DOMAIN flows => s \in DOMAIN flows' /\ (flows'[s].stored => flows[s].stored)
    BY <1>1
  <2>3. QED
    BY <1>1, <1>2, <1>4, <2>1, <2>2, FlowKeeps
<1>7. QED
  BY <1>5, <1>6

LEMMA SaveFlow ==
    ASSUME Typed, FlowInv, NEW r \in Requests, NEW h \in Handoffs, SaveHandoff(r, h)
    PROVE  FlowInv'
<1>0. PICK k \in Flows : k = req[r].flow /\ k \in DOMAIN flows
  BY SaveFacts
<1>1. /\ At(r, k) /\ req[r].op = "save"
  BY <1>0, SaveFacts DEF At
<1>a. /\ h \notin DOMAIN handoffs /\ DOMAIN handoffs' = DOMAIN handoffs \cup {h}
      /\ handoffs'[h].flow = k
      /\ \A g \in DOMAIN handoffs : handoffs'[g] = handoffs[g]
      /\ Move(r, Idle) /\ UNCHANGED <<flows, sessions, loose>>
  <2>1. handoffs'[h] = [flow |-> k, stored |-> TRUE]
    BY <1>0, SaveFacts
  <2>2. handoffs'[h].flow = k
    BY <2>1
  <2>3. /\ h \notin DOMAIN handoffs /\ DOMAIN handoffs' = DOMAIN handoffs \cup {h}
        /\ \A g \in DOMAIN handoffs : handoffs'[g] = handoffs[g]
        /\ Move(r, Idle) /\ UNCHANGED <<flows, sessions, loose>>
    BY SaveFacts
  <2>4. QED
    BY <2>2, <2>3
<1>2. req'[r] = Idle /\ \A q \in Requests : q # r => req'[q] = req[q]
  BY <1>1, <1>a, EndRequest, MoveTyped DEF Typed
<1>3. /\ \A q \in Requests : \A s \in Flows : At(q, s)' => At(q, s) /\ q # r /\ req'[q] = req[q]
      /\ \A q \in Requests : \A g : Redeems(q, g)' => Redeems(q, g)
  BY <1>2 DEF At, Redeems, Idle
<1>4. \A q \in Requests : ~Redeems(q, h)'
  BY <1>1, <1>a, <1>3 DEF Typed, RefsOK
<1> SUFFICES ASSUME NEW s \in Flows \ loose PROVE FlowOK(s)'
  BY <1>1, <1>a DEF FlowInv
<1>5. FlowOK(s) /\ s \in Flows
  BY DEF FlowInv
<1>6. CASE s = k
  <2>1. \A q \in Requests : ~At(q, s)'
    BY <1>1, <1>a, <1>3, <1>5, <1>6 DEF FlowOK
  <2>2. \A g \in DOMAIN handoffs' : handoffs'[g].flow = s => g = h
    BY <1>1, <1>a, <1>5, <1>6 DEF FlowOK
  <2>3. ~flows'[s].stored
    BY <1>1, <1>a, <1>5, <1>6 DEF FlowOK
  <2>4. sessions'[s] = 0
    BY <1>1, <1>a, <1>5, <1>6 DEF FlowOK, Spent
  <2>5. QED
    BY <1>4, <2>1, <2>2, <2>3, <2>4 DEF FlowOK
<1>7. CASE s # k
  <2>1. \A q \in Requests : At(q, s)' /\ req'[q].op # "drop" => ~flows'[s].stored
    BY <1>1, <1>a, <1>3, <1>5 DEF FlowOK
  <2>2. \A g \in DOMAIN handoffs' : handoffs'[g].flow = s =>
          g \in DOMAIN handoffs /\ handoffs'[g] = handoffs[g]
    BY <1>1, <1>a, <1>7
  <2>3. QED
    BY <1>1, <1>a, <1>3, <1>5, <2>1, <2>2, FlowKeeps
<1>8. QED
  BY <1>6, <1>7

LEMMA StartCompleteFlow ==
    ASSUME Typed, FlowInv, NEW r \in Requests, NEW h \in DOMAIN handoffs, StartComplete(r, h)
    PROVE  FlowInv'
<1> DEFINE request == [op |-> "redeem", handoff |-> h]
<1>0. PICK k \in Flows : k = handoffs[h].flow /\ k \in DOMAIN flows
  BY HandoffOf
<1>1. /\ handoffs[h].stored /\ Begin(r, request) /\ request \in Request
      /\ request.op = "redeem" /\ request.handoff = h
      /\ loose' = IF Reading(request) THEN loose \cup {k} ELSE loose
      /\ UNCHANGED <<flows, handoffs, sessions>>
  BY <1>0, HandoffOf, RequestKinds DEF StartComplete, keys
<1>2. \A q \in Requests : Redeems(q, h) => Reading(request)
  BY RequestFields DEF Redeems, Reading, Typed
<1> HIDE DEF request
<1>3. req'[r] = request /\ req[r] = Idle /\ \A q \in Requests : q # r => req'[q] = req[q]
  BY <1>1, BeginIsMove, MoveTyped DEF Typed
<1>4. /\ \A q \in Requests : \A s \in Flows : At(q, s)' => At(q, s) /\ req'[q] = req[q]
      /\ \A q \in Requests : \A g : Redeems(q, g)' => Redeems(q, g) \/ (q = r /\ g = h)
  BY <1>1, <1>3 DEF At, Redeems
<1> SUFFICES ASSUME NEW s \in Flows \ loose' PROVE FlowOK(s)'
  BY DEF FlowInv
<1>5. FlowOK(s) /\ s \in Flows
  BY <1>1 DEF FlowInv
<1>6. \A q \in Requests : At(q, s)' /\ req'[q].op # "drop" => ~flows'[s].stored
  BY <1>1, <1>4, <1>5 DEF FlowOK
<1>7. CASE s # k
  <2>1. \A g \in DOMAIN handoffs' : handoffs'[g].flow = s =>
          \A q \in Requests : Redeems(q, g)' => Redeems(q, g)
    BY <1>0, <1>1, <1>4, <1>7
  <2>2. QED
    BY <1>1, <1>4, <1>5, <1>6, <2>1, FlowKeeps
<1>8. CASE s = k
  <2>1. \A q \in Requests : Redeems(q, h)' => q = r
    BY <1>1, <1>2, <1>4, <1>8
  <2>2. /\ ~flows[s].stored
        /\ \A q \in Requests : ~At(q, s)
        /\ \A g \in DOMAIN handoffs : handoffs[g].flow = s => g = h
    BY <1>0, <1>5, <1>8 DEF FlowOK
  <2>3. sessions[s] = 0
    BY <1>0, <1>1, <1>5, <1>8 DEF FlowOK, Spent
  <2>4. QED
    BY <1>1, <1>4, <2>1, <2>2, <2>3 DEF FlowOK
<1>9. QED
  BY <1>7, <1>8

LEMMA CompleteFlow == ASSUME Typed, FlowInv, NEW r \in Requests, FinishComplete(r) PROVE FlowInv'
<1>0. PICK h \in DOMAIN handoffs : h = req[r].handoff /\ Redeems(r, h)
  BY CompleteFacts
<1>1. PICK k \in Flows : k = handoffs[h].flow /\ k \in DOMAIN flows
  BY HandoffOf
<1>2. /\ sessions' = [sessions EXCEPT ![k] = @ + 1]
      /\ \/ handoffs' = [handoffs EXCEPT ![h].stored = FALSE] /\ loose' = loose
         \/ handoffs' = handoffs /\ loose' = loose \cup {k}
      /\ Move(r, Idle) /\ flows' = flows
  BY <1>0, <1>1, CompleteFacts
<1>3. req'[r] = Idle /\ \A q \in Requests : q # r => req'[q] = req[q]
  BY <1>2, EndRequest, MoveTyped DEF Typed
<1>4. /\ \A q \in Requests : \A s \in Flows : At(q, s)' => At(q, s) /\ req'[q] = req[q]
      /\ \A q \in Requests : \A g : Redeems(q, g)' => Redeems(q, g) /\ q # r
  BY <1>3 DEF At, Redeems, Idle
<1>5. /\ DOMAIN handoffs' = DOMAIN handoffs
      /\ \A g \in DOMAIN handoffs : /\ handoffs'[g].flow = handoffs[g].flow
                                    /\ handoffs'[g].stored => handoffs[g].stored
      /\ k \notin loose' => ~handoffs'[h].stored
  BY <1>2 DEF Typed, TypeOK, Handoff
<1> SUFFICES ASSUME NEW s \in Flows \ loose' PROVE FlowOK(s)'
  BY DEF FlowInv
<1>6. FlowOK(s) /\ s \in Flows
  BY <1>2 DEF FlowInv
<1>7. \A q \in Requests : At(q, s)' /\ req'[q].op # "drop" => ~flows'[s].stored
  BY <1>2, <1>4, <1>6 DEF FlowOK
<1>8. CASE s # k
  <2>1. sessions'[s] = sessions[s]
    BY <1>2, <1>8 DEF Typed, TypeOK
  <2>2. \A g \in DOMAIN handoffs' : handoffs'[g].flow = s =>
             /\ g \in DOMAIN handoffs /\ handoffs[g].flow = s
             /\ handoffs'[g].stored => handoffs[g].stored
             /\ \A q \in Requests : Redeems(q, g)' => Redeems(q, g)
    <3> SUFFICES ASSUME NEW g \in DOMAIN handoffs', handoffs'[g].flow = s
                 PROVE  /\ g \in DOMAIN handoffs /\ handoffs[g].flow = s
                        /\ handoffs'[g].stored => handoffs[g].stored
                        /\ \A q \in Requests : Redeems(q, g)' => Redeems(q, g)
      OBVIOUS
    <3>1. g \in DOMAIN handoffs
      BY <1>5
    <3>2. QED
      BY <1>4, <1>5, <3>1
  <2>3. s \in DOMAIN flows => s \in DOMAIN flows' /\ (flows'[s].stored => flows[s].stored)
    BY <1>2
  <2>4. QED
    BY <1>4, <1>6, <1>7, <2>1, <2>2, <2>3, FlowKeeps
<1>9. CASE s = k
  <2>1. /\ ~flows[s].stored
        /\ \A q \in Requests : ~At(q, s)
        /\ \A g \in DOMAIN handoffs : handoffs[g].flow = s => g = h
        /\ \A q \in Requests : Redeems(q, h) => q = r
    BY <1>0, <1>1, <1>6, <1>9 DEF FlowOK
  <2>2. sessions[s] = 0
    BY <1>0, <1>1, <1>6, <1>9 DEF FlowOK, Spent
  <2>3. sessions'[s] = 1
    BY <1>2, <1>9, <2>2 DEF Typed, TypeOK
  <2>4. \A q \in Requests : ~At(q, s)' /\ ~Redeems(q, h)'
    BY <1>4, <2>1
  <2>5. \A g \in DOMAIN handoffs' : handoffs'[g].flow = s => g = h /\ ~handoffs'[g].stored
    <3>1. ~handoffs'[h].stored
      BY <1>5, <1>9
    <3> SUFFICES ASSUME NEW g \in DOMAIN handoffs', handoffs'[g].flow = s
                 PROVE  g = h /\ ~handoffs'[g].stored
      OBVIOUS
    <3>2. g \in DOMAIN handoffs
      BY <1>5
    <3>3. g = h
      BY <1>5, <2>1, <3>2
    <3>4. QED
      BY <3>1, <3>3
  <2>6. Spent(s)'
    BY <1>1, <1>2, <1>9, <2>1, <2>3, <2>4, <2>5 DEF Spent
  <2>7. QED
    BY <1>2, <2>1, <2>4, <2>5, <2>6 DEF FlowOK
<1>10. QED
  BY <1>8, <1>9

LEMMA LinkingFlow ==
    ASSUME Typed, FlowInv, NEW r \in Requests, NEW s \in Flows, s \in DOMAIN flows, At(r, s),
           req[r].op # "drop", GoOn(r, s), UNCHANGED <<providers, keys, history>>
    PROVE  FlowInv'
<1>1. PICK request \in Request :
        Move(r, request) /\ (request = Idle \/ request = [op |-> "save", flow |-> s])
  BY GoOnFacts
<1>2. /\ request.op \notin {"drop", "redeem"}
      /\ request.op \in {"exchange", "save", "link"} => request.flow = s
  BY <1>1 DEF Idle
<1>3. UNCHANGED <<keys, sessions, loose>>
  BY DEF history
<1>4. QED
  BY <1>1, <1>2, <1>3, SlotFlow

LEMMA RestartFlow == ASSUME Typed, FlowInv, Restart PROVE FlowInv'
<1>1. /\ \A q \in Requests : req'[q] = Idle
      /\ UNCHANGED <<flows, handoffs, sessions, loose>>
  BY RestartFacts
<1>2. \A q \in Requests : \A x : ~At(q, x)' /\ ~Redeems(q, x)'
  BY <1>1 DEF At, Redeems, Idle
<1> SUFFICES ASSUME NEW s \in Flows \ loose PROVE FlowOK(s)'
  BY <1>1 DEF FlowInv
<1>3. FlowOK(s) /\ s \in Flows
  BY DEF FlowInv
<1>4. QED
  BY <1>1, <1>2, <1>3, FlowKeeps

LEMMA FlowStep == Typed /\ FlowInv /\ [Next]_vars => FlowInv'
<1> SUFFICES ASSUME Typed, FlowInv, [Next]_vars PROVE FlowInv'
  OBVIOUS
<1>1. CASE UNCHANGED <<keys, req, sessions, loose>>
  BY <1>1, OutsideFlow DEF keys
<1>2. ASSUME NEW r \in Requests, NEW email \in Emails, StartCreate(r, email) PROVE FlowInv'
  <2> DEFINE request == [op |-> "create", email |-> email]
  <2>1. /\ request \in Request /\ Move(r, request) /\ request.op = "create"
        /\ UNCHANGED <<keys, sessions, loose>>
    BY <1>2, RequestKinds, BeginIsMove DEF StartCreate
  <2> HIDE DEF request
  <2>2. QED
    BY <2>1, SlotFlow
<1>3. ASSUME NEW r \in Requests, FailExchange(r) \/ \E i \in Ids : FinishCreate(r, i)
      PROVE  FlowInv'
  <2>1. Move(r, Idle) /\ UNCHANGED <<keys, sessions, loose>>
    BY <1>3 DEF FailExchange, FinishCreate, End, history
  <2>2. Idle \in Request /\ Idle.op \notin {"drop", "redeem", "exchange", "save", "link"}
    BY EndRequest DEF Idle
  <2>3. QED
    BY <2>1, <2>2, SlotFlow
<1>4. ASSUME NEW r \in Requests, NEW i \in DOMAIN accounts, LogIn(r, i) PROVE FlowInv'
  <2>1. PICK s \in Flows : s = req[r].flow
    BY <1>4, LogInFacts
  <2>2. /\ At(r, s) /\ req[r].op # "drop" /\ s \in DOMAIN flows
        /\ GoOn(r, s) /\ UNCHANGED <<providers, keys, history>>
    BY <1>4, <2>1, LogInFacts DEF At
  <2>3. QED
    BY <2>2, LinkingFlow
<1>5. ASSUME NEW r \in Requests, FinishProvision(r) PROVE FlowInv'
  <2>1. PICK s \in Flows : s = req[r].flow
    BY <1>5, FinishProvisionFacts
  <2>2. /\ At(r, s) /\ req[r].op # "drop" /\ s \in DOMAIN flows
        /\ GoOn(r, s) /\ UNCHANGED <<providers, keys, history>>
    BY <1>5, <2>1, FinishProvisionFacts DEF At
  <2>3. QED
    BY <2>2, LinkingFlow
<1>6. ASSUME NEW r \in Requests, NEW i \in Ids, NEW email \in Emails, Provision(r, i, email)
      PROVE  FlowInv'
  <2>1. PICK s \in Flows : s = req[r].flow
    BY <1>6, ProvisionFacts
  <2> DEFINE request == [op |-> "link", flow |-> s, account |-> i]
  <2>2. /\ At(r, s) /\ req[r].op # "drop" /\ request \in Request /\ Move(r, request)
        /\ request.op = "link" /\ request.flow = s
        /\ UNCHANGED <<keys, sessions, loose>>
    BY <1>6, <2>1, ProvisionFacts DEF At
  <2> HIDE DEF request
  <2>3. QED
    BY <2>2, SlotFlow
<1>7. ASSUME NEW s \in DOMAIN flows, ExpireFlow(s) PROVE FlowInv'
  <2>1. /\ DOMAIN flows' = DOMAIN flows /\ \A k \in DOMAIN flows : flows'[k].stored => flows[k].stored
        /\ UNCHANGED <<handoffs, req, sessions, loose>>
    BY <1>7 DEF ExpireFlow, history, Typed, TypeOK, Flow
  <2>2. QED
    BY <2>1, OutsideFlow
<1>8. ASSUME NEW h \in DOMAIN handoffs, ExpireHandoff(h) PROVE FlowInv'
  <2>1. /\ DOMAIN handoffs' = DOMAIN handoffs
        /\ \A g \in DOMAIN handoffs : /\ handoffs'[g].flow = handoffs[g].flow
                                      /\ handoffs'[g].stored => handoffs[g].stored
        /\ UNCHANGED <<req, sessions, loose>> /\ flows' = flows
    BY <1>8 DEF ExpireHandoff, history, Typed, TypeOK, Handoff
  <2>2. DOMAIN flows \subseteq DOMAIN flows' /\ \A k \in DOMAIN flows : flows'[k].stored => flows[k].stored
    BY <2>1
  <2>3. \A g \in DOMAIN handoffs : handoffs'[g].flow = handoffs[g].flow /\ (handoffs'[g].stored => handoffs[g].stored)
    BY <2>1
  <2>4. UNCHANGED <<req, sessions, loose>> /\ DOMAIN handoffs' = DOMAIN handoffs
    BY <2>1
  <2>5. QED
    BY <2>2, <2>3, <2>4, OutsideFlow, Zenon
<1>9. QED
  <2>1. CASE UNCHANGED vars
    BY <1>1, <2>1 DEF vars, history
  <2>2. CASE Next
    BY <1>1, <1>2, <1>3, <1>4, <1>5, <1>6, <1>7, <1>8, <2>2, StepCases, StartCallbackFlow, DropFlow,
       SaveFlow, StartCompleteFlow, CompleteFlow, InitiateFlow, RestartFlow
    DEF CreateProvider, UpdateProvider, DeleteProvider, DeleteUser, history
  <2>3. QED
    BY <2>1, <2>2

\* A state value and its handoff token hand over one session at most, unless
\* their requests overlapped or a delete did not reach Dragonfly (handleCallback,
\* completeHandoff).
THEOREM OneSessionEach == Spec => []OneSessionPerFlow
<1>1. Init => FlowInv
  BY NothingTyped DEF Init, FlowInv, FlowOK, At, Redeems, Idle
<1>2. FlowInv => OneSessionPerFlow
  BY DEF FlowInv, FlowOK, Spent, OneSessionPerFlow
<1>3. QED
  BY <1>1, <1>2, AlwaysTyped, FlowStep, PTL DEF Spec
=============================================================================
