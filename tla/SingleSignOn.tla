---------------------------- MODULE SingleSignOn ----------------------------
(***************************************************************************)
(* SsoService: a login through an identity provider, from initiateFlow to  *)
(* completeHandoff, and the accounts it provisions beside the ones that    *)
(* administrators create.                                                  *)
(*                                                                         *)
(* A flow is the random state value the browser carries to the provider    *)
(* and back; a handoff token carries the session from the callback to the  *)
(* user interface.  Both are keys in Dragonfly, read with one command and  *)
(* deleted with another.  A request is suspended at the commands, at the   *)
(* exchange with the provider, at the persist of a provisioned account and *)
(* at createUser's hash.                                                   *)
(*                                                                         *)
(* Abstractions: the exchange ends with any address or fails; a domain     *)
(* list is the set of addresses it admits; each provider is of a type of   *)
(* its own and knows one subject per address; an account is locked as it   *)
(* happens.  A write skipped for want of a connection is a key that has    *)
(* expired at once.                                                        *)
(***************************************************************************)
EXTENDS Naturals

CONSTANTS
    Providers,    \* ids of identity providers
    Emails,       \* addresses
    Settings,     \* what an administrator may set for a provider
    Ids,          \* ids of accounts
    Flows,        \* state values
    Handoffs,     \* handoff tokens
    Requests,     \* slots for suspended requests
    MaxSessions   \* bound on the sessions counted per flow

ASSUME SettingsAssumption ==
    Settings \subseteq [enabled : BOOLEAN, autoProvision : BOOLEAN, allowed : SUBSET Emails]
ASSUME MaxSessionsAssumption == MaxSessions \in Nat

VARIABLES
    providers,   \* the providers created so far, with their settings
    flows,       \* the flows started so far
    handoffs,    \* the handoff tokens issued so far
    accounts,    \* the accounts created so far
    req,         \* req[r]: the request suspended in slot r
    sessions,    \* sessions[s], history: sessions handed over for flow s
    raced,       \* history: addresses with creations that overlapped
    loose        \* history: flows with requests that overlapped or a skipped delete

keys == <<flows, handoffs>>
history == <<sessions, raced, loose>>
vars == <<providers, keys, accounts, req, history>>

Provider == [listed : BOOLEAN, settings : Settings]
Flow == [provider : Providers, stored : BOOLEAN]
Handoff == [flow : Flows, stored : BOOLEAN]
Account == [present : BOOLEAN, email : Emails, links : [Providers -> Nat]]

Idle == [op |-> "idle"]
Callback == [op : {"drop", "exchange", "save"}, flow : Flows]
Provisioning == [op : {"link"}, flow : Flows, account : Ids]
Completion == [op : {"redeem"}, handoff : Handoffs]
Creation == [op : {"create"}, email : Emails]
Request == {Idle} \cup Callback \cup Provisioning \cup Completion \cup Creation

TypeOK ==
    /\ DOMAIN providers \subseteq Providers /\ providers \in [DOMAIN providers -> Provider]
    /\ DOMAIN flows \subseteq Flows /\ flows \in [DOMAIN flows -> Flow]
    /\ DOMAIN handoffs \subseteq Handoffs /\ handoffs \in [DOMAIN handoffs -> Handoff]
    /\ DOMAIN accounts \subseteq Ids /\ accounts \in [DOMAIN accounts -> Account]
    /\ req \in [Requests -> Request]
    /\ sessions \in [Flows -> Nat]
    /\ raced \subseteq Emails /\ loose \subseteq Flows

Nothing == [x \in {} |-> x]

Init ==
    /\ providers = Nothing /\ flows = Nothing /\ handoffs = Nothing /\ accounts = Nothing
    /\ req = [r \in Requests |-> Idle]
    /\ sessions = [s \in Flows |-> 0]
    /\ raced = {} /\ loose = {}

Put(f, key, value) == [k \in DOMAIN f \cup {key} |-> IF k = key THEN value ELSE f[k]]

Begin(r, request) == req[r] = Idle /\ req' = [req EXCEPT ![r] = request]
Move(r, request) == req' = [req EXCEPT ![r] = request]
End(r) == Move(r, Idle)

-----------------------------------------------------------------------------
(* Providers *)

\* createProvider; a new id
CreateProvider(p, settings) ==
    /\ p \notin DOMAIN providers
    /\ providers' = Put(providers, p, [listed |-> TRUE, settings |-> settings])
    /\ UNCHANGED <<keys, accounts, req, history>>

\* updateProvider changes the object that running callbacks hold, and validates
\* it afterwards: what it refuses it has already changed.
UpdateProvider(p, settings) ==
    /\ p \in DOMAIN providers /\ providers[p].listed
    /\ providers' = [providers EXCEPT ![p].settings = settings]
    /\ UNCHANGED <<keys, accounts, req, history>>

\* deleteProvider; running callbacks keep the object.
DeleteProvider(p) ==
    /\ p \in DOMAIN providers /\ providers[p].listed
    /\ providers' = [providers EXCEPT ![p].listed = FALSE]
    /\ UNCHANGED <<keys, accounts, req, history>>

Usable(p) == p \in DOMAIN providers /\ providers[p].listed /\ providers[p].settings.enabled

-----------------------------------------------------------------------------
(* Accounts *)

Creating(email) == \E r \in Requests : req[r] = [op |-> "create", email |-> email]

Race(email) == raced' = IF Creating(email) THEN raced \cup {email} ELSE raced

HasEmail(i, email) == accounts[i].present /\ accounts[i].email = email

\* createUser, up to the hash
StartCreate(r, email) ==
    /\ \A i \in DOMAIN accounts : ~HasEmail(i, email)
    /\ Begin(r, [op |-> "create", email |-> email])
    /\ Race(email)
    /\ UNCHANGED <<providers, keys, accounts, sessions, loose>>

Push(i, email) ==
    /\ i \notin DOMAIN accounts
    /\ accounts' = Put(accounts, i, [present |-> TRUE, email |-> email,
                                     links |-> [p \in Providers |-> 0]])

FinishCreate(r, i) ==
    /\ req[r].op = "create"
    /\ Push(i, req[r].email)
    /\ End(r)
    /\ UNCHANGED <<providers, keys, history>>

\* deleteUser
DeleteUser(i) ==
    /\ accounts[i].present
    /\ accounts' = [accounts EXCEPT ![i].present = FALSE]
    /\ UNCHANGED <<providers, keys, req, history>>

-----------------------------------------------------------------------------
(* The flow *)

\* initiateFlow
Initiate(p, s) ==
    /\ Usable(p)
    /\ s \notin DOMAIN flows
    /\ flows' = Put(flows, s, [provider |-> p, stored |-> TRUE])
    /\ UNCHANGED <<providers, handoffs, accounts, req, history>>

\* A key's time runs out.
ExpireFlow(s) ==
    /\ flows[s].stored
    /\ flows' = [flows EXCEPT ![s].stored = FALSE]
    /\ UNCHANGED <<providers, handoffs, accounts, req, history>>

ExpireHandoff(h) ==
    /\ handoffs[h].stored
    /\ handoffs' = [handoffs EXCEPT ![h].stored = FALSE]
    /\ UNCHANGED <<providers, flows, accounts, req, history>>

Reading(request) == \E r \in Requests : req[r] = request

\* handleCallback, up to the state's delete
StartCallback(r, s) ==
    LET request == [op |-> "drop", flow |-> s]
    IN  /\ flows[s].stored
        /\ Begin(r, request)
        /\ loose' = IF Reading(request) THEN loose \cup {s} ELSE loose
        /\ UNCHANGED <<providers, keys, accounts, sessions, raced>>

\* Slip: the state is left to expire.
LeaveState(s) == UNCHANGED flows

DeleteState(s) == flows' = [flows EXCEPT ![s].stored = FALSE]

\* The delete, which a lost connection skips, and the look for the provider.
DropState(r) ==
    /\ req[r].op = "drop"
    /\ LET s == req[r].flow
       IN  /\ \/ DeleteState(s) /\ UNCHANGED loose
              \/ UNCHANGED flows /\ loose' = loose \cup {s}
           /\ IF Usable(flows[s].provider) THEN Move(r, [op |-> "exchange", flow |-> s])
                                           ELSE End(r)
    /\ UNCHANGED <<providers, handoffs, accounts, sessions, raced>>

\* The exchange fails.
FailExchange(r) ==
    /\ req[r].op = "exchange"
    /\ End(r)
    /\ UNCHANGED <<providers, keys, accounts, history>>

HasLink(i, p) == accounts[i].links[p] > 0

Link(i, p) ==
    accounts' = IF HasLink(i, p) THEN accounts ELSE [accounts EXCEPT ![i].links[p] = @ + 1]

\* What follows the link: the check of the lock, and the handoff's key.
GoOn(r, s) == End(r) \/ Move(r, [op |-> "save", flow |-> s])

Allowed(p, email) == email \in providers[p].settings.allowed

\* Slip: accounts are found by their link.
LinkedTo(i, email) == HasEmail(i, email) /\ \E p \in Providers : HasLink(i, p)

Found(i, email) == HasEmail(i, email)

\* The exchange ends with an address that has an account.
LogIn(r, i) ==
    /\ req[r].op = "exchange"
    /\ LET s == req[r].flow
           p == flows[s].provider
       IN  /\ Allowed(p, accounts[i].email)
           /\ Found(i, accounts[i].email)
           /\ Link(i, p)
           /\ GoOn(r, s)
    /\ UNCHANGED <<providers, keys, history>>

\* The exchange ends with an address that has none: provisionUser, up to persist.
Provision(r, i, email) ==
    /\ req[r].op = "exchange"
    /\ LET s == req[r].flow
           p == flows[s].provider
       IN  /\ Allowed(p, email)
           /\ \A j \in DOMAIN accounts : ~Found(j, email)
           /\ providers[p].settings.autoProvision
           /\ Push(i, email)
           /\ Move(r, [op |-> "link", flow |-> s, account |-> i])
    /\ Race(email)
    /\ UNCHANGED <<providers, keys, sessions, loose>>

\* Slip: an account that has just been provisioned has no link.
LinkNew(i, p) == accounts' = [accounts EXCEPT ![i].links[p] = @ + 1]

LinkProvisioned(i, p) == Link(i, p)

FinishProvision(r) ==
    /\ req[r].op = "link"
    /\ LinkProvisioned(req[r].account, flows[req[r].flow].provider)
    /\ GoOn(r, req[r].flow)
    /\ UNCHANGED <<providers, keys, history>>

SaveHandoff(r, h) ==
    /\ req[r].op = "save"
    /\ h \notin DOMAIN handoffs
    /\ handoffs' = Put(handoffs, h, [flow |-> req[r].flow, stored |-> TRUE])
    /\ End(r)
    /\ UNCHANGED <<providers, flows, accounts, history>>

\* completeHandoff, up to the delete
StartComplete(r, h) ==
    LET request == [op |-> "redeem", handoff |-> h]
    IN  /\ handoffs[h].stored
        /\ Begin(r, request)
        /\ loose' = IF Reading(request) THEN loose \cup {handoffs[h].flow} ELSE loose
        /\ UNCHANGED <<providers, keys, accounts, sessions, raced>>

FinishComplete(r) ==
    /\ req[r].op = "redeem"
    /\ LET h == req[r].handoff
           s == handoffs[h].flow
       IN  /\ sessions[s] < MaxSessions
           /\ sessions' = [sessions EXCEPT ![s] = @ + 1]
           /\ \/ handoffs' = [handoffs EXCEPT ![h].stored = FALSE] /\ UNCHANGED loose
              \/ UNCHANGED handoffs /\ loose' = loose \cup {s}
    /\ End(r)
    /\ UNCHANGED <<providers, flows, accounts, raced>>

\* The server restarts, perhaps from a snapshot without the latest accounts, and
\* without any provider: normalizeSnapshot passes none to either store.  Dragonfly
\* keeps its keys.
Restart ==
    /\ providers' = [p \in DOMAIN providers |-> [providers[p] EXCEPT !.listed = FALSE]]
    /\ \E kept \in SUBSET DOMAIN accounts :
         accounts' = [i \in DOMAIN accounts |->
                         IF i \in kept THEN accounts[i] ELSE [accounts[i] EXCEPT !.present = FALSE]]
    /\ req' = [r \in Requests |-> Idle]
    /\ UNCHANGED <<keys, history>>

-----------------------------------------------------------------------------
RequestStep(r) ==
    \/ \E email \in Emails : StartCreate(r, email)
    \/ \E i \in Ids : FinishCreate(r, i)
    \/ \E s \in DOMAIN flows : StartCallback(r, s)
    \/ DropState(r) \/ FailExchange(r)
    \/ \E i \in DOMAIN accounts : LogIn(r, i)
    \/ \E i \in Ids, email \in Emails : Provision(r, i, email)
    \/ FinishProvision(r)
    \/ \E h \in Handoffs : SaveHandoff(r, h)
    \/ \E h \in DOMAIN handoffs : StartComplete(r, h)
    \/ FinishComplete(r)

Next ==
    \/ \E r \in Requests : RequestStep(r)
    \/ \E p \in Providers, settings \in Settings :
         CreateProvider(p, settings) \/ UpdateProvider(p, settings)
    \/ \E p \in Providers : DeleteProvider(p)
    \/ \E i \in DOMAIN accounts : DeleteUser(i)
    \/ \E p \in Providers, s \in Flows : Initiate(p, s)
    \/ \E s \in DOMAIN flows : ExpireFlow(s)
    \/ \E h \in DOMAIN handoffs : ExpireHandoff(h)
    \/ Restart

Spec == Init /\ [][Next]_vars

-----------------------------------------------------------------------------
(* Properties *)

\* Two accounts have one address only when an administrator's creation of the
\* one was under way while another request created the other: callbacks alone
\* never provision an address twice, for resolveUser looks for the account and
\* provisionUser stores it without an await between.
AddressesDistinct ==
    \A i, j \in DOMAIN accounts :
        i # j /\ accounts[i].present /\ HasEmail(j, accounts[i].email) => accounts[i].email \in raced

\* However logins of one new address interleave, with one of them waiting for
\* the account to be saved, no account is linked to one identity twice.
LinksDistinct ==
    \A i \in DOMAIN accounts : \A p \in Providers : accounts[i].links[p] <= 1

\* The state value and the handoff token are each good for one use ("single-use",
\* handleCallback and completeHandoff): a flow whose requests do not overlap, and
\* whose deletes reach the store, gives one session at most, whatever expires,
\* restarts or runs beside it.
OneSessionPerFlow == \A s \in Flows : sessions[s] > 1 => s \in loose
=============================================================================
