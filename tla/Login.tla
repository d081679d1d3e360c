------------------------------- MODULE Login -------------------------------
(***************************************************************************)
(* AuthService: the creation of accounts, the password login with its      *)
(* lockout, and the second factor with its limit on attempts.              *)
(*                                                                         *)
(* A request is suspended at its awaits: createOwner and createUser at the *)
(* hash of the new password, login at the comparison and again at persist, *)
(* verifyMfa at each of its three commands to Dragonfly.  The checks before*)
(* an await are not repeated after it.  A command without a connection is  *)
(* skipped: a counter reads 1, a marker counts as new.                     *)
(*                                                                         *)
(* Abstractions: logins are to the first account; a password and a code    *)
(* are right or wrong as it happens; a challenge token is its number and   *)
(* outlives neither of its keys, whose lives start later and last as long. *)
(* One process: nothing here survives a restart but the users, in the      *)
(* snapshots of module Snapshots.  SSO is module SingleSignOn.             *)
(***************************************************************************)
EXTENDS Naturals, Sequences, FiniteSets

CONSTANTS
    Emails,        \* addresses of accounts
    Requests,      \* slots for suspended requests
    FailLimit,     \* failed passwords until the lock (5 in the code)
    TryLimit,      \* codes per challenge (5)
    MaxUsers,      \* bound on the accounts
    MaxFailed,     \* bound on failedAttempts
    MaxChallenges, \* bound on the challenge tokens
    MaxTries       \* bound on the verifications of a challenge

ASSUME LimitsAssumption == FailLimit \in Nat \ {0} /\ TryLimit \in Nat \ {0}
ASSUME BoundsAssumption == /\ MaxUsers \in Nat /\ MaxFailed \in Nat
                           /\ MaxChallenges \in Nat /\ MaxTries \in Nat
ASSUME RequestsAssumption == IsFiniteSet(Requests)

VARIABLES
    users,     \* the accounts, in the order of their creation
    failed,    \* failedAttempts of the first account
    locked,    \* lockedUntil is in the future
    disabled,  \* the account is disabled
    mfa,       \* mfaEnabled
    req,       \* req[r]: the request suspended in slot r
    tries,     \* tries[c]: Dragonfly's counter of challenge c
    spent,     \* spent[c]: Dragonfly's marker that c has been used
    raced,     \* history: emails, and the owner, with creations that overlapped
    guesses,   \* history: wrong passwords since the last right one or lock that ended
    checks,    \* checks[c], history: codes looked at for c
    granted,   \* granted[c], history: sessions given for c
    lossy      \* history: challenges with a command that was skipped

account == <<failed, locked, disabled, mfa>>
keys == <<tries, spent>>
counts == <<checks, granted, lossy>>
vars == <<users, account, req, keys, raced, guesses, counts>>

Challenges == DOMAIN tries
User == [email : Emails, owner : BOOLEAN]

Idle == [op |-> "idle"]
Creation == [op : {"create"}, user : User]
Password == [op : {"compare", "save"}]
Code == [op : {"consume", "clear"}, challenge : Challenges]

TypeOK ==
    /\ users \in Seq(User)
    /\ failed \in Nat /\ guesses \in Nat
    /\ locked \in BOOLEAN /\ disabled \in BOOLEAN /\ mfa \in BOOLEAN
    /\ req \in [Requests -> {Idle} \cup Creation \cup Password \cup Code]
    /\ tries \in Seq(Nat)
    /\ spent \in [Challenges -> BOOLEAN]
    /\ raced \subseteq Emails \cup {"owner"}
    /\ checks \in [Challenges -> Nat]
    /\ granted \in [Challenges -> Nat]
    /\ lossy \subseteq Challenges

Init ==
    /\ users = <<>>
    /\ failed = 0 /\ locked = FALSE /\ disabled = FALSE /\ mfa = FALSE
    /\ req = [r \in Requests |-> Idle]
    /\ tries = <<>> /\ spent = <<>>
    /\ raced = {} /\ guesses = 0
    /\ checks = <<>> /\ granted = <<>> /\ lossy = {}

Begin(r, request) == req[r] = Idle /\ req' = [req EXCEPT ![r] = request]
Move(r, request) == req' = [req EXCEPT ![r] = request]
End(r) == Move(r, Idle)

-----------------------------------------------------------------------------
(* Accounts *)

Creating == {req[r].user : r \in {q \in Requests : req[q].op = "create"}}

\* What this creation overlaps: another of the same address, or another setup.
Overlaps(user) == {u.email : u \in {v \in Creating : v.email = user.email}}
                  \cup (IF user.owner /\ \E u \in Creating : u.owner THEN {"owner"} ELSE {})

StartCreate(r, user) ==
    /\ Begin(r, [op |-> "create", user |-> user])
    /\ raced' = raced \cup Overlaps(user)
    /\ UNCHANGED <<users, account, keys, guesses, counts>>

\* Slip: setup looks for the address instead of for anybody.
NoSuchUser(email) == \A i \in DOMAIN users : users[i].email # email

SetupOpen(email) == users = <<>>

\* createOwner
CreateOwner(r, email) ==
    /\ SetupOpen(email)
    /\ StartCreate(r, [email |-> email, owner |-> TRUE])

\* createUser, by an administrator
CreateUser(r, email) ==
    /\ users # <<>>
    /\ \A i \in DOMAIN users : users[i].email # email
    /\ StartCreate(r, [email |-> email, owner |-> FALSE])

FinishCreate(r) ==
    /\ req[r].op = "create" /\ Len(users) < MaxUsers
    /\ users' = Append(users, req[r].user)
    /\ End(r)
    /\ UNCHANGED <<account, keys, raced, guesses, counts>>

\* updateUser
Disable(value) ==
    /\ users # <<>>
    /\ disabled' = value
    /\ UNCHANGED <<users, failed, locked, mfa, req, keys, raced, guesses, counts>>

\* enableMfa, by the account's owner in a session
EnableMfa ==
    /\ users # <<>> /\ ~mfa
    /\ mfa' = TRUE
    /\ UNCHANGED <<users, failed, locked, disabled, req, keys, raced, guesses, counts>>

-----------------------------------------------------------------------------
(* The password *)

\* Slip: the lock is set at the limit and not beyond it.
LocksOnce(failures) == failures = FailLimit

Locks(failures) == failures >= FailLimit

\* login, up to the comparison
StartLogin(r) ==
    /\ users # <<>> /\ ~disabled /\ ~locked
    /\ Begin(r, [op |-> "compare"])
    /\ UNCHANGED <<users, account, keys, raced, guesses, counts>>

WrongPassword(r) ==
    /\ req[r].op = "compare" /\ failed < MaxFailed
    /\ failed' = failed + 1
    /\ locked' = (locked \/ Locks(failed'))
    /\ guesses' = guesses + 1
    /\ End(r)
    /\ UNCHANGED <<users, disabled, mfa, keys, raced, counts>>

\* A right password forgives the failures, and a lock set during the comparison.
RightPassword(r) ==
    /\ req[r].op = "compare"
    /\ failed' = 0 /\ locked' = FALSE /\ guesses' = 0
    /\ Move(r, [op |-> "save"])
    /\ UNCHANGED <<users, disabled, mfa, keys, raced, counts>>

\* After persist: a challenge, or a session whose further life is not modelled.
IssueChallenge(r) ==
    /\ req[r].op = "save" /\ mfa
    /\ Len(tries) < MaxChallenges
    /\ tries' = Append(tries, 0) /\ spent' = Append(spent, FALSE)
    /\ checks' = Append(checks, 0) /\ granted' = Append(granted, 0)
    /\ End(r)
    /\ UNCHANGED <<users, account, raced, guesses, lossy>>

PasswordSession(r) ==
    /\ req[r].op = "save" /\ ~mfa
    /\ End(r)
    /\ UNCHANGED <<users, account, keys, raced, guesses, counts>>

LockEnds ==
    /\ locked
    /\ locked' = FALSE /\ guesses' = 0
    /\ UNCHANGED <<users, failed, disabled, mfa, req, keys, raced, counts>>

-----------------------------------------------------------------------------
(* The second factor *)

\* Slip: the attempt that reaches the limit is not the last.
AllowedOneMore(attempts) == attempts <= TryLimit + 1

Allowed(attempts) == attempts <= TryLimit

Skipped(c) == lossy' = lossy \cup {c}

\* verifyMfa: the counter's command, and the code, if the count admits it.  A
\* count that was not made reads 1.
Try(r, c, good) ==
    /\ req[r] = Idle /\ checks[c] < MaxTries
    /\ \E connected \in BOOLEAN :
         LET attempts == IF connected THEN tries[c] + 1 ELSE 1
         IN  /\ IF connected THEN tries' = [tries EXCEPT ![c] = attempts] /\ UNCHANGED lossy
                             ELSE Skipped(c) /\ UNCHANGED tries
             /\ checks' = IF Allowed(attempts) THEN [checks EXCEPT ![c] = @ + 1] ELSE checks
             /\ req' = IF Allowed(attempts) /\ good
                       THEN [req EXCEPT ![r] = [op |-> "consume", challenge |-> c]] ELSE req
    /\ tries[c] <= MaxTries
    /\ UNCHANGED <<users, account, spent, raced, guesses, granted>>

\* Slip: the marker is looked up and set later.
Unmarked(c) == UNCHANGED spent

Mark(c) == spent' = [spent EXCEPT ![c] = TRUE]

\* setIfAbsent: the first to set the marker goes on; without a connection all do.
Consume(r) ==
    /\ req[r].op = "consume"
    /\ LET c == req[r].challenge
       IN  \/ /\ ~spent[c]
              /\ Mark(c)
              /\ Move(r, [op |-> "clear", challenge |-> c])
              /\ UNCHANGED lossy
           \/ /\ spent[c]
              /\ End(r)
              /\ UNCHANGED <<spent, lossy>>
           \/ /\ Skipped(c)
              /\ Move(r, [op |-> "clear", challenge |-> c])
              /\ UNCHANGED spent
    /\ UNCHANGED <<users, account, tries, raced, guesses, checks, granted>>

\* The counter is deleted, and the session given either way.
Grant(r) ==
    /\ req[r].op = "clear"
    /\ LET c == req[r].challenge
       IN  /\ granted' = [granted EXCEPT ![c] = @ + 1]
           /\ \/ tries' = [tries EXCEPT ![c] = 0] /\ UNCHANGED lossy
              \/ Skipped(c) /\ UNCHANGED tries
    /\ End(r)
    /\ UNCHANGED <<users, account, spent, raced, guesses, checks>>

-----------------------------------------------------------------------------
Next ==
    \/ \E r \in Requests :
         \/ \E email \in Emails : CreateOwner(r, email) \/ CreateUser(r, email)
         \/ FinishCreate(r)
         \/ StartLogin(r) \/ WrongPassword(r) \/ RightPassword(r)
         \/ IssueChallenge(r) \/ PasswordSession(r)
         \/ \E c \in Challenges, good \in BOOLEAN : Try(r, c, good)
         \/ Consume(r) \/ Grant(r)
    \/ \E value \in BOOLEAN : Disable(value)
    \/ EnableMfa
    \/ LockEnds

Spec == Init /\ [][Next]_vars

-----------------------------------------------------------------------------
(* Properties *)

\* Two accounts have one address, or two are owners by setup, only when their
\* creations overlapped.  (Two with one address and Postgres refuses every
\* later snapshot: users.email is unique.)
AccountsDistinct ==
    \A i, j \in DOMAIN users : i # j =>
        /\ users[i].email = users[j].email => users[i].email \in raced
        /\ users[i].owner /\ users[j].owner => "owner" \in raced

\* Between two ends of a lock nobody gets more wrong passwords than the limit
\* and the comparisons under way when the account was locked.
GuessesBounded == guesses <= FailLimit - 1 + Cardinality(Requests)

\* While the store answers, a challenge gives one session at most.
OneSessionPerChallenge == \A c \in Challenges : granted[c] > 1 => c \in lossy

\* While the store answers, no more codes than the limit are looked at until
\* one of them has been right.
CodesBounded == \A c \in Challenges : checks[c] > TryLimit => spent[c] \/ c \in lossy

=============================================================================
