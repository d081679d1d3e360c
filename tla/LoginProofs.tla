---------------------------- MODULE LoginProofs ----------------------------
(***************************************************************************)
(* What the accounts, the lockout and the second factor keep, for any      *)
(* number of requests, addresses and challenges and any limits.            *)
(***************************************************************************)
EXTENDS Login, SequenceTheorems, FiniteSetTheorems, TLAPS

LEMMA AppendFacts ==
    ASSUME NEW S, NEW s \in Seq(S), NEW e \in S
    PROVE  /\ Append(s, e) \in [1 .. Len(s) + 1 -> S]
           /\ \A i \in 1 .. Len(s) : Append(s, e)[i] = s[i]
           /\ Append(s, e)[Len(s) + 1] = e
<1>1. /\ Append(s, e) \in Seq(S) /\ Len(Append(s, e)) = Len(s) + 1
      /\ \A i \in 1 .. Len(s) : Append(s, e)[i] = s[i]
      /\ Append(s, e)[Len(s) + 1] = e
  BY AppendProperties
<1>2. QED
  BY <1>1, LenProperties

-----------------------------------------------------------------------------
(* Types *)

\* What the challenges' keys and histories are indexed by.
LEMMA ChallengesAre ==
    ASSUME TypeOK PROVE Challenges = 1 .. Len(tries) /\ Len(tries) \in Nat
BY LenProperties DEF TypeOK, Challenges

\* A slot's new request.
LEMMA MoveTyped ==
    ASSUME TypeOK, NEW r \in Requests,
           NEW request \in {Idle} \cup Creation \cup Password \cup Code, Move(r, request)
    PROVE  /\ req' \in [Requests -> {Idle} \cup Creation \cup Password \cup Code]
           /\ req'[r] = request /\ \A q \in Requests \ {r} : req'[q] = req[q]
BY DEF TypeOK, Move

LEMMA BeginIsMove ==
    ASSUME NEW r, NEW request, Begin(r, request)
    PROVE  Move(r, request) /\ req[r] = Idle
BY DEF Begin, Move

LEMMA IdleTyped == Idle \in {Idle} \cup Creation \cup Password \cup Code
OBVIOUS

LEMMA StartCreateTypes ==
    ASSUME TypeOK, NEW r \in Requests, NEW user \in User, StartCreate(r, user)
    PROVE  TypeOK'
<1>1. [op |-> "create", user |-> user] \in Creation
  BY DEF Creation
<1>2. req' \in [Requests -> {Idle} \cup Creation \cup Password \cup Code]
  BY <1>1, BeginIsMove, MoveTyped DEF StartCreate
<1>3. Overlaps(user) \subseteq Emails \cup {"owner"}
  <2>1. user.email \in Emails
    BY DEF User
  <2>2. QED
    BY <2>1 DEF Overlaps
<1>4. QED
  BY <1>2, <1>3 DEF TypeOK, StartCreate, account, keys, counts, Challenges, Code

\* What Try leaves, whether the counter's command reached the store or not.
TryEffect(r, c) ==
    /\ \/ /\ tries' = [tries EXCEPT ![c] = tries[c] + 1] /\ lossy' = lossy
          /\ checks' = IF Allowed(tries[c] + 1) THEN [checks EXCEPT ![c] = @ + 1] ELSE checks
       \/ /\ tries' = tries /\ lossy' = lossy \cup {c}
          /\ checks' = [checks EXCEPT ![c] = @ + 1] \/ checks' = checks
    /\ \/ req' = req
       \/ Move(r, [op |-> "consume", challenge |-> c]) /\ req[r] = Idle
    /\ UNCHANGED <<users, account, spent, raced, guesses, granted>>

LEMMA TryFacts ==
    ASSUME NEW r \in Requests, NEW c \in Challenges, NEW good \in BOOLEAN, Try(r, c, good)
    PROVE  TryEffect(r, c)
<1>1. PICK connected \in BOOLEAN :
         LET attempts == IF connected THEN tries[c] + 1 ELSE 1
         IN  /\ IF connected THEN tries' = [tries EXCEPT ![c] = attempts] /\ UNCHANGED lossy
                             ELSE Skipped(c) /\ UNCHANGED tries
             /\ checks' = IF Allowed(attempts) THEN [checks EXCEPT ![c] = @ + 1] ELSE checks
             /\ req' = IF Allowed(attempts) /\ good
                       THEN [req EXCEPT ![r] = [op |-> "consume", challenge |-> c]] ELSE req
  BY DEF Try
<1>2. UNCHANGED <<users, account, spent, raced, guesses, granted>> /\ req[r] = Idle
  BY DEF Try
<1>3. CASE connected
  BY <1>1, <1>2, <1>3 DEF Move, TryEffect
<1>4. CASE ~connected
  BY <1>1, <1>2, <1>4 DEF Move, Skipped, TryEffect
<1>5. QED
  BY <1>3, <1>4

LEMMA TryTypes ==
    ASSUME TypeOK, NEW r \in Requests, NEW c \in Challenges, NEW good \in BOOLEAN, Try(r, c, good)
    PROVE  TypeOK'
<1>0. TryEffect(r, c)
  BY TryFacts
<1>1. tries \in Seq(Nat) /\ checks \in [Challenges -> Nat] /\ c \in 1 .. Len(tries)
  BY ChallengesAre DEF TypeOK
<1>2. tries' \in Seq(Nat) /\ Challenges' = Challenges
  <2>1. tries[c] \in Nat
    BY <1>1, ElementOfSeq
  <2>2. tries[c] + 1 \in Nat
    BY <2>1
  <2>3. [tries EXCEPT ![c] = tries[c] + 1] \in Seq(Nat)
    BY <1>1, <2>2, ExceptSeq
  <2>4. DOMAIN [tries EXCEPT ![c] = tries[c] + 1] = DOMAIN tries
    OBVIOUS
  <2>5. QED
    BY <1>0, <1>1, <2>3, <2>4 DEF Challenges, TryEffect
<1>3. checks' \in [Challenges -> Nat] /\ lossy' \subseteq Challenges
  <2>1. lossy \subseteq Challenges /\ c \in Challenges
    BY DEF TypeOK
  <2>2. [checks EXCEPT ![c] = @ + 1] \in [Challenges -> Nat]
    BY <1>1
  <2>3. checks' = checks \/ checks' = [checks EXCEPT ![c] = @ + 1]
    BY <1>0 DEF TryEffect
  <2>4. lossy' \subseteq lossy \cup {c}
    BY <1>0 DEF TryEffect
  <2>5. QED
    BY <1>1, <2>1, <2>2, <2>3, <2>4
<1>4. req' \in [Requests -> {Idle} \cup Creation \cup Password \cup Code]
  <2>1. [op |-> "consume", challenge |-> c] \in Code
    BY DEF Code
  <2>2. QED
    BY <1>0, <2>1, MoveTyped DEF TypeOK, TryEffect
<1>5. QED
  <2>1. UNCHANGED <<users, failed, locked, disabled, mfa, spent, raced, guesses, granted>>
    BY <1>0 DEF TryEffect, account
  <2>2. QED
    BY <1>2, <1>3, <1>4, <2>1 DEF TypeOK, Code

LEMMA CodeSlot ==
    ASSUME TypeOK, NEW r \in Requests, req[r].op \in {"consume", "clear"}
    PROVE  req[r].challenge \in Challenges
<1>1. req[r] \in {Idle} \cup Creation \cup Password \cup Code
  BY DEF TypeOK
<1>2. req[r] \in Code
  BY <1>1 DEF Idle, Creation, Password
<1>3. QED
  BY <1>2 DEF Code

LEMMA ConsumeFacts ==
    ASSUME TypeOK, NEW r \in Requests, Consume(r)
    PROVE  /\ req[r].op = "consume" /\ req[r].challenge \in Challenges
           /\ \/ /\ ~spent[req[r].challenge]
                 /\ spent' = [spent EXCEPT ![req[r].challenge] = TRUE] /\ lossy' = lossy
                 /\ Move(r, [op |-> "clear", challenge |-> req[r].challenge])
              \/ End(r) /\ spent' = spent /\ lossy' = lossy
              \/ /\ lossy' = lossy \cup {req[r].challenge} /\ spent' = spent
                 /\ Move(r, [op |-> "clear", challenge |-> req[r].challenge])
           /\ UNCHANGED <<users, account, tries, raced, guesses, checks, granted>>
BY CodeSlot DEF Consume, Mark, Skipped

LEMMA GrantFacts ==
    ASSUME TypeOK, NEW r \in Requests, Grant(r)
    PROVE  /\ req[r].op = "clear" /\ req[r].challenge \in Challenges
           /\ granted' = [granted EXCEPT ![req[r].challenge] = @ + 1]
           /\ \/ tries' = [tries EXCEPT ![req[r].challenge] = 0] /\ lossy' = lossy
              \/ tries' = tries /\ lossy' = lossy \cup {req[r].challenge}
           /\ End(r)
           /\ UNCHANGED <<users, account, spent, raced, guesses, checks>>
BY CodeSlot DEF Grant, Skipped

LEMMA ConsumeTypes ==
    ASSUME TypeOK, NEW r \in Requests, Consume(r) PROVE TypeOK'
<1> DEFINE c == req[r].challenge
<1>1. c \in Challenges
  BY ConsumeFacts
<1>2. [op |-> "clear", challenge |-> c] \in Code
  BY <1>1 DEF Code
<1>3. req' \in [Requests -> {Idle} \cup Creation \cup Password \cup Code]
  BY <1>2, ConsumeFacts, MoveTyped, IdleTyped DEF End
<1>4. spent' \in [Challenges -> BOOLEAN] /\ lossy' \subseteq Challenges
  BY <1>1, ConsumeFacts DEF TypeOK
<1>5. QED
  BY <1>3, <1>4, ConsumeFacts DEF TypeOK, account, Challenges, Code

LEMMA GrantTypes ==
    ASSUME TypeOK, NEW r \in Requests, Grant(r) PROVE TypeOK'
<1> DEFINE c == req[r].challenge
<1>1. c \in Challenges /\ c \in 1 .. Len(tries) /\ tries \in Seq(Nat)
  BY GrantFacts, ChallengesAre DEF TypeOK
<1>2. tries' \in Seq(Nat) /\ Challenges' = Challenges
  <2> HIDE DEF c
  <2>1. [tries EXCEPT ![c] = 0] \in Seq(Nat)
    BY <1>1, ExceptSeq
  <2>2. DOMAIN [tries EXCEPT ![c] = 0] = DOMAIN tries
    OBVIOUS
  <2>3. tries' = tries \/ tries' = [tries EXCEPT ![c] = 0]
    BY GrantFacts DEF c
  <2>4. QED
    BY <1>1, <2>1, <2>2, <2>3 DEF Challenges
<1>3. granted' \in [Challenges -> Nat] /\ lossy' \subseteq Challenges
  BY <1>1, GrantFacts DEF TypeOK
<1>4. req' \in [Requests -> {Idle} \cup Creation \cup Password \cup Code]
  BY GrantFacts, MoveTyped, IdleTyped DEF End
<1>5. QED
  BY <1>2, <1>3, <1>4, GrantFacts DEF TypeOK, account, Code

\* A new challenge: all that is indexed by challenges grows by one.
LEMMA IssueFacts ==
    ASSUME TypeOK, NEW r \in Requests, IssueChallenge(r)
    PROVE  /\ Challenges' = 1 .. Len(tries) + 1 /\ Challenges = 1 .. Len(tries)
           /\ Len(tries) \in Nat
           /\ tries' \in Seq(Nat) /\ spent' \in [Challenges' -> BOOLEAN]
           /\ checks' \in [Challenges' -> Nat] /\ granted' \in [Challenges' -> Nat]
           /\ \A c \in Challenges :
                /\ tries'[c] = tries[c] /\ spent'[c] = spent[c]
                /\ checks'[c] = checks[c] /\ granted'[c] = granted[c]
           /\ checks'[Len(tries) + 1] = 0 /\ granted'[Len(tries) + 1] = 0
           /\ tries'[Len(tries) + 1] = 0
           /\ End(r) /\ req[r].op = "save"
           /\ UNCHANGED <<users, account, raced, guesses, lossy>>
<1> DEFINE n == Len(tries)
<1>1. n \in Nat /\ Challenges = 1 .. n
  BY ChallengesAre
<1>1a. n \in Nat
  BY <1>1
<1>2. /\ tries \in Seq(Nat) /\ tries \in [1 .. n -> Nat] /\ spent \in [1 .. n -> BOOLEAN]
      /\ checks \in [1 .. n -> Nat] /\ granted \in [1 .. n -> Nat]
  BY <1>1, LenProperties DEF TypeOK
<1>3. /\ tries' = Append(tries, 0) /\ spent' = Append(spent, FALSE)
      /\ checks' = Append(checks, 0) /\ granted' = Append(granted, 0)
      /\ End(r) /\ req[r].op = "save"
      /\ UNCHANGED <<users, account, raced, guesses, lossy>>
  BY DEF IssueChallenge
<1> HIDE DEF n
<1>4. /\ tries' \in [1 .. n + 1 -> Nat] /\ \A i \in 1 .. n : tries'[i] = tries[i]
      /\ tries'[n + 1] = 0
  <2>1. tries \in Seq(Nat) /\ Len(tries) = n /\ 0 \in Nat
    <3>1. tries \in [1 .. n -> Nat]
      BY <1>2
    <3>2. tries \in Seq(Nat)
      BY <1>1a, <3>1, SeqDef
    <3>3. DOMAIN tries = 1 .. Len(tries) /\ Len(tries) \in Nat
      BY <3>2, LenProperties
    <3>4. QED
      BY <1>1a, <3>1, <3>2, <3>3
  <2>2. /\ Append(tries, 0) \in [1 .. n + 1 -> Nat]
        /\ \A i \in 1 .. n : Append(tries, 0)[i] = tries[i]
        /\ Append(tries, 0)[n + 1] = 0
    BY <1>1a, <2>1, AppendFacts
  <2>3. QED
    BY <1>3, <2>2
<1>5. spent' \in [1 .. n + 1 -> BOOLEAN] /\ \A i \in 1 .. n : spent'[i] = spent[i]
  <2>1. spent \in Seq(BOOLEAN) /\ Len(spent) = n /\ FALSE \in BOOLEAN
    <3>1. spent \in [1 .. n -> BOOLEAN]
      BY <1>2
    <3>2. spent \in Seq(BOOLEAN)
      BY <1>1a, <3>1, SeqDef
    <3>3. DOMAIN spent = 1 .. Len(spent) /\ Len(spent) \in Nat
      BY <3>2, LenProperties
    <3>4. QED
      BY <1>1a, <3>1, <3>2, <3>3
  <2>2. /\ Append(spent, FALSE) \in [1 .. n + 1 -> BOOLEAN]
        /\ \A i \in 1 .. n : Append(spent, FALSE)[i] = spent[i]
        /\ Append(spent, FALSE)[n + 1] = FALSE
    <3>1. /\ Append(spent, FALSE) \in [1 .. Len(spent) + 1 -> BOOLEAN]
          /\ \A i \in 1 .. Len(spent) : Append(spent, FALSE)[i] = spent[i]
          /\ Append(spent, FALSE)[Len(spent) + 1] = FALSE
      BY <2>1, AppendFacts, Zenon
    <3>2. QED
      BY <2>1, <3>1, Zenon
  <2>3. QED
    BY <1>3, <2>2
<1>6. /\ checks' \in [1 .. n + 1 -> Nat] /\ \A i \in 1 .. n : checks'[i] = checks[i]
      /\ checks'[n + 1] = 0
  <2>1. checks \in Seq(Nat) /\ Len(checks) = n /\ 0 \in Nat
    <3>1. checks \in [1 .. n -> Nat]
      BY <1>2
    <3>2. checks \in Seq(Nat)
      BY <1>1a, <3>1, SeqDef
    <3>3. DOMAIN checks = 1 .. Len(checks) /\ Len(checks) \in Nat
      BY <3>2, LenProperties
    <3>4. QED
      BY <1>1a, <3>1, <3>2, <3>3
  <2>2. /\ Append(checks, 0) \in [1 .. n + 1 -> Nat]
        /\ \A i \in 1 .. n : Append(checks, 0)[i] = checks[i]
        /\ Append(checks, 0)[n + 1] = 0
    BY <1>1a, <2>1, AppendFacts
  <2>3. QED
    BY <1>3, <2>2
<1>7. /\ granted' \in [1 .. n + 1 -> Nat] /\ \A i \in 1 .. n : granted'[i] = granted[i]
      /\ granted'[n + 1] = 0
  <2>1. granted \in Seq(Nat) /\ Len(granted) = n /\ 0 \in Nat
    <3>1. granted \in [1 .. n -> Nat]
      BY <1>2
    <3>2. granted \in Seq(Nat)
      BY <1>1a, <3>1, SeqDef
    <3>3. DOMAIN granted = 1 .. Len(granted) /\ Len(granted) \in Nat
      BY <3>2, LenProperties
    <3>4. QED
      BY <1>1a, <3>1, <3>2, <3>3
  <2>2. /\ Append(granted, 0) \in [1 .. n + 1 -> Nat]
        /\ \A i \in 1 .. n : Append(granted, 0)[i] = granted[i]
        /\ Append(granted, 0)[n + 1] = 0
    BY <1>1a, <2>1, AppendFacts
  <2>3. QED
    BY <1>3, <2>2
<1>8. Challenges' = 1 .. n + 1
  BY <1>4 DEF Challenges
<1>9. tries' \in Seq(Nat)
  BY <1>2, <1>3, AppendProperties
<1>10. QED
  BY <1>1, <1>3, <1>4, <1>5, <1>6, <1>7, <1>8, <1>9 DEF n

LEMMA IssueTypes ==
    ASSUME TypeOK, NEW r \in Requests, IssueChallenge(r) PROVE TypeOK'
<1>1. req' \in [Requests -> {Idle} \cup Creation \cup Password \cup Code]
  BY IssueFacts, MoveTyped, IdleTyped DEF End
<1>2. Challenges \subseteq Challenges'
  BY IssueFacts
<1>3. Code \subseteq Code'
  BY <1>2 DEF Code
<1>4. QED
  BY <1>1, <1>2, <1>3, IssueFacts DEF TypeOK, account

LEMMA FinishTypes ==
    ASSUME TypeOK, NEW r \in Requests, FinishCreate(r)
    PROVE  TypeOK' /\ req[r] \in Creation /\ req[r].user \in User
<1>1. req[r] \in {Idle} \cup Creation \cup Password \cup Code
  BY DEF TypeOK
<1>2. req[r] \in Creation
  BY <1>1 DEF FinishCreate, Idle, Password, Code
<1>3. req[r].user \in User
  BY <1>2 DEF Creation
<1>4. users' \in Seq(User)
  BY <1>3, AppendProperties DEF TypeOK, FinishCreate
<1>5. req' \in [Requests -> {Idle} \cup Creation \cup Password \cup Code]
  BY MoveTyped, IdleTyped DEF FinishCreate, End
<1>6. QED
  BY <1>2, <1>3, <1>4, <1>5 DEF TypeOK, FinishCreate, account, keys, counts, Challenges, Code

\* The steps that change neither accounts nor challenges.
Passing(r) == StartLogin(r) \/ WrongPassword(r) \/ RightPassword(r) \/ PasswordSession(r)

LEMMA PassingFacts ==
    ASSUME TypeOK, NEW r \in Requests, Passing(r)
    PROVE  /\ \E request \in {Idle} \cup Password : Move(r, request)
           /\ req[r].op \in {"idle", "compare", "save"}
           /\ UNCHANGED <<users, keys, raced, counts>>
<1>1. {[op |-> "compare"], [op |-> "save"]} \subseteq Password
  BY DEF Password
<1>2. CASE StartLogin(r)
  <2>1. Begin(r, [op |-> "compare"])
        /\ UNCHANGED <<users, keys, raced, counts>>
    BY <1>2 DEF StartLogin
  <2>2. Move(r, [op |-> "compare"]) /\ req[r] = Idle
    BY <2>1, BeginIsMove
  <2>3. QED
    BY <1>1, <2>1, <2>2 DEF Idle
<1>3. CASE WrongPassword(r)
  BY <1>3 DEF WrongPassword, End
<1>4. CASE RightPassword(r)
  BY <1>1, <1>4 DEF RightPassword
<1>5. CASE PasswordSession(r)
  BY <1>5 DEF PasswordSession, End
<1>6. QED
  BY <1>2, <1>3, <1>4, <1>5 DEF Passing

LEMMA PassingTypes ==
    ASSUME TypeOK, NEW r \in Requests, Passing(r) PROVE TypeOK'
<1>1. req' \in [Requests -> {Idle} \cup Creation \cup Password \cup Code]
  BY PassingFacts, MoveTyped
<1>2. failed' \in Nat /\ guesses' \in Nat /\ locked' \in BOOLEAN /\ disabled' \in BOOLEAN /\ mfa' \in BOOLEAN
  <2>0. /\ failed \in Nat /\ guesses \in Nat /\ locked \in BOOLEAN /\ disabled \in BOOLEAN
        /\ mfa \in BOOLEAN
    BY DEF TypeOK
  <2>1. CASE StartLogin(r) \/ PasswordSession(r)
    BY <2>0, <2>1 DEF StartLogin, PasswordSession, account
  <2>2. CASE RightPassword(r)
    BY <2>0, <2>2 DEF RightPassword
  <2>3. CASE WrongPassword(r)
    <3>1. /\ failed' = failed + 1 /\ guesses' = guesses + 1 /\ UNCHANGED <<disabled, mfa>>
          /\ locked' = (locked \/ failed' >= FailLimit)
      BY <2>3 DEF WrongPassword, Locks
    <3>2. locked' \in BOOLEAN
      BY <3>1, Zenon
    <3>3. QED
      BY <2>0, <3>1, <3>2
  <2>4. QED
    BY <2>1, <2>2, <2>3 DEF Passing
<1>3. QED
  BY <1>1, <1>2, PassingFacts DEF TypeOK, keys, counts, Challenges, Code

\* The steps of no request.
Elsewhere == (\E value \in BOOLEAN : Disable(value)) \/ EnableMfa \/ LockEnds

LEMMA ElsewhereFacts ==
    ASSUME TypeOK, Elsewhere
    PROVE  TypeOK' /\ UNCHANGED <<users, req, keys, raced, counts>>
<1>1. UNCHANGED <<users, req, keys, raced, counts, failed>>
  BY DEF Elsewhere, Disable, EnableMfa, LockEnds
<1>2. locked' \in BOOLEAN /\ disabled' \in BOOLEAN /\ mfa' \in BOOLEAN /\ guesses' \in Nat
  <2>1. locked \in BOOLEAN /\ disabled \in BOOLEAN /\ mfa \in BOOLEAN /\ guesses \in Nat
    BY DEF TypeOK
  <2>2. CASE \E value \in BOOLEAN : Disable(value)
    BY <2>1, <2>2 DEF Disable
  <2>3. CASE EnableMfa
    BY <2>1, <2>3 DEF EnableMfa
  <2>4. CASE LockEnds
    BY <2>1, <2>4 DEF LockEnds
  <2>5. QED
    BY <2>2, <2>3, <2>4 DEF Elsewhere
<1>3. QED
  BY <1>1, <1>2 DEF TypeOK, keys, counts, Challenges, Code

Creates(r) == \E user \in User :
    /\ StartCreate(r, user)
    /\ user.owner => users = <<>>
    /\ \A i \in DOMAIN users : users[i].email # user.email

LEMMA CreatesFacts ==
    ASSUME NEW r \in Requests, NEW email \in Emails,
           CreateOwner(r, email) \/ CreateUser(r, email)
    PROVE  Creates(r)
<1>1. CASE CreateOwner(r, email)
  <2> DEFINE user == [email |-> email, owner |-> TRUE]
  <2>1. user \in User /\ user.email = email /\ user.owner
    BY DEF User
  <2>2. DOMAIN <<>> = {}
    OBVIOUS
  <2>3. StartCreate(r, user) /\ users = <<>>
    BY <1>1 DEF CreateOwner, SetupOpen
  <2>4. QED
    <3> HIDE DEF user
    <3>1. QED
      BY <2>1, <2>2, <2>3 DEF Creates
<1>2. CASE CreateUser(r, email)
  <2> DEFINE user == [email |-> email, owner |-> FALSE]
  <2>1. user \in User /\ user.email = email /\ ~user.owner
    BY DEF User
  <2>2. StartCreate(r, user) /\ \A i \in DOMAIN users : users[i].email # email
    BY <1>2 DEF CreateUser
  <2>3. QED
    <3> HIDE DEF user
    <3>1. QED
      BY <2>1, <2>2 DEF Creates
<1>3. QED
  BY <1>1, <1>2

LEMMA NextIs ==
    ASSUME Next
    PROVE  \/ \E r \in Requests :
                \/ Creates(r) \/ FinishCreate(r) \/ Passing(r) \/ IssueChallenge(r)
                \/ \E c \in Challenges, good \in BOOLEAN : Try(r, c, good)
                \/ Consume(r) \/ Grant(r)
           \/ Elsewhere
BY CreatesFacts DEF Next, Passing, Elsewhere

LEMMA TypesStep == TypeOK /\ [Next]_vars => TypeOK'
<1> SUFFICES ASSUME TypeOK, [Next]_vars PROVE TypeOK'
  OBVIOUS
<1>1. CASE UNCHANGED vars
  BY <1>1 DEF vars, account, keys, counts, TypeOK, Challenges, Code
<1>2. ASSUME NEW r \in Requests, Creates(r) PROVE TypeOK'
  BY <1>2, StartCreateTypes DEF Creates
<1>3. QED
  BY <1>1, <1>2, NextIs, FinishTypes, PassingTypes, IssueTypes, TryTypes, ConsumeTypes,
     GrantTypes, ElsewhereFacts

\* Every variable keeps to its type, whatever the requests do between their awaits.
THEOREM TypesHold == Spec => []TypeOK
<1>1. Init => TypeOK
  <2>1. <<>> \in Seq(User) /\ <<>> \in Seq(Nat) /\ DOMAIN <<>> = {}
    BY EmptySeq
  <2>2. \A S : <<>> \in [{} -> S]
    OBVIOUS
  <2> SUFFICES ASSUME Init PROVE TypeOK
    OBVIOUS
  <2>4. Challenges = {}
    <3>1. tries = <<>>
      BY DEF Init
    <3>2. QED
      BY <2>1, <3>1 DEF Challenges
  <2>5. spent \in [Challenges -> BOOLEAN] /\ checks \in [Challenges -> Nat] /\ granted \in [Challenges -> Nat]
    BY <2>2, <2>4 DEF Init
  <2>6. QED
    BY <2>1, <2>5 DEF Init, TypeOK
<1>2. QED
  BY <1>1, TypesStep, PTL DEF Spec

-----------------------------------------------------------------------------
(* Codes and sessions of a challenge *)

Clearing(r, c) == req[r].op = "clear" /\ req[r].challenge = c

\* A challenge none of whose commands was skipped: its sessions and requests past
\* the marker are one at most, the marker is set before them, and as long as it is
\* not, the counter has counted every code.
ChallengeInv ==
    \A c \in Challenges \ lossy :
        /\ checks[c] <= TryLimit \/ spent[c]
        /\ ~spent[c] => checks[c] <= tries[c]
        /\ granted[c] >= 1 => granted[c] = 1 /\ spent[c] /\ \A r \in Requests : ~Clearing(r, c)
        /\ \A r \in Requests : Clearing(r, c) => spent[c]
        /\ \A r, q \in Requests : Clearing(r, c) /\ Clearing(q, c) => r = q

LEMMA ChallengeKept ==
    ASSUME ChallengeInv, UNCHANGED <<keys, counts>>,
           \A r \in Requests, c \in Challenges : Clearing(r, c)' => Clearing(r, c)
    PROVE  ChallengeInv'
BY DEF ChallengeInv, keys, counts, Challenges

LEMMA IssueKeeps ==
    ASSUME TypeOK, ChallengeInv, NEW r \in Requests, IssueChallenge(r) PROVE ChallengeInv'
<1>0. PICK n : n = Len(tries) + 1
  OBVIOUS
<1>1. /\ Challenges' = Challenges \cup {n} /\ lossy' = lossy
      /\ checks'[n] = 0 /\ granted'[n] = 0 /\ tries'[n] = 0 /\ n \notin Challenges
  <2>1. Len(tries) \in Nat /\ Challenges = 1 .. Len(tries) /\ Challenges' = 1 .. Len(tries) + 1
    BY IssueFacts
  <2>2. QED
    BY <1>0, <2>1, IssueFacts
<1>2. \A q \in Requests : req'[q] = req[q] \/ req'[q] = Idle
  BY IssueFacts DEF End, Move, TypeOK
<1>3. \A q \in Requests : req[q].op \in {"consume", "clear"} => req[q].challenge \in Challenges
  BY CodeSlot
<1>4. \A q \in Requests, c \in Challenges' : Clearing(q, c)' => Clearing(q, c) /\ c \in Challenges
  BY <1>2, <1>3 DEF Clearing, Idle
<1>5. ASSUME NEW c \in Challenges \ lossy
      PROVE  /\ checks'[c] <= TryLimit \/ spent'[c]
             /\ ~spent'[c] => checks'[c] <= tries'[c]
             /\ granted'[c] >= 1 => granted'[c] = 1 /\ spent'[c] /\ \A q \in Requests : ~Clearing(q, c)'
             /\ \A q \in Requests : Clearing(q, c)' => spent'[c]
             /\ \A p, q \in Requests : Clearing(p, c)' /\ Clearing(q, c)' => p = q
  <2>1. tries'[c] = tries[c] /\ spent'[c] = spent[c] /\ checks'[c] = checks[c] /\ granted'[c] = granted[c]
    BY IssueFacts
  <2>2. c \in Challenges'
    BY <1>1
  <2>3. QED
    BY <1>4, <2>1, <2>2 DEF ChallengeInv
<1>6. \A q \in Requests : ~Clearing(q, n)'
  BY <1>1, <1>4
<1>7. 0 <= TryLimit
  BY LimitsAssumption
<1>8. QED
  BY <1>1, <1>5, <1>6, <1>7 DEF ChallengeInv

LEMMA TryKeeps ==
    ASSUME TypeOK, ChallengeInv,
           NEW r \in Requests, NEW c \in Challenges, NEW good \in BOOLEAN, Try(r, c, good)
    PROVE  ChallengeInv'
<1>1. TryEffect(r, c)
  BY TryFacts
<1>2. /\ tries \in [Challenges -> Nat] /\ checks \in [Challenges -> Nat]
      /\ spent \in [Challenges -> BOOLEAN] /\ granted \in [Challenges -> Nat]
  BY LenProperties DEF TypeOK, Challenges
<1>3. Challenges' = Challenges
  BY <1>1, <1>2 DEF TryEffect, Challenges
<1>4. \A q \in Requests, d \in Challenges : Clearing(q, d)' => Clearing(q, d)
  <2>1. CASE req' = req
    BY <2>1 DEF Clearing
  <2>2. CASE Move(r, [op |-> "consume", challenge |-> c])
    BY <2>2 DEF Move, Clearing, TypeOK
  <2>3. QED
    BY <1>1, <2>1, <2>2 DEF TryEffect
<1>5. spent' = spent /\ granted' = granted /\ lossy \subseteq lossy'
  BY <1>1 DEF TryEffect
<1>6. ASSUME NEW d \in Challenges \ lossy'
      PROVE  /\ checks'[d] <= TryLimit \/ spent'[d]
             /\ ~spent'[d] => checks'[d] <= tries'[d]
  <2>1. /\ checks[d] <= TryLimit \/ spent[d]
        /\ ~spent[d] => checks[d] <= tries[d]
    BY <1>5 DEF ChallengeInv
  <2>2. CASE c # d
    BY <1>1, <1>2, <1>5, <2>1, <2>2 DEF TryEffect
  <2>3. CASE c = d
    <3>1. /\ tries' = [tries EXCEPT ![d] = tries[d] + 1]
          /\ checks' = IF tries[d] + 1 <= TryLimit THEN [checks EXCEPT ![d] = @ + 1] ELSE checks
      BY <1>1, <2>3 DEF TryEffect, Allowed
    <3>2. tries'[d] = tries[d] + 1
      BY <1>2, <3>1
    <3>3. CASE tries[d] + 1 <= TryLimit
      <4>1. checks'[d] = checks[d] + 1
        BY <1>2, <3>1, <3>3
      <4>2. tries[d] \in Nat /\ checks[d] \in Nat /\ TryLimit \in Nat
        BY <1>2, LimitsAssumption
      <4>3. QED
        BY <1>5, <2>1, <3>2, <3>3, <4>1, <4>2
    <3>4. CASE ~(tries[d] + 1 <= TryLimit)
      <4>1. checks'[d] = checks[d] /\ tries[d] \in Nat /\ checks[d] \in Nat
        BY <1>2, <3>1, <3>4
      <4>2. QED
        BY <1>5, <2>1, <3>2, <4>1
    <3>5. QED
      BY <3>3, <3>4
  <2>4. QED
    BY <2>2, <2>3
<1>7. QED
  BY <1>3, <1>4, <1>5, <1>6 DEF ChallengeInv

LEMMA ConsumeKeeps ==
    ASSUME TypeOK, ChallengeInv, NEW r \in Requests, Consume(r) PROVE ChallengeInv'
<1> DEFINE c == req[r].challenge
<1>1. /\ req[r].op = "consume" /\ c \in Challenges
      /\ UNCHANGED <<tries, checks, granted>>
  BY ConsumeFacts
<1>2. Challenges' = Challenges
  BY <1>1 DEF Challenges
<1>3. spent \in [Challenges -> BOOLEAN] /\ req \in [Requests -> {Idle} \cup Creation \cup Password \cup Code]
  BY DEF TypeOK
<1>4. CASE /\ ~spent[c] /\ spent' = [spent EXCEPT ![c] = TRUE] /\ lossy' = lossy
           /\ Move(r, [op |-> "clear", challenge |-> c])
  <2>1. spent'[c] /\ \A d \in Challenges \ {c} : spent'[d] = spent[d]
    BY <1>1, <1>3, <1>4
  <2>2. \A q \in Requests, d \in Challenges : Clearing(q, d)' => (q = r /\ d = c) \/ Clearing(q, d)
    BY <1>3, <1>4 DEF Clearing, Move
  <2>3. c \notin lossy => granted[c] < 1 /\ \A q \in Requests : ~Clearing(q, c)
    <3>1. granted[c] \in Nat
      BY <1>1 DEF TypeOK
    <3>2. QED
      BY <1>1, <1>4, <3>1 DEF ChallengeInv
  <2>4. granted[c] \in Nat
    BY <1>1 DEF TypeOK
  <2>5. ASSUME NEW d \in Challenges \ lossy
        PROVE  /\ checks[d] <= TryLimit \/ spent'[d]
               /\ ~spent'[d] => checks[d] <= tries[d]
               /\ granted[d] >= 1 => granted[d] = 1 /\ spent'[d] /\ \A q \in Requests : ~Clearing(q, d)'
               /\ \A q \in Requests : Clearing(q, d)' => spent'[d]
               /\ \A p, q \in Requests : Clearing(p, d)' /\ Clearing(q, d)' => p = q
    <3>1. CASE d = c
      BY <2>1, <2>2, <2>3, <2>4, <3>1
    <3>2. CASE d # c
      BY <2>1, <2>2, <3>2 DEF ChallengeInv
    <3>3. QED
      BY <3>1, <3>2
  <2>6. QED
    BY <1>1, <1>2, <1>4, <2>5 DEF ChallengeInv
<1>5. CASE End(r) /\ spent' = spent /\ lossy' = lossy
  <2>1. \A q \in Requests, d \in Challenges : Clearing(q, d)' => Clearing(q, d)
    BY <1>3, <1>5 DEF Clearing, End, Move, Idle
  <2>2. QED
    BY <1>1, <1>5, <2>1, ChallengeKept DEF keys, counts
<1>6. CASE /\ lossy' = lossy \cup {c} /\ spent' = spent
           /\ Move(r, [op |-> "clear", challenge |-> c])
  <2>1. \A q \in Requests, d \in Challenges \ {c} : Clearing(q, d)' => Clearing(q, d)
    BY <1>3, <1>6 DEF Clearing, Move
  <2>2. QED
    BY <1>1, <1>2, <1>6, <2>1 DEF ChallengeInv
<1>7. QED
  BY <1>4, <1>5, <1>6, ConsumeFacts

LEMMA GrantKeeps ==
    ASSUME TypeOK, ChallengeInv, NEW r \in Requests, Grant(r) PROVE ChallengeInv'
<1> DEFINE c == req[r].challenge
<1>1. /\ req[r].op = "clear" /\ c \in Challenges
      /\ granted' = [granted EXCEPT ![c] = @ + 1] /\ End(r)
      /\ \/ tries' = [tries EXCEPT ![c] = 0] /\ lossy' = lossy
         \/ tries' = tries /\ lossy' = lossy \cup {c}
      /\ UNCHANGED <<spent, checks>>
  BY GrantFacts
<1>2. /\ tries \in [Challenges -> Nat] /\ checks \in [Challenges -> Nat]
      /\ granted \in [Challenges -> Nat]
      /\ req \in [Requests -> {Idle} \cup Creation \cup Password \cup Code]
  BY LenProperties DEF TypeOK, Challenges
<1>3. Challenges' = Challenges
  BY <1>1, <1>2 DEF Challenges
<1>4. Clearing(r, c)
  BY <1>1 DEF Clearing
<1>5. \A q \in Requests, d \in Challenges : Clearing(q, d)' => Clearing(q, d) /\ q # r
  BY <1>1, <1>2 DEF Clearing, End, Move, Idle
<1> HIDE DEF c
<1>6. ASSUME NEW d \in Challenges \ lossy'
      PROVE  /\ checks[d] <= TryLimit \/ spent[d]
             /\ ~spent[d] => checks[d] <= tries'[d]
             /\ granted'[d] >= 1 => granted'[d] = 1 /\ spent[d] /\ \A q \in Requests : ~Clearing(q, d)'
             /\ \A q \in Requests : Clearing(q, d)' => spent[d]
             /\ \A p, q \in Requests : Clearing(p, d)' /\ Clearing(q, d)' => p = q
  <2>1. d \in Challenges \ lossy
    BY <1>1
  <2>2. CASE d # c
    <3>1. tries'[d] = tries[d] /\ granted'[d] = granted[d]
      BY <1>1, <1>2, <2>2
    <3>2. QED
      BY <1>5, <2>1, <3>1 DEF ChallengeInv
  <2>3. CASE d = c
    <3>1. spent[d] /\ \A q \in Requests : Clearing(q, d) => q = r
      BY <1>4, <2>1, <2>3 DEF ChallengeInv
    <3>2. ~(granted[d] >= 1)
      BY <1>4, <2>1, <2>3 DEF ChallengeInv
    <3>3. granted'[d] = 1
      <4>1. granted[d] \in Nat /\ granted'[d] = granted[d] + 1
        BY <1>1, <1>2, <2>3
      <4>2. QED
        BY <3>2, <4>1
    <3>4. QED
      BY <1>5, <3>1, <3>3
  <2>4. QED
    BY <2>2, <2>3
<1>7. QED
  BY <1>1, <1>3, <1>6 DEF ChallengeInv

LEMMA ChallengeStep == TypeOK /\ ChallengeInv /\ [Next]_vars => ChallengeInv'
<1> SUFFICES ASSUME TypeOK, ChallengeInv, [Next]_vars PROVE ChallengeInv'
  OBVIOUS
<1>1. ASSUME NEW r \in Requests, Creates(r) \/ FinishCreate(r) \/ Passing(r) PROVE ChallengeInv'
  <2>1. \E request \in {Idle} \cup Creation \cup Password : Move(r, request)
    <3>1. CASE Creates(r)
      <4>1. PICK user \in User : StartCreate(r, user)
        BY <3>1 DEF Creates
      <4>2. [op |-> "create", user |-> user] \in Creation
        BY DEF Creation
      <4>3. QED
        BY <4>1, <4>2, BeginIsMove DEF StartCreate
    <3>2. CASE FinishCreate(r)
      BY <3>2 DEF FinishCreate, End
    <3>3. CASE Passing(r)
      BY <3>3, PassingFacts
    <3>4. QED
      BY <1>1, <3>1, <3>2, <3>3
  <2>2. UNCHANGED <<keys, counts>>
    BY <1>1, PassingFacts DEF Creates, StartCreate, FinishCreate
  <2>3. \A q \in Requests, c \in Challenges : Clearing(q, c)' => Clearing(q, c)
    BY <2>1 DEF Move, TypeOK, Clearing, Idle, Creation, Password
  <2>4. QED
    BY <2>2, <2>3, ChallengeKept
<1>2. CASE Elsewhere \/ UNCHANGED vars
  <2>1. UNCHANGED <<req, keys, counts>>
    BY <1>2, ElsewhereFacts DEF vars
  <2>2. QED
    BY <2>1, ChallengeKept DEF Clearing
<1>3. QED
  BY <1>1, <1>2, NextIs, IssueKeeps, TryKeeps, ConsumeKeeps, GrantKeeps

LEMMA ChallengeStart == Init => ChallengeInv
<1>1. DOMAIN <<>> = {}
  OBVIOUS
<1>2. QED
  BY <1>1 DEF Init, ChallengeInv, Challenges

\* For any number of requests between their three commands to the store, none of
\* them skipped: a challenge gives one session.
THEOREM OneSession == Spec => []OneSessionPerChallenge
<1>1. TypeOK /\ ChallengeInv => OneSessionPerChallenge
  <2>1. ASSUME TypeOK, ChallengeInv, NEW c \in Challenges, granted[c] > 1 PROVE c \in lossy
    <3>1. granted[c] \in Nat
      BY <2>1 DEF TypeOK
    <3>2. QED
      BY <2>1, <3>1 DEF ChallengeInv
  <2>2. QED
    BY <2>1 DEF OneSessionPerChallenge
<1>2. QED
  BY <1>1, ChallengeStart, ChallengeStep, TypesHold, PTL DEF Spec

\* For any limit and any requests: without a skipped command, the codes looked at
\* before a right one are no more than the limit.
THEOREM CodesLimited == Spec => []CodesBounded
<1>1. TypeOK /\ ChallengeInv => CodesBounded
  <2>1. ASSUME TypeOK, ChallengeInv, NEW c \in Challenges, checks[c] > TryLimit
        PROVE  spent[c] \/ c \in lossy
    <3>1. checks[c] \in Nat /\ TryLimit \in Nat
      BY <2>1, LimitsAssumption DEF TypeOK
    <3>2. QED
      BY <2>1, <3>1 DEF ChallengeInv
  <2>2. QED
    BY <2>1 DEF CodesBounded
<1>2. QED
  BY <1>1, ChallengeStart, ChallengeStep, TypesHold, PTL DEF Spec

-----------------------------------------------------------------------------
(* Accounts *)

\* A creation under way is of an address, and as an owner, that no account is and
\* no other creation, or it overlapped.
Alike(u, v) ==
    /\ u.email = v.email => u.email \in raced
    /\ u.owner /\ v.owner => "owner" \in raced

AccountInv ==
    /\ \A i, j \in DOMAIN users : i # j => Alike(users[i], users[j])
    /\ \A r \in Requests : req[r].op = "create" =>
         /\ \A i \in DOMAIN users : Alike(users[i], req[r].user)
         /\ \A q \in Requests : q # r /\ req[q].op = "create" => Alike(req[r].user, req[q].user)

LEMMA AccountsKept ==
    ASSUME AccountInv, UNCHANGED <<users, raced>>,
           \A r \in Requests : req'[r].op = "create" => req'[r] = req[r]
    PROVE  AccountInv'
<1>1. \A r \in Requests : req'[r].op = "create" =>
        req[r].op = "create" /\ req'[r].user = req[r].user
  OBVIOUS
<1>2. QED
  BY <1>1 DEF AccountInv, Alike

LEMMA CreatesKeep ==
    ASSUME TypeOK, AccountInv, NEW r \in Requests, Creates(r) PROVE AccountInv'
<1>1. PICK user \in User :
        /\ StartCreate(r, user)
        /\ user.owner => users = <<>>
        /\ \A i \in DOMAIN users : users[i].email # user.email
  BY DEF Creates
<1>2. /\ req[r] = Idle /\ users' = users /\ raced' = raced \cup Overlaps(user)
      /\ req'[r] = [op |-> "create", user |-> user]
      /\ \A q \in Requests \ {r} : req'[q] = req[q]
  BY <1>1 DEF StartCreate, Begin, TypeOK
<1>3. req'[r].op = "create" /\ req'[r].user = user /\ req[r].op # "create"
  BY <1>2 DEF Idle
<1>4. ASSUME NEW q \in Requests \ {r}, req[q].op = "create"
      PROVE  Alike(user, req[q].user)' /\ Alike(req[q].user, user)'
  <2>1. req[q].user \in Creating
    BY <1>4 DEF Creating
  <2>2. user.email = req[q].user.email => user.email \in Overlaps(user)
    BY <2>1 DEF Overlaps
  <2>3. user.owner /\ req[q].user.owner => "owner" \in Overlaps(user)
    BY <2>1 DEF Overlaps
  <2>4. req'[q].user = req[q].user
    BY <1>2
  <2>5. QED
    BY <1>2, <2>2, <2>3, <2>4 DEF Alike
<1>5. \A i \in DOMAIN users : ~users[i].owner \/ ~user.owner
  <2>1. DOMAIN <<>> = {}
    OBVIOUS
  <2>2. QED
    BY <1>1, <2>1
<1>6. \A i \in DOMAIN users : Alike(users[i], user)'
  BY <1>1, <1>2, <1>5 DEF Alike
<1>7. \A i, j \in DOMAIN users' : i # j => Alike(users[i], users[j])'
  BY <1>2 DEF AccountInv, Alike
<1>8. ASSUME NEW p \in Requests, req'[p].op = "create"
      PROVE  /\ \A i \in DOMAIN users' : Alike(users[i], req[p].user)'
             /\ \A q \in Requests : q # p /\ req'[q].op = "create" => Alike(req[p].user, req[q].user)'
  <2>1. CASE p = r
    <3>1. \A i \in DOMAIN users' : Alike(users[i], req[p].user)'
      BY <1>2, <1>3, <1>6, <2>1 DEF Alike
    <3>2. ASSUME NEW q \in Requests, q # p, req'[q].op = "create"
          PROVE  Alike(req[p].user, req[q].user)'
      <4>1. q \in Requests \ {r} /\ req[q].op = "create" /\ req'[q].user = req[q].user
        BY <1>2, <2>1, <3>2
      <4>2. Alike(user, req[q].user)'
        BY <1>4, <4>1
      <4>3. QED
        BY <1>3, <2>1, <4>2 DEF Alike
    <3>3. QED
      BY <3>1, <3>2
  <2>2. CASE p # r
    <3>1. req[p].op = "create" /\ req'[p] = req[p]
      BY <1>2, <1>8, <2>2
    <3>2. \A i \in DOMAIN users' : Alike(users[i], req[p].user)'
      BY <1>2, <3>1 DEF AccountInv, Alike
    <3>3. ASSUME NEW q \in Requests, q # p, req'[q].op = "create"
          PROVE  Alike(req[p].user, req[q].user)'
      <4>1. CASE q = r
        <5>1. Alike(req[p].user, user)'
          BY <1>4, <2>2, <3>1
        <5>2. QED
          BY <1>3, <4>1, <5>1 DEF Alike
      <4>2. CASE q # r
        <5>1. req'[q] = req[q] /\ req[q].op = "create"
          BY <1>2, <3>3, <4>2
        <5>2. QED
          BY <1>2, <3>1, <3>3, <5>1 DEF AccountInv, Alike
      <4>3. QED
        BY <4>1, <4>2
    <3>4. QED
      BY <3>2, <3>3
  <2>3. QED
    BY <2>1, <2>2
<1>9. QED
  BY <1>7, <1>8 DEF AccountInv

LEMMA FinishKeeps ==
    ASSUME TypeOK, AccountInv, NEW r \in Requests, FinishCreate(r) PROVE AccountInv'
<1>1. PICK user \in User : user = req[r].user
  BY FinishTypes
<1>2. /\ req[r].op = "create" /\ raced' = raced /\ users' = Append(users, user)
      /\ req'[r] = Idle /\ \A q \in Requests \ {r} : req'[q] = req[q]
  BY <1>1 DEF FinishCreate, End, Move, TypeOK
<1>3. users \in Seq(User) /\ Len(users) \in Nat /\ DOMAIN users = 1 .. Len(users)
  BY LenProperties DEF TypeOK
<1>4. /\ Len(users') = Len(users) + 1 /\ users' \in Seq(User)
      /\ \A i \in 1 .. Len(users) : users'[i] = users[i]
      /\ users'[Len(users) + 1] = user
  BY <1>2, <1>3, AppendProperties
<1>5. DOMAIN users' = 1 .. Len(users) + 1
  BY <1>4, LenProperties
<1>6. \A i \in DOMAIN users' : \/ i \in DOMAIN users /\ users'[i] = users[i]
                               \/ i = Len(users) + 1 /\ users'[i] = user
  BY <1>3, <1>4, <1>5
<1>7. \A i \in DOMAIN users : Alike(users[i], user) /\ Alike(user, users[i])
  BY <1>1, <1>2 DEF AccountInv, Alike
<1>8. \A i, j \in DOMAIN users' : i # j => Alike(users[i], users[j])'
  <2>1. ASSUME NEW i \in DOMAIN users', NEW j \in DOMAIN users', i # j
        PROVE  /\ users'[i].email = users'[j].email => users'[i].email \in raced
               /\ users'[i].owner /\ users'[j].owner => "owner" \in raced
    BY <1>6, <1>7, <2>1 DEF AccountInv, Alike
  <2>2. QED
    BY <1>2, <2>1 DEF Alike
<1>9. ASSUME NEW p \in Requests, req'[p].op = "create"
      PROVE  /\ \A i \in DOMAIN users' : Alike(users[i], req[p].user)'
             /\ \A q \in Requests : q # p /\ req'[q].op = "create" => Alike(req[p].user, req[q].user)'
  <2>1. p # r /\ req[p].op = "create" /\ req'[p] = req[p]
    BY <1>2, <1>9 DEF Idle
  <2>2. Alike(user, req[p].user)
    BY <1>1, <1>2, <2>1 DEF AccountInv
  <2>3. \A i \in DOMAIN users' : Alike(users[i], req[p].user)'
    BY <1>2, <1>6, <2>1, <2>2 DEF AccountInv, Alike
  <2>4. \A q \in Requests : req'[q].op = "create" => req[q].op = "create" /\ req'[q] = req[q]
    BY <1>2 DEF Idle
  <2>5. \A q \in Requests : q # p /\ req'[q].op = "create" => Alike(req[p].user, req[q].user)'
    BY <1>2, <2>1, <2>4 DEF AccountInv, Alike
  <2>6. QED
    BY <2>3, <2>5
<1>10. QED
  BY <1>8, <1>9 DEF AccountInv

\* The steps that neither begin nor finish a creation begin none.
LEMMA OthersCreateNothing ==
    ASSUME TypeOK, NEW r \in Requests,
           \/ Passing(r) \/ IssueChallenge(r) \/ Consume(r) \/ Grant(r)
           \/ \E c \in Challenges, good \in BOOLEAN : Try(r, c, good)
    PROVE  /\ UNCHANGED <<users, raced>>
           /\ \A q \in Requests : req'[q].op = "create" => req'[q] = req[q]
<1>1. ASSUME NEW request \in {Idle} \cup Password \cup Code, Move(r, request)
      PROVE  \A q \in Requests : req'[q].op = "create" => req'[q] = req[q]
  BY <1>1 DEF Move, TypeOK, Idle, Password, Code
<1>2. CASE Passing(r)
  <2>1. PICK request \in {Idle} \cup Password : Move(r, request)
    BY <1>2, PassingFacts
  <2>2. QED
    BY <1>1, <1>2, <2>1, PassingFacts
<1>3. CASE IssueChallenge(r)
  BY <1>1, <1>3, IssueFacts DEF End
<1>4. CASE Consume(r)
  <2>1. [op |-> "clear", challenge |-> req[r].challenge] \in Code
    BY <1>4, ConsumeFacts DEF Code
  <2>2. \E request \in {Idle} \cup Password \cup Code : Move(r, request)
    BY <1>4, <2>1, ConsumeFacts DEF End
  <2>3. UNCHANGED <<users, raced>>
    BY <1>4, ConsumeFacts
  <2>4. QED
    BY <1>1, <2>2, <2>3
<1>5. CASE Grant(r)
  BY <1>1, <1>5, GrantFacts DEF End
<1>6. ASSUME NEW c \in Challenges, NEW good \in BOOLEAN, Try(r, c, good)
      PROVE  /\ UNCHANGED <<users, raced>>
             /\ \A q \in Requests : req'[q].op = "create" => req'[q] = req[q]
  <2>1. TryEffect(r, c)
    BY <1>6, TryFacts
  <2>2. [op |-> "consume", challenge |-> c] \in Code
    BY DEF Code
  <2>3. QED
    BY <1>1, <2>1, <2>2 DEF TryEffect
<1>7. QED
  BY <1>2, <1>3, <1>4, <1>5, <1>6

LEMMA AccountStep == TypeOK /\ AccountInv /\ [Next]_vars => AccountInv'
<1> SUFFICES ASSUME TypeOK, AccountInv, [Next]_vars PROVE AccountInv'
  OBVIOUS
<1>1. CASE Elsewhere \/ UNCHANGED vars
  <2>1. UNCHANGED <<users, raced, req>>
    BY <1>1, ElsewhereFacts DEF vars
  <2>2. QED
    BY <2>1, AccountsKept
<1>2. ASSUME NEW r \in Requests,
             \/ Passing(r) \/ IssueChallenge(r) \/ Consume(r) \/ Grant(r)
             \/ \E c \in Challenges, good \in BOOLEAN : Try(r, c, good)
      PROVE  AccountInv'
  BY <1>2, OthersCreateNothing, AccountsKept
<1>3. QED
  BY <1>1, <1>2, NextIs, CreatesKeep, FinishKeeps

\* For any number of requests: accounts are alike only by overlapping creations.
THEOREM Distinct == Spec => []AccountsDistinct
<1>1. Init => AccountInv
  <2>1. DOMAIN <<>> = {}
    OBVIOUS
  <2>2. QED
    BY <2>1 DEF Init, AccountInv, Idle
<1>2. AccountInv => AccountsDistinct
  BY DEF AccountInv, AccountsDistinct, Alike
<1>3. QED
  BY <1>1, <1>2, AccountStep, TypesHold, PTL DEF Spec

-----------------------------------------------------------------------------
(* Guesses *)

Comparing == {r \in Requests : req[r].op = "compare"}

\* Without a lock, the guesses since the last one are failures below the limit;
\* with one, what is being compared is all that can be added.
GuessInv ==
    /\ guesses <= failed
    /\ ~locked => guesses = 0 \/ failed < FailLimit
    /\ locked => guesses + Cardinality(Comparing) <= FailLimit - 1 + Cardinality(Requests)

LEMMA ComparingFacts ==
    /\ IsFiniteSet(Comparing) /\ Cardinality(Comparing) \in Nat
    /\ Cardinality(Requests) \in Nat
    /\ Cardinality(Comparing) <= Cardinality(Requests)
<1>1. Comparing \subseteq Requests
  BY DEF Comparing
<1>2. QED
  BY <1>1, RequestsAssumption, FS_Subset, FS_CardinalityType

LEMMA GuessesKept ==
    ASSUME GuessInv, UNCHANGED <<failed, locked, guesses>>, locked => Comparing' = Comparing
    PROVE  GuessInv'
BY DEF GuessInv

LEMMA WrongKeeps ==
    ASSUME TypeOK, GuessInv, NEW r \in Requests, WrongPassword(r) PROVE GuessInv'
<1>1. /\ failed' = failed + 1 /\ guesses' = guesses + 1
      /\ locked' = (locked \/ failed' >= FailLimit)
      /\ failed \in Nat /\ guesses \in Nat /\ FailLimit \in Nat
  BY LimitsAssumption DEF WrongPassword, Locks, TypeOK
<1>2. Comparing' = Comparing \ {r} /\ r \in Comparing
  BY DEF WrongPassword, End, Move, TypeOK, Comparing, Idle
<1>3. /\ Cardinality(Comparing') = Cardinality(Comparing) - 1
      /\ Cardinality(Comparing) \in Nat /\ Cardinality(Requests) \in Nat
      /\ Cardinality(Comparing) <= Cardinality(Requests)
  BY <1>2, ComparingFacts, FS_RemoveElement
<1>4. CASE locked
  <2>1. locked'
    BY <1>1, <1>4, Zenon
  <2>2. guesses' + Cardinality(Comparing') <= FailLimit - 1 + Cardinality(Requests)
    BY <1>1, <1>3, <1>4 DEF GuessInv
  <2>3. guesses' <= failed'
    BY <1>1 DEF GuessInv
  <2>4. QED
    BY <2>1, <2>2, <2>3 DEF GuessInv
<1>5. CASE ~locked /\ failed' >= FailLimit
  <2>1. locked'
    BY <1>1, <1>5, Zenon
  <2>2. guesses' <= failed'
    BY <1>1 DEF GuessInv
  <2>3. guesses <= FailLimit - 1
    <3>1. FailLimit >= 1
      BY LimitsAssumption
    <3>2. QED
      BY <1>1, <1>5, <3>1 DEF GuessInv
  <2>4. guesses' + Cardinality(Comparing') <= FailLimit - 1 + Cardinality(Requests)
    BY <1>1, <1>3, <2>3
  <2>5. QED
    BY <2>1, <2>2, <2>4 DEF GuessInv
<1>6. CASE ~locked /\ ~(failed' >= FailLimit)
  <2>1. ~locked'
    BY <1>1, <1>6, Zenon
  <2>2. failed' < FailLimit /\ guesses' <= failed'
    BY <1>1, <1>6 DEF GuessInv
  <2>3. QED
    BY <2>1, <2>2 DEF GuessInv
<1>7. QED
  BY <1>4, <1>5, <1>6

LEMMA ForgivenKeeps ==
    ASSUME TypeOK, guesses' = 0, locked' = FALSE, failed' \in Nat PROVE GuessInv'
BY DEF GuessInv

\* A step of a slot that is not comparing, and does not begin to while the account
\* is locked, leaves the comparisons.
LEMMA MoveCompares ==
    ASSUME TypeOK, NEW r \in Requests, NEW request, Move(r, request),
           req[r].op # "compare", request.op # "compare"
    PROVE  Comparing' = Comparing
BY DEF Move, TypeOK, Comparing

LEMMA GuessStep == TypeOK /\ GuessInv /\ [Next]_vars => GuessInv'
<1> SUFFICES ASSUME TypeOK, GuessInv, [Next]_vars PROVE GuessInv'
  OBVIOUS
<1>1. CASE (\E value \in BOOLEAN : Disable(value)) \/ EnableMfa \/ UNCHANGED vars
  <2>1. UNCHANGED <<req, failed, locked, guesses>>
    BY <1>1 DEF Disable, EnableMfa, vars, account
  <2>2. QED
    BY <2>1, GuessesKept DEF Comparing
<1>2. CASE LockEnds
  BY <1>2, ForgivenKeeps DEF LockEnds, TypeOK
<1>3. ASSUME NEW r \in Requests, WrongPassword(r) PROVE GuessInv'
  BY <1>3, WrongKeeps
<1>4. ASSUME NEW r \in Requests, RightPassword(r) PROVE GuessInv'
  BY <1>4, ForgivenKeeps DEF RightPassword
<1>5. ASSUME NEW r \in Requests, StartLogin(r) PROVE GuessInv'
  BY <1>5, GuessesKept DEF StartLogin, account
<1>6. ASSUME NEW r \in Requests, Creates(r) PROVE GuessInv'
  <2>1. PICK user \in User : StartCreate(r, user)
    BY <1>6 DEF Creates
  <2>2. Move(r, [op |-> "create", user |-> user]) /\ req[r] = Idle /\ UNCHANGED <<failed, locked, guesses>>
    BY <2>1, BeginIsMove DEF StartCreate, account
  <2>3. Comparing' = Comparing
    BY <2>2, MoveCompares DEF Idle
  <2>4. QED
    BY <2>2, <2>3, GuessesKept
<1>7. ASSUME NEW r \in Requests,
             FinishCreate(r) \/ IssueChallenge(r) \/ PasswordSession(r) \/ Grant(r)
      PROVE  GuessInv'
  <2>1. Move(r, Idle) /\ req[r].op # "compare" /\ UNCHANGED <<failed, locked, guesses>>
    BY <1>7 DEF FinishCreate, IssueChallenge, PasswordSession, Grant, End, account
  <2>2. Comparing' = Comparing
    BY <2>1, MoveCompares DEF Idle
  <2>3. QED
    BY <2>1, <2>2, GuessesKept
<1>8. ASSUME NEW r \in Requests, Consume(r) PROVE GuessInv'
  <2>1. /\ req[r].op = "consume" /\ UNCHANGED <<failed, locked, guesses>>
        /\ \/ Move(r, Idle)
           \/ Move(r, [op |-> "clear", challenge |-> req[r].challenge])
    BY <1>8, ConsumeFacts DEF End, account
  <2>2. Comparing' = Comparing
    BY <2>1, MoveCompares DEF Idle
  <2>3. QED
    BY <2>1, <2>2, GuessesKept
<1>9. ASSUME NEW r \in Requests, NEW c \in Challenges, NEW good \in BOOLEAN, Try(r, c, good)
      PROVE  GuessInv'
  <2>1. TryEffect(r, c)
    BY <1>9, TryFacts
  <2>2. UNCHANGED <<failed, locked, guesses>>
    BY <2>1 DEF TryEffect, account
  <2>3. CASE req' = req
    BY <2>2, <2>3, GuessesKept DEF Comparing
  <2>4. CASE Move(r, [op |-> "consume", challenge |-> c]) /\ req[r] = Idle
    <3>1. Comparing' = Comparing
      BY <2>4, MoveCompares DEF Idle
    <3>2. QED
      BY <2>2, <3>1, GuessesKept
  <2>5. QED
    BY <2>1, <2>3, <2>4 DEF TryEffect
<1>10. QED
  BY <1>1, <1>2, <1>3, <1>4, <1>5, <1>6, <1>7, <1>8, <1>9, NextIs DEF Passing, Elsewhere

\* For any number of requests and any limit: the comparisons under way when the
\* account was locked are all that a lock lets through.
THEOREM GuessesLimited == Spec => []GuessesBounded
<1>1. Init => GuessInv
  BY DEF Init, GuessInv
<1>2. TypeOK /\ GuessInv => GuessesBounded
  <2>1. SUFFICES ASSUME TypeOK, GuessInv PROVE guesses <= FailLimit - 1 + Cardinality(Requests)
    BY DEF GuessesBounded
  <2>2. /\ guesses \in Nat /\ failed \in Nat /\ FailLimit \in Nat \ {0}
        /\ Cardinality(Comparing) \in Nat /\ Cardinality(Requests) \in Nat
    BY <2>1, ComparingFacts, LimitsAssumption DEF TypeOK
  <2>3. CASE locked
    BY <2>1, <2>2, <2>3 DEF GuessInv
  <2>4. CASE ~locked
    BY <2>1, <2>2, <2>4 DEF GuessInv
  <2>5. QED
    BY <2>3, <2>4
<1>3. QED
  BY <1>1, <1>2, GuessStep, TypesHold, PTL DEF Spec
=============================================================================
