------------------------------ MODULE AuthProofs ------------------------------
(***************************************************************************)
(* Proofs about logins, for any number of logins, browsers, providers and   *)
(* accounts.                                                               *)
(***************************************************************************)
EXTENDS AuthProps, TLAPS

(* Types. *)

\* A login under way is with a provider that is registered.
Started == \A l \in Logins : pc[l] \notin {"login", "done"} => input[l].provider \in Registered

TypeInv == TypeOK /\ Started

LEMMA AccountTypes ==
    ASSUME TypeOK, NEW l \in Logins
    PROVE  /\ input[l] \in Inputs
           /\ input[l].browser \in Browsers /\ input[l].provider \in Providers
           /\ input[l].id \in Subjects /\ input[l].email \in Emails
           /\ VerifiedEmail(input[l]) \in Emails \cup {NoEmail}
BY AccountsAssumption DEF TypeOK, Accounts, VerifiedEmail

LEMMA RespondTypes ==
    ASSUME TypeInv, NEW l \in Logins, NEW status \in Statuses, Respond(l, status),
           UNCHANGED <<input, refreshed, tables>>,
           cookie' \in [Browsers -> [Providers -> Logins \cup {NoLogin}]],
           token' \in [Logins -> SUBSET Claims]
    PROVE  TypeInv'
BY DEF TypeInv, TypeOK, Started, Respond, PCs, tables

LEMMA TypeInit == Init => TypeInv
BY DEF Init, TypeInv, TypeOK, Started, PCs, Statuses

LEMMA TypeStep == TypeInv /\ [Next]_vars => TypeInv'
<1> SUFFICES ASSUME TypeInv, [Next]_vars PROVE TypeInv'
  OBVIOUS
<1>1. ASSUME NEW l \in Logins, LoginURL(l) PROVE TypeInv'
  <2>1. CASE input[l].provider \in Registered
    <3> DEFINE b == input[l].browser
               p == input[l].provider
    <3>1. b \in Browsers /\ p \in Providers BY AccountTypes DEF TypeInv
    <3>2. /\ cookie \in [Browsers -> [Providers -> Logins \cup {NoLogin}]]
          /\ cookie' = [cookie EXCEPT ![b] = [cookie[b] EXCEPT ![p] = l]]
      BY <1>1, <2>1 DEF LoginURL, SaveState, TypeInv, TypeOK
    <3> HIDE DEF b, p
    <3>3. cookie' \in [Browsers -> [Providers -> Logins \cup {NoLogin}]]
      BY <3>1, <3>2
    <3> QED BY <1>1, <2>1, <3>3 DEF LoginURL, Goto, TypeInv, TypeOK, Started, PCs, tables
  <2>2. CASE input[l].provider \notin Registered
    BY <1>1, <2>2, RespondTypes DEF LoginURL, Statuses, TypeInv, TypeOK
  <2> QED BY <2>1, <2>2
<1>2. ASSUME NEW l \in Logins, Callback(l) PROVE TypeInv'
  <2>1. PICK b \in Browsers :
           IF SavedState(b, l)
           THEN at' = [at EXCEPT ![l] = b] /\ Goto(l, "exchange") /\ UNCHANGED user
           ELSE Respond(l, IF cookie[b][input[l].provider] = NoLogin THEN "500" ELSE "401")
    BY <1>2 DEF Callback
  <2>2. pc[l] = "redirected" /\ UNCHANGED <<input, cookie, tables, token, refreshed>>
    BY <1>2 DEF Callback
  <2>3. CASE SavedState(b, l)
    BY <2>1, <2>2, <2>3 DEF Goto, TypeInv, TypeOK, Started, PCs, tables
  <2>4. CASE ~SavedState(b, l)
    BY <2>1, <2>2, <2>4, RespondTypes DEF Statuses, TypeInv, TypeOK
  <2> QED BY <2>3, <2>4
<1>3. ASSUME NEW l \in Logins, Exchange(l) PROVE TypeInv'
  <2>1. CASE Goto(l, "getIdentity") /\ UNCHANGED <<at, user>>
    BY <1>3, <2>1 DEF Exchange, Goto, TypeInv, TypeOK, Started, PCs, tables
  <2>2. CASE \E status \in {"401", "500"} : Respond(l, status)
    BY <1>3, <2>2, RespondTypes DEF Exchange, Statuses, TypeInv, TypeOK
  <2> QED BY <1>3, <2>1, <2>2 DEF Exchange
<1>4. ASSUME NEW l \in Logins, FindIdentity(l) PROVE TypeInv'
  BY <1>4 DEF FindIdentity, GetIdentity, Goto, IdentityRows, TypeInv, TypeOK, Started,
              PCs, tables
<1>5. ASSUME NEW l \in Logins, CreateUser(l) PROVE TypeInv'
  BY <1>5 DEF CreateUser, Goto, TypeInv, TypeOK, Started, PCs
<1>6. ASSUME NEW l \in Logins, CreateUserIdentity(l) PROVE TypeInv'
  <2>1. CASE Taken(input[l])
    BY <1>6, <2>1, RespondTypes
       DEF CreateUserIdentity, Statuses, TypeInv, TypeOK, tables
  <2>2. CASE ~Taken(input[l])
    <3>1. input[l].provider \in Registered /\ user[l] \in Nat
      BY <1>6 DEF CreateUserIdentity, TypeInv, TypeOK, Started
    <3>2. IdentityRow(user[l], input[l]) \in IdentityRows
      BY <3>1, AccountTypes DEF IdentityRow, IdentityRows, TypeInv
    <3> QED BY <1>6, <2>2, <3>2
            DEF CreateUserIdentity, Goto, TypeInv, TypeOK, Started, PCs
  <2> QED BY <2>1, <2>2
<1>7. ASSUME NEW l \in Logins, ReadBack(l) PROVE TypeInv'
  BY <1>7 DEF ReadBack, GetIdentity, Goto, IdentityRows, TypeInv, TypeOK, Started, PCs,
              tables
<1>8. ASSUME NEW l \in Logins, Issue(l) PROVE TypeInv'
  <2>1. token' \in [Logins -> SUBSET Claims]
    BY <1>8 DEF Issue, IdentityRows, Claims, TypeInv, TypeOK
  <2> QED BY <1>8, <2>1, RespondTypes DEF Issue, Statuses, TypeInv, TypeOK
<1>9. ASSUME NEW l \in Logins, Refresh(l) PROVE TypeInv'
  BY <1>9 DEF Refresh, Statuses, TypeInv, TypeOK, Started, tables
<1>10. ASSUME NEW l \in Logins, Cancel(l) PROVE TypeInv'
  BY <1>10, RespondTypes DEF Cancel, Statuses, TypeInv, TypeOK
<1>11. CASE UNCHANGED vars BY <1>11 DEF vars, tables, TypeInv, TypeOK, Started
<1> QED BY <1>1, <1>2, <1>3, <1>4, <1>5, <1>6, <1>7, <1>8, <1>9, <1>10, <1>11
        DEF Next, Step, Finished

\* The tables, cookies and requests of the auth service keep their types: an identity
\* is of a registered provider, and its email is verified or empty.
THEOREM TypeCorrect == Spec => []TypeOK
<1>1. TypeInv => TypeOK BY DEF TypeInv
<1> QED BY <1>1, TypeInit, TypeStep, PTL DEF Spec

-----------------------------------------------------------------------------
(* Who is who. *)

\* What is known of the identity of a login's account.
OfAccount(row, l) == row.id = input[l].id /\ row.provider = input[l].provider

\* No two identities have one subject (the primary key), or one user; and users with
\* an identity are older than the serial.
OneRow ==
    /\ \A row \in identities : row.user < nextUser
    /\ \A x, y \in identities : x.id = y.id \/ x.user = y.user => x = y

\* The user a callback has just created is nobody else's.
Fresh ==
    \A l \in Logins : pc[l] = "createIdentity" =>
        /\ user[l] < nextUser
        /\ \A row \in identities : row.user # user[l]
        /\ \A m \in Logins \ {l} : pc[m] = "createIdentity" => user[m] # user[l]

\* The user a callback has found is the one of its account's identity.
Found ==
    \A l \in Logins : pc[l] = "issue" =>
        \E row \in identities : row.user = user[l] /\ OfAccount(row, l)

\* A token tells of the identity of its login's account, and whoever is answered
\* with success has one.
Told ==
    \A l \in Logins :
        /\ \A claims \in token[l] :
              \E row \in identities : /\ row.user = claims.user
                                      /\ row.email = claims.email
                                      /\ OfAccount(row, l)
        /\ \A c, d \in token[l] : c = d
        /\ resp[l] = "ok" => token[l] # {}

\* After the INSERT of an identity.
Registering == {"readBack", "issue", "done"}

\* An email in an identity came, verified, with a login of that account.
RowVerified ==
    \A row \in identities : row.email # NoEmail =>
        \E m \in Logins : /\ OfAccount(row, m)
                          /\ pc[m] \in Registering
                          /\ input[m].verified
                          /\ input[m].email = row.email

\* A state is saved in the browser of its login, under its provider, as long as it is
\* not overwritten by another one, and the callback runs in that browser.
AtHome ==
    /\ \A b \in Browsers, p \in Providers, l \in Logins :
          cookie[b][p] = l => /\ b = input[l].browser /\ p = input[l].provider
                              /\ pc[l] # "login"
    /\ \A l \in Logins :
          pc[l] = "redirected" => cookie[input[l].browser][input[l].provider] # NoLogin
    /\ \A l \in Logins : at[l] \in {NoBrowser, input[l].browser}
    /\ \A l \in Logins :
          pc[l] \notin {"login", "redirected", "done"} => at[l] = input[l].browser

IdInv == TypeInv /\ OneRow /\ Fresh /\ Found /\ Told /\ RowVerified /\ AtHome

LEMMA IdInit == Init => IdInv
<1> SUFFICES ASSUME Init PROVE IdInv
  OBVIOUS
<1>1. AtHome BY LoginsAssumption DEF Init, AtHome
<1> QED BY <1>1, TypeInit
        DEF Init, IdInv, OneRow, Fresh, Found, Told, RowVerified

\* Every action but two leaves the tables alone.
LEMMA TablesKept ==
    ASSUME NEW l \in Logins,
           \/ LoginURL(l) \/ Callback(l) \/ Exchange(l) \/ FindIdentity(l) \/ ReadBack(l)
           \/ Issue(l) \/ Refresh(l) \/ Cancel(l)
    PROVE  UNCHANGED <<input, users, nextUser, identities>>
BY DEF LoginURL, Callback, Exchange, FindIdentity, ReadBack, Issue, Refresh, Cancel, tables

LEMMA OneRowStep == IdInv /\ [Next]_vars => OneRow'
<1> SUFFICES ASSUME IdInv, [Next]_vars PROVE OneRow'
  OBVIOUS
<1> USE DEF IdInv
<1>1. CASE UNCHANGED <<nextUser, identities>> BY <1>1 DEF OneRow
<1>2. ASSUME NEW l \in Logins, CreateUser(l) PROVE OneRow'
  <2>1. \A row \in identities : row.user \in Nat
    BY DEF TypeInv, TypeOK, IdentityRows
  <2> QED BY <1>2, <2>1 DEF CreateUser, OneRow, TypeInv, TypeOK
<1>3. ASSUME NEW l \in Logins, CreateUserIdentity(l) PROVE OneRow'
  <2>1. CASE Taken(input[l]) BY <1>1, <1>3, <2>1 DEF CreateUserIdentity
  <2>2. CASE ~Taken(input[l])
    <3> DEFINE new == IdentityRow(user[l], input[l])
    <3>1. /\ identities' = identities \cup {new} /\ nextUser' = nextUser
          /\ new.id = input[l].id /\ new.user = user[l]
      BY <1>3, <2>2 DEF CreateUserIdentity, IdentityRow
    <3>2. user[l] < nextUser /\ \A row \in identities : row.user # user[l]
      BY <1>3 DEF CreateUserIdentity, Fresh
    <3>3. \A row \in identities : row.id # input[l].id BY <2>2 DEF Taken
    <3> HIDE DEF new
    <3> QED BY <3>1, <3>2, <3>3 DEF OneRow
  <2> QED BY <2>1, <2>2
<1> QED BY <1>1, <1>2, <1>3, TablesKept DEF Next, Step, Finished, vars, tables

LEMMA FreshStep == IdInv /\ [Next]_vars => Fresh'
<1> SUFFICES ASSUME IdInv, [Next]_vars PROVE Fresh'
  OBVIOUS
<1> USE DEF IdInv, Fresh
<1>1. ASSUME NEW l \in Logins, UNCHANGED <<nextUser, identities>>,
             pc'[l] # "createIdentity",
             \A m \in Logins \ {l} : pc'[m] = pc[m] /\ user'[m] = user[m]
      PROVE  Fresh'
  BY <1>1
<1>2. ASSUME NEW l \in Logins,
             LoginURL(l) \/ Callback(l) \/ Exchange(l) \/ FindIdentity(l)
             \/ ReadBack(l) \/ Issue(l) \/ Cancel(l)
      PROVE  Fresh'
  <2>1. pc'[l] # "createIdentity" /\ \A m \in Logins \ {l} : pc'[m] = pc[m] /\ user'[m] = user[m]
    BY <1>2 DEF LoginURL, Callback, Exchange, FindIdentity, ReadBack, Issue, Cancel,
                Goto, Respond, TypeInv, TypeOK
  <2> QED BY <1>1, <1>2, <2>1, TablesKept
<1>3. ASSUME NEW l \in Logins, CreateUser(l) PROVE Fresh'
  <2>1. \A row \in identities : row.user \in Nat /\ row.user < nextUser
    BY DEF TypeInv, TypeOK, IdentityRows, OneRow
  <2>2. \A m \in Logins : user[m] \in Nat BY DEF TypeInv, TypeOK
  <2>3. nextUser \in Nat BY DEF TypeInv, TypeOK
  <2>4. /\ nextUser' = nextUser + 1 /\ identities' = identities
        /\ user' = [user EXCEPT ![l] = nextUser]
        /\ pc' = [pc EXCEPT ![l] = "createIdentity"]
    BY <1>3 DEF CreateUser, Goto
  <2>5. user \in [Logins -> Nat] /\ pc \in [Logins -> PCs] BY DEF TypeInv, TypeOK
  <2> QED BY <2>1, <2>2, <2>3, <2>4, <2>5
<1>4. ASSUME NEW l \in Logins, CreateUserIdentity(l) PROVE Fresh'
  <2>1. CASE Taken(input[l])
    <3>1. pc'[l] # "createIdentity" /\ UNCHANGED <<nextUser, identities>>
          /\ \A m \in Logins \ {l} : pc'[m] = pc[m] /\ user'[m] = user[m]
      BY <1>4, <2>1 DEF CreateUserIdentity, Respond, TypeInv, TypeOK
    <3> QED BY <1>1, <3>1
  <2>2. CASE ~Taken(input[l])
    <3>1. /\ pc[l] = "createIdentity" /\ pc' = [pc EXCEPT ![l] = "readBack"]
          /\ user' = user /\ nextUser' = nextUser
          /\ identities' = identities \cup {IdentityRow(user[l], input[l])}
          /\ IdentityRow(user[l], input[l]).user = user[l]
      BY <1>4, <2>2 DEF CreateUserIdentity, Goto, IdentityRow
    <3>2. pc \in [Logins -> PCs] BY DEF TypeInv, TypeOK
    <3> QED BY <3>1, <3>2
  <2> QED BY <2>1, <2>2
<1>5. CASE UNCHANGED <<pc, user, nextUser, identities>> BY <1>5
<1>6. ASSUME NEW l \in Logins, Refresh(l) PROVE Fresh'
  BY <1>5, <1>6, TablesKept DEF Refresh
<1> QED BY <1>2, <1>3, <1>4, <1>5, <1>6 DEF Next, Step, Finished, vars, tables

LEMMA FoundStep == IdInv /\ [Next]_vars => Found'
<1> SUFFICES ASSUME IdInv, [Next]_vars PROVE Found'
  OBVIOUS
<1> USE DEF IdInv, Found, OfAccount
<1>1. ASSUME NEW l \in Logins, input' = input, identities \subseteq identities',
             pc'[l] # "issue",
             \A m \in Logins \ {l} : pc'[m] = pc[m] /\ user'[m] = user[m]
      PROVE  Found'
  BY <1>1
<1>2. ASSUME NEW l \in Logins,
             LoginURL(l) \/ Callback(l) \/ Exchange(l) \/ CreateUser(l)
             \/ CreateUserIdentity(l) \/ Issue(l) \/ Cancel(l)
      PROVE  Found'
  <2>1. pc'[l] # "issue" /\ \A m \in Logins \ {l} : pc'[m] = pc[m] /\ user'[m] = user[m]
    BY <1>2 DEF LoginURL, Callback, Exchange, CreateUser, CreateUserIdentity, Issue, Cancel,
                Goto, Respond, TypeInv, TypeOK
  <2>2. input' = input /\ identities \subseteq identities'
    BY <1>2, TablesKept DEF CreateUser, CreateUserIdentity
  <2> QED BY <1>1, <2>1, <2>2
<1>3. ASSUME NEW l \in Logins, FindIdentity(l) \/ ReadBack(l) PROVE Found'
  <2>1. /\ \A m \in Logins \ {l} : pc'[m] = pc[m] /\ user'[m] = user[m]
        /\ pc'[l] = "issue" => \E row \in GetIdentity(input[l]) : user'[l] = row.user
    BY <1>3 DEF FindIdentity, ReadBack, Goto, TypeInv, TypeOK
  <2>2. input' = input /\ identities' = identities BY <1>3, TablesKept
  <2> QED BY <2>1, <2>2 DEF GetIdentity
<1>4. CASE UNCHANGED <<pc, user, input, identities>> BY <1>4
<1>5. ASSUME NEW l \in Logins, Refresh(l) PROVE Found'
  BY <1>4, <1>5, TablesKept DEF Refresh
<1> QED BY <1>2, <1>3, <1>4, <1>5 DEF Next, Step, Finished, vars, tables

\* Success is answered by Issue only.
LEMMA OnlyIssue ==
    ASSUME TypeInv, NEW l \in Logins, \/ LoginURL(l) \/ Callback(l) \/ Exchange(l)
           \/ FindIdentity(l) \/ CreateUser(l) \/ CreateUserIdentity(l) \/ ReadBack(l)
           \/ Refresh(l) \/ Cancel(l)
    PROVE  token' = token /\ \A m \in Logins : resp'[m] = "ok" => resp[m] = "ok"
BY DEF LoginURL, Callback, Exchange, FindIdentity, CreateUser, CreateUserIdentity,
       ReadBack, Refresh, Cancel, Goto, Respond, TypeInv, TypeOK

LEMMA ToldStep == IdInv /\ [Next]_vars => Told'
<1> SUFFICES ASSUME IdInv, [Next]_vars PROVE Told'
  OBVIOUS
<1> USE DEF IdInv, Told, OfAccount
<1>1. ASSUME token' = token, input' = input, identities \subseteq identities',
             \A l \in Logins : resp'[l] = "ok" => resp[l] = "ok"
      PROVE  Told'
  BY <1>1
<1>2. ASSUME NEW l \in Logins, \/ LoginURL(l) \/ Callback(l) \/ Exchange(l)
             \/ FindIdentity(l) \/ CreateUser(l) \/ CreateUserIdentity(l) \/ ReadBack(l)
             \/ Refresh(l) \/ Cancel(l)
      PROVE  Told'
  <2>1. token' = token /\ \A m \in Logins : resp'[m] = "ok" => resp[m] = "ok"
    BY <1>2, OnlyIssue
  <2>2. input' = input /\ identities \subseteq identities'
    BY <1>2, TablesKept DEF CreateUser, CreateUserIdentity
  <2> QED BY <1>1, <2>1, <2>2
<1>3. ASSUME NEW l \in Logins, Issue(l) PROVE Told'
  <2>1. PICK row \in identities :
           /\ row.user = user[l]
           /\ token' = [token EXCEPT ![l] = {[user |-> row.user,
                           provider |-> row.provider, email |-> row.email]}]
    BY <1>3 DEF Issue
  <2>2. PICK own \in identities : own.user = user[l] /\ OfAccount(own, l)
    BY <1>3 DEF Issue, Found
  <2>3. row = own BY <2>1, <2>2 DEF OneRow
  <2>4. \A m \in Logins \ {l} : resp'[m] = resp[m] /\ token'[m] = token[m]
    BY <1>3, <2>1 DEF Issue, Respond, TypeInv, TypeOK
  <2>5. token'[l] = {[user |-> row.user, provider |-> row.provider, email |-> row.email]}
    BY <2>1 DEF TypeInv, TypeOK
  <2>6. input' = input /\ identities' = identities BY <1>3, TablesKept
  <2> DEFINE mine == [user |-> row.user, provider |-> row.provider, email |-> row.email]
  <2>7. mine.user = row.user /\ mine.email = row.email OBVIOUS
  <2>8. OfAccount(row, l) BY <2>2, <2>3
  <2> HIDE DEF mine
  <2>9. token'[l] = {mine} BY <2>5 DEF mine
  <2>10. ASSUME NEW m \in Logins
         PROVE  /\ \A claims \in token'[m] :
                     \E r \in identities : /\ r.user = claims.user
                                           /\ r.email = claims.email
                                           /\ OfAccount(r, m)
                /\ \A c, d \in token'[m] : c = d
                /\ resp'[m] = "ok" => token'[m] # {}
    <3>1. CASE m = l BY <2>7, <2>8, <2>9, <3>1
    <3>2. CASE m # l BY <2>4, <3>2
    <3> QED BY <3>1, <3>2
  <2> QED BY <2>6, <2>10
<1>4. CASE UNCHANGED vars BY <1>1, <1>4 DEF vars, tables
<1> QED BY <1>2, <1>3, <1>4 DEF Next, Step, Finished

LEMMA RowVerifiedStep == IdInv /\ [Next]_vars => RowVerified'
<1> SUFFICES ASSUME IdInv, [Next]_vars PROVE RowVerified'
  OBVIOUS
<1> USE DEF IdInv, RowVerified, OfAccount
<1>1. \A m \in Logins : pc[m] \in Registering => pc'[m] \in Registering
  <2>1. ASSUME NEW l \in Logins,
               \/ LoginURL(l) \/ Callback(l) \/ Step(l) \/ Refresh(l) \/ Cancel(l)
        PROVE  \A m \in Logins : pc[m] \in Registering => pc'[m] \in Registering
    BY <2>1 DEF Step, LoginURL, Callback, Exchange, FindIdentity, CreateUser,
                CreateUserIdentity, ReadBack, Issue, Refresh, Cancel, Goto, Respond,
                Registering, TypeInv, TypeOK
  <2> QED BY <2>1 DEF Next, Finished, vars
<1>2. CASE UNCHANGED <<input, identities>> BY <1>1, <1>2
<1>3. ASSUME NEW l \in Logins, CreateUserIdentity(l) PROVE RowVerified'
  <2>1. CASE Taken(input[l]) BY <1>2, <1>3, <2>1 DEF CreateUserIdentity
  <2>2. CASE ~Taken(input[l])
    <3> DEFINE new == IdentityRow(user[l], input[l])
    <3>1. /\ new.id = input[l].id /\ new.provider = input[l].provider
          /\ new.email # NoEmail => input[l].verified /\ input[l].email = new.email
      BY DEF IdentityRow, VerifiedEmail
    <3>2. input' = input /\ identities' = identities \cup {new}
      BY <1>3, <2>2 DEF CreateUserIdentity
    <3>3. pc'[l] \in Registering
      BY <1>3, <2>2 DEF CreateUserIdentity, Goto, Registering, TypeInv, TypeOK
    <3> HIDE DEF new
    <3> QED BY <1>1, <3>1, <3>2, <3>3
  <2> QED BY <2>1, <2>2
<1>4. ASSUME NEW l \in Logins, CreateUser(l) PROVE RowVerified'
  BY <1>2, <1>4 DEF CreateUser
<1> QED BY <1>2, <1>3, <1>4, TablesKept DEF Next, Step, Finished, vars, tables

LEMMA AtHomeStep == IdInv /\ [Next]_vars => AtHome'
<1> SUFFICES ASSUME IdInv, [Next]_vars PROVE AtHome'
  OBVIOUS
<1> USE DEF IdInv, AtHome
<1>1. ASSUME NEW l \in Logins, NEW status, Respond(l, status), UNCHANGED <<input, cookie>>
      PROVE  AtHome'
  BY <1>1 DEF Respond, TypeInv, TypeOK
<1>2. ASSUME NEW l \in Logins, LoginURL(l) PROVE AtHome'
  <2>1. CASE input[l].provider \notin Registered
    BY <1>1, <1>2, <2>1 DEF LoginURL
  <2>2. CASE input[l].provider \in Registered
    <3>1. /\ cookie' = [cookie EXCEPT ![input[l].browser][input[l].provider] = l]
          /\ pc' = [pc EXCEPT ![l] = "redirected"] /\ UNCHANGED <<input, at>>
      BY <1>2, <2>2 DEF LoginURL, SaveState, Goto
    <3>2. \A b \in Browsers, p \in Providers :
             \/ cookie'[b][p] = cookie[b][p]
             \/ cookie'[b][p] = l /\ b = input[l].browser /\ p = input[l].provider
      BY <3>1 DEF TypeInv, TypeOK
    <3>3. cookie'[input[l].browser][input[l].provider] = l
      BY <3>1, AccountTypes DEF TypeInv, TypeOK
    <3>4. pc'[l] = "redirected" /\ \A m \in Logins \ {l} : pc'[m] = pc[m]
      BY <3>1 DEF TypeInv, TypeOK
    <3>5. \A m \in Logins : input[m].browser \in Browsers /\ input[m].provider \in Providers
      BY AccountTypes DEF TypeInv
    <3>6. ASSUME NEW m \in Logins, pc'[m] = "redirected"
          PROVE  cookie'[input[m].browser][input[m].provider] # NoLogin
      BY <3>2, <3>3, <3>4, <3>5, <3>6, LoginsAssumption
    <3>7. \A b \in Browsers, p \in Providers, m \in Logins :
             cookie'[b][p] = m => /\ b = input[m].browser /\ p = input[m].provider
                                  /\ pc'[m] # "login"
      BY <3>2, <3>4
    <3> QED BY <3>1, <3>4, <3>6, <3>7
  <2> QED BY <2>1, <2>2
<1>3. ASSUME NEW l \in Logins, Callback(l) PROVE AtHome'
  <2>1. PICK b \in Browsers :
           IF SavedState(b, l)
           THEN at' = [at EXCEPT ![l] = b] /\ Goto(l, "exchange") /\ UNCHANGED user
           ELSE Respond(l, IF cookie[b][input[l].provider] = NoLogin THEN "500" ELSE "401")
    BY <1>3 DEF Callback
  <2>2. UNCHANGED <<input, cookie>> BY <1>3 DEF Callback
  <2>3. CASE SavedState(b, l)
    <3>1. b = input[l].browser BY <2>3, AccountTypes DEF SavedState, TypeInv
    <3> QED BY <2>1, <2>2, <2>3, <3>1 DEF Goto, TypeInv, TypeOK
  <2>4. CASE ~SavedState(b, l) BY <1>1, <2>1, <2>2, <2>4
  <2> QED BY <2>3, <2>4
<1>4. ASSUME NEW l \in Logins, pc[l] \notin {"login", "redirected", "done"},
             NEW label, label \notin {"login", "redirected"}, Goto(l, label),
             UNCHANGED <<input, cookie, at>>
      PROVE  AtHome'
  BY <1>4 DEF Goto, TypeInv, TypeOK
<1>5. ASSUME NEW l \in Logins, Exchange(l) PROVE AtHome'
  BY <1>1, <1>4, <1>5 DEF Exchange
<1>6. ASSUME NEW l \in Logins, FindIdentity(l) PROVE AtHome'
  BY <1>4, <1>6 DEF FindIdentity
<1>7. ASSUME NEW l \in Logins, CreateUser(l) PROVE AtHome'
  BY <1>4, <1>7 DEF CreateUser
<1>8. ASSUME NEW l \in Logins, CreateUserIdentity(l) PROVE AtHome'
  BY <1>1, <1>4, <1>8 DEF CreateUserIdentity
<1>9. ASSUME NEW l \in Logins, ReadBack(l) PROVE AtHome'
  BY <1>4, <1>9 DEF ReadBack
<1>10. ASSUME NEW l \in Logins, Issue(l) \/ Cancel(l) PROVE AtHome'
  BY <1>1, <1>10 DEF Issue, Cancel
<1>11. CASE UNCHANGED <<pc, input, cookie, at>> BY <1>11
<1>12. ASSUME NEW l \in Logins, Refresh(l) PROVE AtHome'
  BY <1>11, <1>12 DEF Refresh
<1> QED BY <1>2, <1>3, <1>5, <1>6, <1>7, <1>8, <1>9, <1>10, <1>11, <1>12
        DEF Next, Step, Finished, vars

LEMMA IdStep == IdInv /\ [Next]_vars => IdInv'
BY TypeStep, OneRowStep, FreshStep, FoundStep, ToldStep, RowVerifiedStep, AtHomeStep
   DEF IdInv

-----------------------------------------------------------------------------
LEMMA IdMeansOneUser == IdInv => OneUserPerAccount
<1> SUFFICES ASSUME IdInv, NEW l \in Logins, NEW m \in Logins,
                    resp[l] = "ok", resp[m] = "ok"
             PROVE  UserOf(l) = UserOf(m) <=> SameAccount(l, m)
  BY DEF OneUserPerAccount
<1>1. PICK c \in token[l], x \in identities :
         x.user = c.user /\ OfAccount(x, l) /\ \A d \in token[l] : d = c
  BY DEF IdInv, Told
<1>2. PICK c2 \in token[m], y \in identities :
         y.user = c2.user /\ OfAccount(y, m) /\ \A d \in token[m] : d = c2
  BY DEF IdInv, Told
<1>3. UserOf(l) = {x.user} /\ UserOf(m) = {y.user} BY <1>1, <1>2 DEF UserOf
<1>4. x.user = y.user <=> x = y BY DEF IdInv, OneRow
<1>5. x = y <=> SameAccount(l, m) BY <1>1, <1>2, <1>4 DEF IdInv, OneRow, OfAccount, SameAccount
<1> QED BY <1>3, <1>4, <1>5

\* Tokens of two logins name one user exactly when the logins are of one account, in
\* whatever order first logins race, fail and are tried again.
THEOREM OneUserPerAccountAlways == Spec => []OneUserPerAccount
BY IdInit, IdStep, IdMeansOneUser, PTL DEF Spec

LEMMA IdMeansVerified == IdInv => EmailWasVerified
<1> SUFFICES ASSUME IdInv, NEW l \in Logins, NEW claims \in token[l], claims.email # NoEmail
             PROVE  \E m \in Logins : /\ SameAccount(l, m)
                                      /\ pc[m] \in {"readBack", "issue", "done"}
                                      /\ input[m].verified
                                      /\ input[m].email = claims.email
  BY DEF EmailWasVerified
<1>1. PICK row \in identities : row.email = claims.email /\ OfAccount(row, l)
  BY DEF IdInv, Told
<1>2. PICK m \in Logins : /\ OfAccount(row, m) /\ pc[m] \in Registering
                          /\ input[m].verified /\ input[m].email = row.email
  BY <1>1 DEF IdInv, RowVerified
<1> QED BY <1>1, <1>2 DEF OfAccount, SameAccount, Registering

\* An email in a token was verified in some login of that account.
THEOREM EmailWasVerifiedAlways == Spec => []EmailWasVerified
BY IdInit, IdStep, IdMeansVerified, PTL DEF Spec

LEMMA IdMeansRefusedForAnother == IdInv => RefusedOnlyForAnother
<1> SUFFICES ASSUME IdInv, NEW l \in Logins, pc[l] = "redirected"
             PROVE  LET saved == cookie[input[l].browser][input[l].provider]
                    IN  /\ saved \in Logins /\ pc[saved] # "login"
                        /\ input[saved].browser = input[l].browser
                        /\ input[saved].provider = input[l].provider
  BY DEF RefusedOnlyForAnother
<1>1. input[l].browser \in Browsers /\ input[l].provider \in Providers
  BY AccountTypes DEF IdInv, TypeInv
<1>2. PICK saved : saved = cookie[input[l].browser][input[l].provider] OBVIOUS
<1>3. saved \in Logins BY <1>1, <1>2 DEF IdInv, AtHome, TypeInv, TypeOK
<1> QED BY <1>1, <1>2, <1>3 DEF IdInv, AtHome

\* A login is refused in its own browser only for the sake of another login that was
\* begun there with the same provider, however many logins share browsers and providers.
THEOREM RefusedOnlyForAnotherAlways == Spec => []RefusedOnlyForAnother
BY IdInit, IdStep, IdMeansRefusedForAnother, PTL DEF Spec

\* Only the browser that began a login is handed its tokens, whatever other tabs and
\* browsers do with the cookie and the callback.
THEOREM TokensStayInBrowserAlways == Spec => TokensStayInBrowser
<1>1. ASSUME IdInv, [Next]_vars, NEW l \in Logins, resp[l] # "ok", resp'[l] = "ok"
      PROVE  at[l] = input[l].browser
  <2>1. PICK m \in Logins : Issue(m)
    BY <1>1, OnlyIssue DEF Next, Step, Finished, vars, IdInv
  <2>2. m = l BY <1>1, <2>1 DEF Issue, Respond, IdInv, TypeInv, TypeOK
  <2> QED BY <1>1, <2>1, <2>2 DEF Issue, IdInv, AtHome
<1>2. IdInv /\ [Next]_vars =>
         [\A l \in Logins : resp[l] # "ok" /\ resp'[l] = "ok" =>
             at[l] = input[l].browser]_vars
  BY <1>1
<1> QED BY <1>2, IdInit, IdStep, PTL DEF Spec, TokensStayInBrowser

-----------------------------------------------------------------------------
(* Auth implements AccountBook. *)

\* Tokens are issued by the step that ends a login.
Untold == \A l \in Logins : pc[l] # "done" => token[l] = {}

BookInv == IdInv /\ Untold

LEMMA BookInit == Init => BookInv
BY IdInit DEF BookInv, Untold, Init

LEMMA UntoldStep == BookInv /\ [Next]_vars => Untold'
<1> SUFFICES ASSUME BookInv, [Next]_vars PROVE Untold'
  OBVIOUS
<1> USE DEF BookInv, IdInv, TypeInv, Untold
<1>1. ASSUME NEW l \in Logins, \/ LoginURL(l) \/ Callback(l) \/ Exchange(l)
             \/ FindIdentity(l) \/ CreateUser(l) \/ CreateUserIdentity(l) \/ ReadBack(l)
             \/ Refresh(l) \/ Cancel(l)
      PROVE  Untold'
  <2>1. token' = token BY <1>1, OnlyIssue
  <2>2. \A m \in Logins : pc[m] = "done" => pc'[m] = "done"
    BY <1>1 DEF LoginURL, Callback, Exchange, FindIdentity, CreateUser, CreateUserIdentity,
                ReadBack, Refresh, Cancel, Goto, Respond, TypeOK
  <2> QED BY <2>1, <2>2
<1>2. ASSUME NEW l \in Logins, Issue(l) PROVE Untold'
  BY <1>2 DEF Issue, Respond, TypeOK
<1>3. CASE UNCHANGED vars BY <1>3 DEF vars
<1> QED BY <1>1, <1>2, <1>3 DEF Next, Step, Finished

\* An identity as an entry of the book.
Entry(row) == [account |-> [provider |-> row.provider, id |-> row.id], user |-> row.user]

LEMMA EntryOf ==
    ASSUME NEW row
    PROVE  Entry(row).account = [provider |-> row.provider, id |-> row.id]
           /\ Entry(row).user = row.user
BY DEF Entry

LEMMA EntriesOf == Entries = {Entry(row) : row \in identities}
BY DEF Entries, Entry

\* Steps that touch neither identities nor tokens are not seen in the book.
LEMMA BookKept ==
    ASSUME UNCHANGED <<input, identities, token>>
    PROVE  UNCHANGED AB!bookVars
BY DEF AB!bookVars, AccountOf, Entries, UserOf

\* The INSERT enters the account of the login.
LEMMA InsertRegisters ==
    ASSUME BookInv, NEW l \in Logins, CreateUserIdentity(l)
    PROVE  [AB!Next]_AB!bookVars
<1>1. CASE Taken(input[l])
  BY <1>1, BookKept DEF CreateUserIdentity
<1>2. CASE ~Taken(input[l])
  <2> DEFINE row == IdentityRow(user[l], input[l])
             new == Entry(row)
  <2>1. /\ identities' = identities \cup {row} /\ UNCHANGED <<input, token>>
        /\ \A r \in identities : r.user # user[l] /\ r.id # input[l].id
    BY <1>2 DEF CreateUserIdentity, BookInv, IdInv, Fresh, Taken
  <2>2. new.account = AccountOf(l) /\ new.user = user[l]
    BY EntryOf DEF IdentityRow, AccountOf
  <2>3. new = [account |-> AccountOf(l), user |-> user[l]]
    BY DEF Entry, IdentityRow, AccountOf
  <2>4. \A r \in identities : Entry(r).account # AccountOf(l) /\ Entry(r).user # user[l]
    <3> SUFFICES ASSUME NEW r \in identities
                 PROVE  Entry(r).account # AccountOf(l) /\ Entry(r).user # user[l]
      OBVIOUS
    <3>1. Entry(r).account.id = r.id /\ AccountOf(l).id = input[l].id
      BY DEF Entry, AccountOf
    <3>2. Entry(r).user = r.user BY EntryOf
    <3>3. r.user # user[l] /\ r.id # input[l].id BY <2>1
    <3> QED BY <3>1, <3>2, <3>3
  <2>5. \A k \in Entries : k.account # AccountOf(l) /\ k.user # user[l]
    BY <2>4, EntriesOf
  <2> HIDE DEF row
  <2>6. Entries' = Entries \cup {new}
    <3>1. Entries' = {Entry(r) : r \in identities'} BY DEF Entries, Entry
    <3> QED BY <2>1, <3>1, EntriesOf
  <2> HIDE DEF new
  <2>7. [m \in Logins |-> AccountOf(m)]' = [m \in Logins |-> AccountOf(m)]
        /\ [m \in Logins |-> UserOf(m)]' = [m \in Logins |-> UserOf(m)]
    BY <2>1 DEF AccountOf, UserOf
  <2>8. [m \in Logins |-> AccountOf(m)][l] = AccountOf(l)
    OBVIOUS
  <2>9. AB!Register([m \in Logins |-> AccountOf(m)][l], new.user)
    BY <2>2, <2>3, <2>5, <2>6, <2>7, <2>8 DEF AB!Register
  <2>10. new \in Entries' \ Entries BY <2>2, <2>5, <2>6
  <2> QED BY <2>9, <2>10 DEF AB!Next
<1> QED BY <1>1, <1>2

\* A login is told the user of its account's entry.
LEMMA IssueSignsIn ==
    ASSUME BookInv, NEW l \in Logins, Issue(l)
    PROVE  AB!Next
<1>1. PICK row \in identities :
         /\ row.user = user[l]
         /\ token' = [token EXCEPT ![l] = {[user |-> row.user,
                         provider |-> row.provider, email |-> row.email]}]
  BY DEF Issue
<1>2. PICK own \in identities : own.user = user[l] /\ OfAccount(own, l)
  BY DEF Issue, Found, BookInv, IdInv
<1>3. row = own BY <1>1, <1>2 DEF OneRow, BookInv, IdInv
<1>4. Entry(row) \in Entries /\ Entry(row).account = AccountOf(l) /\ Entry(row).user = user[l]
  BY <1>1, <1>2, <1>3, EntryOf, EntriesOf DEF OfAccount, AccountOf
<1>5. UNCHANGED <<input, identities>> BY TablesKept
<1>6. UserOf(l) = {}
  BY DEF UserOf, Issue, BookInv, Untold
<1>7. [m \in Logins |-> UserOf(m)]' = [[m \in Logins |-> UserOf(m)] EXCEPT ![l] = {user[l]}]
  <2> DEFINE mine == [user |-> row.user, provider |-> row.provider, email |-> row.email]
  <2>1. mine.user = user[l] BY <1>1
  <2>2. token' = [token EXCEPT ![l] = {mine}] BY <1>1
  <2> HIDE DEF mine
  <2>3. token'[l] = {mine} /\ \A m \in Logins \ {l} : token'[m] = token[m]
    BY <2>2 DEF BookInv, IdInv, TypeInv, TypeOK
  <2>4. {claims.user : claims \in token'[l]} = {user[l]} BY <2>1, <2>3
  <2> QED BY <2>3, <2>4 DEF UserOf
<1>8. UNCHANGED <<[m \in Logins |-> AccountOf(m)], Entries>>
  BY <1>5 DEF AccountOf, Entries
<1>9. AB!SignIn(l)
  BY <1>4, <1>6, <1>7, <1>8 DEF AB!SignIn
<1> QED BY <1>9 DEF AB!Next

LEMMA BookStep == BookInv /\ [Next]_vars => [AB!Next]_AB!bookVars
<1> SUFFICES ASSUME BookInv, [Next]_vars PROVE [AB!Next]_AB!bookVars
  OBVIOUS
<1>1. ASSUME NEW l \in Logins, \/ LoginURL(l) \/ Callback(l) \/ Exchange(l)
             \/ FindIdentity(l) \/ ReadBack(l) \/ Refresh(l) \/ Cancel(l)
      PROVE  [AB!Next]_AB!bookVars
  <2>1. token' = token BY <1>1, OnlyIssue DEF BookInv, IdInv
  <2> QED BY <1>1, <2>1, BookKept, TablesKept
<1>2. ASSUME NEW l \in Logins, CreateUser(l) PROVE [AB!Next]_AB!bookVars
  BY <1>2, BookKept DEF CreateUser
<1>3. CASE UNCHANGED vars BY <1>3, BookKept DEF vars, tables
<1> QED BY <1>1, <1>2, <1>3, InsertRegisters, IssueSignsIn DEF Next, Step, Finished

LEMMA BookStart == Init => AB!Init
<1> SUFFICES ASSUME Init PROVE AB!Init
  OBVIOUS
<1>1. \A l \in Logins : AccountOf(l) \in [provider : Providers, id : Subjects]
  BY AccountsAssumption DEF Init, AccountOf, Accounts
<1>2. Entries = {} BY DEF Init, Entries
<1>3. \A l \in Logins : UserOf(l) = {} BY DEF Init, UserOf
<1>4. [l \in Logins |-> AccountOf(l)] \in [Logins -> [provider : Providers, id : Subjects]]
  BY <1>1
<1>5. [l \in Logins |-> UserOf(l)] = [l \in Logins |-> {}] BY <1>3
<1> QED BY <1>2, <1>4, <1>5 DEF AB!Init

\* The logins of the auth service implement the book of accounts: with all its separate
\* statements, failures and races, an account is entered once and for good, with a user
\* of its own, and a login is told that user.
THEOREM ImplementsAccountBookAlways == Spec => ImplementsAccountBook
<1>1. BookInv /\ [Next]_vars => BookInv'
  BY IdStep, UntoldStep DEF BookInv
<1> QED BY <1>1, BookInit, BookStart, BookStep, PTL
        DEF Spec, ImplementsAccountBook, AB!Spec
=============================================================================
