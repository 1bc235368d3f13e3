--------------------------------- MODULE Auth ---------------------------------
(***************************************************************************)
(* Logins of the auth service (rest/api.go, service/auth.go,               *)
(* oauth/authenticator.go) over its two tables.  A login is one run of the *)
(* OAuth dance: the browser asks for a login URL and keeps a random state  *)
(* in a cookie, the identity provider sends a browser back with that state *)
(* and a code, and the callback finds or creates the user.  The random     *)
(* state is represented by the login itself.  Every statement commits on   *)
(* its own: the transaction of getOrCreateUser only ever reads.            *)
(***************************************************************************)
EXTENDS Naturals, FiniteSets

CONSTANTS
    Logins, NoLogin,
    Browsers, NoBrowser,
    Registered,   \* names of the registered identity providers
    Providers,    \* names a client may put in the URL
    Subjects,     \* user ids at the providers
    Emails,
    Inputs        \* who logs in, with which browser and provider

NoEmail == ""

\* What the provider reports of the user who logs in.
Accounts == [browser : Browsers, provider : Providers, id : Subjects,
             email : Emails, verified : BOOLEAN]

ASSUME LoginsAssumption == NoLogin \notin Logins
ASSUME BrowsersAssumption == NoBrowser \notin Browsers
ASSUME RegisteredAssumption == Registered \subseteq Providers \ {""}
ASSUME AccountsAssumption == Inputs \subseteq Accounts /\ NoEmail \notin Emails

VARIABLES
    input,       \* the account behind each login
    pc,          \* what its request does next
    cookie,      \* the state saved in a browser, by provider
    at,          \* the browser that opened its callback, while that runs
    users,       \* rows of users
    nextUser,    \* the next value of the serial users.id
    identities,  \* rows of identities
    user,        \* the user its callback has created or found, 0: none
    token,       \* claims of the access tokens it obtained
    resp,        \* the answer to the login
    refreshed    \* the answer to the use of its refresh token

tables == <<users, nextUser, identities>>
vars == <<input, pc, cookie, at, tables, user, token, resp, refreshed>>

PCs == {"login", "redirected", "exchange", "getIdentity", "createUser",
        "createIdentity", "readBack", "issue", "done"}
Statuses == {"none", "ok", "401", "404", "500", "lost"}

IdentityRows == [id : Subjects, user : Nat, provider : Registered,
                 email : Emails \cup {NoEmail}]
Claims == [user : Nat, provider : Registered, email : Emails \cup {NoEmail}]

TypeOK ==
    /\ input \in [Logins -> Inputs]
    /\ pc \in [Logins -> PCs]
    /\ cookie \in [Browsers -> [Providers -> Logins \cup {NoLogin}]]
    /\ at \in [Logins -> Browsers \cup {NoBrowser}]
    /\ users \subseteq Nat
    /\ nextUser \in Nat \ {0}
    /\ identities \subseteq IdentityRows
    /\ user \in [Logins -> Nat]
    /\ token \in [Logins -> SUBSET Claims]
    /\ resp \in [Logins -> Statuses]
    /\ refreshed \in [Logins -> Statuses]

Init ==
    /\ input \in [Logins -> Inputs]
    /\ pc = [l \in Logins |-> "login"]
    /\ cookie = [b \in Browsers |-> [p \in Providers |-> NoLogin]]
    /\ at = [l \in Logins |-> NoBrowser]
    /\ users = {}
    /\ nextUser = 1
    /\ identities = {}
    /\ user = [l \in Logins |-> 0]
    /\ token = [l \in Logins |-> {}]
    /\ resp = [l \in Logins |-> "none"]
    /\ refreshed = [l \in Logins |-> "none"]

-----------------------------------------------------------------------------
UnverifiedToo(account) == account.email \* Mutant: the email, verified or not.
VerifiedEmail(account) == IF account.verified THEN account.email ELSE NoEmail

\* Mutant: WHERE i.id = $1 only.
IdentityById(account) == {row \in identities : row.id = account.id}

\* Mutant: WHERE i.email = $1 AND i.provider = $2.
IdentityByEmail(account) ==
    {row \in identities : /\ row.email = VerifiedEmail(account)
                          /\ row.provider = account.provider}

\* store.GetIdentity: WHERE i.id = $1 AND i.provider = $2, joined with the user.
GetIdentity(account) ==
    {row \in identities : /\ row.id = account.id
                          /\ row.provider = account.provider
                          /\ row.user \in users}

\* store.GetUserIdentity: WHERE u.uid = $1 AND i.provider = $2.
GetUserIdentity(u, provider) ==
    {row \in identities : row.user = u /\ row.provider = provider}

\* Mutant: identities without its keys.
NeverTaken(account) == FALSE

\* The keys of identities: PRIMARY KEY (id), and UNIQUE (provider, email), which
\* the empty email of every unverified account shares.
Taken(account) ==
    \E row \in identities :
        \/ row.id = account.id
        \/ row.provider = account.provider /\ row.email = VerifiedEmail(account)

\* Mutant: the arguments $3 and $4 of the INSERT in the wrong order.
SwappedIdentityRow(u, account) ==
    [id |-> account.id, user |-> u, provider |-> VerifiedEmail(account),
     email |-> account.provider]

\* The row INSERT INTO identities writes.
IdentityRow(u, account) ==
    [id |-> account.id, user |-> u, provider |-> account.provider,
     email |-> VerifiedEmail(account)]

Goto(l, label) == pc' = [pc EXCEPT ![l] = label] /\ UNCHANGED resp

\* The request is answered; its locals go out of scope.
Respond(l, status) ==
    /\ pc' = [pc EXCEPT ![l] = "done"]
    /\ resp' = [resp EXCEPT ![l] = status]
    /\ at' = [at EXCEPT ![l] = NoBrowser]
    /\ user' = [user EXCEPT ![l] = 0]

-----------------------------------------------------------------------------
\* Mutant: one cookie for all providers.
SaveOneState(b, p, l) == cookie' = [cookie EXCEPT ![b] = [q \in Providers |-> l]]

\* env.Save(provider, state): the cookie named after the provider.
SaveState(b, p, l) == cookie' = [cookie EXCEPT ![b][p] = l]

\* GET /{provider}/login: save a fresh state in the cookie named after the
\* provider, over the one a login in another tab may have left there.
LoginURL(l) ==
    LET b == input[l].browser
        p == input[l].provider
    IN  /\ pc[l] = "login"
        /\ IF p \in Registered
           THEN /\ SaveState(b, p, l)
                /\ Goto(l, "redirected")
                /\ UNCHANGED <<at, user>>
           ELSE /\ Respond(l, "404")
                /\ UNCHANGED cookie
        /\ UNCHANGED <<input, tables, token, refreshed>>

\* Mutant: the state is not compared with the saved one.
AnyState(b, l) == cookie[b][input[l].provider] # NoLogin

SavedState(b, l) == cookie[b][input[l].provider] = l

\* GET /{provider}/callback, opened in some browser: no cookie is an error nobody
\* maps to a status, another state is ErrAuthFailed.
Callback(l) ==
    /\ pc[l] = "redirected"
    /\ \E b \in Browsers :
          IF SavedState(b, l)
          THEN /\ at' = [at EXCEPT ![l] = b]
               /\ Goto(l, "exchange")
               /\ UNCHANGED user
          ELSE Respond(l, IF cookie[b][input[l].provider] = NoLogin
                          THEN "500" ELSE "401")
    /\ UNCHANGED <<input, cookie, tables, token, refreshed>>

\* The provider turns the code into a user, refuses it, or does not answer.
Exchange(l) ==
    /\ pc[l] = "exchange"
    /\ \/ Goto(l, "getIdentity") /\ UNCHANGED <<at, user>>
       \/ \E status \in {"401", "500"} : Respond(l, status)
    /\ UNCHANGED <<input, cookie, tables, token, refreshed>>

\* getOrCreateUser: the first look.
FindIdentity(l) ==
    /\ pc[l] = "getIdentity"
    /\ \/ /\ GetIdentity(input[l]) = {}
          /\ Goto(l, "createUser")
          /\ UNCHANGED user
       \/ \E row \in GetIdentity(input[l]) :
             /\ user' = [user EXCEPT ![l] = row.user]
             /\ Goto(l, "issue")
    /\ UNCHANGED <<input, cookie, at, tables, token, refreshed>>

\* In the callback of WithTx, but on s.store: the row is there to stay.
CreateUser(l) ==
    /\ pc[l] = "createUser"
    /\ users' = users \cup {nextUser}
    /\ nextUser' = nextUser + 1
    /\ user' = [user EXCEPT ![l] = nextUser]
    /\ Goto(l, "createIdentity")
    /\ UNCHANGED <<input, cookie, at, identities, token, refreshed>>

\* On s.store too.  A duplicate key is not told from other errors.
CreateUserIdentity(l) ==
    /\ pc[l] = "createIdentity"
    /\ IF Taken(input[l])
       THEN Respond(l, "500") /\ UNCHANGED identities
       ELSE /\ identities' = identities \cup {IdentityRow(user[l], input[l])}
            /\ Goto(l, "readBack")
            /\ UNCHANGED <<at, user>>
    /\ UNCHANGED <<input, cookie, users, nextUser, token, refreshed>>

\* On the transaction, which sees what the statements above have committed: the
\* row is there, since nothing deletes it.
ReadBack(l) ==
    /\ pc[l] = "readBack"
    /\ \E row \in GetIdentity(input[l]) : user' = [user EXCEPT ![l] = row.user]
    /\ Goto(l, "issue")
    /\ UNCHANGED <<input, cookie, at, tables, token, refreshed>>

\* The access token tells of the identity row; the refresh token, of the user only.
Issue(l) ==
    /\ pc[l] = "issue"
    /\ \E row \in identities :
          /\ row.user = user[l]
          /\ token' = [token EXCEPT ![l] = {[user |-> row.user,
                           provider |-> row.provider, email |-> row.email]}]
    /\ Respond(l, "ok")
    /\ UNCHANGED <<input, cookie, tables, refreshed>>

\* POST /refresh: the claims of the refresh token hold no provider, so the identity
\* is looked up with the empty one.
Refresh(l) ==
    /\ resp[l] = "ok" /\ refreshed[l] = "none"
    /\ \E claims \in token[l] :
          refreshed' = [refreshed EXCEPT ![l] =
              IF GetUserIdentity(claims.user, "") # {} THEN "ok" ELSE "401"]
    /\ UNCHANGED <<input, pc, cookie, at, tables, user, token, resp>>

\* The client goes away, a statement, the COMMIT of the transaction that has only
\* read or the answer fails, or the process dies: the request ends, what was
\* inserted stays.
Cancel(l) ==
    /\ pc[l] \in PCs \ {"login", "redirected", "done"}
    /\ Respond(l, "lost")
    /\ UNCHANGED <<input, cookie, tables, token, refreshed>>

Finished ==
    /\ \A l \in Logins : /\ pc[l] = "done"
                         /\ resp[l] = "ok" => refreshed[l] # "none"
    /\ UNCHANGED vars

Step(l) ==
    \/ Exchange(l) \/ FindIdentity(l) \/ CreateUser(l) \/ CreateUserIdentity(l)
    \/ ReadBack(l) \/ Issue(l)

Next ==
    \/ \E l \in Logins :
          LoginURL(l) \/ Callback(l) \/ Step(l) \/ Refresh(l) \/ Cancel(l)
    \/ Finished

Spec == Init /\ [][Next]_vars

\* A callback that has been accepted keeps running; a user may never come back.
FairSpec == Spec /\ \A l \in Logins : WF_vars(Step(l))
=============================================================================
