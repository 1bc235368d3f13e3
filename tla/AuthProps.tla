------------------------------- MODULE AuthProps -------------------------------
(***************************************************************************)
(* What the logins of the auth service must satisfy.                       *)
(***************************************************************************)
EXTENDS Auth

SameAccount(l, m) ==
    input[l].provider = input[m].provider /\ input[l].id = input[m].id

HasIdentity(l) ==
    \E row \in identities : row.provider = input[l].provider /\ row.id = input[l].id

UserOf(l) == {claims.user : claims \in token[l]}

\* --- invariants ---------------------------------------------------------

\* Two logins get tokens for the same user exactly when they are of the same
\* account, although first logins race to create it, some of them fail half way,
\* and providers may give out the same subject.
OneUserPerAccount ==
    \A l, m \in Logins :
        resp[l] = "ok" /\ resp[m] = "ok" =>
            (UserOf(l) = UserOf(m) <=> SameAccount(l, m))

\* A token names an email only if some login of that account, one that has got as far
\* as writing its identity or has ended, came with it verified.
EmailWasVerified ==
    \A l \in Logins : \A claims \in token[l] :
        claims.email # NoEmail =>
            \E m \in Logins : /\ SameAccount(l, m)
                              /\ pc[m] \in {"readBack", "issue", "done"}
                              /\ input[m].verified
                              /\ input[m].email = claims.email

\* A login that comes back to the browser it was begun in finds its own state there, or
\* that of another login begun in that browser with the same provider, for whose sake it
\* is refused: logins with other providers or in other browsers are not in its way.
RefusedOnlyForAnother ==
    \A l \in Logins : pc[l] = "redirected" =>
        LET saved == cookie[input[l].browser][input[l].provider]
        IN  /\ saved \in Logins /\ pc[saved] # "login"
            /\ input[saved].browser = input[l].browser
            /\ input[saved].provider = input[l].provider

\* --- action properties --------------------------------------------------

\* Tokens are handed to the browser the login was started in, and to no other one
\* that opens the callback.
TokensStayInBrowser ==
    [][\A l \in Logins : resp[l] # "ok" /\ resp'[l] = "ok" =>
          at[l] = input[l].browser]_vars

\* --- the abstract book of accounts --------------------------------------

AccountOf(l) == [provider |-> input[l].provider, id |-> input[l].id]

\* The identities as entries of the book; a user without one is in nobody's way.
Entries == {[account |-> [provider |-> row.provider, id |-> row.id], user |-> row.user] :
               row \in identities}

AB == INSTANCE AccountBook
          WITH Accounts <- [provider : Providers, id : Subjects],
               who <- [l \in Logins |-> AccountOf(l)],
               book <- Entries,
               told <- [l \in Logins |-> UserOf(l)]

\* Whatever statements of first logins interleave, fail or are cut off: an account is
\* entered once and for good, with a user of its own, and a login that gets tokens
\* gets them once, for the user its account has at that moment.
ImplementsAccountBook == AB!Spec

\* --- liveness -----------------------------------------------------------

\* Whatever half of a registration a failed login left behind, an account with an
\* identity row gets in with its next login, unless that one is cut off.
RegisteredGetsIn ==
    \A l \in Logins :
        pc[l] = "getIdentity" /\ HasIdentity(l)
            ~> resp[l] \in {"ok", "lost"}

\* --- what the comments of the code say, and the code does not -----------

\* auth.go:175, Refresh: "issues a new access token using a valid refresh token".
RefreshWorks == \A l \in Logins : refreshed[l] # "401"

\* postgres.go:151, WithTx: "executes the given function within a database
\* transaction": getOrCreateUser leaves no user behind when it fails.
NoOrphanUser ==
    \A u \in users :
        \/ \E row \in identities : row.user = u
        \/ \E l \in Logins : user[l] = u /\ pc[l] = "createIdentity"
=============================================================================
