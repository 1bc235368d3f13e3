------------------------------ MODULE AccountBook ------------------------------
(***************************************************************************)
(* What the auth service promises about users, without cookies, statements  *)
(* or halves of registrations: a book in which an account is entered once,  *)
(* with a user of its own, and from which every login is told its user.     *)
(***************************************************************************)
CONSTANTS Logins,
          Accounts    \* a subject at a provider

VARIABLES
    who,     \* the account of each login
    book,    \* the accounts that have been entered, with their users
    told     \* the users each login has been told

bookVars == <<who, book, told>>

Init ==
    /\ who \in [Logins -> Accounts]
    /\ book = {}
    /\ told = [l \in Logins |-> {}]

\* An account that is not in the book gets a user nobody in it has.
Register(a, u) ==
    /\ \A k \in book : k.account # a /\ k.user # u
    /\ book' = book \cup {[account |-> a, user |-> u]}
    /\ UNCHANGED <<who, told>>

\* A login is told, once, the user of its account.
SignIn(l) ==
    /\ told[l] = {}
    /\ \E k \in book : /\ k.account = who[l]
                       /\ told' = [told EXCEPT ![l] = {k.user}]
    /\ UNCHANGED <<who, book>>

Next ==
    \E l \in Logins :
        \/ \E k \in book' \ book : Register(who[l], k.user)
        \/ SignIn(l)

Spec == Init /\ [][Next]_bookVars
=============================================================================
