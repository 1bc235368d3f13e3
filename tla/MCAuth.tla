-------------------------------- MODULE MCAuth --------------------------------
(***************************************************************************)
(* Small instances of the auth service for TLC.  A login runs once, so the *)
(* number of logins bounds users.id.                                       *)
(***************************************************************************)
EXTENDS AuthProps

CONSTANTS l1, l2, l3, b1, b2, s1, s2

Account(b, p, s, e, v) ==
    [browser |-> b, provider |-> p, id |-> s, email |-> e, verified |-> v]

\* One account in two browsers, with and without a verified email; a second account
\* with the same subject at another provider, a third one at the same provider, and
\* a provider that is not registered.
LoginInputs ==
    { Account(b1, "google", s1, "x@", TRUE),
      Account(b2, "google", s1, "y@", FALSE),
      Account(b1, "other", s1, "x@", TRUE),
      Account(b2, "google", s2, "y@", FALSE),
      Account(b1, "nobody", s1, "x@", TRUE) }

\* First logins of one account, started together.
SameAccountInputs == { Account(b1, "google", s1, "x@", TRUE),
                       Account(b2, "google", s1, "x@", TRUE) }
=============================================================================
