------------------------------- MODULE ChainBook -------------------------------
(***************************************************************************)
(* What a router promises about middleware: a router has a chain of its    *)
(* own.  Use adds to the end of one chain and to no other; a sub-router     *)
(* begins with a copy of its parent's chain.                               *)
(***************************************************************************)
EXTENDS Naturals, Sequences

CONSTANT Middlewares

VARIABLE chains    \* by router, in the order the routers were made

Routers == DOMAIN chains

TypeOK == chains \in Seq(Seq(Middlewares))

Init == chains = << << >> >>

New == chains' = Append(chains, << >>)

Use(k, mws) == chains' = [chains EXCEPT ![k] = @ \o mws]

SubRouter(k) == chains' = Append(chains, chains[k])

\* The middleware one step adds is what the next chain has and the last one had not.
Added(k) == {mws \in {SubSeq(chains'[k], Len(chains[k]) + 1, Len(chains'[k]))} :
                chains'[k] = chains[k] \o mws}

Next ==
    \/ New
    \/ \E k \in Routers : SubRouter(k)
    \/ \E k \in Routers : k \in DOMAIN chains' /\ \E mws \in Added(k) : Use(k, mws)

Spec == Init /\ [][Next]_chains
=============================================================================
