-------------------------------- MODULE MCServer --------------------------------
(***************************************************************************)
(* Instances of the services' processes for TLC: the three programs, and    *)
(* small programs that only build routers.                                  *)
(***************************************************************************)
EXTENDS ServerProps

CONSTANTS q1, q2, MaxCalls   \* bound: calls of a script

\* Short programs of the router package, as tests build them, with up to three
\* routers; each is named by its calls.
Steps ==
    [use     |-> CallUse(1, <<"Recover">>),
     useAll  |-> CallUse(1, <<"Recover", "Log", "Auth">>),
     useFive |-> CallUse(1, <<"Log", "Log", "Log", "Log", "Log">>),
     subA    |-> CallSub(1, <<"a">>),
     subB    |-> CallSub(1, <<"b">>),
     subC    |-> CallSub(2, <<"c">>),
     subD    |-> CallSub(2, <<"d">>),
     use2    |-> CallUse(2, <<"Log">>),
     use3    |-> CallUse(3, <<"Auth", "Auth">>),
     use4    |-> CallUse(4, <<"Recover">>)]

ShortSteps == {"use", "useAll", "useFive", "subA", "subB", "use2", "use3"}

\* A router is made before it is used, and a prefix is mounted once.
WellFormed(names) ==
    \A i \in DOMAIN names :
        LET before == {names[j] : j \in 1 .. i - 1}
        IN  /\ names[i] = "use2" => before \cap {"subA", "subB"} # {}
            /\ names[i] = "use3" => {"subA", "subB"} \subseteq before
            /\ names[i] \in {"subA", "subB"} => names[i] \notin before

\* Two sub-routers of a sub-router that has room to spare.
ThreeLevels == <<"useAll", "subA", "use2", "subC", "subD", "use3", "use4">>

Scripts ==
    {names \in UNION {[1 .. n -> ShortSteps] : n \in 1 .. MaxCalls} : WellFormed(names)}
      \cup {ThreeLevels}

Script(names) ==
    [name |-> "script", calls |-> [i \in DOMAIN names |-> Steps[names[i]]],
     remotes |-> FALSE, closesDB |-> FALSE]

\* The process of auth with its API where the tests of the API have it: at the root.
AloneCalls == Health \o AuthRoutes(2) \o <<Below(1, << >>, 2)>>
AloneMain  == [AuthMain EXCEPT !.name = "alone", !.calls = AloneCalls]

MainOf(names) ==
    CASE names = <<"words">> -> WordsMain
      [] names = <<"image">> -> ImageMain
      [] names = <<"auth">>  -> AuthMain
      [] names = <<"alone">> -> AloneMain

MainNames == {<<"words">>, <<"image">>, <<"auth">>}

MCMains == [names \in MainNames |-> MainOf(names)]

MCPrograms ==
    [names \in MainNames \cup {<<"alone">>} \cup Scripts |->
        IF names \in Scripts THEN Script(names) ELSE MainOf(names)]

NoToken  == [alg |-> "", signed |-> FALSE, sub |-> ""]
Good     == [alg |-> "HS256", signed |-> TRUE, sub |-> "user1"]
Forged   == [alg |-> "HS256", signed |-> FALSE, sub |-> "user1"]

In(path, method, token) == [path |-> path, method |-> method, token |-> token]
Api(segs) == <<"api", "v1">> \o segs

MCInputs ==
    [words |-> {In(<<"healthz">>, "GET", NoToken),
                In(Api(<<"words">>), "PUT", Forged),
                In(Api(<<"picks">>), "GET", Good),
                In(Api(<<"images", "1", "web">>), "PUT", Good)},
     image |-> {In(<<"upload">>, "POST", NoToken), In(<<"f">>, "GET", NoToken),
                In(<<"upload">>, "PUT", NoToken), In(Api(<<"f">>), "GET", NoToken)},
     auth  |-> {In(<<"readyz">>, "GET", NoToken),
                In(Api(<<"google", "callback">>), "GET", NoToken)},
     alone |-> {In(<<"google", "login">>, "GET", NoToken),
                In(<<"google", "callback">>, "GET", NoToken),
                In(<<"refresh">>, "POST", NoToken)},
     script |-> {}]

WiringInputs ==
    [words |-> {In(Api(<<"words">>), "PUT", Good)},
     image |-> {}, script |-> {},
     auth  |-> {In(Api(<<"google", "callback">>), "GET", Good)}]
=============================================================================
