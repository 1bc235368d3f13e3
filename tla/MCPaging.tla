------------------------------- MODULE MCPaging -------------------------------
(***************************************************************************)
(* Small instances of a walk through the picks for TLC.                    *)
(***************************************************************************)
EXTENDS PagingProps

CONSTANTS a, b

Asking(W, WO, n) == [with |-> W, without |-> WO, size |-> n]

\* Pages smaller than the result, filters of both kinds, and page sizes that the
\* handler lets through although they make no sense.
FilterQueries ==
    { Asking({}, {}, 1), Asking({a}, {b}, 1), Asking({a, b}, {}, 2),
      Asking({}, {a, b}, 2), Asking({}, {}, 0), Asking({}, {}, -1), Asking({}, {}, -2) }

PlainQueries == { Asking({}, {}, 1), Asking({}, {}, 2) }
=============================================================================
