------------------------- MODULE MCEphemeralManager -------------------------
(***************************************************************************)
(* Small instances of EphemeralManager for TLC.                            *)
(***************************************************************************)
EXTENDS EphemeralManager, TLC

CONSTANT PR         \* a pull request number

Request(p, b, l, ttl, w) == [pr |-> p, branch |-> b, limit |-> l, ttlValid |-> ttl, work |-> w]

\* Requests for a pull request, one that names the workload after the
\* environment and one, with a smaller limit, that does not; and a request for
\* a branch whose TTL does not parse.
NamedAndOther == { Request(PR, None, 2, TRUE, <<"pr", PR>>),
                   Request(PR, None, 1, TRUE, <<"app", PR>>),
                   Request(None, "b", 2, FALSE, <<"branch", "b">>) }

\* One request, for one pull request.
OneSpec == { Request(PR, None, 0, TRUE, <<"pr", PR>>) }

\* What the next steps depend on: nothing looks at the expiry time of an
\* environment that is no longer Ready.
Relevant == <<mapVars, Due, deployed, emptied, lockVars, callVars, stopChan>>

CallerSymmetry == Permutations(Callers)
=============================================================================
