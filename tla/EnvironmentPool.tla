-------------------------- MODULE EnvironmentPool --------------------------
(***************************************************************************)
(* What the ephemeral-environment manager promises, seen from outside: a   *)
(* pool of at most Limit concurrent leases.  A lease identifier is taken   *)
(* at most once, is held until it is released, and is never reissued.      *)
(* Locks, phases, drivers and clean-up passes do not appear here; the      *)
(* module EphemeralManager is shown to implement this one.                 *)
(***************************************************************************)
EXTENDS Naturals, FiniteSets

CONSTANTS Leases,     \* the identifiers that may ever be issued
          Limit       \* how many may be held at once (0: no limit)

VARIABLES held,       \* leases in use
          spent       \* leases that were released

poolVars == <<held, spent>>

PoolInit == held = {} /\ spent = {}

\* Taking a lease that was never issued, while the pool is below its limit.
Acquire(l) ==
    /\ l \notin held \cup spent
    /\ Limit = 0 \/ Cardinality(held) < Limit
    /\ held' = held \cup {l}
    /\ UNCHANGED spent

\* Giving a lease back.
Release(l) ==
    /\ l \in held
    /\ held' = held \ {l}
    /\ spent' = spent \cup {l}

PoolNext == \E l \in Leases : Acquire(l) \/ Release(l)

PoolSpec == PoolInit /\ [][PoolNext]_poolVars
=============================================================================
