----------------------------- MODULE ImageCache -----------------------------
(***************************************************************************)
(* The image cache, internal/cache/image.go: a map of image references     *)
(* under one RWMutex, with a size limit, a count limit, a TTL and          *)
(* least-recently-used eviction.                                           *)
(*                                                                         *)
(* Every method but two is one critical section and is one action here.    *)
(* Prepull takes the lock once per image.  Get takes it twice, and in      *)
(* between works on the entry it found, which by then may have been        *)
(* evicted, deleted or replaced.                                           *)
(***************************************************************************)
EXTENDS Integers, Sequences, SequencesExt, FiniteSetsExt

CONSTANTS
    Refs,             \* image references
    Sizes,            \* sizes callers report to Put
    MaxSize,          \* CacheSizeGB
    MaxCachedImages,
    PrepullRefs,      \* images Prepull is called with
    Getters           \* goroutines calling Get

ASSUME CacheAssumption ==
    /\ Sizes \subseteq Nat /\ MaxSize \in Nat /\ MaxCachedImages \in Nat \ {0}
    /\ PrepullRefs \subseteq Refs /\ Refs # {} /\ IsFiniteSet(Refs)

VARIABLES
    lru,        \* the cached references, by LastAccessed, oldest first
    size,       \* SizeBytes of each cached image
    expired,    \* cached images older than their TTL
    reported,   \* status.CachedImages
    pc,         \* where each Get is
    found,      \* the reference it looks up
    attached,   \* Gets whose entry is still the one in the map
    foundOld,   \* Gets whose entry is older than its TTL
    running     \* the clean-up routine runs

vars == <<lru, size, expired, reported, pc, found, attached, foundOld, running>>

getVars == <<pc, found>>

Cached == ToSet(lru)

TotalSize(refs) == MapThenSumSet(LAMBDA r : size[r], refs)

Init ==
    /\ lru = <<>>
    /\ size = [r \in Refs |-> 0]
    /\ expired = {}
    /\ reported = 0
    /\ pc = [g \in Getters |-> "idle"]
    /\ found = [g \in Getters |-> CHOOSE r \in Refs : TRUE]
    /\ attached = {}
    /\ foundOld = {}
    /\ running = TRUE

\* Gets between their two critical sections that hold the entry of one of refs.
HoldersOf(refs) == {g \in Getters : pc[g] # "idle" /\ found[g] \in refs}

\* The entries of refs leave the map; Gets that found them keep the old entry.
Detach(refs) == attached' = attached \ HoldersOf(refs)

Without(s, refs) == FoldLeft(LAMBDA kept, r : IF r \in refs THEN kept ELSE Append(kept, r), <<>>, s)

-----------------------------------------------------------------------------
(***************************************************************************)
(* enforceSizeLimits evicts the oldest entries until the new image fits or *)
(* nothing is left; an image larger than the cache is stored all the same. *)
(***************************************************************************)
Fits(s, n) == TotalSize(ToSet(s)) + n <= MaxSize

\* Fault: one entry is evicted, whatever room that makes.
AfterSizeLimitOnce(n) == IF Fits(lru, n) \/ lru = <<>> THEN lru ELSE Tail(lru)

AfterSizeLimit(n) ==
    LET drop == CHOOSE k \in 0 .. Len(lru) :
                    LET Enough(j) == j = Len(lru) \/ Fits(SubSeq(lru, j + 1, Len(lru)), n)
                    IN  Enough(k) /\ \A j \in 0 .. k - 1 : ~Enough(j)
    IN  SubSeq(lru, drop + 1, Len(lru))

\* Fault: the count limit is off by one.
AfterCountLimitLate(s) == IF Len(s) > MaxCachedImages /\ s # <<>> THEN Tail(s) ELSE s

\* The count limit evicts one entry at most, even when ref is cached already.
AfterCountLimit(s) == IF Len(s) >= MaxCachedImages /\ s # <<>> THEN Tail(s) ELSE s

\* Fault: a second entry is made for an image that is cached already.
PutTwice(r, n) ==
    LET kept == AfterCountLimit(AfterSizeLimit(n)) IN
    /\ lru' = Append(kept, r)
    /\ size' = [size EXCEPT ![r] = n]
    /\ expired' = expired \cap (ToSet(kept) \ {r})
    /\ reported' = Len(lru')
    /\ Detach((Cached \ ToSet(kept)) \cup {r})
    /\ UNCHANGED <<getVars, foundOld, running>>

Put(r, n) ==
    LET kept == AfterCountLimit(AfterSizeLimit(n)) IN
    /\ lru' = Append(Without(kept, {r}), r)
    /\ size' = [size EXCEPT ![r] = n]
    /\ expired' = expired \cap (ToSet(kept) \ {r})
    /\ reported' = Len(lru')
    /\ Detach((Cached \ ToSet(kept)) \cup {r})
    /\ UNCHANGED <<getVars, foundOld, running>>

\* One round of Prepull's loop: no limit is enforced, the status is not updated.
Prepull(r) ==
    /\ r \notin Cached
    /\ lru' = Append(lru, r)
    /\ size' = [size EXCEPT ![r] = 0]
    /\ UNCHANGED <<expired, reported, getVars, attached, foundOld, running>>

Invalidate(r) ==
    /\ lru' = Without(lru, {r})
    /\ expired' = expired \ {r}
    /\ reported' = Len(lru')
    /\ Detach({r})
    /\ UNCHANGED <<size, getVars, foundOld, running>>

\* Fault: the expired entries are found and not deleted.
CleanupNothing ==
    /\ running
    /\ reported' = Len(lru)
    /\ UNCHANGED <<lru, size, expired, getVars, attached, foundOld, running>>

\* Fault: the status is not updated.
CleanupSilent ==
    /\ running
    /\ lru' = Without(lru, expired)
    /\ expired' = {}
    /\ Detach(expired)
    /\ UNCHANGED <<size, reported, getVars, foundOld, running>>

CleanupExpired ==
    /\ running
    /\ lru' = Without(lru, expired)
    /\ expired' = {}
    /\ reported' = Len(lru')
    /\ Detach(expired)
    /\ UNCHANGED <<size, getVars, foundOld, running>>

\* The routine sees a closed stopChan.
Stop ==
    /\ running
    /\ running' = FALSE
    /\ UNCHANGED <<lru, size, expired, reported, getVars, attached, foundOld>>

-----------------------------------------------------------------------------
\* Get's first critical section; a miss returns at once.
GetLookup(g, r) ==
    /\ pc[g] = "idle"
    /\ r \in Cached
    /\ pc' = [pc EXCEPT ![g] = "check"]
    /\ found' = [found EXCEPT ![g] = r]
    /\ attached' = attached \cup {g}
    /\ foundOld' = IF r \in expired THEN foundOld \cup {g} ELSE foundOld
    /\ UNCHANGED <<lru, size, expired, reported, running>>

\* The TTL is compared without the lock, on the entry that was found.
GetCheck(g) ==
    /\ pc[g] = "check"
    /\ pc' = [pc EXCEPT ![g] = IF g \in foundOld THEN "delete" ELSE "touch"]
    /\ UNCHANGED <<lru, size, expired, reported, found, attached, foundOld, running>>

\* The map is cleared of whatever entry the reference has now.
GetDelete(g) ==
    /\ pc[g] = "delete"
    /\ lru' = Without(lru, {found[g]})
    /\ expired' = expired \ {found[g]}
    /\ pc' = [pc EXCEPT ![g] = "idle"]
    /\ attached' = attached \ (HoldersOf({found[g]}) \cup {g})
    /\ foundOld' = foundOld \ {g}
    /\ UNCHANGED <<size, reported, found, running>>

\* The found entry becomes the most recently used, if the map still has it.
GetTouch(g) ==
    /\ pc[g] = "touch"
    /\ lru' = IF g \in attached THEN Append(Without(lru, {found[g]}), found[g]) ELSE lru
    /\ pc' = [pc EXCEPT ![g] = "idle"]
    /\ attached' = attached \ {g}
    /\ foundOld' = foundOld \ {g}
    /\ UNCHANGED <<size, expired, reported, found, running>>

\* A cached entry, and the Gets that hold it, pass its TTL.
Expire(r) ==
    /\ r \in Cached \ expired
    /\ expired' = expired \cup {r}
    /\ foundOld' = foundOld \cup (attached \cap HoldersOf({r}))
    /\ UNCHANGED <<lru, size, reported, getVars, attached, running>>

\* An entry that only a Get still holds passes its TTL.
ExpireFound(g) ==
    /\ pc[g] = "check"
    /\ g \notin attached \cup foundOld
    /\ foundOld' = foundOld \cup {g}
    /\ UNCHANGED <<lru, size, expired, reported, getVars, attached, running>>

-----------------------------------------------------------------------------
Get(g) == GetCheck(g) \/ GetDelete(g) \/ GetTouch(g)

Next ==
    \/ \E r \in Refs, n \in Sizes : Put(r, n)
    \/ \E r \in PrepullRefs : Prepull(r)
    \/ \E r \in Refs : Invalidate(r) \/ Expire(r)
    \/ \E g \in Getters : (\E r \in Refs : GetLookup(g, r)) \/ Get(g) \/ ExpireFound(g)
    \/ CleanupExpired \/ Stop

Spec == Init /\ [][Next]_vars

\* The hourly ticker keeps firing and Gets proceed.
FairSpec == Spec /\ WF_vars(CleanupExpired) /\ \A g \in Getters : WF_vars(Get(g))

-----------------------------------------------------------------------------
\* The cache is a map: no reference twice, the status a count, and the Gets
\* between their critical sections known.
TypeOK ==
    /\ lru \in BoundedSeq(Refs, Cardinality(Refs)) /\ IsInjective(lru)
    /\ size \in [Refs -> Sizes \cup {0}]
    /\ expired \subseteq Cached
    /\ reported \in 0 .. Cardinality(Refs)
    /\ pc \in [Getters -> {"idle", "check", "delete", "touch"}]
    /\ found \in [Getters -> Refs]
    /\ attached \subseteq Getters /\ foundOld \subseteq Getters
    /\ running \in BOOLEAN

(***************************************************************************)
(* The configured size is exceeded by one image at most, which had the     *)
(* cache to itself when Put stored it: other entries are Prepull's, which  *)
(* have no size yet.  Gets may have touched or deleted entries meanwhile.  *)
(***************************************************************************)
WithinSize ==
    TotalSize(Cached) <= MaxSize \/ Cardinality({r \in Cached : size[r] > 0}) = 1

(***************************************************************************)
(* Nothing but Prepull takes the number of images above the configured     *)
(* one, or further above it: Put never adds more than it evicts once the   *)
(* limit is reached, also when the image replaces its own entry.           *)
(***************************************************************************)
CountStaysLimited ==
    [][\/ Len(lru') <= Max({Len(lru), MaxCachedImages})
       \/ \E r \in PrepullRefs : Prepull(r)]_vars

\* While the clean-up routine runs, an expired image is removed or replaced.
ExpiredIsRemoved == \A r \in Refs : r \in expired ~> (r \notin expired \/ ~running)

\* The status that Prepull and an expiring Get leave stale is corrected again
\* and again, as long as the clean-up routine runs.
StatusIsCorrected == []<>(reported = Len(lru) \/ ~running)

=============================================================================
