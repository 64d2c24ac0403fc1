---------------------------- MODULE HealthTracker ----------------------------
(***************************************************************************)
(* The backend health tracker, internal/health/tracker.go, and the probe   *)
(* that uses it, ListBackendHealth in internal/kubernetes/nodes.go.        *)
(*                                                                         *)
(* Record takes the write lock and is one step.  Snapshot takes the read   *)
(* lock only, and prunes the samples in place: snapshots run concurrently  *)
(* on the array they all rewrite, so each of their accesses to it is a     *)
(* step.  A sample is reduced to its time and whether the call failed; the *)
(* latency is averaged by the same loop.                                   *)
(***************************************************************************)
EXTENDS Integers, Sequences, SequencesExt, FiniteSetsExt, HealthScore

CONSTANTS
    Probers,       \* goroutines calling ListBackendHealth
    Window,        \* how long a sample counts
    MaxSamples,    \* how many are kept
    MaxTime,       \* bound on the clock
    MaxRecords     \* bound on the samples ever recorded

ASSUME TrackerAssumption ==
    Window \in Nat \ {0} /\ MaxSamples \in Nat \ {0} /\ MaxTime \in Nat /\ MaxRecords \in Nat

Samples == [at : 0 .. MaxTime, failed : BOOLEAN]

VARIABLES
    cells,      \* the array under t.samples, from the slice's first element
    len,        \* len(t.samples)
    now,        \* the clock
    history,    \* every sample ever recorded
    pc,         \* where each prober is
    loc,        \* its locals, see Locals
    rate,       \* the last error rate it returned, <<failures, samples>>
    overlapped  \* two snapshots were under way at once (history)

vars == <<cells, len, now, history, pc, loc, rate, overlapped>>

(***************************************************************************)
(* err: the ping failed; at: Snapshot's now; n: the length captured by the *)
(* range loop; j: its index; i: where pruning writes next; s: the sample   *)
(* in hand; failures: the count so far.                                    *)
(***************************************************************************)
Locals == [err : BOOLEAN, at : 0 .. MaxTime, n : 0 .. MaxSamples, j : 1 .. MaxSamples + 1,
           i : 0 .. MaxSamples, s : Samples, failures : 0 .. MaxSamples]

NoSample == [at |-> 0, failed |-> FALSE]

\* The error rate 0, as a fraction.
NoFailure == <<0, 1>>

\* Fault: the slice is made with a length instead of a capacity.
InitFilled ==
    /\ cells = [k \in 1 .. MaxSamples |-> NoSample]
    /\ len = MaxSamples
    /\ now = 0
    /\ history = <<>>
    /\ pc = [p \in Probers |-> "idle"]
    /\ loc = [p \in Probers |-> [err |-> FALSE, at |-> 0, n |-> 0, j |-> 1, i |-> 0,
                                 s |-> NoSample, failures |-> 0]]
    /\ rate = [p \in Probers |-> NoFailure]
    /\ overlapped = FALSE

Init ==
    /\ cells = <<>>
    /\ len = 0
    /\ now = 0
    /\ history = <<>>
    /\ pc = [p \in Probers |-> "idle"]
    /\ loc = [p \in Probers |-> [err |-> FALSE, at |-> 0, n |-> 0, j |-> 1, i |-> 0,
                                 s |-> NoSample, failures |-> 0]]
    /\ rate = [p \in Probers |-> NoFailure]
    /\ overlapped = FALSE

Goto(p, label) == pc' = [pc EXCEPT ![p] = label]

\* p holds the read lock.
InSnapshot(p) == pc[p] \in {"prune", "keep", "sum", "count"}

\* s.at.After(now.Add(-window))
Counts(s, time) == s.at + Window > time

Newest(q, n) == IF Len(q) > n THEN SubSeq(q, Len(q) - n + 1, Len(q)) ELSE q

\* pruneLocked, run without interruption.
Pruned(q, time) ==
    FoldLeft(LAMBDA kept, s : IF Counts(s, time) THEN Append(kept, s) ELSE kept, <<>>, q)

-----------------------------------------------------------------------------
\* Fault: the number of samples is not limited.
RecordUnlimited(failed) ==
    LET s == [at |-> now, failed |-> failed] IN
    /\ \A p \in Probers : ~InSnapshot(p)
    /\ Len(history) < MaxRecords
    /\ cells' = Pruned(Append(SubSeq(cells, 1, len), s), now)
    /\ len' = Len(cells')
    /\ history' = Append(history, s)
    /\ UNCHANGED <<now, rate, overlapped>>

\* Record: mu is free of snapshots, and nothing sees the array half written.
Record(failed) ==
    LET s == [at |-> now, failed |-> failed] IN
    /\ \A p \in Probers : ~InSnapshot(p)
    /\ Len(history) < MaxRecords
    /\ cells' = Pruned(Newest(Append(SubSeq(cells, 1, len), s), MaxSamples), now)
    /\ len' = Len(cells')
    /\ history' = Append(history, s)
    /\ UNCHANGED <<now, rate, overlapped>>

\* Ping, called by itself.
Ping(failed) == Record(failed) /\ UNCHANGED <<pc, loc>>

\* ListBackendHealth pings, and records the ping once more.
ProbePing(p, failed) ==
    /\ pc[p] = "idle"
    /\ Record(failed)
    /\ loc' = [loc EXCEPT ![p].err = failed]
    /\ Goto(p, "record")

ProbeRecord(p) ==
    /\ pc[p] = "record"
    /\ Record(loc[p].err)
    /\ Goto(p, "snapshot")
    /\ UNCHANGED loc

-----------------------------------------------------------------------------
(***************************************************************************)
(* The array is read and written by several snapshots at once.  An access  *)
(* that overlaps a write of the same element may see, or leave, any mix of *)
(* the two samples' fields.                                                *)
(***************************************************************************)
Writing(k) == {loc[q].s : q \in {q \in Probers : pc[q] = "keep" /\ loc[q].i + 1 = k}}

Mixed(some) == [at : {s.at : s \in some}, failed : {s.failed : s \in some}]

\* Snapshot reads the clock, and pruneLocked's loop captures the slice.
Snapshot(p) ==
    /\ pc[p] = "snapshot"
    /\ loc' = [loc EXCEPT ![p] = [@ EXCEPT !.at = now, !.n = len, !.j = 1, !.i = 0]]
    /\ Goto(p, "prune")
    /\ overlapped' = (overlapped \/ \E q \in Probers : InSnapshot(q))
    /\ UNCHANGED <<cells, len, now, history, rate>>

PruneRead(p) ==
    /\ pc[p] = "prune" /\ loc[p].j <= loc[p].n
    /\ \E s \in Mixed({cells[loc[p].j]} \cup Writing(loc[p].j)) :
        /\ loc' = [loc EXCEPT ![p].s = s, ![p].j = @ + 1]
        /\ Goto(p, IF Counts(s, loc[p].at) THEN "keep" ELSE "prune")
    /\ UNCHANGED <<cells, len, now, history, rate, overlapped>>

\* The element is assigned through t.samples, whose length is the current one.
PruneKeep(p) ==
    LET k == loc[p].i + 1 IN
    /\ pc[p] = "keep" /\ k <= len
    /\ \E s \in Mixed(Writing(k)) : cells' = [cells EXCEPT ![k] = s]
    /\ loc' = [loc EXCEPT ![p].i = k]
    /\ Goto(p, "prune")
    /\ UNCHANGED <<len, now, history, rate, overlapped>>

\* Another snapshot has shortened the slice meanwhile: index out of range.  The
\* panic releases the lock and ends this prober; others go on if it is recovered.
PrunePanic(p) ==
    /\ pc[p] = "keep" /\ loc[p].i + 1 > len
    /\ Goto(p, "panicked")
    /\ UNCHANGED <<cells, len, now, history, loc, rate, overlapped>>

PruneEnd(p) ==
    /\ pc[p] = "prune" /\ loc[p].j > loc[p].n
    /\ len' = loc[p].i
    /\ Goto(p, "sum")
    /\ UNCHANGED <<cells, now, history, loc, rate, overlapped>>

\* Fault: the failures of the last snapshot are counted again.
SumBeginCarriesOver(p) ==
    /\ pc[p] = "sum"
    /\ \/ len = 0 /\ rate' = [rate EXCEPT ![p] = NoFailure] /\ Goto(p, "idle") /\ UNCHANGED loc
       \/ /\ len > 0 /\ Goto(p, "count") /\ UNCHANGED rate
          /\ loc' = [loc EXCEPT ![p] = [@ EXCEPT !.n = len, !.j = 1]]
    /\ UNCHANGED <<cells, len, now, history, overlapped>>

\* No samples: rate 0.  Otherwise the second loop captures the slice.
SumBegin(p) ==
    /\ pc[p] = "sum"
    /\ \/ len = 0 /\ rate' = [rate EXCEPT ![p] = NoFailure] /\ Goto(p, "idle") /\ UNCHANGED loc
       \/ /\ len > 0 /\ Goto(p, "count") /\ UNCHANGED rate
          /\ loc' = [loc EXCEPT ![p] = [@ EXCEPT !.n = len, !.j = 1, !.failures = 0]]
    /\ UNCHANGED <<cells, len, now, history, overlapped>>

Count(p) ==
    /\ pc[p] = "count" /\ loc[p].j <= loc[p].n
    /\ \E s \in Mixed({cells[loc[p].j]} \cup Writing(loc[p].j)) :
        loc' = [loc EXCEPT ![p].failures = IF s.failed THEN @ + 1 ELSE @, ![p].j = @ + 1]
    /\ UNCHANGED <<cells, len, now, history, pc, rate, overlapped>>

\* The failures counted are divided by the current length, 0 included.
Divide(p) ==
    /\ pc[p] = "count" /\ loc[p].j > loc[p].n
    /\ rate' = [rate EXCEPT ![p] = <<loc[p].failures, len>>]
    /\ Goto(p, "idle")
    /\ UNCHANGED <<cells, len, now, history, loc, overlapped>>

Tick ==
    /\ now < MaxTime
    /\ now' = now + 1
    /\ UNCHANGED <<cells, len, history, pc, loc, rate, overlapped>>

-----------------------------------------------------------------------------
Probe(p) ==
    \/ \E failed \in BOOLEAN : ProbePing(p, failed)
    \/ ProbeRecord(p) \/ Snapshot(p) \/ PruneRead(p) \/ PruneKeep(p) \/ PrunePanic(p)
    \/ PruneEnd(p) \/ SumBegin(p) \/ Count(p) \/ Divide(p)

Next ==
    \/ \E p \in Probers : Probe(p)
    \/ \E failed \in BOOLEAN : Ping(failed)
    \/ Tick

Spec == Init /\ [][Next]_vars

-----------------------------------------------------------------------------
\* The slice stays within its array, every prober within its loop's bounds.
TypeOK ==
    /\ cells \in Seq(Samples) /\ Len(cells) <= MaxSamples /\ len \in 0 .. Len(cells)
    /\ now \in 0 .. MaxTime
    /\ history \in Seq(Samples) /\ Len(history) <= MaxRecords
    /\ pc \in [Probers -> {"idle", "record", "snapshot", "prune", "keep", "sum", "count",
                        "panicked"}]
    /\ loc \in [Probers -> Locals]
    /\ rate \in [Probers -> (0 .. MaxSamples) \X (0 .. MaxSamples)]
    /\ overlapped \in BOOLEAN

\* The recorded samples that a snapshot taken at a given time should count.
Recent(time) == {k \in DOMAIN history : k + MaxSamples > Len(history) /\ Counts(history[k], time)}

(***************************************************************************)
(* A snapshot is exact: what it returns is the rate of failures among the  *)
(* last MaxSamples ever recorded that are within the window, although      *)
(* samples were dropped and pruned at many earlier times.  It holds as     *)
(* long as no two snapshots have overlapped, and for overlapping ones as   *)
(* long as no sample has left the window.                                  *)
(***************************************************************************)
SnapshotExact ==
    [][\A p \in Probers :
        /\ InSnapshot(p) /\ pc'[p] = "idle"
        /\ ~overlapped \/ \A k \in DOMAIN history : Counts(history[k], now)
        =>
        LET recent == Recent(loc[p].at)
        IN  rate'[p] = IF recent = {} THEN NoFailure
                       ELSE <<Cardinality({k \in recent : history[k].failed}), Cardinality(recent)>>]_vars

(***************************************************************************)
(* However many snapshots prune at once, they invent nothing: the time and *)
(* the outcome of every sample in the slice are those of samples that were *)
(* recorded, though perhaps not of the same one; and a prober can be       *)
(* stopped by an index out of range, or return a rate above 1 or divided   *)
(* by zero, only after snapshots have overlapped.                          *)
(***************************************************************************)
OnlyRecorded ==
    /\ \A k \in 1 .. len :
        /\ \E h \in DOMAIN history : history[h].at = cells[k].at
        /\ \E h \in DOMAIN history : history[h].failed = cells[k].failed
    /\ \A p \in Probers :
        pc[p] = "panicked" \/ rate[p][1] > rate[p][2] \/ rate[p][2] = 0 => overlapped

\* The scores that ListBackendHealth may report with an average latency.
Scores(p, latencyMs) == ScoreFromSignals(latencyMs, rate[p][1], rate[p][2])

Healthy(p, score) == score >= 50 /\ ~loc[p].err

\* One latency of each class that the score tells apart.
Latencies == {100, 200, 500, 1000, 2000, 2001}

(***************************************************************************)
(* The verdict agrees with what was recorded: a backend whose own ping     *)
(* succeeded is Healthy when none of the samples that should count failed, *)
(* not Healthy when more than half of them did, and its score is between 0 *)
(* and 100.  scorer.go promises that range without exception, but after    *)
(* snapshots have overlapped and a sample has expired the rate may be no   *)
(* number, or be divided by a length that is not that of the samples       *)
(* counted, and nothing is claimed.                                        *)
(***************************************************************************)
ReportSound ==
    [][\A p \in Probers :
        /\ InSnapshot(p) /\ pc'[p] = "idle"
        /\ ~overlapped \/ \A k \in DOMAIN history : Counts(history[k], now)
        =>
        LET recent == Recent(loc[p].at)
            failed == {k \in recent : history[k].failed}
        IN  \A latencyMs \in Latencies : \A score \in Scores(p, latencyMs)' :
                /\ score \in 0 .. 100
                /\ Healthy(p, score) => 2 * Cardinality(failed) <= Cardinality(recent)
                /\ failed = {} /\ ~loc[p].err => Healthy(p, score)]_vars
=============================================================================
