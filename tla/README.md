# A TLA+ verification of kranix-runtime

kranix-runtime turns workload specs into running containers on five backends
(docker, podman, compose, a remote host over ssh, kubernetes) and adds services
on top of them: ephemeral environments, migration between backends, an image
cache, an agent for edge nodes, health tracking, node draining and log streams. This
directory models those services as TLA+ state machines, checks them with TLC on
small instances, and proves the most important results with TLAPS for every
value of the parameters. `PROJECT.json` lists runs, faults, findings, hazards,
theorems, and the source lines each definition translates.

    tlc -workers 2 -config Ephemeral_safety.cfg MCEphemeralManager
    tlapm EphemeralManagerProofs.tla

## The system

| Part | State | Operations | What is hard | What makes it correct |
|---|---|---|---|---|
| Ephemeral environments, `internal/ephemeral` | map of environment statuses, one RWMutex, stop channel | CreateEnvironment, TeardownEnvironment, HandlePRMerge/Close, the cleaner, Stop | write lock held across driver calls; handlers drop the read lock inside a loop over the map; Destroy and Deploy fail half-way | limit on active environments; an environment owns its workload until it ended; phases move forward; calls return; expired environments end |
| Migration, `internal/migration` | none of its own: what exists on two backends | MigrateWorkload: shadow, final, wait, cutover, rollback | no lock, so migrations overlap and are repeated; errors of rollbacks are ignored; cancelled contexts | the workload is never lost; completion means it moved; migrations end |
| Image cache, `internal/cache` | map of images, status, RWMutex | Put, Get, Prepull, Invalidate, hourly clean-up, Stop | Get works on an entry between two critical sections | limits; expired images leave; the status is corrected |
| Edge agent, `internal/edge` | phase, workload counter, heartbeat loops | Start, Stop, DeployWorkload, DestroyWorkload, heartbeats | the driver is called outside the lock that protects the counter; Start may be repeated | the counter misses no workload; Stop ends the loops |
| Health tracker, `internal/health` | slice of samples, RWMutex | Record, Snapshot, the probe ListBackendHealth | Snapshot rewrites the slice under the read lock | a snapshot is the failure rate of the recent samples |
| Node drain, `internal/kubernetes/nodes.go` | the node object and pods of the cluster | DrainNode | read-modify-write of the node; scheduler and kubelets act meanwhile | no lost update; Drained means the pods found were deleted |
| Kubernetes driver, `internal/kubernetes`, with volumes and checkpoints | Deployments, CronJobs, claims and network policies of the cluster; a map of checkpoints | Deploy, Destroy, Restart, CheckpointWorkload, RestoreWorkload | unlocked sequences of API calls that overlap and stop half-way; a map without a lock | no update is lost; nothing is destroyed twice; claims do not outlive the workload unless a call failed; at zero replicas means created so or checkpointed |
| Log streams, `StreamLogs` of every driver | per stream: a buffer, a bounded channel, one or two goroutines, the connection or process they read | StreamLogs, the reading loops, closing | two goroutines share the buffer and the channel that one of them closes; sends that block; reads that end with the log, an error or a cancelled context | chunks arrive in order and once; a log that ended is complete; a stream that is over is closed |
| Docker checkpoints and volumes, the remote connection, registry, plugins | maps; a connected flag | Checkpoint/Restore; Provision/Cleanup; connect; Register/Get | partial provisioning | not modelled, see below |
| Metrics, configuration, spec translation, image references | - | - | - | not modelled: one critical section per method, or no state at all |

The services call a `RuntimeDriver` and share nothing else with each other. What
they depend on is what Deploy, Destroy and GetStatus do when a name is taken or
missing, and where they put a workload and look for it. The module
`RuntimeDriver` states these rules once, backend by backend:

- docker, podman, the remote shell and kubernetes refuse to create a name that
  exists; `compose up` accepts it;
- docker and kubernetes report an error when they destroy what does not exist;
  `podman rm -f` and the remote `docker rm -f` may or may not, depending on the
  version; `compose down` does not;
- kubernetes puts a workload into the namespace of the spec, while Destroy and
  GetStatus look into the namespace of the driver; the others have no namespaces.

## Modules

| Module | Models | Run through |
|---|---|---|
| `RuntimeDriver` | rules of the backends (operators only) | the modules below |
| `EnvironmentPool` | abstract: a bounded pool of leases never reissued | refined by `EphemeralManager` |
| `EphemeralManager` | `ephemeral/lifecycle.go` | `MCEphemeralManager` |
| `EphemeralManagerProofs` | its theorems | |
| `MigrationOrchestrator` | `migration/orchestrator.go` and the driver calls it makes | `MCMigration` |
| `MigrationProofs` | its theorems | |
| `ImageCache` | `cache/image.go` | itself |
| `ImageCacheProofs` | its theorems | |
| `EdgeAgent` | `edge/agent.go` | itself |
| `EdgeAgentProofs` | its theorems | |
| `HealthScore` | the score in `health/scorer.go` (operators only) | `HealthTracker` |
| `HealthTracker` | `health/tracker.go`, `Ping`, `ListBackendHealth` | `MCHealth` |
| `HealthTrackerProofs` | its theorems | |
| `NodeDrain` | `DrainNode` with the API server and the scheduler | `MCDrain` |
| `NodeDrainProofs` | its theorems | |
| `LogStream` | `StreamLogs` of the five drivers | itself |
| `LogStreamProofs` | its theorems | |
| `KubernetesWorkload` | the life of one workload in `kubernetes/`, `volume/lifecycle.go`, `checkpoint/store.go` | `MCKubernetes`; `kubernetes_restart` itself |
| `KubernetesWorkloadProofs` | its theorems | |

Operators commented "Fault" are variants of the definition that follows them,
with a plausible mistake. No specification uses them; replacing the definition by
its variant makes the property named in `PROJECT.json` fail, which shows that the
property depends on that line of the code.

### EphemeralManager

`phase`, `request`, `reason`, `expired` are the map of statuses (`"Absent"`: no
entry), `writer`, `readers` and `pending` the RWMutex, `deployed` the backend, and `pc`,
`env`, `todo`, `arg` the goroutines. An operation is one action up to where it
waits for the lock, one from there to the driver call, and one for each answer
of the driver: the lock is held over the call, so nothing else can be observed
in between. `CreateAdmit`/`CreateReject`, `DeployOK`/`DeployErr` are
CreateEnvironment; `TeardownNothing`, `TeardownBegin`, `DestroyOK`, `DestroyErr`
TeardownEnvironment; `RangeBegin`, `RangeVisit`, `Relock`, `RelockFail`,
`RangeEnd` the loop of the two PR handlers, which differ in the recorded text
only; `CleanupBegin`, `CleanupOne`, `CleanupDestroyed`, `CleanupEnd` one pass of
the cleaner. Cancelling the context of Start has the effect of Stop. A request
carries its PR number, branch, limit, whether its TTL parses, and the name the
caller gave the workload; a disabled request returns before the lock.

The lock prefers writers as Go's does: a `Lock` that finds readers inside becomes
`pending` (`LockWaits`) and keeps new readers out until it has had its turn. The
handlers release the read lock before each teardown, take the write lock in it
and the read lock again after it, so they meet this rule from both sides.
`CallsReturn` depends on it. A tick of the cleaner (`CleanupTick`) and its taking
of the lock are two steps.

`HeldIsDeployed` relates the map to the backend: an environment that is Ready, or
whose teardown has not succeeded, has its workload there and shares it with no
other, although two environments of one pull request bear the same name. It
holds because the backend refuses the second deployment, which is why the theorem
`Ownership` excludes compose. It is stated place by place, since the code does
lose a workload in two ways. A Destroy may fail after it removed the workload
(docker removes the container and then cleans up volumes); the history variable
`emptied` collects the places where that happened, and nothing is promised for
them. And nothing ties the name in the spec to that of the environment, by which
Destroy looks: a place where the teardown of a misnamed environment looks is
excluded too. Whatever else fails or overlaps, there is no third way.
`LeaksAreRecorded` is the other direction: a workload no environment holds any
more is one whose recorded reason tells of the failure, or one that does not bear
its environment's name.

### MigrationOrchestrator

`inst` says for the workload and its shadow, on each backend, whether they exist
(`Created`), run, or were started and have exited. A Deploy on kubernetes only
stores a Deployment; its pods come up (`Start`), and the processes of the
workload exit and are restarted (`Exit`, `Start`), at any time. `pc` is the call each `MigrateWorkload` is about to make.
Every call may fail without effect, or (`CallsFail`) after it had one. A caller
slot is reused after its migration ended, so retries are covered, and requests
may name a source that does not have the workload.
`ReportsRunning` is what GetStatus answers: docker filters by a substring of the
name, so that the shadow can answer for the workload; compose calls everything
Running that is not listed as Exited or Created; kubernetes waits for the pods
that exist. `StartedRemains` is what the wait before the cutover is for: without
it, a migration to kubernetes removes the source for a Deployment no pod came up
for. The exit of a shadow is left out: only a wait looks at one, and a wait may
fail anyway.

### ImageCache

The map is the sequence `lru` of references by last access. Get is split at its
two critical sections; `attached` says whether the entry it found is still the
one in the map. Prepull is one action per image, since it takes the lock for
each.

### EdgeAgent

The driver call and the update of the counter are two actions of a caller. A
driver call that fails without effect changes nothing; `unseen` (history) counts
the workloads that a failing Deploy left behind. Start is split at its critical
sections, so that a Stop can come between them. Registration, the heartbeat and
the workload listener are stubs in the code: `sendHeartbeat` builds its request,
drops it and stamps LastHeartbeat, so that nothing is reported to anybody and a
tick is no action here. What is left of a heartbeat loop is that it ends through
stopChan; its context would end it the same way.

### HealthTracker

Record is one action. Snapshot is one action per access to the shared array:
capturing the slice, reading an element, writing it back, shortening the slice,
counting, dividing. Two accesses to one element that overlap may see or leave any
mix of the time and the outcome of the samples (the outcome of a data race on a
struct of several words; the time is taken as a unit). Writing beyond a slice
that another snapshot shortened panics. `overlapped` (history) remembers that two
snapshots were under way at once: `SnapshotExact` promises nothing after that,
unless no sample has left the window.

`ReportSound` follows the rate into the report of ListBackendHealth: of the
samples that should count, no failure (and a ping that succeeds) means Healthy,
more than half failed means not Healthy, and the score is between 0 and 100. The
comment of the scorer and the repository's README promise that range without
exception. Under the same overlaps as above it does not hold, since the divisor
is the length of the slice at the division and not the number of samples that
were counted: one failed sample of one, divided by a length of three, is a
Healthy backend. Nothing is claimed for them. A rate is a
pair of failures and samples, so that `HealthScore` can say what the floating
point code does with n/0 (infinite, score 0) and 0/0 (NaN, which neither
comparison of `clampScore` holds for, so that the score is what the processor
makes of it). It is checked for a latency of each class.

### NodeDrain

The node object has a version, the cordon (Unschedulable, label and taint are
set together) and what other clients wrote, who may also set and lift the cordon.
The API server, the scheduler and the kubelets are external. The scheduler
chooses the node when it is not cordoned, or for a pod that tolerates the taints
(`Tolerant`: those of DaemonSets, kube-proxy), and binds later. `CordonKept` says
that no other drain, however old its copy, opens the node behind one that
cordoned it; somebody else may.

### KubernetesWorkload

One name in one namespace: its Deployment, CronJob, claims and network policy at
the API server, and callers whose operations are one action per API call. An
Update is refused when the version read is no longer the current one, and one
that changes nothing keeps the version; that is how the API server behaves and
why `UpdatesCompose` holds without a lock. `todo` holds the volumes a loop has
still to handle. Two details of the code matter:

- `alreadyExists` and `notFound` look for "AlreadyExists" and "NotFound" in the
  message of the error, where API errors say "already exists" and "not found": a
  claim that exists, or that another call deleted first, is an error;
- network policies are created after the workload and deleted by nobody, so that
  the next Deploy with a policy creates the workload and then fails.

Specs name the namespace of the driver (for others see the observations below).
GetStatus is one step. The process ends only through the unsynchronised map of
checkpoints, which loses every record. `created`, `destroyed`, `failed`,
`unrecorded` and the field `asCreated` of the Deployment are history. A spec may
ask for zero replicas, which Deploy stores as it is: `ZeroIsRecorded` is about the
Deployments that were scaled down after that. `NoOrphanClaims` says nothing once
a call has failed.

### LogStream

One StreamLogs call of a driver chosen in `Init`. `main` is the goroutine every
driver starts; podman and compose start `inner` for stdout inside it. `log` is
everything ever sent and `got` how much was received, so that the channel holds
the difference, at most `Capacity`. A chunk is what one Read returns; reading it
into the buffer and copying it into a string are two steps, between which the
other goroutine may read into the same buffer (`buf`, `whole`).

The drivers differ in where they look at the context (`CheckContext`: kubernetes,
between reads; HTTP bodies fail when it is cancelled; `Kill`: the process of
podman and compose is killed; ssh does not hear of it), in what an end of the
log looks like (`ReadFails`, and `ReadWithEOF` for an HTTP body that returns its
last bytes with EOF) and in what comes before closing (`Wait`). The workload, the
connection, the context and the receiver are external.

`InOrder` says what holds on every driver at every moment, `Complete` what the
receiver may conclude from a closed channel, and `StreamEnds` that a stream that
is over is closed and its goroutines end. Both exceptions in `StreamEnds` are real
and reachable; see the observations.

## Runs

Passing runs (distinct states):

| Run | Shows |
|---|---|
| `ephemeral_safety` (1.6 million) | two callers, the cleaner, three environments, docker with calls that fail before or after their effect, limits 1 and 2, workloads named after the environment or not: the limit holds, what was established under the lock stays true, ownership but where a failing teardown or another name took the workload, no silent leaks of workloads that bear their environment's name, forward-only phases, refinement of the pool |
| `ephemeral_liveness` (110,000) | podman, failing calls, one pull request, writers that keep readers out: calls return; expired environments leave Ready |
| `migration_overlap` (1.7 million) | two concurrent callers, three backends, failing calls, processes that exit: one copy more than there are migrations about to remove one; the last copy that was started is never removed |
| `migration_single` (190,000) | failing calls, processes that exit, cancelled contexts, a remote backend, repeated migrations: never lost; completed means that the target was started and the source is gone; every migration ends |
| `cache` (110,000) | limits hold whatever a Get does between its critical sections, but for what Prepull adds; expired images are removed and the status corrected |
| `edge` (14,000) | three overlapping callers, repeated Start, Stop: the counter misses no workload, Stop ends the loops |
| `health_overlap` (2.7 million) | two probers, samples expire: snapshots that do not overlap are exact, overlapping ones invent nothing; the reports of exact snapshots are sound: the score is in range, and Healthy or not agrees with the recent samples |
| `drain_overlap` (2.6 million) | two drains, the scheduler with tolerating pods, other clients who cordon and uncordon, failing calls: no lost update, only others lift a cordon, Drained means deleted |
| `kubernetes` (2.4 million) | two callers, two volumes, specs with and without replicas, failing calls: updates compose, a Deployment scaled to zero is recorded, nothing is destroyed twice; as long as no call has failed, no orphaned claims |
| `log_stream` (66,000) | each driver, a channel that fills, cancellation, broken connections, a receiver that leaves: order, completeness, every stream that is over ends |

Runs that refute a statement of the repository (the quotations are in
`PROJECT.json`, "findings"):

| Run | What happens |
|---|---|
| `ephemeral_expiry` | after a failed teardown an expired environment is never cleaned: the cleaner looks at Ready ones only |
| `kubernetes_restart` | the second Restart of a Deployment succeeds and replaces no pod, since its annotation has a constant value |

### Observations

Seen while reading and modelling; the models have these behaviours unless said
otherwise, and no run is about them.

- On kubernetes, Deploy puts a workload into the namespace of its spec and reads
  its status from the namespace of the driver: with another namespace every
  Deploy fails and its workload runs.
- A caller that gives the workload a name of its own keeps it: the teardown
  destroys the name of the environment, which may be another's workload, and on
  a backend that reports nothing missing it succeeds and the leak goes unrecorded.
- On docker, a Destroy that fails in the clean-up of volumes has removed the
  container. The environment stays Terminating, the next one of its name is
  deployed, and the repeated teardown of the first (lifecycle.go:133) destroys
  that one's workload.
- Compose accepts a deployment that exists. A repeated migration to compose can
  therefore roll back the only copy, and two environments can share a workload;
  this is why the theorems exclude it.
- The cutover asks a fresh remote driver to destroy, which never connected: a
  migration away from the remote backend fails there.
- Readiness is the state Running, so the source can go before the target serves;
  on docker the running shadow can answer for a workload that has exited; and a
  target that exits after the wait is not noticed.
- Prepull ignores both limits of the cache, and an image larger than the cache is
  stored. A Get can delete the fresh entry that a Put has just stored.
- A pod bound after the drain's list arrives on a node reported as Drained.
- A second Stop closes a closed channel (not modelled: Stop happens once).
- Two snapshots that prune at once can return an error rate above 1 or a division
  by zero, although the scorer documents a rate between 0 and 1, and an index can
  be out of range; 0/0 becomes a score that may be negative. `OnlyRecorded` says
  that this needs an overlap and that no sample is invented even then;
  `SnapshotExact` and `ReportSound` claim nothing after one that prunes.
- On podman and compose, the goroutine of stderr closes the channel when stderr
  ends and the process has: what is left of stdout is lost, and if the goroutine
  of stdout is about to send, or blocked in a full channel, the send panics. The
  two goroutines can also garble a chunk in their shared buffer.
- The remote driver discards stdout; an HTTP body that returns its last bytes with
  EOF loses them; a goroutine whose channel is full and has no receiver stays for
  ever, whatever the context.
- A Deployment deployed with zero replicas looks in the cluster like one that was
  checkpointed. A Destroy that fails in the clean-up of claims leaves them for
  ever: when it is repeated, the Deployment is no longer found and it stops there.
- Destroying the CronJob of a name deletes the claims of a Deployment of the same
  name; RestoreWorkload sets one replica, whatever there were.

### Bounds

- Environments: three identifiers let two of them share a name while a third
  reuses it after the first ended, and exceed the limit of two if it could be
  exceeded. One of the specs gives its workload another name. `IDsRemain` keeps
  callers from asking for more environments than there are.
- Migrations: two callers interleave every pair of calls; slots are reused, so the
  number of migrations is unbounded. Three backends allow a wrong source and a
  third place; the backends differ, so there is no symmetry to use among them.
- Cache: three images and a count limit of two; sizes 1, 2 and 4 against a size
  limit of 3 give images that fit together, alone, and not at all. One Get is
  enough to be overtaken by everything else between its critical sections.
- Edge agent: two workloads and three callers; `MaxCount` bounds how far
  overlapping calls may let the counter drift, `MaxUnseen` the failing Deploys
  that leave a workload, `MaxStarts` the calls of Start.
- Health: three samples are kept of up to five recorded over three ticks with a
  window of two, so that trimming and pruning both happen, in both orders. The
  bounded clock ends behaviours, hence no deadlock check.
- Drain: an application's, a DaemonSet's and kube-proxy's pod, the last two
  tolerating the taints; three updates of
  the node, so that two drains and another client conflict.
- Kubernetes: three writes allow a Deployment to be created and changed twice by
  conflicting callers, to be changed and replaced, or to live beside a CronJob;
  zero replicas and two tell an empty Deployment apart; two volumes let
  provisioning and clean-up stop between them.
- Logs: a channel of one chunk (100 in the code) is full after one send, which is
  what blocking and the panic need; two chunks of each stream let one be in the
  channel, one in the buffer, and order be lost if it could be. The theorems hold
  for every capacity and length. A stream may simply be quiet, hence no deadlock
  check.

Symmetry is used for the callers, probers and drains of `ephemeral_safety`,
`migration_overlap`, `kubernetes`, `health_overlap` and `drain_overlap`, which
have no liveness properties. Two runs have a view (`Relevant`) that leaves out
what no later step and, but for its type, no property of the run depends on: the
expiry of environments that are no longer Ready in `ephemeral_safety`; how the
last migration of a caller ended, and whether a spec was passed once the status is
loaded (which matters to compose only), in `migration_overlap`.

### Fairness

- Driver calls return, loops advance, tickers keep firing: weak fairness.
- Waiting for the RWMutex: strong fairness, since Go hands the lock to waiting
  goroutines in turn.
- Log streams: the goroutines run, os/exec kills the process of a cancelled
  context, and a receiver that has not left receives: weak fairness. The workload
  need neither write nor end.
- Nobody has to call an operation, to call Stop or to cancel a context.

## Proofs

What TLAPS shows, for every value of the constants that satisfies the named
assumptions:

- `EphemeralManagerProofs`. The invariant `IInv == TypeOK /\ LockInv /\ CallInv`
  is inductive: the program counters say who holds the lock, and what a goroutine
  established under it (the environment is Creating, Terminating, Ready) is still
  true when the driver answers. From it, `Effects` shows that every step is, for
  the map and the backend, one of a few effects on one environment. The limit
  (`LimitHolds`), the refinement of the pool (`ImplementsPool`), the order of the
  phases (`MovesForward`) and ownership (`Ownership`) follow effect by effect. The
  limit is proved from the pool: admission is the only step that takes a slot.
  `Ownership` assumes that the driver is not compose and nothing of the names or
  of what a failing Destroy leaves: the exceptions are in the property.
  `LeaksRecorded` goes the other way, from the backend to the map: every effect
  that gives up a workload it may leave behind writes a reason that says so.
- `MigrationProofs`. `NeverLost` is not inductive: two migrations could each hold
  the copy the other is about to remove. `Covered` is: there is one copy more than
  there are migrations between their deployment and their removal. It needs that
  no backend deploys over an existing workload, so compose is excluded, as the
  observation on repeated migrations requires. `StartedCopyRemains` is
  about started copies, and kubernetes stores Deployments without starting them,
  so debts are counted twice (`CopiesCovered`, `StartedCovered`). While a
  Deployment is pending, only the `Settled` debts need a started copy: a migration
  that has not seen its Deployment ready removes nothing but that Deployment. When
  none is pending, every copy is a started one, and the count of all copies is the
  count of started ones. The wait is what settles a debt.
  `CompletionIsMove` needs migrations that do not overlap; its invariant `Moving`
  says what the one migration has established at each call.
- `EdgeAgentProofs`. `NeverUnderReports` counts the calls between driver and
  counter on both sides, which makes it inductive. It needs a backend that reports
  a missing workload (docker, kubernetes): otherwise a Destroy of nothing is
  counted.
- `KubernetesWorkloadProofs`. `IInv` says that versions are given out in order and
  that a copy with the version of the Deployment equals it (`CopyInv`), which is
  what the conflict check of an Update relies on. `Effects` again reduces every
  action to one of nine effects on the objects. From these, accepted Updates
  change the Deployment as it is (`NoUpdateLost`), zero replicas come from the spec
  or a checkpoint (`ZeroMeansCheckpointed`), and the balance of objects created,
  existing, being cleaned up after and destroyed holds (`NothingDestroyedTwice`).
  The API server's refusal of stale Updates is the assumption they rest on.
  `ClaimsNotOrphaned` adds `ClaimsInv`: without failed calls, a claim belongs to a
  Deployment or to a volume that a Deploy or Destroy under way has still to handle.
- `NodeDrainProofs`. The invariant says that a drain's copy with the version of
  the node equals it in what others wrote, which gives `UpdatesSurvive`, and that
  a pod once listed is terminating, gone, skipped or still to do, which gives
  `DrainedDeleted`. `CordonStays` follows from the drains' updates setting the
  cordon and all others being counted.
- `LogStreamProofs`. `InOrder` becomes inductive with the facts that a goroutine
  has sent all it has read but the chunk in its hands, and that a chunk can be
  damaged only after both streams were read. `CompleteAtClose` adds what the end
  of the loop established: nothing was left to read but, over HTTP, the last chunk.

- `ImageCacheProofs`. The invariant is `TypeOK /\ WithinSize /\ Held`; `Held` (the
  entry of a Get that is still attached is cached) is what lets the second
  critical section of Get move or delete it. `SizeLimitFacts` follows the eviction
  loop of Put: it stops at the first suffix of the order of access that leaves
  room, and what it keeps with the new image fits, or the new image is alone with
  a size. `CountKept`: at the limit Put evicts one
  entry before it stores one, and an entry of its own is replaced.
- `HealthTrackerProofs`. The invariant has three parts. `Basic` holds whatever
  overlaps: the loops stay inside the array (not inside the slice, which another
  snapshot may shorten), every field in the array or in a prober's hand was
  recorded (`AllGenuine`), and samples are recorded in the order of the clock
  (`Sorted`). `ProperRates` says that panics and improper rates need an overlap.
  `Calm => Exact` is the part that `SnapshotExact` needs. It is calm if no
  snapshots have overlapped or no sample has left the window, and once this ends it
  does not come back. As long as it is calm, the slice holds the last samples
  recorded and none missing from it would count; a pruning snapshot has moved a
  known number of them down (`PruneExact`), because the samples are sorted and only
  the oldest are dropped; overlapping ones write what is already there
  (`WritersExact`), so that a torn read is none. `SnapshotsExact` then only has to
  see that the slice is `Recent` when the loop divides. `ReportsSound` applies
  the arithmetic of the score (`ScoreFacts`) to the exact rates, where failures
  and divisor are those of the recent samples (`ExactRateFacts`).

The last two modules reason about folds (the sum of the sizes, the loop of
pruneLocked) and sequences of any length. The library's induction theorems cannot
be instantiated by the installed provers, so they take a smallest counterexample
instead (`Smallest`, from the well-foundedness of strict inclusion on the subsets
of a finite set), state what one round of the loop does, and conclude what the
table of its rounds holds (`FoldExists`, `FoldUnique`, `PrunedRounds`,
`WithoutRounds`). This is why the images of the cache are assumed to be finitely
many, which a cache in memory is, and why both loops are written as `FoldLeft`.

Every invariant and every action property of the runs that pass is a theorem. Only
model-checked: the liveness properties, which with ENABLED are out of the
prover's reach.

## What is left

- Docker: checkpoint by pausing, restore, and volumes by label; for Kubernetes,
  ProvisionVolumes and CleanupVolumes as calls of their own.
- Registration and activation of plugins and their effect on the registry.
- The remote driver's connection, beyond that a fresh driver is not connected.
- ListNodeHealth with ScoreNodeReady, a pure function of one listed node.

These are sequential or hold one lock per call; they were put after the services
above, where calls overlap.

## Not modelled

Translation of specs into API objects (affinity, GPU, probes, bandwidth, the
rules of network policies), image references, configuration, metrics, and the entry point: they
have no state, or one critical section per method. Read-only operations
(GetEnvironment, ListEnvironments, ListWorkloads, ListNodeHealth) change nothing.
Latencies are averaged by the loop that counts failures; the average is any
latency.
