# native-kubelet in TLA+

native-kubelet is a fork of virtual-kubelet. It registers a node with a
Kubernetes API server and runs the pods bound to that node through a provider;
the "native" provider runs every container as a process of the host. This
directory holds TLA+ modules for the parts of the program whose correctness
depends on the order of events, TLC configurations that check them on small
instances, and TLAPS proofs of what matters most for every instance.

Contents: [inventory](#inventory-of-the-system), [modules](#the-modules),
[runs](#the-runs), [fairness](#fairness), [proofs](#the-proofs),
[disagreements](#where-the-code-disagrees-with-its-comments),
[known limits](#known-limits-of-the-code), [not modelled](#not-modelled).

## Inventory of the system

| Part | State | Operations | Hard behaviours |
|---|---|---|---|
| Work queue `internal/queue` | client-go queue, rate limiter, workers | Enqueue, EnqueueAfter, EnqueueWithoutRateLimit, Forget, Run, handleQueueItem | a key enqueued while handled, requeue against Forget, a limiter shared by three queues, shutdown |
| Pod controller `node/podcontroller.go`, `node/pod.go` | knownPods, three queues | informer handlers, sync, delete and status handlers, NotifyPods callback, deleteDanglingPods | late events of a pod of the same name, replaced knownPods entries, stale lister, crash between API and provider |
| Native process manager `provider/native/process_manager.go` with `process_runner.go`, `image_puller.go`, `resource_downloader.go`, `event.go` | records in bitcask, PodProcess objects, processes, subscribers | CreatePod, UpdatePod, DeletePod, Start, container goroutines, recorder, daemon | asynchronous recording, restart against deletion, recovery from the database |
| Native status handler `provider/native/pod.go` | container statuses | OnPodStart, OnContainerRun, OnFinish, setPhase | index computation, late subscription |
| Native image manager `provider/native/image_manager.go` | map of running pulls, image database, archives | PullImage, UnzipImage | concurrent pulls of one image, crash while pulling |
| Node, ping and lease controllers `node/node.go`, `node_ping_controller.go`, `lease_controller_v1.go` | node object, last ping result, lease and copies of both | control loop, three-way status patch, ping, lease renewal | pings that outlive their check, other writers, a node deleted and created again, conflicts, lost answers, shutdown while a ping hangs |
| Monitor variable `internal/lock` | value, version, channels | Set, Subscribe, NewValueReady, Value | a Set between reading and waiting |
| Sync provider wrapper `node/sync.go` | deletion cache | polling, DeletePod, _deletePodKey | deletion while polling, a successor of the same name, keys that stay |
| Environment `internal/podutils`, `internal/expansion`, `internal/manager` | informer caches, the map being built | PopulateEnvironmentVariables, Expand | caches that change between reads, order of services, ends of the text |
| HTTP API, remote commands, root command, registry, mock provider, logging, tracing | none that a property depends on | I/O and wiring | |

How they interact: the pod informer calls the event handlers, which put keys
into the three queues; the workers of the queues call the handlers of the pod
controller, which call the provider; the provider reports status changes
through the NotifyPods callback, which feeds the status queue. In the native
provider CreatePod writes a record and starts the goroutine of the pod; the
goroutines of its containers send events over one bus to the recorder (which
writes the record), the daemon (which restarts containers) and the status
handler (which calls the callback). Containers call the image manager before
they start. Before a pod is created or updated its environment is resolved from
the caches of config maps, secrets and services. A provider without
notifications is wrapped by a loop that polls it. Beside all this the node
controller registers the node and runs three loops: one pings the provider and
stores the result in a monitor variable; one patches the status of the node and
one renews the lease, as long as that result is clean.

What has to be right: a key is handled by one worker at a time and no request is
lost; the handlers of the pod controller neither panic nor stop or remove a pod
that is wanted; wanted pods get started and unwanted ones stopped, across
crashes; every process is awaited, restarted only as the policy says, never
doubled and killed on deletion; an image in the database is usable; a pod
deleted on request is not reported as lost, and a lost one is; a container gets
the environment its entries describe or the pod fails; the node's status and
lease follow the provider's health and spare what others have written.
PROJECT.json lists all components and, at their source lines, the hazards.

## The modules

Every module cuts the code into steps where another goroutine, process or
message can come in between. PROJECT.json maps each definition to its lines.
Definitions named `X_Something` just before a definition `X` and commented
"Mutant" are plausible bugs of `X`: with the mutant in place of `X`, TLC finds
the property violated that is meant to catch it.

**KeyQueue** is what a queue promises to the controllers: a set `ready`, a set
`delayed`, a set `busy`. A key that was put is taken by a worker, never by two at
a time, and a delayed key becomes ready.

**WorkQueue** is `queue.Queue`. The client-go queue (external) is
`queue`/`dirty`/`processing`/`waiting`/`shutDown`; `failures` is the limiter's
count per key. A worker goes through `get -> handler -> requeue | giveup |
forget -> done`, as `handleQueueItem` and `handleQueueItemObject` do. `Enqueue`
goes through the rate limiter, as in the code. `LimiterUsedElsewhere` stands for
the other two queues that `NewPodController` gives the same limiter. Three history
variables: `owed` (keys asked for and not taken since), `tries` (handler calls
since the count of the key was last cleared) and `counted` (what the limiter had
counted for the key at the first of them). The count is only compared with
MaxRetries and therefore saturates there.

**PodController** is the controller for one pod key, composed with the API
server, the informer and a provider (all external). No step of the code touches
the state of two keys, so one key is enough. `api`, `watch`, `cache` and `notes`
are the versions of the pod in the API server, on their way to the informer's
cache, in the cache and on their way to the handlers. `known` is the knownPods
entry: `last` (lastPodStatusReceivedFromProvider), `used` (lastPodUsed, reduced
to what `podsEffectivelyEqual` compares) and `skip`
(lastPodStatusUpdateSkipped). A goroutine that has loaded an entry keeps its
pointer when the entry is replaced: it is `current` or `stale`. The queues have
the semantics of KeyQueue. A pod is `uid`, `spec` (a version of the fields
`podsEqual` compares), `del` (it has a deletion timestamp) and a status. A panic
in a handler ends the process, as in Go; the process is then started again by
`Boot`, which registers the callback; a provider that recovers its pods may
report the one it has, and the native one, which reports nothing then, is the
case in which it does not. The history variable `marked` is the last pod that
was marked for deletion. The filter `podEventFilterFunc` is left out, as the
root command gives none.

**ProcessManager** is the native provider's process manager for one pod key.
`db` is the record, `objs` the PodProcess objects in memory with the position of
the pod's goroutine (`main`) and of each container's (`run`), `procs` the
processes of the operating system, which outlive the kubelet, `bus` the event
the dispatcher is handing out and `recorder`, `daemon`, `handler` what the
subscribers are working on; `call` is the call of the pod controller in
progress. pull and unzip have the same shape and are one stage, the two
downloads another. `AddSubscribeRace` is the unsynchronised append to the
global slice: one of two subscribers is lost. `OutOfRange` has the index
arithmetic of `OnContainerRun` and `OnFinish`.

**ImageManager** is `PullImage` and `UnzipImage` with concurrent callers.
`pulling` is the map of running pulls, `awaits` whose channel a caller waits
for, `imageDb` the database, `archive` the files: by whom they are written, of
which image, and how far. The archive writer of containers/image is external; it
refuses a file with content and shares one that is still empty.

**LatestValue** is what the monitor variable promises: a cell with the last value
and, per subscription, one bit that says whether there is a value it has not
read. **MonitorVariable** is `internal/lock/monitor.go`: versions, a channel that
is closed and replaced at every Set, and the channel each subscription holds. A
channel is a number, `closed` the set of closed ones; every method holds the
lock and is one step. `Drop` is the end of a subscription's use.

**NodePing**, **NodeStatus** and **NodeLease** are the three loops of the node and
**NodeController** their composition. NodePing: `check` is the check in progress,
`key` the call registered in the singleflight group, `pings` the goroutines that
run `Ping` and `cancelled` those whose context is done; the result cell is
LatestValue. A provider is `up`, `down` (answers with an error) or `stuck`; a
stuck one may answer a cancelled ping. `life` is the process: a root context
that is cancelled leads to `stopping`, an error of Run to `fatal` (log.Fatal in
the root command), a nil dereference to `panic`. NodeStatus: `node` is the
object in the API server, its conditions and its last-applied annotation; `loop`
is the position of the goroutine of Run, whose `stage` tells the update of
ensureNode from those of the loop and from the second attempt after the error
handler. A patch is computed from the node that Get returned and applied to the
node of that moment. NodeLease: `lease` is the owner of the lease in the API
server, and a copy (`latestLease`, `base`) has the owner it was read with and
whether its resource version is current. One `budget` bounds everything the
surroundings do: failures and lost answers of calls, deletions, other writers,
failures of the provider, cancellation.

**SyncProvider** is the wrapper of `node/sync.go` for pods that have one name, one
after the other: the poll loop (`poll`), the sync worker (`sync`) and the delete
worker (`delete`) of the pod controller as far as they touch the wrapper,
`deletedPods` (the key is in the cache), `held` (what the provider has),
`received` (what was notified and not yet written) and `used` (lastPodUsed). A
report is written by name, to whatever pod Kubernetes has by then: updatePodStatus
replaces the UID (`pod.go:249-252`). A status is a phase and, for the phase
Running, whether some container runs, which is what decides whether a marked pod
goes through DeletePod or is removed from Kubernetes only. `deleted`, `orphan` and
`crossed` are history. The lister has no lag here; PodController has it.

**Expansion** has the operators of `internal/expansion` with the same names, on
texts that are sequences of bytes, and the reference `Meaning`, which reads a
text token by token, as the comments of the code describe it. **Environment** is
PopulateEnvironmentVariables for one pod: an entry of envFrom or env is a step,
listing the services another (it may fail, and the pod with it), and the
informers may change the caches between any two. The list of services is any
permutation. The history (`readFrom`, `readEnv`, `listed`) has what was read,
and the properties compare the result with what the entries mean on it, stated
without the operators that compute it.

The modules `...Proofs` hold the theorems (ProcessManagerSteps the lemmas of
ProcessManagerProofs about single steps), the modules `MC...` instantiate the
others for TLC.

## The runs

All runs disable the deadlock check: users stop creating pods at a bound, and a
system with nothing left to do is in order.

| Run | Question | Bounds |
|---|---|---|
| `workqueue` | Tries and earlier counts bounded, every key asked for handled, Run returns after cancellation, KeyQueue (one worker per key, no enqueue lost) implemented with its fairness | 2 keys, 2 workers, MaxRetries 1 |
| `podcontroller_recreate` | A pod is deleted and created again and the watch may break: UpdateFunc never panics, no live pod is stopped, none is removed without a request for it or a predecessor, the old pod is stopped and the new one started unless the new one takes the old one's place | 2 pods, 2 versions of the fields, 2 events in flight when a user acts |
| `podcontroller_update` | Spec changes, status changes, eviction, callback timeouts: a skipped sync was not needed, a reported failure is final | 1 pod, 2 versions, 2 status changes |
| `podcontroller_faults` | A failing call and a crash at any step: deletions finish, orphans are stopped, statuses arrive | 1 pod, 1 fault, 1 crash, 1 status change |
| `process_restart` | Exits, restarts, deletion, a failing step and a crash: processes are awaited, the policy is kept, the recorded process is not doubled, DeletePod kills what it read | 1 container, 2 processes, 1 fault, 2 starts of the kubelet, OnFailure |
| `process_init` | An init container, an update, late and lost subscribers: the order of the chain, and every process awaited | 1 init container, 1 container, 2 versions, grace period 1 |
| `process_live` | Exits and failing steps without a crash: the pod keeps running, deletion succeeds, the record catches up | 1 container, 2 processes, 1 fault, Always |
| `image` | A failing pull and a crash: calls return, a recorded image is complete | 3 callers, 2 images, 4 calls, 1 fault, 1 crash |
| `node` | Three loops, a provider that fails or hangs, a node that is deleted, other writers, failing calls, cancellation: one ping at a time, panics at shutdown only, patches that spare others and leave nothing behind, lease kept, lost with a stuck provider, and following a new node, status arriving, shutdown ending | 2 ping goroutines, 1 condition of the provider and 1 of another controller, 2 disruptions, 2 attempts of retryUpdateLease, ping timeout in use |
| `syncprovider` | Two pods of one name, polls, deletions, lost pods, failing calls: no deleted pod is reported lost, the cache is cleaned, lost pods are reported, with the exceptions named below | 2 pods, 1 deletion request each, 1 fault |
| `environment` | All kinds of references, caches that change, services in any order, all short texts: containers resolved as their entries say, failures for mandatory references or the list of services only, Expand against its reference | see MCEnvironment: 1 change of a cache, texts of up to 5 bytes over `$`, `(`, `)`, a letter and a high byte |
| `process_deleted` | see [below](#where-the-code-disagrees-with-its-comments) | 1 container, 2 processes |

Why the bounds are enough for what is asked: two keys and two workers are the
least at which a key can be handled while another waits and one worker is idle;
a pod, its successor of the same name and two events in flight are the least at
which an event of the first can arrive in the time of the second (with one event
in flight the mutant of `OnlyUnwantedPodsStopped` goes unnoticed), and two
versions of the fields are a successor that equals its predecessor and one that
does not; two processes are a process and its restart; two starts of the kubelet
are a life and a recovery. MaxRetries is 1 in the run, and the bound on the
tries is proved for every value. `OnFailure` in `process_restart` has both
outcomes of the policy. In all models users wait while a bound of events is in
flight (MaxLag), which keeps queues finite and removes no reaction of the
controller. In `node` two disruptions are a failure and what follows it (a node
deleted and a lost answer, a stuck provider and a cancellation); a second ping
goroutine is what a second ping in flight needs; what the run shows of
conditions with one of each kind is proved for any. In `syncprovider` the second
pod is the successor whose poll, deletion and cache entry can meet the end of
the first. In `environment` five bytes hold an escaped operator next to a closed
reference, and one change comes between any two reads of one object.

Some properties are stated for less than one would like, because the code does
not give more; the sections on
[disagreements](#where-the-code-disagrees-with-its-comments) and [known
limits](#known-limits-of-the-code) say what happens in the cases left out.

- `TriesBounded` is an upper bound, one above MaxRetries, and counts what other
  users of the limiter have counted: no number of tries is promised to a key.
- `OrphansStopped` and `PodsStarted` except a successor whose fields equal those
  of the pod the provider still has (`TakenOver`); `OrphansStopped` also excepts
  runs with a failed call, since deleteDanglingPods does not repeat one.
- `OnlyMarkedPodsRemoved` excepts a pod one of whose predecessors was marked.
- `FailedIsFinal` and `SkippedSyncIsSound` hold until a second pod of the name is
  created or a call fails (`Undisturbed`): a late report of a pod is written to
  its successor, and createOrUpdatePod creates a pod anew when GetPod fails. The
  Failed of handleProviderError can be overwritten as well.
- `StatusArrives` is checked with callbacks that are not cut short, and after a
  crash for what the provider has reported to the new process (`Told`).
- `PolicyRespected` and `InitFirst` hold within one life of the kubelet: an
  unrecorded process is started again after a crash. `InitFirst` does not look at
  the exit of an init container, as the code does not.
- `RecordedNotDuplicated` and `DeleteKillsRecorded` are about the processes the
  record has; `KeepsRunning` and `RecordCatchesUp` are checked without crashes,
  updates and the lost subscriber of the unsynchronised append.
- `RecordedIsComplete` is for an image that one goroutine needs and that has an
  archive name of its own.
- `NothingLeftBehind` excepts the conditions the node was created with, which no
  annotation records before the first patch; `StuckLosesLease` has a ping timeout.
- `DeletedNotReportedLost` excepts a pod whose key a late _deletePodKey has
  taken out (`crossed`); `CacheIsCleaned` and `LostIsReported` except a key that
  was stored for a pod Kubernetes did not have any more (`Leaked`), and nothing
  else: a key that is still to be cleaned up does not excuse a loss that goes
  unreported.
- `ContainersResolved` excepts containers with a literal in which a high byte
  follows an operator (`Garbled`).

## Fairness

Weak fairness of every goroutine that can run: the Go scheduler is fair and no
step waits for ever inside the code (calls of the API server have timeouts). In
WorkQueue: the workers (a handler returns), the delaying queue's loop, and Run.
In PodController: the informer's reflector and resync timer, the event handlers,
the delays and workers of the queues, the callback, and Run including the
restart of the process by its supervisor. In ProcessManager: all goroutines, the
dispatcher and its subscribers, the calls of the pod controller (its queue
repeats a failed one) and time. In ImageManager: the callers; a pull ends or
fails within its timeout. In NodeController: the three loops and their timers, a
provider that is not stuck answers, and the garbage collector of Kubernetes
works; strong fairness only for the case of a new status in the select of
controlLoop, because Go chooses among ready cases at random and the timer cannot
win for ever. In SyncProvider: the poll loop, both workers, the status handler,
and time. Users, exits of processes, failures, crashes and
changes by the provider need not happen. `StatusArrives` needs the resync
period: without it a skipped status update can stay unnoticed.

## The proofs

The theorems hold for every value of the constants, from the named assumptions
of the modules (types of the constants, a nil that is none of the values), which
TLC evaluates in the runs. No theorem assumes more of the constants; what is
excepted is part of the property, as listed above. The type invariants of
WorkQueue, PodController, ImageManager, SyncProvider and NodeController are
proved (`TypeCorrect`, and for the monitor variable as part of its invariant)
and take no part in the runs; that of ProcessManager is both proved and checked.

*WorkQueueProofs.* `IInv` strengthens `TypeOK` and `OneWorkerPerKey` by: what a
worker holds is in `processing` (`HeldIsProcessing`), the queue has each pending
key once and none that is being processed (`QueueIsPending`), and workers exist
only inside Run. Without the first two, Get could hand out a key that another
worker holds: mutual exclusion is not inductive by itself. From `Invariance`
follow `TypeCorrect`, `MutualExclusion`, `NoEnqueueLost` and, with the relation
`TriesFollowFailures` between the limiter's count, the tries of a key and what
was counted before them, `TriesAreBounded`. `Refinement` shows that every step
of the queue is a step or a stutter of KeyQueue under `ready <- dirty, delayed
<- waiting, busy <- processing, closed <- shutDown`.

*PodControllerProofs.* `UpdateFuncIsSafe` says that neither panic of UpdateFunc
can happen. The argument: notifications form one history that ends at the cache
(each one's new version is the next one's old version, the last one's new
version is the cache), so after the handlers have worked off a prefix, the pod
they told of last is exactly the old version of the next notification; and the
knownPods entry exists whenever that pod does, because createOrUpdatePod only
replaces entries and only DeleteFunc removes one. For the second panic: an entry
whose skip flag is set has a pod from the provider, as both are set under the
entry's lock and a replaced entry starts with neither.
`NotificationsFollowTheCache` is that invariant, `TypeCorrect` the types.

`UnwantedPodsStoppedOnly` is the action property `OnlyUnwantedPodsStopped`, for
any number of pods of the name: a stop goes out only for a pod that is marked or
gone in the API server at that moment, although the controller decides by a
cache that may be behind. It needs `VersionInv`: what the provider has, what a
sync has read, the cache and the versions in the watch are versions of the API
server's pod in this order, none later than the next, and a version with a
deletion timestamp is of a pod that is marked or gone. `Kinds` first reduces the
actions to the few things a step can do to this line of versions. The property
alone is not inductive, since a step that reads the cache, a list or the
provider says nothing of how old what it reads is. `MarkedPodsRemovedOnly`
(`OnlyMarkedPodsRemoved`), also for any number of pods, rests on `MarkInv`:
before the API server marks its first pod, nobody has a version with a deletion
timestamp and nobody asks for a deletion; and the last mark is on the API
server's pod, which then has a deletion timestamp, or on an earlier one.

`FailedPodsStayFailed` (`FailedIsFinal`) and `SkippedSyncsAreSound`
(`SkippedSyncIsSound`) are about the other direction, from the provider to the
API server. Both are proved for every instance, with any specs, evictions,
crashes, lists, lost watches, full channels and timeouts. What they say ends
when a second pod of the name is created or a call fails (`Undisturbed`), and so
does the invariant `EndInv` behind them, which is kept as long as that has not
happened. It has four parts. `Order(S)`, for a set S of versions that the API
server's pod does not leave, says that once a sync, the cache or the watch has a
version in S, everything later than it is in S too; it is used for the pods that
are marked or gone (`EndedPods`) and, with the failed ones, for the pods that
are not to run (`RestPods`). `StatusInv` orders the reports: behind a reported
failure every report in the callback's channel, in knownPods, in the status
handler and in the API server is a failure, and the provider's pod has failed or
was stopped after it had ended. `UsedInv` says that lastPodUsed stands for a pod
that is to run only while the provider has that pod in that spec, or nobody has
a version any more that is to run. The parts need each other: that a failed pod
is not created again in the provider (`StatusInv`) rests on the order of the
versions, and that the versions do not leave `RestPods` rests on the order of
the reports.

*ProcessManagerSteps, ProcessManagerProofs.* All safety properties of the runs,
for any number of init containers and containers, all policies and all bounds.
None is inductive. `IInv` says

- where the goroutines can be: PodProcess.run is inside the chain, awaits init
  containers only (`MainInv`), and a container's goroutine runs only after it has
  started the container (`LaunchInv`);
- that a container has either a goroutine or one finish event that the daemon is
  still to see, and never both (`TokenInv`, with `BusInv`: a subscriber gets an
  event once). Without it a second restart could take the container away from
  the goroutine that waits, and `Supervised` would fail;
- what records say: the ids in the database, in the recorder's hands, in a call
  and in memory are ids of processes of that container and of this pod or an
  earlier one (`RecordInv`); one that is alive and of this pod is the id in
  memory (`MatchInv`); and the objects in memory belong to ever newer pods
  (`UidInv`, `FreshInv`, `CallInv`). This is what lets runProcess, which looks at
  the id in memory only, respect the id in the database;
- what the earlier processes of a container were like: dead, and ended in a way
  after which the policy asks for another one (`PolicyInv`); and that an init
  container that is done has had a process (`OrderInv`);
- how far DeletePod has come: what it has gone through is dead (`KilledInv`).

ProcessManagerSteps reduces the actions to seven kinds of step (`Cases`), each
with its effect on objects, processes and bus, and every part of `IInv` is shown
to be kept by one case distinction over those; the parts about restart policies
and the order of the containers are in ProcessManagerProofs. From `IInv` follow
`TypeCorrect`, `ProcessesSupervised`, `RestartPolicyRespected`,
`InitContainersFirst`, and the action properties `NoDuplicateOfRecorded` and
`RecordedProcessesKilled`.

*MonitorVariableProofs.* `ReadyIffNewThm`: the channel of a subscription is closed
exactly when the variable was set after the subscription last read it. The
invariant: closed are the channels below the current one, which has the number
of the version plus one, and a subscription that has read version v holds
channel v + 1, or the closed channel 0 if it has read nothing and something was
set. `MonitorImplementsCell` is the refinement to LatestValue under `news <-` the
subscriptions that are ready, so that what is shown of the node loops on the
cell holds for the code's variable. The module has no run of its own; the
theorems are for all values, subscriptions and numbers of Sets.

*NodeControllerProofs.* `OnePingInFlightThm`: the only ping that runs is the one
registered in the singleflight group (`PingInv`); the mutual exclusion of pings
is not inductive without it, since StartCheck looks at the registration only.
`PanicsOnlyAtShutdownThm`: a subscription with news implies a value
(`ResultInv`). `NothingLeftBehindThm` and `OthersSurviveThm` rest on `NodeInv`: a
patch that waits to be sent is the three-way patch of the annotation that the
object still has, since nobody but this loop writes the annotation or creates
the node; and before the first patch our conditions on the object are those it
was created with. Without the first, a patch made from an old copy could leave
conditions behind that a later one had applied.

The types of the three loops (`TypeCorrect`) are not inductive: that a lease and
its copies have an owner (a UID of a node that was created, never 0) follows
from `LeaseInv`, sync runs only when ensureNode has recorded a node, and from
`BootInv`, the status loop is past its first stage only with a recorded node, and
the UIDs given out together with the remaining disruptions stay below their
bound because only a missing node is created.

*ImageManagerProofs.* `WaitsForPullerThm`: who waits, waits for a caller between
LoadOrStore and the close of its channel (`WaitInv`). `RecordedIsCompleteThm`: for
an image that one caller needs, the archive is that caller's own while it pulls,
complete when it reaches Put, and not touched again once the image is recorded
(`ArchiveInv`).

*SyncProviderProofs.* `DeletedNotReportedLostThm` rests on `CacheInv`: while
Kubernetes has a pod that the provider has deleted on request, its key is in the
deletion cache, unless a late clean-up has taken it out (`crossed`). Nothing
else is excepted, in particular no report that was written to the next pod of
the name. A poll decides by the cache after it has asked the provider, so what
the invariant says at that moment is what it needs. `WorkInv` has the types and
says that a goroutine between two steps has a pod.

Only model-checked: all liveness properties and the fairness part of the
refinement (liveness is out of this prover's reach), and everything in
Environment, `ContainersResolved` and `FailsOnMandatory` included: its folds over
entries and its texts are recursive definitions, and what they compute needs
induction over data, which is out of reach too.

## Where the code disagrees with its comments

One run is expected to end with a counterexample, the first below. The others are
parts of the models that the properties except by name, so that what is left is
checked and proved.

- `process_deleted`: a pod with a deletion time is not restarted
  (`process_manager.go:437`). The record never has one: CreatePod and UpdatePod
  are only called for pods without it. A process killed by DeletePod is
  restarted when its finish event is handled before the record is removed.
- The number of tries. `queue.go:31`: "MaxRetries is the number of times we try
  to process a given key before permanently forgetting it", and
  `queue_test.go:39-45` counts MaxRetries tries of a key that Enqueue has put.
  Enqueue itself counts in the limiter, so that the test sees MaxRetries; a key
  put by EnqueueWithoutRateLimit or EnqueueAfter is tried MaxRetries + 1 times,
  and a key that another queue or earlier events have counted for fewer times,
  down to once. `TriesBounded` is what holds of all of them.
- `podcontroller.go:342`: "If this pod was in the deletion queue, forget about
  it". Forget clears the count of the rate limiter and leaves the key where it
  is: the deletion of a pod (`:511`, with a delay; `:475`, at once) that is
  still queued removes, by name, a pod created since. TLC shows it for
  `OnlyMarkedPodsRemoved` without its second alternative.
- `sync.go:35-37`: deletedPods is to keep pods "which have been requested to be
  deleted" from being set to NotFound. The deferred _deletePodKey of a pod takes
  out the key that DeletePod has stored for its successor, and the key of a pod
  whose second DeletePod finds nothing goes as well.
- `sync.go:187`: "Only change the status when the pod was already up". A report is
  written by name and its UID replaced (`pod.go:249-252`): a poll of a lost pod
  makes its successor Failed, which was never up, or, when the two have the same
  status and the report a deletion timestamp, deletes it.
- `expand.go:98-99`: "Return the operator and the first rune in the string." A
  byte of 0x80 or more behind an operator comes out as a rune of two bytes
  (`:100`), other bytes than the text has.

## Known limits of the code

Behaviours of the code that the models contain and that the properties are
stated around. No run is kept for them.

- Pods are compared by fields and not by UID (`podShouldEnqueue`, `podsEqual`,
  `podsEffectivelyEqual`). A pod that is deleted and created again with equal
  fields before the provider's pod is deleted takes that pod over: the old one
  stays in the provider for good and no new one is created. The same happens when
  a broken watch turns delete and create into one update.
- NotifyPods registers the callback again after a restart
  (`podcontroller.go:278-281`); the native provider reports nothing then
  (`cluster.go:48-53`), so that a change of status around a crash is not reported
  before the next one. The same holds of a report that enqueuePodStatusUpdate
  drops because its time is over (`pod.go:302`).
- Without the resync period a skipped status update can stay unnoticed.
- After a restart of the kubelet a pod whose chain had been launched has no
  goroutine that waits for its processes, so the daemon that handles the restart
  policy (`process_manager.go:88`) is never told of their end. `KeepsRunning` is
  checked without crashes.
- Two callers of PullImage that find no pull under way both pull: Load and
  LoadOrStore are two steps (`image_manager.go:141`, `:152`).
- A record comes back when the recorder stores an event after DeletePod, and an
  update is undone when it stores an event of the earlier version. UpdatePod
  (`process_manager.go:472`) changes the pod of the record it finds and keeps
  its process ids: with a record that came back, the record of a new pod names a
  process of its predecessor, which may be alive when the new one is started.
  The grace period is taken as nanoseconds (`process_manager.go:661`). The
  status handler's indices are out of range with more than one container or an
  init container.
- handleProviderError writes its Failed or Pending without a record in the
  knownPods entry (`pod.go:191`), so the next status of the provider overwrites
  it. The check of the status before an eviction (`pod.go:272`) compares values:
  a pod created again in the meantime with the same status would be deleted.
- `podsEqual` compares images in one direction only: two containers that swap
  their images are equal. Such an update is no change of `spec` in the model.
- The root command sets no ping timeout. Without one a check waits for a stuck
  ping as long as it takes, and status and lease go on with the last result.
- The lease loop dereferences a missing ping result at shutdown
  (`lease_controller_v1.go:118`): `PanicsOnlyAtShutdown` is the most that holds.
- Conditions that a node was created with stay if the provider drops them before
  the first patch.
- The deletion cache of the sync wrapper keeps the key when DeletePod is called
  for a pod that Kubernetes does not have any more: one that was deleted by
  force, or one without a running container, which is removed from Kubernetes
  only (`podcontroller.go:473`) and found by the sync that follows. The key
  stays until the next pod of the name is deleted, and hides its loss until
  then.
- The address that `status.podIP` resolves to is a global that is read and
  written without a lock (`internal/ext/node_ip.go`).

## Not modelled

The contents of specs, layers, logs and statistics; messages and events;
times, beyond which of two things comes first; errors of the database files
themselves; reuse of process ids; interactions of several pod keys (none exist
in the pod controller and the sync wrapper; in the process manager keys share
only the bus, which the model of one key already makes block).

- setPhase of the native status handler: the phase depends on the statuses of a
  single container without init containers, as every other index panics first,
  and only shows in the status that is reported.
- nodeNotReadyError of the lease controller is not used by the code. The native
  node handler's channel of events is never written to, so its NotifyNodeStatus
  sends nothing; NodeStatus has the providers that do.
- The composition of PodController with ProcessManager: each has the other as
  external actions. Together they have more states than TLC can visit at
  bounds at which the interesting cases happen.
- HTTP API, remote commands and the rest of the root command are I/O and wiring,
  the registry is a map filled at start, the mock provider a test double, and
  logging, tracing and errors have no state a property depends on.

PROJECT.json lists all components with their status.
