--------------------------- MODULE PodController ---------------------------
(***************************************************************************)
(* The pod controller of src/node/podcontroller.go and src/node/pod.go,    *)
(* for one pod key (namespace/name): no step reads or writes the state of  *)
(* a second key.  It composes                                              *)
(*   - the API server and its users (external): pods of the key come, are  *)
(*     changed, marked for deletion, removed and created again;            *)
(*   - the pod informer (external): a cache that follows the API server    *)
(*     with a lag, and notifications that follow the cache with a lag;     *)
(*   - the three work queues, each with the semantics of KeyQueue (which   *)
(*     WorkQueue implements), and their handlers;                          *)
(*   - the provider (external) and the goroutine that runs its callback;   *)
(*   - start-up, panics, crashes and restarts of the process.              *)
(*                                                                         *)
(* Steps are cut where another goroutine can change what was read: between *)
(* the lister and knownPods, between knownPods and the provider call, and  *)
(* before every call of the API server.                                    *)
(***************************************************************************)
EXTENDS Naturals, Sequences

CONSTANTS
  Nil,               \* a nil pointer: no pod, no knownPods entry
  MaxUid,            \* bound: pods created under the key
  MaxSpec,           \* bound: versions of the fields podsEqual compares
  MaxSent,           \* bound: status changes the provider makes by itself
  MaxFaults,         \* bound: calls that return a transient error
  MaxCrashes,        \* bound: crashes, not counting panics
  MaxLag,            \* bound: users wait while so many events are in flight
  ErrorPhase,        \* handleProviderError: Failed for RestartPolicyNever
  ProviderDeletes,   \* TRUE: the provider may mark its pod deleted
  Updates,           \* TRUE: users change these fields of a pod
  Relists,           \* TRUE: the informer may lose its watch and list again
  Resyncs,           \* TRUE: the informer has a resync period
  MayGiveUp,         \* TRUE: a failed key may run out of retries
  NotifyTimeouts     \* TRUE: enqueuePodStatusUpdate may time out

Queues == {"sync", "delete", "status"}
Phases == {"Pending", "Running", "Failed"}
Status == [phase : Phases, run : BOOLEAN, err : BOOLEAN]
Pod == [uid : 1 .. MaxUid, spec : 1 .. MaxSpec, del : BOOLEAN, status : Status]
OptPod == Pod \cup {Nil}
Note == OptPod \X OptPod

\* knownPod: the last pod the provider sent, what lastPodUsed is compared for
\* (see Effective), and whether the last status update was skipped.
UsedPod == [uid : 1 .. MaxUid, spec : 1 .. MaxSpec, del : BOOLEAN]
KnownPod == [last : OptPod, used : UsedPod \cup {Nil}, skip : BOOLEAN]

\* Where the handlers and the callback are; a goroutine that has loaded the
\* knownPods entry holds the current one or one that was replaced since.
SyncState == [at : {"idle", "read", "current", "stale"}, pod : OptPod]
StatusState == [at : {"idle", "read", "remove", "write"}, pod : OptPod, from : OptPod]
NoterState == {"idle", "current", "stale"}
Stage == {"down", "boot", "synced", "listen", "dangling", "up"}
Panic == {"none", "unknown pod", "no status in UpdateFunc", "no status"}

ASSUME PodControllerAssumption ==
  /\ Nil \notin Pod /\ Nil \notin KnownPod /\ Nil \notin UsedPod
  /\ MaxUid \in Nat \ {0} /\ MaxSpec \in Nat \ {0}
  /\ MaxSent \in Nat /\ MaxFaults \in Nat /\ MaxCrashes \in Nat /\ MaxLag \in Nat
  /\ ErrorPhase \in {"Pending", "Failed"}
  /\ {ProviderDeletes, Updates, Relists, Resyncs, MayGiveUp, NotifyTimeouts} \subseteq BOOLEAN

VARIABLES
  api,        \* the pod the API server stores under the key
  watch,      \* API versions on their way to the informer's cache
  cache,      \* what the pod lister returns
  notes,      \* <<old, new>> notifications on their way to the event handlers
  known,      \* the knownPods entry of the key
  ready, delayed,  \* the queues (see KeyQueue) that hold the key
  sync,       \* syncPodFromKubernetesHandler: where it is and the pod it read
  status,     \* syncPodStatusFromProviderHandler, likewise
  delete,     \* deletePodsFromKubernetesHandler: where it is
  prov,       \* the provider's pod
  inbox,      \* pods the provider passes to the NotifyPods callback
  noter,      \* where the callback, enqueuePodStatusUpdate, is
  up,         \* how far PodController.Run has come
  panic,      \* the last panic
  marked,     \* history: the UID of the pod that was last marked for deletion
  uids, sent, faults, crashes   \* what the bounds count

queues == <<ready, delayed>>
informer == <<watch, cache, notes>>
handlers == <<sync, status, delete>>
provider == <<prov, inbox, sent>>
bounds == <<marked, uids, faults, crashes>>
vars == <<api, watch, cache, notes, known, ready, delayed, sync, status, delete,
          prov, inbox, noter, up, panic, marked, uids, sent, faults, crashes>>

\* running(): some container neither terminated nor waiting.
running(st) == st.run

\* shouldSkipPodStatusUpdate, and the test in syncPodInProvider.
Terminal(st) == st.phase = "Failed"

NewStatus == [phase |-> "Pending", run |-> FALSE, err |-> FALSE]
RunningStatus == [phase |-> "Running", run |-> TRUE, err |-> FALSE]
FailedStatus == [phase |-> "Failed", run |-> FALSE, err |-> FALSE]

\* Mutant: podsEffectivelyEqual ignores the spec as well.
Effective_NoSpec(p) == [uid |-> p.uid, del |-> p.del]

\* What the pods of podsEffectivelyEqual have in common: all but the status
\* and the resource version.
Effective(p) == [uid |-> p.uid, spec |-> p.spec, del |-> p.del]

\* The fields a user may change; the UID is not among them.
podsEqual(p, q) == p.spec = q.spec

\* Two deletions of one key have different deletion timestamps.
podShouldEnqueue(old, new) ==
  \/ ~podsEqual(old, new)
  \/ old.del # new.del
  \/ old.del /\ old.uid # new.uid

\* &knownPod{}
NewKnownPod == [last |-> Nil, used |-> Nil, skip |-> FALSE]

\* A goroutine that has loaded the entry keeps its pointer when the map is
\* given another entry.
Detached(at) == IF at = "current" THEN "stale" ELSE at

IdleSync == [at |-> "idle", pod |-> Nil]
IdleStatus == [at |-> "idle", pod |-> Nil, from |-> Nil]

Init ==
  /\ api = Nil /\ watch = <<>> /\ cache = Nil /\ notes = <<>>
  /\ known = Nil
  /\ ready = {} /\ delayed = {}
  /\ sync = IdleSync /\ status = IdleStatus /\ delete = "idle"
  /\ prov = Nil /\ inbox = <<>> /\ noter = "idle"
  /\ up = "down" /\ panic = "none"
  /\ marked = 0 /\ uids = 0 /\ sent = 0 /\ faults = 0 /\ crashes = 0
-----------------------------------------------------------------------------
(* The API server and its users (external). *)

Watching == up \notin {"down", "boot"}
Listening == up \in {"listen", "dangling", "up"}

\* A write: the watch delivers every version.
Store(p) ==
  /\ api' = p
  /\ watch' = IF Watching THEN Append(watch, p) ELSE watch

\* A status write for the pod of UID u; one that changes nothing is no event.
StoreStatus(u, st) ==
  IF api # Nil /\ api.uid = u /\ api.status # st
    THEN Store([api EXCEPT !.status = st])
    ELSE UNCHANGED <<api, watch>>

\* Delete: at once with a grace period of zero or when the pod has ended,
\* else the pod is marked.
Remove(atOnce) ==
  CASE api = Nil -> UNCHANGED <<api, watch, marked>>
    [] api # Nil /\ (atOnce \/ Terminal(api.status)) -> Store(Nil) /\ UNCHANGED marked
    [] OTHER -> Store([api EXCEPT !.del = TRUE]) /\ marked' = api.uid

ByUser ==
  /\ Len(watch) + Len(notes) < MaxLag
  /\ UNCHANGED <<cache, notes, known, queues, handlers, provider, noter, up, panic,
                 faults, crashes>>

UserCreate ==
  /\ api = Nil /\ uids < MaxUid
  /\ uids' = uids + 1
  /\ \E v \in 1 .. (IF uids = 0 THEN 1 ELSE MaxSpec) :
       Store([uid |-> uids + 1, spec |-> v, del |-> FALSE, status |-> NewStatus])
  /\ ByUser /\ UNCHANGED marked

UserUpdate ==
  /\ Updates
  /\ api # Nil /\ api.spec < MaxSpec
  /\ Store([api EXCEPT !.spec = @ + 1])
  /\ ByUser /\ UNCHANGED <<marked, uids>>

UserDelete(atOnce) ==
  /\ api # Nil /\ (atOnce \/ ~api.del)
  /\ Remove(atOnce)
  /\ ByUser /\ UNCHANGED uids
-----------------------------------------------------------------------------
(* The pod informer (external) and the event handlers Run registers. *)

Notify(old, new) ==
  notes' = IF Listening /\ ~(old = Nil /\ new = Nil)
             THEN Append(notes, <<old, new>>) ELSE notes

ByInformer ==
  /\ Watching
  /\ UNCHANGED <<api, known, queues, handlers, provider, noter, up, panic, bounds>>

Observe ==
  /\ watch # <<>>
  /\ cache' = Head(watch)
  /\ watch' = Tail(watch)
  /\ Notify(cache, Head(watch))
  /\ ByInformer

\* The watch broke before it delivered what it had: the cache is replaced by a
\* new list.  (A list that finds nothing new is like a resync.)
Relist ==
  /\ Relists /\ Len(notes) < MaxLag
  /\ watch # <<>>
  /\ cache' = api
  /\ watch' = <<>>
  /\ Notify(cache, api)
  /\ ByInformer

\* The resync period has passed: an update that changes nothing.
Resync ==
  /\ Resyncs /\ notes = <<>>
  /\ Notify(cache, cache)
  /\ ByInformer /\ UNCHANGED <<watch, cache>>

ByHandler ==
  /\ Listening
  /\ notes' = Tail(notes)
  /\ UNCHANGED <<api, watch, cache, status, delete, provider, up, bounds>>

\* knownPods.Store or knownPods.Delete.
SetKnown(entry) ==
  /\ known' = entry
  /\ noter' = Detached(noter)

\* Mutant: the sync queue is not told.
AddFunc_NoSync ==
  /\ notes # <<>> /\ Head(notes)[1] = Nil
  /\ SetKnown(NewKnownPod)
  /\ sync' = [sync EXCEPT !.at = Detached(@)]
  /\ ByHandler /\ UNCHANGED <<queues, panic>>

AddFunc ==
  /\ notes # <<>> /\ Head(notes)[1] = Nil
  /\ SetKnown(NewKnownPod)
  /\ sync' = [sync EXCEPT !.at = Detached(@)]
  /\ delayed' = delayed \cup {"sync"}
  /\ ByHandler /\ UNCHANGED <<ready, panic>>

\* The process is gone, and with it everything but the API server and the
\* provider.
Dies(why) ==
  /\ up' = "down" /\ panic' = why
  /\ watch' = <<>> /\ cache' = Nil /\ notes' = <<>> /\ known' = Nil
  /\ ready' = {} /\ delayed' = {}
  /\ sync' = IdleSync /\ status' = IdleStatus /\ delete' = "idle"
  /\ inbox' = <<>> /\ noter' = "idle"
  /\ UNCHANGED <<api, prov, sent, marked, uids, faults>>

\* Mutant: a skipped update is never looked at again.
SkipWasWrong_Never(new) == FALSE

\* The status update that was skipped no longer matches the API server.
SkipWasWrong(new) == known.skip /\ new.status # known.last.status

\* The panic "Pod not found in known pods. This should never happen.", and the
\* nil dereference of the line that compares the statuses.
UpdateFunc ==
  LET old == Head(notes)[1]
      new == Head(notes)[2] IN
  /\ Listening /\ notes # <<>> /\ old # Nil /\ new # Nil
  /\ IF known = Nil THEN Dies("unknown pod") /\ UNCHANGED crashes
     ELSE IF known.skip /\ known.last = Nil
       THEN Dies("no status in UpdateFunc") /\ UNCHANGED crashes
     ELSE
       /\ known' = IF SkipWasWrong(new) THEN [known EXCEPT !.skip = FALSE] ELSE known
       /\ delayed' = delayed \cup (IF SkipWasWrong(new) THEN {"status"} ELSE {})
                             \cup (IF podShouldEnqueue(old, new) THEN {"sync"} ELSE {})
       /\ ByHandler /\ UNCHANGED <<ready, sync, noter, panic>>

\* Mutant: the sync queue is not told.
DeleteFunc_NoSync ==
  /\ notes # <<>> /\ Head(notes)[1] # Nil /\ Head(notes)[2] = Nil
  /\ SetKnown(Nil)
  /\ sync' = [sync EXCEPT !.at = Detached(@)]
  /\ ByHandler /\ UNCHANGED <<queues, panic>>

\* Mutant: the event itself, not the lister, has the provider's pod deleted.
DeleteFunc_Deletes ==
  /\ Listening
  /\ notes # <<>> /\ Head(notes)[1] # Nil /\ Head(notes)[2] = Nil
  /\ SetKnown(Nil)
  /\ sync' = [sync EXCEPT !.at = Detached(@)]
  /\ prov' = Nil
  /\ notes' = Tail(notes)
  /\ UNCHANGED <<api, watch, cache, queues, status, delete, inbox, sent, up, panic, bounds>>

DeleteFunc ==
  /\ notes # <<>> /\ Head(notes)[1] # Nil /\ Head(notes)[2] = Nil
  /\ SetKnown(Nil)
  /\ sync' = [sync EXCEPT !.at = Detached(@)]
  /\ delayed' = delayed \cup {"sync"}    \* Forget takes no key out of a queue
  /\ ByHandler /\ UNCHANGED <<ready, panic>>
-----------------------------------------------------------------------------
(* Queues: a delay passes; a worker takes the key; a handler returns. *)

Ripen(q) ==
  /\ q \in delayed
  /\ ready' = ready \cup {q}
  /\ delayed' = delayed \ {q}
  /\ UNCHANGED <<api, informer, known, handlers, provider, noter, up, panic, bounds>>

Take(q) == up = "up" /\ q \in ready /\ ready' = ready \ {q}

\* handleQueueItemObject after an error: the key is tried again, unless the
\* rate limiter has counted MaxRetries requeues.
Retry(q) ==
  \/ delayed' = delayed \cup {q}
  \/ MayGiveUp /\ delayed' = delayed

Fault == faults < MaxFaults /\ faults' = faults + 1
NoFault == UNCHANGED faults
-----------------------------------------------------------------------------
(* The provider (external): CreatePod, UpdatePod, DeletePod. *)

\* Mutant: a notification overtakes the ones before it.
Sends_Unordered(p) == inbox' = <<p>> \o inbox

\* The callback is called for one pod after the other.
Sends(p) == inbox' = Append(inbox, p)

\* A deleted pod is reported once more, in a terminal state.
ProviderDeletePod ==
  IF prov = Nil THEN UNCHANGED <<prov, inbox>>
  ELSE prov' = Nil /\ Sends([prov EXCEPT !.status = FailedStatus])

ProviderCreatePod(p) ==
  LET new == [p EXCEPT !.status = NewStatus] IN prov' = new /\ Sends(new)

ProviderUpdatePod(p) ==
  prov' = [p EXCEPT !.status = prov.status] /\ UNCHANGED inbox

\* The containers start, or end.
ProviderChange ==
  /\ prov # Nil /\ sent < MaxSent
  /\ \E st \in {RunningStatus, FailedStatus} :
       /\ st # prov.status /\ ~Terminal(prov.status)
       /\ prov' = [prov EXCEPT !.status = st]
  /\ IF up = "down" THEN UNCHANGED inbox ELSE Sends(prov')
  /\ sent' = sent + 1
  /\ UNCHANGED <<api, informer, known, queues, handlers, noter, up, panic, bounds>>

\* The provider evicts its pod.
ProviderEvict ==
  /\ ProviderDeletes /\ up # "down"
  /\ prov # Nil /\ ~prov.del
  /\ prov' = [prov EXCEPT !.del = TRUE]
  /\ Sends(prov')
  /\ UNCHANGED <<api, informer, known, queues, handlers, sent, noter, up, panic, bounds>>
-----------------------------------------------------------------------------
(* syncPodFromKubernetesHandler, syncPodInProvider, createOrUpdatePod. *)

BySync == UNCHANGED <<cache, notes, status, delete, sent, up, panic, marked, uids, crashes>>
Returns == sync' = IdleSync

SyncRead ==
  /\ sync.at = "idle" /\ Take("sync")
  /\ sync' = [at |-> "read", pod |-> cache]
  /\ BySync /\ UNCHANGED <<api, watch, known, delayed, prov, inbox, noter, faults>>

\* Not in the lister: the pod is deleted from the provider.
SyncOrphan ==
  /\ sync.at = "read" /\ sync.pod = Nil
  /\ \/ ProviderDeletePod /\ NoFault /\ UNCHANGED delayed
     \/ prov # Nil /\ Fault /\ Retry("sync") /\ UNCHANGED <<prov, inbox>>
  /\ Returns
  /\ BySync /\ UNCHANGED <<api, watch, known, ready, noter>>

\* Mutant: a pod that is not running is removed although nobody asked for it.
SyncForceDelete_Unmarked ==
  /\ sync.at = "read" /\ sync.pod # Nil /\ ~running(sync.pod.status)
  /\ ready' = ready \cup {"delete"}
  /\ Returns
  /\ BySync /\ UNCHANGED <<api, watch, known, delayed, prov, inbox, noter, faults>>

\* Marked for deletion and not running: nothing to do in the provider.
SyncForceDelete ==
  /\ sync.at = "read" /\ sync.pod # Nil
  /\ sync.pod.del /\ ~running(sync.pod.status)
  /\ ready' = ready \cup {"delete"}
  /\ Returns
  /\ BySync /\ UNCHANGED <<api, watch, known, delayed, prov, inbox, noter, faults>>

\* knownPods.Load and the comparison with lastPodUsed.
SyncLoad ==
  /\ sync.at = "read" /\ sync.pod # Nil
  /\ ~(sync.pod.del /\ ~running(sync.pod.status))
  /\ IF known = Nil \/ (known # Nil /\ known.used = Effective(sync.pod))
       THEN Returns
       ELSE sync' = [sync EXCEPT !.at = "current"]
  /\ BySync /\ UNCHANGED <<api, watch, known, queues, prov, inbox, noter, faults>>

Loaded == sync.at \in {"current", "stale"}
Desired == Loaded /\ ~sync.pod.del /\ ~Terminal(sync.pod.status)
Provided(p) == prov # Nil /\ podsEqual(prov, p)

\* The deferred function: the entry that was loaded remembers the pod.
SetLastPodUsed ==
  known' = IF sync.at = "current" THEN [known EXCEPT !.used = Effective(sync.pod)] ELSE known

\* Mutant: the delayed deletion in the API server is missing.
SyncDelete_NotQueued ==
  /\ Loaded /\ sync.pod.del
  /\ \/ ProviderDeletePod /\ NoFault /\ SetLastPodUsed /\ UNCHANGED delayed
     \/ Fault /\ Retry("sync") /\ UNCHANGED <<prov, inbox, known>>
  /\ Returns
  /\ BySync /\ UNCHANGED <<api, watch, ready, noter>>

SyncDelete ==
  /\ Loaded /\ sync.pod.del
  /\ \/ /\ ProviderDeletePod /\ NoFault
        /\ delayed' = delayed \cup {"delete"}
        /\ SetLastPodUsed
     \/ Fault /\ Retry("sync") /\ UNCHANGED <<prov, inbox, known>>
  /\ Returns
  /\ BySync /\ UNCHANGED <<api, watch, ready, noter>>

SyncTerminal ==
  /\ Loaded /\ ~sync.pod.del /\ Terminal(sync.pod.status)
  /\ SetLastPodUsed
  /\ Returns
  /\ BySync /\ UNCHANGED <<api, watch, queues, prov, inbox, noter, faults>>

\* Also when GetPod fails: its error is ignored.
SyncCreate ==
  /\ Desired
  /\ (prov = Nil /\ NoFault) \/ (prov # Nil /\ Fault)
  /\ ProviderCreatePod(sync.pod)
  /\ SetLastPodUsed
  /\ Returns
  /\ BySync /\ UNCHANGED <<api, watch, queues, noter>>

\* An update replaces the knownPods entry, so lastPodUsed is set on the old one.
SyncUpdate ==
  /\ Desired /\ prov # Nil /\ ~Provided(sync.pod)
  /\ ProviderUpdatePod(sync.pod)
  /\ SetKnown(NewKnownPod)
  /\ Returns
  /\ BySync /\ UNCHANGED <<api, watch, queues, faults>>

SyncNothingToDo ==
  /\ Desired /\ Provided(sync.pod)
  /\ SetLastPodUsed
  /\ Returns
  /\ BySync /\ UNCHANGED <<api, watch, queues, prov, inbox, noter, faults>>

\* PopulateEnvironmentVariables fails: nothing was done.
SyncNoEnvironment ==
  /\ Desired /\ Fault /\ Retry("sync")
  /\ Returns
  /\ BySync /\ UNCHANGED <<api, watch, known, ready, prov, inbox, noter>>

\* CreatePod or UpdatePod fails: handleProviderError writes the status.
SyncProviderError ==
  /\ Desired /\ ~Provided(sync.pod)
  /\ Fault /\ Retry("sync")
  /\ StoreStatus(sync.pod.uid, [sync.pod.status EXCEPT !.phase = ErrorPhase, !.err = TRUE])
  /\ Returns
  /\ BySync /\ UNCHANGED <<known, ready, prov, inbox, noter>>

Sync ==
  \/ SyncRead \/ SyncOrphan \/ SyncForceDelete \/ SyncLoad
  \/ SyncDelete \/ SyncTerminal
  \/ SyncCreate \/ SyncUpdate \/ SyncNothingToDo
  \/ SyncNoEnvironment \/ SyncProviderError
-----------------------------------------------------------------------------
(* deletePodsFromKubernetesHandler. *)

ByDelete ==
  UNCHANGED <<cache, notes, known, sync, status, provider, noter, up, panic, uids, crashes>>

DeleteRead ==
  /\ delete = "idle" /\ Take("delete")
  /\ delete' = IF cache = Nil THEN "idle" ELSE "read"
  /\ ByDelete /\ UNCHANGED <<api, watch, marked, delayed, faults>>

\* Delete with a grace period of zero, by name.
DeleteRemove ==
  /\ delete = "read"
  /\ \/ Remove(TRUE) /\ NoFault /\ UNCHANGED delayed
     \/ Fault /\ Retry("delete") /\ UNCHANGED <<api, watch, marked>>
  /\ delete' = "idle"
  /\ ByDelete /\ UNCHANGED ready

Delete == DeleteRead \/ DeleteRemove
-----------------------------------------------------------------------------
(* syncPodStatusFromProviderHandler and updatePodStatus. *)

ByStatus == UNCHANGED <<cache, notes, provider, uids>>
StatusOnly == UNCHANGED <<sync, delete, noter, up, panic, crashes>>

StatusRead ==
  /\ status.at = "idle" /\ Take("status")
  /\ status' = IF cache = Nil THEN status ELSE [status EXCEPT !.at = "read", !.pod = cache]
  /\ ByStatus /\ StatusOnly /\ UNCHANGED <<marked, api, watch, known, delayed, faults>>

StatusNothingToDo ==
  /\ status.at = "read"
  /\ Terminal(status.pod.status) \/ known = Nil
  /\ status' = IdleStatus
  /\ ByStatus /\ StatusOnly /\ UNCHANGED <<marked, api, watch, known, queues, faults>>

\* The entry has no pod from the provider: a nil dereference.
StatusPanics ==
  /\ status.at = "read" /\ ~Terminal(status.pod.status)
  /\ known # Nil /\ known.last = Nil
  /\ Dies("no status") /\ UNCHANGED crashes

\* The comparison under the entry's lock.
StatusCompare ==
  LET last == known.last
      same == last.status = status.pod.status IN
  /\ status.at = "read" /\ ~Terminal(status.pod.status)
  /\ known # Nil /\ last # Nil
  /\ known' = [known EXCEPT !.skip = same /\ ~last.del]
  /\ status' = CASE same /\ ~last.del -> IdleStatus
                 [] same /\ last.del /\ ~status.pod.del ->
                      [status EXCEPT !.at = "remove", !.from = last]
                 [] OTHER -> [status EXCEPT !.at = "write", !.from = last]
  /\ ByStatus /\ StatusOnly /\ UNCHANGED <<marked, api, watch, queues, faults>>

\* The provider has deleted its pod: it is deleted by name, at once when the
\* provider's deletion timestamp has passed.
StatusRemove ==
  /\ status.at = "remove"
  /\ \/ /\ \E atOnce \in BOOLEAN : Remove(atOnce)
        /\ status' = [status EXCEPT !.at = "write"]
        /\ NoFault /\ UNCHANGED delayed
     \/ /\ Fault /\ Retry("status") /\ status' = IdleStatus
        /\ UNCHANGED <<api, watch, marked>>
  /\ ByStatus /\ StatusOnly /\ UNCHANGED <<known, ready>>

\* UpdateStatus with the UID the lister had: a conflict when the pod stored
\* now is another one, nothing when there is none.
StatusWrite ==
  /\ status.at = "write"
  /\ \/ /\ api = Nil \/ (api # Nil /\ api.uid = status.pod.uid)
        /\ StoreStatus(status.pod.uid, status.from.status)
        /\ NoFault /\ UNCHANGED delayed
     \/ /\ api # Nil /\ api.uid # status.pod.uid
        /\ Retry("status") /\ NoFault /\ UNCHANGED <<api, watch>>
     \/ Fault /\ Retry("status") /\ UNCHANGED <<api, watch>>
  /\ status' = IdleStatus
  /\ ByStatus /\ StatusOnly /\ UNCHANGED <<marked, known, ready>>

StatusSync ==
  \/ StatusRead \/ StatusNothingToDo \/ StatusPanics
  \/ StatusCompare \/ StatusRemove \/ StatusWrite
-----------------------------------------------------------------------------
(* enqueuePodStatusUpdate: the NotifyPods callback, one call at a time. *)

ByNotifier ==
  UNCHANGED <<api, informer, ready, handlers, prov, sent, up, panic, bounds>>

\* knownPods.Load finds an entry.  Only this goroutine sets the entry's last
\* pod, so it may be compared here instead of under the lock.
NotifyLoad ==
  /\ noter = "idle" /\ inbox # <<>> /\ known # Nil
  /\ IF known.last = Head(inbox)
       THEN inbox' = Tail(inbox) /\ UNCHANGED noter
       ELSE noter' = "current" /\ UNCHANGED inbox
  /\ ByNotifier /\ UNCHANGED <<known, delayed>>

NotifyStore ==
  /\ noter \in {"current", "stale"}
  /\ known' = IF noter = "current" THEN [known EXCEPT !.last = Head(inbox)] ELSE known
  /\ delayed' = delayed \cup {"status"}
  /\ inbox' = Tail(inbox)
  /\ noter' = "idle"
  /\ ByNotifier

\* There is no entry: the call gives up when the lister has no pod either, or
\* when its time is over.
NotifyDrop ==
  /\ noter = "idle" /\ inbox # <<>> /\ known = Nil
  /\ (Watching /\ cache = Nil) \/ NotifyTimeouts
  /\ inbox' = Tail(inbox)
  /\ ByNotifier /\ UNCHANGED <<known, delayed, noter>>

Notifier == NotifyLoad \/ NotifyStore \/ NotifyDrop
-----------------------------------------------------------------------------
(* PodController.Run, and the end of the process. *)

ByRun == UNCHANGED <<api, known, queues, handlers, sent, noter, panic, marked, uids, crashes>>

\* NotifyPods registers the callback.  A provider that recovers its pods may
\* report the one it has, see enqueuePodStatusUpdate; the native one does not.
Boot ==
  /\ up = "down" /\ up' = "boot"
  /\ \/ UNCHANGED inbox
     \/ prov # Nil /\ Sends(prov)
  /\ ByRun /\ UNCHANGED <<informer, prov, faults>>

\* WaitForCacheSync.
CacheSync ==
  /\ up = "boot" /\ up' = "synced"
  /\ cache' = api
  /\ ByRun /\ UNCHANGED <<watch, notes, prov, inbox, faults>>

\* Mutant: the pods of the cache are not announced.
AddEventHandler_NoAdds ==
  /\ up = "synced" /\ up' = "listen"
  /\ ByRun /\ UNCHANGED <<informer, prov, inbox, faults>>

\* AddEventHandler: a synthetic add for every pod of the cache.  The kubelet
\* gives no PodEventFilterFunc (cmd/internal/commands/root): none is modelled.
AddEventHandler ==
  /\ up = "synced" /\ up' = "listen"
  /\ notes' = IF cache = Nil THEN <<>> ELSE << <<Nil, cache>> >>
  /\ ByRun /\ UNCHANGED <<watch, cache, prov, inbox, faults>>

\* Mutant: deleteDanglingPods is not called.
DanglingList_Never ==
  /\ up = "listen" /\ up' = "up"
  /\ ByRun /\ UNCHANGED <<informer, prov, inbox, faults>>

\* deleteDanglingPods: the provider's pod is not in the lister.
DanglingList ==
  /\ up = "listen"
  /\ \/ NoFault /\ up' = IF prov # Nil /\ cache = Nil THEN "dangling" ELSE "up"
     \/ Fault /\ up' = "up"
  /\ ByRun /\ UNCHANGED <<informer, prov, inbox>>

\* A failed deletion is not repeated.
DanglingDelete ==
  /\ up = "dangling" /\ up' = "up"
  /\ \/ ProviderDeletePod /\ NoFault
     \/ Fault /\ UNCHANGED <<prov, inbox>>
  /\ ByRun /\ UNCHANGED informer

Run == Boot \/ CacheSync \/ AddEventHandler \/ DanglingList \/ DanglingDelete

Crash ==
  /\ up # "down" /\ crashes < MaxCrashes
  /\ crashes' = crashes + 1
  /\ Dies(panic)
-----------------------------------------------------------------------------
User == UserCreate \/ UserUpdate \/ (\E atOnce \in BOOLEAN : UserDelete(atOnce))
Informer == Observe \/ Relist \/ Resync
EventHandler == AddFunc \/ UpdateFunc \/ DeleteFunc
Provider == ProviderChange \/ ProviderEvict

Next ==
  \/ User \/ Informer \/ EventHandler
  \/ \E q \in Queues : Ripen(q)
  \/ Sync \/ Delete \/ StatusSync \/ Notifier
  \/ Provider \/ Run \/ Crash

Spec == Init /\ [][Next]_vars

\* Every goroutine that can run does: the informer with its resync timer, the
\* event handlers, the delaying queues, the workers, the callback and Run.
\* Users, the provider and crashes owe nothing.
Fairness ==
  /\ WF_vars(Observe) /\ WF_vars(Resync) /\ WF_vars(EventHandler)
  /\ \A q \in Queues : WF_vars(Ripen(q))
  /\ WF_vars(Sync) /\ WF_vars(Delete) /\ WF_vars(StatusSync)
  /\ WF_vars(Notifier) /\ WF_vars(Run)

FairSpec == Spec /\ Fairness
-----------------------------------------------------------------------------
(* Properties. *)

\* The types of the controller's state: knownPod, the handlers' locals, the
\* informer's cache and channels.
TypeOK ==
  /\ api \in OptPod /\ cache \in OptPod /\ prov \in OptPod
  /\ watch \in Seq(OptPod) /\ notes \in Seq(Note) /\ inbox \in Seq(Pod)
  /\ known \in KnownPod \cup {Nil}
  /\ ready \in SUBSET Queues /\ delayed \in SUBSET Queues
  /\ sync \in SyncState /\ status \in StatusState /\ delete \in {"idle", "read"}
  /\ noter \in NoterState
  /\ up \in Stage /\ panic \in Panic
  /\ marked \in 0 .. MaxUid /\ uids \in 0 .. MaxUid /\ sent \in 0 .. MaxSent
  /\ faults \in 0 .. MaxFaults /\ crashes \in 0 .. MaxCrashes

\* UpdateFunc never panics: every update it is called with finds an entry in
\* knownPods, and lastPodStatusUpdateSkipped is never set on an entry without
\* a pod from the provider, however the adds, updates and deletes of re-created
\* pods, createOrUpdatePod's replacement of the entry and the status handler
\* interleave.
UpdateFuncNeverPanics == panic \notin {"unknown pod", "no status in UpdateFunc"}

\* The name was used for one pod and no call has failed.
Undisturbed == uids <= 1 /\ faults = 0

\* A sync that syncPodInProvider skips because lastPodUsed equals the pod was
\* not needed: the provider has the pod in the version the lister has.  Only
\* where a Failed pod can come back to life (see FailedIsFinal) it may be needed:
\* lastPodUsed is also set for a pod that has failed.
SkippedSyncIsSound ==
  /\ Undisturbed
  /\ known # Nil /\ cache # Nil /\ notes = <<>>
  /\ known.used = Effective(cache)
  /\ ~cache.del /\ ~Terminal(cache.status)
  => Provided(cache)

\* The controller deletes a pod in the provider only when the API server has
\* removed that very pod or has marked it for deletion: a late event of an
\* earlier pod of the same name never stops a live one.
ProviderPodGone == prov # Nil /\ prov' = Nil
OnlyUnwantedPodsStopped ==
  [][ProviderPodGone => api = Nil \/ api.uid # prov.uid \/ api.del]_vars

\* The delete handler removes a pod from the API server only when that pod was
\* marked for deletion, or an earlier pod of its name: a request of the earlier
\* one may still be queued, and Delete is by name.
OnlyMarkedPodsRemoved ==
  [][DeleteRemove /\ api # Nil /\ api' = Nil
       => api.del \/ (marked # 0 /\ marked < api.uid)]_vars

\* A pod whose failure the provider has reported stays failed: a status sent
\* earlier never overwrites the last one, although UpdateStatus is unconditional
\* and shouldSkipPodStatusUpdate looks at a cached pod.  Excepted are names that
\* were used before, since the last report of an earlier pod may be written to
\* the next one, and failed calls: createOrUpdatePod creates a pod again when
\* GetPod fails.
FailedIsFinal ==
  [][Undisturbed' /\ api # Nil /\ api.status = FailedStatus /\ api' # Nil
       => Terminal(api'.status)]_vars

Of(u) == api # Nil /\ api.uid = u

\* A pod marked for deletion is removed from the API server.
DeletionCompletes ==
  \A u \in 1 .. MaxUid : Of(u) /\ api.del ~> ~Of(u)

\* podShouldEnqueue and createOrUpdatePod compare fields and not UIDs: a pod that
\* is created again with equal fields, before the provider's pod is deleted,
\* takes that pod over.
TakenOver == prov # Nil /\ api # Nil /\ prov.uid # api.uid /\ podsEqual(prov, api)

\* A pod the API server no longer has is deleted from the provider, or replaced
\* there by its successor, also when the process has crashed in between
\* (deleteDanglingPods).  Excepted are a pod that its successor takes over, and
\* a call that fails: deleteDanglingPods does not repeat it.
OrphansStopped ==
  prov # Nil /\ ~Of(prov.uid) ~> prov = Nil \/ Of(prov.uid) \/ TakenOver \/ faults > 0

\* A pod that is to run is created in the provider, in its last version, unless
\* it is removed, deleted or failed before, or takes over the pod of its
\* predecessor.
PodsStarted ==
  api # Nil /\ ~api.del /\ ~Terminal(api.status)
    ~> \/ api = Nil \/ api.del \/ Terminal(api.status)
       \/ Provided(api) /\ prov.uid = api.uid
       \/ TakenOver

\* What the process knows of the provider's pod: all, as long as it has not
\* died; then what it was told since.
Told ==
  IF crashes = 0 /\ panic = "none" THEN prov
  ELSE IF known = Nil THEN Nil ELSE known.last

\* The status of the provider's pod reaches the API server, as long as the
\* process lives; and what a process that was started again is told does.
StatusArrives ==
  []<>(\/ api = Nil \/ Told = Nil
       \/ api.uid # Told.uid \/ Terminal(api.status)
       \/ api.status = Told.status)
=============================================================================
