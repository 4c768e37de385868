---------------------------- MODULE SyncProvider ----------------------------
(***************************************************************************)
(* The wrapper that polls a provider which does not notify (node/sync.go), *)
(* for the pods that have one name after the other, with what the pod      *)
(* controller does to it: syncPodFromKubernetesHandler calls CreatePod and *)
(* DeletePod, deletePodsFromKubernetesHandler ends with _deletePodKey, and *)
(* the status handler writes what was notified.  The poll loop and the     *)
(* three handlers are goroutines of their own.  The lister is taken to be  *)
(* in step with the API server: PodController has the lag between them.    *)
(***************************************************************************)
EXTENDS Naturals

CONSTANTS
    Uids,           \* 1..n, in the order the pods are created
    None,
    MaxMarks,       \* bound on the deletion requests for one pod
    MaxFaults       \* bound on lost pods and failed provider calls

VARIABLES
    pod,            \* the pod in the API server, or None
    nextUid,
    old,            \* pods created more than a minute ago
    held,           \* the pod the provider has, or None
    deletedPods,    \* BOOLEAN: the key is in the deletion cache
    received,       \* lastPodStatusReceivedFromProvider until it is handled, or None
    poll,           \* the goroutine of run
    sync,           \* the worker of syncPodsFromKubernetes
    queued,         \* BOOLEAN: deletePodsFromKubernetes has the key
    delete,         \* the worker of deletePodsFromKubernetes
    used,           \* lastPodUsed: the marks of the pod when it was synced, or None
    deleted,        \* history: the last DeletePod for the pod succeeded
    orphan,         \* history: the key was last stored for a pod that Kubernetes
                    \* did not have any more
    crossed,        \* history: in the time of the pod _deletePodKey took the key out
                    \* and it was not stored since
    faults

apiVars == <<pod, nextUid, old>>
entryVars == <<received, used, deleted, crossed>>
wrapperVars == <<deletedPods, orphan>>
workVars == <<sync, queued, delete>>
vars == <<apiVars, held, entryVars, wrapperVars, poll, workVars, faults>>

\* The statuses that the code tells apart.  Waiting: the phase is Running and no
\* container runs.
Statuses == {"Pending", "Waiting", "Running", "Succeeded", "Failed"}
Terminal == {"Succeeded", "Failed"}

\* running(): some container neither terminated nor waiting.
running(st) == st = "Running"
PhaseRunning(st) == st \in {"Waiting", "Running"}

\* marks counts the deletion requests, later ones with a shorter grace.
Pods == [uid : Uids, st : Statuses, marks : 0..MaxMarks]

\* What the goroutines use of their copies: a poll whether the phase was Running
\* (up) and, like the reports, whether there is a deletion timestamp; DeletePod
\* whether the phase was terminal (ended).
Polled == [uid : Uids, up : BOOLEAN, del : BOOLEAN]
Reports == [st : Statuses, del : BOOLEAN]
Deletions == [uid : Uids, ended : BOOLEAN, marks : 0..MaxMarks]
Idle == [pc |-> "idle", pod |-> None]

ASSUME SyncProviderAssumption ==
    /\ Uids \subseteq Nat
    /\ {MaxMarks, MaxFaults} \subseteq Nat
    /\ \A p \in Pods \cup Polled \cup Reports \cup Deletions \cup 0..MaxMarks : p # None

Init ==
    /\ pod = None /\ nextUid = 1 /\ old = {}
    /\ held = None
    /\ deletedPods = FALSE
    /\ received = None
    /\ poll = Idle /\ sync = Idle
    /\ queued = FALSE /\ delete = "idle"
    /\ used = None
    /\ deleted = FALSE /\ orphan = FALSE /\ crossed = FALSE
    /\ faults = 0

Fault == faults < MaxFaults /\ faults' = faults + 1

(***************************************************************************)
(* Users, time, the provider                                               *)
(***************************************************************************)
UserCreates ==
    /\ pod = None
    /\ nextUid \in Uids
    /\ pod' = [uid |-> nextUid, st |-> "Pending", marks |-> 0]
    /\ nextUid' = nextUid + 1
    /\ UNCHANGED <<old, held, entryVars, wrapperVars, poll, workVars, faults>>

\* The pod is removed: DeleteFunc drops the knownPods entry, and with it what
\* was received and not handled yet, and lastPodUsed.
Removed ==
    /\ pod' = None
    /\ received' = None /\ used' = None
    /\ deleted' = FALSE /\ crossed' = FALSE

\* A graceful deletion marks the pod, a forced one removes it.
UserDeletes ==
    /\ pod # None
    /\ \/ /\ \E m \in pod.marks + 1 .. MaxMarks : pod' = [pod EXCEPT !.marks = m]
          /\ UNCHANGED entryVars
       \/ Removed
    /\ UNCHANGED <<nextUid, old, held, wrapperVars, poll, workVars, faults>>

\* The age of a pod matters while its phase is not Running.
MinutePasses ==
    /\ \/ pod # None /\ pod.st = "Pending" /\ old' = old \cup {pod.uid}
       \/ poll.pc # "idle" /\ ~ poll.pod.up /\ old' = old \cup {poll.pod.uid}
    /\ old' # old
    /\ UNCHANGED <<pod, nextUid, held, entryVars, wrapperVars, poll, workVars, faults>>

ProviderLosesPod ==
    /\ held # None
    /\ Fault
    /\ held' = None
    /\ UNCHANGED <<apiVars, entryVars, wrapperVars, poll, workVars>>

\* The containers start, wait to be restarted, or end.
ProviderChanges ==
    /\ held # None
    /\ held.st \notin Terminal
    /\ \E st \in {"Waiting", "Running", "Succeeded"} : held' = [held EXCEPT !.st = st]
    /\ UNCHANGED <<apiVars, entryVars, wrapperVars, poll, workVars, faults>>

(***************************************************************************)
(* The wrapper's callback and the status handler                           *)
(***************************************************************************)

\* enqueuePodStatusUpdate: without a pod of that name the report is dropped.
Notify(st, del) == received' = IF pod = None THEN received ELSE [st |-> st, del |-> del]

\* The report has a deletion timestamp, and the pod the same status without one.
DeletesAgain == received.del /\ pod.marks = 0 /\ received.st = pod.st

\* pc.updatePodStatus.  It goes by the name: the UID of the report is replaced
\* by that of the pod.  A terminal pod is left alone; else the pod is deleted,
\* at once or with a grace period, or the status is written.
WriteStatus ==
    /\ received # None /\ pod # None
    /\ \/ /\ pod.st \in Terminal
          /\ received' = None /\ UNCHANGED <<pod, used, deleted, crossed>>
       \/ /\ pod.st \notin Terminal /\ DeletesAgain
          /\ \/ Removed
             \/ /\ \E m \in 1..MaxMarks : pod' = [pod EXCEPT !.marks = m]
                /\ received' = None /\ UNCHANGED <<used, deleted, crossed>>
       \/ /\ pod.st \notin Terminal /\ ~ DeletesAgain
          /\ pod' = [pod EXCEPT !.st = received.st]
          /\ received' = None /\ UNCHANGED <<used, deleted, crossed>>
    /\ UNCHANGED <<nextUid, old, held, wrapperVars, poll, workVars, faults>>

(***************************************************************************)
(* syncPodStatuses and updatePodStatus of the wrapper                      *)
(***************************************************************************)
PollLists ==
    /\ poll.pc = "idle"
    /\ pod # None
    /\ pod.st \notin Terminal
    /\ poll' = [pc |-> "status", pod |-> [uid |-> pod.uid, up |-> PhaseRunning(pod.st),
                                       del |-> pod.marks > 0]]
    /\ UNCHANGED <<apiVars, held, entryVars, wrapperVars, workVars, faults>>

\* GetPodStatus is by name.
PollGetsStatus ==
    /\ poll.pc = "status"
    /\ \/ held # None /\ Notify(held.st, poll.pod.del) /\ poll' = Idle /\ UNCHANGED faults
       \/ /\ held = None
          /\ poll' = [poll EXCEPT !.pc = "cache"]
          /\ UNCHANGED <<received, faults>>
       \/ Fault /\ poll' = Idle /\ UNCHANGED received
    /\ UNCHANGED <<apiVars, held, used, deleted, crossed, wrapperVars, workVars>>

\* Mutant: the deletion cache is not looked at.
KnownDeleted_Never == FALSE

\* deletedPods.Load
KnownDeleted == deletedPods

\* The pod was not found: what updatePodStatus makes of it.
ReportsLost(p) ==
    /\ ~ KnownDeleted
    /\ p.up \/ p.uid \in old

\* Mutant: a pod that is not found is only logged.
PollDecides_Logs ==
    /\ poll.pc = "cache"
    /\ poll' = Idle
    /\ UNCHANGED <<apiVars, held, entryVars, wrapperVars, workVars, faults>>

PollDecides ==
    /\ poll.pc = "cache"
    /\ IF ReportsLost(poll.pod) THEN Notify("Failed", poll.pod.del) ELSE UNCHANGED received
    /\ poll' = Idle
    /\ UNCHANGED <<apiVars, held, used, deleted, crossed, wrapperVars, workVars, faults>>

(***************************************************************************)
(* syncPodFromKubernetesHandler                                            *)
(***************************************************************************)

\* createOrUpdatePod for a pod that was not used yet.  A pod of that name and
\* with that specification in the provider is taken for it.  The environment
\* may not be resolved, and CreatePod may fail: handleProviderError.
SyncCreates ==
    /\ sync.pc = "idle"
    /\ pod # None
    /\ pod.marks = 0 /\ pod.st \notin Terminal /\ used # 0
    /\ \/ /\ held' = IF held = None THEN [uid |-> pod.uid, st |-> "Pending"] ELSE held
          /\ used' = 0
          /\ UNCHANGED <<pod, faults>>
       \/ Fault /\ UNCHANGED <<pod, held, used>>
       \/ /\ held = None /\ Fault
          /\ \E st \in {"Pending", "Failed"} : pod' = [pod EXCEPT !.st = st]
          /\ UNCHANGED <<held, used>>
    /\ UNCHANGED <<nextUid, old, received, deleted, crossed, wrapperVars, poll, workVars>>

\* The handler calls DeletePod for a pod marked for deletion that runs, and for
\* one the provider has and Kubernetes does not; deletedPods.Store comes first.
SyncDeletes ==
    /\ sync.pc = "idle"
    /\ \/ pod # None /\ pod.marks > 0 /\ running(pod.st) /\ used # pod.marks
       \/ pod = None /\ held # None
    /\ sync' = [pc |-> "call",
                pod |-> IF pod # None
                        THEN [uid |-> pod.uid, ended |-> FALSE, marks |-> pod.marks]
                        ELSE [uid |-> held.uid, ended |-> held.st \in Terminal, marks |-> 0]]
    /\ deletedPods' = TRUE
    /\ orphan' = (pod = None)
    /\ crossed' = FALSE
    /\ UNCHANGED <<apiVars, held, received, used, deleted, poll, queued, delete, faults>>

\* Kubernetes still has the pod that DeletePod was called for.
StillThere == pod # None /\ pod.uid = sync.pod.uid

\* PodLifecycleHandler.DeletePod: the pod is gone, was not found, or the call
\* fails, possibly after the pod is gone.
ProviderDeletes ==
    /\ sync.pc = "call"
    /\ \/ /\ held # None
          /\ held' = None
          /\ sync' = [sync EXCEPT !.pc = "notify"]
          /\ deleted' = (deleted \/ StillThere)
          /\ UNCHANGED faults
       \/ /\ held = None
          /\ sync' = [sync EXCEPT !.pc = "notfound"]
          /\ deleted' = (deleted /\ ~ StillThere)
          /\ UNCHANGED <<held, faults>>
       \/ /\ Fault
          /\ held' \in {held, None}
          /\ sync' = [sync EXCEPT !.pc = "error"]
          /\ deleted' = (deleted /\ ~ StillThere)
    /\ UNCHANGED <<apiVars, received, used, crossed, wrapperVars, poll, queued, delete>>

\* syncPodInProvider ends without an error, for a pod that Kubernetes had: the
\* deletion is queued, also while the worker handles an earlier one, and
\* lastPodUsed is set in the entry of that pod.
DeleteLater ==
    /\ queued' = (queued \/ sync.pod.marks > 0)
    /\ used' = IF sync.pod.marks > 0 /\ StillThere THEN sync.pod.marks ELSE used

\* Mutant: an error leaves the key in the cache.
DeleteFails_Leaks ==
    /\ sync.pc \in {"error", "notfound"}
    /\ IF sync.pc = "notfound" THEN DeleteLater ELSE UNCHANGED <<queued, used>>
    /\ sync' = Idle
    /\ UNCHANGED <<apiVars, held, received, deleted, crossed, wrapperVars, poll, delete, faults>>

\* An error takes the key out of the cache.  NotFound is an error here too, and
\* counts as success for the handler.
DeleteFails ==
    /\ sync.pc \in {"error", "notfound"}
    /\ deletedPods' = FALSE
    /\ IF sync.pc = "notfound" THEN DeleteLater ELSE UNCHANGED <<queued, used>>
    /\ sync' = Idle
    /\ UNCHANGED <<apiVars, held, received, deleted, crossed, orphan, poll, delete, faults>>

\* The terminal status is notified unless the pod had one.
DeleteNotifies ==
    /\ sync.pc = "notify"
    /\ IF sync.pod.ended THEN UNCHANGED received
       ELSE Notify("Succeeded", sync.pod.marks > 0)
    /\ DeleteLater
    /\ sync' = Idle
    /\ UNCHANGED <<apiVars, held, deleted, crossed, wrapperVars, poll, delete, faults>>

\* A pod marked for deletion without a running container is deleted in
\* Kubernetes only.
SyncForceDeletes ==
    /\ sync.pc = "idle"
    /\ ~ queued
    /\ pod # None
    /\ pod.marks > 0 /\ ~ running(pod.st)
    /\ queued' = TRUE
    /\ UNCHANGED <<apiVars, held, entryVars, wrapperVars, poll, sync, delete, faults>>

(***************************************************************************)
(* deletePodsFromKubernetesHandler                                         *)
(***************************************************************************)
\* Delete by name; an error is retried.
DeleteFromKubernetes ==
    /\ delete = "idle" /\ queued
    /\ \/ Removed /\ queued' = FALSE /\ delete' = "cleanup" /\ UNCHANGED faults
       \/ Fault /\ UNCHANGED <<pod, entryVars, queued, delete>>
    /\ UNCHANGED <<nextUid, old, held, wrapperVars, poll, sync>>

\* _deletePodKey, deferred.
DeletePodKey ==
    /\ delete = "cleanup"
    /\ deletedPods' = FALSE
    /\ crossed' = (crossed \/ pod # None)
    /\ delete' = "idle"
    /\ UNCHANGED <<apiVars, held, received, used, deleted, orphan, poll, sync, queued, faults>>

Users == UserCreates \/ UserDeletes \/ MinutePasses \/ ProviderLosesPod \/ ProviderChanges
Poll == PollLists \/ PollGetsStatus \/ PollDecides
Sync == SyncCreates \/ SyncDeletes \/ ProviderDeletes \/ DeleteFails \/ DeleteNotifies
          \/ SyncForceDeletes
Delete == DeleteFromKubernetes \/ DeletePodKey

Next == Users \/ WriteStatus \/ Poll \/ Sync \/ Delete

Spec == Init /\ [][Next]_vars

(* The loop and the workers are scheduled, and a minute passes. *)
FairSpec ==
    /\ Spec
    /\ WF_vars(WriteStatus)
    /\ WF_vars(Poll)
    /\ WF_vars(Sync)
    /\ WF_vars(Delete)
    /\ WF_vars(MinutePasses)

-----------------------------------------------------------------------------
\* The types of the API object, the provider's pod, the wrapper of sync.go and
\* the three goroutines around it.
TypeOK ==
    /\ pod \in Pods \cup {None}
    /\ nextUid \in Nat
    /\ old \subseteq Uids
    /\ held \in [uid : Uids, st : Statuses] \cup {None}
    /\ deletedPods \in BOOLEAN
    /\ received \in Reports \cup {None}
    /\ poll \in [pc : {"idle", "status", "cache"}, pod : Polled \cup {None}]
    /\ sync \in [pc : {"idle", "call", "notify", "error", "notfound"}, pod : Deletions \cup {None}]
    /\ queued \in BOOLEAN
    /\ delete \in {"idle", "cleanup"}
    /\ used \in 0..MaxMarks \cup {None}
    /\ deleted \in BOOLEAN /\ orphan \in BOOLEAN /\ crossed \in BOOLEAN
    /\ faults \in 0..MaxFaults

\* sync.go:35: "deletedPods makes sure we don't set the "NotFound" status for
\* pods which have been requested to be deleted".  While Kubernetes has the pod
\* and the provider's last DeletePod for it succeeded, no poll that was under
\* way reports it as lost.  The one exception: the deferred _deletePodKey of an
\* earlier pod of the name has taken out the key that DeletePod has stored.
DeletedNotReportedLost ==
    [][PollDecides /\ ReportsLost(poll.pod)
         => ~ (pod # None /\ pod.uid = poll.pod.uid /\ deleted) \/ crossed]_vars

\* A key that no clean-up will take out: it was stored for a pod that Kubernetes
\* had forgotten before the provider was told to delete it.
Leaked == deletedPods /\ orphan

\* sync.go:65-68: the key does not leak in the deletion cache when calls fail or
\* the pod is replaced, for pods whose DeletePod was called while Kubernetes had
\* them.
CacheIsCleaned == deletedPods ~> (~ deletedPods \/ Leaked)

\* The provider has no pod for one that it was given and that is wanted.
Lost == pod # None /\ pod.marks = 0 /\ pod.st \notin Terminal
          /\ held = None /\ used = 0

\* sync.go:189: a pod that the provider has lost becomes Failed, so that it is
\* replaced.  Only a leaked key of an earlier pod of the name hides the loss: a
\* key that is still to be cleaned up does not.
LostIsReported == Lost ~> (~ Lost \/ Leaked)
=============================================================================
