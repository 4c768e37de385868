------------------------- MODULE SyncProviderProofs -------------------------
(***************************************************************************)
(* Proofs about SyncProvider, for any number of pods of one name, deletion *)
(* requests and faults.                                                    *)
(***************************************************************************)
EXTENDS SyncProvider, TLAPS

-----------------------------------------------------------------------------
(* Types                                                                   *)

\* The flags of the wrapper and of the histories.
FlagsOK ==
    /\ deletedPods \in BOOLEAN /\ queued \in BOOLEAN
    /\ deleted \in BOOLEAN /\ orphan \in BOOLEAN /\ crossed \in BOOLEAN

\* The types of the rest; a goroutine between two steps of its work has the pod
\* it works on.
WorkInv ==
    /\ pod \in Pods \cup {None}
    /\ nextUid \in Nat
    /\ old \subseteq Uids
    /\ held \in [uid : Uids, st : Statuses] \cup {None}
    /\ received \in Reports \cup {None}
    /\ poll \in [pc : {"idle", "status", "cache"}, pod : Polled \cup {None}]
    /\ sync \in [pc : {"idle", "call", "notify", "error", "notfound"},
                 pod : Deletions \cup {None}]
    /\ delete \in {"idle", "cleanup"}
    /\ used \in 0..MaxMarks \cup {None}
    /\ faults \in 0..MaxFaults
    /\ poll.pc # "idle" => poll.pod \in Polled
    /\ sync.pc # "idle" => sync.pod \in Deletions

\* Nothing is there and nothing runs.
LEMMA InitWork == Init => WorkInv /\ FlagsOK
<1> SUFFICES ASSUME Init
             PROVE  WorkInv /\ FlagsOK
    OBVIOUS
<1>1. FlagsOK
  BY Zenon DEF Init, FlagsOK
<1>2. /\ pod = None /\ nextUid = 1 /\ old = {} /\ held = None /\ received = None
      /\ poll = Idle /\ sync = Idle /\ delete = "idle" /\ used = None /\ faults = 0
  BY SMTT(40) DEF Init
<1> QED
  BY ONLY <1>1, <1>2, SyncProviderAssumption DEF Idle, WorkInv

\* Every step keeps the flags.
LEMMA NextFlags == FlagsOK /\ [Next]_vars => FlagsOK'
BY Zenon DEF FlagsOK, Next, vars, apiVars, entryVars, wrapperVars, workVars, Users, UserCreates,
   UserDeletes, MinutePasses, ProviderLosesPod, ProviderChanges, Removed, WriteStatus, Poll,
   PollLists, PollGetsStatus, PollDecides, Sync, SyncCreates, SyncDeletes, ProviderDeletes,
   DeleteFails, DeleteLater, DeleteNotifies, SyncForceDeletes, Delete, DeleteFromKubernetes,
   DeletePodKey

\* Every step keeps the other types.
LEMMA NextWork == WorkInv /\ [Next]_vars => WorkInv'
<1> SUFFICES ASSUME WorkInv, [Next]_vars
             PROVE  WorkInv'
    OBVIOUS
<1> USE SyncProviderAssumption
    DEF WorkInv, Pods, Reports, Polled, Deletions, Statuses, Terminal, Idle, apiVars, entryVars,
        wrapperVars, workVars
<1>1. CASE UNCHANGED vars
  BY <1>1 DEF vars
<1>2. CASE UserCreates
  BY <1>2 DEF UserCreates
<1>3. CASE UserDeletes
  BY <1>3 DEF UserDeletes, Removed
<1>4. CASE MinutePasses
  <2>1. UNCHANGED <<pod, nextUid, held, received, poll, sync, delete, used, faults>>
    BY <1>4 DEF MinutePasses
  <2>2. pod # None => pod.uid \in Uids
    OBVIOUS
  <2>3. poll.pc # "idle" => poll.pod.uid \in Uids
    OBVIOUS
  <2>4. old' \subseteq Uids
    BY <1>4, <2>2, <2>3, Zenon DEF MinutePasses
  <2> QED
    BY <2>1, <2>4
<1>5. CASE ProviderLosesPod \/ ProviderChanges
  BY <1>5 DEF ProviderLosesPod, ProviderChanges, Fault
<1>6. CASE WriteStatus
  BY <1>6 DEF WriteStatus, Removed
<1>7. CASE PollLists
  BY <1>7 DEF PollLists, PhaseRunning
<1>8. CASE PollGetsStatus
  BY <1>8 DEF PollGetsStatus, Notify, Fault
<1>9. CASE PollDecides
  BY <1>9 DEF PollDecides, Notify
<1>10. CASE SyncCreates
  BY <1>10 DEF SyncCreates, Fault
<1>11. CASE SyncDeletes
  BY <1>11 DEF SyncDeletes
<1>12. CASE ProviderDeletes
  BY <1>12 DEF ProviderDeletes, Fault
<1>13. CASE DeleteFails
  BY <1>13 DEF DeleteFails, DeleteLater
<1>14. CASE DeleteNotifies
  <2>1. /\ sync' = Idle
        /\ UNCHANGED <<pod, nextUid, old, held, poll, delete, faults>>
    BY <1>14 DEF DeleteNotifies
  <2>2. used' \in 0..MaxMarks \cup {None}
    BY <1>14 DEF DeleteNotifies, DeleteLater
  <2>3. (sync.pod.marks > 0) \in BOOLEAN
    BY <1>14 DEF DeleteNotifies
  <2>4. \E b \in BOOLEAN : received' \in {received, [st |-> "Succeeded", del |-> b]}
    BY <1>14, <2>3, Zenon DEF DeleteNotifies, Notify
  <2>5. received' \in Reports \cup {None}
    BY <2>4
  <2> QED
    BY <2>1, <2>2, <2>5
<1>15. CASE SyncForceDeletes
  BY <1>15 DEF SyncForceDeletes
<1>16. CASE DeleteFromKubernetes
  <2>1. UNCHANGED <<nextUid, old, held, poll, sync>>
    BY <1>16 DEF DeleteFromKubernetes
  <2>2. CASE Removed /\ delete' = "cleanup" /\ UNCHANGED faults
    BY <2>1, <2>2 DEF Removed
  <2>3. CASE Fault /\ UNCHANGED <<pod, entryVars, delete>>
    BY <2>1, <2>3 DEF Fault
  <2> QED
    BY <1>16, <2>2, <2>3 DEF DeleteFromKubernetes
<1>17. CASE DeletePodKey
  BY <1>17 DEF DeletePodKey
<1> QED
  BY <1>1, <1>2, <1>3, <1>4, <1>5, <1>6, <1>7, <1>8, <1>9, <1>10, <1>11, <1>12, <1>13, <1>14,
     <1>15, <1>16, <1>17, Zenon DEF Next, Users, Poll, Sync, Delete

\* The pods, the deletion cache and the goroutines of sync.go keep their types.
THEOREM TypeCorrect == Spec => []TypeOK
<1>1. WorkInv /\ FlagsOK => TypeOK
  BY Zenon DEF WorkInv, FlagsOK, TypeOK
<1> QED
  BY <1>1, InitWork, NextWork, NextFlags, PTL DEF Spec

-----------------------------------------------------------------------------
(* The deletion cache                                                      *)

\* A pod in Kubernetes that was deleted in the provider has its key in the
\* cache.  It is inductive together with: UIDs grow; a DeletePod under way has
\* stored the key and concerns the pod that Kubernetes has, or that pod is newer
\* and was not deleted yet; and a DeletePod that takes the key out again has
\* not deleted.
CacheInv ==
    /\ pod # None => pod.uid < nextUid
    /\ pod = None => ~ deleted
    /\ held # None => held.uid < nextUid
    /\ sync.pc # "idle" => sync.pod.uid < nextUid
    /\ sync.pc # "idle" /\ deleted => StillThere
    /\ sync.pc = "call" /\ StillThere => deletedPods \/ crossed
    /\ ~ (sync.pc \in {"error", "notfound"} /\ deleted)
    /\ deleted => deletedPods \/ crossed

\* No pod has been created.
LEMMA InitCache == Init => CacheInv
BY SMTT(40) DEF Init, Idle, CacheInv

\* Every step keeps the invariant.
LEMMA NextCache == WorkInv /\ CacheInv /\ [Next]_vars => CacheInv'
<1> SUFFICES ASSUME WorkInv, CacheInv, [Next]_vars
             PROVE  CacheInv'
    OBVIOUS
<1> USE SyncProviderAssumption
    DEF WorkInv, CacheInv, StillThere, Pods, Deletions, Idle, apiVars, entryVars, wrapperVars,
        workVars
<1>1. CASE UNCHANGED vars
  BY <1>1 DEF vars
<1>2. CASE UserCreates
  <2>1. /\ pod' # None /\ pod'.uid = nextUid /\ nextUid' = nextUid + 1
        /\ UNCHANGED <<held, deletedPods, deleted, sync, crossed>>
    BY <1>2 DEF UserCreates, Statuses
  <2>2. sync.pc # "idle" => sync.pod.uid \in Nat /\ sync.pod.uid < nextUid
    BY Zenon
  <2>3. held # None => held.uid \in Nat /\ held.uid < nextUid
    BY Zenon
  <2>4. nextUid \in Nat /\ ~ deleted
    BY <1>2 DEF UserCreates
  <2> QED
    BY ONLY <2>1, <2>2, <2>3, <2>4, CacheInv DEF CacheInv, StillThere
<1>3. CASE UserDeletes
  BY <1>3 DEF UserDeletes, Removed
<1>4. CASE MinutePasses \/ ProviderLosesPod \/ ProviderChanges
  BY <1>4 DEF MinutePasses, ProviderLosesPod, ProviderChanges
<1>5. CASE WriteStatus
  <2>1. UNCHANGED <<nextUid, held, deletedPods, sync>>
    BY <1>5 DEF WriteStatus
  <2>2. CASE Removed
    BY ONLY CacheInv, <2>1, <2>2 DEF CacheInv, Removed, StillThere
  <2>3. CASE pod # None /\ pod' # None /\ pod'.uid = pod.uid /\ UNCHANGED <<deleted, crossed>>
    BY ONLY CacheInv, <2>1, <2>3 DEF CacheInv, StillThere
  <2> QED
    BY <1>5, <2>2, <2>3 DEF WriteStatus, Reports
<1>6. CASE PollLists \/ PollGetsStatus \/ PollDecides
  BY <1>6 DEF PollLists, PollGetsStatus, PollDecides
<1>7. CASE SyncCreates
  <2>1. UNCHANGED <<nextUid, deleted, crossed, deletedPods, sync>>
    BY <1>7 DEF SyncCreates
  <2>2. pod # None /\ pod' # None /\ pod'.uid = pod.uid
    BY <1>7 DEF SyncCreates, Statuses
  <2>3. held' # None => held'.uid < nextUid
    BY <1>7 DEF SyncCreates
  <2> QED
    BY ONLY CacheInv, <2>1, <2>2, <2>3 DEF CacheInv, StillThere
<1>8. CASE SyncDeletes
  BY <1>8 DEF SyncDeletes
<1>9. CASE ProviderDeletes
  BY <1>9 DEF ProviderDeletes
<1>10. CASE DeleteFails
  BY <1>10 DEF DeleteFails
<1>11. CASE DeleteNotifies \/ SyncForceDeletes
  BY <1>11 DEF DeleteNotifies, SyncForceDeletes
<1>12. CASE DeleteFromKubernetes
  <2>1. UNCHANGED <<nextUid, held, deletedPods, sync>>
    BY <1>12 DEF DeleteFromKubernetes
  <2>2. CASE Removed
    BY ONLY CacheInv, <2>1, <2>2 DEF CacheInv, Removed, StillThere
  <2>3. CASE UNCHANGED <<pod, deleted, crossed>>
    BY ONLY CacheInv, <2>1, <2>3 DEF CacheInv, StillThere
  <2> QED
    BY <1>12, <2>2, <2>3, Zenon DEF DeleteFromKubernetes
<1>13. CASE DeletePodKey
  BY <1>13 DEF DeletePodKey
<1> QED
  BY <1>1, <1>2, <1>3, <1>4, <1>5, <1>6, <1>7, <1>8, <1>9, <1>10, <1>11, <1>12, <1>13, Zenon
     DEF Next, Users, Poll, Sync, Delete

\* A poll reports a pod only when the key is not in the cache.
LEMMA LostStep ==
    CacheInv /\ [Next]_vars =>
      [PollDecides /\ ReportsLost(poll.pod)
         => ~ (pod # None /\ pod.uid = poll.pod.uid /\ deleted) \/ crossed]_vars
BY Zenon DEF CacheInv, ReportsLost, KnownDeleted

\* sync.go:35: a pod whose deletion was requested and has succeeded is not
\* reported as lost by a poll that was under way, unless a late _deletePodKey
\* of its predecessor has taken its key.
THEOREM DeletedNotReportedLostThm == Spec => DeletedNotReportedLost
BY InitWork, NextWork, InitCache, NextCache, LostStep, PTL DEF Spec, DeletedNotReportedLost
=============================================================================
