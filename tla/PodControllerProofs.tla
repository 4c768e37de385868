------------------------ MODULE PodControllerProofs ------------------------
(***************************************************************************)
(* Proofs about PodController, for every value of the bounds: the types,   *)
(* that UpdateFunc never panics, what is deleted, that a failed pod stays  *)
(* failed and that a skipped sync was not needed.                          *)
(*                                                                         *)
(* Why UpdateFunc finds an entry: the notifications form a chain that ends *)
(* in the informer's cache, and an entry exists whenever the next          *)
(* notification starts from a pod.  Every step of the chain keeps this: an *)
(* add creates the entry, an update leaves it, a delete removes it and the *)
(* notification after it starts from nothing.  The other writer of the     *)
(* map, createOrUpdatePod, only ever adds an entry.                        *)
(*                                                                         *)
(* Why only unwanted pods are stopped: the pods that the provider, a sync, *)
(* the cache and the watch have are versions of the API server's pod, each *)
(* not later than the next (VersionInv).  A sync that finds no pod, or one *)
(* with a deletion timestamp, therefore stops a pod that is gone or marked *)
(* in the API server as well, however old what it has read is.             *)
(*                                                                         *)
(* Why the delete handler removes a pod only after a mark: before the API  *)
(* server marks its first pod nobody has a marked copy, so nobody asks for *)
(* a deletion, and the last mark is on the API server's pod or an earlier  *)
(* one (MarkInv).                                                          *)
(*                                                                         *)
(* Why a failed pod stays failed and a skipped sync was not needed: behind *)
(* a reported failure there are only failures on the way to the API server *)
(* (StatusInv), the provider is not asked again to create what has ended   *)
(* (Order), and lastPodUsed stands for what the provider has for as long   *)
(* as somebody wants the pod to run (UsedInv).                             *)
(***************************************************************************)
EXTENDS PodController, Integers, TLAPS

\* What the locals of the goroutines point to.
Locals ==
  /\ sync.at \in {"current", "stale"} => sync.pod # Nil
  /\ sync.at = "current" => known # Nil
  /\ status.at # "idle" => status.pod # Nil
  /\ status.at \in {"remove", "write"} => status.from # Nil
  /\ noter # "idle" => inbox # <<>>
  /\ noter = "current" => known # Nil

\* Notifications are delivered to the event handlers only, and each one
\* starts from the pod the one before it ended with.
Chain ==
  /\ ~Listening => notes = <<>>
  /\ \A i \in 1 .. Len(notes) - 1 : notes[i][2] = notes[i + 1][1]
  /\ notes # <<>> => notes[Len(notes)][2] = cache

\* The pod the event handlers have been told of has an entry.
ToldIsKnown ==
  IF notes = <<>> THEN Listening /\ cache # Nil => known # Nil
                  ELSE Head(notes)[1] # Nil => known # Nil

\* A process that is not running holds nothing.
DownIsEmpty == up = "down" => sync.at = "idle" /\ noter = "idle" /\ known = Nil

SkippedHasStatus == known # Nil /\ known.skip => known.last # Nil

IInv ==
  /\ TypeOK /\ Locals /\ DownIsEmpty
  /\ Chain /\ ToldIsKnown /\ SkippedHasStatus /\ UpdateFuncNeverPanics
-----------------------------------------------------------------------------
(* The values the model is built from. *)

\* The empty sequence.
LEMMA EmptySeq ==
  ASSUME NEW S
  PROVE  /\ <<>> \in Seq(S) /\ Len(<<>>) = 0
         /\ \A s \in Seq(S) : s # <<>> => Len(s) \in Nat \ {0}
  BY SMT

\* What Append adds.
LEMMA AppendProperties ==
  ASSUME NEW S, NEW s \in Seq(S), NEW e \in S
  PROVE  /\ Append(s, e) \in Seq(S) /\ Append(s, e) # <<>> /\ Len(Append(s, e)) = Len(s) + 1
         /\ \A i \in 1 .. Len(s) : Append(s, e)[i] = s[i]
         /\ Append(s, e)[Len(s) + 1] = e
  BY SMT

\* What Head and Tail return.
LEMMA HeadTailProperties ==
  ASSUME NEW S, NEW s \in Seq(S), s # <<>>
  PROVE  /\ Head(s) \in S /\ Tail(s) \in Seq(S) /\ Len(Tail(s)) = Len(s) - 1
         /\ \A i \in 1 .. Len(Tail(s)) : Tail(s)[i] = s[i + 1]
  BY SMT

\* The bounds are numbers.
LEMMA Bounds ==
  /\ MaxUid \in Nat \ {0} /\ MaxSpec \in Nat \ {0}
  /\ MaxSent \in Nat /\ MaxFaults \in Nat /\ MaxCrashes \in Nat
  BY PodControllerAssumption, SMTT(40)

\* The statuses written by the API server, the provider and the controller.
LEMMA Statuses ==
  /\ NewStatus \in Status /\ RunningStatus \in Status /\ FailedStatus \in Status
  /\ \A st \in Status : [st EXCEPT !.phase = ErrorPhase, !.err = TRUE] \in Status
  BY PodControllerAssumption, ZenonT(60) DEF NewStatus, RunningStatus, FailedStatus, Status, Phases

\* A pod as users create it.
LEMMA NewPods ==
  ASSUME NEW u \in 1 .. MaxUid, NEW v \in 1 .. MaxSpec
  PROVE  [uid |-> u, spec |-> v, del |-> FALSE, status |-> NewStatus] \in Pod
  BY Statuses, Zenon DEF Pod

\* The pod that UserCreate stores.
LEMMA Creates ==
  ASSUME TypeOK, UserCreate
  PROVE  \E v \in 1 .. MaxSpec :
           Store([uid |-> uids + 1, spec |-> v, del |-> FALSE, status |-> NewStatus])
<1>1. PICK v \in 1 .. (IF uids = 0 THEN 1 ELSE MaxSpec) :
        Store([uid |-> uids + 1, spec |-> v, del |-> FALSE, status |-> NewStatus])
  BY Zenon DEF UserCreate
<1>2. v \in 1 .. MaxSpec
  BY Bounds
<1> QED
  BY <1>1, <1>2, Zenon

\* A pod with another status, mark or version is a pod.
LEMMA PodUpdates ==
  ASSUME NEW p \in Pod
  PROVE  /\ \A st \in Status : [p EXCEPT !.status = st] \in Pod
         /\ [p EXCEPT !.del = TRUE] \in Pod
         /\ p.spec < MaxSpec => [p EXCEPT !.spec = @ + 1] \in Pod
         /\ p.status \in Status
         /\ Effective(p) \in UsedPod
<1>1. p.spec < MaxSpec => p.spec + 1 \in 1 .. MaxSpec
  BY Bounds DEF Pod
<1>2. p.spec < MaxSpec => [p EXCEPT !.spec = @ + 1] \in Pod
  BY <1>1 DEF Pod
<1>3. /\ \A st \in Status : [p EXCEPT !.status = st] \in Pod
      /\ [p EXCEPT !.del = TRUE] \in Pod
      /\ p.status \in Status
  BY Zenon DEF Pod
<1>4. Effective(p) \in UsedPod
  BY DEF Pod, Effective, UsedPod
<1> QED
  BY <1>2, <1>3, <1>4

\* A fresh knownPods entry, and the fields of one that are set later.
LEMMA Entries ==
  /\ NewKnownPod \in KnownPod
  /\ \A e \in KnownPod :
       /\ \A u \in UsedPod : [e EXCEPT !.used = u] \in KnownPod
       /\ \A p \in Pod : [e EXCEPT !.last = p] \in KnownPod
       /\ \A b \in BOOLEAN : [e EXCEPT !.skip = b] \in KnownPod
  BY DEF NewKnownPod, KnownPod, OptPod

\* Head and Tail of a channel that is not empty.
LEMMA Channel ==
  ASSUME NEW S, NEW s \in Seq(S), s # <<>>
  PROVE  Head(s) \in S /\ Tail(s) \in Seq(S)
  BY HeadTailProperties

\* What a write of the API server leaves behind.
LEMMA StoreType ==
  ASSUME TypeOK, NEW p \in OptPod, Store(p)
  PROVE  api' \in OptPod /\ watch' \in Seq(OptPod)
<1>1. Append(watch, p) \in Seq(OptPod)
  BY AppendProperties DEF TypeOK
<1> QED
  BY <1>1 DEF Store, TypeOK

\* Status writes.
LEMMA StoreStatusType ==
  ASSUME TypeOK, NEW u, NEW st \in Status, StoreStatus(u, st)
  PROVE  api' \in OptPod /\ watch' \in Seq(OptPod)
<1>1. CASE api # Nil /\ Store([api EXCEPT !.status = st])
  <2>1. [api EXCEPT !.status = st] \in OptPod
    BY <1>1, PodUpdates, Zenon DEF TypeOK, OptPod
  <2> QED
    BY <1>1, <2>1, StoreType
<1>2. CASE UNCHANGED <<api, watch>>
  BY <1>2 DEF TypeOK
<1> QED
  BY <1>1, <1>2 DEF StoreStatus

\* Deletions.
LEMMA RemoveType ==
  ASSUME TypeOK, NEW atOnce, Remove(atOnce)
  PROVE  api' \in OptPod /\ watch' \in Seq(OptPod) /\ marked' \in 0 .. MaxUid
<1>1. CASE UNCHANGED <<api, watch, marked>>
  BY <1>1 DEF TypeOK
<1>2. CASE Store(Nil) /\ UNCHANGED marked
  <2>1. marked' \in 0 .. MaxUid
    BY <1>2 DEF TypeOK
  <2> QED
    BY <1>2, <2>1, StoreType DEF OptPod
<1>3. CASE api # Nil /\ Store([api EXCEPT !.del = TRUE]) /\ marked' = api.uid
  <2>1. [api EXCEPT !.del = TRUE] \in OptPod
    BY <1>3, PodUpdates, Zenon DEF TypeOK, OptPod
  <2>2. api.uid \in 1 .. MaxUid
    BY <1>3, Zenon DEF TypeOK, OptPod, Pod
  <2>3. marked' \in 0 .. MaxUid
    BY ONLY <1>3, <2>2, Bounds, SMT
  <2> QED
    BY <1>3, <2>1, <2>3, StoreType
<1> QED
  BY <1>1, <1>2, <1>3 DEF Remove
-----------------------------------------------------------------------------
(* Types. *)

\* The first state.
LEMMA InitIInv == Init => IInv
<1> SUFFICES ASSUME Init PROVE IInv
  OBVIOUS
<1>1. TypeOK
  <2>1. <<>> \in Seq(OptPod) /\ <<>> \in Seq(Note) /\ <<>> \in Seq(Pod)
    BY EmptySeq
  <2>2. /\ 0 \in 0 .. MaxUid /\ 0 \in 0 .. MaxSent /\ 0 \in 0 .. MaxFaults
        /\ 0 \in 0 .. MaxCrashes
    BY Bounds
  <2> QED
    BY <2>1, <2>2 DEF Init, TypeOK, IdleSync, IdleStatus, OptPod, SyncState, StatusState,
                      NoterState, Stage, Panic, Queues
<1>2. /\ Locals /\ DownIsEmpty
      /\ Chain /\ ToldIsKnown /\ SkippedHasStatus /\ UpdateFuncNeverPanics
  BY DEF Init, Locals, DownIsEmpty, Chain, ToldIsKnown, SkippedHasStatus, UpdateFuncNeverPanics,
         IdleSync, IdleStatus, Listening
<1> QED
  BY <1>1, <1>2 DEF IInv

\* Steps of users of the API server.
LEMMA UserTypes == TypeOK /\ User => TypeOK'
<1> SUFFICES ASSUME TypeOK, User PROVE TypeOK'
  OBVIOUS
<1>1. ASSUME api' \in OptPod, watch' \in Seq(OptPod), uids' \in 0 .. MaxUid,
             marked' \in 0 .. MaxUid, ByUser
      PROVE  TypeOK'
  BY <1>1 DEF TypeOK, ByUser, queues, handlers, provider
<1>2. CASE UserCreate
  <2>1. uids + 1 \in 1 .. MaxUid /\ uids + 1 \in 0 .. MaxUid
    <3>1. uids \in 0 .. MaxUid /\ uids < MaxUid
      BY <1>2 DEF UserCreate, TypeOK
    <3> QED
      BY <3>1, Bounds
  <2>2. PICK v \in 1 .. MaxSpec :
          Store([uid |-> uids + 1, spec |-> v, del |-> FALSE, status |-> NewStatus])
    BY <1>2, Creates
  <2>3. [uid |-> uids + 1, spec |-> v, del |-> FALSE, status |-> NewStatus] \in OptPod
    BY <2>1, NewPods DEF OptPod
  <2>4. api' \in OptPod /\ watch' \in Seq(OptPod)
    BY <2>2, <2>3, StoreType
  <2> QED
    BY <1>1, <1>2, <2>1, <2>4 DEF UserCreate, TypeOK
<1>3. CASE UserUpdate
  <2>1. [api EXCEPT !.spec = @ + 1] \in OptPod
    BY <1>3, PodUpdates, Zenon DEF UserUpdate, TypeOK, OptPod
  <2> QED
    BY <1>1, <1>3, <2>1, StoreType, SMTT(40) DEF UserUpdate, TypeOK
<1>4. ASSUME NEW atOnce \in BOOLEAN, UserDelete(atOnce) PROVE TypeOK'
  BY <1>1, <1>4, RemoveType, SMTT(40) DEF UserDelete, TypeOK
<1> QED
  BY <1>2, <1>3, <1>4 DEF User

\* The cache and the notifications.
LEMMA InformerTypes == TypeOK /\ Informer => TypeOK'
<1> SUFFICES ASSUME TypeOK, Informer PROVE TypeOK'
  OBVIOUS
<1>1. ASSUME NEW new \in OptPod, Notify(cache, new) PROVE notes' \in Seq(Note)
  <2>1. <<cache, new>> \in Note
    BY DEF TypeOK, Note
  <2>2. Append(notes, <<cache, new>>) \in Seq(Note)
    BY <2>1, AppendProperties DEF TypeOK
  <2> QED
    BY <1>1, <2>2 DEF Notify, TypeOK
<1>2. ASSUME cache' \in OptPod, watch' \in Seq(OptPod), notes' \in Seq(Note),
             ByInformer
      PROVE  TypeOK'
  BY <1>2, SMTT(40) DEF TypeOK, ByInformer, queues, handlers, provider, bounds
<1>3. CASE Observe
  <2>1. Head(watch) \in OptPod /\ Tail(watch) \in Seq(OptPod)
    BY <1>3, Channel, SMTT(40) DEF Observe, TypeOK
  <2> QED
    BY <1>1, <1>2, <1>3, <2>1 DEF Observe
<1>4. CASE Relist
  <2>1. <<>> \in Seq(OptPod)
    BY EmptySeq
  <2> QED
    BY <1>1, <1>2, <1>4, <2>1, ZenonT(60) DEF Relist, TypeOK
<1>5. CASE Resync
  BY <1>1, <1>2, <1>5, SMTT(40) DEF Resync, TypeOK
<1> QED
  BY <1>3, <1>4, <1>5 DEF Informer

\* A process that dies starts from the types again.
LEMMA DiesTypes ==
  ASSUME TypeOK, NEW why, Dies(why), crashes' \in 0 .. MaxCrashes,
         why \in Panic
  PROVE  TypeOK'
<1>1. <<>> \in Seq(OptPod) /\ <<>> \in Seq(Note) /\ <<>> \in Seq(Pod)
  BY EmptySeq, SMTT(40)
<1> QED
  BY <1>1 DEF Dies, TypeOK, IdleSync, IdleStatus, OptPod, SyncState, StatusState,
              NoterState, Stage

\* The entry of knownPods and the goroutines that hold it.
LEMMA HandlerTypes == TypeOK /\ EventHandler => TypeOK'
<1> SUFFICES ASSUME TypeOK, EventHandler PROVE TypeOK'
  OBVIOUS
<1>1. ASSUME notes # <<>>, ByHandler, known' \in KnownPod \cup {Nil},
             sync' \in SyncState,
             noter' \in NoterState, delayed' \in SUBSET Queues,
             UNCHANGED <<ready, panic>>
      PROVE  TypeOK'
  <2>1. notes' \in Seq(Note)
    BY <1>1, Channel DEF ByHandler, TypeOK
  <2> QED
    BY <1>1, <2>1 DEF ByHandler, TypeOK, provider, bounds
<1>2. /\ [sync EXCEPT !.at = Detached(@)]
            \in SyncState
      /\ Detached(noter) \in NoterState
  BY SMTT(40) DEF Detached, TypeOK, SyncState, NoterState
<1>3. \A S \in SUBSET Queues : delayed \cup S \in SUBSET Queues
  BY DEF TypeOK
<1>4. {"sync"} \in SUBSET Queues /\ {"status"} \in SUBSET Queues /\ {} \in SUBSET Queues
  BY DEF Queues
<1>5. CASE AddFunc
  BY <1>1, <1>2, <1>3, <1>4, <1>5, Entries DEF AddFunc, SetKnown
<1>6. CASE DeleteFunc
  BY <1>1, <1>2, <1>3, <1>4, <1>6 DEF DeleteFunc, SetKnown
<1>7. CASE UpdateFunc
  <2>1. ASSUME NEW why \in {"unknown pod", "no status in UpdateFunc"}, Dies(why),
               UNCHANGED crashes
        PROVE  TypeOK'
    BY <2>1, DiesTypes, Zenon DEF TypeOK, Panic
  <2>2. CASE known = Nil \/ (known # Nil /\ known.skip /\ known.last = Nil)
    BY <1>7, <2>1, <2>2, Zenon DEF UpdateFunc
  <2>3. CASE known # Nil /\ ~(known.skip /\ known.last = Nil)
    <3>1. known' \in KnownPod \cup {Nil}
      BY <1>7, <2>3, Entries, Zenon DEF UpdateFunc, TypeOK
    <3>2. delayed' \in SUBSET Queues
      BY <1>3, <1>4, <1>7, <2>3, ZenonT(60) DEF UpdateFunc, TypeOK
    <3> QED
      BY <1>1, <1>7, <2>3, <3>1, <3>2, Zenon DEF UpdateFunc, TypeOK
  <2> QED
    BY <2>2, <2>3
<1> QED
  BY <1>5, <1>6, <1>7 DEF EventHandler

\* The provider's calls and notifications.
LEMMA ProviderCalls ==
  ASSUME TypeOK
  PROVE  /\ ProviderDeletePod => prov' \in OptPod /\ inbox' \in Seq(Pod)
         /\ \A p \in Pod : ProviderCreatePod(p) => prov' \in OptPod /\ inbox' \in Seq(Pod)
         /\ \A p \in Pod : prov # Nil /\ ProviderUpdatePod(p)
              => prov' \in OptPod /\ inbox' \in Seq(Pod)
<1>1. ASSUME NEW p \in Pod, Sends(p) PROVE inbox' \in Seq(Pod)
  BY <1>1, AppendProperties DEF Sends, TypeOK
<1>2. ASSUME ProviderDeletePod PROVE prov' \in OptPod /\ inbox' \in Seq(Pod)
  <2>1. CASE prov = Nil
    BY <1>2, <2>1 DEF ProviderDeletePod, TypeOK
  <2>2. CASE prov # Nil
    <3>1. [prov EXCEPT !.status = FailedStatus] \in Pod
      BY <2>2, PodUpdates, Statuses, Zenon DEF TypeOK, OptPod
    <3> QED
      BY <1>1, <1>2, <2>2, <3>1, SMTT(40) DEF ProviderDeletePod, OptPod
  <2> QED
    BY <2>1, <2>2
<1>3. ASSUME NEW p \in Pod, ProviderCreatePod(p) PROVE prov' \in OptPod /\ inbox' \in Seq(Pod)
  <2>1. [p EXCEPT !.status = NewStatus] \in Pod
    BY PodUpdates, Statuses, Zenon
  <2> QED
    BY <1>1, <1>3, <2>1, SMTT(40) DEF ProviderCreatePod, OptPod
<1>4. ASSUME NEW p \in Pod, prov # Nil, ProviderUpdatePod(p)
      PROVE  prov' \in OptPod /\ inbox' \in Seq(Pod)
  <2>1. prov.status \in Status
    BY <1>4, PodUpdates, Zenon DEF TypeOK, OptPod
  <2>2. [p EXCEPT !.status = prov.status] \in Pod
    BY <2>1, PodUpdates, Zenon
  <2> QED
    BY <1>4, <2>2 DEF ProviderUpdatePod, OptPod, TypeOK
<1> QED
  BY <1>2, <1>3, <1>4

\* The provider's own steps.
LEMMA ProviderTypes == TypeOK /\ Provider => TypeOK'
<1> SUFFICES ASSUME TypeOK, Provider PROVE TypeOK'
  OBVIOUS
<1>1. ASSUME NEW p \in Pod, Sends(p) PROVE inbox' \in Seq(Pod)
  BY <1>1, AppendProperties DEF Sends, TypeOK
<1>2. CASE ProviderChange
  <2>1. PICK st \in {RunningStatus, FailedStatus} : prov' = [prov EXCEPT !.status = st]
    BY <1>2, SMTT(40) DEF ProviderChange
  <2>2. prov' \in Pod
    BY <1>2, <2>1, PodUpdates, Statuses, ZenonT(60) DEF ProviderChange, TypeOK, OptPod
  <2>3. inbox' \in Seq(Pod)
    BY <1>1, <1>2, <2>2 DEF ProviderChange, TypeOK
  <2>4. sent' \in 0 .. MaxSent
    BY <1>2, Bounds, SMTT(40) DEF ProviderChange, TypeOK
  <2> QED
    BY <1>2, <2>2, <2>3, <2>4 DEF ProviderChange, TypeOK, OptPod, informer, queues, handlers, bounds
<1>3. CASE ProviderEvict
  <2>1. prov' \in Pod
    BY <1>3, PodUpdates, ZenonT(60) DEF ProviderEvict, TypeOK, OptPod
  <2>2. inbox' \in Seq(Pod)
    BY <1>1, <1>3, <2>1 DEF ProviderEvict
  <2> QED
    BY <1>3, <2>1, <2>2, SMTT(40) DEF ProviderEvict, TypeOK, OptPod, informer, queues, handlers, bounds
<1> QED
  BY <1>2, <1>3 DEF Provider

\* Errors are counted, and a failed key is queued again or given up.
LEMMA FaultTypes ==
  ASSUME TypeOK
  PROVE  /\ Fault => faults' \in 0 .. MaxFaults
         /\ NoFault => faults' \in 0 .. MaxFaults
         /\ \A q \in Queues : Retry(q) => delayed' \in SUBSET Queues
<1>1. Fault => faults' \in 0 .. MaxFaults
  <2>1. faults \in 0 .. MaxFaults
    BY DEF TypeOK
  <2> QED
    BY <2>1, Bounds DEF Fault
<1>2. NoFault => faults' \in 0 .. MaxFaults
  BY DEF NoFault, TypeOK
<1>3. \A q \in Queues : Retry(q) => delayed' \in SUBSET Queues
  BY DEF Retry, TypeOK
<1> QED
  BY <1>1, <1>2, <1>3

\* syncPodFromKubernetesHandler.
LEMMA SyncTypes == TypeOK /\ Locals /\ Sync => TypeOK'
<1> SUFFICES ASSUME TypeOK, Locals, Sync PROVE TypeOK'
  OBVIOUS
<1>1. ASSUME BySync, api' \in OptPod, watch' \in Seq(OptPod), known' \in KnownPod \cup {Nil},
             ready' \in SUBSET Queues, delayed' \in SUBSET Queues, sync' \in SyncState,
             prov' \in OptPod, inbox' \in Seq(Pod), noter' \in NoterState,
             faults' \in 0 .. MaxFaults
      PROVE  TypeOK'
  BY <1>1, SMTT(40) DEF BySync, TypeOK
<1>2. IdleSync \in SyncState
  BY DEF IdleSync, SyncState, OptPod
<1>3. {"sync", "delete"} \subseteq Queues /\ \A q \in Queues : ready \ {q} \in SUBSET Queues
  BY DEF TypeOK, Queues
<1>4. Loaded => sync.pod \in Pod /\ sync.pod.status \in Status
  BY PodUpdates, Zenon DEF Loaded, Locals, TypeOK, SyncState, OptPod
<1>5. SetLastPodUsed /\ Loaded => known' \in KnownPod \cup {Nil}
  BY <1>4, PodUpdates, Entries, ZenonT(60) DEF SetLastPodUsed, Locals, TypeOK
<1>6. CASE SyncRead
  <2>1. sync' \in SyncState
    BY <1>6 DEF SyncRead, SyncState, TypeOK
  <2> QED
    BY <1>1, <1>3, <1>6, <2>1, SMTT(40) DEF SyncRead, Take, TypeOK
<1>7. CASE SyncOrphan
  BY <1>1, <1>2, <1>3, <1>7, ProviderCalls, FaultTypes, SMTT(40) DEF SyncOrphan, Returns, TypeOK
<1>8. CASE SyncForceDelete
  <2>1. ready' \in SUBSET Queues
    BY <1>8, <1>3 DEF SyncForceDelete, TypeOK
  <2> QED
    BY <1>1, <1>2, <1>8, <2>1, SMTT(40) DEF SyncForceDelete, Returns, TypeOK
<1>9. CASE SyncLoad
  <2>1. [sync EXCEPT !.at = "current"] \in SyncState
    BY SMTT(40) DEF TypeOK, SyncState
  <2> QED
    BY <1>1, <1>2, <1>9, <2>1, ZenonT(60) DEF SyncLoad, Returns, TypeOK, queues
<1>10. CASE SyncDelete
  <2>1. delayed \cup {"delete"} \in SUBSET Queues
    BY <1>3 DEF TypeOK
  <2> QED
    BY <1>1, <1>2, <1>3, <1>5, <1>10, <2>1, ProviderCalls, FaultTypes, SMTT(40)
    DEF SyncDelete, Returns, TypeOK
<1>11. CASE SyncTerminal
  BY <1>1, <1>2, <1>5, <1>11, SMTT(40) DEF SyncTerminal, Returns, TypeOK, queues
<1>12. CASE SyncCreate
  BY <1>1, <1>2, <1>4, <1>5, <1>12, ProviderCalls, FaultTypes, SMTT(40)
  DEF SyncCreate, Desired, Returns, TypeOK, queues
<1>13. CASE SyncUpdate
  <2>1. noter' \in NoterState /\ known' \in KnownPod \cup {Nil}
    BY <1>13, Entries, SMTT(40) DEF SyncUpdate, SetKnown, Detached, TypeOK, NoterState
  <2> QED
    BY <1>1, <1>2, <1>4, <1>13, <2>1, ProviderCalls, SMTT(40)
    DEF SyncUpdate, Desired, Returns, TypeOK, queues
<1>14. CASE SyncNothingToDo
  BY <1>1, <1>2, <1>5, <1>14, SMTT(40) DEF SyncNothingToDo, Desired, Returns, TypeOK, queues
<1>15. CASE SyncNoEnvironment
  BY <1>1, <1>2, <1>3, <1>15, FaultTypes, SMTT(40) DEF SyncNoEnvironment, Returns, TypeOK
<1>16. CASE SyncProviderError
  <2>1. [sync.pod.status EXCEPT !.phase = ErrorPhase, !.err = TRUE] \in Status
    BY <1>4, <1>16, Statuses, Zenon DEF SyncProviderError, Desired
  <2>2. api' \in OptPod /\ watch' \in Seq(OptPod)
    BY <1>16, <2>1, StoreStatusType DEF SyncProviderError
  <2> QED
    BY <1>1, <1>2, <1>3, <1>16, <2>2, FaultTypes, SMTT(40) DEF SyncProviderError, Returns, TypeOK
<1> QED
  BY <1>6, <1>7, <1>8, <1>9, <1>10, <1>11, <1>12, <1>13, <1>14, <1>15, <1>16 DEF Sync

\* deletePodsFromKubernetesHandler, and the delays of the queues.
LEMMA DeleteTypes == TypeOK /\ (Delete \/ \E q \in Queues : Ripen(q)) => TypeOK'
<1> SUFFICES ASSUME TypeOK, Delete \/ \E q \in Queues : Ripen(q) PROVE TypeOK'
  OBVIOUS
<1>1. ASSUME ByDelete, api' \in OptPod, watch' \in Seq(OptPod), ready' \in SUBSET Queues,
             delayed' \in SUBSET Queues, delete' \in {"idle", "read"},
             faults' \in 0 .. MaxFaults, marked' \in 0 .. MaxUid
      PROVE  TypeOK'
  BY <1>1, SMTT(40) DEF ByDelete, TypeOK, provider
<1>2. CASE DeleteRead
  <2>1. ready' \in SUBSET Queues /\ delete' \in {"idle", "read"}
    BY <1>2 DEF DeleteRead, Take, TypeOK
  <2> QED
    BY <1>1, <1>2, <2>1, SMTT(40) DEF DeleteRead, TypeOK
<1>3. CASE DeleteRemove
  <2>1. "delete" \in Queues
    BY DEF Queues
  <2>2. api' \in OptPod /\ watch' \in Seq(OptPod) /\ marked' \in 0 .. MaxUid
    BY <1>3, RemoveType, Zenon DEF DeleteRemove, TypeOK
  <2>3. delayed' \in SUBSET Queues /\ faults' \in 0 .. MaxFaults
    BY <1>3, <2>1, FaultTypes, Zenon DEF DeleteRemove, TypeOK
  <2> QED
    BY <1>1, <1>3, <2>2, <2>3, SMTT(40) DEF DeleteRemove, TypeOK
<1>4. ASSUME NEW q \in Queues, Ripen(q) PROVE TypeOK'
  <2>1. ready' \in SUBSET Queues /\ delayed' \in SUBSET Queues
    BY <1>4, SMTT(40) DEF Ripen, TypeOK
  <2> QED
    BY <1>4, <2>1, SMTT(40) DEF Ripen, TypeOK, informer, handlers, provider, bounds
<1> QED
  BY <1>2, <1>3, <1>4 DEF Delete

\* syncPodStatusFromProviderHandler.
LEMMA StatusTypes == TypeOK /\ Locals /\ StatusSync => TypeOK'
<1> SUFFICES ASSUME TypeOK, Locals, StatusSync PROVE TypeOK'
  OBVIOUS
<1>1. ASSUME ByStatus, StatusOnly, api' \in OptPod, watch' \in Seq(OptPod),
             known' \in KnownPod \cup {Nil}, ready' \in SUBSET Queues,
             delayed' \in SUBSET Queues, status' \in StatusState, faults' \in 0 .. MaxFaults,
             marked' \in 0 .. MaxUid
      PROVE  TypeOK'
  BY <1>1, SMTT(40) DEF ByStatus, StatusOnly, TypeOK, provider
<1>2. IdleStatus \in StatusState /\ "status" \in Queues
  BY DEF IdleStatus, StatusState, OptPod, Queues
<1>3. CASE StatusRead
  <2>1. ready' \in SUBSET Queues
    BY <1>3 DEF StatusRead, Take, TypeOK
  <2>2. status' \in StatusState
    BY <1>3, ZenonT(60) DEF StatusRead, TypeOK, StatusState
  <2> QED
    BY <1>1, <1>3, <2>1, <2>2, SMTT(40) DEF StatusRead, TypeOK
<1>4. CASE StatusNothingToDo
  BY <1>1, <1>2, <1>4, SMTT(40) DEF StatusNothingToDo, TypeOK, queues
<1>5. CASE StatusPanics
  BY <1>5, DiesTypes, Zenon DEF StatusPanics, TypeOK, Panic
<1>6. CASE StatusCompare
  <2>1. known \in KnownPod /\ known.last \in OptPod
    BY <1>6 DEF StatusCompare, TypeOK, KnownPod
  <2>2. known' \in KnownPod \cup {Nil}
    <3>1. \A b \in BOOLEAN : [known EXCEPT !.skip = b] \in KnownPod
      BY <2>1, Entries
    <3>2. (known.last.status = status.pod.status /\ ~known.last.del) \in BOOLEAN
      OBVIOUS
    <3> QED
      BY <1>6, <3>1, <3>2, Zenon DEF StatusCompare
  <2>3. status' \in StatusState
    <3>1. \A at \in {"remove", "write"} :
            [status EXCEPT !.at = at, !.from = known.last] \in StatusState
      BY <2>1, Zenon DEF TypeOK, StatusState
    <3>2. \/ status' = IdleStatus
          \/ \E at \in {"remove", "write"} :
               status' = [status EXCEPT !.at = at, !.from = known.last]
      BY <1>6 DEF StatusCompare
    <3> QED
      BY <1>2, <3>1, <3>2
  <2> QED
    BY <1>1, <1>6, <2>2, <2>3, SMTT(40) DEF StatusCompare, TypeOK, queues
<1>7. CASE StatusRemove
  <2>1. status' \in StatusState
    <3>1. [status EXCEPT !.at = "write"] \in StatusState
      BY SMTT(40) DEF TypeOK, StatusState
    <3> QED
      BY <1>2, <1>7, <3>1 DEF StatusRemove
  <2>2. api' \in OptPod /\ watch' \in Seq(OptPod) /\ marked' \in 0 .. MaxUid
    BY <1>7, RemoveType DEF StatusRemove, TypeOK
  <2>3. delayed' \in SUBSET Queues /\ faults' \in 0 .. MaxFaults
    BY <1>2, <1>7, FaultTypes, SMTT(40) DEF StatusRemove, TypeOK
  <2> QED
    BY <1>1, <1>7, <2>1, <2>2, <2>3, SMTT(40) DEF StatusRemove, TypeOK
<1>8. CASE StatusWrite
  <2>1. status.from \in Pod
    BY <1>8 DEF StatusWrite, Locals, TypeOK, StatusState, OptPod
  <2>2. api' \in OptPod /\ watch' \in Seq(OptPod)
    <3>1. status.from.status \in Status
      BY <2>1, PodUpdates, ZenonT(60)
    <3> QED
      BY <1>8, <3>1, StoreStatusType DEF StatusWrite, TypeOK
  <2>3. delayed' \in SUBSET Queues /\ faults' \in 0 .. MaxFaults
    BY <1>2, <1>8, FaultTypes DEF StatusWrite, TypeOK
  <2> QED
    BY <1>1, <1>2, <1>8, <2>2, <2>3, SMTT(40) DEF StatusWrite, TypeOK
<1> QED
  BY <1>3, <1>4, <1>5, <1>6, <1>7, <1>8, SMTT(40) DEF StatusSync

\* enqueuePodStatusUpdate.
LEMMA NotifierTypes == TypeOK /\ Locals /\ Notifier => TypeOK'
<1> SUFFICES ASSUME TypeOK, Locals, Notifier PROVE TypeOK'
  OBVIOUS
<1>1. ASSUME ByNotifier, known' \in KnownPod \cup {Nil}, delayed' \in SUBSET Queues,
             inbox' \in Seq(Pod), noter' \in NoterState
      PROVE  TypeOK'
  BY <1>1, SMTT(40) DEF ByNotifier, TypeOK, informer, handlers, bounds
<1>2. inbox # <<>> => Head(inbox) \in Pod /\ Tail(inbox) \in Seq(Pod)
  BY Channel DEF TypeOK
<1>3. CASE NotifyLoad
  <2>1. "current" \in NoterState
    BY DEF NoterState
  <2> QED
    BY <1>1, <1>2, <1>3, <2>1, ZenonT(60) DEF NotifyLoad, TypeOK
<1>4. CASE NotifyStore
  <2>1. inbox # <<>> /\ (noter = "current" => known # Nil)
    BY <1>4 DEF NotifyStore, Locals
  <2>2. known' \in KnownPod \cup {Nil}
    BY <1>2, <1>4, <2>1, Entries DEF NotifyStore, TypeOK
  <2>3. delayed' \in SUBSET Queues /\ noter' \in NoterState
    BY <1>4, SMTT(40) DEF NotifyStore, TypeOK, Queues, NoterState
  <2> QED
    BY <1>1, <1>2, <1>4, <2>1, <2>2, <2>3 DEF NotifyStore
<1>5. CASE NotifyDrop
  BY <1>1, <1>2, <1>5, SMTT(40) DEF NotifyDrop, TypeOK
<1> QED
  BY <1>3, <1>4, <1>5 DEF Notifier

\* Start-up and crashes.
LEMMA RunTypes == TypeOK /\ (Run \/ Crash) => TypeOK'
<1> SUFFICES ASSUME TypeOK, Run \/ Crash PROVE TypeOK'
  OBVIOUS
<1>1. ASSUME ByRun, cache' \in OptPod, watch' \in Seq(OptPod), notes' \in Seq(Note),
             prov' \in OptPod, inbox' \in Seq(Pod), up' \in Stage, faults' \in 0 .. MaxFaults
      PROVE  TypeOK'
  BY <1>1, SMTT(40) DEF ByRun, TypeOK, queues, handlers
<1>2. {"boot", "synced", "listen", "dangling", "up"} \subseteq Stage
  BY SMTT(40) DEF Stage
<1>3. CASE Boot
  <2>1. inbox' \in Seq(Pod)
    <3>1. CASE UNCHANGED inbox
      BY <3>1 DEF TypeOK
    <3>2. CASE prov # Nil /\ Sends(prov)
      BY <3>2, AppendProperties DEF Sends, TypeOK, OptPod
    <3> QED
      BY <1>3, <3>1, <3>2 DEF Boot
  <2> QED
    BY <1>1, <1>2, <1>3, <2>1 DEF Boot, TypeOK, informer
<1>4. CASE CacheSync
  BY <1>1, <1>2, <1>4, SMTT(40) DEF CacheSync, TypeOK
<1>5. CASE AddEventHandler
  <2>1. notes' \in Seq(Note)
    <3>1. CASE cache = Nil
      BY <1>5, <3>1, EmptySeq DEF AddEventHandler
    <3>2. CASE cache # Nil
      <4>1. <<Nil, cache>> \in Note
        BY SMTT(40) DEF Note, OptPod, TypeOK
      <4> QED
        BY <1>5, <3>2, <4>1, SMTT(40) DEF AddEventHandler
    <3> QED
      BY <3>1, <3>2
  <2> QED
    BY <1>1, <1>2, <1>5, <2>1, SMTT(40) DEF AddEventHandler, TypeOK
<1>6. CASE DanglingList
  <2>1. up' \in Stage
    BY <1>2, <1>6, SMTT(40) DEF DanglingList
  <2> QED
    BY <1>1, <1>6, <2>1, FaultTypes, SMTT(40) DEF DanglingList, TypeOK, informer
<1>7. CASE DanglingDelete
  BY <1>1, <1>2, <1>7, FaultTypes, ProviderCalls, SMTT(40) DEF DanglingDelete, TypeOK, informer
<1>8. CASE Crash
  <2>1. crashes \in 0 .. MaxCrashes /\ crashes < MaxCrashes /\ crashes' = crashes + 1
    BY <1>8 DEF Crash, TypeOK
  <2>2. crashes' \in 0 .. MaxCrashes
    BY <2>1, Bounds
  <2> QED
    BY <1>8, <2>2, DiesTypes, SMTT(40) DEF Crash, TypeOK
<1> QED
  BY <1>3, <1>4, <1>5, <1>6, <1>7, <1>8 DEF Run

\* Every step keeps the types.
LEMMA TypeStep == TypeOK /\ Locals /\ [Next]_vars => TypeOK'
<1>1. TypeOK /\ UNCHANGED vars => TypeOK'
  BY SMTT(40) DEF TypeOK, vars
<1> QED
  BY <1>1, UserTypes, InformerTypes, HandlerTypes, ProviderTypes, SyncTypes, DeleteTypes,
     StatusTypes, NotifierTypes, RunTypes, SMTT(40) DEF Next
-----------------------------------------------------------------------------
(* The locals of the goroutines. *)

\* A knownPods entry that is changed or replaced is still an entry.
LEMMA EntryIsNotNil == \A e \in KnownPod : e # Nil
  BY PodControllerAssumption

\* A notification that is sent makes the inbox non-empty.
LEMMA SentIsThere ==
  ASSUME TypeOK, TypeOK'
  PROVE  /\ \A p \in Pod : Sends(p) => inbox' # <<>>
         /\ ProviderDeletePod => inbox' = inbox \/ inbox' # <<>>
         /\ \A p \in Pod : ProviderCreatePod(p) => inbox' # <<>>
<1>1. \A p \in Pod : Sends(p) => inbox' # <<>>
  <2>1. \A p \in Pod : Append(inbox, p) # <<>>
    <3>1. inbox \in Seq(Pod)
      BY DEF TypeOK
    <3> QED
      BY ONLY <3>1, AppendProperties, SMTT(40)
  <2> QED
    BY <2>1 DEF Sends
<1>2. \A p \in Pod : [p EXCEPT !.status = NewStatus] \in Pod
                     /\ [p EXCEPT !.status = FailedStatus] \in Pod
  BY PodUpdates, Statuses, ZenonT(60)
<1> QED
  BY <1>1, <1>2, Zenon DEF ProviderDeletePod, ProviderCreatePod, TypeOK, OptPod

\* The sync handler loads an entry before it uses it.
LEMMA SyncLocals == TypeOK /\ TypeOK' /\ Locals /\ Sync => Locals' /\ (known # Nil => known' # Nil)
<1> SUFFICES ASSUME TypeOK, TypeOK', Locals, Sync PROVE Locals' /\ (known # Nil => known' # Nil)
  BY SMTT(40)
<1>1. ASSUME sync' = IdleSync, UNCHANGED <<status, noter>>, known # Nil => known' # Nil,
             inbox' = inbox \/ inbox' # <<>>
      PROVE  Locals'
  BY <1>1, SMTT(40) DEF Locals, IdleSync
<1>2. Loaded => sync.pod \in Pod
  BY DEF Loaded, Locals, TypeOK, SyncState, OptPod
<1>3. SetLastPodUsed /\ Loaded => (known # Nil => known' # Nil)
  <2>1. Loaded => Effective(sync.pod) \in UsedPod
    BY <1>2, PodUpdates, Zenon
  <2> QED
    BY <2>1, Entries, EntryIsNotNil, SMTT(40) DEF SetLastPodUsed, Locals, TypeOK
<1>4. CASE SyncRead
  BY <1>4, SMTT(40) DEF SyncRead, BySync, Locals
<1>5. CASE SyncOrphan
  BY <1>1, <1>5, SentIsThere, ZenonT(60) DEF SyncOrphan, Returns, BySync
<1>6. CASE SyncForceDelete
  BY <1>1, <1>6 DEF SyncForceDelete, Returns, BySync
<1>7. CASE SyncLoad
  <2>1. CASE Returns
    BY <1>1, <1>7, <2>1 DEF SyncLoad, Returns, BySync
  <2>2. CASE known # Nil /\ sync' = [sync EXCEPT !.at = "current"]
    <3>1. sync'.at = "current" /\ sync'.pod = sync.pod
      BY <2>2, SMTT(40) DEF TypeOK, SyncState
    <3> QED
      BY <1>7, <2>2, <3>1 DEF SyncLoad, BySync, Locals
  <2> QED
    BY <1>7, <2>1, <2>2 DEF SyncLoad
<1>8. CASE SyncDelete
  BY <1>1, <1>3, <1>8, SentIsThere DEF SyncDelete, Returns, BySync
<1>9. CASE SyncTerminal
  BY <1>1, <1>3, <1>9, SMTT(40) DEF SyncTerminal, Returns, BySync
<1>10. CASE SyncCreate
  BY <1>1, <1>2, <1>3, <1>10, SentIsThere DEF SyncCreate, Desired, Returns, BySync
<1>11. CASE SyncUpdate
  <2>1. known' # Nil
    BY <1>11, Entries, EntryIsNotNil, SMTT(40) DEF SyncUpdate, SetKnown
  <2> QED
    BY <1>11, <2>1 DEF SyncUpdate, ProviderUpdatePod, SetKnown, Detached, Returns, BySync,
                       Locals, IdleSync
<1>12. CASE SyncNothingToDo
  BY <1>1, <1>3, <1>12 DEF SyncNothingToDo, Desired, Returns, BySync
<1>13. CASE SyncNoEnvironment \/ SyncProviderError
  BY <1>1, <1>13 DEF SyncNoEnvironment, SyncProviderError, Returns, BySync
<1> QED
  BY <1>4, <1>5, <1>6, <1>7, <1>8, <1>9, <1>10, <1>11, <1>12, <1>13, SMTT(40) DEF Sync

\* The status handler.
LEMMA StatusLocals ==
  TypeOK /\ TypeOK' /\ Locals /\ StatusSync /\ ~StatusPanics
    => Locals' /\ (known # Nil => known' # Nil)
<1> SUFFICES ASSUME TypeOK, TypeOK', Locals, StatusSync, ~StatusPanics
             PROVE  Locals' /\ (known # Nil => known' # Nil)
  BY SMTT(40)
<1>1. ASSUME ByStatus, StatusOnly, known # Nil => known' # Nil,
             status'.at # "idle" => status'.pod # Nil,
             status'.at \in {"remove", "write"} => status'.from # Nil
      PROVE  Locals'
  BY <1>1 DEF ByStatus, StatusOnly, Locals, provider
<1>2. /\ IdleStatus.at = "idle"
      /\ \A at \in {"read", "remove", "write"}, q \in OptPod :
           /\ [status EXCEPT !.at = at, !.pod = q].at = at
           /\ [status EXCEPT !.at = at, !.pod = q].pod = q
           /\ [status EXCEPT !.at = at, !.from = q].at = at
           /\ [status EXCEPT !.at = at, !.from = q].from = q
           /\ [status EXCEPT !.at = at, !.from = q].pod = status.pod
  BY DEF IdleStatus, TypeOK, StatusState
<1>3. CASE StatusRead
  BY <1>1, <1>2, <1>3, SMTT(40) DEF StatusRead, Locals, TypeOK
<1>4. CASE StatusNothingToDo
  BY <1>1, <1>2, <1>4 DEF StatusNothingToDo
<1>5. CASE StatusCompare
  <2>1. known' # Nil
    <3>1. (known.last.status = status.pod.status /\ ~known.last.del) \in BOOLEAN
      BY SMTT(40)
    <3> QED
      BY <1>5, <3>1, Entries, EntryIsNotNil, ZenonT(60) DEF StatusCompare, TypeOK
  <2>2. known.last \in OptPod /\ known.last # Nil /\ status.pod # Nil
    BY <1>5 DEF StatusCompare, TypeOK, KnownPod, Locals
  <2>3. \/ status' = IdleStatus
        \/ \E at \in {"remove", "write"} :
             status' = [status EXCEPT !.at = at, !.from = known.last]
    BY <1>5 DEF StatusCompare
  <2> QED
    BY <1>1, <1>2, <1>5, <2>1, <2>2, <2>3, SMTT(40) DEF StatusCompare
<1>6. CASE StatusRemove
  <2>1. status.pod # Nil /\ status.from # Nil
    BY <1>6 DEF StatusRemove, Locals
  <2>2. status' = [status EXCEPT !.at = "write"] \/ status' = IdleStatus
    BY <1>6 DEF StatusRemove
  <2>3. /\ status'.at # "idle" => status'.pod # Nil
        /\ status'.at \in {"remove", "write"} => status'.from # Nil
    BY <2>1, <2>2, SMTT(40) DEF TypeOK, StatusState, IdleStatus
  <2>4. ByStatus /\ StatusOnly /\ UNCHANGED known
    BY <1>6 DEF StatusRemove
  <2> QED
    BY <1>1, <2>3, <2>4
<1>7. CASE StatusWrite
  BY <1>1, <1>2, <1>7 DEF StatusWrite
<1> QED
  BY <1>3, <1>4, <1>5, <1>6, <1>7 DEF StatusSync

\* The callback.
LEMMA NotifierLocals ==
  TypeOK /\ TypeOK' /\ Locals /\ Notifier => Locals' /\ (known # Nil => known' # Nil)
<1> SUFFICES ASSUME TypeOK, TypeOK', Locals, Notifier
             PROVE  Locals' /\ (known # Nil => known' # Nil)
  OBVIOUS
<1>1. CASE NotifyLoad \/ NotifyDrop
  BY <1>1 DEF NotifyLoad, NotifyDrop, ByNotifier, handlers, Locals
<1>2. CASE NotifyStore
  <2>1. Head(inbox) \in Pod
    BY <1>2, Channel DEF NotifyStore, Locals, TypeOK
  <2>2. known # Nil => known' # Nil
    BY <1>2, <2>1, Entries, EntryIsNotNil, SMTT(40) DEF NotifyStore, Locals, TypeOK
  <2> QED
    BY <1>2, <2>2 DEF NotifyStore, ByNotifier, handlers, Locals
<1> QED
  BY <1>1, <1>2 DEF Notifier

\* Every step keeps the locals.
LEMMA LocalsStep == TypeOK /\ TypeOK' /\ Locals /\ DownIsEmpty /\ [Next]_vars => Locals'
<1> SUFFICES ASSUME TypeOK, TypeOK', Locals, DownIsEmpty, [Next]_vars PROVE Locals'
  BY SMTT(40)
<1>1. ASSUME UNCHANGED <<sync, status, noter, known>>, inbox' = inbox \/ inbox' # <<>>
      PROVE  Locals'
  BY <1>1, SMTT(40) DEF Locals
<1>2. ASSUME NEW why, Dies(why) PROVE Locals'
  BY <1>2 DEF Dies, IdleSync, IdleStatus, Locals
<1>3. ASSUME NEW e, SetKnown(e), sync' = [sync EXCEPT !.at = Detached(@)],
             UNCHANGED <<status, inbox>>
      PROVE  Locals'
  <2>1. sync'.pod = sync.pod /\ sync'.at = Detached(sync.at)
    BY <1>3 DEF TypeOK, SyncState
  <2> QED
    BY <1>3, <2>1, SMTT(40) DEF SetKnown, Detached, Locals
<1>4. CASE User
  BY <1>1, <1>4, SMTT(40) DEF User, UserCreate, UserUpdate, UserDelete, ByUser, handlers, provider
<1>5. CASE Informer
  BY <1>1, <1>5 DEF Informer, Observe, Relist, Resync, ByInformer, handlers, provider
<1>6. CASE AddFunc \/ DeleteFunc
  BY <1>3, <1>6 DEF AddFunc, DeleteFunc, ByHandler, provider
<1>7. CASE UpdateFunc
  <2>1. CASE \E why : Dies(why)
    BY <1>2, <2>1
  <2>2. CASE known # Nil /\ ByHandler /\ UNCHANGED <<sync, noter>>
             /\ known' = IF SkipWasWrong(Head(notes)[2])
                           THEN [known EXCEPT !.skip = FALSE] ELSE known
    <3>1. known' # Nil
      BY <2>2, Entries, EntryIsNotNil, ZenonT(60) DEF TypeOK
    <3> QED
      BY <2>2, <3>1 DEF ByHandler, provider, Locals
  <2> QED
    BY <1>7, <2>1, <2>2, Zenon DEF UpdateFunc
<1>8. CASE Delete \/ \E q \in Queues : Ripen(q)
  BY <1>1, <1>8, Zenon DEF Delete, DeleteRead, DeleteRemove, ByDelete, Ripen, handlers, provider
<1>9. CASE StatusPanics
  BY <1>2, <1>9, Zenon DEF StatusPanics
<1>10. CASE Provider
  <2>1. prov # Nil => prov' \in Pod
    <3>1. prov' # Nil
      <4>1. prov # Nil /\ prov \in Pod
        BY <1>10 DEF Provider, ProviderChange, ProviderEvict, TypeOK, OptPod
      <4>2. /\ \A st \in Status : [prov EXCEPT !.status = st] \in Pod
            /\ [prov EXCEPT !.del = TRUE] \in Pod
        BY <4>1, PodUpdates, Zenon
      <4>3. RunningStatus \in Status /\ FailedStatus \in Status
        BY Statuses, ZenonT(60)
      <4>4. Nil \notin Pod
        BY PodControllerAssumption, SMTT(40)
      <4> QED
        BY <1>10, <4>2, <4>3, <4>4, ZenonT(60) DEF Provider, ProviderChange, ProviderEvict
    <3> QED
      BY <3>1 DEF TypeOK, OptPod
  <2> QED
    BY <1>1, <1>10, <2>1, SentIsThere, SMTT(40) DEF Provider, ProviderChange, ProviderEvict, handlers
<1>11. CASE Boot
  BY <1>11, SMTT(40) DEF Boot, ByRun, handlers, Locals, DownIsEmpty
<1>12. CASE CacheSync \/ AddEventHandler \/ DanglingList \/ DanglingDelete
  BY <1>1, <1>12, SentIsThere
     DEF CacheSync, AddEventHandler, DanglingList, DanglingDelete, ByRun, handlers
<1>13. CASE Crash
  BY <1>2, <1>13, SMTT(40) DEF Crash
<1>14. CASE UNCHANGED vars
  BY <1>1, <1>14 DEF vars, handlers, provider
<1> QED
  BY <1>4, <1>5, <1>6, <1>7, <1>8, <1>9, <1>10, <1>11, <1>12, <1>13, <1>14,
     SyncLocals, StatusLocals, NotifierLocals, SMTT(40) DEF Next, EventHandler, Run

\* Every step leaves a process that is not running empty.
LEMMA DownStep == TypeOK /\ DownIsEmpty /\ [Next]_vars => DownIsEmpty'
<1> SUFFICES ASSUME TypeOK, DownIsEmpty, [Next]_vars PROVE DownIsEmpty'
  OBVIOUS
<1>1. ASSUME UNCHANGED <<up, sync, noter, known>> PROVE DownIsEmpty'
  BY <1>1, SMTT(40) DEF DownIsEmpty
<1>2. ASSUME NEW why, Dies(why) PROVE DownIsEmpty'
  BY <1>2 DEF Dies, IdleSync, DownIsEmpty
<1>3. ASSUME up # "down", UNCHANGED up PROVE DownIsEmpty'
  BY <1>3 DEF DownIsEmpty
<1>4. CASE User \/ Informer
  BY <1>1, <1>4 DEF User, UserCreate, UserUpdate, UserDelete, ByUser,
                    Informer, Observe, Relist, Resync, ByInformer, handlers
<1>5. CASE EventHandler
  BY <1>2, <1>3, <1>5, ZenonT(60)
     DEF EventHandler, AddFunc, UpdateFunc, DeleteFunc, ByHandler, Listening
<1>6. CASE Delete \/ \E q \in Queues : Ripen(q)
  BY <1>1, <1>6, Zenon DEF Delete, DeleteRead, DeleteRemove, ByDelete, Ripen, handlers
<1>7. CASE Sync
  <2>1. up # "down"
    BY <1>7, ZenonT(60) DEF Sync, SyncRead, SyncOrphan, SyncForceDelete, SyncLoad, SyncDelete,
                SyncTerminal, SyncCreate, SyncUpdate, SyncNothingToDo, SyncNoEnvironment,
                SyncProviderError, Desired, Loaded, Take, DownIsEmpty
  <2>2. UNCHANGED up
    BY <1>7 DEF Sync, SyncRead, SyncOrphan, SyncForceDelete, SyncLoad, SyncDelete,
                SyncTerminal, SyncCreate, SyncUpdate, SyncNothingToDo, SyncNoEnvironment,
                SyncProviderError, BySync
  <2> QED
    BY <1>3, <2>1, <2>2, SMTT(40)
<1>8. CASE StatusSync
  BY <1>1, <1>2, <1>3, <1>8, ZenonT(60) DEF StatusSync, StatusRead, StatusNothingToDo, StatusPanics,
     StatusCompare, StatusRemove, StatusWrite, StatusOnly, DownIsEmpty
<1>9. CASE Notifier
  BY <1>1, <1>3, <1>9 DEF Notifier, NotifyLoad, NotifyStore, NotifyDrop, ByNotifier, handlers,
     DownIsEmpty
<1>10. CASE Provider
  BY <1>1, <1>10, SMTT(40) DEF Provider, ProviderChange, ProviderEvict, handlers
<1>11. CASE Run
  BY <1>11 DEF Run, Boot, CacheSync, AddEventHandler, DanglingList, DanglingDelete, DownIsEmpty
<1>12. CASE Crash
  BY <1>2, <1>12, SMTT(40) DEF Crash
<1>13. CASE UNCHANGED vars
  BY <1>1, <1>13 DEF vars, handlers
<1> QED
  BY <1>4, <1>5, <1>6, <1>7, <1>8, <1>9, <1>10, <1>11, <1>12, <1>13 DEF Next
-----------------------------------------------------------------------------
(* The notifications and the entries. *)

\* A skipped status update has a status that was compared.
LEMMA SkippedStep ==
  TypeOK /\ TypeOK' /\ Locals /\ SkippedHasStatus /\ [Next]_vars => SkippedHasStatus'
<1> SUFFICES ASSUME TypeOK, TypeOK', Locals, SkippedHasStatus, [Next]_vars
             PROVE  SkippedHasStatus'
  OBVIOUS
<1>1. ASSUME UNCHANGED known PROVE SkippedHasStatus'
  BY <1>1 DEF SkippedHasStatus
<1>2. ASSUME NEW why, Dies(why) PROVE SkippedHasStatus'
  BY <1>2, SMTT(40) DEF Dies, SkippedHasStatus
<1>3. ASSUME SetKnown(NewKnownPod) \/ SetKnown(Nil) PROVE SkippedHasStatus'
  BY <1>3 DEF SetKnown, NewKnownPod, SkippedHasStatus
<1>4. ASSUME SetLastPodUsed PROVE SkippedHasStatus'
  BY <1>4, EntryIsNotNil, SMTT(40) DEF SetLastPodUsed, SkippedHasStatus, Locals, TypeOK, KnownPod
<1>5. CASE User \/ Informer
  BY <1>1, <1>5 DEF User, UserCreate, UserUpdate, UserDelete, ByUser,
                    Informer, Observe, Relist, Resync, ByInformer
<1>6. CASE AddFunc \/ DeleteFunc
  BY <1>3, <1>6 DEF AddFunc, DeleteFunc
<1>7. CASE UpdateFunc
  <2>1. CASE \E why : Dies(why)
    BY <1>2, <2>1
  <2>2. CASE known # Nil /\ (known' = [known EXCEPT !.skip = FALSE] \/ known' = known)
    BY <2>2, SMTT(40) DEF SkippedHasStatus, TypeOK, KnownPod
  <2> QED
    BY <1>7, <2>1, <2>2, Zenon DEF UpdateFunc
<1>8. CASE Delete \/ \E q \in Queues : Ripen(q)
  BY <1>1, <1>8, Zenon DEF Delete, DeleteRead, DeleteRemove, ByDelete, Ripen
<1>9. CASE Sync
  BY <1>1, <1>3, <1>4, <1>9
     DEF Sync, SyncRead, SyncOrphan, SyncForceDelete, SyncLoad, SyncDelete,
         SyncTerminal, SyncCreate, SyncUpdate, SyncNothingToDo, SyncNoEnvironment,
         SyncProviderError
<1>10. CASE StatusSync
  <2>1. CASE StatusCompare
    BY <2>1, SMTT(40) DEF StatusCompare, SkippedHasStatus, TypeOK, KnownPod
  <2> QED
    BY <1>1, <1>2, <1>10, <2>1, ZenonT(60) DEF StatusSync, StatusRead, StatusNothingToDo, StatusPanics,
       StatusRemove, StatusWrite
<1>11. CASE Notifier
  <2>1. CASE NotifyStore
    <3>1. Head(inbox) \in Pod
      BY <2>1, Channel, SMTT(40) DEF NotifyStore, Locals, TypeOK
    <3>2. Head(inbox) # Nil
      BY <3>1, PodControllerAssumption, SMTT(40)
    <3> QED
      BY <2>1, <3>2, SMTT(40) DEF NotifyStore, SkippedHasStatus, Locals, TypeOK, KnownPod
  <2> QED
    BY <1>1, <1>11, <2>1, SMTT(40) DEF Notifier, NotifyLoad, NotifyDrop
<1>12. CASE Provider \/ Run
  BY <1>1, <1>12, SMTT(40) DEF Provider, ProviderChange, ProviderEvict,
     Run, Boot, CacheSync, AddEventHandler, DanglingList, DanglingDelete, ByRun
<1>13. CASE Crash
  BY <1>2, <1>13, SMTT(40) DEF Crash
<1>14. CASE UNCHANGED vars
  BY <1>1, <1>14 DEF vars
<1> QED
  BY <1>5, <1>6, <1>7, <1>8, <1>9, <1>10, <1>11, <1>12, <1>13, <1>14, SMTT(40) DEF Next, EventHandler

\* A notification from the cache's pod to its next one extends the chain.
LEMMA ChainGrows ==
  ASSUME TypeOK, Chain, ToldIsKnown, Listening, NEW new \in OptPod,
         notes' = Append(notes, <<cache, new>>), cache' = new, UNCHANGED <<up, known>>
  PROVE  Chain' /\ ToldIsKnown'
<1>1. notes \in Seq(Note) /\ <<cache, new>> \in Note
  BY SMTT(40) DEF TypeOK, Note
<1>2. /\ Len(notes') = Len(notes) + 1 /\ notes' # <<>>
      /\ \A i \in 1 .. Len(notes) : notes'[i] = notes[i]
      /\ notes'[Len(notes) + 1] = <<cache, new>>
  BY <1>1, AppendProperties
<1>3. Len(notes) \in Nat /\ (notes = <<>> <=> Len(notes) = 0)
  BY <1>1, SMTT(40)
<1>4. Chain'
  <2>1. \A i \in 1 .. Len(notes') - 1 : notes'[i][2] = notes'[i + 1][1]
    <3> SUFFICES ASSUME NEW i \in 1 .. Len(notes') - 1 PROVE notes'[i][2] = notes'[i + 1][1]
      OBVIOUS
    <3>1. i \in 1 .. Len(notes)
      BY <1>2, <1>3, SMTT(40)
    <3>2. CASE i = Len(notes)
      BY <1>2, <1>3, <3>1, <3>2, SMTT(40) DEF Chain
    <3>3. CASE i # Len(notes)
      <4>1. i \in 1 .. Len(notes) - 1 /\ i + 1 \in 1 .. Len(notes)
        BY <1>3, <3>1, <3>3, SMTT(40)
      <4> QED
        BY <1>2, <4>1 DEF Chain
    <3> QED
      BY <3>2, <3>3, SMTT(40)
  <2>2. notes'[Len(notes')][2] = cache'
    BY <1>2
  <2>3. Listening'
    BY DEF Listening
  <2> QED
    BY <2>1, <2>2, <2>3, SMTT(40) DEF Chain
<1>5. ToldIsKnown'
  <2>1. Head(notes') = notes'[1]
    BY <1>1, <1>2, HeadTailProperties, AppendProperties, SMTT(40)
  <2>2. CASE notes = <<>>
    BY <1>2, <1>3, <2>1, <2>2, SMTT(40) DEF ToldIsKnown
  <2>3. CASE notes # <<>>
    <3>1. 1 \in 1 .. Len(notes)
      BY <1>3, <2>3, SMTT(40)
    <3>2. Head(notes) = notes[1]
      BY <1>1, <2>3, HeadTailProperties
    <3> QED
      BY <1>2, <2>1, <2>3, <3>1, <3>2 DEF ToldIsKnown
  <2> QED
    BY <2>2, <2>3, ZenonT(60)
<1> QED
  BY <1>4, <1>5, SMTT(40)

\* What is left of the chain when its first notification has been handled.
LEMMA ChainShrinks ==
  ASSUME TypeOK, Chain, notes # <<>>, Listening,
         notes' = Tail(notes), UNCHANGED <<up, cache>>,
         Head(notes)[2] # Nil => known' # Nil
  PROVE  Chain' /\ ToldIsKnown'
<1>1. notes \in Seq(Note)
  BY DEF TypeOK
<1>2. /\ Head(notes) = notes[1]
      /\ notes' \in Seq(Note) /\ Len(notes') = Len(notes) - 1
      /\ \A i \in 1 .. Len(notes') : notes'[i] = notes[i + 1]
  BY <1>1, HeadTailProperties
<1>3. /\ Len(notes) \in Nat \ {0} /\ Len(notes') \in Nat
      /\ notes' = <<>> <=> Len(notes') = 0
  <2>1. \A s \in Seq(Note) : Len(s) \in Nat /\ (s = <<>> <=> Len(s) = 0)
    BY SMTT(40)
  <2> HIDE DEF Note
  <2> QED
    BY <1>1, <1>2, <2>1, ZenonT(60)
<1>4. Chain'
  <2>1. \A i \in 1 .. Len(notes') - 1 : notes'[i][2] = notes'[i + 1][1]
    <3> SUFFICES ASSUME NEW i \in 1 .. Len(notes') - 1 PROVE notes'[i][2] = notes'[i + 1][1]
      OBVIOUS
    <3>1. /\ i \in 1 .. Len(notes') /\ i + 1 \in 1 .. Len(notes')
          /\ i + 1 \in 1 .. Len(notes) - 1
      BY <1>2, <1>3, SMTT(40)
    <3>2. notes'[i] = notes[i + 1] /\ notes'[i + 1] = notes[(i + 1) + 1]
      BY <1>2, <3>1, SMTT(40)
    <3> QED
      BY <3>1, <3>2, SMTT(40) DEF Chain
  <2>2. ASSUME notes' # <<>> PROVE notes'[Len(notes')][2] = cache'
    <3>1. Len(notes') \in 1 .. Len(notes') /\ Len(notes') + 1 = Len(notes)
      BY <1>2, <1>3, <2>2
    <3> QED
      BY <1>2, <3>1, SMTT(40) DEF Chain
  <2>3. Listening'
    BY DEF Listening
  <2> QED
    BY <2>1, <2>2, <2>3, SMTT(40) DEF Chain
<1>5. ToldIsKnown'
  <2>1. CASE notes' = <<>>
    <3>1. Len(notes) = 1
      BY <1>2, <1>3, <2>1, SMTT(40)
    <3>2. Head(notes)[2] = cache'
      BY <1>2, <3>1, SMTT(40) DEF Chain
    <3> QED
      BY <2>1, <3>2 DEF ToldIsKnown
  <2>2. CASE notes' # <<>>
    <3>1. 1 \in 1 .. Len(notes') /\ 1 \in 1 .. Len(notes) - 1
      BY <1>2, <1>3, <2>2, SMTT(40)
    <3>2. Head(notes') = notes'[1]
      BY <1>2, <2>2, HeadTailProperties, SMTT(40)
    <3>3. notes'[1] = notes[1 + 1] /\ notes[1][2] = notes[1 + 1][1]
      BY <1>2, <3>1 DEF Chain
    <3> QED
      BY <1>2, <2>2, <3>2, <3>3, SMTT(40) DEF ToldIsKnown
  <2> QED
    BY <2>1, <2>2, SMTT(40)
<1> QED
  BY <1>4, <1>5, ZenonT(60)

\* Nothing is announced to a process that is not listening.
LEMMA ChainEmpty ==
  ASSUME notes' = <<>>, ~Listening' \/ cache' = Nil
  PROVE  Chain' /\ ToldIsKnown'
<1>1. Len(notes') = 0
  BY EmptySeq
<1>2. Chain'
  BY <1>1 DEF Chain
<1>3. ToldIsKnown'
  BY SMTT(40) DEF ToldIsKnown
<1> QED
  BY <1>2, <1>3

\* Every step keeps the chain and the entry of the pod announced last.
LEMMA ChainStep ==
  TypeOK /\ TypeOK' /\ Locals /\ Chain /\ ToldIsKnown /\ [Next]_vars => Chain' /\ ToldIsKnown'
<1> SUFFICES ASSUME TypeOK, TypeOK', Locals, Chain, ToldIsKnown, [Next]_vars
             PROVE  Chain' /\ ToldIsKnown'
  BY SMTT(40)
<1>1. ASSUME UNCHANGED <<notes, cache, up>>, known # Nil => known' # Nil
      PROVE  Chain' /\ ToldIsKnown'
  BY <1>1, SMTT(40) DEF Chain, ToldIsKnown, Listening
<1>2. ASSUME NEW why, Dies(why) PROVE Chain' /\ ToldIsKnown'
  BY <1>2, ChainEmpty, SMTT(40) DEF Dies, Listening
<1>3. ASSUME NEW new \in OptPod, Notify(cache, new), cache' = new, UNCHANGED <<up, known>>
      PROVE  Chain' /\ ToldIsKnown'
  <2>1. CASE Listening /\ ~(cache = Nil /\ new = Nil)
    BY <1>3, <2>1, ChainGrows, SMTT(40) DEF Notify
  <2>2. CASE ~Listening
    BY <1>3, <2>2, ChainEmpty, SMTT(40) DEF Notify, Listening, Chain
  <2>3. CASE cache = Nil /\ new = Nil
    BY <1>1, <1>3, <2>3 DEF Notify
  <2> QED
    BY <2>1, <2>2, <2>3, ZenonT(60)
<1>4. CASE User
  BY <1>1, <1>4, SMTT(40) DEF User, UserCreate, UserUpdate, UserDelete, ByUser
<1>5. CASE Informer
  <2>1. watch # <<>> => Head(watch) \in OptPod
    BY Channel DEF TypeOK
  <2> QED
    BY <1>3, <1>5, <2>1, SMTT(40) DEF Informer, Observe, Relist, Resync, ByInformer, TypeOK
<1>6. CASE EventHandler
  <2>1. CASE AddFunc
    <3>1. known' # Nil
      BY <2>1, Entries, EntryIsNotNil DEF AddFunc, SetKnown
    <3> QED
      BY <2>1, <3>1, ChainShrinks DEF AddFunc, ByHandler
  <2>2. CASE UpdateFunc
    <3>1. CASE \E why : Dies(why)
      BY <1>2, <3>1
    <3>2. CASE ~\E why : Dies(why)
      <4>1. /\ ByHandler /\ notes # <<>> /\ known # Nil
            /\ known' = [known EXCEPT !.skip = FALSE] \/ known' = known
        BY <2>2, <3>2, Zenon DEF UpdateFunc
      <4>2. known' # Nil
        BY <4>1, Entries, EntryIsNotNil, ZenonT(60) DEF TypeOK
      <4> QED
        BY <4>1, <4>2, ChainShrinks DEF ByHandler
    <3> QED
      BY <3>1, <3>2
  <2>3. CASE DeleteFunc
    BY <2>3, ChainShrinks DEF DeleteFunc, ByHandler
  <2> QED
    BY <1>6, <2>1, <2>2, <2>3 DEF EventHandler
<1>7. CASE Delete \/ \E q \in Queues : Ripen(q)
  BY <1>1, <1>7, ZenonT(60) DEF Delete, DeleteRead, DeleteRemove, ByDelete, Ripen, informer
<1>8. CASE Sync
  <2>1. UNCHANGED <<notes, cache, up>>
    BY <1>8, ZenonT(60) DEF Sync, SyncRead, SyncOrphan, SyncForceDelete, SyncLoad, SyncDelete,
                SyncTerminal, SyncCreate, SyncUpdate, SyncNothingToDo, SyncNoEnvironment,
                SyncProviderError, BySync
  <2> QED
    BY <1>1, <1>8, <2>1, SyncLocals, SMTT(40)
<1>9. CASE StatusSync
  <2>1. CASE StatusPanics
    BY <1>2, <2>1, ZenonT(60) DEF StatusPanics
  <2>2. CASE ~StatusPanics
    <3>1. UNCHANGED <<notes, cache, up>>
      BY <1>9, <2>2, SMTT(40) DEF StatusSync, StatusRead, StatusNothingToDo, StatusCompare,
                        StatusRemove, StatusWrite, ByStatus, StatusOnly
    <3> QED
      BY <1>1, <1>9, <2>2, <3>1, StatusLocals, SMTT(40)
  <2> QED
    BY <2>1, <2>2, Zenon
<1>10. CASE Notifier
  BY <1>1, <1>10, NotifierLocals
     DEF Notifier, NotifyLoad, NotifyStore, NotifyDrop, ByNotifier, informer
<1>11. CASE Provider
  BY <1>1, <1>11, SMTT(40) DEF Provider, ProviderChange, ProviderEvict, informer
<1>12. CASE Boot \/ CacheSync
  BY <1>12, ChainEmpty, SMTT(40) DEF Boot, CacheSync, informer, Listening, Chain
<1>13. CASE AddEventHandler
  <2>1. CASE cache = Nil
    BY <1>13, <2>1, ChainEmpty, SMTT(40) DEF AddEventHandler
  <2>2. CASE cache # Nil
    <3>1. notes' = << <<Nil, cache>> >> /\ cache' = cache /\ up' = "listen"
      BY <1>13, <2>2 DEF AddEventHandler
    <3>2. Len(notes') = 1 /\ notes'[1] = <<Nil, cache>> /\ Head(notes') = <<Nil, cache>>
          /\ notes' # <<>>
      BY <3>1, SMTT(40)
    <3>3. Chain'
      BY <3>1, <3>2, SMTT(40) DEF Chain, Listening
    <3> QED
      BY <3>2, <3>3, SMTT(40) DEF ToldIsKnown
  <2> QED
    BY <2>1, <2>2, SMTT(40)
<1>14. CASE DanglingList \/ DanglingDelete
  <2>1. UNCHANGED <<notes, cache, known>> /\ Listening /\ Listening'
    BY <1>14 DEF DanglingList, DanglingDelete, ByRun, informer, Listening
  <2> QED
    BY <2>1, SMTT(40) DEF Chain, ToldIsKnown
<1>15. CASE Crash
  BY <1>2, <1>15, SMTT(40) DEF Crash
<1>16. CASE UNCHANGED vars
  BY <1>1, <1>16, SMTT(40) DEF vars, informer
<1> QED
  BY <1>4, <1>5, <1>6, <1>7, <1>8, <1>9, <1>10, <1>11, <1>12, <1>13, <1>14, <1>15, <1>16, ZenonT(60)
     DEF Next, Run

\* UpdateFunc finds the entry, and a status with every skipped update.
LEMMA PanicStep ==
  ToldIsKnown /\ SkippedHasStatus /\ UpdateFuncNeverPanics /\ [Next]_vars
    => UpdateFuncNeverPanics'
<1> SUFFICES ASSUME ToldIsKnown, SkippedHasStatus, UpdateFuncNeverPanics, [Next]_vars
             PROVE  UpdateFuncNeverPanics'
  OBVIOUS
<1>1. ASSUME UNCHANGED panic PROVE UpdateFuncNeverPanics'
  BY <1>1, Zenon DEF UpdateFuncNeverPanics
<1>2. CASE UpdateFunc
  <2>1. known # Nil /\ ~(known.skip /\ known.last = Nil)
    BY <1>2, ZenonT(60) DEF UpdateFunc, ToldIsKnown, SkippedHasStatus
  <2> QED
    BY <1>1, <1>2, <2>1, Zenon DEF UpdateFunc
<1>3. CASE StatusPanics
  BY <1>3, ZenonT(60) DEF StatusPanics, Dies, UpdateFuncNeverPanics
<1>4. CASE Crash
  BY <1>1, <1>4, SMTT(40) DEF Crash, Dies
<1>5. CASE User \/ Informer \/ AddFunc \/ DeleteFunc
  BY <1>1, <1>5 DEF User, UserCreate, UserUpdate, UserDelete, ByUser, AddFunc, DeleteFunc,
                    Informer, Observe, Relist, Resync, ByInformer
<1>6. CASE Delete \/ Notifier \/ \E q \in Queues : Ripen(q)
  BY <1>1, <1>6, ZenonT(60) DEF Delete, DeleteRead, DeleteRemove, ByDelete, Ripen,
                    Notifier, NotifyLoad, NotifyStore, NotifyDrop, ByNotifier
<1>7. CASE Sync
  BY <1>1, <1>7, ZenonT(60) DEF Sync, SyncRead, SyncOrphan, SyncForceDelete, SyncLoad, SyncDelete,
                SyncTerminal, SyncCreate, SyncUpdate, SyncNothingToDo, SyncNoEnvironment,
                SyncProviderError, BySync
<1>8. CASE StatusSync /\ ~StatusPanics
  BY <1>1, <1>8, SMTT(40) DEF StatusSync, StatusRead, StatusNothingToDo, StatusCompare,
                    StatusRemove, StatusWrite, StatusOnly
<1>9. CASE Provider \/ Run
  BY <1>1, <1>9, SMTT(40) DEF Provider, ProviderChange, ProviderEvict,
     Run, Boot, CacheSync, AddEventHandler, DanglingList, DanglingDelete, ByRun
<1>10. CASE UNCHANGED vars
  BY <1>1, <1>10, SMTT(40) DEF vars
<1> QED
  BY <1>2, <1>3, <1>4, <1>5, <1>6, <1>7, <1>8, <1>9, <1>10 DEF Next, EventHandler
-----------------------------------------------------------------------------
(* The types, and the panics of UpdateFunc. *)

\* Every step keeps the inductive invariant.
LEMMA IInvStep == IInv /\ [Next]_vars => IInv'
<1> SUFFICES ASSUME IInv, [Next]_vars PROVE IInv'
  OBVIOUS
<1>1. TypeOK'
  BY TypeStep, SMTT(40) DEF IInv
<1>2. Locals' /\ DownIsEmpty'
  BY <1>1, LocalsStep, DownStep DEF IInv
<1>3. Chain' /\ ToldIsKnown'
  BY <1>1, ChainStep DEF IInv
<1>4. SkippedHasStatus' /\ UpdateFuncNeverPanics'
  BY <1>1, SkippedStep, PanicStep DEF IInv
<1> QED
  BY <1>1, <1>2, <1>3, <1>4 DEF IInv

\* The inductive invariant holds in every state of the pod controller.
THEOREM Invariance == Spec => []IInv
  BY InitIInv, IInvStep, PTL DEF Spec

\* Every variable of the pod controller keeps its type.
THEOREM TypeCorrect == Spec => []TypeOK
<1>1. IInv => TypeOK
  BY DEF IInv
<1> QED
  BY <1>1, Invariance, PTL

\* The two panics UpdateFunc may run into never happen, for any number of pods
\* re-created under the key, of spec changes, of crashes, of failed calls and of
\* notifications in flight.
THEOREM UpdateFuncIsSafe == Spec => []UpdateFuncNeverPanics
<1>1. IInv => UpdateFuncNeverPanics
  BY DEF IInv
<1> QED
  BY <1>1, Invariance, PTL

\* The informer's notifications reach the event handlers as one history: each
\* starts from the pod the one before it ended with, and the pod they were told
\* of last has its knownPods entry.
THEOREM NotificationsFollowTheCache == Spec => [](Chain /\ ToldIsKnown)
<1>1. IInv => Chain /\ ToldIsKnown
  BY DEF IInv
<1> QED
  BY <1>1, Invariance, PTL
-----------------------------------------------------------------------------
(* Deletions.  What the provider has, what a sync has read, the cache and    *)
(* the versions in flight are versions of the API server's pod, each earlier *)
(* than the next.                                                            *)

\* The pod of UID u is gone for good.
Dead(u) == api = Nil \/ u < api.uid

\* Version p is not later than q; the removal of a pod (q = Nil) is later than
\* all versions of it.
Before(p, q) == p # Nil => IF q = Nil THEN Dead(p.uid) ELSE p.uid <= q.uid

\* A version with a deletion timestamp: the API server has it too, or the pod
\* is gone.
Marked(p) == p # Nil /\ p.del => Dead(p.uid) \/ api.del

\* A version of a pod that was created.
Created(p) == p # Nil => p.uid <= uids

\* The API server's pod is the last one that was created.
UidInv == api # Nil => api.uid = uids

\* The versions p of the provider, s of a sync, c of the cache and w on their way
\* to it.
Line(p, s, c, w) ==
  /\ Created(p) /\ Created(s) /\ Created(c) /\ \A i \in DOMAIN w : Created(w[i])
  /\ Marked(s) /\ Marked(c) /\ \A i \in DOMAIN w : Marked(w[i])
  /\ \A i \in DOMAIN w : Before(p, w[i]) /\ Before(s, w[i]) /\ Before(c, w[i])
  /\ \A i, j \in DOMAIN w : i < j => Before(w[i], w[j])
LineInv == Line(prov, sync.pod, cache, watch)

\* The provider's pod and the one of a sync are not later than the cache, once
\* there is a cache; what a sync has read is not earlier than the provider's
\* pod; deleteDanglingPods deletes a pod that is gone.
AgeInv ==
  /\ Watching => Before(prov, cache) /\ Before(sync.pod, cache)
  /\ sync.at # "idle" => Before(prov, sync.pod)
  /\ up = "dangling" => Before(prov, Nil)

\* There is no cache before it was synced, and no sync before Run is done.
StartInv ==
  /\ ~Watching => cache = Nil /\ watch = <<>>
  /\ up # "up" => sync.at = "idle"

VersionInv == UidInv /\ LineInv /\ AgeInv /\ StartInv

\* The fields of a pod.
LEMMA PodFields ==
  ASSUME NEW p \in Pod
  PROVE  /\ p # Nil /\ p.uid \in Nat /\ p.uid # 0 /\ p.del \in BOOLEAN
         /\ \A st : [p EXCEPT !.status = st].uid = p.uid /\ [p EXCEPT !.status = st].del = p.del
         /\ [p EXCEPT !.del = TRUE].uid = p.uid /\ [p EXCEPT !.del = TRUE].del
         /\ [p EXCEPT !.spec = @ + 1].uid = p.uid /\ [p EXCEPT !.spec = @ + 1].del = p.del
<1>1. p # Nil
  BY PodControllerAssumption, Zenon
<1>2. p.uid \in Nat /\ p.uid # 0
  <2>1. p.uid \in 1 .. MaxUid
    BY Zenon DEF Pod
  <2> QED
    BY ONLY <2>1, Bounds, SMT
<1>3. /\ p.del \in BOOLEAN
      /\ \A st : [p EXCEPT !.status = st].uid = p.uid /\ [p EXCEPT !.status = st].del = p.del
      /\ [p EXCEPT !.del = TRUE].uid = p.uid /\ [p EXCEPT !.del = TRUE].del
  BY Zenon DEF Pod
<1>4. [p EXCEPT !.spec = @ + 1].uid = p.uid /\ [p EXCEPT !.spec = @ + 1].del = p.del
  BY Zenon DEF Pod
<1> QED
  BY <1>1, <1>2, <1>3, <1>4

\* The UIDs of the versions.
LEMMA Versions ==
  ASSUME NEW p \in OptPod, p # Nil
  PROVE  p \in Pod /\ p.uid \in Nat /\ p.uid # 0 /\ p.del \in BOOLEAN
<1>1. p \in Pod
  BY SMTT(40) DEF OptPod
<1> QED
  BY <1>1, PodFields

\* What the API server does to the pod: nothing, removal, a new version that
\* keeps the deletion timestamp, or a new pod.
ApiMoves ==
  \/ UNCHANGED <<api, uids>>
  \/ api' = Nil /\ UNCHANGED uids
  \/ api # Nil /\ api' # Nil /\ api'.uid = api.uid /\ (api.del => api'.del) /\ UNCHANGED uids
  \/ api = Nil /\ api' # Nil /\ uids' = uids + 1 /\ api'.uid = uids'

\* What is known of a version stays true.
LEMMA VersionStays ==
  ASSUME TypeOK, TypeOK', UidInv, ApiMoves, NEW p \in OptPod, NEW q \in OptPod, Created(p)
  PROVE  /\ Created(p)' /\ (Before(p, q) => Before(p, q)') /\ (Marked(p) => Marked(p)')
         /\ Before(p, Nil) => Before(p, Nil)'
<1>1. uids \in Nat
  <2>1. uids \in 0 .. MaxUid
    BY Zenon DEF TypeOK
  <2> QED
    BY ONLY <2>1, Bounds, SMT
<1>2. api # Nil => api.uid = uids
  BY Zenon DEF UidInv
<1>3. api' # Nil => api'.uid = uids'
  BY <1>2, ZenonT(60) DEF ApiMoves
<1>4. p # Nil => p.uid \in Nat
  BY Versions, SMTT(40)
<1>5. p # Nil /\ Dead(p.uid) => Dead(p.uid)'
  BY <1>1, <1>2, <1>4, SMTT(40) DEF ApiMoves, Dead, Created
<1>6. Created(p)'
  BY <1>1, <1>4, SMT DEF ApiMoves, Created
<1>7. Before(p, q) => Before(p, q)'
  BY <1>5, Zenon DEF Before
<1>8. Before(p, Nil) => Before(p, Nil)'
  BY <1>5, ZenonT(60) DEF Before
<1>9. Marked(p) => Marked(p)'
  <2> SUFFICES ASSUME p # Nil, p.del, Dead(p.uid) \/ api.del PROVE Dead(p.uid)' \/ api'.del
    BY DEF Marked
  <2>1. CASE api = Nil
    BY <1>5, <2>1, Zenon DEF Dead
  <2>2. CASE api # Nil
    BY <1>5, <2>2, Zenon DEF Dead, ApiMoves
  <2> QED
    BY <2>1, <2>2, SMTT(40)
<1> QED
  BY <1>6, <1>7, <1>8, <1>9, SMTT(40)

\* The watch gets the version that was written.
Delivers ==
  watch' = watch \/ (watch' = Append(watch, api') /\ Watching /\ ~(api = Nil /\ api' = Nil))

\* A write of the API server.
Writes ==
  /\ ApiMoves
  /\ Delivers
  /\ sync' \in {sync, IdleSync}
  /\ UNCHANGED <<cache, prov, up>>

\* The cache gets the next version.
Observes ==
  /\ Watching /\ watch # <<>> /\ cache' = Head(watch) /\ watch' = Tail(watch)
  /\ UNCHANGED <<api, uids, prov, sync, up>>

\* The cache is replaced by a list.
Lists ==
  /\ cache' = api /\ watch' = <<>> /\ Watching'
  /\ up' # up => up = "boot" /\ up' = "synced"
  /\ UNCHANGED <<api, uids, prov, sync>>

\* A sync reads the cache.
Reads ==
  /\ up = "up" /\ sync'.at = "read" /\ sync'.pod = cache
  /\ UNCHANGED <<api, uids, watch, cache, prov, up>>

\* The process is gone.
Falls ==
  /\ up' = "down" /\ cache' = Nil /\ watch' = <<>> /\ sync' = IdleSync
  /\ UNCHANGED <<api, uids, prov>>

\* The provider's pod stays, is replaced by the one a sync has read, or goes.
ProviderMoves ==
  \/ prov' = Nil /\ prov = Nil
  \/ prov' # Nil /\ prov # Nil /\ prov'.uid = prov.uid
  \/ prov' # Nil /\ Loaded /\ prov'.uid = sync.pod.uid
  \/ prov' = Nil /\ \/ sync.at = "read" /\ sync.pod = Nil
                    \/ Loaded /\ sync.pod.del
                    \/ up = "dangling"

\* The controller and the provider work.
Works ==
  /\ ProviderMoves
  /\ \/ sync'.at = "idle" /\ sync'.pod \in {Nil, sync.pod}
     \/ sync'.at # "idle" /\ sync.at # "idle" /\ sync'.pod = sync.pod
  /\ (Watching <=> Watching') /\ (up = "up" => up' = "up")
  /\ up' = "dangling" => \/ up = "dangling"
                         \/ Watching /\ cache = Nil
  /\ UNCHANGED <<api, uids, watch, cache>>

\* Store, StoreStatus and Remove are such writes.
LEMMA ApiWrites ==
  ASSUME TypeOK,
         \/ \E st : \E u : StoreStatus(u, st)
         \/ \E atOnce : Remove(atOnce)
         \/ api # Nil /\ Store([api EXCEPT !.spec = @ + 1])
         \/ UNCHANGED <<api, watch>>,
         UNCHANGED uids
  PROVE  ApiMoves /\ Delivers
<1>0. api # Nil => api \in Pod
  BY DEF TypeOK, OptPod
<1>1. ASSUME NEW p, Store(p), api # Nil,
             p = Nil \/ (p # Nil /\ p.uid = api.uid /\ (api.del => p.del))
      PROVE  ApiMoves /\ Delivers
  BY <1>1, Zenon DEF Store, ApiMoves, Delivers
<1>2. CASE UNCHANGED <<api, watch>>
  BY <1>2, Zenon DEF ApiMoves, Delivers
<1>3. ASSUME NEW st, NEW u, StoreStatus(u, st), ~UNCHANGED <<api, watch>>
      PROVE  ApiMoves /\ Delivers
  <2>1. PICK p : p = [api EXCEPT !.status = st]
    BY Zenon
  <2>2. api # Nil /\ Store(p)
    BY <1>3, <2>1, ZenonT(60) DEF StoreStatus
  <2>3. p.uid = api.uid /\ p.del = api.del
    BY <1>0, <2>1, <2>2, PodFields, ZenonT(60)
  <2> QED
    BY <1>1, <2>2, <2>3, Zenon
<1>4. ASSUME NEW atOnce, Remove(atOnce), ~UNCHANGED <<api, watch>>
      PROVE  ApiMoves /\ Delivers
  <2>1. CASE api # Nil /\ Store(Nil)
    BY <1>1, <2>1, Zenon
  <2>2. CASE api # Nil /\ Store([api EXCEPT !.del = TRUE])
    <3>1. PICK p : p = [api EXCEPT !.del = TRUE]
      BY ZenonT(60)
    <3>2. p.uid = api.uid /\ p.del
      BY <1>0, <2>2, <3>1, PodFields, ZenonT(60)
    <3> QED
      BY <1>1, <2>2, <3>1, <3>2, Zenon
  <2> QED
    BY <1>4, <2>1, <2>2, Zenon DEF Remove
<1>5. CASE api # Nil /\ Store([api EXCEPT !.spec = @ + 1])
  <2>1. PICK p : p = [api EXCEPT !.spec = @ + 1]
    OBVIOUS
  <2>2. p.uid = api.uid /\ p.del = api.del
    BY <1>0, <1>5, <2>1, PodFields, ZenonT(60)
  <2> QED
    BY <1>1, <1>5, <2>1, <2>2, ZenonT(60)
<1> QED
  BY <1>2, <1>3, <1>4, <1>5, ZenonT(60)

\* What a sync does.
LEMMA SyncKinds ==
  ASSUME TypeOK, TypeOK', Locals, Sync
  PROVE  Writes \/ Reads \/ Works
<1>0. BySync
  BY Zenon DEF Sync, SyncRead, SyncOrphan, SyncForceDelete, SyncLoad, SyncDelete, SyncTerminal, SyncCreate,
               SyncUpdate, SyncNothingToDo, SyncNoEnvironment, SyncProviderError
<1>1. /\ UNCHANGED <<cache, up, uids>> /\ (Watching <=> Watching') /\ (up = "up" => up' = "up")
      /\ (up' = "dangling" => up = "dangling")
  BY <1>0, Zenon DEF BySync, Watching
<1>2. /\ IdleSync.at = "idle" /\ IdleSync.pod = Nil
      /\ (Loaded => sync.pod \in Pod) /\ (prov # Nil => prov \in Pod)
  <2>1. IdleSync.at = "idle" /\ IdleSync.pod = Nil
    BY SMTT(40) DEF IdleSync
  <2>2. sync.pod \in OptPod /\ prov \in OptPod
    BY DEF TypeOK, SyncState
  <2> QED
    BY <2>1, <2>2, Versions, ZenonT(60) DEF Loaded, Locals
<1>3. UNCHANGED prov => ProviderMoves
  <2> SUFFICES ASSUME UNCHANGED prov PROVE ProviderMoves
    OBVIOUS
  <2>1. CASE prov = Nil
    BY <2>1, Zenon DEF ProviderMoves
  <2>2. CASE prov # Nil
    BY <2>2, Zenon DEF ProviderMoves
  <2> QED
    BY <2>1, <2>2
<1>4. ASSUME Returns, ProviderMoves, UNCHANGED <<api, watch>> PROVE Works
  <2>1. sync'.at = "idle" /\ sync'.pod \in {Nil, sync.pod}
    BY <1>2, <1>4, Zenon DEF Returns
  <2> QED
    BY <1>1, <1>4, <2>1, Zenon DEF Works
<1>5. CASE SyncRead
  <2>1. sync'.at = "read" /\ sync'.pod = cache
    BY <1>5, SMT DEF SyncRead
  <2> QED
    BY <1>1, <1>5, <2>1, ZenonT(60) DEF SyncRead, Take, Reads
<1>6. CASE SyncOrphan
  <2>1. UNCHANGED prov \/ (prov' = Nil /\ sync.at = "read" /\ sync.pod = Nil)
    BY <1>6, Zenon DEF SyncOrphan, ProviderDeletePod
  <2>2. ProviderMoves
    BY <1>3, <2>1, Zenon DEF ProviderMoves
  <2> QED
    BY <1>4, <1>6, <2>2, ZenonT(60) DEF SyncOrphan
<1>7. CASE SyncForceDelete \/ SyncTerminal \/ SyncNothingToDo \/ SyncNoEnvironment
  BY <1>3, <1>4, <1>7, Zenon DEF SyncForceDelete, SyncTerminal, SyncNothingToDo, SyncNoEnvironment
<1>8. CASE SyncLoad
  <2>1. CASE Returns
    BY <1>3, <1>4, <1>8, <2>1, ZenonT(60) DEF SyncLoad
  <2>2. CASE sync' = [sync EXCEPT !.at = "current"]
    <3>1. sync'.at = "current" /\ sync'.pod = sync.pod
      BY <2>2, SMTT(40) DEF TypeOK, SyncState
    <3>2. sync.at = "read"
      BY <1>8, ZenonT(60) DEF SyncLoad
    <3>3. sync'.at # "idle" /\ sync.at # "idle"
      BY ONLY <3>1, <3>2, SMT
    <3> QED
      BY <1>1, <1>3, <1>8, <3>1, <3>3, ZenonT(60) DEF SyncLoad, Works
  <2> QED
    BY <1>8, <2>1, <2>2, Zenon DEF SyncLoad
<1>9. CASE SyncDelete
  <2>1. UNCHANGED prov \/ (prov' = Nil /\ Loaded /\ sync.pod.del)
    BY <1>9, Zenon DEF SyncDelete, ProviderDeletePod
  <2>2. ProviderMoves
    BY <1>3, <2>1, Zenon DEF ProviderMoves
  <2> QED
    BY <1>4, <1>9, <2>2, ZenonT(60) DEF SyncDelete
<1>10. CASE SyncCreate \/ SyncUpdate
  <2>1. Loaded /\ sync.pod \in Pod
    BY <1>2, <1>10, Zenon DEF SyncCreate, SyncUpdate, Desired
  <2>2. PICK st : prov' = [sync.pod EXCEPT !.status = st]
    BY <1>10, Zenon DEF SyncCreate, SyncUpdate, ProviderCreatePod, ProviderUpdatePod
  <2>3. prov'.uid = sync.pod.uid
    BY <2>1, <2>2, PodFields, ZenonT(60)
  <2>4. prov' # Nil
    <3>1. CASE SyncCreate
      <4>1. [sync.pod EXCEPT !.status = NewStatus] \in Pod
        BY <2>1, Statuses, PodUpdates, Zenon
      <4> QED
        BY <3>1, <4>1, PodFields, Zenon DEF SyncCreate, ProviderCreatePod
    <3>2. CASE SyncUpdate
      <4>1. prov \in Pod /\ prov.status \in Status
        BY <1>2, <3>2, PodUpdates, Zenon DEF SyncUpdate
      <4>2. [sync.pod EXCEPT !.status = prov.status] \in Pod
        BY <2>1, <4>1, PodUpdates, Zenon
      <4> QED
        BY <3>2, <4>2, PodFields, Zenon DEF SyncUpdate, ProviderUpdatePod
    <3> QED
      BY <1>10, <3>1, <3>2
  <2>5. ProviderMoves
    BY <2>1, <2>3, <2>4, Zenon DEF ProviderMoves
  <2> QED
    BY <1>4, <1>10, <2>5, Zenon DEF SyncCreate, SyncUpdate
<1>11. CASE SyncProviderError
  <2>1. PICK st : st = [sync.pod.status EXCEPT !.phase = ErrorPhase, !.err = TRUE]
    OBVIOUS
  <2>2. StoreStatus(sync.pod.uid, st) /\ Returns /\ UNCHANGED prov
    BY <1>11, <2>1, Zenon DEF SyncProviderError
  <2>3. ApiMoves /\ Delivers
    BY <1>1, <2>2, ApiWrites, ZenonT(60)
  <2> QED
    BY <1>1, <2>2, <2>3, Zenon DEF Writes, Returns
<1> QED
  BY <1>5, <1>6, <1>7, <1>8, <1>9, <1>10, <1>11, ZenonT(60) DEF Sync

\* Every step is of one of six kinds.
LEMMA Kinds ==
  ASSUME TypeOK, TypeOK', Locals, StartInv, [Next]_vars
  PROVE  Writes \/ Observes \/ Lists \/ Reads \/ Falls \/ Works
<1>0. sync \in SyncState /\ prov \in OptPod
  BY DEF TypeOK
<1>1. UNCHANGED prov => ProviderMoves
  BY Zenon DEF ProviderMoves
<1>2. sync' = sync => \/ sync'.at = "idle" /\ sync'.pod \in {Nil, sync.pod}
                      \/ sync'.at # "idle" /\ sync.at # "idle" /\ sync'.pod = sync.pod
  BY Zenon
<1>3. ASSUME UNCHANGED <<api, uids, watch, cache, prov, up>>,
             \/ sync'.at = "idle" /\ sync'.pod \in {Nil, sync.pod}
             \/ sync'.at # "idle" /\ sync.at # "idle" /\ sync'.pod = sync.pod
      PROVE  Works
  BY <1>1, <1>3, Zenon DEF Works, Watching
<1>4. ASSUME UNCHANGED <<api, uids, watch, cache, prov, sync, up>> PROVE Works
  BY <1>2, <1>3, <1>4, Zenon
<1>5. ASSUME NEW why, Dies(why) PROVE Falls
  BY <1>5, Zenon DEF Dies, Falls
<1>6. CASE User
  <2>1. CASE UserCreate
    <3>0. PICK v \in 1 .. MaxSpec :
            Store([uid |-> uids + 1, spec |-> v, del |-> FALSE, status |-> NewStatus])
      BY <2>1, Creates
    <3>1. PICK p : p = [uid |-> uids + 1, spec |-> v, del |-> FALSE, status |-> NewStatus]
      BY ZenonT(60)
    <3>2. api = Nil /\ uids' = uids + 1 /\ Store(p) /\ p.uid = uids + 1
      BY <2>1, <3>0, <3>1, SMT DEF UserCreate
    <3>3. p # Nil
      <4>1. uids + 1 \in 1 .. MaxUid
        <5>1. uids \in 0 .. MaxUid /\ uids < MaxUid
          BY <2>1, ZenonT(60) DEF UserCreate, TypeOK
        <5> QED
          BY ONLY <5>1, Bounds, SMT
      <4> QED
        BY <3>1, <4>1, NewPods, PodFields, ZenonT(60)
    <3>4. api' = p /\ Delivers
      BY <3>2, <3>3, Zenon DEF Store, Delivers
    <3>5. ApiMoves
      BY <3>2, <3>3, <3>4, ZenonT(60) DEF ApiMoves
    <3> QED
      BY <2>1, <3>4, <3>5, Zenon DEF UserCreate, ByUser, handlers, provider, Writes
  <2>2. CASE UserUpdate
    BY <2>2, ApiWrites, Zenon DEF UserUpdate, ByUser, handlers, provider, Writes
  <2>3. ASSUME NEW atOnce \in BOOLEAN, UserDelete(atOnce) PROVE Writes
    BY <2>3, ApiWrites, Zenon DEF UserDelete, ByUser, handlers, provider, Writes
  <2> QED
    BY <1>6, <2>1, <2>2, <2>3, Zenon DEF User
<1>7. CASE Informer
  <2>1. CASE Observe
    BY <2>1, Zenon DEF Observe, ByInformer, handlers, provider, bounds, Observes
  <2>2. CASE Relist
    BY <2>2, ZenonT(60) DEF Relist, ByInformer, handlers, provider, bounds, Lists, Watching
  <2>3. CASE Resync
    BY <1>4, <2>3, Zenon DEF Resync, ByInformer, handlers, provider, bounds
  <2> QED
    BY <1>7, <2>1, <2>2, <2>3, Zenon DEF Informer
<1>8. CASE EventHandler
  <2>1. CASE AddFunc \/ DeleteFunc
    <3>1. sync' = [sync EXCEPT !.at = Detached(@)]
      BY <2>1, ZenonT(60) DEF AddFunc, DeleteFunc
    <3>2. sync'.pod = sync.pod /\ sync'.at = Detached(sync.at)
      BY <1>0, <3>1, SMTT(40) DEF SyncState
    <3>3. sync'.at = "idle" <=> sync.at = "idle"
      BY <3>2, SMT DEF Detached
    <3>4. UNCHANGED <<api, uids, watch, cache, prov, up>>
      BY <2>1, Zenon DEF AddFunc, DeleteFunc, ByHandler, provider, bounds
    <3> QED
      BY <1>3, <3>2, <3>3, <3>4, ZenonT(60)
  <2>2. CASE UpdateFunc
    <3>1. \/ \E why : Dies(why)
          \/ ByHandler /\ UNCHANGED sync
      BY <2>2, Zenon DEF UpdateFunc
    <3> QED
      BY <1>4, <1>5, <3>1, ZenonT(60) DEF ByHandler, provider, bounds
  <2> QED
    BY <1>8, <2>1, <2>2, Zenon DEF EventHandler
<1>9. ASSUME NEW q \in Queues, Ripen(q) PROVE Works
  BY <1>4, <1>9, ZenonT(60) DEF Ripen, informer, handlers, provider, bounds
<1>10. CASE Sync
  BY <1>10, SyncKinds
<1>11. CASE Delete
  <2>1. CASE DeleteRead
    BY <1>4, <2>1, ZenonT(60) DEF DeleteRead, ByDelete, provider
  <2>2. CASE DeleteRemove
    BY <2>2, ApiWrites, Zenon DEF DeleteRemove, ByDelete, provider, Writes
  <2> QED
    BY <1>11, <2>1, <2>2, Zenon DEF Delete
<1>12. CASE StatusSync
  <2>1. CASE StatusRead \/ StatusNothingToDo \/ StatusCompare
    BY <1>4, <2>1, ZenonT(60) DEF StatusRead, StatusNothingToDo, StatusCompare, ByStatus, StatusOnly, provider
  <2>2. CASE StatusPanics
    BY <1>5, <2>2, ZenonT(60) DEF StatusPanics
  <2>3. CASE StatusRemove \/ StatusWrite
    <3>1. \/ \E st : \E u : StoreStatus(u, st)
          \/ \E atOnce : Remove(atOnce)
          \/ UNCHANGED <<api, watch>>
      BY <2>3, Zenon DEF StatusRemove, StatusWrite
    <3>2. UNCHANGED <<uids, cache, prov, sync, up>>
      BY <2>3, Zenon DEF StatusRemove, StatusWrite, ByStatus, StatusOnly, provider
    <3> QED
      BY <3>1, <3>2, ApiWrites, Zenon DEF Writes
  <2> QED
    BY <1>12, <2>1, <2>2, <2>3, ZenonT(60) DEF StatusSync
<1>13. CASE Notifier
  BY <1>4, <1>13, Zenon DEF Notifier, NotifyLoad, NotifyStore, NotifyDrop, ByNotifier, informer, handlers, bounds
<1>14. CASE Provider
  <2>1. UNCHANGED <<api, uids, watch, cache, sync, up>>
    BY <1>14, Zenon DEF Provider, ProviderChange, ProviderEvict, informer, handlers, bounds
  <2>2. prov # Nil
    BY <1>14, ZenonT(60) DEF Provider, ProviderChange, ProviderEvict
  <2>3. prov \in Pod
    BY <1>0, <2>2, Versions
  <2>4. prov'.uid = prov.uid /\ prov' # Nil
    <3>1. CASE ProviderChange
      <4>1. PICK st \in {RunningStatus, FailedStatus} : prov' = [prov EXCEPT !.status = st]
        BY <3>1, Zenon DEF ProviderChange
      <4>2. st \in Status
        BY <4>1, Statuses, Zenon
      <4>3. prov' \in Pod
        BY <2>3, <4>1, <4>2, PodUpdates, Zenon
      <4> QED
        BY <2>3, <4>1, <4>3, PodFields, ZenonT(60)
    <3>2. CASE ProviderEvict
      <4>1. prov' = [prov EXCEPT !.del = TRUE]
        BY <3>2, Zenon DEF ProviderEvict
      <4>2. prov' \in Pod
        BY <2>3, <4>1, PodUpdates, Zenon
      <4> QED
        BY <2>3, <4>1, <4>2, PodFields, Zenon
    <3> QED
      BY <1>14, <3>1, <3>2, ZenonT(60) DEF Provider
  <2>5. ProviderMoves
    BY <2>2, <2>4, Zenon DEF ProviderMoves
  <2> QED
    BY <1>2, <2>1, <2>5, Zenon DEF Works, Watching
<1>15. CASE Run
  <2>0. UNCHANGED <<api, uids, sync>>
    BY <1>15, ZenonT(60) DEF Run, Boot, CacheSync, AddEventHandler, DanglingList, DanglingDelete, ByRun, handlers
  <2>1. CASE Boot
    <3>1. UNCHANGED <<watch, cache, prov>> /\ up = "down" /\ up' = "boot"
      BY <2>1, ZenonT(60) DEF Boot, informer
    <3>2. ~Watching /\ ~Watching' /\ up # "up" /\ up' # "dangling"
      BY <3>1, SMT DEF Watching
    <3> QED
      BY <1>1, <1>2, <2>0, <3>1, <3>2, ZenonT(60) DEF Works
  <2>2. CASE CacheSync
    <3>1. cache' = api /\ UNCHANGED <<watch, prov>> /\ up = "boot" /\ up' = "synced"
      BY <2>2, Zenon DEF CacheSync
    <3>2. ~Watching /\ Watching'
      BY <3>1, SMT DEF Watching
    <3>3. watch' = <<>>
      BY <3>1, <3>2, Zenon DEF StartInv
    <3> QED
      BY <2>0, <3>1, <3>2, <3>3, Zenon DEF Lists
  <2>3. CASE AddEventHandler
    <3>1. UNCHANGED <<watch, cache, prov>> /\ up = "synced" /\ up' = "listen"
      BY <2>3, ZenonT(60) DEF AddEventHandler
    <3>2. Watching /\ Watching' /\ up # "up" /\ up' # "dangling"
      BY <3>1, SMT DEF Watching
    <3> QED
      BY <1>1, <1>2, <2>0, <3>1, <3>2, ZenonT(60) DEF Works
  <2>4. CASE DanglingList
    <3>1. UNCHANGED <<watch, cache, prov>> /\ up = "listen" /\ (up' = "up" \/ (up' = "dangling" /\ cache = Nil))
      BY <2>4, ZenonT(60) DEF DanglingList, informer
    <3>2. Watching /\ Watching' /\ up # "up" /\ (up' = "dangling" => cache = Nil)
      BY <3>1, SMT DEF Watching
    <3> QED
      BY <1>1, <1>2, <2>0, <3>1, <3>2, ZenonT(60) DEF Works
  <2>5. CASE DanglingDelete
    <3>1. UNCHANGED <<watch, cache>> /\ up = "dangling" /\ up' = "up" /\ (prov' = Nil \/ UNCHANGED prov)
      BY <2>5, ZenonT(60) DEF DanglingDelete, informer, ProviderDeletePod
    <3>2. Watching /\ Watching' /\ up # "up" /\ up' # "dangling"
      BY <3>1, SMT DEF Watching
    <3>3. ProviderMoves
      BY <1>1, <3>1, Zenon DEF ProviderMoves
    <3> QED
      BY <1>2, <2>0, <3>1, <3>2, <3>3, Zenon DEF Works
  <2> QED
    BY <1>15, <2>1, <2>2, <2>3, <2>4, <2>5, ZenonT(60) DEF Run
<1>16. CASE Crash
  BY <1>5, <1>16, Zenon DEF Crash
<1>17. CASE UNCHANGED vars
  BY <1>4, <1>17, Zenon DEF vars
<1> QED
  BY <1>6, <1>7, <1>8, <1>9, <1>10, <1>11, <1>12, <1>13, <1>14, <1>15, <1>16, <1>17, ZenonT(60) DEF Next

\* A write puts the last version behind all others.
LEMMA NewVersion ==
  ASSUME TypeOK, TypeOK', UidInv, ApiMoves, NEW p \in OptPod, Created(p)
  PROVE  Before(p, api)'
<1>1. Created(p)'
  BY VersionStays
<1>2. api' # Nil => api'.uid = uids'
  BY Zenon DEF ApiMoves, UidInv
<1> QED
  BY <1>1, <1>2, ZenonT(60) DEF Before, Dead, Created

\* The versions stay in order when the API server writes.
LEMMA LineStays ==
  ASSUME TypeOK, TypeOK', UidInv, ApiMoves, NEW p \in OptPod, NEW s \in OptPod, NEW c \in OptPod,
         NEW w \in Seq(OptPod), Line(p, s, c, w)
  PROVE  Line(p, s, c, w)'
<1>1. \A i \in DOMAIN w : w[i] \in OptPod
  BY SMT
<1>2. Created(p) /\ Created(s) /\ Created(c) /\ \A i \in DOMAIN w : Created(w[i])
  BY Zenon DEF Line
<1>3. Created(p)' /\ Created(s)' /\ Created(c)' /\ (Marked(s) => Marked(s)') /\ (Marked(c) => Marked(c)')
  BY <1>2, VersionStays, ZenonT(60)
<1>4. ASSUME NEW i \in DOMAIN w
      PROVE  /\ Created(w[i])' /\ Marked(w[i])'
             /\ Before(p, w[i])' /\ Before(s, w[i])' /\ Before(c, w[i])'
             /\ \A j \in DOMAIN w : i < j => Before(w[i], w[j])'
  <2>1. w[i] \in OptPod /\ Created(w[i]) /\ Marked(w[i]) /\ Before(p, w[i]) /\ Before(s, w[i]) /\ Before(c, w[i])
    BY <1>1, Zenon DEF Line
  <2>2. Created(w[i])' /\ Marked(w[i])' /\ Before(p, w[i])' /\ Before(s, w[i])' /\ Before(c, w[i])'
    BY <1>2, <2>1, VersionStays, Zenon
  <2>3. ASSUME NEW j \in DOMAIN w, i < j PROVE Before(w[i], w[j])'
    <3>1. Before(w[i], w[j]) /\ w[j] \in OptPod
      BY <1>1, <2>3, Zenon DEF Line
    <3> QED
      BY <2>1, <3>1, VersionStays, Zenon
  <2> QED
    BY <2>2, <2>3
<1>5. Marked(s) /\ Marked(c)
  BY Zenon DEF Line
<1> QED
  BY <1>3, <1>4, <1>5, ZenonT(60) DEF Line

\* A version that is later than all comes last.
LEMMA LineAppend ==
  ASSUME NEW p \in OptPod, NEW s \in OptPod, NEW c \in OptPod, NEW w \in Seq(OptPod), NEW q \in OptPod,
         Line(p, s, c, w)', Created(q)', Marked(q)', Before(p, q)', Before(s, q)', Before(c, q)',
         \A i \in DOMAIN w : Before(w[i], q)'
  PROVE  Line(p, s, c, Append(w, q))'
<1>1. PICK v, n : v = Append(w, q) /\ n = Len(w) + 1
  BY ZenonT(60)
<1>2. /\ DOMAIN v = DOMAIN w \cup {n} /\ v[n] = q /\ n \notin DOMAIN w
      /\ \A i \in DOMAIN w : v[i] = w[i] /\ ~(n < i)
  <2>1. w \in Seq(OptPod) /\ q \in OptPod
    OBVIOUS
  <2> QED
    BY ONLY <1>1, <2>1, SMTT(40)
<1>3. /\ Created(p)' /\ Created(s)' /\ Created(c)' /\ Marked(s)' /\ Marked(c)'
      /\ \A i \in DOMAIN w : /\ Created(w[i])' /\ Marked(w[i])'
                             /\ Before(p, w[i])' /\ Before(s, w[i])' /\ Before(c, w[i])'
      /\ \A i, j \in DOMAIN w : i < j => Before(w[i], w[j])'
  BY Zenon DEF Line
<1>4. ASSUME NEW i \in DOMAIN v
      PROVE  /\ Created(v[i])' /\ Marked(v[i])'
             /\ Before(p, v[i])' /\ Before(s, v[i])' /\ Before(c, v[i])'
  BY <1>2, <1>3, Zenon
<1>5. ASSUME NEW i \in DOMAIN v, NEW j \in DOMAIN v, i < j PROVE Before(v[i], v[j])'
  <2>1. n \in Nat /\ ~(n < n)
    BY <1>1, SMT
  <2>2. i \in DOMAIN w
    BY <1>2, <1>5, <2>1, ZenonT(60)
  <2> QED
    BY <1>2, <1>3, <1>5, <2>2, ZenonT(60)
<1>6. Line(p, s, c, v)'
  BY <1>3, <1>4, <1>5, Zenon DEF Line
<1> QED
  BY <1>1, <1>6, ZenonT(60)

\* The cache takes the first version.
LEMMA LineShift ==
  ASSUME NEW p \in OptPod, NEW s \in OptPod, NEW c \in OptPod, NEW w \in Seq(OptPod), w # <<>>,
         Line(p, s, c, w)'
  PROVE  Line(p, s, Head(w), Tail(w))' /\ Before(p, Head(w))' /\ Before(s, Head(w))'
<1>1. PICK v, h : v = Tail(w) /\ h = Head(w)
  BY ZenonT(60)
<1>2. /\ 1 \in DOMAIN w /\ h = w[1] /\ DOMAIN v \subseteq Nat
      /\ \A i \in DOMAIN v : i + 1 \in DOMAIN w /\ 1 < i + 1 /\ v[i] = w[i + 1]
      /\ \A i, j \in DOMAIN v : i < j => i + 1 < j + 1
  BY <1>1, SMT
<1>3. /\ Created(p)' /\ Created(s)' /\ Marked(s)'
      /\ \A i \in DOMAIN w : /\ Created(w[i])' /\ Marked(w[i])'
                             /\ Before(p, w[i])' /\ Before(s, w[i])'
      /\ \A i, j \in DOMAIN w : i < j => Before(w[i], w[j])'
  BY Zenon DEF Line
<1>4. Created(h)' /\ Marked(h)' /\ Before(p, h)' /\ Before(s, h)'
  BY <1>2, <1>3, Zenon
<1>5. ASSUME NEW i \in DOMAIN v
      PROVE  /\ Created(v[i])' /\ Marked(v[i])'
             /\ Before(p, v[i])' /\ Before(s, v[i])' /\ Before(h, v[i])'
  BY <1>2, <1>3, ZenonT(60)
<1>6. ASSUME NEW i \in DOMAIN v, NEW j \in DOMAIN v, i < j PROVE Before(v[i], v[j])'
  BY <1>2, <1>3, <1>6, ZenonT(60)
<1>7. Line(p, s, h, v)'
  BY <1>3, <1>4, <1>5, <1>6, ZenonT(60) DEF Line
<1> QED
  BY <1>1, <1>4, <1>7, Zenon

\* A version that takes the place of another one of its pod is in order with all
\* that come later.
LEMMA SameUid ==
  ASSUME NEW p, NEW x, NEW q, p = Nil \/ (x # Nil /\ p.uid = x.uid)
  PROVE  (Before(x, q)' => Before(p, q)') /\ (Created(x)' => Created(p)')
<1>1. (Dead(x.uid)' /\ p.uid = x.uid) => Dead(p.uid)'
  BY Zenon DEF Dead
<1> QED
  BY <1>1, Zenon DEF Before, Created

\* The provider takes a version of its own pod or of the one of a sync; a sync
\* ends or takes the one of the cache.
LEMMA LineMoves ==
  ASSUME NEW p, NEW s, NEW c, NEW w, Line(p, s, c, w)', NEW q, NEW r,
         q = Nil \/ \E x \in {p, s} : x # Nil /\ q.uid = x.uid,
         r \in {Nil, s, c}
  PROVE  Line(q, r, c, w)'
<1>1. PICK x \in {p, s} : q = Nil \/ (x # Nil /\ q.uid = x.uid)
  BY Zenon
<1>2. Created(q)' /\ \A i \in DOMAIN w : Before(q, w[i])'
  <2>1. Created(x)' /\ \A i \in DOMAIN w : Before(x, w[i])'
    BY <1>1, ZenonT(60) DEF Line
  <2> QED
    BY <1>1, <2>1, SameUid, ZenonT(60)
<1>3. Created(r)' /\ Marked(r)' /\ \A i \in DOMAIN w : Before(r, w[i])'
  <2>1. CASE r = Nil
    BY <2>1, Zenon DEF Created, Marked, Before
  <2>2. CASE r # Nil
    BY <2>2, Zenon DEF Line
  <2> QED
    BY <2>1, <2>2
<1> QED
  BY <1>2, <1>3, Zenon DEF Line

\* The last version of the API server, in the place of the cache.
LEMMA LineList ==
  ASSUME NEW p, NEW s, NEW c, NEW w, Line(p, s, c, w)', Created(api)', Marked(api)'
  PROVE  Line(p, s, api, <<>>)' /\ Line(p, s, Nil, <<>>)'
<1>1. DOMAIN <<>> = {}
  BY SMT
<1>2. Created(Nil)' /\ Marked(Nil)'
  BY Zenon DEF Created, Marked
<1> QED
  BY <1>1, <1>2, Zenon DEF Line

\* The versions stay in order.
LEMMA VersionStep ==
  ASSUME TypeOK, TypeOK', Locals, VersionInv, [Next]_vars
  PROVE  VersionInv'
<1>0. UidInv /\ LineInv /\ AgeInv /\ StartInv
  BY Zenon DEF VersionInv
<1>1. PICK p, s, c, w : p = prov /\ s = sync.pod /\ c = cache /\ w = watch
  OBVIOUS
<1>2. PICK q, r, a : q = prov' /\ r = sync'.pod /\ a = api'
  BY SMTT(40)
<1>3. p \in OptPod /\ s \in OptPod /\ c \in OptPod /\ w \in Seq(OptPod) /\ a \in OptPod
  BY <1>1, <1>2, SMTT(40) DEF TypeOK, SyncState
<1>4. ApiMoves
  <2>1. UNCHANGED <<api, uids>> => ApiMoves
    BY Zenon DEF ApiMoves
  <2> QED
    BY <1>0, <2>1, Kinds, Zenon DEF Writes, Observes, Lists, Reads, Falls, Works
<1>5. UidInv'
  BY <1>0, <1>4, Zenon DEF UidInv, ApiMoves
<1>6. Line(p, s, c, w) /\ Line(p, s, c, w)'
  <2>1. Line(p, s, c, w)
    BY <1>0, <1>1, ZenonT(60) DEF LineInv
  <2> QED
    BY <1>0, <1>3, <1>4, <2>1, LineStays, ZenonT(60)
<1>7. Created(p) /\ Created(s) /\ Created(c)
  BY <1>6, ZenonT(60) DEF Line
<1>8. Before(p, a)' /\ Before(s, a)' /\ Before(c, a)' /\ Created(a)' /\ Marked(a)'
  <2>1. Before(p, a)' /\ Before(s, a)' /\ Before(c, a)'
    <3>1. Before(p, api)' /\ Before(s, api)' /\ Before(c, api)'
      BY <1>0, <1>3, <1>4, <1>7, NewVersion, ZenonT(60)
    <3> QED
      BY <1>2, <3>1, Zenon DEF Before
  <2>2. Created(a)'
    <3>1. uids' \in Nat
      <4>1. uids' \in 0 .. MaxUid
        BY Zenon DEF TypeOK
      <4> QED
        BY ONLY <4>1, Bounds, SMTT(40)
    <3> QED
      BY <1>2, <1>5, <3>1, SMTT(40) DEF UidInv, Created
  <2>3. Marked(a)'
    BY <1>2, Zenon DEF Marked
  <2> QED
    BY <2>1, <2>2, <2>3, SMTT(40)
<1>9. /\ Watching => Before(p, c)' /\ Before(s, c)'
      /\ sync.at # "idle" => Before(p, s)'
      /\ up = "dangling" => Before(p, Nil)'
  <2>1. /\ Watching => Before(p, c) /\ Before(s, c)
        /\ sync.at # "idle" => Before(p, s)
        /\ up = "dangling" => Before(p, Nil)
    BY <1>0, <1>1, ZenonT(60) DEF AgeInv
  <2> QED
    BY <1>0, <1>3, <1>4, <1>7, <2>1, VersionStays, ZenonT(60)
<1>10. IdleSync.at = "idle" /\ IdleSync.pod = Nil
  BY DEF IdleSync
<1>11. \A x : Before(Nil, x)'
  BY Zenon DEF Before
<1>12. ASSUME Writes PROVE LineInv' /\ AgeInv' /\ StartInv'
  <2>1. prov' = p /\ cache' = c /\ up' = up /\ (sync'.pod = s \/ sync'.pod = Nil) /\ (sync' = sync \/ sync'.at = "idle")
    BY <1>1, <1>10, <1>12, ZenonT(60) DEF Writes
  <2>2. PICK v : v = watch'
    OBVIOUS
  <2>3. Line(p, s, c, v)'
    <3>1. CASE watch' = watch
      BY <1>1, <1>6, <2>2, <3>1, ZenonT(60)
    <3>2. CASE watch' = Append(watch, api')
      <4>1. \A i \in DOMAIN w : Before(w[i], a)'
        <5>1. ASSUME NEW i \in DOMAIN w PROVE Before(w[i], a)'
          <6>1. PICK x : x = w[i]
            OBVIOUS
          <6>2. x \in OptPod
            BY <1>3, <6>1, SMT
          <6>3. Created(x)
            BY <1>6, <6>1, ZenonT(60) DEF Line
          <6>4. Before(x, api)'
            BY <1>0, <1>4, <6>2, <6>3, NewVersion, ZenonT(60)
          <6> QED
            BY <1>2, <6>1, <6>4, ZenonT(60) DEF Before
        <5> QED
          BY <5>1
      <4>2. Line(p, s, c, Append(w, a))'
        BY <1>3, <1>6, <1>8, <4>1, LineAppend, ZenonT(60)
      <4> QED
        BY <1>1, <1>2, <2>2, <3>2, <4>2, ZenonT(60)
    <3> QED
      BY <1>12, <3>1, <3>2, Zenon DEF Writes, Delivers
  <2>4. LineInv'
    <3>1. p = Nil \/ \E x \in {p, s} : x # Nil /\ p.uid = x.uid
      BY Zenon
    <3>2. Line(p, r, c, v)'
      BY <1>2, <2>1, <2>3, <3>1, LineMoves, ZenonT(60)
    <3> QED
      BY <1>2, <2>1, <2>2, <3>2, ZenonT(60) DEF LineInv
  <2>5. AgeInv'
    BY <1>1, <1>9, <1>11, <2>1, ZenonT(60) DEF AgeInv, Watching
  <2>6. StartInv'
    BY <1>0, <1>12, <2>1, ZenonT(60) DEF StartInv, Writes, Delivers, Watching
  <2> QED
    BY <2>4, <2>5, <2>6
<1>13. ASSUME Observes PROVE LineInv' /\ AgeInv' /\ StartInv'
  <2>1. w # <<>> /\ prov' = p /\ sync' = sync /\ cache' = Head(w) /\ watch' = Tail(w) /\ up' = up /\ Watching
    BY <1>1, <1>13, ZenonT(60) DEF Observes
  <2>2. Line(p, s, Head(w), Tail(w))' /\ Before(p, Head(w))' /\ Before(s, Head(w))'
    BY <1>3, <1>6, <2>1, LineShift, ZenonT(60)
  <2>3. LineInv'
    BY <1>1, <2>1, <2>2, Zenon DEF LineInv
  <2>4. AgeInv'
    BY <1>1, <1>9, <2>1, <2>2, ZenonT(60) DEF AgeInv
  <2>5. StartInv'
    BY <1>0, <2>1, ZenonT(60) DEF StartInv, Watching
  <2> QED
    BY <2>3, <2>4, <2>5
<1>14. ASSUME Lists PROVE LineInv' /\ AgeInv' /\ StartInv'
  <2>1. prov' = p /\ sync' = sync /\ cache' = a /\ watch' = <<>> /\ Watching'
    BY <1>1, <1>2, <1>14, Zenon DEF Lists
  <2>2. Line(p, s, a, <<>>)'
    <3>1. Created(api)' /\ Marked(api)'
      BY <1>2, <1>8, ZenonT(60) DEF Created, Marked
    <3>2. Line(p, s, api, <<>>)'
      BY <1>6, <3>1, LineList, Zenon
    <3> QED
      BY <1>2, <3>2, ZenonT(60) DEF Line, Created, Marked, Before
  <2>3. LineInv'
    BY <1>1, <2>1, <2>2, ZenonT(60) DEF LineInv
  <2>4. up' = "dangling" => up = "dangling"
    <3>1. up' # up => up' = "synced"
      BY <1>14, Zenon DEF Lists
    <3> QED
      BY ONLY <3>1, SMTT(40)
  <2>5. up' # "up" => up # "up"
    <3>1. up' # up => up = "boot"
      BY <1>14, Zenon DEF Lists
    <3> QED
      BY ONLY <3>1, SMT
  <2>6. AgeInv'
    BY <1>1, <1>8, <1>9, <2>1, <2>4, ZenonT(60) DEF AgeInv
  <2>7. StartInv'
    BY <1>0, <2>1, <2>5, ZenonT(60) DEF StartInv
  <2> QED
    BY <2>3, <2>6, <2>7
<1>15. ASSUME Reads PROVE LineInv' /\ AgeInv' /\ StartInv'
  <2>1. prov' = p /\ sync'.pod = c /\ cache' = c /\ watch' = w /\ up' = up /\ up = "up"
    BY <1>1, <1>15, ZenonT(60) DEF Reads
  <2>2. Watching /\ up # "dangling"
    BY <2>1, SMT DEF Watching
  <2>3. Line(p, c, c, w)'
    <3>1. p = Nil \/ \E x \in {p, s} : x # Nil /\ p.uid = x.uid
      BY Zenon
    <3> QED
      BY <1>6, <3>1, LineMoves, ZenonT(60)
  <2>4. LineInv'
    BY <2>1, <2>3, ZenonT(60) DEF LineInv
  <2>5. Before(c, c)'
    <3>1. c # Nil => c.uid \in Nat
      BY <1>3, Versions
    <3>2. c # Nil => c.uid <= c.uid
      BY ONLY <3>1, SMT
    <3> QED
      BY <3>2, ZenonT(60) DEF Before
  <2>6. AgeInv'
    BY <1>9, <2>1, <2>2, <2>5, ZenonT(60) DEF AgeInv
  <2>7. StartInv'
    BY <1>0, <2>1, <2>2, ZenonT(60) DEF StartInv, Watching
  <2> QED
    BY <2>4, <2>6, <2>7
<1>16. ASSUME Falls PROVE LineInv' /\ AgeInv' /\ StartInv'
  <2>1. /\ prov' = p /\ sync'.pod = Nil /\ sync'.at = "idle" /\ cache' = Nil /\ watch' = <<>>
        /\ up' = "down"
    BY <1>1, <1>10, <1>16, ZenonT(60) DEF Falls
  <2>2. ~Watching' /\ up' # "dangling"
    BY <2>1, SMT DEF Watching
  <2>3. Line(p, Nil, Nil, <<>>)'
    <3>1. Created(api)' /\ Marked(api)'
      BY <1>2, <1>8, Zenon DEF Created, Marked
    <3>2. Line(p, s, Nil, <<>>)'
      BY <1>6, <3>1, LineList, ZenonT(60)
    <3>3. p = Nil \/ \E x \in {p, s} : x # Nil /\ p.uid = x.uid
      BY Zenon
    <3> QED
      BY <3>2, <3>3, LineMoves, ZenonT(60)
  <2> QED
    BY <2>1, <2>2, <2>3, Zenon DEF LineInv, AgeInv, StartInv
<1>17. ASSUME Works PROVE LineInv' /\ AgeInv' /\ StartInv'
  <2>1. /\ cache' = c /\ watch' = w /\ (Watching <=> Watching')
        /\ \/ sync'.at = "idle" /\ r \in {Nil, s}
           \/ sync'.at # "idle" /\ sync.at # "idle" /\ r = s
    BY <1>1, <1>2, <1>17, Zenon DEF Works
  <2>2. Loaded => s # Nil /\ sync.at # "idle" /\ up # "dangling"
    <3>1. Loaded => sync.at # "idle"
      BY SMT DEF Loaded
    <3>2. up = "dangling" => up # "up"
      BY SMT
    <3> QED
      BY <1>0, <1>1, <3>1, <3>2, ZenonT(60) DEF Loaded, Locals, StartInv
  <2>3. q = Nil \/ (p # Nil /\ q.uid = p.uid) \/ (Loaded /\ s # Nil /\ q.uid = s.uid)
    BY <1>1, <1>2, <1>17, <2>2, ZenonT(60) DEF Works, ProviderMoves
  <2>4. q = Nil \/ \E x \in {p, s} : x # Nil /\ q.uid = x.uid
    BY <2>3, Zenon
  <2>5. Line(q, r, c, w)'
    BY <1>6, <2>1, <2>4, LineMoves, ZenonT(60)
  <2>6. LineInv'
    BY <1>2, <2>1, <2>5, Zenon DEF LineInv
  <2>7. Watching => Before(q, c)' /\ Before(r, c)'
    BY <1>9, <1>11, <2>1, <2>3, SameUid, Zenon
  <2>8. sync'.at # "idle" => Before(q, r)'
    <3>1. s # Nil => s.uid <= s.uid
      <4>1. s # Nil => s.uid \in Nat
        BY <1>3, Versions, SMTT(40)
      <4> QED
        BY ONLY <4>1, SMT
    <3>2. Before(s, s)'
      BY <3>1, Zenon DEF Before
    <3> QED
      BY <1>9, <2>1, <2>3, <3>2, SameUid, Zenon
  <2>9. up' = "dangling" => Before(q, Nil)'
    <3>1. CASE up = "dangling"
      BY <1>9, <2>2, <2>3, <3>1, SameUid, ZenonT(60)
    <3>2. CASE Watching /\ c = Nil
      BY <2>7, <3>2, ZenonT(60)
    <3> QED
      BY <1>1, <1>17, <3>1, <3>2, ZenonT(60) DEF Works
  <2>10. AgeInv'
    BY <1>2, <2>1, <2>7, <2>8, <2>9, ZenonT(60) DEF AgeInv
  <2>11. StartInv'
    <3>1. up' # "up" => sync'.at = "idle"
      BY <1>0, <1>17, <2>1, ZenonT(60) DEF StartInv, Works
    <3> QED
      BY <1>0, <1>1, <2>1, <3>1, ZenonT(60) DEF StartInv
  <2> QED
    BY <2>6, <2>10, <2>11
<1> QED
  BY <1>0, <1>5, <1>12, <1>13, <1>14, <1>15, <1>16, <1>17, Kinds, ZenonT(60) DEF VersionInv

\* The versions are in order before the first step.
LEMMA VersionInit == Init => VersionInv
<1> SUFFICES ASSUME Init PROVE VersionInv
  OBVIOUS
<1>1. api = Nil /\ prov = Nil /\ sync = IdleSync /\ cache = Nil /\ watch = <<>> /\ up = "down"
  BY ZenonT(60) DEF Init
<1>2. sync.pod = Nil /\ sync.at = "idle" /\ DOMAIN watch = {} /\ ~Watching /\ up # "dangling"
  BY <1>1, SMT DEF IdleSync, Watching
<1> QED
  BY <1>1, <1>2, Zenon DEF VersionInv, UidInv, LineInv, Line, AgeInv, StartInv, Created, Marked, Before

\* The order of the versions is an invariant.
LEMMA VersionsInOrder == Spec => [](IInv /\ VersionInv)
<1>1. Init => IInv /\ VersionInv
  BY InitIInv, VersionInit
<1>2. IInv /\ VersionInv /\ [Next]_vars => (IInv /\ VersionInv)'
  <2> SUFFICES ASSUME IInv, VersionInv, [Next]_vars PROVE IInv' /\ VersionInv'
    OBVIOUS
  <2>1. IInv'
    BY IInvStep
  <2>2. TypeOK /\ TypeOK' /\ Locals
    BY <2>1, Zenon DEF IInv
  <2> QED
    BY <2>1, <2>2, VersionStep, SMTT(40)
<1> QED
  BY <1>1, <1>2, PTL DEF Spec

\* A deletion that a handler, a worker or deleteDanglingPods has decided on with
\* an old version is still wanted when the provider gets it.
LEMMA StopsUnwanted ==
  ASSUME TypeOK, TypeOK', Locals, VersionInv, [Next]_vars, ProviderPodGone
  PROVE  api = Nil \/ api.uid # prov.uid \/ api.del
<1>0. UidInv /\ LineInv /\ AgeInv /\ StartInv /\ prov # Nil /\ prov' = Nil
  BY ZenonT(60) DEF VersionInv, ProviderPodGone
<1>1. /\ prov \in OptPod /\ api \in OptPod /\ sync.pod \in OptPod
  BY SMTT(40) DEF TypeOK, SyncState
<1>2. prov.uid \in Nat /\ (api # Nil => api.uid \in Nat)
  BY <1>0, <1>1, Versions
<1>3. Works /\ ProviderMoves
  BY <1>0, Kinds, ZenonT(60) DEF Writes, Observes, Lists, Reads, Falls, Works
<1>4. Dead(prov.uid) => api = Nil \/ api.uid # prov.uid
  BY <1>2, SMTT(40) DEF Dead
<1>5. CASE up = "dangling"
  BY <1>0, <1>4, <1>5, ZenonT(60) DEF AgeInv, Before
<1>6. CASE sync.at = "read" /\ sync.pod = Nil
  <2>1. sync.at # "idle"
    BY <1>6, SMTT(40)
  <2> QED
    BY <1>0, <1>4, <1>6, <2>1, ZenonT(60) DEF AgeInv, Before
<1>7. CASE Loaded /\ sync.pod.del
  <2>1. sync.at # "idle"
    BY <1>7, SMT DEF Loaded
  <2>2. sync.pod # Nil
    BY <1>7, Zenon DEF Loaded, Locals
  <2>3. prov.uid <= sync.pod.uid
    BY <1>0, <2>1, <2>2, Zenon DEF AgeInv, Before
  <2>4. Dead(sync.pod.uid) \/ api.del
    BY <1>0, <1>7, <2>2, ZenonT(60) DEF LineInv, Line, Marked
  <2>5. sync.pod.uid \in Nat
    BY <1>1, <2>2, Versions, SMTT(40)
  <2>6. Dead(sync.pod.uid) => Dead(prov.uid)
    BY <1>2, <2>3, <2>5, SMTT(40) DEF Dead
  <2> QED
    BY <1>4, <2>4, <2>6, SMTT(40)
<1> QED
  BY <1>0, <1>3, <1>5, <1>6, <1>7, ZenonT(60) DEF ProviderMoves

\* A late event, a worker with an old pod from the lister, or deleteDanglingPods
\* never stops a pod that is to run, however often pods of the name are deleted
\* and created again, the informer lists again and the process crashes.
THEOREM UnwantedPodsStoppedOnly == Spec => OnlyUnwantedPodsStopped
<1>1. IInv /\ VersionInv /\ IInv' /\ [Next]_vars
      => [ProviderPodGone => api = Nil \/ api.uid # prov.uid \/ api.del]_vars
  <2> SUFFICES ASSUME IInv, VersionInv, IInv', [Next]_vars, ProviderPodGone
               PROVE  api = Nil \/ api.uid # prov.uid \/ api.del
    OBVIOUS
  <2>1. TypeOK /\ TypeOK' /\ Locals
    BY Zenon DEF IInv
  <2> QED
    BY <2>1, StopsUnwanted, SMTT(40)
<1> QED
  BY <1>1, VersionsInOrder, PTL DEF Spec, OnlyUnwantedPodsStopped

\* The versions that the cache has not seen are in S.
Later(S) == api \in S /\ \A j \in DOMAIN watch : watch[j] \in S

\* So are all versions that anybody has.
Copies(S) == cache \in S /\ Later(S) /\ (sync.at # "idle" => sync.pod \in S)

\* The positions of a sequence that grows.
LEMMA AppendDomain ==
  ASSUME NEW T, NEW w \in Seq(T), NEW q \in T, NEW v, v = Append(w, q), NEW n, n = Len(w) + 1
  PROVE  /\ DOMAIN v = DOMAIN w \cup {n} /\ v[n] = q /\ ~(n < n)
         /\ \A i \in DOMAIN w : v[i] = w[i] /\ ~(n < i)
  BY SMTT(40)

\* The positions of a sequence whose head is taken.
LEMMA TailDomain ==
  ASSUME NEW T, NEW w \in Seq(T), w # <<>>
  PROVE  /\ 1 \in DOMAIN w /\ Head(w) = w[1]
         /\ \A i \in DOMAIN Tail(w) : i + 1 \in DOMAIN w /\ 1 < i + 1 /\ Tail(w)[i] = w[i + 1]
         /\ \A i, j \in DOMAIN Tail(w) : i < j => i + 1 < j + 1
<1>1. PICK v, h : v = Tail(w) /\ h = Head(w)
  BY Zenon
<1>2. /\ 1 \in DOMAIN w /\ h = w[1]
      /\ \A i \in DOMAIN v : i + 1 \in DOMAIN w /\ 1 < i + 1 /\ v[i] = w[i + 1]
      /\ \A i, j \in DOMAIN v : i < j => i + 1 < j + 1
  BY <1>1, SMTT(40)
<1> QED
  BY <1>1, <1>2, Zenon

\* Versions are copied and not made up: as long as the API server writes pods of
\* S, everybody has pods of S.
LEMMA CopiesStay ==
  ASSUME TypeOK, TypeOK', Locals, StartInv, [Next]_vars,
         NEW S, Nil \in S, api' \in S, Copies(S)
  PROVE  Copies(S)'
<1>0. watch \in Seq(OptPod) /\ api' \in OptPod
  BY Zenon DEF TypeOK
<1>1. PICK w : w = watch
  BY Zenon
<1>2. /\ cache \in S /\ api \in S /\ api' \in S /\ (\A j \in DOMAIN w : w[j] \in S)
      /\ sync.at # "idle" => sync.pod \in S
  BY <1>1, ZenonT(60) DEF Copies, Later
<1>3. DOMAIN <<>> = {} /\ IdleSync.at = "idle"
  BY SMT DEF IdleSync
<1>4. CASE Writes
  <2>1. cache' \in S /\ (sync'.at # "idle" => sync'.pod \in S)
    BY <1>2, <1>3, <1>4, Zenon DEF Writes
  <2>2. \A j \in DOMAIN watch' : watch'[j] \in S
    <3>1. CASE watch' = watch
      BY <1>1, <1>2, <3>1, Zenon
    <3>2. CASE watch' = Append(watch, api')
      <4>1. PICK a, v, n : a = api' /\ v = watch' /\ n = Len(w) + 1
        BY Zenon
      <4>2. v = Append(w, a) /\ w \in Seq(OptPod) /\ a \in OptPod
        BY <1>0, <1>1, <3>2, <4>1, ZenonT(60)
      <4>3. /\ DOMAIN v = DOMAIN w \cup {n} /\ v[n] = a
            /\ \A i \in DOMAIN w : v[i] = w[i]
        BY ONLY <4>1, <4>2, AppendDomain, SMTT(40)
      <4> QED
        BY <1>2, <4>1, <4>3, Zenon
    <3> QED
      BY <1>4, <3>1, <3>2, Zenon DEF Writes, Delivers
  <2> QED
    BY <1>2, <2>1, <2>2, Zenon DEF Copies, Later
<1>5. CASE Observes
  <2>1. /\ w # <<>> /\ cache' = Head(w) /\ watch' = Tail(w) /\ sync' = sync
    BY <1>1, <1>5, Zenon DEF Observes
  <2>2. /\ 1 \in DOMAIN w /\ Head(w) = w[1]
        /\ \A i \in DOMAIN Tail(w) : i + 1 \in DOMAIN w /\ Tail(w)[i] = w[i + 1]
    BY <1>0, <1>1, <2>1, TailDomain, Zenon
  <2> QED
    BY <1>2, <2>1, <2>2, Zenon DEF Copies, Later
<1>6. CASE Lists
  BY <1>2, <1>3, <1>6, Zenon DEF Lists, Copies, Later
<1>7. CASE Reads
  BY <1>1, <1>2, <1>7, Zenon DEF Reads, Copies, Later
<1>8. CASE Falls
  BY <1>2, <1>3, <1>8, Zenon DEF Falls, Copies, Later
<1>9. CASE Works
  BY <1>1, <1>2, <1>9, Zenon DEF Works, Copies, Later
<1> QED
  BY <1>0, <1>4, <1>5, <1>6, <1>7, <1>8, <1>9, Kinds, Zenon

\* The key is in the deletion queue, or its worker has read the lister.
Asked == "delete" \in ready \/ "delete" \in delayed \/ delete = "read"

\* Pods that are not marked for deletion.
Unmarked == {p \in OptPod : p # Nil => ~p.del}

\* The mark is on the pod of its UID, and before the first pod is marked nobody
\* has a marked one or asks for a deletion.
MarkInv ==
  /\ marked <= uids
  /\ api # Nil /\ marked = api.uid => api.del
  /\ marked = 0 => Copies(Unmarked) /\ ~Asked

\* Only a sync of a marked pod, SyncForceDelete or SyncDelete, asks for a deletion.
LEMMA Asks ==
  ASSUME Locals, [Next]_vars, Asked', ~Asked
  PROVE  sync.pod # Nil /\ sync.pod.del /\ (sync.at = "read" \/ Loaded)
<1>0. "delete" \notin ready /\ "delete" \notin delayed /\ delete # "read"
  BY Zenon DEF Asked
<1>1. "delete" # "sync" /\ "delete" # "status" /\ "idle" # "read"
  BY SMT
<1>2. ASSUME "delete" \notin ready', "delete" \notin delayed', delete' # "read" PROVE FALSE
  BY <1>2, Zenon DEF Asked
<1>3. ASSUME NEW q, Retry(q), q # "delete" PROVE "delete" \notin delayed'
  BY <1>0, <1>3, Zenon DEF Retry
<1>4. ASSUME UNCHANGED <<ready, delayed, delete>> PROVE FALSE
  BY <1>0, <1>2, <1>4, Zenon
<1>5. ASSUME NEW why, Dies(why) PROVE FALSE
  <2>1. "delete" \notin ready' /\ "delete" \notin delayed' /\ delete' = "idle"
    BY <1>5, SMTT(40) DEF Dies
  <2> QED
    BY <1>1, <1>2, <2>1, ZenonT(60)
<1>6. CASE User
  BY <1>4, <1>6, ZenonT(60) DEF User, UserCreate, UserUpdate, UserDelete, ByUser, queues, handlers
<1>7. CASE Informer
  BY <1>4, <1>7, Zenon DEF Informer, Observe, Relist, Resync, ByInformer, queues, handlers
<1>8. CASE EventHandler
  <2>1. CASE AddFunc \/ DeleteFunc
    BY <1>0, <1>1, <1>2, <2>1, ZenonT(60) DEF AddFunc, DeleteFunc, ByHandler
  <2>2. CASE UpdateFunc
    <3>1. \/ \E why : Dies(why)
          \/ /\ delayed' = delayed \cup (IF SkipWasWrong(Head(notes)[2]) THEN {"status"} ELSE {})
                                   \cup (IF podShouldEnqueue(Head(notes)[1], Head(notes)[2]) THEN {"sync"} ELSE {})
             /\ UNCHANGED <<ready, delete>>
      BY <2>2, Zenon DEF UpdateFunc, ByHandler
    <3>2. ASSUME delayed' = delayed \cup (IF SkipWasWrong(Head(notes)[2]) THEN {"status"} ELSE {})
                                    \cup (IF podShouldEnqueue(Head(notes)[1], Head(notes)[2]) THEN {"sync"} ELSE {})
          PROVE  "delete" \notin delayed'
      BY <1>0, <1>1, <3>2, Zenon
    <3> QED
      BY <1>0, <1>2, <1>5, <3>1, <3>2, ZenonT(60)
  <2> QED
    BY <1>8, <2>1, <2>2, Zenon DEF EventHandler
<1>9. ASSUME NEW q \in Queues, Ripen(q) PROVE FALSE
  <2>1. q # "delete" /\ ready' = ready \cup {q} /\ delayed' = delayed \ {q} /\ delete' = delete
    BY <1>0, <1>9, ZenonT(60) DEF Ripen, handlers
  <2> QED
    BY <1>0, <1>2, <2>1, Zenon
<1>10. CASE Sync
  <2>0. UNCHANGED <<delete, uids>>
    BY <1>10, ZenonT(60) DEF Sync, SyncRead, SyncOrphan, SyncForceDelete, SyncLoad, SyncDelete, SyncTerminal, SyncCreate,
                        SyncUpdate, SyncNothingToDo, SyncNoEnvironment, SyncProviderError, BySync
  <2>1. CASE SyncRead
    BY <1>0, <1>2, <2>0, <2>1, ZenonT(60) DEF SyncRead, Take
  <2>2. CASE SyncLoad \/ SyncTerminal \/ SyncCreate \/ SyncUpdate \/ SyncNothingToDo
    BY <1>4, <2>0, <2>2, ZenonT(60) DEF SyncLoad, SyncTerminal, SyncCreate, SyncUpdate, SyncNothingToDo, queues
  <2>3. CASE SyncOrphan \/ SyncNoEnvironment \/ SyncProviderError
    <3>1. ready' = ready /\ (delayed' = delayed \/ Retry("sync"))
      BY <2>3, Zenon DEF SyncOrphan, SyncNoEnvironment, SyncProviderError
    <3> QED
      BY <1>0, <1>1, <1>2, <1>3, <2>0, <3>1, ZenonT(60)
  <2>4. CASE SyncForceDelete
    BY <2>0, <2>4, Zenon DEF SyncForceDelete
  <2>5. CASE SyncDelete
    BY <2>0, <2>5, Zenon DEF SyncDelete, Loaded, Locals
  <2> QED
    BY <1>10, <2>1, <2>2, <2>3, <2>4, <2>5, ZenonT(60) DEF Sync
<1>11. CASE Delete
  BY <1>0, <1>11, Zenon DEF Delete, DeleteRead, DeleteRemove, Take
<1>12. CASE StatusSync
  <2>1. CASE StatusPanics
    BY <1>5, <2>1, ZenonT(60) DEF StatusPanics
  <2>2. CASE StatusRead
    BY <1>0, <1>2, <2>2, ZenonT(60) DEF StatusRead, Take, StatusOnly
  <2>3. CASE StatusNothingToDo \/ StatusCompare
    BY <1>4, <2>3, ZenonT(60) DEF StatusNothingToDo, StatusCompare, StatusOnly, queues
  <2>4. CASE StatusRemove \/ StatusWrite
    <3>1. UNCHANGED <<ready, delete>> /\ (delayed' = delayed \/ Retry("status"))
      BY <2>4, Zenon DEF StatusRemove, StatusWrite, StatusOnly
    <3> QED
      BY <1>0, <1>1, <1>2, <1>3, <3>1, ZenonT(60)
  <2> QED
    BY <1>12, <2>1, <2>2, <2>3, <2>4, ZenonT(60) DEF StatusSync
<1>13. CASE Notifier
  <2>1. UNCHANGED <<ready, delete>> /\ (delayed' = delayed \/ delayed' = delayed \cup {"status"})
    BY <1>13, ZenonT(60) DEF Notifier, NotifyLoad, NotifyStore, NotifyDrop, ByNotifier, handlers
  <2> QED
    BY <1>0, <1>1, <1>2, <2>1, ZenonT(60)
<1>14. CASE Provider
  BY <1>4, <1>14, ZenonT(60) DEF Provider, ProviderChange, ProviderEvict, queues, handlers
<1>15. CASE Run
  BY <1>4, <1>15, ZenonT(60) DEF Run, Boot, CacheSync, AddEventHandler, DanglingList, DanglingDelete, ByRun, queues, handlers
<1>16. CASE Crash
  BY <1>5, <1>16, Zenon DEF Crash
<1>17. CASE UNCHANGED vars
  BY <1>4, <1>17, ZenonT(60) DEF vars
<1> QED
  BY <1>6, <1>7, <1>8, <1>9, <1>10, <1>11, <1>12, <1>13, <1>14, <1>15, <1>16, <1>17, ZenonT(60) DEF Next

\* What a step does to the mark: nothing, and no pod gets one, or the API server
\* marks its pod.
MarkMoves ==
  \/ UNCHANGED marked /\ (api' # Nil /\ api'.del => api # Nil /\ api.del)
  \/ api # Nil /\ api' # Nil /\ api'.del /\ marked' = api.uid

\* Only Remove marks a pod.
LEMMA Marks ==
  ASSUME TypeOK, TypeOK', [Next]_vars
  PROVE  MarkMoves
<1>0. api # Nil => api \in Pod
  BY DEF TypeOK, OptPod
<1>1. ASSUME UNCHANGED <<api, marked>> PROVE MarkMoves
  BY <1>1, Zenon DEF MarkMoves
<1>2. ASSUME NEW st, NEW u, StoreStatus(u, st), UNCHANGED marked PROVE MarkMoves
  <2>1. CASE UNCHANGED api
    BY <1>1, <1>2, <2>1, Zenon
  <2>2. CASE api # Nil /\ api' = [api EXCEPT !.status = st]
    <3>1. [api EXCEPT !.status = st].del = api.del
      BY <1>0, <2>2, PodFields, ZenonT(60)
    <3> QED
      BY <1>2, <2>2, <3>1, Zenon DEF MarkMoves
  <2> QED
    BY <1>2, <2>1, <2>2, Zenon DEF StoreStatus, Store
<1>3. ASSUME NEW atOnce, Remove(atOnce) PROVE MarkMoves
  <2>1. CASE api' = Nil /\ UNCHANGED marked
    BY <2>1, Zenon DEF MarkMoves
  <2>2. CASE api # Nil /\ api' = [api EXCEPT !.del = TRUE] /\ marked' = api.uid
    <3>1. [api EXCEPT !.del = TRUE].del
      BY <1>0, <2>2, PodFields, Zenon
    <3>2. [api EXCEPT !.del = TRUE] \in Pod
      BY <1>0, <2>2, PodUpdates, Zenon
    <3>3. [api EXCEPT !.del = TRUE] # Nil
      BY <3>2, PodFields, Zenon
    <3> QED
      BY <2>2, <3>1, <3>3, Zenon DEF MarkMoves
  <2> QED
    BY <1>1, <1>3, <2>1, <2>2, Zenon DEF Remove, Store
<1>4. ASSUME NEW why, Dies(why) PROVE MarkMoves
  BY <1>1, <1>4, Zenon DEF Dies
<1>5. CASE User
  <2>1. CASE UserCreate
    <3>1. PICK v \in 1 .. MaxSpec :
            Store([uid |-> uids + 1, spec |-> v, del |-> FALSE, status |-> NewStatus])
      BY <2>1, Creates
    <3>2. ~api'.del
      BY ONLY <3>1, SMT DEF Store
    <3> QED
      BY <2>1, <3>2, Zenon DEF UserCreate, MarkMoves
  <2>2. CASE UserUpdate
    <3>1. api # Nil /\ api' = [api EXCEPT !.spec = @ + 1]
      BY <2>2, Zenon DEF UserUpdate, Store
    <3>2. [api EXCEPT !.spec = @ + 1].del = api.del
      BY <1>0, <3>1, PodFields, ZenonT(60)
    <3> QED
      BY <2>2, <3>1, <3>2, Zenon DEF UserUpdate, MarkMoves
  <2>3. ASSUME NEW atOnce \in BOOLEAN, UserDelete(atOnce) PROVE MarkMoves
    BY <1>3, <2>3, Zenon DEF UserDelete
  <2> QED
    BY <1>5, <2>1, <2>2, <2>3, Zenon DEF User
<1>6. CASE Informer
  BY <1>1, <1>6, Zenon DEF Informer, Observe, Relist, Resync, ByInformer, bounds
<1>7. CASE EventHandler
  BY <1>1, <1>4, <1>7, ZenonT(60) DEF EventHandler, AddFunc, DeleteFunc, UpdateFunc, ByHandler, bounds
<1>8. ASSUME NEW q \in Queues, Ripen(q) PROVE MarkMoves
  BY <1>1, <1>8, Zenon DEF Ripen, informer, bounds
<1>9. CASE Sync
  <2>1. UNCHANGED marked
    BY <1>9, ZenonT(60) DEF Sync, SyncRead, SyncOrphan, SyncForceDelete, SyncLoad, SyncDelete, SyncTerminal, SyncCreate,
                        SyncUpdate, SyncNothingToDo, SyncNoEnvironment, SyncProviderError, BySync
  <2>2. CASE SyncProviderError
    BY <1>2, <2>1, <2>2, Zenon DEF SyncProviderError
  <2>3. CASE ~SyncProviderError
    BY <1>1, <1>9, <2>1, <2>3, ZenonT(60)
    DEF Sync, SyncRead, SyncOrphan, SyncForceDelete, SyncLoad, SyncDelete, SyncTerminal, SyncCreate,
        SyncUpdate, SyncNothingToDo, SyncNoEnvironment
  <2> QED
    BY <2>2, <2>3, Zenon
<1>10. CASE Delete
  BY <1>1, <1>3, <1>10, Zenon DEF Delete, DeleteRead, DeleteRemove
<1>11. CASE StatusSync
  BY <1>1, <1>2, <1>3, <1>4, <1>11, ZenonT(60)
  DEF StatusSync, StatusRead, StatusNothingToDo, StatusPanics, StatusCompare, StatusRemove, StatusWrite
<1>12. CASE Notifier
  BY <1>1, <1>12, Zenon DEF Notifier, NotifyLoad, NotifyStore, NotifyDrop, ByNotifier, informer, bounds
<1>13. CASE Provider
  BY <1>1, <1>13, Zenon DEF Provider, ProviderChange, ProviderEvict, informer, bounds
<1>14. CASE Run
  BY <1>1, <1>14, ZenonT(60) DEF Run, Boot, CacheSync, AddEventHandler, DanglingList, DanglingDelete, ByRun
<1>15. CASE Crash
  BY <1>4, <1>15, Zenon DEF Crash
<1>16. CASE UNCHANGED vars
  BY <1>1, <1>16, ZenonT(60) DEF vars
<1> QED
  BY <1>5, <1>6, <1>7, <1>8, <1>9, <1>10, <1>11, <1>12, <1>13, <1>14, <1>15, <1>16, ZenonT(60) DEF Next

\* Every step keeps the marks.
LEMMA MarkStep ==
  ASSUME TypeOK, TypeOK', Locals, VersionInv, MarkInv, [Next]_vars
  PROVE  MarkInv'
<1>0. UidInv /\ StartInv
  BY Zenon DEF VersionInv
<1>1. ApiMoves
  <2>1. UNCHANGED <<api, uids>> => ApiMoves
    BY Zenon DEF ApiMoves
  <2> QED
    BY <1>0, <2>1, Kinds, Zenon DEF Writes, Observes, Lists, Reads, Falls, Works
<1>2. MarkMoves
  BY Marks, Zenon
<1>3. uids \in Nat /\ marked \in Nat /\ (api # Nil => api.uid = uids /\ api.uid # 0)
  <2>1. uids \in 0 .. MaxUid /\ marked \in 0 .. MaxUid /\ api \in OptPod
    BY Zenon DEF TypeOK
  <2>2. uids \in Nat /\ marked \in Nat
    BY ONLY <2>1, Bounds, SMT
  <2> QED
    BY <1>0, <2>1, <2>2, Versions, Zenon DEF UidInv
<1>4. marked <= uids /\ (api # Nil /\ marked = api.uid => api.del)
  BY Zenon DEF MarkInv
<1>5. (marked <= uids)'
  BY ONLY <1>1, <1>2, <1>3, <1>4, SMT DEF ApiMoves, MarkMoves
<1>6. ASSUME api' # Nil, marked' = api'.uid PROVE api'.del
  <2>1. CASE api # Nil /\ api'.del
    BY <2>1
  <2>2. CASE UNCHANGED marked
    <3>1. ~(api = Nil /\ uids' = uids + 1 /\ api'.uid = uids')
      BY ONLY <1>3, <1>4, <1>6, <2>2, SMT
    <3> QED
      BY <1>1, <1>4, <1>6, <2>2, <3>1, Zenon DEF ApiMoves
  <2> QED
    BY <1>2, <2>1, <2>2, Zenon DEF MarkMoves
<1>7. ASSUME marked' = 0 PROVE Copies(Unmarked)' /\ ~Asked'
  <2>1. marked = 0 /\ (api' # Nil /\ api'.del => api # Nil /\ api.del)
    BY <1>2, <1>3, <1>7, Zenon DEF MarkMoves
  <2>2. Copies(Unmarked) /\ ~Asked
    BY <2>1, Zenon DEF MarkInv
  <2>3. api' \in Unmarked /\ Nil \in Unmarked
    <3>1. api \in Unmarked /\ api' \in OptPod
      BY <2>2, Zenon DEF Copies, Later, TypeOK
    <3> QED
      BY <2>1, <3>1, Zenon DEF Unmarked, OptPod
  <2>4. Unmarked' = Unmarked
    BY Zenon DEF Unmarked, OptPod, Pod
  <2>5. Copies(Unmarked)'
    BY <1>0, <2>2, <2>3, CopiesStay, Zenon
  <2>6. ASSUME Asked' PROVE FALSE
    <3>1. sync.pod # Nil /\ sync.pod.del /\ (sync.at = "read" \/ Loaded)
      BY <2>2, <2>6, Asks, Zenon
    <3>2. sync.at # "idle"
      BY ONLY <3>1, SMT DEF Loaded
    <3> QED
      BY <2>2, <3>1, <3>2, Zenon DEF Copies, Unmarked
  <2> QED
    BY <2>5, <2>6, Zenon
<1> QED
  BY <1>5, <1>6, <1>7, Zenon DEF MarkInv

\* The deletion worker removes a pod from the API server only when that pod was
\* marked for deletion, or an earlier one: Delete is by name, and a request that
\* an earlier pod has left in the queue removes the next one.
THEOREM MarkedPodsRemovedOnly == Spec => OnlyMarkedPodsRemoved
<1>1. Init => MarkInv
  <2> SUFFICES ASSUME Init PROVE MarkInv
    OBVIOUS
  <2>1. api = Nil /\ cache = Nil /\ sync.at = "idle" /\ marked <= uids /\ ~Asked
    BY SMTT(40) DEF Init, Asked, IdleSync
  <2>2. DOMAIN watch = {}
    BY SMTT(40) DEF Init
  <2>3. Nil \in Unmarked
    BY Zenon DEF Unmarked, OptPod
  <2> QED
    BY <2>1, <2>2, <2>3, Zenon DEF MarkInv, Copies, Later
<1>2. MarkInv /\ IInv /\ VersionInv /\ IInv' /\ [Next]_vars => MarkInv'
  <2> SUFFICES ASSUME MarkInv, IInv, VersionInv, IInv', [Next]_vars PROVE MarkInv'
    OBVIOUS
  <2>1. TypeOK /\ TypeOK' /\ Locals
    BY Zenon DEF IInv
  <2> QED
    BY <2>1, MarkStep, Zenon
<1>3. MarkInv /\ IInv /\ VersionInv
        => [DeleteRemove /\ api # Nil /\ api' = Nil
              => api.del \/ (marked # 0 /\ marked < api.uid)]_vars
  <2> SUFFICES ASSUME MarkInv, IInv, VersionInv, DeleteRemove, api # Nil, ~api.del
               PROVE  marked # 0 /\ marked < api.uid
    BY Zenon
  <2>1. Asked /\ api.uid = uids /\ uids \in 0 .. MaxUid /\ marked \in 0 .. MaxUid
    BY Zenon DEF Asked, DeleteRemove, VersionInv, UidInv, IInv, TypeOK
  <2>2. marked # 0 /\ marked <= uids /\ marked # api.uid
    BY <2>1, Zenon DEF MarkInv
  <2> QED
    BY ONLY <2>1, <2>2, Bounds, SMT
<1> QED
  BY <1>1, <1>2, <1>3, VersionsInOrder, PTL DEF Spec, OnlyMarkedPodsRemoved
-----------------------------------------------------------------------------
(* Failed pods and skipped syncs, until the name is used for a second pod or *)
(* a call fails.  What is over for the API server's pod stays over in the        *)
(* versions that come later, and what the provider has reported last is      *)
(* over in everything that was reported later.                               *)

\* The pod is gone or marked for deletion; it has failed; it is not to run.
Ended(p) == p = Nil \/ p.del
Over(p) == p # Nil /\ Terminal(p.status)
EndedPods == {p \in OptPod : Ended(p)}
RestPods == {p \in OptPod : Ended(p) \/ Over(p)}

\* A set S of versions that the API server's pod does not leave: once a sync,
\* the cache or the watch has a version in S, so do the ones after it.  A cache
\* or a sync without a pod counts as a version only after there was one.
Order(S) ==
  /\ uids = 0 => watch = <<>>
  /\ \A i \in DOMAIN watch : watch[i] \in S =>
       api \in S /\ \A j \in DOMAIN watch : i < j => watch[j] \in S
  /\ Watching /\ cache \in S /\ (cache # Nil \/ prov # Nil \/ sync.pod # Nil) => Later(S)
  /\ sync.at # "idle" /\ sync.pod \in S /\ (sync.pod # Nil \/ prov # Nil) => cache \in S /\ Later(S)
  /\ up = "dangling" => prov = Nil \/ cache \in S

\* There was a pod, and everybody has a version of it in S.
All(S) == uids # 0 /\ Copies(S)

\* Before the first pod is created nobody has one, and a second one is not.
LEMMA OnePod ==
  ASSUME uids' <= 1, TypeOK, TypeOK', VersionInv
  PROVE  /\ uids = 0 => prov = Nil /\ sync.pod = Nil /\ cache = Nil /\ api = Nil
         /\ uids # 0 => uids' # uids + 1
<1>0. uids \in Nat /\ uids' \in Nat
  <2>1. uids \in 0 .. MaxUid /\ uids' \in 0 .. MaxUid
    BY Zenon DEF TypeOK
  <2> QED
    BY ONLY <2>1, Bounds, SMT
<1>1. Created(prov) /\ Created(sync.pod) /\ Created(cache) /\ (api # Nil => api.uid = uids)
  BY Zenon DEF VersionInv, LineInv, Line, UidInv
<1>2. prov \in OptPod /\ sync.pod \in OptPod /\ cache \in OptPod /\ api \in OptPod
  <2>1. sync \in SyncState
    BY Zenon DEF TypeOK
  <2>2. sync.pod \in OptPod
    BY ONLY <2>1, SMT DEF SyncState
  <2> QED
    BY <2>2, Zenon DEF TypeOK
<1>3. ASSUME uids = 0, NEW p \in OptPod, p # Nil, p.uid <= uids PROVE FALSE
  <2>1. p.uid \in Nat /\ p.uid # 0
    BY <1>3, Versions, Zenon
  <2> QED
    BY ONLY <1>3, <2>1, SMT
<1>4. uids = 0 => uids <= uids
  BY ONLY SMT
<1>5. uids = 0 => prov = Nil /\ sync.pod = Nil /\ cache = Nil /\ api = Nil
  BY <1>1, <1>2, <1>3, <1>4, ZenonT(60) DEF Created
<1>6. uids # 0 => uids' # uids + 1
  BY ONLY <1>0, uids' <= 1, SMT
<1> QED
  BY <1>5, <1>6

\* The versions of S stay behind the others.
LEMMA OrderStep ==
  ASSUME uids' <= 1, TypeOK, TypeOK', Locals, VersionInv, [Next]_vars,
         NEW S, Nil \in S, uids # 0 /\ api \in S => api' \in S, Order(S)
  PROVE  Order(S)'
<1>0. StartInv /\ watch \in Seq(OptPod) /\ api' \in OptPod
  BY Zenon DEF VersionInv, TypeOK
<1>1. /\ uids = 0 => prov = Nil /\ sync.pod = Nil /\ cache = Nil /\ api = Nil
      /\ uids # 0 => uids' # uids + 1
  BY OnePod, Zenon
<1>2. PICK w, s, c, p : w = watch /\ s = sync.pod /\ c = cache /\ p = prov
  BY Zenon
<1>3. /\ uids = 0 => w = <<>>
      /\ \A i \in DOMAIN w : w[i] \in S =>
           api \in S /\ \A j \in DOMAIN w : i < j => w[j] \in S
      /\ Watching /\ c \in S /\ (c # Nil \/ p # Nil \/ s # Nil)
           => api \in S /\ \A j \in DOMAIN w : w[j] \in S
      /\ sync.at # "idle" /\ s \in S /\ (s # Nil \/ p # Nil)
           => c \in S /\ api \in S /\ \A j \in DOMAIN w : w[j] \in S
      /\ up = "dangling" => p = Nil \/ c \in S
  BY <1>2, ZenonT(60) DEF Order, Later
<1>4. DOMAIN <<>> = {} /\ IdleSync.at = "idle" /\ IdleSync.pod = Nil
  BY SMT DEF IdleSync
<1>5. ASSUME Writes PROVE Order(S)'
  <2>1. /\ prov' = p /\ cache' = c /\ up' = up /\ (Watching <=> Watching')
        /\ (sync' = sync \/ (sync'.at = "idle" /\ sync'.pod = Nil))
    BY <1>2, <1>4, <1>5, Zenon DEF Writes, Watching
  <2>2. uids # 0 => uids' # 0 /\ uids' = uids
    BY <1>1, <1>5, Zenon DEF Writes, ApiMoves
  <2>3. PICK v : v = watch'
    BY Zenon
  <2>4. \/ v = w
        \/ \E n : /\ DOMAIN v = DOMAIN w \cup {n} /\ v[n] = api' /\ ~(n < n)
                  /\ \A i \in DOMAIN w : v[i] = w[i] /\ ~(n < i)
    <3>1. CASE watch' = watch
      BY <1>2, <2>3, <3>1, Zenon
    <3>2. CASE watch' = Append(watch, api')
      <4>1. PICK a : a = api'
        BY Zenon
      <4>2. v = Append(w, a) /\ w \in Seq(OptPod) /\ a \in OptPod
        BY <1>0, <1>2, <2>3, <3>2, <4>1, Zenon
      <4>3. PICK n : n = Len(w) + 1
        BY ZenonT(60)
      <4>4. /\ DOMAIN v = DOMAIN w \cup {n} /\ v[n] = a /\ ~(n < n)
            /\ \A i \in DOMAIN w : v[i] = w[i] /\ ~(n < i)
        BY ONLY <4>2, <4>3, AppendDomain, SMTT(40)
      <4> QED
        BY <4>1, <4>4, Zenon
    <3> QED
      BY <1>5, <3>1, <3>2, Zenon DEF Writes, Delivers
  <2>5. ASSUME uids # 0, api \in S, \A j \in DOMAIN w : w[j] \in S
        PROVE  Later(S)'
    BY <2>3, <2>4, <2>5, Zenon DEF Later
  <2>6. uids' = 0 => watch' = <<>>
    <3> SUFFICES ASSUME uids' = 0 PROVE watch' = <<>>
      OBVIOUS
    <3>1. uids = 0 /\ w = <<>> /\ api = Nil
      BY <1>1, <1>3, <2>2, Zenon
    <3>2. api' = Nil
      <4>1. uids' # uids + 1
        BY ONLY <3>1, uids' = 0, SMT
      <4> QED
        BY <1>5, <3>1, <4>1, Zenon DEF Writes, ApiMoves
    <3> QED
      BY <1>2, <1>5, <3>1, <3>2, ZenonT(60) DEF Writes, Delivers
  <2>7. \A i \in DOMAIN watch' : watch'[i] \in S =>
          api' \in S /\ \A j \in DOMAIN watch' : i < j => watch'[j] \in S
    <3>1. CASE v = w
      BY <1>3, <1>4, <2>3, <3>1, Zenon
    <3>2. ASSUME NEW n, DOMAIN v = DOMAIN w \cup {n}, v[n] = api', ~(n < n),
                 \A i \in DOMAIN w : v[i] = w[i] /\ ~(n < i)
          PROVE  \A i \in DOMAIN v : v[i] \in S =>
                   api' \in S /\ \A j \in DOMAIN v : i < j => v[j] \in S
      <4>1. ASSUME NEW i \in DOMAIN w, w[i] \in S
            PROVE  api' \in S /\ \A j \in DOMAIN v : i < j => v[j] \in S
        <5>1. uids # 0 /\ api \in S /\ \A j \in DOMAIN w : i < j => w[j] \in S
          BY <1>3, <1>4, <4>1, Zenon
        <5> QED
          BY <3>2, <5>1, Zenon
      <4>2. \A j \in DOMAIN v : ~(n < j)
        BY <3>2, Zenon
      <4> QED
        BY <3>2, <4>1, <4>2, Zenon
    <3> QED
      BY <2>3, <2>4, <3>1, <3>2, Zenon
  <2>8. Watching' /\ cache' \in S /\ (cache' # Nil \/ prov' # Nil \/ sync'.pod # Nil) => Later(S)'
    BY <1>1, <1>2, <1>3, <2>1, <2>5, Zenon
  <2>9. sync'.at # "idle" /\ sync'.pod \in S /\ (sync'.pod # Nil \/ prov' # Nil) => cache' \in S /\ Later(S)'
    BY <1>1, <1>2, <1>3, <2>1, <2>5, Zenon
  <2>10. up' = "dangling" => prov' = Nil \/ cache' \in S
    BY <1>3, <2>1, Zenon
  <2> QED
    BY <2>6, <2>7, <2>8, <2>9, <2>10, Zenon DEF Order
<1>6. ASSUME Observes PROVE Order(S)'
  <2>1. /\ w # <<>> /\ cache' = Head(w) /\ watch' = Tail(w) /\ prov' = p /\ sync' = sync /\ up' = up
        /\ api' = api /\ uids' = uids /\ Watching
    BY <1>2, <1>6, Zenon DEF Observes
  <2>2. /\ 1 \in DOMAIN w /\ Head(w) = w[1]
        /\ \A i \in DOMAIN Tail(w) : i + 1 \in DOMAIN w /\ 1 < i + 1 /\ Tail(w)[i] = w[i + 1]
        /\ \A i, j \in DOMAIN Tail(w) : i < j => i + 1 < j + 1
    BY <1>0, <1>2, <2>1, TailDomain, Zenon
  <2>3. uids' # 0
    BY <1>3, <2>1, Zenon
  <2>4. ASSUME api \in S, \A j \in DOMAIN w : w[j] \in S PROVE Later(S)' /\ cache' \in S
    BY <2>1, <2>2, <2>4, Zenon DEF Later
  <2>5. cache' \in S => Later(S)'
    BY <1>3, <2>1, <2>2, Zenon DEF Later
  <2>6. \A i \in DOMAIN watch' : watch'[i] \in S =>
          api' \in S /\ \A j \in DOMAIN watch' : i < j => watch'[j] \in S
    BY <1>3, <2>1, <2>2, ZenonT(60)
  <2>7. sync'.at # "idle" /\ sync'.pod \in S /\ (sync'.pod # Nil \/ prov' # Nil) => cache' \in S /\ Later(S)'
    BY <1>2, <1>3, <2>1, <2>4, Zenon
  <2>8. up' = "dangling" => prov' = Nil \/ cache' \in S
    BY <1>3, <2>1, <2>4, Zenon
  <2> QED
    BY <2>3, <2>5, <2>6, <2>7, <2>8, Zenon DEF Order
<1>7. ASSUME Lists PROVE Order(S)'
  <2>1. cache' = api /\ watch' = <<>> /\ prov' = p /\ sync' = sync /\ api' = api /\ DOMAIN watch' = {}
    BY <1>2, <1>4, <1>7, Zenon DEF Lists
  <2>2. api \in S => Later(S)' /\ cache' \in S
    BY <2>1, Zenon DEF Later
  <2>3. up' = "dangling" => up = "dangling" /\ Watching
    <3>1. up' # up => up' = "synced"
      BY <1>7, Zenon DEF Lists
    <3> QED
      BY ONLY <3>1, SMT DEF Watching
  <2>4. sync'.at # "idle" /\ sync'.pod \in S /\ (sync'.pod # Nil \/ prov' # Nil) => cache' \in S /\ Later(S)'
    BY <1>2, <1>3, <2>1, <2>2, Zenon
  <2>5. up' = "dangling" => prov' = Nil \/ cache' \in S
    BY <1>3, <2>1, <2>2, <2>3, Zenon
  <2> QED
    BY <2>1, <2>2, <2>4, <2>5, Zenon DEF Order
<1>8. ASSUME Reads PROVE Order(S)'
  <2>1. /\ sync'.pod = c /\ cache' = c /\ watch' = w /\ prov' = p /\ up' = up /\ up = "up"
        /\ api' = api /\ uids' = uids
    BY <1>2, <1>8, ZenonT(60) DEF Reads
  <2>2. Watching /\ Watching' /\ up' # "dangling"
    BY <2>1, SMT DEF Watching
  <2>3. c \in S /\ (c # Nil \/ p # Nil) => Later(S)'
    BY <1>3, <2>1, <2>2, Zenon DEF Later
  <2> QED
    BY <1>3, <2>1, <2>2, <2>3, Zenon DEF Order
<1>9. ASSUME Falls PROVE Order(S)'
  <2>1. up' = "down" /\ watch' = <<>> /\ DOMAIN watch' = {} /\ sync'.at = "idle"
    BY <1>4, <1>9, Zenon DEF Falls
  <2>2. ~Watching' /\ up' # "dangling"
    BY <2>1, SMT DEF Watching
  <2> QED
    BY <2>1, <2>2, Zenon DEF Order
<1>10. ASSUME Works PROVE Order(S)'
  <2>1. /\ cache' = c /\ watch' = w /\ api' = api /\ uids' = uids /\ (Watching <=> Watching')
        /\ \/ sync'.at = "idle" /\ sync'.pod \in {Nil, s}
           \/ sync'.at # "idle" /\ sync.at # "idle" /\ sync'.pod = s
    BY <1>2, <1>10, Zenon DEF Works
  <2>2. Loaded => s # Nil /\ up # "dangling"
    <3>1. Loaded => sync.at # "idle"
      BY SMT DEF Loaded
    <3>2. up = "dangling" => up # "up"
      BY ONLY SMT
    <3> QED
      BY <1>0, <1>2, <3>1, <3>2, ZenonT(60) DEF Loaded, Locals, StartInv
  <2>3. prov' # Nil => p # Nil \/ (Loaded /\ s # Nil)
    BY <1>2, <1>10, <2>2, Zenon DEF Works, ProviderMoves
  <2>4. Later(S) => Later(S)'
    BY <1>2, <2>1, Zenon DEF Later
  <2>5. Watching' /\ cache' \in S /\ (cache' # Nil \/ prov' # Nil \/ sync'.pod # Nil) => Later(S)'
    BY <1>2, <1>3, <2>1, <2>3, <2>4, Zenon DEF Later
  <2>6. sync'.at # "idle" /\ sync'.pod \in S /\ (sync'.pod # Nil \/ prov' # Nil) => cache' \in S /\ Later(S)'
    BY <1>2, <1>3, <2>1, <2>3, <2>4, Zenon DEF Later
  <2>7. up' = "dangling" => prov' = Nil \/ cache' \in S
    BY <1>2, <1>3, <1>10, <2>1, <2>2, <2>3, ZenonT(60) DEF Works
  <2> QED
    BY <1>3, <2>1, <2>5, <2>6, <2>7, Zenon DEF Order
<1> QED
  BY <1>0, <1>5, <1>6, <1>7, <1>8, <1>9, <1>10, Kinds, ZenonT(60)

\* What everybody has in S stays in S.
LEMMA AllStays ==
  ASSUME uids' <= 1, TypeOK, TypeOK', Locals, VersionInv, [Next]_vars,
         NEW S, Nil \in S, uids # 0 /\ api \in S => api' \in S, All(S)
  PROVE  All(S)'
<1>1. uids # 0 /\ api \in S /\ StartInv
  BY Zenon DEF All, Copies, Later, VersionInv
<1>2. uids' = uids
  <2>1. UNCHANGED uids \/ uids' = uids + 1
    BY <1>1, Kinds, Zenon DEF Writes, ApiMoves, Observes, Lists, Reads, Falls, Works
  <2> QED
    BY <1>1, <2>1, OnePod, Zenon
<1>3. Copies(S)'
  BY <1>1, CopiesStay, Zenon DEF All
<1> QED
  BY <1>1, <1>2, <1>3, Zenon DEF All

\* The API server's pod does not leave the pods that have ended.
LEMMA EndedStays ==
  ASSUME uids' <= 1, TypeOK, TypeOK', Locals, VersionInv, [Next]_vars, uids # 0, api \in EndedPods
  PROVE  api' \in EndedPods
<1>1. ApiMoves
  <2>1. UNCHANGED <<api, uids>> => ApiMoves
    BY Zenon DEF ApiMoves
  <2> QED
    BY <2>1, Kinds, Zenon DEF VersionInv, Writes, Observes, Lists, Reads, Falls, Works
<1>2. uids' # uids + 1
  BY OnePod, Zenon
<1>3. Ended(api) /\ api' \in OptPod
  BY Zenon DEF EndedPods, TypeOK
<1>4. Ended(api')
  BY <1>1, <1>2, <1>3, Zenon DEF Ended, ApiMoves
<1> QED
  BY <1>3, <1>4, Zenon DEF EndedPods

\* The pod has ended for everybody.
Doomed == All(EndedPods)

\* A pod is stopped in the provider when it has ended for everybody.
LEMMA Dooms ==
  ASSUME uids' <= 1, TypeOK, TypeOK', Locals, VersionInv, [Next]_vars, Order(EndedPods),
         ProviderPodGone
  PROVE  Doomed'
<1>0. prov # Nil /\ prov' = Nil /\ StartInv
  BY Zenon DEF ProviderPodGone, VersionInv
<1>1. uids # 0
  BY <1>0, OnePod, Zenon
<1>2. Nil \in EndedPods
  BY Zenon DEF EndedPods, OptPod, Ended
<1>3. sync.pod \in OptPod
  <2>1. sync \in SyncState
    BY Zenon DEF TypeOK
  <2> QED
    BY ONLY <2>1, SMT DEF SyncState
<1>4. Works /\ ProviderMoves
  BY <1>0, Kinds, ZenonT(60) DEF Writes, Observes, Lists, Reads, Falls, Works
<1>5. cache \in EndedPods /\ Later(EndedPods) /\ (sync'.at # "idle" => sync'.pod \in EndedPods)
  <2>1. ASSUME sync.at # "idle", sync.pod \in EndedPods
        PROVE  cache \in EndedPods /\ Later(EndedPods) /\ (sync'.at # "idle" => sync'.pod \in EndedPods)
    BY <1>0, <1>4, <2>1, Zenon DEF Order, Works
  <2>2. CASE up = "dangling"
    <3>1. Watching /\ up # "up"
      BY <2>2, SMT DEF Watching
    <3>2. cache \in EndedPods /\ Later(EndedPods)
      BY <1>0, <2>2, <3>1, Zenon DEF Order
    <3> QED
      BY <1>0, <1>4, <3>1, <3>2, Zenon DEF Works, StartInv
  <2>3. CASE sync.at = "read" /\ sync.pod = Nil
    <3>1. sync.at # "idle"
      BY ONLY <2>3, SMT
    <3> QED
      BY <1>2, <2>1, <2>3, <3>1, Zenon
  <2>4. CASE Loaded /\ sync.pod.del
    <3>1. sync.at # "idle"
      BY ONLY <2>4, SMT DEF Loaded
    <3> QED
      BY <1>3, <2>1, <2>4, <3>1, Zenon DEF EndedPods, Ended
  <2> QED
    BY <1>0, <1>4, <2>2, <2>3, <2>4, Zenon DEF ProviderMoves
<1> QED
  BY <1>1, <1>4, <1>5, Zenon DEF Doomed, All, Copies, Later, Works

\* What the entry of knownPods has from the provider, and what lastPodUsed is.
Latest == IF known = Nil THEN Nil ELSE known.last
Used == IF known = Nil THEN Nil ELSE known.used

\* The provider passes p to the callback.
Passes(p) == inbox' = Append(inbox, p)

\* The status of the provider's pod and what is reported of it: the status
\* stays, the pod runs on and changes it, the pod is created or it is stopped.
ReportMoves ==
  \/ /\ IF prov = Nil THEN prov' = Nil ELSE prov' # Nil /\ prov'.status = prov.status
     /\ \/ inbox' \in {inbox, <<>>}
        \/ inbox # <<>> /\ inbox' = Tail(inbox)
        \/ prov' # Nil /\ Passes(prov')
  \/ prov # Nil /\ ~Over(prov) /\ prov' # Nil /\ (inbox' = inbox \/ Passes(prov'))
  \/ prov = Nil /\ Desired /\ prov' # Nil /\ ~Over(prov') /\ Passes(prov')
  \/ prov # Nil /\ prov' = Nil /\ \E p \in Pod : Over(p) /\ Passes(p)

\* The way of a report: the callback stores it, the status handler takes it and
\* writes its status to the API server.
RelayMoves ==
  /\ \/ Latest' \in {Nil, Latest}
     \/ inbox # <<>> /\ Latest' = Head(inbox) /\ inbox' = Tail(inbox)
  /\ status'.from \in {Nil, status.from, Latest}
  /\ \/ api' = Nil
     \/ api = Nil /\ ~Over(api')
     \/ api # Nil /\ api'.status = api.status
     \/ status.from # Nil /\ api' # Nil /\ api'.status = status.from.status

\* lastPodUsed: forgotten, kept with the provider's pod, set to a marked pod, to
\* the one the provider has, or to one that has failed.
UsedMoves ==
  \/ Used' = Nil
  \/ Used' = Used /\ (prov # Nil /\ prov' # Nil => prov'.spec = prov.spec)
  \/ Used'.del
  \/ prov' # Nil /\ prov'.spec = Used'.spec
  \/ Loaded /\ Over(sync.pod) /\ sync'.at = "idle" /\ UNCHANGED <<api, uids, watch, cache>>

Moves == ReportMoves /\ RelayMoves /\ UsedMoves

\* The fields of a pod that another status, mark or version leaves alone.
LEMMA OtherFields ==
  ASSUME NEW p \in Pod
  PROVE  /\ \A st : [p EXCEPT !.status = st].status = st /\ [p EXCEPT !.status = st].spec = p.spec
         /\ [p EXCEPT !.del = TRUE].status = p.status /\ [p EXCEPT !.del = TRUE].spec = p.spec
         /\ [p EXCEPT !.spec = @ + 1].status = p.status
         /\ Effective(p).del = p.del /\ Effective(p).spec = p.spec
<1>1. /\ \A st : [p EXCEPT !.status = st].status = st /\ [p EXCEPT !.status = st].spec = p.spec
      /\ [p EXCEPT !.del = TRUE].status = p.status /\ [p EXCEPT !.del = TRUE].spec = p.spec
      /\ [p EXCEPT !.spec = @ + 1].status = p.status
  BY Zenon DEF Pod
<1>2. Effective(p).del = p.del /\ Effective(p).spec = p.spec
  BY ZenonT(60) DEF Effective
<1> QED
  BY <1>1, <1>2

\* The phases.
LEMMA PhasesDiffer ==
  /\ ~Terminal(NewStatus) /\ Terminal(FailedStatus)
  BY SMT DEF Terminal, NewStatus, FailedStatus

\* What the writes of the API server do to the status of its pod.
LEMMA StatusWrites ==
  ASSUME TypeOK, \E atOnce : Remove(atOnce)
  PROVE  api' = Nil \/ (api # Nil /\ api'.status = api.status)
<1>1. api # Nil => api \in Pod
  BY Zenon DEF TypeOK, OptPod
<1>2. api' = Nil \/ api' = api \/ (api # Nil /\ api' = [api EXCEPT !.del = TRUE])
  BY Zenon DEF Remove, Store
<1>3. api # Nil => [api EXCEPT !.del = TRUE].status = api.status
  BY <1>1, OtherFields, Zenon
<1> QED
  BY <1>2, <1>3, Zenon

\* No call has failed so far.
LEMMA NoFaults ==
  ASSUME TypeOK, faults' = 0
  PROVE  ~Fault
<1>1. faults \in 0 .. MaxFaults
  BY Zenon DEF TypeOK
<1> QED
  BY ONLY <1>1, faults' = 0, SMT DEF Fault

\* DeletePod reports the pod once more.
LEMMA DeleteReports ==
  ASSUME TypeOK, ProviderDeletePod
  PROVE  ReportMoves /\ (UNCHANGED prov \/ prov' = Nil)
<1>1. CASE prov = Nil
  BY <1>1, Zenon DEF ProviderDeletePod, ReportMoves
<1>2. CASE prov # Nil
  <2>1. PICK p : p = [prov EXCEPT !.status = FailedStatus]
    BY Zenon
  <2>2. prov' = Nil /\ Passes(p)
    BY <1>2, <2>1, Zenon DEF ProviderDeletePod, Sends, Passes
  <2>3. p \in Pod /\ p # Nil /\ p.status = FailedStatus
    <3>1. prov \in Pod /\ FailedStatus \in Status
      BY <1>2, Statuses, ZenonT(60) DEF TypeOK, OptPod
    <3>2. [prov EXCEPT !.status = FailedStatus] \in Pod
      BY <3>1, PodUpdates, Zenon
    <3>3. [prov EXCEPT !.status = FailedStatus].status = FailedStatus
      BY <3>1, OtherFields, Zenon
    <3>4. p \in Pod
      BY <2>1, <3>2, Zenon
    <3> QED
      BY <2>1, <3>3, <3>4, PodFields, ZenonT(60)
  <2>4. Over(p)
    BY <2>3, PhasesDiffer, Zenon DEF Over
  <2> QED
    BY <1>2, <2>2, <2>3, <2>4, Zenon DEF ReportMoves
<1> QED
  BY <1>1, <1>2

\* A sync and the status of pods.
LEMMA SyncMoves ==
  ASSUME TypeOK, TypeOK', Locals, faults' = 0, Sync
  PROVE  Moves
<1>0. ~Fault /\ BySync
  BY NoFaults, Zenon DEF Sync, SyncRead, SyncOrphan, SyncForceDelete, SyncLoad, SyncDelete, SyncTerminal, SyncCreate,
               SyncUpdate, SyncNothingToDo, SyncNoEnvironment, SyncProviderError
<1>1. (Loaded => sync.pod \in Pod /\ sync.pod # Nil) /\ (prov # Nil => prov \in Pod) /\ (known # Nil => known \in KnownPod)
  <2>1. sync \in SyncState /\ prov \in OptPod
    BY Zenon DEF TypeOK
  <2>2. sync.pod \in OptPod
    BY ONLY <2>1, SMT DEF SyncState
  <2> QED
    BY <2>1, <2>2, Versions, ZenonT(60) DEF Loaded, Locals, TypeOK
<1>2. UNCHANGED known => Latest' = Latest /\ Used' = Used
  BY Zenon DEF Latest, Used
<1>3. UNCHANGED <<prov, inbox>> => ReportMoves
  BY Zenon DEF ReportMoves
<1>4. ASSUME Latest' \in {Nil, Latest}, UNCHANGED api PROVE RelayMoves
  <2>1. UNCHANGED status
    BY <1>0, Zenon DEF BySync
  <2> QED
    BY <1>4, <2>1, Zenon DEF RelayMoves
<1>5. UNCHANGED <<known, prov>> => UsedMoves
  BY <1>2, Zenon DEF UsedMoves
<1>6. CASE SyncRead \/ SyncForceDelete \/ SyncLoad
  <2>1. UNCHANGED <<known, prov, inbox, api>>
    BY <1>6, Zenon DEF SyncRead, SyncForceDelete, SyncLoad
  <2> QED
    BY <1>2, <1>3, <1>4, <1>5, <2>1, Zenon DEF Moves
<1>7. ASSUME ProviderDeletePod PROVE ReportMoves /\ (UNCHANGED prov \/ prov' = Nil)
  BY <1>7, DeleteReports, ZenonT(60)
<1>8. ASSUME SetLastPodUsed, Loaded
      PROVE  /\ Latest' = Latest
             /\ (UNCHANGED known \/ (Used'.del = sync.pod.del /\ Used'.spec = sync.pod.spec))
  <2>1. CASE sync.at = "current"
    <3>1. known # Nil /\ known' = [known EXCEPT !.used = Effective(sync.pod)]
      BY <1>8, <2>1, Zenon DEF SetLastPodUsed, Locals
    <3>2. known' # Nil /\ known'.used = Effective(sync.pod) /\ known'.last = known.last
      <4>1. known \in KnownPod /\ Effective(sync.pod) \in UsedPod
        BY <1>1, <1>8, <3>1, PodUpdates, Zenon
      <4>2. known' \in KnownPod
        BY <3>1, <4>1, Entries, Zenon
      <4>3. known' # Nil
        BY <4>2, PodControllerAssumption, Zenon
      <4>4. known'.used = Effective(sync.pod) /\ known'.last = known.last
        BY <3>1, <4>1, Zenon DEF KnownPod
      <4> QED
        BY <4>3, <4>4
    <3> QED
      BY <1>1, <1>8, <3>1, <3>2, OtherFields, ZenonT(60) DEF Latest, Used
  <2>2. CASE sync.at # "current"
    BY <1>2, <1>8, <2>2, Zenon DEF SetLastPodUsed
  <2> QED
    BY <2>1, <2>2
<1>9. CASE SyncOrphan
  <2>1. ProviderDeletePod /\ UNCHANGED <<known, api>>
    BY <1>0, <1>9, Zenon DEF SyncOrphan
  <2>2. UsedMoves
    BY <1>2, <1>7, <2>1, Zenon DEF UsedMoves
  <2> QED
    BY <1>2, <1>4, <1>7, <2>1, <2>2, Zenon DEF Moves
<1>10. CASE SyncDelete
  <2>1. ProviderDeletePod /\ SetLastPodUsed /\ Loaded /\ sync.pod.del /\ UNCHANGED api
    BY <1>0, <1>10, Zenon DEF SyncDelete
  <2>2. UsedMoves
    <3>1. CASE UNCHANGED known
      BY <1>2, <1>7, <2>1, <3>1, Zenon DEF UsedMoves
    <3> QED
      BY <1>8, <2>1, <3>1, Zenon DEF UsedMoves
  <2> QED
    BY <1>4, <1>7, <1>8, <2>1, <2>2, Zenon DEF Moves
<1>11. CASE SyncTerminal
  <2>1. /\ SetLastPodUsed /\ Loaded /\ Terminal(sync.pod.status) /\ sync' = IdleSync
        /\ UNCHANGED <<api, watch, prov, inbox, cache, uids>>
    BY <1>0, <1>11, Zenon DEF SyncTerminal, Returns, BySync
  <2>2. sync'.at = "idle" /\ Over(sync.pod)
    <3>1. IdleSync.at = "idle"
      BY SMT DEF IdleSync
    <3> QED
      BY <1>1, <2>1, <3>1, ZenonT(60) DEF Over
  <2> QED
    BY <1>3, <1>4, <1>8, <2>1, <2>2, Zenon DEF Moves, UsedMoves
<1>12. CASE SyncCreate
  <2>1. prov = Nil /\ Desired /\ Loaded /\ SetLastPodUsed /\ ProviderCreatePod(sync.pod) /\ UNCHANGED api
    BY <1>0, <1>12, Zenon DEF SyncCreate, Desired
  <2>2. PICK p : p = [sync.pod EXCEPT !.status = NewStatus]
    BY Zenon
  <2>3. prov' = p /\ Passes(p)
    BY <2>1, <2>2, Zenon DEF ProviderCreatePod, Sends, Passes
  <2>4. p # Nil /\ ~Over(p) /\ p.spec = sync.pod.spec
    <3>1. p \in Pod /\ p.status = NewStatus /\ p.spec = sync.pod.spec
      BY <1>1, <2>1, <2>2, Statuses, PodUpdates, OtherFields, ZenonT(60)
    <3> QED
      BY <3>1, PodFields, PhasesDiffer, Zenon DEF Over
  <2>5. ReportMoves
    BY <2>1, <2>3, <2>4, Zenon DEF ReportMoves
  <2>6. UsedMoves
    BY <1>2, <1>8, <2>1, <2>3, <2>4, Zenon DEF UsedMoves
  <2> QED
    BY <1>4, <1>8, <2>1, <2>5, <2>6, Zenon DEF Moves
<1>13. CASE SyncUpdate
  <2>1. prov # Nil /\ Loaded /\ ProviderUpdatePod(sync.pod) /\ known' = NewKnownPod /\ UNCHANGED api
    BY <1>13, Zenon DEF SyncUpdate, Desired, SetKnown
  <2>2. PICK p : p = [sync.pod EXCEPT !.status = prov.status]
    BY Zenon
  <2>3. prov' = p /\ inbox' = inbox
    BY <2>1, <2>2, Zenon DEF ProviderUpdatePod
  <2>4. p # Nil /\ p.status = prov.status
    <3>1. prov.status \in Status
      BY <1>1, <2>1, PodUpdates, Zenon
    <3>2. p \in Pod /\ p.status = prov.status
      BY <1>1, <2>1, <2>2, <3>1, PodUpdates, OtherFields, ZenonT(60)
    <3> QED
      BY <3>2, PodFields, Zenon
  <2>5. Latest' = Nil /\ Used' = Nil
    BY <2>1, Zenon DEF Latest, Used, NewKnownPod
  <2>6. ReportMoves
    BY <2>1, <2>3, <2>4, Zenon DEF ReportMoves
  <2> QED
    BY <1>4, <2>1, <2>5, <2>6, Zenon DEF Moves, UsedMoves
<1>14. CASE SyncNothingToDo
  <2>1. SetLastPodUsed /\ Loaded /\ prov # Nil /\ prov.spec = sync.pod.spec /\ UNCHANGED <<api, prov, inbox>>
    BY <1>14, Zenon DEF SyncNothingToDo, Desired, Provided, podsEqual
  <2>2. UsedMoves
    BY <1>5, <1>8, <2>1, Zenon DEF UsedMoves
  <2> QED
    BY <1>3, <1>4, <1>8, <2>1, <2>2, Zenon DEF Moves
<1> QED
  BY <1>0, <1>6, <1>9, <1>10, <1>11, <1>12, <1>13, <1>14, ZenonT(60) DEF Sync, SyncNoEnvironment, SyncProviderError

\* Entries whose last pod, or whose mark of a skipped update, is set.
LEMMA EntryFields ==
  ASSUME NEW e \in KnownPod
  PROVE  /\ \A p \in Pod : LET f == [e EXCEPT !.last = p] IN f # Nil /\ f.last = p /\ f.used = e.used
         /\ \A b \in BOOLEAN : LET f == [e EXCEPT !.skip = b] IN f # Nil /\ f.last = e.last /\ f.used = e.used
<1>1. ASSUME NEW p \in Pod PROVE LET f == [e EXCEPT !.last = p] IN f # Nil /\ f.last = p /\ f.used = e.used
  <2>1. [e EXCEPT !.last = p] # Nil
    BY Entries, PodControllerAssumption, Zenon
  <2> QED
    BY <2>1, Zenon DEF KnownPod
<1>2. ASSUME NEW b \in BOOLEAN
      PROVE  LET f == [e EXCEPT !.skip = b] IN f # Nil /\ f.last = e.last /\ f.used = e.used
  <2>1. [e EXCEPT !.skip = b] # Nil
    BY Entries, PodControllerAssumption, Zenon
  <2> QED
    BY <2>1, Zenon DEF KnownPod
<1> QED
  BY <1>1, <1>2

\* The status handler and the reports.
LEMMA StatusMoves ==
  ASSUME TypeOK, TypeOK', Locals, faults' = 0, StatusSync, ~StatusPanics
  PROVE  Moves
<1>0. ~Fault /\ status \in StatusState /\ (known # Nil => known \in KnownPod)
  BY NoFaults, ZenonT(60) DEF TypeOK
<1>1. UNCHANGED <<prov, inbox>>
  BY Zenon DEF StatusSync, StatusRead, StatusNothingToDo, StatusCompare, StatusRemove, StatusWrite, ByStatus, provider
<1>2. ASSUME Latest' = Latest, Used' = Used, status'.from \in {Nil, status.from, Latest},
             \/ api' = Nil \/ api' = api
             \/ api # Nil /\ api'.status = api.status
             \/ status.from # Nil /\ api' # Nil /\ api'.status = status.from.status
      PROVE  Moves
  <2>1. ReportMoves /\ UsedMoves
    BY <1>1, <1>2, Zenon DEF ReportMoves, UsedMoves
  <2>2. RelayMoves
    BY <1>2, Zenon DEF RelayMoves
  <2> QED
    BY <2>1, <2>2, Zenon DEF Moves
<1>3. UNCHANGED known => Latest' = Latest /\ Used' = Used
  BY Zenon DEF Latest, Used
<1>4. IdleStatus.from = Nil
  BY SMT DEF IdleStatus
<1>5. CASE StatusRead
  <2>1. [status EXCEPT !.at = "read", !.pod = cache].from = status.from
    BY <1>0, Zenon DEF StatusState
  <2>2. status'.from = status.from
    BY <1>5, <2>1, Zenon DEF StatusRead
  <2> QED
    BY <1>2, <1>3, <1>5, <2>2, Zenon DEF StatusRead
<1>6. CASE StatusNothingToDo
  BY <1>2, <1>3, <1>4, <1>6, Zenon DEF StatusNothingToDo
<1>7. CASE StatusCompare
  <2>1. known # Nil /\ UNCHANGED api
    BY <1>7, Zenon DEF StatusCompare
  <2>2. PICK b \in BOOLEAN : known' = [known EXCEPT !.skip = b]
    BY <1>7, Zenon DEF StatusCompare
  <2>3. Latest' = Latest /\ Used' = Used
    BY <1>0, <2>1, <2>2, EntryFields, Zenon DEF Latest, Used
  <2>4. \A a : [status EXCEPT !.at = a, !.from = known.last].from = known.last
    BY <1>0, Zenon DEF StatusState
  <2>5. \/ status' = IdleStatus
        \/ status' = [status EXCEPT !.at = "remove", !.from = known.last]
        \/ status' = [status EXCEPT !.at = "write", !.from = known.last]
    BY <1>7, Zenon DEF StatusCompare
  <2>6. status'.from \in {Nil, status.from, Latest}
    BY <1>4, <2>1, <2>4, <2>5, Zenon DEF Latest
  <2> QED
    BY <1>2, <2>1, <2>3, <2>6, Zenon
<1>8. CASE StatusRemove
  <2>1. /\ \E atOnce : Remove(atOnce)
        /\ status' = [status EXCEPT !.at = "write"] /\ UNCHANGED known
    BY <1>0, <1>8, Zenon DEF StatusRemove
  <2>2. status'.from = status.from
    BY <1>0, <2>1, Zenon DEF StatusState
  <2>3. api' = Nil \/ (api # Nil /\ api'.status = api.status)
    BY <2>1, StatusWrites, Zenon
  <2> QED
    BY <1>2, <1>3, <2>1, <2>2, <2>3, Zenon
<1>9. CASE StatusWrite
  <2>1. status' = IdleStatus /\ UNCHANGED known /\ status.from # Nil
    BY <1>9, Zenon DEF StatusWrite, Locals
  <2>2. UNCHANGED api \/ (api # Nil /\ api' = [api EXCEPT !.status = status.from.status])
    BY <1>0, <1>9, Zenon DEF StatusWrite, StoreStatus, Store
  <2>3. ASSUME api # Nil, api' = [api EXCEPT !.status = status.from.status]
        PROVE  api' # Nil /\ api'.status = status.from.status
    <3>1. api \in Pod /\ status.from \in Pod
      <4>1. status.from \in OptPod
        BY ONLY <1>0, SMT DEF StatusState
      <4> QED
        BY <2>1, <2>3, <4>1, ZenonT(60) DEF TypeOK, OptPod
    <3>2. status.from.status \in Status
      BY <3>1, PodUpdates, Zenon
    <3>3. [api EXCEPT !.status = status.from.status] \in Pod
      BY <3>1, <3>2, PodUpdates, Zenon
    <3>4. [api EXCEPT !.status = status.from.status].status = status.from.status
      BY <3>1, OtherFields, ZenonT(60)
    <3> QED
      BY <2>3, <3>3, <3>4, PodFields, ZenonT(60)
  <2> QED
    BY <1>2, <1>3, <1>4, <2>1, <2>2, <2>3, ZenonT(60)
<1> QED
  BY <1>5, <1>6, <1>7, <1>8, <1>9, ZenonT(60) DEF StatusSync

\* The provider and the reports.
LEMMA ProviderReports ==
  ASSUME TypeOK, TypeOK', Provider
  PROVE  /\ prov # Nil /\ prov' # Nil /\ prov'.spec = prov.spec
         /\ \/ prov'.status = prov.status
            \/ ~Over(prov)
         /\ inbox' = inbox \/ Passes(prov')
<1>1. prov # Nil /\ prov \in Pod
  BY Zenon DEF Provider, ProviderChange, ProviderEvict, TypeOK, OptPod
<1>2. CASE ProviderChange
  <2>1. PICK st \in {RunningStatus, FailedStatus} : prov' = [prov EXCEPT !.status = st]
    BY <1>2, Zenon DEF ProviderChange
  <2>2. st \in Status
    BY Statuses, Zenon
  <2>3. prov' \in Pod /\ prov'.spec = prov.spec
    BY <1>1, <2>1, <2>2, PodUpdates, OtherFields, ZenonT(60)
  <2>4. ~Over(prov) /\ (inbox' = inbox \/ Passes(prov'))
    BY <1>2, Zenon DEF ProviderChange, Over, Sends, Passes
  <2> QED
    BY <1>1, <2>3, <2>4, PodFields, Zenon
<1>3. CASE ProviderEvict
  <2>1. prov' = [prov EXCEPT !.del = TRUE] /\ Passes(prov')
    BY <1>3, Zenon DEF ProviderEvict, Sends, Passes
  <2>2. prov' \in Pod /\ prov'.spec = prov.spec /\ prov'.status = prov.status
    BY <1>1, <2>1, PodUpdates, OtherFields, Zenon
  <2> QED
    BY <1>1, <2>1, <2>2, PodFields, ZenonT(60)
<1> QED
  BY <1>2, <1>3, Zenon DEF Provider

\* What every step does to the statuses and to lastPodUsed.
LEMMA StepMoves ==
  ASSUME TypeOK, TypeOK', Locals, faults' = 0, [Next]_vars
  PROVE  Moves
<1>0. ~Fault /\ (known # Nil => known \in KnownPod) /\ inbox \in Seq(Pod)
  BY NoFaults, ZenonT(60) DEF TypeOK
<1>1. UNCHANGED known => Latest' = Latest /\ Used' = Used
  BY Zenon DEF Latest, Used
<1>2. UNCHANGED <<prov, inbox>> => ReportMoves
  BY Zenon DEF ReportMoves
<1>3. ASSUME Latest' \in {Nil, Latest}, UNCHANGED <<api, status>> PROVE RelayMoves
  BY <1>3, Zenon DEF RelayMoves
<1>4. UNCHANGED prov /\ Used' \in {Nil, Used} => UsedMoves
  BY Zenon DEF UsedMoves
<1>5. ASSUME UNCHANGED <<api, known, status, prov, inbox>> PROVE Moves
  BY <1>1, <1>2, <1>3, <1>4, <1>5, Zenon DEF Moves
<1>6. ASSUME NEW why, Dies(why) PROVE Moves
  <2>1. /\ Latest' = Nil /\ Used' = Nil /\ status' = IdleStatus /\ UNCHANGED <<api, prov>> /\ inbox' = <<>>
    BY <1>6, ZenonT(60) DEF Dies, Latest, Used
  <2>2. IdleStatus.from = Nil
    BY SMT DEF IdleStatus
  <2>3. ReportMoves
    BY <2>1, Zenon DEF ReportMoves
  <2>4. RelayMoves /\ UsedMoves
    BY <2>1, <2>2, Zenon DEF RelayMoves, UsedMoves
  <2> QED
    BY <2>3, <2>4, Zenon DEF Moves
<1>7. CASE User
  <2>1. UNCHANGED <<known, status, prov, inbox>>
    BY <1>7, Zenon DEF User, UserCreate, UserUpdate, UserDelete, ByUser, handlers, provider
  <2>2. ASSUME \/ api' = Nil
               \/ api = Nil /\ ~Over(api')
               \/ api # Nil /\ api'.status = api.status
        PROVE  Moves
    <3>1. RelayMoves
      BY <1>1, <2>1, <2>2, Zenon DEF RelayMoves
    <3> QED
      BY <1>1, <1>2, <1>4, <2>1, <3>1, Zenon DEF Moves
  <2>3. CASE UserCreate
    <3>0. PICK v \in 1 .. MaxSpec :
            Store([uid |-> uids + 1, spec |-> v, del |-> FALSE, status |-> NewStatus])
      BY <2>3, Creates
    <3>1. api = Nil /\ api' = [uid |-> uids + 1, spec |-> v, del |-> FALSE, status |-> NewStatus]
      BY <2>3, <3>0, Zenon DEF UserCreate, Store
    <3>2. api'.status = NewStatus
      BY <3>1, Zenon
    <3> QED
      BY <2>2, <3>1, <3>2, PhasesDiffer, Zenon DEF Over
  <2>4. CASE UserUpdate
    <3>1. api # Nil /\ api' = [api EXCEPT !.spec = @ + 1]
      BY <2>4, Zenon DEF UserUpdate, Store
    <3>2. api \in Pod
      BY <3>1, ZenonT(60) DEF TypeOK, OptPod
    <3>3. [api EXCEPT !.spec = @ + 1].status = api.status
      BY <3>2, OtherFields, Zenon
    <3> QED
      BY <2>2, <3>1, <3>3, Zenon
  <2>5. CASE \E atOnce \in BOOLEAN : UserDelete(atOnce)
    <3>1. \E atOnce : Remove(atOnce)
      BY <2>5, Zenon DEF UserDelete
    <3> QED
      BY <2>2, <3>1, StatusWrites, Zenon
  <2> QED
    BY <1>7, <2>3, <2>4, <2>5, Zenon DEF User
<1>8. CASE Informer
  BY <1>5, <1>8, Zenon DEF Informer, Observe, Relist, Resync, ByInformer, handlers, provider
<1>9. CASE EventHandler
  <2>1. CASE AddFunc \/ DeleteFunc
    <3>1. known' \in {Nil, NewKnownPod} /\ UNCHANGED <<api, status, prov, inbox>>
      BY <2>1, Zenon DEF AddFunc, DeleteFunc, SetKnown, ByHandler, provider
    <3>2. Latest' = Nil /\ Used' = Nil
      <4>1. NewKnownPod.last = Nil /\ NewKnownPod.used = Nil
        BY Zenon DEF NewKnownPod
      <4> QED
        BY <3>1, <4>1, Zenon DEF Latest, Used
    <3> QED
      BY <1>2, <1>3, <1>4, <3>1, <3>2, ZenonT(60) DEF Moves
  <2>2. CASE UpdateFunc
    <3>1. CASE \E why : Dies(why)
      BY <1>6, <3>1
    <3>2. CASE UNCHANGED known /\ ByHandler
      BY <1>5, <3>2, Zenon DEF ByHandler, provider
    <3>3. CASE known # Nil /\ known' = [known EXCEPT !.skip = FALSE] /\ ByHandler
      <4>1. Latest' = Latest /\ Used' = Used
        BY <1>0, <3>3, EntryFields, Zenon DEF Latest, Used
      <4>2. UNCHANGED <<api, status, prov, inbox>>
        BY <3>3, Zenon DEF ByHandler, provider
      <4> QED
        BY <1>2, <1>3, <1>4, <4>1, <4>2, Zenon DEF Moves
    <3> QED
      BY <2>2, <3>1, <3>2, <3>3, ZenonT(60) DEF UpdateFunc
  <2> QED
    BY <1>9, <2>1, <2>2, Zenon DEF EventHandler
<1>10. ASSUME NEW q \in Queues, Ripen(q) PROVE Moves
  BY <1>5, <1>10, Zenon DEF Ripen, handlers, provider
<1>11. CASE Sync
  BY <1>11, SyncMoves, Zenon
<1>12. CASE Delete
  <2>1. CASE DeleteRead
    BY <1>5, <2>1, Zenon DEF DeleteRead, ByDelete, provider
  <2>2. CASE DeleteRemove
    <3>1. UNCHANGED <<known, status, prov, inbox>> /\ \E atOnce : Remove(atOnce)
      BY <1>0, <2>2, Zenon DEF DeleteRemove, ByDelete, provider
    <3>2. api' = Nil \/ (api # Nil /\ api'.status = api.status)
      BY <3>1, StatusWrites, Zenon
    <3>3. RelayMoves
      BY <1>1, <3>1, <3>2, Zenon DEF RelayMoves
    <3> QED
      BY <1>1, <1>2, <1>4, <3>1, <3>3, Zenon DEF Moves
  <2> QED
    BY <1>12, <2>1, <2>2, Zenon DEF Delete
<1>13. CASE StatusSync
  <2>1. CASE StatusPanics
    BY <1>6, <2>1, Zenon DEF StatusPanics
  <2> QED
    BY <1>13, <2>1, StatusMoves, Zenon
<1>14. CASE Notifier
  <2>1. UNCHANGED <<api, status, prov>>
    BY <1>14, Zenon DEF Notifier, NotifyLoad, NotifyStore, NotifyDrop, ByNotifier, handlers
  <2>2. inbox' = inbox \/ (inbox # <<>> /\ inbox' = Tail(inbox))
    BY <1>14, Zenon DEF Notifier, NotifyLoad, NotifyStore, NotifyDrop, Locals
  <2>3. ReportMoves
    BY <2>1, <2>2, Zenon DEF ReportMoves
  <2>4. CASE UNCHANGED known
    BY <1>1, <1>3, <1>4, <2>1, <2>3, <2>4, ZenonT(60) DEF Moves
  <2>5. CASE NotifyStore /\ noter = "current"
    <3>1. known # Nil /\ inbox # <<>> /\ inbox' = Tail(inbox) /\ known' = [known EXCEPT !.last = Head(inbox)]
      BY <2>5, Zenon DEF NotifyStore, Locals
    <3>2. Head(inbox) \in Pod
      BY <1>0, <3>1, HeadTailProperties, Zenon
    <3>3. Latest' = Head(inbox) /\ Used' = Used
      BY <1>0, <3>1, <3>2, EntryFields, Zenon DEF Latest, Used
    <3>4. RelayMoves
      BY <2>1, <3>1, <3>3, Zenon DEF RelayMoves
    <3> QED
      BY <1>4, <2>1, <2>3, <3>3, <3>4, ZenonT(60) DEF Moves
  <2> QED
    BY <1>14, <2>4, <2>5, Zenon DEF Notifier, NotifyLoad, NotifyStore, NotifyDrop
<1>15. CASE Provider
  <2>1. UNCHANGED <<api, known, status>>
    BY <1>15, Zenon DEF Provider, ProviderChange, ProviderEvict, handlers
  <2>2. /\ prov # Nil /\ prov' # Nil /\ prov'.spec = prov.spec
        /\ \/ prov'.status = prov.status
           \/ ~Over(prov)
        /\ inbox' = inbox \/ Passes(prov')
    BY <1>15, ProviderReports, Zenon
  <2>3. ReportMoves
    BY <2>2, Zenon DEF ReportMoves
  <2>4. UsedMoves
    BY <1>1, <2>1, <2>2, Zenon DEF UsedMoves
  <2> QED
    BY <1>1, <1>3, <2>1, <2>3, <2>4, Zenon DEF Moves
<1>16. CASE Run
  <2>1. UNCHANGED <<api, known, status>>
    BY <1>16, Zenon DEF Run, Boot, CacheSync, AddEventHandler, DanglingList, DanglingDelete, ByRun, handlers
  <2>2. CASE Boot
    <3>1. UNCHANGED prov /\ (UNCHANGED inbox \/ (prov # Nil /\ Passes(prov)))
      BY <2>2, Zenon DEF Boot, Sends, Passes
    <3>2. ReportMoves
      BY <3>1, Zenon DEF ReportMoves, Passes
    <3> QED
      BY <1>1, <1>3, <1>4, <2>1, <3>1, <3>2, ZenonT(60) DEF Moves
  <2>3. CASE CacheSync \/ AddEventHandler \/ DanglingList
    BY <1>5, <2>1, <2>3, Zenon DEF CacheSync, AddEventHandler, DanglingList
  <2>4. CASE DanglingDelete
    <3>1. ProviderDeletePod
      BY <1>0, <2>4, Zenon DEF DanglingDelete
    <3>2. ReportMoves /\ (UNCHANGED prov \/ prov' = Nil)
      BY <3>1, DeleteReports, Zenon
    <3>3. UsedMoves
      BY <1>1, <2>1, <3>2, Zenon DEF UsedMoves
    <3> QED
      BY <1>1, <1>3, <2>1, <3>2, <3>3, Zenon DEF Moves
  <2> QED
    BY <1>16, <2>2, <2>3, <2>4, Zenon DEF Run
<1>17. CASE Crash
  BY <1>6, <1>17, Zenon DEF Crash
<1>18. CASE UNCHANGED vars
  BY <1>5, <1>18, Zenon DEF vars
<1> QED
  BY <1>7, <1>8, <1>9, <1>10, <1>11, <1>12, <1>13, <1>14, <1>15, <1>16, <1>17, <1>18, ZenonT(60) DEF Next

\* The provider's pod has failed, or was stopped after it had ended.
Done == IF prov = Nil THEN Doomed ELSE Over(prov)

\* A failure that was reported is the last report: the reports behind it, the
\* ones stored before it and the status that is written are failures as well.
InboxOver == \A i \in DOMAIN inbox : Over(inbox[i])
StatusInv ==
  /\ \A i \in DOMAIN inbox : Over(inbox[i]) => Done
  /\ \A i, j \in DOMAIN inbox : i < j /\ Over(inbox[i]) => Over(inbox[j])
  /\ Over(Latest) => Done /\ InboxOver
  /\ Over(status.from) => Done /\ InboxOver /\ (Latest # Nil => Over(Latest))
  /\ Over(api) => /\ Done /\ InboxOver /\ (Latest # Nil => Over(Latest))
                  /\ status.from # Nil => Over(status.from)

\* Nothing but a failure is reported after the end.
LEMMA Reports ==
  ASSUME uids' <= 1, TypeOK, TypeOK', Locals, VersionInv, [Next]_vars, Order(EndedPods), ReportMoves
  PROVE  /\ Done => Done'
         /\ \/ inbox' \in {inbox, <<>>}
            \/ inbox # <<>> /\ inbox' = Tail(inbox)
            \/ \E p \in Pod : Passes(p) /\ (Done => Over(p)) /\ (Over(p) => Done')
<1>1. Doomed => Doomed'
  <2>1. Nil \in EndedPods
    BY Zenon DEF EndedPods, OptPod, Ended
  <2>2. uids # 0 /\ api \in EndedPods => api' \in EndedPods
    BY EndedStays, Zenon
  <2> QED
    BY <2>1, <2>2, AllStays, Zenon DEF Doomed
<1>2. prov' # Nil => prov' \in Pod /\ (Over(prov') => Done')
  BY Zenon DEF TypeOK, OptPod, Done
<1>3. CASE /\ IF prov = Nil THEN prov' = Nil ELSE prov' # Nil /\ prov'.status = prov.status
           /\ \/ inbox' \in {inbox, <<>>}
              \/ inbox # <<>> /\ inbox' = Tail(inbox)
              \/ prov' # Nil /\ Passes(prov')
  <2>1. Done => Done'
    BY <1>1, <1>3, Zenon DEF Done, Over
  <2>2. prov' # Nil => (Done => Over(prov'))
    BY <1>3, Zenon DEF Done, Over
  <2> QED
    BY <1>2, <1>3, <2>1, <2>2, Zenon
<1>4. CASE prov # Nil /\ ~Over(prov) /\ prov' # Nil /\ (inbox' = inbox \/ Passes(prov'))
  <2>1. ~Done
    BY <1>4, Zenon DEF Done
  <2> QED
    BY <1>2, <1>4, <2>1, Zenon
<1>5. CASE prov = Nil /\ Desired /\ prov' # Nil /\ ~Over(prov') /\ Passes(prov')
  <2>1. sync.at # "idle" /\ ~Ended(sync.pod)
    <3>1. sync.at # "idle"
      BY ONLY <1>5, SMT DEF Desired, Loaded
    <3>2. sync.pod # Nil
      BY <1>5, Zenon DEF Desired, Loaded, Locals
    <3> QED
      BY <1>5, <3>1, <3>2, Zenon DEF Desired, Ended
  <2>2. ~Done
    BY <1>5, <2>1, Zenon DEF Done, Doomed, All, Copies, EndedPods
  <2> QED
    BY <1>2, <1>5, <2>2, Zenon
<1>6. CASE prov # Nil /\ prov' = Nil /\ \E p \in Pod : Over(p) /\ Passes(p)
  <2>1. Doomed'
    BY <1>6, Dooms, Zenon DEF ProviderPodGone
  <2>2. Done'
    BY <1>6, <2>1, Zenon DEF Done
  <2> QED
    BY <1>6, <2>2, Zenon
<1> QED
  BY <1>3, <1>4, <1>5, <1>6, ZenonT(60) DEF ReportMoves

\* The reports in the order they were sent.
LEMMA InboxStep ==
  ASSUME uids' <= 1, TypeOK, TypeOK', Locals, VersionInv, [Next]_vars, Order(EndedPods), ReportMoves,
         StatusInv
  PROVE  /\ \A i \in DOMAIN inbox' : Over(inbox'[i]) => Done'
         /\ \A i, j \in DOMAIN inbox' : i < j /\ Over(inbox'[i]) => Over(inbox'[j])
         /\ Done /\ InboxOver => InboxOver'
         /\ inbox # <<>> /\ inbox' = Tail(inbox) =>
              /\ Over(Head(inbox)) => Done /\ InboxOver'
              /\ InboxOver => Over(Head(inbox))
<1>1. PICK s, t : s = inbox /\ t = inbox'
  BY Zenon
<1>2. /\ s \in Seq(Pod)
      /\ \A i \in DOMAIN s : Over(s[i]) => Done
      /\ \A i, j \in DOMAIN s : i < j /\ Over(s[i]) => Over(s[j])
  BY <1>1, ZenonT(60) DEF StatusInv, TypeOK
<1>3. /\ InboxOver <=> \A i \in DOMAIN s : Over(s[i])
      /\ InboxOver' <=> \A i \in DOMAIN t : Over(t[i])
  BY <1>1, Zenon DEF InboxOver
<1>4. /\ Done => Done'
      /\ \/ t \in {s, <<>>}
         \/ s # <<>> /\ t = Tail(s)
         \/ \E p \in Pod : (t = Append(s, p) \/ t = <<p>>) /\ (Done => Over(p)) /\ (Over(p) => Done')
  <2>1. /\ Done => Done'
        /\ \/ inbox' \in {inbox, <<>>}
           \/ inbox # <<>> /\ inbox' = Tail(inbox)
           \/ \E p \in Pod : Passes(p) /\ (Done => Over(p)) /\ (Over(p) => Done')
    BY Reports, Zenon
  <2> QED
    BY <1>1, <2>1, Zenon DEF Passes
<1> DEFINE Goal == /\ \A i \in DOMAIN t : Over(t[i]) => Done'
                   /\ \A i, j \in DOMAIN t : i < j /\ Over(t[i]) => Over(t[j])
                   /\ Done /\ (\A i \in DOMAIN s : Over(s[i])) => \A i \in DOMAIN t : Over(t[i])
<1>5. ASSUME t = s PROVE Goal
  BY <1>2, <1>4, <1>5, Zenon
<1>6. ASSUME t = <<>> PROVE Goal
  <2>1. DOMAIN t = {}
    BY ONLY <1>6, SMT
  <2> QED
    BY <2>1, Zenon
<1>7. ASSUME s # <<>>, t = Tail(s) PROVE Goal
  <2>1. \A i \in DOMAIN t : i + 1 \in DOMAIN s /\ t[i] = s[i + 1]
    BY <1>2, <1>7, TailDomain, Zenon
  <2>2. \A i, j \in DOMAIN t : i < j => i + 1 < j + 1
    BY <1>2, <1>7, TailDomain, ZenonT(60)
  <2> QED
    BY <1>2, <1>4, <2>1, <2>2, Zenon
<1>8. ASSUME NEW p \in Pod, t = Append(s, p), Done => Over(p), Over(p) => Done' PROVE Goal
  <2>1. PICK n : n = Len(s) + 1
    BY Zenon
  <2>2. s \in Seq(Pod) /\ p \in Pod /\ t = Append(s, p)
    BY <1>2, <1>8, ZenonT(60)
  <2>3. /\ DOMAIN t = DOMAIN s \cup {n} /\ t[n] = p /\ ~(n < n)
        /\ \A i \in DOMAIN s : t[i] = s[i] /\ ~(n < i)
    BY ONLY <2>1, <2>2, AppendDomain, SMTT(40)
  <2>4. \A i \in DOMAIN t : Over(t[i]) => Done'
    BY <1>2, <1>4, <1>8, <2>3, Zenon
  <2>5. ASSUME NEW i \in DOMAIN t, NEW j \in DOMAIN t, i < j, Over(t[i]) PROVE Over(t[j])
    <3>1. i \in DOMAIN s
      BY <2>3, <2>5, Zenon
    <3> QED
      BY <1>2, <1>8, <2>3, <2>5, <3>1, ZenonT(60)
  <2>6. Done /\ (\A i \in DOMAIN s : Over(s[i])) => \A i \in DOMAIN t : Over(t[i])
    BY <1>8, <2>3, Zenon
  <2> QED
    BY <2>4, <2>5, <2>6
<1>9. ASSUME NEW p \in Pod, t = <<p>>, Done => Over(p), Over(p) => Done' PROVE Goal
  <2>1. DOMAIN t = {1} /\ t[1] = p
    BY ONLY t = <<p>>, SMT
  <2>2. ~(1 < 1)
    BY ONLY SMT
  <2> QED
    BY <1>9, <2>1, <2>2, Zenon
<1>10. Goal
  <2> HIDE DEF Goal
  <2> QED
    BY <1>4, <1>5, <1>6, <1>7, <1>8, <1>9, ZenonT(60)
<1>11. ASSUME s # <<>>, t = Tail(s)
       PROVE  /\ Over(Head(s)) => Done /\ \A i \in DOMAIN t : Over(t[i])
              /\ (\A i \in DOMAIN s : Over(s[i])) => Over(Head(s))
  <2>1. /\ 1 \in DOMAIN s /\ Head(s) = s[1]
        /\ \A i \in DOMAIN t : i + 1 \in DOMAIN s /\ 1 < i + 1 /\ t[i] = s[i + 1]
    BY <1>2, <1>11, TailDomain, Zenon
  <2> QED
    BY <1>2, <2>1, Zenon
<1> QED
  BY <1>1, <1>3, <1>10, <1>11, Zenon

\* A report is stored and written in its order.
LEMMA StatusStep ==
  ASSUME uids' <= 1, faults' = 0, TypeOK, TypeOK', Locals, VersionInv, [Next]_vars, Order(EndedPods),
         StatusInv
  PROVE  StatusInv' /\ (Over(api) /\ api' # Nil => Over(api'))
<1>1. ReportMoves /\ RelayMoves
  BY StepMoves, Zenon DEF Moves
<1>2. Done => Done'
  BY <1>1, Reports, Zenon
<1>3. /\ \A i \in DOMAIN inbox' : Over(inbox'[i]) => Done'
      /\ \A i, j \in DOMAIN inbox' : i < j /\ Over(inbox'[i]) => Over(inbox'[j])
      /\ Done /\ InboxOver => InboxOver'
      /\ inbox # <<>> /\ inbox' = Tail(inbox) =>
           /\ Over(Head(inbox)) => Done /\ InboxOver'
           /\ InboxOver => Over(Head(inbox))
  BY <1>1, InboxStep, Zenon
<1>4. PICK l, f, a : l = Latest' /\ f = status'.from /\ a = api'
  BY Zenon
<1>5. /\ l \in {Nil, Latest} \/ (inbox # <<>> /\ l = Head(inbox) /\ inbox' = Tail(inbox))
      /\ f \in {Nil, status.from, Latest}
      /\ \/ a = Nil
         \/ api = Nil /\ ~Over(a)
         \/ api # Nil /\ a.status = api.status
         \/ status.from # Nil /\ a # Nil /\ a.status = status.from.status
  BY <1>1, <1>4, Zenon DEF RelayMoves
<1>6. ~Over(Nil)
  BY Zenon DEF Over
<1>7. /\ Over(Latest) => Done /\ InboxOver
      /\ Over(status.from) => Done /\ InboxOver /\ (Latest # Nil => Over(Latest))
      /\ Over(api) => /\ Done /\ InboxOver /\ (Latest # Nil => Over(Latest))
                      /\ status.from # Nil => Over(status.from)
  BY Zenon DEF StatusInv
<1>8. /\ Over(a) => Over(api) \/ Over(status.from)
      /\ Over(api) /\ a # Nil => Over(a)
  BY <1>5, <1>7, Zenon DEF Over
<1>9. Done /\ InboxOver /\ (Latest # Nil => Over(Latest)) => Done' /\ InboxOver' /\ (l # Nil => Over(l))
  BY <1>2, <1>3, <1>5, Zenon
<1>10. Over(l) => Done' /\ InboxOver'
  BY <1>2, <1>3, <1>5, <1>6, <1>7, ZenonT(60)
<1>11. Over(f) => Done' /\ InboxOver' /\ (l # Nil => Over(l))
  BY <1>5, <1>6, <1>7, <1>9, ZenonT(60)
<1>12. Over(a) => Done' /\ InboxOver' /\ (l # Nil => Over(l)) /\ (f # Nil => Over(f))
  BY <1>5, <1>7, <1>8, <1>9, Zenon
<1>13. StatusInv'
  BY <1>3, <1>4, <1>10, <1>11, <1>12, ZenonT(60) DEF StatusInv
<1> QED
  BY <1>4, <1>8, <1>13, Zenon

\* The API server's pod does not leave the pods that are not to run.
LEMMA RestStays ==
  ASSUME uids' <= 1, faults' = 0, TypeOK, TypeOK', Locals, VersionInv, [Next]_vars, Order(EndedPods),
         StatusInv, uids # 0, api \in RestPods
  PROVE  api' \in RestPods
<1>1. api' \in OptPod /\ api \in OptPod /\ (Ended(api) \/ Over(api))
  BY Zenon DEF TypeOK, RestPods
<1>2. CASE Ended(api)
  <2>1. api' \in EndedPods
    BY <1>1, <1>2, EndedStays, Zenon DEF EndedPods
  <2> QED
    BY <2>1, Zenon DEF EndedPods, RestPods
<1>3. CASE Over(api)
  <2>1. api' # Nil => Over(api')
    BY <1>3, StatusStep, Zenon
  <2> QED
    BY <1>1, <2>1, Zenon DEF RestPods, Ended
<1> QED
  BY <1>1, <1>2, <1>3

\* lastPodUsed is a pod that is to run only as long as the provider has it in
\* that version, or the pod is not to run any more for everybody.
UsedInv ==
  Used # Nil /\ ~Used.del => (prov # Nil /\ prov.spec = Used.spec) \/ All(RestPods)

\* What a sync remembers stays true.
LEMMA UsedStep ==
  ASSUME uids' <= 1, faults' = 0, TypeOK, TypeOK', Locals, VersionInv, [Next]_vars, Order(EndedPods),
         Order(RestPods), StatusInv, UsedInv
  PROVE  UsedInv'
<1>1. Nil \in RestPods /\ EndedPods \subseteq RestPods
  BY Zenon DEF RestPods, EndedPods, OptPod, Ended
<1>2. All(RestPods) => All(RestPods)'
  <2>1. uids # 0 /\ api \in RestPods => api' \in RestPods
    BY RestStays, Zenon
  <2> QED
    BY <1>1, <2>1, AllStays, Zenon
<1>3. ASSUME prov # Nil, prov' = Nil PROVE All(RestPods)'
  <2>1. All(EndedPods)'
    BY <1>3, Dooms, Zenon DEF ProviderPodGone, Doomed
  <2> QED
    BY <1>1, <2>1, Zenon DEF All, Copies, Later
<1>4. UsedMoves
  BY StepMoves, Zenon DEF Moves
<1>5. CASE Used' = Nil \/ Used'.del \/ (prov' # Nil /\ prov'.spec = Used'.spec)
  BY <1>5, Zenon DEF UsedInv
<1>6. CASE Used' = Used /\ (prov # Nil /\ prov' # Nil => prov'.spec = prov.spec)
  <2>1. CASE Used # Nil /\ ~Used.del /\ prov # Nil /\ prov.spec = Used.spec
    <3>1. CASE prov' = Nil
      BY <1>3, <2>1, <3>1, Zenon DEF UsedInv
    <3>2. CASE prov' # Nil
      BY <1>6, <2>1, <3>2, Zenon DEF UsedInv
    <3> QED
      BY <3>1, <3>2
  <2>2. CASE All(RestPods)
    BY <1>2, <2>2, Zenon DEF UsedInv
  <2>3. CASE Used = Nil \/ Used.del
    BY <1>6, <2>3, Zenon DEF UsedInv
  <2> QED
    BY <2>1, <2>2, <2>3, ZenonT(60) DEF UsedInv
<1>7. CASE Loaded /\ Over(sync.pod) /\ sync'.at = "idle" /\ UNCHANGED <<api, uids, watch, cache>>
  <2>1. sync.at # "idle" /\ sync.pod # Nil
    <3>1. sync.at # "idle"
      BY ONLY <1>7, SMT DEF Loaded
    <3> QED
      BY <1>7, <3>1, ZenonT(60) DEF Over
  <2>2. sync.pod \in RestPods
    <3>1. sync \in SyncState
      BY ZenonT(60) DEF TypeOK
    <3>2. sync.pod \in OptPod
      BY ONLY <3>1, SMT DEF SyncState
    <3> QED
      BY <1>7, <3>2, ZenonT(60) DEF RestPods
  <2>3. uids # 0
    BY <2>1, OnePod, Zenon
  <2>4. cache \in RestPods /\ Later(RestPods)
    BY <2>1, <2>2, Zenon DEF Order
  <2>5. All(RestPods)'
    BY <1>7, <2>3, <2>4, Zenon DEF All, Copies, Later
  <2> QED
    BY <2>5, Zenon DEF UsedInv
<1> QED
  BY <1>4, <1>5, <1>6, <1>7, Zenon DEF UsedMoves

\* The inductive invariant of a pod that ends and of the syncs it needs.
EndInv == Order(EndedPods) /\ Order(RestPods) /\ StatusInv /\ UsedInv

\* It holds before there is a pod.
LEMMA EndInit == Init => EndInv
<1> SUFFICES ASSUME Init PROVE EndInv
  OBVIOUS
<1>1. /\ api = Nil /\ watch = <<>> /\ inbox = <<>> /\ known = Nil /\ sync = IdleSync /\ status = IdleStatus
      /\ up = "down"
  BY Zenon DEF Init
<1>2. DOMAIN watch = {} /\ DOMAIN inbox = {}
  BY ONLY <1>1, SMTT(40)
<1>3. sync.at = "idle" /\ status.from = Nil /\ ~Watching /\ up # "dangling"
  BY ONLY <1>1, SMT DEF IdleSync, IdleStatus, Watching
<1>4. Latest = Nil /\ Used = Nil
  BY <1>1, Zenon DEF Latest, Used
<1>5. Order(EndedPods) /\ Order(RestPods)
  BY <1>1, <1>2, <1>3, Zenon DEF Order
<1>6. StatusInv /\ UsedInv
  BY <1>1, <1>2, <1>3, <1>4, Zenon DEF StatusInv, UsedInv, Over
<1> QED
  BY <1>5, <1>6, Zenon DEF EndInv

\* Every step keeps it, and a pod that has failed stays failed.
LEMMA EndStep ==
  ASSUME uids' <= 1, faults' = 0, IInv, IInv', VersionInv, EndInv, [Next]_vars
  PROVE  EndInv' /\ (Over(api) /\ api' # Nil => Over(api'))
<1>1. TypeOK /\ TypeOK' /\ Locals
  BY Zenon DEF IInv
<1>2. Order(EndedPods) /\ Order(RestPods) /\ StatusInv /\ UsedInv
  BY Zenon DEF EndInv
<1>3. Nil \in RestPods /\ Nil \in EndedPods
  BY Zenon DEF RestPods, EndedPods, OptPod, Ended
<1>4. Order(EndedPods)'
  <2>1. uids # 0 /\ api \in EndedPods => api' \in EndedPods
    BY <1>1, EndedStays, Zenon
  <2> QED
    BY <1>1, <1>2, <1>3, <2>1, OrderStep, ZenonT(60)
<1>5. Order(RestPods)'
  <2>1. uids # 0 /\ api \in RestPods => api' \in RestPods
    BY <1>1, <1>2, RestStays, Zenon
  <2> QED
    BY <1>1, <1>2, <1>3, <2>1, OrderStep, ZenonT(60)
<1>6. StatusInv' /\ (Over(api) /\ api' # Nil => Over(api'))
  BY <1>1, <1>2, StatusStep, Zenon
<1>7. UsedInv'
  BY <1>1, <1>2, UsedStep, Zenon
<1> QED
  BY <1>4, <1>5, <1>6, <1>7, Zenon DEF EndInv

\* A name that was used twice stays so, and so does a fault.
LEMMA Disturbs ==
  ASSUME TypeOK, TypeOK', Locals, StartInv, [Next]_vars, Undisturbed'
  PROVE  Undisturbed
<1>1. uids \in 0 .. MaxUid /\ faults \in 0 .. MaxFaults
  BY Zenon DEF TypeOK
<1>2. UNCHANGED uids \/ uids' = uids + 1
  BY Kinds, Zenon DEF Writes, ApiMoves, Observes, Lists, Reads, Falls, Works
<1>3. UNCHANGED faults \/ Fault
  <2>1. CASE User \/ Informer
    BY <2>1, ZenonT(60) DEF User, UserCreate, UserUpdate, UserDelete, ByUser,
                    Informer, Observe, Relist, Resync, ByInformer, bounds
  <2>2. CASE EventHandler \/ \E q \in Queues : Ripen(q)
    BY <2>2, ZenonT(60) DEF EventHandler, AddFunc, DeleteFunc, UpdateFunc, ByHandler, Dies, Ripen, bounds
  <2>3. CASE Sync
    BY <2>3, ZenonT(60) DEF Sync, SyncRead, SyncOrphan, SyncForceDelete, SyncLoad, SyncDelete, SyncTerminal, SyncCreate,
                        SyncUpdate, SyncNothingToDo, SyncNoEnvironment, SyncProviderError, NoFault
  <2>4. CASE Delete \/ StatusSync
    BY <2>4, ZenonT(60) DEF Delete, DeleteRead, DeleteRemove, StatusSync, StatusRead, StatusNothingToDo,
                        StatusPanics, StatusCompare, StatusRemove, StatusWrite, NoFault, Dies
  <2>5. CASE Notifier \/ Provider
    BY <2>5, ZenonT(60) DEF Notifier, NotifyLoad, NotifyStore, NotifyDrop, ByNotifier,
                        Provider, ProviderChange, ProviderEvict, bounds
  <2>6. CASE Run \/ Crash
    BY <2>6, ZenonT(60) DEF Run, Boot, CacheSync, AddEventHandler, DanglingList, DanglingDelete, NoFault,
                        Crash, Dies
  <2>7. CASE UNCHANGED vars
    BY <2>7, ZenonT(60) DEF vars
  <2> QED
    BY <2>1, <2>2, <2>3, <2>4, <2>5, <2>6, <2>7, ZenonT(60) DEF Next
<1> QED
  BY ONLY <1>1, <1>2, <1>3, Undisturbed', Bounds, SMT DEF Undisturbed, Fault

\* EndInv holds until a second pod of the name is created or a call fails.
LEMMA EndsUndisturbed == Spec => [](IInv /\ VersionInv /\ (Undisturbed => EndInv))
<1>1. (Undisturbed => EndInv) /\ IInv /\ VersionInv /\ IInv' /\ [Next]_vars
        => (Undisturbed => EndInv)'
  <2> SUFFICES ASSUME Undisturbed => EndInv, IInv, VersionInv, IInv', [Next]_vars, Undisturbed'
               PROVE  EndInv'
    OBVIOUS
  <2>1. TypeOK /\ TypeOK' /\ Locals /\ StartInv
    BY Zenon DEF IInv, VersionInv
  <2>2. EndInv
    BY <2>1, Disturbs, Zenon
  <2> QED
    BY <2>2, EndStep, Zenon DEF Undisturbed
<1> QED
  BY <1>1, EndInit, VersionsInOrder, PTL DEF Spec

\* The failure of a pod that the provider has reported is not overwritten by an
\* earlier report, although reports wait in the callback, in knownPods and in the
\* status handler, and UpdateStatus is unconditional: not before the name is used
\* for a second pod, to which a late report of the first is written, or a call
\* fails.  The bounds on pods, faults and crashes are arbitrary.
THEOREM FailedPodsStayFailed == Spec => FailedIsFinal
<1>1. (Undisturbed => EndInv) /\ IInv /\ VersionInv /\ IInv' /\ [Next]_vars
      => [Undisturbed' /\ api # Nil /\ api.status = FailedStatus /\ api' # Nil => Terminal(api'.status)]_vars
  <2> SUFFICES ASSUME Undisturbed => EndInv, IInv, VersionInv, IInv', [Next]_vars, Undisturbed',
                      api # Nil, api.status = FailedStatus, api' # Nil
               PROVE  Terminal(api'.status)
    BY Zenon
  <2>1. TypeOK /\ TypeOK' /\ Locals /\ StartInv
    BY Zenon DEF IInv, VersionInv
  <2>2. EndInv
    BY <2>1, Disturbs, Zenon
  <2>3. Over(api)
    BY PhasesDiffer, Zenon DEF Over
  <2> QED
    BY <2>2, <2>3, EndStep, Zenon DEF Over, Undisturbed
<1> QED
  BY <1>1, EndsUndisturbed, PTL DEF Spec, FailedIsFinal

\* A sync that syncPodInProvider skips, because lastPodUsed equals the pod, was
\* not needed: the provider has the pod in that version, however the updates of
\* the pod, evictions, failures, crashes and restarts interleave with the sync
\* that set lastPodUsed.  As for FailedPodsStayFailed this lasts until the name is
\* used again or a call fails: a Failed that is overwritten makes a pod runnable
\* that lastPodUsed already stands for.
THEOREM SkippedSyncsAreSound == Spec => []SkippedSyncIsSound
<1>1. (Undisturbed => EndInv) /\ IInv => SkippedSyncIsSound
  <2> SUFFICES ASSUME Undisturbed => EndInv, IInv, Undisturbed, known # Nil, cache # Nil,
                      known.used = Effective(cache), ~cache.del, ~Terminal(cache.status)
               PROVE  Provided(cache)
    BY Zenon DEF SkippedSyncIsSound
  <2>1. cache \in Pod
    BY Zenon DEF IInv, TypeOK, OptPod
  <2>2. Used = Effective(cache) /\ Used.del = cache.del /\ Used.spec = cache.spec
    BY <2>1, OtherFields, Zenon DEF Used
  <2>3. Used # Nil
    <3>1. Used \in UsedPod
      BY <2>1, <2>2, PodUpdates, Zenon
    <3> QED
      BY <3>1, PodControllerAssumption, Zenon
  <2>4. cache \notin RestPods
    BY Zenon DEF RestPods, Ended, Over
  <2>5. prov # Nil /\ prov.spec = Used.spec
    BY <2>2, <2>3, <2>4, Zenon DEF EndInv, UsedInv, All, Copies
  <2> QED
    BY <2>2, <2>5, Zenon DEF Provided, podsEqual
<1> QED
  BY <1>1, EndsUndisturbed, PTL
=============================================================================
