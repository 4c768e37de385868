------------------------ MODULE NodeControllerProofs ------------------------
(***************************************************************************)
(* Proofs about NodeController, for any number of pings, disruptions,      *)
(* conditions and retries: first what the loops of the ping and of the     *)
(* node do to each other, then their types, with the bounds on UIDs.       *)
(***************************************************************************)
EXTENDS NodeController, FiniteSetTheorems, TLAPS

-----------------------------------------------------------------------------
(* Pings                                                                   *)

\* The ping that runs is the one registered in the singleflight group.
PingInv ==
    /\ key \in Pings \cup {None}
    /\ pings = IF key = None THEN {} ELSE {key}

\* No ping runs when the process starts.
LEMMA InitPing == Init => PingInv
BY DEF Init, PingInit, PingInv

\* A check starts a ping only when none is registered, and a ping is removed
\* from the group when it returns, not when its check gives up.
LEMMA NextPing == PingInv /\ [Next]_vars => PingInv'
<1> SUFFICES ASSUME PingInv, [Next]_vars
             PROVE  PingInv'
    OBVIOUS
<1>1. CASE UNCHANGED pingVars
  BY <1>1 DEF PingInv, pingVars
<1>2. CASE Surroundings
  BY <1>2 DEF Surroundings, Stop, ProviderFails, ProviderRecovers, PingInv, pingVars
<1>3. CASE Checks
  <2>1. CASE StartCheck
    <3>1. CASE key = None
      <4> DEFINE p == CHOOSE q \in Pings : q \notin pings
      <4>1. p \in Pings
        BY <2>1, <3>1 DEF StartCheck, PingInv
      <4>2. pings' = pings \cup {p} /\ key' = p
        BY <2>1, <3>1 DEF StartCheck
      <4> QED
        BY <3>1, <4>1, <4>2, PingsAssumption DEF PingInv
    <3>2. CASE key # None
      BY <2>1, <3>2 DEF StartCheck, PingInv
    <3> QED
      BY <3>1, <3>2
  <2>2. CASE CheckTimesOut \/ CheckGetsResult
    BY <2>2 DEF CheckTimesOut, CheckGetsResult, Conclude, PingInv
  <2>3. CASE PingLoopReturns
    BY <2>3 DEF PingLoopReturns, PingInv
  <2> QED
    BY <1>3, <2>1, <2>2, <2>3 DEF Checks, CheckStep
<1>4. CASE Answers
  BY <1>4 DEF Answers, PingStep, PingReturns, PingInv
<1> QED
  BY <1>1, <1>2, <1>3, <1>4 DEF Next, Status, Leases, Collects, vars, pingVars

\* There is never more than one ping in flight, however many checks time out
\* while it hangs (node_ping_controller.go:57).
THEOREM OnePingInFlightThm == Spec => []OnePingInFlight
<1>1. PingInv => OnePingInFlight
  <2> SUFFICES ASSUME PingInv
               PROVE  Cardinality(pings) <= 1
      BY DEF OnePingInFlight
  <2>1. Cardinality({}) = 0 /\ Cardinality({key}) = 1
    BY FS_EmptySet, FS_Singleton, Zenon
  <2> QED
    BY <2>1 DEF PingInv
<1> QED
  BY <1>1, InitPing, NextPing, PTL DEF Spec

-----------------------------------------------------------------------------
(* The ping result                                                         *)

\* A subscription with news means that a result was stored.
ResultInv ==
    /\ value \in {"none", "ok", "err"}
    /\ news # {} => value # "none"
    /\ check.result \in {None, "ok", "err"}

\* There is no subscription at first.
LEMMA InitResult == Init => ResultInv
BY DEF Init, PingInit, Cond!Init, NoCheck, ResultInv

\* A subscription gets news only from Set, or when it begins after one.
LEMMA NextResult == ResultInv /\ [Next]_vars => ResultInv'
<1> SUFFICES ASSUME ResultInv, [Next]_vars
             PROVE  ResultInv'
    OBVIOUS
<1>1. ASSUME NEW s, Cond!Subscribe(s) \/ Cond!Drop(s), UNCHANGED check
      PROVE  ResultInv'
  BY <1>1 DEF Cond!Subscribe, Cond!Drop, ResultInv
<1>2. CASE UNCHANGED <<cellVars, check>>
  BY <1>2 DEF cellVars, ResultInv
<1>3. ASSUME NEW v \in {"ok", "err"}, Conclude(v)
      PROVE  ResultInv'
  BY <1>3 DEF Conclude, Cond!Set, NoCheck, ResultInv
<1>4. CASE Surroundings
  BY <1>2, <1>4 DEF Surroundings, Stop, ProviderFails, ProviderRecovers, NotifyNodeStatus,
     OtherUpdatesNode, NodeIsDeleted, OtherUpdatesLease, pingVars
<1>5. CASE Checks
  <2>1. CASE StartCheck
    BY <2>1 DEF StartCheck, cellVars, ResultInv
  <2>2. CASE CheckTimesOut
    BY <1>3, <2>2 DEF CheckTimesOut
  <2>3. CASE CheckGetsResult
    BY <1>3, <2>3 DEF CheckGetsResult, ResultInv
  <2>4. CASE PingLoopReturns
    BY <2>4 DEF PingLoopReturns, NoCheck, cellVars, ResultInv
  <2> QED
    BY <1>5, <2>1, <2>2, <2>3, <2>4 DEF Checks, CheckStep
<1>6. CASE Answers
  BY <1>6 DEF Answers, PingStep, PingReturns, cellVars, ResultInv
<1>7. CASE Status
  BY <1>1, <1>2, <1>7, Zenon DEF Status, StatusStep, EnsureNode, StatusGetsResult, GetNode, PatchNode,
     CreateNode, ErrorHandler, LoopTimer, LoopUpdate, LoopReturns, GetResult, pingVars
<1>8. CASE Leases
  BY <1>1, <1>2, <1>8, Zenon DEF Leases, LeaseStep, SyncBegins, SyncGetsResult, UpdateLease,
     EnsureLease, CreateLease, SyncLoopReturns, GetResult, pingVars
<1>9. CASE Collects
  BY <1>2, <1>9 DEF Collects, CollectLease, pingVars
<1> QED
  BY <1>2, <1>4, <1>5, <1>6, <1>7, <1>8, <1>9 DEF Next, vars, pingVars

\* A loop that reads the result without being woken by the context finds one.
LEMMA PanicStep ==
    ResultInv /\ [Next]_vars => (life # "panic" /\ life' = "panic" => life = "stopping")
<1> SUFFICES ASSUME ResultInv, [Next]_vars, life # "panic", life' = "panic"
             PROVE  life = "stopping"
    OBVIOUS
<1>1. ~ UNCHANGED life
  OBVIOUS
<1>2. ASSUME NEW notFound, Failed(notFound)
      PROVE  FALSE
  BY <1>1, <1>2 DEF Failed
<1>3. ~ Surroundings
  BY <1>1 DEF Surroundings, Stop, ProviderFails, ProviderRecovers, NotifyNodeStatus,
     OtherUpdatesNode, NodeIsDeleted, OtherUpdatesLease, envVars
<1>4. ~ (Checks \/ Answers \/ Collects)
  BY <1>1 DEF Checks, CheckStep, StartCheck, CheckTimesOut, CheckGetsResult, PingLoopReturns,
     Conclude, Answers, PingStep, PingReturns, Collects, CollectLease, envVars
<1>5. ASSUME Status
      PROVE  life = "stopping"
  <2>1. CASE StatusGetsResult
    BY <1>1, <1>2, <2>1, Zenon DEF StatusGetsResult, ResultReady, ResultInv
  <2>2. CASE GetNode \/ PatchNode
    BY <1>1, <1>2, <2>2, Zenon DEF GetNode, PatchNode, envVars
  <2>3. CASE CreateNode \/ ErrorHandler
    BY <1>1, <2>3 DEF CreateNode, ErrorHandler, envVars
  <2>4. CASE EnsureNode \/ LoopTimer \/ LoopUpdate \/ LoopReturns
    BY <1>1, <2>4 DEF EnsureNode, LoopTimer, LoopUpdate, LoopReturns, envVars
  <2> QED
    BY <1>5, <2>1, <2>2, <2>3, <2>4 DEF Status, StatusStep
<1>6. ASSUME Leases
      PROVE  life = "stopping"
  <2>1. CASE SyncGetsResult
    BY <1>1, <2>1 DEF SyncGetsResult, ResultReady, ResultInv
  <2>2. CASE UpdateLease
    BY <1>1, <2>2 DEF UpdateLease, LeaseUpdated, LeaseConflict, LeaseUpdateFails, envVars
  <2>3. CASE SyncBegins \/ EnsureLease \/ CreateLease \/ SyncLoopReturns
    BY <1>1, <2>3, Zenon DEF SyncBegins, EnsureLease, CreateLease, SyncLoopReturns, envVars
  <2> QED
    BY <1>6, <2>1, <2>2, <2>3 DEF Leases, LeaseStep
<1> QED
  BY <1>1, <1>3, <1>4, <1>5, <1>6 DEF Next, vars, envVars

\* The loops dereference a result that is nil at shutdown at most: before the
\* context is done, getResult has a result to return.
THEOREM PanicsOnlyAtShutdownThm == Spec => PanicsOnlyAtShutdown
BY InitResult, NextResult, PanicStep, PTL DEF Spec, PanicsOnlyAtShutdown

-----------------------------------------------------------------------------
(* The node object                                                         *)

NodeRecord == [uid : Nat, conds : SUBSET Conditions,
               applied : (SUBSET Ours) \cup {None}, born : SUBSET Ours]
LoopRecord(l) ==
    /\ l = [pc |-> l.pc, stage |-> l.stage, patch |-> l.patch]
    /\ l.patch \in [delete : SUBSET Ours, upsert : SUBSET Ours]

\* The strengthening of NothingLeftBehind.  Before the first patch of an object
\* only the conditions it was created with are ours.  A patch that waits to be
\* sent was made from the annotation the object still has, since nobody but
\* this loop writes the annotation or creates the node.
NodeInv ==
    /\ lastUid \in Nat
    /\ node # None => node \in NodeRecord
    /\ providerNode \subseteq Ours
    /\ chStatusUpdate # None => chStatusUpdate \subseteq Ours
    /\ LoopRecord(loop)
    /\ loop.pc = "patch" /\ node # None => loop.patch = ThreewayPatch(loop.patch.upsert, node)
    /\ node # None /\ node.applied = None => node.conds \cap Ours \subseteq node.born
    /\ NothingLeftBehind

\* A node left from an earlier run has the conditions that run applied.
LEMMA InitNode == Init => NodeInv
BY ConditionsAssumption DEF Init, StatusInit, NodeInv, NodeRecord, LoopRecord, At, NoPatch,
   NothingLeftBehind

\* The object after a patch that was made from its annotation.
LEMMA PatchedNode ==
  ASSUME NodeInv, node # None, loop.pc = "patch"
  PROVE  LET n == Patched(node, loop.patch) IN
         /\ n \in NodeRecord
         /\ n.uid = node.uid
         /\ n.applied # None
         /\ node.conds \ Ours \subseteq n.conds
         /\ n.conds \cap Ours \subseteq n.applied \cup n.born
<1> DEFINE n == Patched(node, loop.patch)
<1>1. node \in NodeRecord /\ loop.patch.upsert \subseteq Ours /\ loop.patch.delete \subseteq Ours
  BY DEF NodeInv, LoopRecord
<1>2. /\ n.uid = node.uid /\ n.born = node.born
      /\ n.conds = (node.conds \ loop.patch.delete) \cup loop.patch.upsert
      /\ n.applied = loop.patch.upsert
  BY <1>1 DEF Patched, NodeRecord
<1>3. n \in NodeRecord
  BY <1>1, ConditionsAssumption, Zenon DEF Patched, NodeRecord
<1>4. n.applied # None
  BY <1>1, <1>2, ConditionsAssumption
<1>5. node.conds \ Ours \subseteq n.conds
  BY <1>1, <1>2
<1>6. n.conds \cap Ours \subseteq n.applied \cup n.born
  <2>1. CASE node.applied = None
    BY <1>2, <2>1 DEF NodeInv
  <2>2. CASE node.applied # None
    <3>1. loop.patch.delete = node.applied \ loop.patch.upsert
      BY <2>2 DEF NodeInv, ThreewayPatch
    <3>2. node.conds \cap Ours \subseteq node.applied \cup node.born
      BY <2>2, SMTT(40) DEF NodeInv, NothingLeftBehind
    <3> QED
      BY <1>2, <3>1, <3>2
  <2> QED
    BY <2>1, <2>2
<1> QED
  BY <1>2, <1>3, <1>4, <1>5, <1>6

\* Every step keeps the invariant.
LEMMA NextNode == NodeInv /\ ResultInv /\ [Next]_vars => NodeInv'
<1> SUFFICES ASSUME NodeInv, ResultInv, [Next]_vars
             PROVE  NodeInv'
    OBVIOUS
<1> USE DEF NodeInv, NothingLeftBehind, ThreewayPatch
<1>1. CASE UNCHANGED <<node, lastUid, providerNode, chStatusUpdate, loop>>
  BY <1>1
<1>2. ASSUME UNCHANGED <<node, lastUid, providerNode, chStatusUpdate>>,
             LoopRecord(loop'), loop'.pc # "patch"
      PROVE  NodeInv'
  BY <1>2
<1>3. ASSUME CreateInServer, UNCHANGED <<providerNode, chStatusUpdate>>,
             LoopRecord(loop'), loop'.pc # "patch"
      PROVE  NodeInv'
  <2>1. /\ node' \in NodeRecord
        /\ node'.applied = None
        /\ node'.conds = node'.born
    <3>1. node' = [uid |-> lastUid + 1, conds |-> Initial, applied |-> None, born |-> Initial]
      BY <1>3 DEF CreateInServer, Created
    <3>2. lastUid + 1 \in Nat /\ Initial \in SUBSET Ours /\ Initial \in SUBSET Conditions
      BY ConditionsAssumption
    <3> QED
      BY ONLY <3>1, <3>2 DEF NodeRecord
  <2>2. lastUid' \in Nat
    BY <1>3 DEF CreateInServer
  <2> QED
    BY <1>3, <2>1, <2>2
<1>4. ASSUME NEW pc, NEW stage
      PROVE  LoopRecord(At(pc, stage)) /\ At(pc, stage).pc = pc
  BY DEF At, NoPatch, LoopRecord
<1>5. ASSUME NEW notFound \in BOOLEAN, Failed(notFound)
      PROVE  LoopRecord(loop') /\ loop'.pc # "patch"
  BY <1>4, <1>5, SMTT(40) DEF Failed
<1>6. CASE Surroundings
  <2>1. CASE NotifyNodeStatus
    BY <2>1 DEF NotifyNodeStatus, apiVars
  <2>2. CASE OtherUpdatesNode
    <3>1. /\ node # None /\ node' = [node EXCEPT !.conds = @ \cup (Conditions \ Ours)]
          /\ UNCHANGED <<lastUid, providerNode, chStatusUpdate, loop>>
      BY <2>2 DEF OtherUpdatesNode, wishVars
    <3>2. /\ node' \in NodeRecord
          /\ node'.applied = node.applied
          /\ node'.born = node.born
          /\ node'.conds \cap Ours = node.conds \cap Ours
      BY <3>1 DEF NodeRecord
    <3> QED
      BY <3>1, <3>2
  <2>3. CASE NodeIsDeleted
    BY <2>3, SMTT(40) DEF NodeIsDeleted, wishVars
  <2> QED
    BY <1>1, <1>6, <2>1, <2>2, <2>3 DEF Surroundings, statusVars, apiVars, wishVars
<1>7. CASE Status
  <2>1. CASE EnsureNode \/ LoopTimer \/ LoopReturns
    BY <1>2, <1>4, <2>1 DEF EnsureNode, LoopTimer, LoopReturns, apiVars, wishVars
  <2>2. CASE StatusGetsResult
    <3>1. LoopRecord(loop') /\ loop'.pc # "patch"
      <4>1. LoopRecord(At("get", loop.stage)) /\ At("get", loop.stage).pc = "get"
        BY <1>4
      <4>2. CASE Failed(FALSE)
        BY <1>5, <4>2, Zenon
      <4>3. CASE loop' = At("idle", "loop") \/ loop' = At("returned", "boot")
        BY <1>4, <4>3
      <4>4. CASE loop' = loop
        BY <2>2, <4>4 DEF StatusGetsResult
      <4> QED
        BY <2>2, <4>1, <4>2, <4>3, <4>4, Zenon DEF StatusGetsResult, ResultInv
    <3> QED
      BY <1>2, <2>2, <3>1 DEF StatusGetsResult, apiVars, wishVars
  <2>3. CASE GetNode
    <3>1. CASE /\ node # None
               /\ loop' = [loop EXCEPT !.pc = "patch",
                                       !.patch = ThreewayPatch(providerNode, node)]
      <4>1. UNCHANGED <<node, lastUid, providerNode, chStatusUpdate>>
        BY <2>3 DEF GetNode, apiVars, wishVars
      <4>2. ThreewayPatch(providerNode, node) \in [delete : SUBSET Ours, upsert : SUBSET Ours]
        <5>1. node.applied # None => node.applied \in SUBSET Ours
          BY <3>1 DEF NodeRecord
        <5> QED
          BY ONLY <5>1, NodeInv DEF NodeInv, ThreewayPatch
      <4>3. LoopRecord(loop') /\ loop'.patch = ThreewayPatch(providerNode, node)
        BY <3>1, <4>2, Zenon DEF LoopRecord
      <4> QED
        BY <4>1, <4>3
    <3>2. CASE LoopRecord(loop') /\ loop'.pc # "patch"
      BY <1>2, <2>3, <3>2 DEF GetNode, apiVars, wishVars
    <3> QED
      BY <1>5, <2>3, <3>1, <3>2, Zenon DEF GetNode
  <2>4. CASE PatchNode
    <3>1. UNCHANGED <<lastUid, providerNode, chStatusUpdate>>
      BY <2>4 DEF PatchNode, wishVars
    <3> LoopRecord(loop') /\ loop'.pc # "patch"
      <4>1. LoopRecord(At("get", loop.stage)) /\ At("get", loop.stage).pc = "get"
        BY <1>4
      <4>2. CASE Failed(TRUE) \/ Failed(FALSE)
        BY <1>5, <4>2, ZenonT(60)
      <4>3. CASE loop' = At("idle", "loop")
        BY <1>4, <4>3
      <4> QED
        BY <2>4, <4>1, <4>2, <4>3, Zenon DEF PatchNode
    <3>2. CASE UNCHANGED node
      BY <1>2, <3>1, <3>2
    <3>3. CASE node # None /\ node' = Patched(node, loop.patch)
      BY <2>4, <3>1, <3>3, PatchedNode DEF PatchNode
    <3> QED
      BY <2>4, <3>2, <3>3, Zenon DEF PatchNode
  <2>5. CASE CreateNode
    BY <1>2, <1>3, <1>4, <2>5, SMTT(40) DEF CreateNode, apiVars, wishVars
  <2>6. CASE ErrorHandler
    BY <1>2, <1>3, <1>4, <2>6, SMTT(40) DEF ErrorHandler, apiVars, wishVars
  <2>7. CASE LoopUpdate
    BY <1>4, <2>7 DEF LoopUpdate, apiVars
  <2> QED
    BY ONLY <1>7, <2>1, <2>2, <2>3, <2>4, <2>5, <2>6, <2>7, Zenon DEF Status, StatusStep
<1> QED
  BY <1>1, <1>6, <1>7 DEF Next, Checks, Answers, Leases, Collects, vars, statusVars, apiVars, wishVars

\* The conditions that the provider dropped are gone after the next patch, but
\* for those the object was created with.
THEOREM NothingLeftBehindThm == Spec => []NothingLeftBehind
<1>1. NodeInv => NothingLeftBehind
  BY SMTT(40) DEF NodeInv
<1> QED
  BY <1>1, InitNode, InitResult, NextNode, NextResult, PTL DEF Spec

\* A step changes the conditions of an object by adding those of others or by
\* a patch of ours.
LEMMA OthersStep ==
    NodeInv /\ [Next]_vars =>
      (node # None /\ node' # None /\ node'.uid = node.uid
         => node.conds \ Ours \subseteq node'.conds)
<1> SUFFICES ASSUME NodeInv, [Next]_vars, node # None
             PROVE  \/ node' = None
                    \/ node.conds \ Ours \subseteq node'.conds
    OBVIOUS
<1>1. CASE UNCHANGED node
  BY <1>1, SMTT(40)
<1>2. CASE Surroundings
  <2>1. CASE OtherUpdatesNode
    BY <2>1 DEF OtherUpdatesNode, NodeInv, NodeRecord
  <2> QED
    BY <1>1, <1>2, <2>1 DEF Surroundings, NotifyNodeStatus, NodeIsDeleted, statusVars, apiVars
<1>3. CASE Status
  <2>1. CASE PatchNode
    BY <1>1, <2>1, PatchedNode, Zenon DEF PatchNode
  <2> QED
    BY <1>1, <1>3, <2>1, Zenon DEF Status, StatusStep, EnsureNode, StatusGetsResult, GetNode,
       CreateNode, ErrorHandler, CreateInServer, LoopTimer, LoopUpdate, LoopReturns, apiVars
<1> QED
  BY <1>1, <1>2, <1>3 DEF Next, Checks, Answers, Leases, Collects, vars, statusVars, apiVars

\* No patch of this controller removes a condition another one has set,
\* however old the copy is that the patch was made from (node.go:423).
THEOREM OthersSurviveThm == Spec => OthersSurvive
BY InitNode, InitResult, NextNode, NextResult, OthersStep, PTL DEF Spec, OthersSurvive

-----------------------------------------------------------------------------
(* The types of the ping loop                                              *)

Lives == {"up", "stopping", "fatal", "panic"}

\* What the surroundings and the loops do to the process and to the budget.
LEMMA EnvStep ==
  ASSUME ResultInv, [Next]_vars, life \in Lives
  PROVE  life' \in Lives /\ (UNCHANGED budget \/ Disrupt)
<1> USE DEF Lives
<1>1. CASE Surroundings
  BY <1>1 DEF Surroundings, Stop, ProviderFails, ProviderRecovers, NotifyNodeStatus,
     OtherUpdatesNode, NodeIsDeleted, OtherUpdatesLease, envVars
<1>2. CASE Checks \/ Answers \/ Collects
  BY <1>2 DEF Checks, CheckStep, StartCheck, CheckTimesOut, CheckGetsResult, PingLoopReturns,
     Conclude, Answers, PingStep, PingReturns, Collects, CollectLease, envVars
<1>3. ASSUME NEW notFound \in BOOLEAN, Failed(notFound)
      PROVE  life' \in Lives
  BY <1>3 DEF Failed
<1>4. CASE Status
  <2>1. CASE StatusGetsResult
    BY <1>3, <2>1, Zenon DEF StatusGetsResult, ResultInv
  <2>2. CASE GetNode
    BY <1>3, <2>2, Zenon DEF GetNode, CallFails, envVars
  <2>3. CASE PatchNode
    BY <1>3, <2>3, Zenon DEF PatchNode, CallFails, envVars
  <2>4. CASE CreateNode \/ ErrorHandler
    BY <2>4 DEF CreateNode, ErrorHandler, CallFails, envVars
  <2>5. CASE EnsureNode \/ LoopTimer \/ LoopUpdate \/ LoopReturns
    BY <2>5 DEF EnsureNode, LoopTimer, LoopUpdate, LoopReturns, envVars
  <2> QED
    BY <1>4, <2>1, <2>2, <2>3, <2>4, <2>5 DEF Status, StatusStep
<1>5. CASE Leases
  <2>1. CASE SyncGetsResult
    BY <2>1 DEF SyncGetsResult
  <2>2. CASE UpdateLease
    BY <2>2 DEF UpdateLease, LeaseUpdated, LeaseConflict, LeaseUpdateFails, envVars
  <2>3. CASE SyncBegins \/ EnsureLease \/ SyncLoopReturns
    BY <2>3, Zenon DEF SyncBegins, EnsureLease, SyncLoopReturns, envVars
  <2>4. CASE CreateLease
    BY <2>4, Zenon DEF CreateLease, CallFails
  <2> QED
    BY <1>5, <2>1, <2>2, <2>3, <2>4 DEF Leases, LeaseStep
<1>6. CASE UNCHANGED vars
  BY <1>6 DEF vars, envVars
<1> QED
  BY <1>1, <1>2, <1>4, <1>5, <1>6 DEF Next

\* A loop begins or ends a subscription, or leaves the cell alone.
LEMMA CellStep ==
  ASSUME [Next]_vars, ~ Checks
  PROVE  \/ UNCHANGED cellVars
         \/ \E s \in {"status", "lease"} : Cond!Subscribe(s) \/ Cond!Drop(s)
<1>1. CASE Surroundings
  BY <1>1 DEF Surroundings, Stop, ProviderFails, ProviderRecovers, NotifyNodeStatus,
     OtherUpdatesNode, NodeIsDeleted, OtherUpdatesLease
<1>2. CASE Status
  BY <1>2, Zenon DEF Status, StatusStep, EnsureNode, StatusGetsResult, GetNode, PatchNode,
     CreateNode, ErrorHandler, LoopTimer, LoopUpdate, LoopReturns, GetResult
<1>3. CASE Leases
  BY <1>3, Zenon DEF Leases, LeaseStep, SyncBegins, SyncGetsResult, UpdateLease, EnsureLease,
     CreateLease, SyncLoopReturns, GetResult
<1>4. CASE Answers \/ Collects
  BY <1>4 DEF Answers, PingStep, PingReturns, Collects, CollectLease
<1> QED
  BY <1>1, <1>2, <1>3, <1>4 DEF Next, vars, cellVars

\* Every step keeps the types of the ping loop.
LEMMA NextPingType == PingTypeOK /\ ResultInv /\ [Next]_vars => PingTypeOK'
<1> SUFFICES ASSUME PingTypeOK, ResultInv, [Next]_vars
             PROVE  PingTypeOK'
    OBVIOUS
<1>1. life' \in Lives /\ budget' \in 0..MaxDisruptions
  BY EnvStep, PingsAssumption DEF PingTypeOK, Lives, Disrupt
<1>2. ASSUME UNCHANGED pingVars
      PROVE  PingTypeOK'
  <2>1. subs' \subseteq {"status", "lease"} /\ news' \subseteq subs'
        /\ value' \in {"none", "ok", "err"}
    <3>1. CASE Checks
      BY <1>2, <3>1 DEF Checks, CheckStep, StartCheck, CheckTimesOut, CheckGetsResult,
         PingLoopReturns, Conclude, Cond!Set, NoCheck, pingVars, cellVars, PingTypeOK
    <3>2. CASE ~ Checks
      BY <3>2, CellStep, Zenon DEF Cond!Subscribe, Cond!Drop, cellVars, PingTypeOK
    <3> QED
      BY <3>1, <3>2
  <2> QED
    BY <1>1, <1>2, <2>1 DEF pingVars, PingTypeOK, Lives
<1>3. CASE Stop \/ ProviderFails \/ ProviderRecovers
  BY <1>1, <1>3, Zenon DEF Stop, ProviderFails, ProviderRecovers, pingVars, cellVars, PingTypeOK, Lives
<1>4. CASE StartCheck
  <2>1. CASE key = None
    <3> DEFINE p == CHOOSE q \in Pings : q \notin pings
    <3>1. p \in Pings
      BY <1>4 DEF StartCheck, PingTypeOK
    <3> HIDE DEF p
    <3>2. /\ pings' = pings \cup {p} /\ key' = p
          /\ check' = [at |-> "waiting", on |-> p, own |-> TRUE, result |-> None]
          /\ cancelled' = cancelled \/ cancelled' = cancelled \cup {p}
          /\ UNCHANGED <<value, subs, news, provider>>
      BY <1>4, <2>1 DEF StartCheck, cellVars, p
    <3> QED
      BY <1>1, <3>1, <3>2 DEF PingTypeOK, Lives
  <2>2. CASE key # None
    <3>1. /\ check' = [at |-> "waiting", on |-> key, own |-> FALSE, result |-> None]
          /\ UNCHANGED <<pings, key, cancelled, value, subs, news, provider>>
      BY <1>4, <2>2 DEF StartCheck, cellVars
    <3> QED
      BY <1>1, <3>1 DEF PingTypeOK, Lives
  <2> QED
    BY <2>1, <2>2
<1>5. ASSUME NEW v \in {"ok", "err"}, Conclude(v)
      PROVE  PingTypeOK'
  BY <1>1, <1>5 DEF Conclude, Cond!Set, NoCheck, PingTypeOK, Lives
<1>6. CASE CheckTimesOut \/ CheckGetsResult
  BY <1>5, <1>6 DEF CheckTimesOut, CheckGetsResult, ResultInv
<1>7. CASE PingLoopReturns
  BY <1>1, <1>7, Zenon DEF PingLoopReturns, NoCheck, cellVars, PingTypeOK, Lives
<1>8. ASSUME NEW p \in Pings, PingReturns(p)
      PROVE  PingTypeOK'
  BY <1>1, <1>8 DEF PingReturns, cellVars, PingTypeOK, Lives
<1> QED
  BY <1>2, <1>3, <1>4, <1>6, <1>7, <1>8
     DEF Next, Surroundings, Checks, CheckStep, Answers, PingStep, Status, Leases, Collects, vars

-----------------------------------------------------------------------------
(* The types of the node and the loop of its status                        *)

Stages == {"boot", "loop", "again"}
LoopPcs == {"begin", "ping", "get", "patch", "create", "handler", "idle", "returned"}

\* A node is created once at most for every one that was deleted, and a loop
\* that is past ensureNode has recorded the UID of a node.
BootInv ==
    /\ lastUid \in Nat
    /\ lastUid + budget <= MaxDisruptions + 1
    /\ node = None => lastUid + budget <= MaxDisruptions
    /\ node # None => node.uid \in 1..lastUid
    /\ serverNode \in 0..lastUid
    /\ wanted \subseteq Ours
    /\ loop.pc \in LoopPcs
    /\ loop.stage \in Stages
    /\ serverNode = 0 => loop.stage = "boot" /\ loop.pc \notin {"idle", "handler"}

\* The node that an earlier run has left is the first.
LEMMA InitBoot == Init => BootInv
BY PingsAssumption, ConditionsAssumption
   DEF Init, PingInit, StatusInit, BootInv, At, Stages, LoopPcs

\* A sum stays below its bound when the budget shrinks, and a creation uses up
\* the place that the missing node has left.
LEMMA Spent ==
  ASSUME NEW n \in Nat, NEW k \in Nat, NEW b \in Nat, NEW c \in Nat, c <= b, n + b <= k
  PROVE  n + c <= k /\ (n + 1) + c <= k + 1
OBVIOUS

\* Every step keeps these bounds.  Only a missing node is created, and
\* deleting one takes a disruption.
LEMMA NextBoot == BootInv /\ NodeInv /\ PingTypeOK /\ ResultInv /\ [Next]_vars => BootInv'
<1> SUFFICES ASSUME BootInv, NodeInv, PingTypeOK, ResultInv, [Next]_vars
             PROVE  BootInv'
    OBVIOUS
<1> DEFINE LoopOK == /\ loop'.pc \in LoopPcs
                     /\ loop'.stage \in Stages
                     /\ \/ serverNode' # 0
                        \/ loop'.stage = "boot" /\ loop'.pc \notin {"idle", "handler"}
<1> USE DEF Stages, LoopPcs
<1>1. budget \in Nat /\ budget' \in Nat /\ budget' <= budget /\ MaxDisruptions \in Nat
  BY EnvStep, PingsAssumption DEF PingTypeOK, Lives, Disrupt
<1>1a. /\ lastUid + budget' <= MaxDisruptions + 1
       /\ node = None => lastUid + budget' <= MaxDisruptions
  <2>1. lastUid \in Nat /\ lastUid + budget <= MaxDisruptions + 1
    BY DEF BootInv
  <2>2. node = None => lastUid + budget <= MaxDisruptions
    BY DEF BootInv
  <2> QED
    BY <1>1, <2>1, <2>2, Spent, MaxDisruptions + 1 \in Nat, Zenon
<1>2. ASSUME UNCHANGED <<node, lastUid, serverNode, wanted>>, LoopOK
      PROVE  BootInv'
  BY <1>1a, <1>2 DEF BootInv
<1>3. ASSUME NEW pc, NEW stage
      PROVE  At(pc, stage).pc = pc /\ At(pc, stage).stage = stage
  BY DEF At
<1>4. ASSUME NEW notFound \in BOOLEAN, Failed(notFound), UNCHANGED serverNode
      PROVE  LoopOK
  <2>1. CASE loop.stage = "boot"
    BY <1>3, <1>4, <2>1 DEF Failed, BootInv
  <2>2. CASE loop.stage # "boot"
    <3>1. loop' = At("handler", "loop") \/ loop' = At("idle", "loop")
      BY <1>4, <2>2 DEF Failed
    <3> QED
      BY <1>3, <1>4, <2>2, <3>1 DEF BootInv
  <2> QED
    BY <2>1, <2>2
<1>5. CASE UNCHANGED <<node, lastUid, serverNode, wanted, loop>>
  BY <1>2, <1>5 DEF BootInv
<1>6. CASE Surroundings
  <2>1. CASE NotifyNodeStatus
    BY <1>1a, <2>1 DEF NotifyNodeStatus, apiVars, BootInv
  <2>2. CASE OtherUpdatesNode
    <3>1. node # None /\ node' # None /\ node'.uid = node.uid
      <4>1. node # None /\ node' = [node EXCEPT !.conds = @ \cup (Conditions \ Ours)]
        BY <2>2 DEF OtherUpdatesNode
      <4>2. node \in NodeRecord
        BY <4>1 DEF NodeInv
      <4>3. node'.uid = node.uid
        BY <4>1, <4>2 DEF NodeRecord
      <4>4. node' \in NodeRecord
        BY <4>1, <4>2 DEF NodeRecord
      <4> QED
        BY <4>1, <4>3, <4>4, ConditionsAssumption DEF NodeRecord
    <3> QED
      BY <1>1a, <2>2, <3>1 DEF OtherUpdatesNode, wishVars, BootInv
  <2>3. CASE NodeIsDeleted
    BY <1>1, <2>3 DEF NodeIsDeleted, Disrupt, wishVars, BootInv
  <2> QED
    BY <1>5, <1>6, <2>1, <2>2, <2>3 DEF Surroundings, statusVars, apiVars, wishVars
<1>7. ASSUME CreateInServer, LoopOK, UNCHANGED wanted, serverNode' \in {serverNode, lastUid + 1}
      PROVE  BootInv'
  <2>1. node'.uid = lastUid + 1 /\ lastUid' = lastUid + 1 /\ node = None
    BY <1>7 DEF CreateInServer, Created
  <2>2. node' # None
    <3>1. node' = [uid |-> lastUid + 1, conds |-> Initial, applied |-> None, born |-> Initial]
      BY <1>7 DEF CreateInServer, Created
    <3>2. lastUid + 1 \in Nat /\ Initial \in SUBSET Ours /\ Initial \in SUBSET Conditions
      BY ConditionsAssumption DEF BootInv
    <3> QED
      BY <3>1, <3>2, ConditionsAssumption
  <2>3. /\ lastUid + 1 + budget' <= MaxDisruptions + 1
        /\ lastUid + 1 \in Nat
        /\ lastUid + 1 \in 1..(lastUid + 1)
        /\ serverNode' \in 0..(lastUid + 1)
    <3>1. lastUid \in Nat /\ serverNode \in 0..lastUid
      BY DEF BootInv
    <3>2. /\ lastUid + 1 \in Nat /\ lastUid + 1 \in 1..(lastUid + 1)
          /\ 0..lastUid \subseteq 0..(lastUid + 1) /\ lastUid + 1 \in 0..(lastUid + 1)
      BY <3>1
    <3>3. lastUid + 1 + budget' <= MaxDisruptions + 1
      <4>1. lastUid + budget <= MaxDisruptions
        BY <2>1 DEF BootInv
      <4> QED
        BY <1>1, <3>1, <4>1, Spent, Zenon
    <3> QED
      BY <1>7, <3>1, <3>2, <3>3
  <2> QED
    BY <1>7, <2>1, <2>2, <2>3 DEF BootInv
<1>8. CASE Status
  <2>1. CASE EnsureNode \/ LoopTimer \/ LoopUpdate \/ LoopReturns
    <3>1. LoopOK
      <4>1. CASE EnsureNode
        BY <1>3, <4>1 DEF EnsureNode, BootInv
      <4>2. CASE LoopTimer \/ LoopUpdate \/ LoopReturns
        <5>1. loop' \in {At("ping", "loop"), At("returned", "loop")} /\ serverNode' # 0
          BY <4>2 DEF LoopTimer, LoopUpdate, LoopReturns, BootInv
        <5> QED
          BY <1>3, <5>1
      <4> QED
        BY <2>1, <4>1, <4>2
    <3> QED
      BY <1>2, <2>1, <3>1
         DEF EnsureNode, LoopTimer, LoopUpdate, LoopReturns, apiVars, wishVars
  <2>2. CASE StatusGetsResult
    <3>1. UNCHANGED <<node, lastUid, serverNode, wanted>>
      BY <2>2 DEF StatusGetsResult, apiVars, wishVars
    <3>2. CASE Failed(FALSE)
      BY <1>2, <1>4, <3>1, <3>2, Zenon
    <3>3. CASE loop' = loop
      BY <1>5, <3>1, <3>3
    <3>4. CASE loop' = At("returned", "boot") \/ (loop.stage # "boot" /\ loop' = At("idle", "loop"))
      <4>1. LoopOK
        BY <1>3, <3>1, <3>4 DEF BootInv
      <4> QED
        BY <1>2, <3>1, <4>1
    <3>5. CASE loop' = At("get", loop.stage)
      <4>1. loop'.pc = "get" /\ loop'.stage = loop.stage
        BY <1>3, <3>5
      <4>2. LoopOK
        BY <3>1, <4>1 DEF BootInv
      <4> QED
        BY <1>2, <3>1, <4>2
    <3> QED
      BY <2>2, <3>2, <3>3, <3>4, <3>5, Zenon DEF StatusGetsResult, ResultInv
  <2>3. CASE GetNode
    <3>1. UNCHANGED <<node, lastUid, serverNode, wanted>>
      BY <2>3 DEF GetNode, apiVars, wishVars
    <3>2. CASE Failed(TRUE) \/ Failed(FALSE)
      BY <1>2, <1>4, <3>1, <3>2, Zenon
    <3>3. CASE loop' = [loop EXCEPT !.pc = "patch", !.patch = ThreewayPatch(providerNode, node)]
      <4>1. loop'.pc = "patch" /\ loop'.stage = loop.stage
        BY <3>3 DEF NodeInv, LoopRecord
      <4>2. LoopOK
        BY <3>1, <4>1 DEF BootInv
      <4> QED
        BY <1>2, <3>1, <4>2
    <3> QED
      BY <2>3, <3>2, <3>3, Zenon DEF GetNode
  <2>4. CASE PatchNode
    <3>1. UNCHANGED <<lastUid, wanted>>
      BY <2>4 DEF PatchNode, wishVars
    <3>2. UNCHANGED node \/ (node # None /\ node' # None /\ node'.uid = node.uid)
      BY <2>4, PatchedNode, ConditionsAssumption, Zenon DEF PatchNode, NodeRecord
    <3>3. CASE node # None /\ RecordServerNode /\ loop' = At("idle", "loop")
      BY <1>1a, <1>3, <3>1, <3>2, <3>3 DEF RecordServerNode, BootInv
    <3>4. CASE UNCHANGED serverNode /\ (Failed(TRUE) \/ Failed(FALSE))
      <4>1. LoopOK
        BY <1>4, <3>4, Zenon
      <4> QED
        BY <1>1a, <3>1, <3>2, <3>4, <4>1 DEF BootInv
    <3>5. CASE UNCHANGED <<node, serverNode>> /\ loop' = At("get", loop.stage)
      <4>1. loop'.pc = "get" /\ loop'.stage = loop.stage
        BY <1>3, <3>5
      <4>2. LoopOK
        BY <3>5, <4>1 DEF BootInv
      <4> QED
        BY <1>2, <3>1, <3>5, <4>2
    <3> QED
      BY <2>4, <3>3, <3>4, <3>5, Zenon DEF PatchNode
  <2>5. CASE CreateNode
    <3>1. CASE CreateInServer /\ serverNode' = node'.uid /\ loop' = At("idle", "loop")
      <4>1. serverNode' = lastUid + 1
        BY <3>1 DEF CreateInServer, Created
      <4>2. LoopOK
        BY <1>3, <3>1, <4>1 DEF BootInv
      <4> QED
        BY <1>7, <2>5, <3>1, <4>1, <4>2 DEF CreateNode, wishVars
    <3>2. CASE UNCHANGED <<apiVars, serverNode>> /\ loop' = At("returned", "boot")
      <4>1. LoopOK
        BY <1>3, <3>2
      <4> QED
        BY <1>2, <2>5, <3>2, <4>1 DEF CreateNode, apiVars, wishVars
    <3> QED
      BY <2>5, <3>1, <3>2 DEF CreateNode
  <2>6. CASE ErrorHandler
    <3>1. LoopOK
      BY <1>3, <2>6 DEF ErrorHandler, BootInv
    <3> QED
      BY <1>2, <1>7, <2>6, <3>1 DEF ErrorHandler, apiVars, wishVars
  <2> QED
    BY <1>8, <2>1, <2>2, <2>3, <2>4, <2>5, <2>6 DEF Status, StatusStep
<1> QED
  BY <1>5, <1>6, <1>8
     DEF Next, Checks, Answers, Leases, Collects, vars, statusVars, apiVars, wishVars

-----------------------------------------------------------------------------
(* The types of the lease                                                  *)

Copies(n) == [owner : 1..n, current : BOOLEAN] \cup {None}
SyncRecord(n) == [pc : {"off", "ping", "update", "ensure", "create", "idle", "returned"},
                  call : {None, "latest", "ensured"},
                  i : 0..MaxUpdateRetries, node : 0..n]

\* sync works for a node that exists or has existed.
SyncOK(s) ==
    /\ s \in SyncRecord(lastUid)
    /\ s.pc # "off" => serverNode > 0
    /\ s.pc \in {"update", "ensure", "create"} => s.node > 0

\* The lease and its copies are owned by nodes that were created, since sync
\* is only called when ensureNode has recorded one.
LeaseInv ==
    /\ lease \in 0..lastUid
    /\ latestLease \in Copies(lastUid)
    /\ base \in Copies(lastUid)
    /\ SyncOK(sync)

\* A lease that is there at first belongs to the node that is there.
LEMMA InitLease == Init => LeaseInv
<1> SUFFICES ASSUME Init
             PROVE  LeaseInv
    OBVIOUS
<1>1. lease \in 0..lastUid /\ lastUid \in Nat
  BY DEF Init, StatusInit, LeaseInit
<1>2. latestLease = None /\ base = None
  BY DEF Init, LeaseInit
<1>3. SyncOK(sync)
  BY <1>1, RetriesAssumption DEF Init, LeaseInit, LeaseAt, SyncOK, SyncRecord
<1> QED
  BY <1>1, <1>2, <1>3 DEF LeaseInv, Copies

\* A fresh copy and an outdated one are copies.
LEMMA CopyType ==
  ASSUME NEW n \in Nat
  PROVE  /\ \A o \in 1..n : Copy(o) \in Copies(n)
         /\ \A c \in Copies(n) : Outdated(c) \in Copies(n)
         /\ None \in Copies(n)
<1>1. ASSUME NEW o \in 1..n
      PROVE  Copy(o) \in Copies(n)
  BY Zenon DEF Copy, Copies
<1>2. ASSUME NEW c \in Copies(n), c # None
      PROVE  Outdated(c) \in Copies(n)
  <2>1. c \in [owner : 1..n, current : BOOLEAN]
    BY <1>2 DEF Copies
  <2>2. [c EXCEPT !.current = FALSE] \in [owner : 1..n, current : BOOLEAN]
    BY <2>1, Zenon
  <2> QED
    BY <1>2, <2>2 DEF Outdated, Copies
<1> QED
  BY <1>1, <1>2 DEF Outdated, Copies

\* Where retryUpdateLease goes after an attempt that failed.
LEMMA AttemptType ==
  ASSUME LeaseInv, lastUid \in Nat, sync.pc \in {"update", "ensure", "create"},
         NEW b \in Copies(lastUid), NextAttempt(b) \/ UpdateFailed
  PROVE  base' \in Copies(lastUid) /\ SyncOK(sync')
<1>1. sync \in SyncRecord(lastUid) /\ serverNode > 0 /\ sync.node > 0
  BY DEF LeaseInv, SyncOK
<1>2. CASE UpdateFailed
  <2>1. base' = None
    BY <1>2 DEF UpdateFailed
  <2>0. 0 \in 0..MaxUpdateRetries /\ 0 \in 0..lastUid
    BY RetriesAssumption
  <2>2. CASE sync' = [sync EXCEPT !.pc = "ensure", !.call = None, !.i = 0]
    <3>1. sync' \in SyncRecord(lastUid)
      BY <1>1, <2>0, <2>2, Zenon DEF SyncRecord
    <3>2. sync'.node = sync.node
      BY <1>1, <2>2 DEF SyncRecord
    <3> QED
      BY <1>1, <2>1, <3>1, <3>2, CopyType DEF SyncOK
  <2>3. CASE sync' = LeaseAt("idle")
    <3>1. sync' \in SyncRecord(lastUid) /\ sync'.pc = "idle"
      BY <2>0, <2>3 DEF LeaseAt, SyncRecord
    <3> QED
      BY <1>1, <2>1, <3>1, CopyType DEF SyncOK
  <2> QED
    BY <1>2, <2>2, <2>3 DEF UpdateFailed
<1>3. CASE /\ sync.i + 1 < MaxUpdateRetries
           /\ sync' = [sync EXCEPT !.pc = "update", !.i = @ + 1]
           /\ base' = b
  <2>1. sync.i + 1 \in 0..MaxUpdateRetries
    BY <1>1, <1>3, RetriesAssumption DEF SyncRecord
  <2> QED
    BY <1>1, <1>3, <2>1, Zenon DEF SyncOK, SyncRecord
<1> QED
  BY <1>2, <1>3 DEF NextAttempt

\* Where sync goes with what ensureLease returned.
LEMMA EnsureType ==
  ASSUME LeaseInv, lastUid \in Nat, sync.pc \in {"ensure", "create"},
         NEW l \in Copies(lastUid), NEW created \in BOOLEAN, EnsureReturns(l, created)
  PROVE  latestLease' \in Copies(lastUid) /\ base' \in Copies(lastUid) /\ SyncOK(sync')
<1>1. sync \in SyncRecord(lastUid) /\ serverNode > 0 /\ sync.node > 0
  BY DEF LeaseInv, SyncOK
<1>2. CASE sync.call # None
  BY <1>2, AttemptType DEF EnsureReturns, LeaseInv
<1>3. CASE sync.call = None
  <2>1. latestLease' = l
    BY <1>3 DEF EnsureReturns
  <2>2. CASE base' = None /\ sync' = LeaseAt("idle")
    BY <1>1, <2>1, <2>2, CopyType, RetriesAssumption DEF LeaseAt, SyncOK, SyncRecord
  <2>3. CASE base' = l /\ sync' = [sync EXCEPT !.pc = "update", !.call = "ensured"]
    BY <1>1, <2>1, <2>3, Zenon DEF SyncOK, SyncRecord
  <2> QED
    BY <1>3, <2>2, <2>3 DEF EnsureReturns
<1> QED
  BY <1>2, <1>3

\* UIDs grow, and the recorded node is not forgotten.
LEMMA UidStep ==
  ASSUME BootInv, [Next]_vars
  PROVE  lastUid' \in {lastUid, lastUid + 1} /\ (serverNode > 0 => serverNode' > 0)
<1>1. CASE Status
  <2>1. lastUid' \in {lastUid, lastUid + 1}
    BY <1>1, Zenon DEF Status, StatusStep, EnsureNode, StatusGetsResult, GetNode, PatchNode, CreateNode,
       ErrorHandler, CreateInServer, LoopTimer, LoopUpdate, LoopReturns, apiVars
  <2>2. serverNode > 0 => serverNode' > 0
    <3>1. CASE PatchNode
      <4>1. CASE node # None /\ serverNode' = node.uid
        BY <4>1 DEF BootInv
      <4> QED
        BY <3>1, <4>1, Zenon DEF PatchNode, RecordServerNode
    <3>2. CASE CreateNode
      <4>1. CASE CreateInServer /\ serverNode' = node'.uid
        BY <4>1 DEF CreateInServer, Created, BootInv
      <4> QED
        BY <3>2, <4>1 DEF CreateNode
    <3> QED
      BY <1>1, <3>1, <3>2, Zenon DEF Status, StatusStep, EnsureNode, StatusGetsResult, GetNode,
         ErrorHandler, LoopTimer, LoopUpdate, LoopReturns
  <2> QED
    BY <2>1, <2>2
<1>2. CASE Surroundings
  BY <1>2 DEF Surroundings, NotifyNodeStatus, OtherUpdatesNode, NodeIsDeleted, statusVars, apiVars
<1> QED
  BY <1>1, <1>2 DEF Next, Checks, Answers, Leases, Collects, vars, statusVars, apiVars

\* Every step keeps the owners among the nodes that were created.
LEMMA NextLease == LeaseInv /\ BootInv /\ [Next]_vars => LeaseInv'
<1> SUFFICES ASSUME LeaseInv, BootInv, [Next]_vars
             PROVE  LeaseInv'
    OBVIOUS
<1>1. lastUid \in Nat /\ serverNode \in Nat
  BY DEF BootInv
<1>2. CASE UNCHANGED leaseVars
  <2>1. 0..lastUid \subseteq 0..lastUid' /\ 1..lastUid \subseteq 1..lastUid'
    BY <1>1, UidStep
  <2>2. /\ Copies(lastUid) \subseteq Copies(lastUid')
        /\ SyncRecord(lastUid) \subseteq SyncRecord(lastUid')
    BY <2>1 DEF Copies, SyncRecord
  <2> QED
    BY <1>2, <2>1, <2>2, UidStep DEF leaseVars, LeaseInv, SyncOK
<1>3. ASSUME UNCHANGED <<lastUid, serverNode>>, lease' \in 0..lastUid,
             latestLease' \in Copies(lastUid), base' \in Copies(lastUid), SyncOK(sync')
      PROVE  LeaseInv'
  BY <1>3 DEF LeaseInv, SyncOK
<1>4. CASE Surroundings \/ Collects
  <2>1. CASE OtherUpdatesLease /\ UNCHANGED statusVars
    BY <1>1, <1>3, <2>1, CopyType DEF OtherUpdatesLease, statusVars, apiVars, LeaseInv
  <2>2. CASE CollectLease /\ UNCHANGED statusVars
    BY <1>1, <1>3, <2>2, CopyType DEF CollectLease, statusVars, apiVars, LeaseInv
  <2> QED
    BY <1>2, <1>4, <2>1, <2>2 DEF Surroundings, Collects
<1>5. CASE Leases
  <2>1. UNCHANGED <<lastUid, serverNode>>
    BY <1>5 DEF Leases, statusVars, apiVars
  <2>2. ASSUME NEW pc \in {"ping", "idle", "returned"}, serverNode > 0
        PROVE  SyncOK(LeaseAt(pc))
    BY <1>1, <2>2, RetriesAssumption DEF SyncOK, LeaseAt, SyncRecord
  <2>3. sync.pc # "off" => serverNode > 0
    BY DEF LeaseInv, SyncOK
  <2>4. CASE SyncBegins \/ SyncLoopReturns
    <3>1. serverNode > 0
      BY <1>1, <2>3, <2>4 DEF SyncBegins, SyncLoopReturns, BootInv
    <3> QED
      BY <1>3, <2>1, <2>2, <2>4, <3>1, SMTT(40) DEF SyncBegins, SyncLoopReturns, LeaseInv
  <2>5. CASE SyncGetsResult
    <3>1. serverNode > 0 /\ serverNode \in 0..lastUid
      BY <2>3, <2>5 DEF SyncGetsResult, BootInv
    <3>2. base' \in Copies(lastUid)
      BY <1>1, <2>5, CopyType, SMTT(40) DEF SyncGetsResult, LeaseInv
    <3>3. ASSUME NEW pc \in {"update", "ensure"}
          PROVE  /\ LeaseAt(pc) \in SyncRecord(lastUid)
                 /\ LeaseAt(pc).pc = pc
      BY <1>1, RetriesAssumption, SMTT(40) DEF LeaseAt, SyncRecord
    <3>4. /\ SyncOK([LeaseAt("update") EXCEPT !.call = "latest", !.node = serverNode])
          /\ SyncOK([LeaseAt("ensure") EXCEPT !.node = serverNode])
      <4>1. ASSUME NEW r \in SyncRecord(lastUid), r.pc \in {"update", "ensure"}
            PROVE  /\ SyncOK([r EXCEPT !.call = "latest", !.node = serverNode])
                   /\ SyncOK([r EXCEPT !.node = serverNode])
        BY <3>1, <4>1, Zenon DEF SyncOK, SyncRecord
      <4> QED
        BY <3>3, <4>1, Zenon
    <3>5. SyncOK(sync')
      BY <2>2, <2>5, <3>1, <3>4 DEF SyncGetsResult, LeaseInv
    <3> QED
      BY <1>3, <2>1, <2>5, <3>2, <3>5, SMTT(40) DEF SyncGetsResult, LeaseInv
  <2>6. CASE UpdateLease
    <3>1. sync.pc = "update" /\ serverNode > 0 /\ sync.node > 0 /\ sync \in SyncRecord(lastUid)
      BY <2>6 DEF UpdateLease, LeaseInv, SyncOK
    <3>2. CASE LeaseUpdated
      <4>1. base.owner \in 1..lastUid
        BY <3>2, SMTT(40) DEF LeaseUpdated, LeaseInv, Copies
      <4>2. latestLease' \in Copies(lastUid) /\ base' \in Copies(lastUid) /\ SyncOK(sync')
        BY <1>1, <2>2, <3>1, <3>2, <4>1, CopyType DEF LeaseUpdated
      <4> QED
        BY <1>3, <2>1, <3>2, <4>2 DEF LeaseUpdated, LeaseInv
    <3>3. CASE LeaseConflict
      <4>1. SyncOK(sync')
        BY <3>1, <3>3 DEF LeaseConflict, SyncOK, SyncRecord
      <4> QED
        BY <1>3, <2>1, <3>3, <4>1 DEF LeaseConflict, LeaseInv
    <3>4. CASE LeaseUpdateFails
      <4>1. \E b \in Copies(lastUid) : NextAttempt(b) \/ UpdateFailed
        BY <1>1, <3>4, CopyType DEF LeaseUpdateFails, LeaseInv
      <4>2. base' \in Copies(lastUid) /\ SyncOK(sync')
        BY <1>1, <3>1, <4>1, AttemptType, SMTT(40)
      <4>3. latestLease' \in Copies(lastUid) /\ lease' \in 0..lastUid
        BY <1>1, <3>4, CopyType DEF LeaseUpdateFails, LeaseInv
      <4> QED
        BY <1>3, <2>1, <4>2, <4>3, Zenon
    <3> QED
      BY <2>6, <3>2, <3>3, <3>4 DEF UpdateLease
  <2>7. ASSUME NEW pc \in {"ensure", "create"}, sync.pc \in {"ensure", "create"},
               lease' \in 0..lastUid, UNCHANGED <<latestLease, base>>,
               sync' = [sync EXCEPT !.pc = pc]
        PROVE  LeaseInv'
    <3>1. SyncOK(sync')
      BY <2>7 DEF LeaseInv, SyncOK, SyncRecord
    <3> QED
      BY <1>3, <2>1, <2>7, <3>1 DEF LeaseInv
  <2>8. ASSUME NEW l \in Copies(lastUid), NEW created \in BOOLEAN, EnsureReturns(l, created),
               lease' \in 0..lastUid, sync.pc \in {"ensure", "create"}
        PROVE  LeaseInv'
    BY <1>1, <1>3, <2>1, <2>8, EnsureType
  <2>9. None \in Copies(lastUid) /\ \A o \in 1..lastUid : Copy(o) \in Copies(lastUid)
    BY <1>1, CopyType
  <2>10. CASE EnsureLease
    <3>1. sync.pc = "ensure" /\ lease' = lease /\ lease \in 0..lastUid
      BY <2>10 DEF EnsureLease, LeaseInv
    <3>2. lease # 0 => Copy(lease) \in Copies(lastUid)
      BY <1>1, <2>9, <3>1
    <3>3. CASE UNCHANGED <<latestLease, base, sync>>
      BY <1>3, <2>1, <3>1, <3>3 DEF LeaseInv
    <3> QED
      BY <2>7, <2>8, <2>9, <2>10, <3>1, <3>2, <3>3, Zenon DEF EnsureLease
  <2>11. CASE CreateLease
    <3>1. sync.pc = "create" /\ sync.node \in 1..lastUid
      BY <1>1, <2>11 DEF CreateLease, LeaseInv, SyncOK, SyncRecord
    <3>2. lease' \in 0..lastUid
      <4>1. lease' = lease \/ lease' = sync.node
        BY <2>11, Zenon DEF CreateLease
      <4> QED
        BY <1>1, <3>1, <4>1 DEF LeaseInv
    <3> QED
      BY <2>7, <2>8, <2>9, <2>11, <3>1, <3>2, Zenon DEF CreateLease
  <2> QED
    BY <1>5, <2>4, <2>5, <2>6, <2>10, <2>11 DEF Leases, LeaseStep
<1> QED
  BY <1>2, <1>4, <1>5 DEF Next, Checks, Answers, Status, vars

-----------------------------------------------------------------------------
\* NewNodeController, the ping controller and the lease controller keep their
\* types: in particular a lease and its copies have the UID of a node that was
\* created, and there is one more UID than disruptions at most.
THEOREM TypeCorrect == Spec => []TypeOK
<1>1. Init => PingTypeOK
  BY PingsAssumption DEF Init, PingInit, Cond!Init, NoCheck, PingTypeOK
<1>2. PingTypeOK /\ NodeInv /\ BootInv /\ LeaseInv => TypeOK
  <2> SUFFICES ASSUME PingTypeOK, NodeInv, BootInv, LeaseInv
               PROVE  StatusTypeOK /\ LeaseTypeOK
      BY DEF TypeOK
  <2>1. lastUid \in 0..MaxUid /\ MaxUid \in Nat
    BY PingsAssumption DEF BootInv, PingTypeOK, MaxUid
  <2>2. 0..lastUid \subseteq 0..MaxUid /\ 1..lastUid \subseteq 1..MaxUid
    BY <2>1, SMTT(40)
  <2>3. node \in NodeObject \cup {None}
    BY <2>2 DEF NodeInv, NodeRecord, NodeObject, BootInv
  <2>4. loop \in [pc : LoopPcs, stage : Stages, patch : [delete : SUBSET Ours, upsert : SUBSET Ours]]
    BY SMTT(40) DEF NodeInv, LoopRecord, BootInv
  <2>5. StatusTypeOK
    BY <2>1, <2>2, <2>3, <2>4, SMTT(40) DEF StatusTypeOK, NodeInv, BootInv, LoopPcs, Stages
  <2>6. LeaseTypeOK
    BY <2>2 DEF LeaseTypeOK, LeaseInv, Copies, SyncOK, SyncRecord
  <2> QED
    BY <2>5, <2>6
<1> QED
  BY <1>1, <1>2, InitResult, NextResult, InitNode, NextNode, NextPingType, InitBoot, NextBoot,
     InitLease, NextLease, PTL DEF Spec
=============================================================================
