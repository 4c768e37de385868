----------------------------- MODULE NodeStatus -----------------------------
(***************************************************************************)
(* Registration and status of the node (node/node.go), with the error      *)
(* handler of the root command and the node object of the API server.      *)
(*                                                                         *)
(* The status is abstracted to its set of condition types, which is where  *)
(* several writers meet.  Labels and annotations go through the same patch.*)
(***************************************************************************)
EXTENDS NodePing

CONSTANTS
    Conditions,     \* condition types
    Ours,           \* those the provider can set
    Initial         \* the conditions of the node the kubelet starts with

ASSUME ConditionsAssumption ==
    /\ Initial \subseteq Ours
    /\ Ours \subseteq Conditions
    /\ \A s \in SUBSET Ours : s # None
    /\ None \notin [uid : Nat, conds : SUBSET Conditions,
                    applied : (SUBSET Ours) \cup {None}, born : SUBSET Ours]

VARIABLES
    node,           \* the object in the API server, or None
    lastUid,        \* the last UID given out
    serverNode,     \* UID of n.serverNode, 0 before it is registered
    providerNode,   \* conditions of providerNode
    chStatusUpdate, \* the channel of capacity 1: None or the conditions in it
    wanted,         \* history: the conditions the provider last sent
    loop            \* where the goroutine of Run is

apiVars == <<node, lastUid>>
wishVars == <<providerNode, chStatusUpdate, wanted>>
statusVars == <<apiVars, wishVars, serverNode, loop>>

\* The node is created once, and once more for every deletion.
MaxUid == MaxDisruptions + 1

(* applied is the last-applied annotation; born, the conditions that this  *)
(* controller created the object with, is kept for the properties only.    *)
NodeObject == [uid : 1..MaxUid, conds : SUBSET Conditions,
               applied : (SUBSET Ours) \cup {None}, born : SUBSET Ours]

Created(conds) ==
    [uid |-> lastUid + 1, conds |-> conds, applied |-> None, born |-> conds]

NoPatch == [delete |-> {}, upsert |-> {}]

(* stage says which call of updateStatus runs: the one of ensureNode, one  *)
(* of the control loop, or the second updateNodeStatus after the handler.  *)
At(pc, stage) == [pc |-> pc, stage |-> stage, patch |-> NoPatch]

\* NewNodeController and Run up to ensureNode.  The node may be left from an
\* earlier run of the kubelet, with the conditions that run applied.
StatusInit ==
    /\ node \in {None, [uid |-> 1, conds |-> Ours, applied |-> Ours, born |-> {}]}
    /\ lastUid = IF node = None THEN 0 ELSE 1
    /\ serverNode = 0
    /\ providerNode = Initial
    /\ chStatusUpdate = None
    /\ wanted = Initial
    /\ loop = At("begin", "boot")

(***************************************************************************)
(* Surroundings                                                            *)
(***************************************************************************)

\* Mutant: the send does not block and an update is dropped.
NotifyNodeStatus_Drops ==
    /\ Disrupt
    /\ wanted' \in SUBSET Ours
    /\ chStatusUpdate' = IF chStatusUpdate = None THEN wanted' ELSE chStatusUpdate
    /\ UNCHANGED <<life, cellVars, apiVars, serverNode, providerNode, loop>>

\* The provider calls the function it was given by NotifyNodeStatus, which
\* blocks while the channel is full.
NotifyNodeStatus ==
    /\ chStatusUpdate = None
    /\ Disrupt
    /\ wanted' \in SUBSET Ours
    /\ chStatusUpdate' = wanted'
    /\ UNCHANGED <<life, cellVars, apiVars, serverNode, providerNode, loop>>

\* Another controller upserts a condition of its own.
OtherUpdatesNode ==
    /\ node # None
    /\ ~ (Conditions \subseteq node.conds \cup Ours)
    /\ Disrupt
    /\ node' = [node EXCEPT !.conds = @ \cup (Conditions \ Ours)]
    /\ UNCHANGED <<life, cellVars, lastUid, serverNode, wishVars, loop>>

NodeIsDeleted ==
    /\ node # None
    /\ Disrupt
    /\ node' = None
    /\ UNCHANGED <<life, cellVars, lastUid, serverNode, wishVars, loop>>

(***************************************************************************)
(* updateStatus                                                            *)
(***************************************************************************)

\* A call to the API server fails: the budget pays for it while the context
\* is alive, and it costs nothing once it is cancelled.
CallFails == IF life = "stopping" THEN UNCHANGED budget ELSE Disrupt

\* What an error that ends updateStatus, or its first attempt, leads to.  In
\* ensureNode NotFound leads to Create and anything else makes Run return, a
\* fatal error; in the loop the error handler is called for NotFound.
Failed(notFound) ==
    CASE loop.stage = "boot" /\ notFound ->
           loop' = At("create", "boot") /\ UNCHANGED life
      [] loop.stage = "boot" /\ ~ notFound ->
           loop' = At("returned", "boot") /\ life' = "fatal"
      [] loop.stage = "loop" /\ notFound ->
           loop' = At("handler", "loop") /\ UNCHANGED life
      [] OTHER ->
           loop' = At("idle", "loop") /\ UNCHANGED life

\* ensureNode calls updateStatus, which calls getResult.
EnsureNode ==
    /\ Alive
    /\ loop.pc = "begin"
    /\ GetResult("status")
    /\ loop' = At("ping", "boot")
    /\ UNCHANGED <<envVars, apiVars, serverNode, wishVars>>

\* getResult returns.  A context that is done makes updateStatus return that
\* error, and so does a failed ping, without the error handler.
StatusGetsResult ==
    /\ Alive
    /\ loop.pc = "ping"
    /\ Cond!Drop("status")
    /\ \/ /\ life = "stopping"
          /\ IF loop.stage = "boot"
             THEN loop' = At("returned", "boot") /\ life' = "fatal"
             ELSE loop' = At("idle", "loop") /\ UNCHANGED life
       \/ /\ ResultReady("status")
          /\ CASE value = "none" -> life' = "panic" /\ UNCHANGED loop
               [] value = "err"  -> Failed(FALSE)
               [] value = "ok"   -> loop' = At("get", loop.stage) /\ UNCHANGED life
    /\ UNCHANGED <<budget, apiVars, serverNode, wishVars>>

\* Mutant: everything the provider does not want is deleted.
ThreewayPatch_Twoway(new, apiServerNode) ==
    [delete |-> apiServerNode.conds \ new, upsert |-> new]

\* Mutant: the patch is made from the server's object and the new one only.
ThreewayPatch_NoDeletes(new, apiServerNode) == [delete |-> {}, upsert |-> new]

\* prepareThreewayPatchBytesForNodeStatus: deletions come from the last-applied
\* annotation, if the object has one, and never from the server's conditions.
ThreewayPatch(new, apiServerNode) ==
    [delete |-> IF apiServerNode.applied = None THEN {} ELSE apiServerNode.applied \ new,
     upsert |-> new]

\* updateNodeStatus: Get, and the patch computed from what it returned.
GetNode ==
    /\ Alive
    /\ loop.pc = "get"
    /\ \/ /\ node # None
          /\ loop' = [loop EXCEPT !.pc = "patch",
                                  !.patch = ThreewayPatch(providerNode, node)]
          /\ UNCHANGED envVars
       \/ node = None /\ Failed(TRUE) /\ UNCHANGED budget
       \/ CallFails /\ Failed(FALSE)
    /\ UNCHANGED <<cellVars, apiVars, serverNode, wishVars>>

\* The API server applies a patch to the object as it is now; the patch sets the
\* annotation to the conditions the provider wants.
Patched(n, patch) ==
    [n EXCEPT !.conds = (@ \ patch.delete) \cup patch.upsert,
              !.applied = patch.upsert]

\* Mutant: n.serverNode is set when the node is registered only.
RecordServerNode_Never == UNCHANGED serverNode

\* The end of updateStatus: n.serverNode is the node the patch returned.
RecordServerNode == serverNode' = node.uid

\* updateNodeStatus: Patch, and updateStatus records the answer.  A conflict
\* leads back to Get; an answer can be lost after the patch was applied.  The
\* bound on disruptions is below the 5 attempts of retry.DefaultRetry.
PatchNode ==
    /\ Alive
    /\ loop.pc = "patch"
    /\ \/ /\ node # None
          /\ node' = Patched(node, loop.patch)
          /\ RecordServerNode
          /\ loop' = At("idle", "loop")
          /\ UNCHANGED envVars
       \/ /\ node # None
          /\ CallFails
          /\ node' \in {node, Patched(node, loop.patch)}
          /\ Failed(FALSE)
          /\ UNCHANGED serverNode
       \/ /\ node # None
          /\ Disrupt
          /\ loop' = At("get", loop.stage)
          /\ UNCHANGED <<life, node, serverNode>>
       \/ node = None /\ Failed(TRUE) /\ UNCHANGED <<budget, node, serverNode>>
    /\ UNCHANGED <<cellVars, lastUid, wishVars>>

CreateInServer ==
    /\ node = None
    /\ node' = Created(Initial)
    /\ lastUid' = lastUid + 1

\* ensureNode: Create after NotFound; any error makes Run return.
CreateNode ==
    /\ Alive
    /\ loop.pc = "create"
    /\ \/ /\ CreateInServer
          /\ serverNode' = node'.uid
          /\ loop' = At("idle", "loop")
          /\ UNCHANGED envVars
       \/ /\ CallFails
          /\ loop' = At("returned", "boot")
          /\ life' = "fatal"
          /\ UNCHANGED <<apiVars, serverNode>>
    /\ UNCHANGED <<cellVars, wishVars>>

\* nodeStatusUpdateErrorHandler of the root command: the node is created again
\* from the object the kubelet started with, then updateStatus tries once more.
ErrorHandler ==
    /\ Alive
    /\ loop.pc = "handler"
    /\ \/ CreateInServer /\ loop' = At("get", "again") /\ UNCHANGED envVars
       \/ /\ CallFails
          /\ CreateInServer \/ UNCHANGED apiVars
          /\ loop' = At("idle", "loop")
          /\ UNCHANGED life
    /\ UNCHANGED <<cellVars, serverNode, wishVars>>

(***************************************************************************)
(* controlLoop                                                             *)
(***************************************************************************)
LoopTimer ==
    /\ life = "up"
    /\ loop.pc = "idle"
    /\ GetResult("status")
    /\ loop' = At("ping", "loop")
    /\ UNCHANGED <<envVars, apiVars, serverNode, wishVars>>

LoopUpdate ==
    /\ Alive
    /\ loop.pc = "idle"
    /\ chStatusUpdate # None
    /\ providerNode' = chStatusUpdate
    /\ chStatusUpdate' = None
    /\ GetResult("status")
    /\ loop' = At("ping", "loop")
    /\ UNCHANGED <<envVars, apiVars, serverNode, wanted>>

LoopReturns ==
    /\ life = "stopping"
    /\ loop.pc = "idle"
    /\ loop' = At("returned", "loop")
    /\ UNCHANGED <<envVars, cellVars, apiVars, serverNode, wishVars>>

StatusTypeOK ==
    /\ node \in NodeObject \cup {None}
    /\ lastUid \in 0..MaxUid
    /\ serverNode \in 0..MaxUid
    /\ providerNode \subseteq Ours
    /\ chStatusUpdate \in (SUBSET Ours) \cup {None}
    /\ wanted \subseteq Ours
    /\ loop \in [pc : {"begin", "ping", "get", "patch", "create", "handler", "idle", "returned"},
                 stage : {"boot", "loop", "again"},
                 patch : [delete : SUBSET Ours, upsert : SUBSET Ours]]
=============================================================================
