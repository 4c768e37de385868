--------------------------- MODULE NodeController ---------------------------
(***************************************************************************)
(* The three loops of the node, ping, status and lease, in one kubelet     *)
(* process.  They share the ping result, the context and the copy of the   *)
(* server's node.                                                          *)
(***************************************************************************)
EXTENDS NodeLease

vars == <<envVars, cellVars, pingVars, statusVars, leaseVars>>

Init == PingInit /\ StatusInit /\ LeaseInit

Surroundings ==
    /\ Alive
    /\ \/ /\ Stop \/ ProviderFails \/ ProviderRecovers
          /\ UNCHANGED <<statusVars, leaseVars>>
       \/ /\ NotifyNodeStatus \/ OtherUpdatesNode \/ NodeIsDeleted
          /\ UNCHANGED <<pingVars, leaseVars>>
       \/ OtherUpdatesLease /\ UNCHANGED <<pingVars, statusVars>>

\* A ping that is due to return.
PingStep == \E p \in Pings : PingReturns(p)

CheckStep == StartCheck \/ CheckTimesOut \/ CheckGetsResult \/ PingLoopReturns

StatusStep ==
    \/ EnsureNode
    \/ StatusGetsResult
    \/ GetNode
    \/ PatchNode
    \/ CreateNode
    \/ ErrorHandler
    \/ LoopTimer
    \/ LoopUpdate
    \/ LoopReturns

LeaseStep ==
    \/ SyncBegins
    \/ SyncGetsResult
    \/ UpdateLease
    \/ EnsureLease
    \/ CreateLease
    \/ SyncLoopReturns

Checks == CheckStep /\ UNCHANGED <<statusVars, leaseVars>>
Status == StatusStep /\ UNCHANGED <<pingVars, leaseVars>>
Leases == LeaseStep /\ UNCHANGED <<pingVars, statusVars>>
Answers == PingStep /\ UNCHANGED <<statusVars, leaseVars>>
Collects == Alive /\ CollectLease /\ UNCHANGED <<pingVars, statusVars>>

Next ==
    \/ Surroundings
    \/ Checks
    \/ Answers
    \/ Status
    \/ Leases
    \/ Collects

Spec == Init /\ [][Next]_vars

(* The goroutines are scheduled and timers fire.  A provider that is not   *)
(* stuck answers, and the garbage collector works.  The select of the      *)
(* control loop does not pass over a status update for ever.               *)
FairSpec ==
    /\ Spec
    /\ WF_vars(Checks)
    /\ WF_vars(Answers /\ provider # "stuck")
    /\ WF_vars(Status)
    /\ SF_vars(LoopUpdate /\ UNCHANGED <<pingVars, leaseVars>>)
    /\ WF_vars(Leases)
    /\ WF_vars(Collects)

-----------------------------------------------------------------------------
\* The types of what the three loops, the API server and the ping goroutines
\* hold.  A node has at most one UID more than there were disruptions, and a
\* lease and its copies have the UID of a node that was created.
TypeOK == PingTypeOK /\ StatusTypeOK /\ LeaseTypeOK

\* node_ping_controller.go:57: "we do not ever want more than one ping in flight
\* at a time", although a ping outlives the check that started it.
OnePingInFlight == Cardinality(pings) <= 1

\* getResult returns nil only when its context is done, and the value it reads
\* otherwise is set: the loops panic at shutdown at most.
PanicsOnlyAtShutdown == [][life # "panic" /\ life' = "panic" => life = "stopping"]_vars

\* prepareThreewayPatchBytesForNodeStatus (node.go:423): a condition another
\* controller has put on the node is still there after our patches, whatever
\* we add or drop and whenever our copy was read.
OthersSurvive ==
    [][node # None /\ node' # None /\ node'.uid = node.uid
         => node.conds \ Ours \subseteq node'.conds]_vars

\* The same patch deletes what the provider no longer wants: of our conditions
\* the node has those of the last patch, and possibly those the object was
\* created with, which no annotation records.
NothingLeftBehind ==
    node # None /\ node.applied # None
      => node.conds \cap Ours \subseteq node.applied \cup node.born

\* leaseController (lease_controller_v1.go:59) maintains the lease as long as
\* the node is healthy: with clean pings it is renewed again and again,
\* whatever conflicts, failed calls and re-created nodes came before.
LeaseKept ==
    <>[](life = "up" /\ value = "ok") => []<><<Renew>>_vars

\* newLease never changes an owner, and a node created again by the error
\* handler has a new UID: the lease follows once it has been collected.
LeaseFollowsNode ==
    <>[](life = "up" /\ value = "ok")
      => <>[](node # None /\ lease = node.uid /\ serverNode = node.uid)

\* A provider that is stuck for good loses its lease: the checks time out and
\* the result they store stops the renewals (node_ping_controller.go:53).
StuckLosesLease ==
    <>[](life = "up" /\ provider = "stuck") => <>[][~ Renew]_vars

\* The last status the provider notified reaches the API server, also when the
\* node has been deleted and created again in the meantime.
StatusArrivesAtServer ==
    <>[](life = "up" /\ value = "ok")
      => <>[](/\ node # None
              /\ node.applied = wanted
              /\ wanted \subseteq node.conds)

\* group.Wait in controlLoop (node.go:318) returns: after cancellation all three
\* loops come to an end, even if a ping never does.
ShutdownCompletes ==
    life = "stopping" ~>
      \/ life # "stopping"
      \/ check.at = "returned" /\ loop.pc = "returned" /\ sync.pc \in {"off", "returned"}
=============================================================================
