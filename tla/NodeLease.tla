----------------------------- MODULE NodeLease ------------------------------
(***************************************************************************)
(* The lease controller (node/lease_controller_v1.go) and the lease object *)
(* of the API server.                                                      *)
(*                                                                         *)
(* A copy of the lease has the owner it was read with and says whether its *)
(* resource version is still the current one; renewal times are left out,  *)
(* a renewal is the step Renew.                                            *)
(***************************************************************************)
EXTENDS NodeStatus

CONSTANT MaxUpdateRetries

ASSUME RetriesAssumption == MaxUpdateRetries \in Nat

VARIABLES
    lease,          \* UID that owns the lease in the API server; 0: no lease
    latestLease,    \* the controller's copy, or None
    base,           \* the copy retryUpdateLease works on, or None
    sync            \* where the goroutine of the lease controller is

leaseVars == <<lease, latestLease, base, sync>>

Copy(owner) == [owner |-> owner, current |-> TRUE]
Outdated(c) == IF c = None THEN None ELSE [c EXCEPT !.current = FALSE]

(* call says which of the two calls of retryUpdateLease in sync runs, or   *)
(* none; i is its loop counter; node is the UID of the node sync read.     *)
LeaseAt(pc) == [pc |-> pc, call |-> None, i |-> 0, node |-> 0]

\* The lease of an earlier run of the kubelet may be there.
LeaseInit ==
    /\ lease \in (IF node = None THEN {0} ELSE {0, node.uid})
    /\ latestLease = None
    /\ base = None
    /\ sync = LeaseAt("off")

(***************************************************************************)
(* Surroundings                                                            *)
(***************************************************************************)
OtherUpdatesLease ==
    /\ lease # 0
    /\ Disrupt
    /\ latestLease' = Outdated(latestLease)
    /\ base' = Outdated(base)
    /\ UNCHANGED <<life, cellVars, lease, sync>>

\* The garbage collector removes a lease whose owner does not exist.
CollectLease ==
    /\ lease # 0
    /\ node # None => node.uid # lease
    /\ lease' = 0
    /\ latestLease' = Outdated(latestLease)
    /\ base' = Outdated(base)
    /\ UNCHANGED <<envVars, cellVars, sync>>

(***************************************************************************)
(* sync                                                                    *)
(***************************************************************************)

\* Run is started when ensureNode has succeeded and calls sync at once; later
\* calls come at the renew interval, until the context is done.
SyncBegins ==
    /\ Alive
    /\ \/ sync.pc = "off" /\ loop.stage = "loop"
       \/ sync.pc = "idle" /\ life = "up"
    /\ GetResult("lease")
    /\ sync' = LeaseAt("ping")
    /\ UNCHANGED <<envVars, lease, latestLease, base>>

\* sync after getResult, up to the first call to the API server.  When the
\* wait was cut short pingResult is nil and its field error is read.
SyncGetsResult ==
    /\ Alive
    /\ sync.pc = "ping"
    /\ Cond!Drop("lease")
    /\ \/ /\ life = "stopping" \/ (ResultReady("lease") /\ value = "none")
          /\ life' = "panic"
          /\ UNCHANGED <<base, sync>>
       \/ /\ ResultReady("lease") /\ value # "none"
          /\ base' = IF value = "ok" THEN latestLease ELSE None
          /\ sync' = IF value = "err" THEN LeaseAt("idle")
                     ELSE IF latestLease # None
                     THEN [LeaseAt("update") EXCEPT !.call = "latest", !.node = serverNode]
                     ELSE [LeaseAt("ensure") EXCEPT !.node = serverNode]
          /\ UNCHANGED life
    /\ UNCHANGED <<budget, lease, latestLease>>

(***************************************************************************)
(* retryUpdateLease                                                        *)
(***************************************************************************)

\* Mutant: no fallback to backoffEnsureLease.
UpdateFailed_NoFallback ==
    /\ base' = None
    /\ sync' = LeaseAt("idle")

\* retryUpdateLease gives up: sync falls back to backoffEnsureLease after the
\* call with latestLease, and waits for the next interval after the other.
UpdateFailed ==
    /\ base' = None
    /\ sync' = IF sync.call = "latest"
               THEN [sync EXCEPT !.pc = "ensure", !.call = None, !.i = 0]
               ELSE LeaseAt("idle")

NextAttempt(b) ==
    IF sync.i + 1 < MaxUpdateRetries
    THEN sync' = [sync EXCEPT !.pc = "update", !.i = @ + 1] /\ base' = b
    ELSE UpdateFailed

\* newLease keeps the owner of the copy it is given, so a lease is renewed for
\* the node it was created for.
LeaseUpdated ==
    /\ lease # 0
    /\ base # None
    /\ base.current
    /\ latestLease' = Copy(base.owner)
    /\ base' = None
    /\ sync' = LeaseAt("idle")
    /\ UNCHANGED <<envVars, lease>>

\* OptimisticLockError: the newer version is fetched before the next attempt.
LeaseConflict ==
    /\ lease # 0
    /\ base # None
    /\ ~ base.current
    /\ sync' = [sync EXCEPT !.pc = "ensure"]
    /\ UNCHANGED <<envVars, lease, latestLease, base>>

\* NotFound, and an error that is not a conflict, whether or not the update
\* was applied, lead to the next attempt; a cancelled context to none.
LeaseUpdateFails ==
    /\ \/ /\ lease = 0 /\ base # None
          /\ NextAttempt(base)
          /\ UNCHANGED <<budget, latestLease>>
       \/ /\ base # None
          /\ Disrupt
          /\ NextAttempt(base)
          /\ UNCHANGED latestLease
       \/ /\ lease # 0 /\ base # None /\ base.current
          /\ Disrupt
          /\ NextAttempt(Outdated(base))
          /\ latestLease' = Outdated(latestLease)
       \/ /\ life = "stopping"
          /\ UpdateFailed
          /\ UNCHANGED <<budget, latestLease>>
    /\ UNCHANGED <<life, lease>>

UpdateLease ==
    /\ Alive
    /\ sync.pc = "update"
    /\ LeaseUpdated \/ LeaseConflict \/ LeaseUpdateFails
    /\ UNCHANGED cellVars

(***************************************************************************)
(* backoffEnsureLease and ensureLease                                      *)
(***************************************************************************)

\* The lease, or None when the context was done, goes back to the caller.
EnsureReturns(l, created) ==
    IF sync.call = None
    THEN /\ latestLease' = l
         /\ IF created \/ l = None
            THEN base' = None /\ sync' = LeaseAt("idle")
            ELSE base' = l /\ sync' = [sync EXCEPT !.pc = "update", !.call = "ensured"]
    ELSE NextAttempt(l) /\ UNCHANGED latestLease

\* ensureLease: Get.  After an error it is called again when the backoff is
\* over, unless the context is done.
EnsureLease ==
    /\ Alive
    /\ sync.pc = "ensure"
    /\ \/ lease # 0 /\ EnsureReturns(Copy(lease), FALSE) /\ UNCHANGED budget
       \/ /\ lease = 0
          /\ sync' = [sync EXCEPT !.pc = "create"]
          /\ UNCHANGED <<budget, latestLease, base>>
       \/ Disrupt /\ UNCHANGED <<latestLease, base, sync>>
       \/ life = "stopping" /\ EnsureReturns(None, FALSE) /\ UNCHANGED budget
    /\ UNCHANGED <<life, cellVars, lease>>

\* ensureLease: Create.  The owner is the node that sync read before.
CreateLease ==
    /\ Alive
    /\ sync.pc = "create"
    /\ \/ /\ lease = 0
          /\ lease' = sync.node
          /\ EnsureReturns(Copy(sync.node), TRUE)
          /\ UNCHANGED budget
       \/ /\ CallFails
          /\ lease' \in {lease, IF lease = 0 THEN sync.node ELSE lease}
          /\ IF life = "stopping"
             THEN EnsureReturns(None, FALSE)
             ELSE /\ sync' = [sync EXCEPT !.pc = "ensure"]
                  /\ UNCHANGED <<latestLease, base>>
    /\ UNCHANGED <<life, cellVars>>

SyncLoopReturns ==
    /\ life = "stopping"
    /\ sync.pc = "idle"
    /\ sync' = LeaseAt("returned")
    /\ UNCHANGED <<envVars, cellVars, lease, latestLease, base>>

\* The server has a renewed lease after this step.
Renew == (UpdateLease /\ LeaseUpdated) \/ (CreateLease /\ lease = 0 /\ lease' # 0)

LeaseTypeOK ==
    LET Copies == [owner : 1..MaxUid, current : BOOLEAN] \cup {None} IN
    /\ lease \in 0..MaxUid
    /\ latestLease \in Copies
    /\ base \in Copies
    /\ sync \in [pc : {"off", "ping", "update", "ensure", "create", "idle", "returned"},
                 call : {None, "latest", "ensured"},
                 i : 0..MaxUpdateRetries, node : 0..MaxUid]
=============================================================================
