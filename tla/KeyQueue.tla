------------------------------ MODULE KeyQueue ------------------------------
(***************************************************************************)
(* What a queue.Queue (src/internal/queue/queue.go) promises its users, as *)
(* an abstract specification: a key that was enqueued is handed to a       *)
(* handler later, one key is never handed to two handlers at a time, and a *)
(* key enqueued while its handler runs is handled once more.  WorkQueue    *)
(* implements this specification; the pod controller is written against it.*)
(***************************************************************************)
CONSTANT Keys        \* the keys that can be enqueued

VARIABLES
  ready,      \* keys to be handled as soon as a worker is free
  delayed,    \* keys that become ready when their delay has passed
  busy,       \* keys whose handler is running
  closed      \* the queue has been shut down

kqVars == <<ready, delayed, busy, closed>>

KQInit ==
  /\ ready = {}
  /\ delayed = {}
  /\ busy = {}
  /\ closed = FALSE

\* EnqueueWithoutRateLimit: at once, unless the queue is shut down.
Put(k) ==
  /\ ~closed
  /\ ready' = ready \cup {k}
  /\ UNCHANGED <<delayed, busy, closed>>

\* Enqueue, EnqueueAfter and the retry of a failed handler: after a delay.
PutLater(k) ==
  /\ ~closed
  /\ delayed' = delayed \cup {k}
  /\ UNCHANGED <<ready, busy, closed>>

\* The delay of k has passed.
Ripen(k) ==
  /\ ~closed
  /\ k \in delayed
  /\ delayed' = delayed \ {k}
  /\ ready' = ready \cup {k}
  /\ UNCHANGED <<busy, closed>>

\* A worker takes k and calls the handler.
Take(k) ==
  /\ k \in ready \ busy
  /\ ready' = ready \ {k}
  /\ busy' = busy \cup {k}
  /\ UNCHANGED <<delayed, closed>>

\* The handler of k has returned.
Release(k) ==
  /\ k \in busy
  /\ busy' = busy \ {k}
  /\ UNCHANGED <<ready, delayed, closed>>

Close ==
  /\ ~closed
  /\ closed' = TRUE
  /\ UNCHANGED <<ready, delayed, busy>>

KQNext ==
  \/ \E k \in Keys : Put(k) \/ PutLater(k) \/ Ripen(k) \/ Take(k) \/ Release(k)
  \/ Close

KQSpec == KQInit /\ [][KQNext]_kqVars

\* The promise with its progress part: a key that can be handled is handled,
\* and delays pass.
KQFairSpec ==
  /\ KQSpec
  /\ \A k \in Keys : WF_kqVars(Take(k)) /\ WF_kqVars(Ripen(k))
=============================================================================
