----------------------------- MODULE WorkQueue -----------------------------
(***************************************************************************)
(* queue.Queue of src/internal/queue/queue.go: workers that take keys from *)
(* a client-go work queue, call the handler and requeue or forget the key. *)
(*                                                                         *)
(* The client-go queue itself (k8s.io/client-go v0.18.4, not under src/)   *)
(* is modelled from the way queue.go uses it: Add keeps a key at most once *)
(* (dirty), a key being processed is not queued again before Done, a       *)
(* delayed key waits in a set of its own, and the rate limiter counts the  *)
(* AddRateLimited calls per key since the last Forget.                     *)
(*                                                                         *)
(* NumRequeues is only ever compared with MaxRetries, so the count         *)
(* saturates at MaxRetries without losing a behaviour.                     *)
(***************************************************************************)
EXTENDS Naturals, Sequences

CONSTANTS
  Keys,            \* namespace/name strings
  NoKey,           \* the item of a worker that holds none
  Workers,         \* the goroutines Run starts
  MaxRetries       \* queue.MaxRetries (20 in the code)

ASSUME WorkQueueAssumption ==
  /\ NoKey \notin Keys
  /\ Workers # {}
  /\ MaxRetries \in Nat \ {0}

VARIABLES
  queue,       \* client-go: the keys to hand out, in order
  dirty,       \* client-go: keys that need a (further) handler call
  processing,  \* client-go: keys handed out and not Done
  waiting,     \* client-go: keys whose delay has not passed
  shutDown,    \* client-go: ShutDown was called
  failures,    \* the rate limiter's count per key, saturating at MaxRetries
  running,     \* Queue.running
  pc,          \* where each worker is
  item,        \* the key each worker holds
  owed,        \* history: keys somebody asked to handle and nobody took since
  tries,       \* history: handler calls per key since its count was last cleared
  counted      \* history: the limiter's count of the key at the first of them

clientGo == <<queue, dirty, processing, waiting, shutDown>>
workers == <<pc, item>>
calls == <<tries, counted>>
history == <<owed, calls>>
vars == <<queue, dirty, processing, waiting, shutDown, failures, running, pc, item, owed,
          tries, counted>>

PCs == {"off", "get", "handler", "requeue", "giveup", "forget", "done"}

\* Holding a key: Get has returned it and Done has not been called.
Holding(w) == pc[w] \notin {"off", "get"}

Init ==
  /\ queue = <<>>
  /\ dirty = {}
  /\ processing = {}
  /\ waiting = {}
  /\ shutDown = FALSE
  /\ failures = [k \in Keys |-> 0]
  /\ running = FALSE
  /\ pc = [w \in Workers |-> "off"]
  /\ item = [w \in Workers |-> NoKey]
  /\ owed = {}
  /\ tries = [k \in Keys |-> 0]
  /\ counted = [k \in Keys |-> 0]
-----------------------------------------------------------------------------
(* The client-go work queue (external). *)

\* Interface.Add: nothing after ShutDown; a key being processed is only marked.
Add(k) ==
  IF shutDown \/ k \in dirty
    THEN UNCHANGED <<queue, dirty>>
    ELSE /\ dirty' = dirty \cup {k}
         /\ queue' = IF k \in processing THEN queue ELSE Append(queue, k)

\* DelayingInterface.AddAfter with a positive delay.
AddAfter(k) == waiting' = IF shutDown THEN waiting ELSE waiting \cup {k}

\* RateLimiter.When, called by AddRateLimited.
CountFailure(k) ==
  failures' = [failures EXCEPT ![k] = IF @ < MaxRetries THEN @ + 1 ELSE @]

\* RateLimiter.Forget.
ForgetFailures(k) ==
  /\ failures' = [failures EXCEPT ![k] = 0]
  /\ tries' = [tries EXCEPT ![k] = 0]
  /\ counted' = [counted EXCEPT ![k] = 0]

\* waitingLoop: the delay of k has passed.
Ripe(k) ==
  /\ ~shutDown
  /\ k \in waiting
  /\ waiting' = waiting \ {k}
  /\ Add(k)
  /\ UNCHANGED <<processing, shutDown, failures, running, workers, history>>
-----------------------------------------------------------------------------
(* The methods of Queue. *)

Asked(k) == owed' = IF shutDown THEN owed ELSE owed \cup {k}

Enqueue(k) ==
  /\ CountFailure(k)
  /\ AddAfter(k)
  /\ Asked(k)
  /\ UNCHANGED <<queue, dirty, processing, shutDown, running, workers, calls>>

EnqueueWithoutRateLimit(k) ==
  /\ Add(k)
  /\ Asked(k)
  /\ UNCHANGED <<processing, waiting, shutDown, failures, running, workers, calls>>

\* A period of zero adds the key at once.
EnqueueAfter(k) ==
  /\ \/ AddAfter(k) /\ UNCHANGED <<queue, dirty>>
     \/ Add(k) /\ UNCHANGED waiting
  /\ Asked(k)
  /\ UNCHANGED <<processing, shutDown, failures, running, workers, calls>>

\* Mutant: Forget also takes the key out of the delayed ones.
Forget_Dequeues(k) ==
  /\ ForgetFailures(k)
  /\ waiting' = waiting \ {k}
  /\ owed' = owed \ {k}
  /\ UNCHANGED <<queue, dirty, processing, shutDown, running, workers>>

\* Forget clears the rate limiter's count; the key stays queued or delayed.
Forget(k) ==
  /\ ForgetFailures(k)
  /\ UNCHANGED <<clientGo, running, workers, owed>>

\* NewPodController gives one limiter to three queues: another queue counts or
\* forgets the same key.
LimiterUsedElsewhere(k) ==
  /\ \/ CountFailure(k) /\ UNCHANGED calls
     \/ ForgetFailures(k)
  /\ UNCHANGED <<clientGo, running, workers, owed>>

\* Run: the workers start, and loop until the context is cancelled.
Run ==
  /\ ~running /\ ~shutDown
  /\ running' = TRUE
  /\ pc' = [w \in Workers |-> "get"]
  /\ UNCHANGED <<clientGo, failures, item, history>>

\* The context is cancelled: ShutDown.
Cancel ==
  /\ running /\ ~shutDown
  /\ shutDown' = TRUE
  /\ UNCHANGED <<queue, dirty, processing, waiting, failures, running, workers, history>>

\* group.Wait has returned: Run ends.
RunReturns ==
  /\ running /\ shutDown
  /\ \A w \in Workers : pc[w] = "off"
  /\ running' = FALSE
  /\ UNCHANGED <<clientGo, failures, workers, history>>
-----------------------------------------------------------------------------
(* A worker: handleQueueItem and handleQueueItemObject. *)

Get(w) ==
  LET k == Head(queue) IN
  /\ pc[w] = "get" /\ queue # <<>>
  /\ queue' = Tail(queue)
  /\ dirty' = dirty \ {k}
  /\ processing' = processing \cup {k}
  /\ pc' = [pc EXCEPT ![w] = "handler"]
  /\ item' = [item EXCEPT ![w] = k]
  /\ owed' = owed \ {k}
  /\ tries' = [tries EXCEPT ![k] = IF @ < MaxRetries + 2 THEN @ + 1 ELSE @]
  /\ counted' = [counted EXCEPT ![k] = IF tries[k] = 0 THEN failures[k] ELSE @]
  /\ UNCHANGED <<waiting, shutDown, failures, running>>

\* Mutant: handleQueueItem ignores the shutdown flag.
GetShutdown_Ignored(w) ==
  /\ pc[w] = "get" /\ queue = <<>> /\ shutDown
  /\ UNCHANGED vars

\* Get reports the shutdown only when nothing is queued.
GetShutdown(w) ==
  /\ pc[w] = "get" /\ queue = <<>> /\ shutDown
  /\ pc' = [pc EXCEPT ![w] = "off"]
  /\ UNCHANGED <<clientGo, failures, running, item, history>>

HandlerSucceeds(w) ==
  /\ pc[w] = "handler"
  /\ pc' = [pc EXCEPT ![w] = "forget"]
  /\ UNCHANGED <<clientGo, failures, running, item, history>>

\* The handler returned an error: the key is tried again while NumRequeues
\* is below MaxRetries.
HandlerFails(w) ==
  LET k == item[w]
      again == failures[k] < MaxRetries IN
  /\ pc[w] = "handler"
  /\ pc' = [pc EXCEPT ![w] = IF again THEN "requeue" ELSE "giveup"]
  /\ owed' = IF again /\ ~shutDown THEN owed \cup {k} ELSE owed
  /\ UNCHANGED <<clientGo, failures, running, item, calls>>

\* Mutant: the failed key is queued again with AddAfter, which counts nothing.
Requeue_Uncounted(w) ==
  /\ pc[w] = "requeue"
  /\ AddAfter(item[w])
  /\ pc' = [pc EXCEPT ![w] = "done"]
  /\ UNCHANGED <<queue, dirty, processing, shutDown, failures, running, item, history>>

Requeue(w) ==
  /\ pc[w] = "requeue"
  /\ CountFailure(item[w])
  /\ AddAfter(item[w])
  /\ pc' = [pc EXCEPT ![w] = "done"]
  /\ UNCHANGED <<queue, dirty, processing, shutDown, running, item, history>>

ForgetItem(w) ==
  /\ pc[w] \in {"forget", "giveup"}
  /\ ForgetFailures(item[w])
  /\ pc' = [pc EXCEPT ![w] = "done"]
  /\ UNCHANGED <<clientGo, running, item, owed>>

\* Mutant: Done does not look at the dirty mark.
Done_ForgetsDirty(w) ==
  /\ pc[w] = "done"
  /\ processing' = processing \ {item[w]}
  /\ pc' = [pc EXCEPT ![w] = "get"]
  /\ item' = [item EXCEPT ![w] = NoKey]
  /\ UNCHANGED <<queue, dirty, waiting, shutDown, failures, running, history>>

\* The deferred Done: a key marked while it was processed is queued again.
Done(w) ==
  LET k == item[w] IN
  /\ pc[w] = "done"
  /\ processing' = processing \ {k}
  /\ queue' = IF k \in dirty THEN Append(queue, k) ELSE queue
  /\ pc' = [pc EXCEPT ![w] = "get"]
  /\ item' = [item EXCEPT ![w] = NoKey]
  /\ UNCHANGED <<dirty, waiting, shutDown, failures, running, history>>

Worker(w) ==
  \/ Get(w) \/ GetShutdown(w)
  \/ HandlerSucceeds(w) \/ HandlerFails(w)
  \/ Requeue(w) \/ ForgetItem(w) \/ Done(w)

Client(k) ==
  \/ Enqueue(k) \/ EnqueueWithoutRateLimit(k) \/ EnqueueAfter(k)
  \/ Forget(k) \/ LimiterUsedElsewhere(k)

Next ==
  \/ \E k \in Keys : Client(k) \/ Ripe(k)
  \/ \E w \in Workers : Worker(w)
  \/ Run \/ Cancel \/ RunReturns

Spec == Init /\ [][Next]_vars

\* Go schedules every runnable goroutine: the workers, the delaying queue's
\* loop and the goroutine of Run make progress, and a handler returns.
Fairness ==
  /\ \A w \in Workers : WF_vars(Worker(w))
  /\ \A k \in Keys : WF_vars(Ripe(k))
  /\ WF_vars(Run) /\ WF_vars(RunReturns)

FairSpec == Spec /\ Fairness
-----------------------------------------------------------------------------
(* Properties. *)

\* Type correctness of the queue, the limiter and the workers of queue.go.
TypeOK ==
  /\ queue \in Seq(Keys)
  /\ dirty \subseteq Keys
  /\ processing \subseteq Keys
  /\ waiting \subseteq Keys
  /\ shutDown \in BOOLEAN
  /\ failures \in [Keys -> 0 .. MaxRetries]
  /\ running \in BOOLEAN
  /\ pc \in [Workers -> PCs]
  /\ item \in [Workers -> Keys \cup {NoKey}]
  /\ owed \subseteq Keys
  /\ tries \in [Keys -> 0 .. MaxRetries + 2]
  /\ counted \in [Keys -> 0 .. MaxRetries]

\* handleQueueItemObject never runs for one key on two workers at once: the
\* handlers of the pod controller rely on it for their per-key state.
OneWorkerPerKey ==
  \A v, w \in Workers : Holding(v) /\ Holding(w) /\ item[v] = item[w] => v = w

\* Enqueue, EnqueueAfter, EnqueueWithoutRateLimit and a failed call with
\* retries left are never lost: until a worker takes the key it is queued,
\* delayed, marked dirty, or about to be requeued by the worker that failed.
EnqueueNotLost ==
  ~shutDown =>
    \A k \in owed :
      \/ k \in dirty \cup waiting
      \/ \E w \in Workers : pc[w] = "requeue" /\ item[w] = k

\* handleQueueItemObject calls the handler for a key at most MaxRetries + 1
\* times, less what the limiter had counted before the first call, until that
\* count is cleared: by this queue, which then forgets the key or has handled it,
\* or by another queue that shares the limiter.  The comment on MaxRetries calls
\* it the number of tries: that is right for a key that came by one Enqueue.  A
\* key that came by EnqueueWithoutRateLimit or EnqueueAfter has one more, and
\* every further Enqueue before the first call costs one.
TriesBounded == \A k \in Keys : tries[k] + counted[k] <= MaxRetries + 1

\* A key somebody asked for is taken by a worker, whatever the handler
\* returns, unless the queue is shut down.
AskedIsHandled == \A k \in Keys : k \in owed ~> k \notin owed \/ shutDown

\* Run: once the context is cancelled all workers exit and Run returns, even
\* when the handlers keep failing.
CancelStopsRun == shutDown ~> ~running

\* The queue implements KeyQueue, its promise to the controllers.
KQ == INSTANCE KeyQueue WITH ready <- dirty, delayed <- waiting,
                             busy <- processing, closed <- shutDown
ImplementsKeyQueue == KQ!KQFairSpec
=============================================================================
