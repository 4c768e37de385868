-------------------------- MODULE WorkQueueProofs --------------------------
(***************************************************************************)
(* Proofs about WorkQueue for every set of keys and workers and every      *)
(* value of MaxRetries.                                                    *)
(***************************************************************************)
EXTENDS WorkQueue, SequenceTheorems, TLAPS

\* Every element of s is in T, and s has no element twice.
DistinctIn(s, T) ==
  /\ \A i \in 1 .. Len(s) : s[i] \in T
  /\ \A i, j \in 1 .. Len(s) : s[i] = s[j] => i = j

\* The queued keys are the dirty keys nobody processes, each queued once.
QueueIsPending == DistinctIn(queue, dirty \ processing)

\* A worker that holds a key holds a key that is being processed.
HeldIsProcessing ==
  \A w \in Workers : Holding(w) => item[w] \in processing

\* The handler calls, and what the limiter had counted before them.
Spent(k) == tries[k] + counted[k]

\* They are tied to the limiter's count, for a key nobody processes and for the
\* key a worker holds.
Free(k) == \A w \in Workers : Holding(w) => item[w] # k

FreeKeyTries(k) ==
  /\ Spent(k) <= MaxRetries
  /\ failures[k] < MaxRetries => Spent(k) <= failures[k]

HeldKeyTries(w) ==
  /\ Spent(item[w]) <= MaxRetries + 1
  /\ failures[item[w]] < MaxRetries => Spent(item[w]) <= failures[item[w]] + 1
  /\ pc[w] \in {"requeue", "done"} => Spent(item[w]) <= MaxRetries
  /\ pc[w] = "done" => FreeKeyTries(item[w])

TriesFollowFailures ==
  /\ \A k \in Keys : tries[k] = 0 => counted[k] = 0
  /\ \A k \in Keys : Free(k) => FreeKeyTries(k)
  /\ \A w \in Workers : Holding(w) => HeldKeyTries(w)

\* There are workers only between the start and the end of Run.
WorkersOnlyInRun == running \/ \A w \in Workers : pc[w] = "off"

IInv == TypeOK /\ QueueIsPending /\ HeldIsProcessing /\ OneWorkerPerKey /\ WorkersOnlyInRun
-----------------------------------------------------------------------------
(* Sequences without repetition. *)

\* What Add does to the queue: a new key at the end keeps it free of duplicates.
LEMMA AppendDistinct ==
  ASSUME NEW S, NEW s \in Seq(S), NEW T, NEW U, NEW e \in S,
         DistinctIn(s, T), T \subseteq U, e \in U \ T
  PROVE  DistinctIn(Append(s, e), U)
<1>1. /\ Append(s, e) \in Seq(S)
      /\ Len(Append(s, e)) = Len(s) + 1
      /\ \A i \in 1 .. Len(s) : Append(s, e)[i] = s[i]
      /\ Append(s, e)[Len(s) + 1] = e
  BY AppendProperties
<1>2. Len(s) \in Nat
  OBVIOUS
<1>3. \A i \in 1 .. Len(s) + 1 : i \in 1 .. Len(s) \/ i = Len(s) + 1
  BY <1>2
<1> HIDE DEF DistinctIn
<1>4. \A i \in 1 .. Len(s) : s[i] \in T
  BY DEF DistinctIn
<1>5. \A i, j \in 1 .. Len(s) : s[i] = s[j] => i = j
  BY DEF DistinctIn
<1>6. \A i \in 1 .. Len(Append(s, e)) : Append(s, e)[i] \in U
  BY <1>1, <1>3, <1>4
<1>7. \A i, j \in 1 .. Len(Append(s, e)) : Append(s, e)[i] = Append(s, e)[j] => i = j
  BY <1>1, <1>3, <1>4, <1>5
<1> QED
  BY <1>6, <1>7 DEF DistinctIn

\* What Get does to the queue: the key taken does not occur in the rest.
LEMMA TailDistinct ==
  ASSUME NEW S, NEW s \in Seq(S), NEW T, s # <<>>, DistinctIn(s, T)
  PROVE  Head(s) \in T /\ DistinctIn(Tail(s), T \ {Head(s)})
<1>1. /\ Len(Tail(s)) = Len(s) - 1
      /\ \A i \in 1 .. Len(Tail(s)) : Tail(s)[i] = s[i + 1]
  BY HeadTailProperties
<1>2. Len(s) \in Nat /\ Len(s) # 0
  BY EmptySeq
<1>3. Head(s) = s[1]
  OBVIOUS
<1>4. \A i \in 1 .. Len(s) - 1 : i + 1 \in 1 .. Len(s) /\ i + 1 # 1
  BY <1>2
<1>5. 1 \in 1 .. Len(s)
  BY <1>2
<1>6. \A i \in 1 .. Len(Tail(s)) : Tail(s)[i] \in T \ {Head(s)}
  BY <1>1, <1>3, <1>4, <1>5 DEF DistinctIn
<1>7. ASSUME NEW i \in 1 .. Len(Tail(s)), NEW j \in 1 .. Len(Tail(s)),
             Tail(s)[i] = Tail(s)[j]
      PROVE  i = j
  <2>1. i + 1 = j + 1
    BY <1>1, <1>4, <1>7 DEF DistinctIn
  <2> QED
    BY <2>1
<1> QED
  BY <1>3, <1>5, <1>6, <1>7 DEF DistinctIn
-----------------------------------------------------------------------------
(* The inductive invariant. *)

\* client-go's Add keeps the queue well formed.
LEMMA AddKeepsQueue ==
  ASSUME TypeOK, QueueIsPending, NEW k \in Keys, Add(k), processing' = processing
  PROVE  /\ queue' \in Seq(Keys)
         /\ dirty' \subseteq Keys
         /\ QueueIsPending'
<1>1. CASE shutDown \/ k \in dirty
  BY <1>1, Zenon DEF Add, TypeOK, QueueIsPending
<1>2. CASE ~(shutDown \/ k \in dirty) /\ k \in processing
  <2>1. dirty' \ processing' = dirty \ processing /\ queue' = queue
    BY <1>2 DEF Add
  <2> QED
    BY <1>2, <2>1, Zenon DEF Add, TypeOK, QueueIsPending
<1>3. CASE ~(shutDown \/ k \in dirty) /\ k \notin processing
  <2>1. queue' = Append(queue, k) /\ dirty' = dirty \cup {k}
    BY <1>3 DEF Add
  <2>2. queue' \in Seq(Keys) /\ dirty' \subseteq Keys
    BY <2>1 DEF TypeOK
  <2>3. DistinctIn(queue', dirty' \ processing')
    <3>1. dirty \ processing \subseteq dirty' \ processing'
      BY <2>1
    <3>2. k \in (dirty' \ processing') \ (dirty \ processing)
      BY <1>3, <2>1
    <3>3. queue \in Seq(Keys)
      BY DEF TypeOK
    <3> QED
      BY <2>1, <3>1, <3>2, <3>3, AppendDistinct, Zenon DEF QueueIsPending
  <2> QED
    BY <2>2, <2>3 DEF QueueIsPending
<1> QED
  BY <1>1, <1>2, <1>3

\* The invariant holds in the state New returns.
LEMMA InitIInv == Init => IInv
<1> SUFFICES ASSUME Init PROVE IInv
  OBVIOUS
<1> USE WorkQueueAssumption
<1>1. TypeOK
  <2>1. queue \in Seq(Keys)
    BY EmptySeq DEF Init
  <2>2. /\ failures \in [Keys -> 0 .. MaxRetries]
        /\ tries \in [Keys -> 0 .. MaxRetries + 2]
        /\ counted \in [Keys -> 0 .. MaxRetries]
    BY DEF Init
  <2> QED
    BY <2>1, <2>2, Zenon DEF Init, TypeOK, PCs
<1>2. QueueIsPending
  BY DEF Init, QueueIsPending, DistinctIn
<1>3. HeldIsProcessing /\ OneWorkerPerKey /\ WorkersOnlyInRun
  BY DEF Init, HeldIsProcessing, OneWorkerPerKey, WorkersOnlyInRun, Holding
<1> QED
  BY <1>1, <1>2, <1>3 DEF IInv

\* A step that moves no worker into or out of the holding states, and leaves
\* the processing set alone, keeps what is said about holding workers.
LEMMA SameHolders ==
  ASSUME IInv, UNCHANGED processing, UNCHANGED item,
         \A w \in Workers : Holding(w)' => Holding(w)
  PROVE  HeldIsProcessing' /\ OneWorkerPerKey'
  BY DEF IInv, HeldIsProcessing, OneWorkerPerKey

\* Every step of a user of the queue or of client-go keeps the invariant.
LEMMA ClientStep ==
  ASSUME IInv, NEW k \in Keys, Client(k) \/ Ripe(k)
  PROVE  IInv'
<1> USE WorkQueueAssumption
<1>1. UNCHANGED <<processing, shutDown, running, pc, item>>
  BY DEF Client, Ripe, Enqueue, EnqueueWithoutRateLimit, EnqueueAfter, Forget,
         LimiterUsedElsewhere, clientGo, workers
<1>2. HeldIsProcessing' /\ OneWorkerPerKey'
  BY <1>1, SameHolders DEF Holding
<1>3. waiting' \subseteq Keys /\ owed' \subseteq Keys
  BY DEF IInv, TypeOK, Client, Ripe, Enqueue, EnqueueWithoutRateLimit, EnqueueAfter,
         Forget, LimiterUsedElsewhere, AddAfter, Asked, clientGo, history
<1>4. failures' \in [Keys -> 0 .. MaxRetries]
  BY DEF IInv, TypeOK, Client, Ripe, Enqueue, EnqueueWithoutRateLimit, EnqueueAfter,
         Forget, LimiterUsedElsewhere, CountFailure, ForgetFailures
<1>5. tries' \in [Keys -> 0 .. MaxRetries + 2] /\ counted' \in [Keys -> 0 .. MaxRetries]
  <2>1. ForgetFailures(k) \/ UNCHANGED <<tries, counted>>
    BY Zenon DEF Client, Ripe, Enqueue, EnqueueWithoutRateLimit, EnqueueAfter,
                 Forget, LimiterUsedElsewhere, history, calls
  <2> QED
    BY <2>1, SMTT(40) DEF IInv, TypeOK, ForgetFailures
<1>6. Add(k) \/ UNCHANGED <<queue, dirty>>
  BY DEF Client, Ripe, Enqueue, EnqueueWithoutRateLimit, EnqueueAfter, Forget,
         LimiterUsedElsewhere, clientGo
<1>7. queue' \in Seq(Keys) /\ dirty' \subseteq Keys /\ QueueIsPending'
  BY <1>1, <1>6, AddKeepsQueue, Zenon DEF IInv, TypeOK, QueueIsPending
<1>8. TypeOK'
  BY <1>1, <1>3, <1>4, <1>5, <1>7 DEF IInv, TypeOK
<1> QED
  BY <1>1, <1>2, <1>7, <1>8 DEF IInv, WorkersOnlyInRun

\* Get hands a worker a key that no other worker holds.
LEMMA GetStep ==
  ASSUME IInv, NEW w \in Workers, Get(w)
  PROVE  IInv'
<1> DEFINE k == Head(queue)
<1> USE WorkQueueAssumption
<1>1. queue \in Seq(Keys) /\ queue # <<>>
  BY DEF IInv, TypeOK, Get
<1>2. k \in Keys /\ Tail(queue) \in Seq(Keys)
  BY <1>1, HeadTailProperties
<1>3. k \in dirty \ processing /\ DistinctIn(Tail(queue), (dirty \ processing) \ {k})
  BY <1>1, TailDistinct DEF IInv, QueueIsPending
<1> HIDE DEF k
<1>4. /\ queue' = Tail(queue) /\ dirty' = dirty \ {k} /\ processing' = processing \cup {k}
      /\ pc[w] = "get" /\ pc' = [pc EXCEPT ![w] = "handler"]
      /\ item' = [item EXCEPT ![w] = k]
      /\ owed' = owed \ {k}
      /\ tries' = [tries EXCEPT ![k] = IF @ < MaxRetries + 2 THEN @ + 1 ELSE @]
      /\ counted' = [counted EXCEPT ![k] = IF tries[k] = 0 THEN failures[k] ELSE @]
      /\ UNCHANGED <<waiting, shutDown, failures, running>>
  BY DEF Get, k
<1>5. TypeOK'
  <2>1. tries \in [Keys -> 0 .. MaxRetries + 2] /\ counted \in [Keys -> 0 .. MaxRetries]
        /\ failures \in [Keys -> 0 .. MaxRetries]
    BY Zenon DEF IInv, TypeOK
  <2>2. tries' \in [Keys -> 0 .. MaxRetries + 2] /\ counted' \in [Keys -> 0 .. MaxRetries]
    BY ONLY <1>2, <1>4, <2>1, WorkQueueAssumption, SMTT(40)
  <2>3. pc' \in [Workers -> PCs] /\ item' \in [Workers -> Keys \cup {NoKey}]
    BY <1>2, <1>4, Zenon DEF IInv, TypeOK, PCs
  <2> QED
    BY <1>2, <1>4, <2>2, <2>3, Zenon DEF IInv, TypeOK
<1>6. QueueIsPending'
  <2>1. dirty' \ processing' = (dirty \ processing) \ {k}
    BY <1>4
  <2> QED
    BY <1>3, <1>4, <2>1, Zenon DEF QueueIsPending
<1>7. \A v \in Workers \ {w} : Holding(v)' = Holding(v) /\ item'[v] = item[v]
  BY <1>4 DEF IInv, TypeOK, Holding
<1>8. item'[w] = k /\ k \in processing'
  BY <1>4 DEF IInv, TypeOK
<1>9. HeldIsProcessing'
  BY <1>4, <1>7, <1>8 DEF IInv, HeldIsProcessing
<1>10. \A v \in Workers \ {w} : Holding(v) => item[v] # k
  BY <1>3 DEF IInv, HeldIsProcessing
<1>11. OneWorkerPerKey'
  BY <1>7, <1>8, <1>10 DEF IInv, OneWorkerPerKey
<1>12. WorkersOnlyInRun'
  BY <1>4 DEF IInv, WorkersOnlyInRun
<1> QED
  BY <1>5, <1>6, <1>9, <1>11, <1>12 DEF IInv

\* Done takes the key out of processing and queues it when it is dirty.
LEMMA DoneStep ==
  ASSUME IInv, NEW w \in Workers, Done(w)
  PROVE  IInv'
<1> DEFINE k == item[w]
<1> USE WorkQueueAssumption
<1>1. k \in processing /\ k \in Keys /\ queue \in Seq(Keys)
  BY Zenon DEF IInv, TypeOK, HeldIsProcessing, Holding, Done
<1> HIDE DEF k
<1>2. /\ pc[w] = "done" /\ pc' = [pc EXCEPT ![w] = "get"]
      /\ item' = [item EXCEPT ![w] = NoKey]
      /\ processing' = processing \ {k}
      /\ queue' = IF k \in dirty THEN Append(queue, k) ELSE queue
      /\ UNCHANGED <<dirty, waiting, shutDown, failures, running, owed, tries, counted>>
  BY DEF Done, k, history, calls
<1>3. QueueIsPending' /\ queue' \in Seq(Keys)
  <2>1. CASE k \in dirty
    <3>1. queue' = Append(queue, k)
      BY <1>2, <2>1
    <3>2. dirty \ processing \subseteq dirty' \ processing'
      BY <1>2
    <3>3. k \in (dirty' \ processing') \ (dirty \ processing)
      BY <1>1, <1>2, <2>1
    <3>4. DistinctIn(queue, dirty \ processing)
      BY DEF IInv, QueueIsPending
    <3>5. DistinctIn(Append(queue, k), dirty' \ processing')
      BY <1>1, <3>2, <3>3, <3>4, AppendDistinct, Zenon
    <3> QED
      BY <1>1, <3>1, <3>5 DEF QueueIsPending
  <2>2. CASE k \notin dirty
    <3>1. dirty' \ processing' = dirty \ processing /\ queue' = queue
      BY <1>2, <2>2
    <3> QED
      BY <1>1, <3>1, Zenon DEF IInv, QueueIsPending
  <2> QED
    BY <2>1, <2>2
<1>4. TypeOK'
  BY <1>2, <1>3 DEF IInv, TypeOK, PCs
<1>5. ~Holding(w)'
  BY <1>2 DEF IInv, TypeOK, Holding
<1>6. \A v \in Workers \ {w} : Holding(v)' = Holding(v) /\ item'[v] = item[v]
  BY <1>2 DEF IInv, TypeOK, Holding
<1>7. \A v \in Workers \ {w} : Holding(v) => item[v] # k
  BY DEF IInv, OneWorkerPerKey, Holding, Done, k
<1>8. HeldIsProcessing'
  BY <1>2, <1>5, <1>6, <1>7 DEF IInv, HeldIsProcessing
<1>9. OneWorkerPerKey'
  BY <1>5, <1>6 DEF IInv, OneWorkerPerKey
<1>10. WorkersOnlyInRun'
  BY <1>2 DEF IInv, WorkersOnlyInRun
<1> QED
  BY <1>3, <1>4, <1>8, <1>9, <1>10 DEF IInv

\* The other steps of a worker neither take nor release a key.
LEMMA WorkerStep ==
  ASSUME IInv, NEW w \in Workers, Worker(w)
  PROVE  IInv'
<1> USE WorkQueueAssumption
<1>1. CASE Get(w)
  BY <1>1, GetStep
<1>2. CASE Done(w)
  BY <1>2, DoneStep
<1>3. CASE GetShutdown(w) \/ HandlerSucceeds(w) \/ HandlerFails(w) \/ Requeue(w) \/ ForgetItem(w)
  <2>1. UNCHANGED <<queue, dirty, processing, item, shutDown, running>>
    BY <1>3 DEF GetShutdown, HandlerSucceeds, HandlerFails, Requeue, ForgetItem, clientGo
  <2>2. \A v \in Workers : Holding(v)' => Holding(v)
    BY <1>3 DEF IInv, TypeOK, Holding, GetShutdown, HandlerSucceeds, HandlerFails, Requeue,
                ForgetItem
  <2>3. HeldIsProcessing' /\ OneWorkerPerKey'
    BY <2>1, <2>2, SameHolders
  <2>4. ~GetShutdown(w) => item[w] \in Keys
    BY <1>3, Zenon DEF IInv, TypeOK, HeldIsProcessing, Holding, HandlerSucceeds, HandlerFails, Requeue,
                ForgetItem
  <2>5. waiting' \subseteq Keys /\ owed' \subseteq Keys
    BY <1>3, <2>4 DEF IInv, TypeOK, GetShutdown, HandlerSucceeds, HandlerFails, Requeue, ForgetItem,
                AddAfter, clientGo, history
  <2>6. /\ failures' \in [Keys -> 0 .. MaxRetries] /\ tries' \in [Keys -> 0 .. MaxRetries + 2]
        /\ counted' \in [Keys -> 0 .. MaxRetries]
    <3>1. CASE GetShutdown(w) \/ HandlerSucceeds(w) \/ HandlerFails(w)
      BY <3>1 DEF IInv, TypeOK, GetShutdown, HandlerSucceeds, HandlerFails, history, calls
    <3>2. CASE Requeue(w)
      <4>1. \A n \in 0 .. MaxRetries : (IF n < MaxRetries THEN n + 1 ELSE n) \in 0 .. MaxRetries
        OBVIOUS
      <4>2. failures' = [failures EXCEPT ![item[w]] = IF @ < MaxRetries THEN @ + 1 ELSE @]
        BY <3>2 DEF Requeue, CountFailure
      <4> QED
        BY <3>2, <4>1, <4>2, Zenon DEF IInv, TypeOK, Requeue, history, calls
    <3>3. CASE ForgetItem(w)
      <4>1. 0 \in 0 .. MaxRetries /\ 0 \in 0 .. MaxRetries + 2
        OBVIOUS
      <4> QED
        BY <3>3, <4>1, Zenon DEF IInv, TypeOK, ForgetItem, ForgetFailures
    <3> QED
      BY <1>3, <3>1, <3>2, <3>3
  <2>7. pc' \in [Workers -> PCs]
    BY <1>3, Zenon
       DEF IInv, TypeOK, PCs, GetShutdown, HandlerSucceeds, HandlerFails, Requeue, ForgetItem
  <2>8. TypeOK' /\ QueueIsPending'
    BY <2>1, <2>5, <2>6, <2>7 DEF IInv, TypeOK, QueueIsPending
  <2>9. running /\ WorkersOnlyInRun'
    BY <1>3, <2>1 DEF IInv, WorkersOnlyInRun, GetShutdown, HandlerSucceeds, HandlerFails, Requeue,
                ForgetItem
  <2> QED
    BY <2>3, <2>8, <2>9 DEF IInv
<1> QED
  BY <1>1, <1>2, <1>3 DEF Worker

\* Starting, cancelling and ending Run.
LEMMA RunStep ==
  ASSUME IInv, Run \/ Cancel \/ RunReturns \/ UNCHANGED vars
  PROVE  IInv'
<1>1. UNCHANGED <<queue, dirty, processing, waiting, failures, item, owed, tries, counted>>
  BY DEF Run, Cancel, RunReturns, vars, clientGo, workers, history, calls
<1>2. pc' \in [Workers -> PCs] /\ \A w \in Workers : Holding(w)' => Holding(w)
  BY DEF IInv, TypeOK, PCs, Holding, Run, Cancel, RunReturns, vars, workers
<1>3. shutDown' \in BOOLEAN /\ running' \in BOOLEAN
  BY Zenon DEF IInv, TypeOK, Run, Cancel, RunReturns, vars, clientGo
<1>4. HeldIsProcessing' /\ OneWorkerPerKey'
  BY <1>1, <1>2, SameHolders
<1>5. TypeOK' /\ QueueIsPending'
  BY <1>1, <1>2, <1>3 DEF IInv, TypeOK, QueueIsPending
<1>6. WorkersOnlyInRun'
  BY DEF IInv, WorkersOnlyInRun, Run, Cancel, RunReturns, vars, workers
<1> QED
  BY <1>4, <1>5, <1>6 DEF IInv

\* Every step keeps the inductive invariant.
LEMMA IInvStep == IInv /\ [Next]_vars => IInv'
  BY ClientStep, WorkerStep, RunStep DEF Next

\* The inductive invariant holds in every state of queue.go.
THEOREM Invariance == Spec => []IInv
  BY InitIInv, IInvStep, PTL DEF Spec

\* Every variable of the queue keeps its type.
THEOREM TypeCorrect == Spec => []TypeOK
<1>1. IInv => TypeOK
  BY DEF IInv
<1> QED
  BY <1>1, Invariance, PTL

\* handleQueueItemObject never runs for one key on two workers at a time.
THEOREM MutualExclusion == Spec => []OneWorkerPerKey
<1>1. IInv => OneWorkerPerKey
  BY DEF IInv
<1> QED
  BY <1>1, Invariance, PTL
-----------------------------------------------------------------------------
(* No enqueue is lost. *)

\* Every step keeps an asked-for key queued, delayed, dirty or about to be requeued.
LEMMA NotLostStep == IInv /\ EnqueueNotLost /\ [Next]_vars => EnqueueNotLost'
<1> SUFFICES ASSUME IInv, EnqueueNotLost, [Next]_vars, ~shutDown', NEW k \in owed'
             PROVE  \/ k \in dirty' \cup waiting'
                    \/ \E w \in Workers : pc'[w] = "requeue" /\ item'[w] = k
  BY DEF EnqueueNotLost
<1>1. ~shutDown
  BY DEF Next, Client, Worker, Enqueue, EnqueueWithoutRateLimit, EnqueueAfter, Forget,
         LimiterUsedElsewhere, Ripe, Run, Cancel, RunReturns, Get, GetShutdown, HandlerSucceeds,
         HandlerFails, Requeue, ForgetItem, Done, vars, clientGo, IInv, TypeOK
<1> DEFINE Kept(x) == x \in dirty \cup waiting \/ \E w \in Workers : pc[w] = "requeue" /\ item[w] = x
<1>2. \A x \in owed : Kept(x)
  BY <1>1 DEF EnqueueNotLost
<1>3. ASSUME NEW x \in Keys, Client(x) \/ Ripe(x)
      PROVE  \/ k \in dirty' \cup waiting'
             \/ \E w \in Workers : pc'[w] = "requeue" /\ item'[w] = k
  <2>1. UNCHANGED <<pc, item>>
    BY <1>3 DEF Client, Ripe, Enqueue, EnqueueWithoutRateLimit, EnqueueAfter, Forget,
                LimiterUsedElsewhere, workers
  <2>2. dirty \cup waiting \subseteq dirty' \cup waiting'
    BY <1>1, <1>3 DEF Client, Ripe, Enqueue, EnqueueWithoutRateLimit, EnqueueAfter, Forget,
                LimiterUsedElsewhere, Add, AddAfter, clientGo
  <2>3. k \in owed \/ k \in dirty' \cup waiting'
    BY <1>1, <1>3, SMTT(40) DEF Client, Ripe, Enqueue, EnqueueWithoutRateLimit, EnqueueAfter, Forget,
                LimiterUsedElsewhere, Add, AddAfter, Asked, history
  <2> QED
    BY <1>2, <2>1, <2>2, <2>3
<1>4. ASSUME NEW w \in Workers, Worker(w)
      PROVE  \/ k \in dirty' \cup waiting'
             \/ \E v \in Workers : pc'[v] = "requeue" /\ item'[v] = k
  <2>1. CASE Get(w)
    <3>1. k \in owed /\ k # Head(queue)
      BY <2>1 DEF Get
    <3>2. \A v \in Workers : pc[v] = "requeue" => pc'[v] = "requeue" /\ item'[v] = item[v]
      BY <2>1 DEF Get, IInv, TypeOK
    <3>3. k \in dirty \cup waiting => k \in dirty' \cup waiting'
      BY <2>1, <3>1 DEF Get
    <3> QED
      BY <1>2, <3>1, <3>2, <3>3
  <2>2. CASE HandlerFails(w)
    <3>1. \A v \in Workers : pc[v] = "requeue" => pc'[v] = "requeue" /\ item'[v] = item[v]
      BY <2>2 DEF HandlerFails, IInv, TypeOK
    <3>2. k \in owed \/ (pc'[w] = "requeue" /\ item'[w] = k)
      BY <2>2 DEF HandlerFails, IInv, TypeOK
    <3>3. UNCHANGED <<dirty, waiting>>
      BY <2>2 DEF HandlerFails, clientGo
    <3> QED
      BY <1>2, <3>1, <3>2, <3>3
  <2>3. CASE Requeue(w)
    <3>1. \A v \in Workers \ {w} : pc[v] = "requeue" => pc'[v] = "requeue" /\ item'[v] = item[v]
      BY <2>3 DEF Requeue, IInv, TypeOK
    <3>2. k \in owed /\ item[w] \in waiting' /\ waiting \subseteq waiting' /\ dirty' = dirty
      BY <1>1, <2>3 DEF Requeue, AddAfter, history
    <3> QED
      BY <1>2, <3>1, <3>2
  <2>4. CASE GetShutdown(w) \/ HandlerSucceeds(w) \/ ForgetItem(w) \/ Done(w)
    <3>1. \A v \in Workers : pc[v] = "requeue" => pc'[v] = "requeue" /\ item'[v] = item[v]
      BY <2>4 DEF GetShutdown, HandlerSucceeds, ForgetItem, Done, IInv, TypeOK
    <3>2. k \in owed /\ UNCHANGED <<dirty, waiting>>
      BY <2>4 DEF GetShutdown, HandlerSucceeds, ForgetItem, Done, clientGo, history
    <3> QED
      BY <1>2, <3>1, <3>2
  <2> QED
    BY <1>4, <2>1, <2>2, <2>3, <2>4 DEF Worker
<1>5. CASE Run \/ Cancel \/ RunReturns \/ UNCHANGED vars
  <2>1. UNCHANGED <<dirty, waiting, owed, item>>
    BY <1>5 DEF Run, Cancel, RunReturns, vars, clientGo, workers, history
  <2>2. CASE UNCHANGED pc
    BY <1>2, <2>1, <2>2
  <2>3. CASE Run
    <3>1. \A w \in Workers : pc[w] = "off"
      BY <2>3 DEF Run, IInv, WorkersOnlyInRun
    <3> QED
      BY <1>2, <2>1, <3>1
  <2> QED
    BY <1>5, <2>2, <2>3 DEF Cancel, RunReturns, vars, workers
<1> QED
  BY <1>3, <1>4, <1>5 DEF Next

\* A key given to Enqueue, EnqueueAfter or EnqueueWithoutRateLimit, or whose
\* handler failed with retries left, stays pending until a worker takes it.
THEOREM NoEnqueueLost == Spec => []EnqueueNotLost
<1>1. Init => EnqueueNotLost
  BY Zenon DEF Init, EnqueueNotLost
<1> QED
  BY <1>1, NotLostStep, Invariance, PTL DEF Spec
-----------------------------------------------------------------------------
(* The number of tries. *)

\* Only the worker that holds a key changes its counts, apart from Enqueue and
\* other queues, which raise the limiter's count, and Forget, which clears both.
LEMMA TriesStep ==
  ASSUME IInv, TriesFollowFailures, [Next]_vars
  PROVE  TriesFollowFailures'
<1> USE WorkQueueAssumption
<1> USE DEF FreeKeyTries, HeldKeyTries, Spent
<1>0. /\ \A k \in Keys : failures[k] \in 0 .. MaxRetries /\ tries[k] \in 0 .. MaxRetries + 2
      /\ \A k \in Keys : counted[k] \in 0 .. MaxRetries /\ (tries[k] = 0 => counted[k] = 0)
      /\ \A w \in Workers : Holding(w) => item[w] \in Keys /\ item[w] \in processing
  BY DEF IInv, TypeOK, HeldIsProcessing, TriesFollowFailures
<1>1. ASSUME NEW x \in Keys, Client(x) \/ Ripe(x)
      PROVE  TriesFollowFailures'
  <2>1. UNCHANGED <<processing, pc, item>>
    BY <1>1 DEF Client, Ripe, Enqueue, EnqueueWithoutRateLimit, EnqueueAfter, Forget,
                LimiterUsedElsewhere, workers, clientGo
  <2>2. CASE CountFailure(x) /\ UNCHANGED <<tries, counted>>
    <3>1. tries' = tries /\ counted' = counted /\ \A k \in Keys :
             /\ failures'[k] \in Nat
             /\ failures[k] <= failures'[k]
             /\ failures'[k] < MaxRetries => failures[k] < MaxRetries
      BY <2>2, <1>0 DEF CountFailure, IInv, TypeOK
    <3>2. \A k \in Keys : FreeKeyTries(k) => FreeKeyTries(k)'
      BY <1>0, <3>1
    <3>3. \A w \in Workers : Holding(w) /\ HeldKeyTries(w) => HeldKeyTries(w)'
      BY <1>0, <2>1, <3>1
    <3> QED
      BY <2>1, <3>1, <3>2, <3>3 DEF TriesFollowFailures, Holding, Free
  <2>3. CASE ForgetFailures(x)
    <3>1. \A k \in Keys :
             /\ k # x => failures'[k] = failures[k] /\ tries'[k] = tries[k] /\ counted'[k] = counted[k]
             /\ k = x => failures'[k] = 0 /\ tries'[k] = 0 /\ counted'[k] = 0
      BY <2>3 DEF ForgetFailures, IInv, TypeOK
    <3>2. \A k \in Keys : FreeKeyTries(k) => FreeKeyTries(k)'
      BY <1>0, <3>1
    <3>3. \A w \in Workers : Holding(w) /\ HeldKeyTries(w) => HeldKeyTries(w)'
      BY <1>0, <2>1, <3>1
    <3> QED
      BY <2>1, <3>1, <3>2, <3>3 DEF TriesFollowFailures, Holding, Free
  <2>4. CASE EnqueueWithoutRateLimit(x) \/ EnqueueAfter(x) \/ Ripe(x)
    <3>1. UNCHANGED <<failures, tries, counted>>
      BY <2>4 DEF EnqueueWithoutRateLimit, EnqueueAfter, Ripe, history, calls
    <3> QED
      BY <2>1, <3>1 DEF TriesFollowFailures, Holding, Free
  <2> QED
    BY <1>1, <2>2, <2>3, <2>4 DEF Client, Enqueue, Forget, LimiterUsedElsewhere, calls
<1>2. ASSUME NEW w \in Workers, Worker(w)
      PROVE  TriesFollowFailures'
  <2>0. \A v \in Workers \ {w} : pc'[v] = pc[v] /\ item'[v] = item[v] /\ Holding(v)' = Holding(v)
    BY <1>2, SMTT(40)
       DEF Worker, Get, GetShutdown, HandlerSucceeds, HandlerFails, Requeue, ForgetItem, Done,
                IInv, TypeOK, Holding
  <2>1. CASE Get(w)
    <3> DEFINE k == Head(queue)
    <3>1. k \in Keys \ processing
      <4>1. queue \in Seq(Keys) /\ queue # <<>>
        BY <2>1 DEF IInv, TypeOK, Get
      <4>2. k \in Keys
        BY <4>1, HeadTailProperties
      <4>3. DistinctIn(queue, dirty \ processing)
        BY DEF IInv, QueueIsPending
      <4>4. k \in dirty \ processing
        BY <4>1, <4>3, TailDistinct, Zenon
      <4> QED
        BY <4>2, <4>4
    <3> HIDE DEF k
    <3>2. /\ processing' = processing \cup {k} /\ failures' = failures
          /\ item'[w] = k /\ pc'[w] = "handler"
          /\ tries' = [tries EXCEPT ![k] = IF @ < MaxRetries + 2 THEN @ + 1 ELSE @]
          /\ counted' = [counted EXCEPT ![k] = IF tries[k] = 0 THEN failures[k] ELSE @]
      BY <2>1 DEF Get, k, IInv, TypeOK
    <3>3. \A x \in Keys \ {k} : tries'[x] = tries[x] /\ counted'[x] = counted[x]
      BY <3>2 DEF IInv, TypeOK
    <3>4. /\ FreeKeyTries(k) /\ tries'[k] = tries[k] + 1
          /\ counted'[k] = IF tries[k] = 0 THEN failures[k] ELSE counted[k]
      BY <1>0, <3>1, <3>2 DEF IInv, TypeOK, TriesFollowFailures, Free
    <3>5. HeldKeyTries(w)'
      BY <1>0, <3>1, <3>2, <3>4
    <3>6. \A v \in Workers \ {w} : Holding(v) => item[v] \in Keys \ {k}
      BY <1>0, <3>1, SMTT(40)
    <3>7. \A v \in Workers \ {w} : Holding(v) => HeldKeyTries(v)'
      BY <2>0, <3>2, <3>3, <3>6 DEF TriesFollowFailures
    <3>8. \A x \in Keys : Free(x)' => FreeKeyTries(x)'
      <4>1. Holding(w)' /\ ~Holding(w)
        BY <2>1, <3>2 DEF Get, Holding
      <4>2. \A x \in Keys : Free(x)' => x # k /\ Free(x)
        BY <2>0, <3>2, <4>1, SMTT(40) DEF Free
      <4> QED
        BY <3>2, <3>3, <4>2 DEF TriesFollowFailures
    <3>9. \A x \in Keys : tries'[x] = 0 => counted'[x] = 0
      BY <1>0, <3>1, <3>3, <3>4, SMTT(40)
    <3> QED
      BY <2>0, <3>5, <3>7, <3>8, <3>9 DEF TriesFollowFailures
  <2>2. CASE Requeue(w)
    <3>1. Holding(w) /\ pc[w] = "requeue" /\ pc'[w] = "done" /\ UNCHANGED <<item, processing, tries, counted>>
      BY <2>2 DEF Requeue, Holding, IInv, TypeOK, history, calls
    <3>2. /\ \A x \in Keys \ {item[w]} : failures'[x] = failures[x]
          /\ failures'[item[w]] = IF failures[item[w]] < MaxRetries
                                    THEN failures[item[w]] + 1 ELSE failures[item[w]]
      BY <1>0, <2>2, <3>1, SMTT(40) DEF Requeue, CountFailure, IInv, TypeOK
    <3>3. HeldKeyTries(w)'
      <4>1. HeldKeyTries(w) /\ item[w] \in Keys
        BY <1>0, <3>1, Zenon DEF TriesFollowFailures
      <4>2. PICK x : x = item[w]
        OBVIOUS
      <4> QED
        BY ONLY <1>0, <3>1, <3>2, <4>1, <4>2, WorkQueueAssumption, SMTT(40)
        DEF FreeKeyTries, HeldKeyTries, Spent
    <3>4. \A v \in Workers \ {w} : Holding(v) => item[v] \in Keys \ {item[w]}
      BY <1>0, <3>1 DEF IInv, OneWorkerPerKey
    <3>5. \A x \in Keys : Free(x)' => x # item[w] /\ Free(x)
      BY <2>0, <3>1, SMTT(40) DEF Free, Holding
    <3> QED
      BY <1>0, <2>0, <3>1, <3>2, <3>3, <3>4, <3>5 DEF TriesFollowFailures
  <2>3. CASE ForgetItem(w)
    <3>1. Holding(w) /\ pc'[w] = "done" /\ UNCHANGED <<item, processing>>
      BY <2>3 DEF ForgetItem, Holding, IInv, TypeOK, clientGo
    <3>2. /\ \A x \in Keys \ {item[w]} :
               failures'[x] = failures[x] /\ tries'[x] = tries[x] /\ counted'[x] = counted[x]
          /\ failures'[item[w]] = 0 /\ tries'[item[w]] = 0 /\ counted'[item[w]] = 0
      BY <1>0, <2>3, <3>1, SMTT(40) DEF ForgetItem, ForgetFailures, IInv, TypeOK
    <3>3. HeldKeyTries(w)'
      BY <1>0, <3>1, <3>2
    <3>4. \A v \in Workers \ {w} : Holding(v) => item[v] \in Keys \ {item[w]}
      BY <1>0, <3>1 DEF IInv, OneWorkerPerKey
    <3>5. \A x \in Keys : Free(x)' => x # item[w] /\ Free(x)
      BY <2>0, <3>1, SMTT(40) DEF Free, Holding
    <3> QED
      BY <1>0, <2>0, <3>1, <3>2, <3>3, <3>4, <3>5 DEF TriesFollowFailures
  <2>4. CASE Done(w)
    <3>1. Holding(w) /\ pc[w] = "done" /\ ~Holding(w)' /\ processing' = processing \ {item[w]}
      BY <2>4 DEF Done, Holding, IInv, TypeOK
    <3>2. UNCHANGED <<failures, tries, counted>>
      BY <2>4, SMTT(40) DEF Done, history, calls
    <3>3. FreeKeyTries(item[w])
      BY <3>1 DEF TriesFollowFailures
    <3>4. \A x \in Keys : Free(x)' => x = item[w] \/ Free(x)
      BY <2>0, <3>1, SMTT(40) DEF Free
    <3> QED
      BY <2>0, <3>1, <3>2, <3>3, <3>4 DEF TriesFollowFailures
  <2>5. CASE HandlerFails(w)
    <3>1. Holding(w) /\ UNCHANGED <<item, processing, failures, tries, counted>>
      BY <2>5 DEF HandlerFails, Holding, clientGo, calls
    <3>2. pc'[w] = IF failures[item[w]] < MaxRetries THEN "requeue" ELSE "giveup"
      BY <2>5, SMTT(40) DEF HandlerFails, IInv, TypeOK
    <3>3. HeldKeyTries(w)'
      <4>1. HeldKeyTries(w) /\ item[w] \in Keys
        BY <1>0, <3>1, Zenon DEF TriesFollowFailures
      <4> QED
        BY ONLY <1>0, <3>1, <3>2, <4>1, WorkQueueAssumption, SMTT(40)
        DEF FreeKeyTries, HeldKeyTries, Spent
    <3>4. Holding(w)'
      BY <3>2, SMTT(40) DEF Holding
    <3>5. \A x \in Keys : Free(x)' => Free(x)
      BY <2>0, <3>1, <3>4, SMTT(40) DEF Free
    <3> HIDE DEF FreeKeyTries, HeldKeyTries
    <3>6. /\ \A x \in Keys : FreeKeyTries(x) => FreeKeyTries(x)'
          /\ \A v \in Workers \ {w} : HeldKeyTries(v) => HeldKeyTries(v)'
      BY <2>0, <3>1, SMTT(40) DEF FreeKeyTries, HeldKeyTries
    <3>7. \A v \in Workers : Holding(v)' => HeldKeyTries(v)'
      BY <2>0, <3>3, <3>6, Zenon DEF TriesFollowFailures
    <3>8. \A x \in Keys : Free(x)' => FreeKeyTries(x)'
      BY <3>5, <3>6, Zenon DEF TriesFollowFailures
    <3>9. \A x \in Keys : tries'[x] = 0 => counted'[x] = 0
      BY <1>0, <3>1, SMTT(40)
    <3> QED
      BY <3>7, <3>8, <3>9, Zenon DEF TriesFollowFailures
  <2>6. CASE GetShutdown(w) \/ HandlerSucceeds(w)
    <3>1. UNCHANGED <<item, processing, failures, tries, counted>>
      BY <2>6 DEF GetShutdown, HandlerSucceeds, clientGo, history, calls
    <3>2. Holding(w)' => Holding(w) /\ pc'[w] = "forget"
      BY <2>6 DEF GetShutdown, HandlerSucceeds, Holding, IInv, TypeOK
    <3>3. \A x \in Keys : Free(x)' => Free(x)
      <4>1. Holding(w) => Holding(w)'
        BY <2>6, SMTT(40) DEF Holding, GetShutdown, HandlerSucceeds, IInv, TypeOK
      <4> QED
        BY <2>0, <3>1, <4>1, SMTT(40) DEF Free
    <3> QED
      BY <2>0, <3>1, <3>2, <3>3 DEF TriesFollowFailures
  <2> QED
    BY <1>2, <2>1, <2>2, <2>3, <2>4, <2>5, <2>6, Zenon DEF Worker
<1>3. CASE Run \/ Cancel \/ RunReturns \/ UNCHANGED vars
  <2>1. UNCHANGED <<processing, failures, tries, counted, item>>
    BY <1>3 DEF Run, Cancel, RunReturns, vars, clientGo, workers, history, calls
  <2>2. \A w \in Workers : Holding(w)' => Holding(w) /\ pc'[w] = pc[w]
    BY <1>3 DEF Run, Cancel, RunReturns, vars, workers, Holding, IInv, WorkersOnlyInRun
  <2>3. \A x \in Keys : Free(x)' => Free(x)
    BY <1>3, <2>1 DEF Free, Holding, Run, Cancel, RunReturns, vars, workers, IInv, WorkersOnlyInRun
  <2> QED
    BY <2>1, <2>2, <2>3 DEF TriesFollowFailures
<1> QED
  BY <1>1, <1>2, <1>3 DEF Next

\* handleQueueItemObject calls the handler for a key at most MaxRetries + 1
\* times, less what the limiter had counted before the first call, until the
\* limiter's count is cleared, however the clients, the delays, the workers and
\* the other queues of the limiter interleave.
THEOREM TriesAreBounded == Spec => []TriesBounded
<1>1. Init => TriesFollowFailures
  BY WorkQueueAssumption DEF Init, TriesFollowFailures, FreeKeyTries, Spent, Holding
<1>2. IInv /\ TriesFollowFailures /\ [Next]_vars => TriesFollowFailures'
  BY TriesStep
<1>3. IInv /\ TriesFollowFailures => TriesBounded
  <2> SUFFICES ASSUME IInv, TriesFollowFailures, NEW k \in Keys PROVE Spent(k) <= MaxRetries + 1
    BY Zenon DEF TriesBounded, Spent
  <2>1. Spent(k) \in Nat
    BY WorkQueueAssumption DEF IInv, TypeOK, Spent
  <2>2. CASE Free(k)
    BY <2>1, <2>2, WorkQueueAssumption DEF TriesFollowFailures, FreeKeyTries
  <2>3. CASE ~Free(k)
    BY <2>3 DEF TriesFollowFailures, Free, HeldKeyTries
  <2> QED
    BY <2>2, <2>3
<1> QED
  BY <1>1, <1>2, <1>3, Invariance, PTL DEF Spec
-----------------------------------------------------------------------------
(* The queue implements KeyQueue. *)

\* Every step of queue.go is a step of the abstract queue or leaves it alone.
LEMMA KeyQueueStep == IInv /\ [Next]_vars => [KQ!KQNext]_(KQ!kqVars)
<1> SUFFICES ASSUME IInv, [Next]_vars PROVE [KQ!KQNext]_(KQ!kqVars)
  OBVIOUS
<1> USE DEF KQ!KQNext, KQ!kqVars
<1>1. ASSUME NEW k \in Keys, Add(k), UNCHANGED <<waiting, processing, shutDown>>
      PROVE  [KQ!KQNext]_(KQ!kqVars)
  BY <1>1 DEF Add, KQ!Put
<1>2. ASSUME NEW k \in Keys, AddAfter(k), UNCHANGED <<dirty, processing, shutDown>>
      PROVE  [KQ!KQNext]_(KQ!kqVars)
  BY <1>2 DEF AddAfter, KQ!PutLater
<1>3. ASSUME NEW k \in Keys, Client(k) PROVE [KQ!KQNext]_(KQ!kqVars)
  <2>1. CASE Enqueue(k)
    BY <1>2, <2>1 DEF Enqueue
  <2>2. CASE EnqueueWithoutRateLimit(k)
    BY <1>1, <2>2 DEF EnqueueWithoutRateLimit
  <2>3. CASE EnqueueAfter(k)
    BY <1>1, <1>2, <2>3 DEF EnqueueAfter
  <2>4. CASE Forget(k) \/ LimiterUsedElsewhere(k)
    BY <2>4 DEF Forget, LimiterUsedElsewhere, clientGo
  <2> QED
    BY <1>3, <2>1, <2>2, <2>3, <2>4 DEF Client
<1>4. ASSUME NEW k \in Keys, Ripe(k) PROVE [KQ!KQNext]_(KQ!kqVars)
  <2>1. dirty' = dirty \cup {k}
    BY <1>4 DEF Ripe, Add
  <2> QED
    BY <1>4, <2>1 DEF Ripe, KQ!Ripen
<1>5. ASSUME NEW w \in Workers, Worker(w) PROVE [KQ!KQNext]_(KQ!kqVars)
  <2>1. CASE Get(w)
    <3> DEFINE k == Head(queue)
    <3>1. queue \in Seq(Keys) /\ queue # <<>>
      BY <2>1 DEF IInv, TypeOK, Get
    <3>2. k \in Keys
      BY <3>1, HeadTailProperties
    <3>3. DistinctIn(queue, dirty \ processing)
      BY DEF IInv, QueueIsPending
    <3>4. k \in dirty \ processing
      BY <3>1, <3>3, TailDistinct, Zenon
    <3>5. /\ dirty' = dirty \ {k} /\ processing' = processing \cup {k}
          /\ UNCHANGED <<waiting, shutDown>>
      BY <2>1 DEF Get
    <3> HIDE DEF k
    <3>6. KQ!Take(k)
      BY <3>4, <3>5 DEF KQ!Take
    <3> QED
      BY <3>2, <3>6
  <2>2. CASE Requeue(w)
    <3>1. item[w] \in Keys
      BY <2>2 DEF Requeue, IInv, TypeOK, HeldIsProcessing, Holding
    <3> QED
      BY <1>2, <2>2, <3>1 DEF Requeue
  <2>3. CASE Done(w)
    <3>1. item[w] \in Keys /\ item[w] \in processing
      BY <2>3, Zenon DEF Done, IInv, TypeOK, HeldIsProcessing, Holding
    <3>2. KQ!Release(item[w])
      BY <2>3, <3>1 DEF Done, KQ!Release
    <3> QED
      BY <3>1, <3>2
  <2>4. CASE GetShutdown(w) \/ HandlerSucceeds(w) \/ HandlerFails(w) \/ ForgetItem(w)
    BY <2>4 DEF GetShutdown, HandlerSucceeds, HandlerFails, ForgetItem, clientGo
  <2> QED
    BY <1>5, <2>1, <2>2, <2>3, <2>4 DEF Worker
<1>6. CASE Cancel
  BY <1>6, Zenon DEF Cancel, KQ!Close
<1>7. CASE Run \/ RunReturns \/ UNCHANGED vars
  BY <1>7 DEF Run, RunReturns, clientGo, vars
<1> QED
  BY <1>3, <1>4, <1>5, <1>6, <1>7 DEF Next

\* queue.go keeps the (safety part of the) promise KeyQueue states: a key is
\* only handled when it was asked for, and by one handler at a time.
THEOREM Refinement == Spec => KQ!KQSpec
<1>1. Init => KQ!KQInit
  BY DEF Init, KQ!KQInit
<1> QED
  BY <1>1, KeyQueueStep, Invariance, PTL DEF Spec, KQ!KQSpec
=============================================================================
