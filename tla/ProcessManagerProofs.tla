------------------------ MODULE ProcessManagerProofs ------------------------
(***************************************************************************)
(* Proofs about ProcessManager, for every chain of containers and every    *)
(* value of the bounds.                                                    *)
(*                                                                         *)
(* ProcessManagerSteps has the invariants of the kubelet's memory and of   *)
(* the records, and the kinds of step.  Here are the invariants about what *)
(* records say of live processes (KilledInv, MatchInv), a process that is  *)
(* looked after, and what a container's earlier processes were like        *)
(* (PolicyInv, OrderInv), which the restart policy and the order of the    *)
(* containers rest on.  IInv is the conjunction of all of them.  The       *)
(* theorems are at the end.                                                *)
(***************************************************************************)
EXTENDS ProcessManagerSteps

-----------------------------------------------------------------------------
(* Recorded processes. *)

\* A dead process stays dead.
LEMMA DeadStays ==
  ASSUME TypeOK, MainInv, EventInv, RecordInv, CallInv, [Next]_vars, NEW k,
         k = 0 \/ k \in DOMAIN procs, ~alive(k)
  PROVE  ~(k # 0 /\ procs'[k].alive)
<1> SUFFICES ASSUME k \in DOMAIN procs, ~procs[k].alive PROVE ~procs'[k].alive
  BY ZenonT(60) DEF alive
<1>1. CASE Dies
  BY <1>1, Orphans, ZenonT(60)
<1>2. CASE \E j \in DOMAIN procs : Ends(j)
  BY <1>2, ZenonT(60) DEF Ends
<1>3. ASSUME NEW o \in DOMAIN objs, NEW c \in Chain, NEW t, NEW j, Spawns(o, c, t, j)
      PROVE  procs'[k] = procs[k]
  <2>1. NewProcess(o, c, j)
    BY <1>3, Spawned, ZenonT(60)
  <2> QED
    BY <2>1, ZenonT(60) DEF NewProcess
<1> QED
  BY <1>1, <1>2, <1>3, ProcsFrame, ZenonT(60)

\* DeletePod goes on to the next container when the process of this one is dead.
LEMMA KilledStep ==
  ASSUME TypeOK, MainInv, EventInv, RecordInv, CallInv, KilledInv, [Next]_vars
  PROVE  KilledInv'
<1> SUFFICES ASSUME call'.op \in {"stop", "term"}, NEW c \in Chain, c < call'.c
             PROVE  ~(call'.rec.pid[c] # 0 /\ procs'[call'.rec.pid[c]].alive)
  BY ZenonT(60) DEF KilledInv, alive
<1>1. ASSUME call.op \in {"stop", "term"}, call'.rec = call.rec, ~alive(call.rec.pid[c])
      PROVE  ~(call'.rec.pid[c] # 0 /\ procs'[call'.rec.pid[c]].alive)
  <2>1. PICK k : k = call.rec.pid[c]
    BY SMTT(40)
  <2>2. k = 0 \/ k \in DOMAIN procs
    BY <1>1, <2>1, ZenonT(60) DEF CallInv, RecordInv, RecordOK, RecordIn
  <2>3. ~(k # 0 /\ procs'[k].alive)
    BY <1>1, <2>1, <2>2, DeadStays, ZenonT(60)
  <2> QED
    BY <1>1, <2>1, <2>3, ZenonT(60)
<1>2. CASE call' = call
  BY <1>1, <1>2, ZenonT(60) DEF KilledInv
<1>3. CASE call' = NoCall
  BY <1>3, NoCallIsCall, ZenonT(60)
<1>4. CASE DeleteBegins
  BY <1>4, SMTT(40) DEF DeleteBegins, Chain
<1>5. CASE DeleteGoes \/ DeleteKills
  <2>1. /\ call.op \in {"stop", "term"} /\ call'.rec = call.rec
        /\ call'.c = call.c \/ (call'.c = call.c + 1 /\ call.c \in Chain)
    BY <1>5, ZenonT(60) DEF DeleteGoes, DeleteKills
  <2>2. CASE c < call.c
    BY <1>1, <2>1, <2>2, ZenonT(60) DEF KilledInv
  <2>3. CASE ~(c < call.c)
    <3>1. call.c = c /\ call'.c = call.c + 1
      BY <2>1, <2>3, SMTT(40) DEF Chain
    <3>2. CASE DeleteGoes
      <4>1. ~alive(call.rec.pid[c])
        <5>1. call'.c # call.c
          BY <3>1, SMTT(40) DEF Chain
        <5> QED
          BY <3>1, <3>2, <5>1, ZenonT(60) DEF DeleteGoes
      <4> QED
        BY <1>1, <2>1, <4>1, ZenonT(60)
    <3>3. CASE DeleteKills
      BY <2>1, <3>1, <3>3, ZenonT(60) DEF DeleteKills, Ends
    <3> QED
      BY <1>5, <3>2, <3>3, SMTT(40)
  <2> QED
    BY <2>2, <2>3, SMTT(40)
<1>6. CASE CallSteps
  BY <1>2, <1>3, <1>4, <1>5, <1>6, CallCases, ZenonT(60) DEF UpdateBegins, UpdateEnds, DeleteFindsNone,
        DeleteGivesUp, DeleteEnds
<1>7. CASE Users
  BY <1>2, <1>7, UserCases, ZenonT(60)
<1>8. CASE Dies
  BY <1>3, <1>8, ZenonT(60) DEF Dies
<1> QED
  BY <1>2, <1>6, <1>7, <1>8, CallFrame, ZenonT(60)

\* A container gets another process when it is about to start and has none.
Respawns(o, c) ==
  /\ Where(o, c) = "start" /\ ~alive(objs[o].rec.pid[c]) /\ objs'[o].run[c].at = "started"
  /\ NewProcess(o, c, objs'[o].rec.pid[c])

\* What a step does to the process ids of the objects.
LEMMA PidsFrame ==
  ASSUME TypeOK, MainInv, EventInv, [Next]_vars
  PROVE  \/ Dies \/ Loaded \/ Created
         \/ /\ DOMAIN objs' = DOMAIN objs
            /\ \A o \in DOMAIN objs, c \in Chain :
                 objs'[o].rec.pid[c] = objs[o].rec.pid[c] \/ Respawns(o, c)
<1>1. CASE Kept
  BY <1>1, ZenonT(60) DEF Kept
<1>2. ASSUME NEW q \in DOMAIN objs, NEW m, NEW i, NEW c \in Chain, NEW t,
             Changes(objs, objs', q, m, i, c, t, objs[q].rec.pid[c])
      PROVE  /\ DOMAIN objs' = DOMAIN objs
             /\ \A o \in DOMAIN objs, d \in Chain : objs'[o].rec.pid[d] = objs[o].rec.pid[d]
  <2>1. PICK k : k = objs[q].rec.pid[c]
    BY SMTT(40)
  <2>2. Changes(objs, objs', q, m, i, c, t, k)
    BY <1>2, <2>1, SMTT(40)
  <2> QED
    BY <2>1, <2>2, ZenonT(60) DEF Changes
<1>3. ASSUME NEW q \in DOMAIN objs, NEW c \in Chain, NEW t \in Runner, NEW k \in 0 .. MaxPids,
             RunnerStep(q, c, t, k)
      PROVE  /\ DOMAIN objs' = DOMAIN objs
             /\ \A o \in DOMAIN objs, d \in Chain :
                  objs'[o].rec.pid[d] = objs[o].rec.pid[d] \/ Respawns(o, d)
  <2>1. k = objs[q].rec.pid[c] \/ Spawns(q, c, t, k)
    BY <1>3, ZenonT(60) DEF RunnerStep, Moves, Prepares, Abandons, Adopts, Waits, Reaps, Finishes
  <2>2. CASE k = objs[q].rec.pid[c]
    BY <1>2, <1>3, <2>2, ZenonT(60) DEF RunnerStep
  <2>3. CASE Spawns(q, c, t, k)
    <3>1. NewProcess(q, c, k)
      BY <2>3, Spawned, ZenonT(60)
    <3>2. DOMAIN objs' = DOMAIN objs /\ objs'[q].rec.pid[c] = k /\ objs'[q].run[c] = t
          /\ \A o \in DOMAIN objs, d \in Chain :
               objs'[o].rec.pid[d] = objs[o].rec.pid[d] \/ (o = q /\ d = c)
      BY <1>3, ZenonT(60) DEF RunnerStep, Changes
    <3> QED
      BY <2>3, <3>1, <3>2, ZenonT(60) DEF Spawns, Respawns
  <2> QED
    BY <2>1, <2>2, <2>3, SMTT(40)
<1>4. CASE \E o \in DOMAIN objs, c \in Chain, t \in Runner, i \in 0 .. Last,
              m \in {"off", "loop", "announce", "launch", "sync", "next"} : MainStep(o, m, i, c, t)
  <2>1. PICK o \in DOMAIN objs, c \in Chain, t \in Runner, i \in 0 .. Last,
             m \in {"off", "loop", "announce", "launch", "sync", "next"} : MainStep(o, m, i, c, t)
    BY <1>4
  <2> QED
    BY <1>2, <2>1, ZenonT(60) DEF MainStep
<1>5. CASE \E o \in DOMAIN objs, c \in Chain, t \in Runner : DaemonStep(o, c, t)
  BY <1>2, <1>5, ZenonT(60) DEF DaemonStep
<1> QED
  BY <1>1, <1>3, <1>4, <1>5, Cases, ZenonT(60)

\* What MatchInv says of a process id k of a record of pod u.
Match(u, k, c) ==
  \A o \in DOMAIN objs :
    u = Uid(o) /\ alive(k) /\ procs[k].uid = u => k = objs[o].rec.pid[c]

\* It stays true.
LEMMA MatchLater ==
  ASSUME TypeOK, MainInv, EventInv, RecordInv, UidInv, FreshInv, CallInv, [Next]_vars, ~Loaded,
         NEW u, NEW k, NEW c \in Chain, k = 0 \/ k \in DOMAIN procs, Match(u, k, c)
  PROVE  Match(u, k, c)'
<1> SUFFICES ASSUME NEW o \in DOMAIN objs', u = Uid(o)', k # 0, procs'[k].alive, procs'[k].uid = u
             PROVE  k = objs'[o].rec.pid[c]
  BY ZenonT(60) DEF Match, alive
<1>1. k \in DOMAIN procs /\ procs[k].uid = u
  BY StepLater, ZenonT(60) DEF Later
<1>2. alive(k)
  BY DeadStays, ZenonT(60)
<1>3. CASE Dies
  <2>1. DOMAIN objs' = {}
    BY <1>3, SMTT(40) DEF Dies
  <2> QED
    BY <2>1, ZenonT(60)
<1>4. CASE Created
  <2>1. CASE o \in DOMAIN objs
    <3>1. objs'[o] = objs[o]
      BY <1>4, <2>1, ZenonT(60) DEF Created
    <3> QED
      BY <1>1, <1>2, <2>1, <3>1, ZenonT(60) DEF Match, Uid
  <2>2. CASE o \notin DOMAIN objs
    <3>1. u = pods
      BY <1>4, <2>2, ZenonT(60) DEF Created, Uid, UidInv
    <3>2. procs[k].uid # pods
      BY <1>1, <1>4, ZenonT(60) DEF Created, FreshInv
    <3> QED
      BY <1>1, <3>1, <3>2, SMTT(40)
  <2> QED
    BY <2>1, <2>2, SMTT(40)
<1>5. CASE ~Dies /\ ~Created
  <2>1. o \in DOMAIN objs /\ Uid(o) = u
    BY <1>5, PodsFrame, ZenonT(60) DEF Uid
  <2>2. k = objs[o].rec.pid[c]
    BY <1>1, <1>2, <2>1, ZenonT(60) DEF Match
  <2>3. ~Respawns(o, c)
    BY <1>2, <2>2, ZenonT(60) DEF Respawns
  <2> QED
    BY <1>5, <2>1, <2>2, <2>3, PidsFrame, ZenonT(60)
<1> QED
  BY <1>3, <1>4, <1>5, SMTT(40)

\* Objects are of different pods.
LEMMA SameObject ==
  ASSUME TypeOK, UidInv, NEW o \in DOMAIN objs, NEW q \in DOMAIN objs, Uid(o) = Uid(q)
  PROVE  o = q
<1>1. objs \in Seq(Object)
  BY ZenonT(60) DEF TypeOK
<1>2. o \in Nat /\ q \in Nat
  BY ONLY <1>1, o \in DOMAIN objs, q \in DOMAIN objs, SMTT(40)
<1>3. Uid(o) \in Nat /\ Uid(q) \in Nat
  BY Uids, ZenonT(60)
<1>4. (o < q => Uid(o) < Uid(q)) /\ (q < o => Uid(q) < Uid(o))
  BY ZenonT(60) DEF UidInv
<1> QED
  BY ONLY Uid(o) = Uid(q), <1>2, <1>3, <1>4, SMTT(40)

\* What the records have of a pod agrees with what its object has.
LEMMA MatchStep ==
  ASSUME TypeOK, TypeOK', DownIsEmpty, MainInv, EventInv, RecordInv, UidInv, FreshInv, CallInv,
         MatchInv, [Next]_vars
  PROVE  MatchInv'
<1> SUFFICES ASSUME NEW r \in {db', recorder', call'.rec}, r # Nil, NEW c \in Chain
             PROVE  \A o \in DOMAIN objs' :
                      /\ r.pod.uid = Uid(o)' /\ r.pid[c] # 0 /\ procs'[r.pid[c]].alive
                      /\ procs'[r.pid[c]].uid = Uid(o)'
                      => r.pid[c] = objs'[o].rec.pid[c]
  BY ZenonT(60) DEF MatchInv, alive
<1>0. PICK u, k : u = r.pod.uid /\ k = r.pid[c]
  OBVIOUS
<1> SUFFICES Match(u, k, c)'
  BY <1>0, ZenonT(60) DEF Match, alive
<1>1. ASSUME NEW x \in {db, recorder, call.rec}, x # Nil, x = r
      PROVE  Match(u, k, c) /\ (k = 0 \/ k \in DOMAIN procs)
  <2>1. RecordOK(x)
    BY <1>1, ZenonT(60) DEF RecordInv
  <2>2. k = 0 \/ k \in DOMAIN procs
    BY <1>0, <1>1, <2>1, ZenonT(60) DEF RecordOK, RecordIn
  <2>3. ASSUME NEW o \in DOMAIN objs, u = Uid(o), alive(k), procs[k].uid = u
        PROVE  k = objs[o].rec.pid[c]
    <3>1. x.pod.uid = Uid(o) /\ alive(x.pid[c]) /\ procs[x.pid[c]].uid = Uid(o)
      BY <1>0, <1>1, <2>3, SMTT(40)
    <3>2. x.pid[c] = objs[o].rec.pid[c]
      BY ONLY <1>1, <3>1, MatchInv, o \in DOMAIN objs, c \in Chain, ZenonT(60) DEF MatchInv
    <3> QED
      BY <1>0, <1>1, <3>2, SMTT(40)
  <2> QED
    BY <2>2, <2>3, ZenonT(60) DEF Match
<1>2. CASE Loaded
  <2>1. recorder' = Nil /\ call'.rec = Nil /\ db' = db
    BY <1>2, NoCallIsCall, ZenonT(60) DEF Loaded, DownIsEmpty
  <2>2. r = db /\ db # Nil
    BY <2>1, ZenonT(60)
  <2>3. \A o \in DOMAIN objs' : k = objs'[o].rec.pid[c]
    BY <1>0, <1>2, <2>2, ZenonT(60) DEF Loaded
  <2> QED
    BY <2>3, ZenonT(60) DEF Match
<1>3. CASE ~Loaded
  <2>1. CASE \E x \in {db, recorder, call.rec} : x = r
    BY <1>1, <1>3, <2>1, MatchLater, ZenonT(60)
  <2>2. CASE Created /\ r = db'
    <3>1. k = 0
      BY <1>0, <2>2, ZenonT(60) DEF Created
    <3> QED
      BY <3>1, ZenonT(60) DEF Match, alive
  <2>3. CASE bus.ev.o \in DOMAIN objs /\ r = objs[bus.ev.o].rec
    <3>1. PICK q \in DOMAIN objs : r = objs[q].rec
      BY <2>3, SMTT(40)
    <3>2. k = 0 \/ k \in DOMAIN procs
      BY <1>0, <3>1, ZenonT(60) DEF RecordInv, RecordOK, RecordIn
    <3>3. Match(u, k, c)
      <4>1. ASSUME NEW o \in DOMAIN objs, u = Uid(o) PROVE o = q
        BY <1>0, <3>1, <4>1, SameObject, ZenonT(60) DEF Uid
      <4> QED
        BY <1>0, <3>1, <4>1, ZenonT(60) DEF Match
    <3> QED
      BY <1>3, <3>2, <3>3, MatchLater, ZenonT(60)
  <2>4. CASE UpdateBegins /\ r = call'.rec /\ UNCHANGED <<objs, procs, pods, wanted>>
    <3>1. db # Nil /\ k = db.pid[c] /\ u = pods
      BY <1>0, <2>4, ZenonT(60) DEF UpdateBegins, UidInv
    <3>2. RecordOK(db)
      BY <3>1, ZenonT(60) DEF RecordInv
    <3>3. k = 0 \/ k \in DOMAIN procs
      BY <3>1, <3>2, ZenonT(60) DEF RecordOK, RecordIn
    <3>4. ASSUME NEW o \in DOMAIN objs, u = Uid(o), alive(k), procs[k].uid = u
          PROVE  k = objs[o].rec.pid[c]
      <4>1. procs[k].uid <= db.pod.uid /\ db.pod.uid <= pods
        BY <3>1, <3>2, <3>4, ZenonT(60) DEF RecordOK, RecordIn, alive
      <4>2. db.pod.uid \in Nat /\ pods \in Nat
        BY <3>1, Uids, ZenonT(60)
      <4>3. db.pod.uid = u
        BY ONLY <3>1, <3>4, <4>1, <4>2, SMTT(40)
      <4>4. db.pod.uid = Uid(o) /\ alive(db.pid[c]) /\ procs[db.pid[c]].uid = Uid(o)
        BY <3>1, <3>4, <4>3, SMTT(40)
      <4>5. db.pid[c] = objs[o].rec.pid[c]
        BY ONLY <3>1, <4>4, MatchInv, o \in DOMAIN objs, c \in Chain, ZenonT(60) DEF MatchInv
      <4> QED
        BY <3>1, <4>5, SMTT(40)
    <3>5. Match(u, k, c)
      BY <3>4, ZenonT(60) DEF Match
    <3> QED
      BY <1>3, <3>3, <3>5, MatchLater, ZenonT(60)
  <2>5. CASE r = db'
    BY <2>1, <2>2, <2>5, DbFrame, ZenonT(60)
  <2>6. CASE r = recorder'
    BY <2>1, <2>3, <2>6, RecorderFrame, ZenonT(60)
  <2>7. CASE r = call'.rec
    BY <2>1, <2>4, <2>7, CallRecFrame, ZenonT(60)
  <2> QED
    BY <2>5, <2>6, <2>7, ZenonT(60)
<1> QED
  BY <1>2, <1>3, SMTT(40)
-----------------------------------------------------------------------------
(* A process is looked after. *)

\* The goroutine of container c is to wait, or waits, for process k.
Watches(o, c, k) == Runs(o, c) /\ objs[o].rec.pid[c] = k

\* A goroutine leaves its process when that is dead, or is not a child.
LEMMA StillWatched ==
  ASSUME TypeOK, MainInv, EventInv, LaunchInv, TokenInv, [Next]_vars, ~Dies, ~Loaded,
         NEW o \in DOMAIN objs, NEW c \in Chain, NEW k, Watches(o, c, k)
  PROVE  \/ o \in DOMAIN objs' /\ Watches(o, c, k)'
         \/ ~procs[k].alive \/ ~procs[k].child
<1>0. Where(o, c) \in {"started", "wait"} /\ objs[o].rec.pid[c] = k
  BY ZenonT(60) DEF Watches, Runs, Where
<1>1. ASSUME NEW q \in DOMAIN objs, NEW d \in Chain, NEW m, NEW i, NEW t, NEW j,
             Changes(objs, objs', q, m, i, d, t, j),
             o # q \/ c # d \/ (j = k /\ t.at \in {"started", "wait"})
      PROVE  o \in DOMAIN objs' /\ Watches(o, c, k)'
  <2>1. /\ o \in DOMAIN objs'
        /\ objs'[o].run[c] = IF o = q /\ c = d THEN t ELSE objs[o].run[c]
        /\ objs'[o].rec.pid[c] = IF o = q /\ c = d THEN j ELSE objs[o].rec.pid[c]
    BY <1>1, ZenonT(60) DEF Changes
  <2> QED
    BY <1>0, <1>1, <2>1, ZenonT(60) DEF Watches, Runs, Where
<1>2. CASE Created
  <2>1. o \in DOMAIN objs' /\ objs'[o] = objs[o]
    BY <1>2, ZenonT(60) DEF Created
  <2> QED
    BY <2>1, ZenonT(60) DEF Watches, Runs
<1>3. CASE Kept
  <2>1. o \in DOMAIN objs' /\ objs'[o].run[c] = objs[o].run[c] /\ objs'[o].rec.pid[c] = objs[o].rec.pid[c]
    BY <1>3, ZenonT(60) DEF Kept
  <2> QED
    BY <2>1, ZenonT(60) DEF Watches, Runs
<1>4. ASSUME NEW q \in DOMAIN objs, NEW d \in Chain, NEW t, NEW j, RunnerStep(q, d, t, j)
      PROVE  \/ o \in DOMAIN objs' /\ Watches(o, c, k)'
             \/ ~procs[k].alive \/ ~procs[k].child
  <2>1. CASE o # q \/ c # d
    BY <1>1, <1>4, <2>1, ZenonT(60) DEF RunnerStep
  <2>2. CASE o = q /\ c = d
    <3>1. Waits(o, c, t, j) \/ Reaps(o, c, t, j)
      BY <1>0, <1>4, <2>2, ZenonT(60) DEF RunnerStep, Moves, Prepares, Abandons, Adopts, Spawns, Finishes, Early
    <3>2. CASE Waits(o, c, t, j)
      BY <1>0, <1>1, <1>4, <2>2, <3>2, ZenonT(60) DEF RunnerStep, Waits
    <3>3. CASE Reaps(o, c, t, j)
      BY <1>0, <3>3, ZenonT(60) DEF Reaps
    <3> QED
      BY <3>1, <3>2, <3>3, ZenonT(60)
  <2> QED
    BY <2>1, <2>2, SMTT(40)
<1>5. ASSUME NEW q \in DOMAIN objs, NEW d \in Chain, NEW t, NEW i, NEW m, MainStep(q, m, i, d, t)
      PROVE  o \in DOMAIN objs' /\ Watches(o, c, k)'
  <2>1. Where(o, c)' = Where(o, c)
    <3>1. Launched(o, c)
      BY <1>0, ZenonT(60) DEF LaunchInv
    <3> QED
      BY <1>5, <3>1, MainLaunched, ZenonT(60)
  <2>2. objs'[o].run[c].at \in {"started", "wait"}
    BY <1>0, <2>1, ZenonT(60) DEF Where
  <2>3. PICK j : j = objs[q].rec.pid[d]
    BY SMTT(40)
  <2>4. Changes(objs, objs', q, m, i, d, t, j)
    BY <1>5, <2>3, ZenonT(60) DEF MainStep
  <2>5. o \in DOMAIN objs' /\ objs'[o].rec.pid[c] = k
    BY <1>0, <2>3, <2>4, SMTT(40) DEF Changes
  <2> QED
    BY <2>2, <2>5, ZenonT(60) DEF Watches, Runs
<1>6. ASSUME NEW q \in DOMAIN objs, NEW d \in Chain, NEW t, DaemonStep(q, d, t)
      PROVE  o \in DOMAIN objs' /\ Watches(o, c, k)'
  <2>1. Where(q, d) = "off"
    BY <1>6, ZenonT(60) DEF DaemonStep, Restarts, TokenInv, Held
  <2>2. o # q \/ c # d
    BY <1>0, <2>1, ZenonT(60)
  <2> QED
    BY <1>1, <1>6, <2>2, ZenonT(60) DEF DaemonStep
<1> QED
  BY <1>2, <1>3, <1>4, <1>5, <1>6, Cases, ZenonT(60)

\* Every live child has its goroutine.
LEMMA SupervisedStep ==
  ASSUME TypeOK, DownIsEmpty, MainInv, EventInv, LaunchInv, TokenInv, RecordInv, CallInv, Supervised,
         [Next]_vars
  PROVE  Supervised'
<1> SUFFICES ASSUME NEW k \in DOMAIN procs', procs'[k].alive, procs'[k].child
             PROVE  \E o \in DOMAIN objs', c \in Chain : Watches(o, c, k)'
  BY ZenonT(60) DEF Supervised, Watches
<1>1. CASE Dies
  BY <1>1, Orphans, ZenonT(60)
<1>2. ASSUME k \in DOMAIN procs, procs[k].alive, procs[k].child
      PROVE  \E o \in DOMAIN objs', c \in Chain : Watches(o, c, k)'
  <2>1. PICK o \in DOMAIN objs, c \in Chain : Watches(o, c, k)
    BY <1>2, ZenonT(60) DEF Supervised, Watches
  <2>2. ~Loaded
    <3>1. Loaded => DOMAIN objs = {}
      BY SMTT(40) DEF Loaded, DownIsEmpty
    <3> QED
      BY <3>1, ZenonT(60)
  <2> QED
    BY <1>1, <1>2, <2>1, <2>2, StillWatched, ZenonT(60)
<1>3. CASE k \in DOMAIN procs /\ ~Dies
  <2>1. procs[k].alive
    BY <1>3, DeadStays, Processes, ZenonT(60) DEF alive
  <2>2. procs[k].child
    <3>1. CASE \E j \in DOMAIN procs : Ends(j)
      BY <1>3, <3>1, ZenonT(60) DEF Ends
    <3>2. ASSUME NEW o \in DOMAIN objs, NEW c \in Chain, NEW t, NEW j, Spawns(o, c, t, j)
          PROVE  procs'[k] = procs[k]
      <4>1. NewProcess(o, c, j)
        BY <3>2, Spawned, ZenonT(60)
      <4> QED
        BY <1>3, <4>1, ZenonT(60) DEF NewProcess
    <3> QED
      BY <1>3, <3>1, <3>2, ProcsFrame, ZenonT(60)
  <2> QED
    BY <1>2, <1>3, <2>1, <2>2, ZenonT(60)
<1>4. CASE k \notin DOMAIN procs
  <2>2. ~Dies /\ ~Loaded /\ ~Created
    BY <1>4, Orphans, ZenonT(60) DEF Loaded, Created
  <2>3. PICK o \in DOMAIN objs, c \in Chain, t \in Runner, j \in 0 .. MaxPids :
               RunnerStep(o, c, t, j) /\ Spawns(o, c, t, j)
    <3>1. ASSUME procs' = procs PROVE FALSE
      BY <1>4, <3>1, SMTT(40)
    <3>2. CASE Kept /\ OtherSteps
      <4>1. procs' = procs \/ \E j \in DOMAIN procs : Ends(j)
        BY <3>2, OtherCases, CallCases, UserCases, ZenonT(60) DEF Idle, Exits, Deliver, RecorderPut, ByBus,
              UpdateBegins, UpdateEnds, DeleteFindsNone, DeleteBegins, DeleteGoes, DeleteKills,
              DeleteGivesUp, DeleteEnds, Ends
      <4> QED
        BY <1>4, <3>1, <4>1, ZenonT(60) DEF Ends
    <3>3. ASSUME NEW o \in DOMAIN objs, NEW c \in Chain, NEW t \in Runner, NEW j \in 0 .. MaxPids,
                 RunnerStep(o, c, t, j)
          PROVE  Spawns(o, c, t, j)
      BY <3>1, <3>3, ZenonT(60) DEF RunnerStep, Moves, Prepares, Abandons, Adopts, Waits, Reaps, Finishes
    <3>4. ASSUME NEW o \in DOMAIN objs, NEW c \in Chain, NEW t, NEW i, NEW m, MainStep(o, m, i, c, t)
          PROVE  FALSE
      BY <3>1, <3>4, ZenonT(60) DEF MainStep, ByMain
    <3>5. ASSUME NEW o \in DOMAIN objs, NEW c \in Chain, NEW t, DaemonStep(o, c, t)
          PROVE  FALSE
      BY <3>1, <3>5, ZenonT(60) DEF DaemonStep, ByBus
    <3> QED
      BY <2>2, <3>2, <3>3, <3>4, <3>5, Cases, ZenonT(60)
  <2>4. DOMAIN objs' = DOMAIN objs /\ objs'[o].run[c] = t /\ objs'[o].rec.pid[c] = j
    BY <2>3, ZenonT(60) DEF RunnerStep, Changes
  <2>5. NewProcess(o, c, j)
    BY <2>3, Spawned, ZenonT(60)
  <2>6. k = j
    BY <1>4, <2>5, ZenonT(60) DEF NewProcess
  <2>7. Watches(o, c, k)'
    BY <2>3, <2>4, <2>6, ZenonT(60) DEF Watches, Runs, Spawns
  <2> QED
    BY <2>4, <2>7, ZenonT(60)
<1> QED
  BY <1>1, <1>3, <1>4, ZenonT(60)
-----------------------------------------------------------------------------
(* Restart policies. *)

\* Process p is one of container c of object o; the policy has it run again; the
\* container has not reached runProcess yet; the last thing it said or will say
\* is that it failed.
Own(o, c, p) == procs[p].uid = Uid(o) /\ procs[p].c = c
Again(o, p) ==
  /\ objs[o].rec.pod.policy # "Never"
  /\ objs[o].rec.pod.policy = "OnFailure" => ~procs[p].ok
Untouched(o, c) ==
  LET p == objs[o] IN
  IF Sync(c) THEN \/ c > p.rec.idx + 1
                  \/ c = p.rec.idx + 1 /\ p.main # "sync"
                  \/ c = p.rec.idx + 1 /\ p.run[c].at \in Early
                  \/ c = p.rec.idx + 1 /\ p.run[c].at = "off" /\ ~p.run[c].ok
             ELSE ~Launched(o, c)
Failed(o, c) ==
  \/ Where(o, c) = "finish" /\ ~objs[o].run[c].ok
  \/ Queued(o, c) /\ ~bus.ev.ok
  \/ Held(o, c) /\ ~daemon.ok

\* What is known of a process p that container c of object o has had.
Past(o, c, p) ==
  /\ p <= objs[o].rec.pid[c]
  /\ procs[p].alive => p = objs[o].rec.pid[c] /\ Runs(o, c)
  /\ p # objs[o].rec.pid[c] => Again(o, p)
  /\ Where(o, c) \in Early => Again(o, p)
  /\ ~Untouched(o, c)
  /\ ~Sync(c) /\ Failed(o, c) /\ objs[o].rec.pod.policy = "OnFailure" => ~procs[p].ok

\* A container's process id is that of its last process.
Container(o, c) ==
  /\ objs[o].rec.pid[c] # 0 => Own(o, c, objs[o].rec.pid[c])
  /\ Where(o, c) \in {"started", "wait", "finish"} => objs[o].rec.pid[c] # 0
  /\ \A p \in DOMAIN procs : Own(o, c, p) => Past(o, c, p)

\* Until the kubelet is restarted this is known of every container.
PolicyInv == starts = 1 => \A o \in DOMAIN objs, c \in Chain : Container(o, c)

\* An init container that is done has had a process.
OrderInv ==
  starts = 1 => \A o \in DOMAIN objs, c \in Chain :
    Sync(c) /\ (c <= objs[o].rec.idx
                \/ (Launched(o, c) /\ Where(o, c) = "off" /\ objs[o].run[c].ok))
      => objs[o].rec.pid[c] # 0

\* What the invariant says is the same when nothing happens to the container.
Unmoved(o, c) ==
  /\ objs'[o].run[c] = objs[o].run[c] /\ objs'[o].rec.pid[c] = objs[o].rec.pid[c]
  /\ objs'[o].rec.pod = objs[o].rec.pod

\* No process is started for the container, and of those there are only a live
\* one changes.
Settled(o, c) ==
  \A p \in DOMAIN procs' : procs'[p].uid = Uid(o) /\ procs'[p].c = c =>
    /\ p \in DOMAIN procs /\ Own(o, c, p)
    /\ procs'[p].alive => procs[p].alive
    /\ procs'[p].ok = procs[p].ok \/ procs[p].alive

\* A container to which nothing happens.
LEMMA ContainerStays ==
  ASSUME TypeOK, MainInv, EventInv, RecordInv, CallInv, TokenInv, [Next]_vars,
         NEW o \in DOMAIN objs, NEW c \in Chain,
         Container(o, c), Unmoved(o, c), Settled(o, c),
         ~Sync(c) /\ Failed(o, c)' => Failed(o, c), Untouched(o, c)' => Untouched(o, c)
  PROVE  Container(o, c)'
<1>1. PICK k : k = objs[o].rec.pid[c] /\ k = objs'[o].rec.pid[c]
  BY ZenonT(60) DEF Unmoved
<1>2. Where(o, c)' = Where(o, c) /\ (Runs(o, c)' <=> Runs(o, c)) /\ Uid(o)' = Uid(o)
      /\ objs'[o].rec.pod = objs[o].rec.pod
  BY ZenonT(60) DEF Unmoved, Where, Runs, Uid
<1>3. ASSUME k # 0 PROVE Own(o, c, k)'
  <2>1. Own(o, c, k) /\ k \in DOMAIN procs
    BY <1>1, <1>3, ZenonT(60) DEF Container, RecordInv, RecordOK, RecordIn
  <2> QED
    BY <1>2, <2>1, StepLater, ZenonT(60) DEF Own, Later
<1>4. ASSUME NEW p \in DOMAIN procs', Own(o, c, p)'
      PROVE  Past(o, c, p)'
  <2>1. /\ p \in DOMAIN procs /\ Own(o, c, p)
        /\ procs'[p].alive => procs[p].alive
        /\ procs'[p].ok = procs[p].ok \/ procs[p].alive
    BY <1>2, <1>4, ZenonT(60) DEF Own, Settled
  <2>2. Past(o, c, p)
    BY <2>1, ZenonT(60) DEF Container
  <2>3. p <= k /\ (procs'[p].alive => p = k /\ Runs(o, c)')
    BY <1>1, <1>2, <2>1, <2>2, ZenonT(60) DEF Past
  <2>4. ASSUME procs[p].alive PROVE p = k /\ Where(o, c) \in {"started", "wait"}
    BY <1>1, <2>2, <2>4, ZenonT(60) DEF Past, Runs, Where
  <2>5. ~procs[p].alive => (Again(o, p)' <=> Again(o, p))
    BY <1>2, <2>1, ZenonT(60) DEF Again
  <2>6. (p # k => Again(o, p)') /\ (Where(o, c)' \in Early => Again(o, p)')
    BY <1>1, <1>2, <2>2, <2>4, <2>5, ZenonT(60) DEF Past, Early
  <2>7. ~Untouched(o, c)'
    BY <2>2, ZenonT(60) DEF Past
  <2>8. ASSUME ~Sync(c), Failed(o, c)', objs'[o].rec.pod.policy = "OnFailure" PROVE ~procs'[p].ok
    <3>1. Failed(o, c) /\ objs[o].rec.pod.policy = "OnFailure"
      BY <1>2, <2>8, ZenonT(60)
    <3>2. ~procs[p].ok
      BY <2>2, <2>8, <3>1, ZenonT(60) DEF Past
    <3>3. Where(o, c) \in {"finish", "off"}
      BY <2>8, <3>1, ZenonT(60) DEF Failed, TokenInv
    <3>4. ~procs[p].alive
      BY <2>4, <3>3, ZenonT(60)
    <3> QED
      BY <2>1, <3>2, <3>4, ZenonT(60)
  <2> QED
    BY <1>1, <2>3, <2>6, <2>7, <2>8, ZenonT(60) DEF Past
<1> QED
  BY <1>1, <1>2, <1>3, <1>4, ZenonT(60) DEF Container

\* A failure is news only when the goroutine of the container has moved.
LEMMA FailedFrame ==
  ASSUME TypeOK, MainInv, EventInv, [Next]_vars, NEW o \in DOMAIN objs, NEW c \in Chain,
         objs'[o].run[c] = objs[o].run[c], Failed(o, c)'
  PROVE  Failed(o, c)
<1>1. CASE Where(o, c)' = "finish" /\ ~objs'[o].run[c].ok
  BY <1>1, ZenonT(60) DEF Failed, Where
<1>2. CASE bus' = Nil /\ daemon' = Nil
  BY <1>1, <1>2, ZenonT(60) DEF Failed, Queued, Held
<1>3. CASE bus' = bus /\ (daemon' = daemon \/ daemon' = Nil)
  BY <1>3, ZenonT(60) DEF Failed, Queued, Held, Where
<1>4. ASSUME NEW q \in DOMAIN objs, NEW d \in Chain, Tell(q, d), daemon' = daemon
      PROVE  Failed(o, c)
  <2>1. ~Queued(o, c)'
    BY <1>4, TellSent, ZenonT(60) DEF Sent, Queued
  <2> QED
    BY <1>1, <1>4, <2>1, ZenonT(60) DEF Failed, Held
<1>5. CASE Deliver
  <2>0. /\ bus # Nil /\ bus.left \in Seq(Subscribers) /\ bus.left # <<>>
        /\ bus' # Nil => bus'.ev = bus.ev /\ bus'.left = Tail(bus.left)
    BY <1>5, DeliverBus, ZenonT(60)
  <2>1. /\ \A i \in DOMAIN Tail(bus.left) : \E j \in DOMAIN bus.left : bus.left[j] = Tail(bus.left)[i]
        /\ 1 \in DOMAIN bus.left /\ bus.left[1] = Head(bus.left)
    BY ONLY <2>0, SMTT(40)
  <2>2. CASE Queued(o, c)' /\ ~bus'.ev.ok
    <3>1. /\ bus' # Nil /\ bus'.ev.kind = "finish" /\ bus'.ev.o = o /\ bus'.ev.c = c
          /\ \E i \in DOMAIN bus'.left : bus'.left[i] = "daemon"
      BY <2>2, ZenonT(60) DEF Queued
    <3>2. bus'.ev = bus.ev /\ \E i \in DOMAIN Tail(bus.left) : Tail(bus.left)[i] = "daemon"
      BY <2>0, <3>1, ZenonT(60)
    <3>3. \E i \in DOMAIN bus.left : bus.left[i] = "daemon"
      BY <2>1, <3>2, ZenonT(60)
    <3> QED
      BY <2>0, <2>2, <3>1, <3>2, <3>3, ZenonT(60) DEF Failed, Queued
  <2>3. CASE Held(o, c)' /\ ~daemon'.ok
    <3>1. CASE daemon' = daemon
      BY <2>3, <3>1, ZenonT(60) DEF Failed, Held
    <3>2. CASE daemon' # daemon
      <4>1. daemon' = bus.ev /\ bus.ev.kind = "finish" /\ Head(bus.left) = "daemon"
        BY <1>5, <2>3, <3>2, DeliverTypes, ZenonT(60) DEF Held
      <4> QED
        BY <2>0, <2>1, <2>3, <4>1, ZenonT(60) DEF Failed, Held, Queued
    <3> QED
      BY <3>1, <3>2
  <2> QED
    BY <1>1, <2>2, <2>3, ZenonT(60) DEF Failed
<1>6. ASSUME NEW q \in DOMAIN objs, NEW d \in Chain, NEW t, NEW k, RunnerStep(q, d, t, k)
      PROVE  Failed(o, c)
  <2>1. daemon' = daemon
    BY <1>6, ZenonT(60) DEF RunnerStep, ByRunner
  <2>2. CASE (Abandons(q, d, t, k) \/ Finishes(q, d, t, k)) /\ bus' # Nil
    <3>1. PICK ok \in BOOLEAN : Sent("finish", q, d, ok)
      <4>1. objs[q].run[d].ok \in BOOLEAN
        BY Objects, SMTT(40) DEF Runner
      <4> QED
        BY <2>2, <4>1, SendSent, ZenonT(60) DEF Abandons, Finishes
    <3>2. t.at = "off" /\ Where(q, d) # "off"
      BY <2>2, Offs, ZenonT(60) DEF Abandons, Finishes
    <3>3. objs'[q].run[d] = t
      BY <1>6, ZenonT(60) DEF RunnerStep, Changes
    <3>4. ~(o = q /\ c = d)
      BY <3>2, <3>3, ZenonT(60) DEF Where
    <3>5. ~Queued(o, c)'
      BY <2>2, <3>1, <3>4, ZenonT(60) DEF Sent, Queued
    <3> QED
      BY <1>1, <2>1, <3>5, ZenonT(60) DEF Failed, Held
  <2>3. CASE bus' = Nil
    BY <1>1, <2>1, <2>3, ZenonT(60) DEF Failed, Queued, Held
  <2>4. CASE bus' = bus \/ Tell(q, d)
    BY <1>3, <1>4, <2>1, <2>4, ZenonT(60)
  <2> QED
    BY <1>6, <2>2, <2>3, <2>4, ZenonT(60) DEF RunnerStep, Moves, Prepares, Adopts, Spawns, Waits, Reaps
<1>7. ASSUME NEW q \in DOMAIN objs, NEW d \in Chain, NEW t, NEW i, NEW m, MainStep(q, m, i, d, t)
      PROVE  Failed(o, c)
  <2>1. bus' = bus \/ Tell(q, 1)
    BY <1>7, ZenonT(60) DEF MainStep, Looks, Announces, Launches, Advances, Retries
  <2>2. daemon' = daemon /\ 1 \in Chain
    BY <1>7, Objects, ZenonT(60) DEF MainStep, ByMain
  <2> QED
    BY <1>3, <1>4, <2>1, <2>2, ZenonT(60)
<1>8. CASE OtherSteps
  BY <1>3, <1>5, <1>8, OtherFrame, ZenonT(60)
<1>9. CASE Dies
  BY <1>2, <1>9, ZenonT(60) DEF Dies
<1>10. CASE Loaded \/ Created
  BY <1>3, <1>10, ZenonT(60) DEF Loaded, Created
<1>11. ASSUME NEW q \in DOMAIN objs, NEW d \in Chain, NEW t, DaemonStep(q, d, t)
       PROVE  Failed(o, c)
  BY <1>3, <1>11, ZenonT(60) DEF DaemonStep
<1> QED
  BY <1>6, <1>7, <1>8, <1>9, <1>10, <1>11, Cases, ZenonT(60)

\* PodProcess.run does not come back to a container that has had a process.
LEMMA UntouchedFrame ==
  ASSUME TypeOK, MainInv, EventInv, LaunchInv, [Next]_vars, ~Dies, ~Loaded,
         NEW o \in DOMAIN objs, NEW c \in Chain,
         objs'[o].run[c] = objs[o].run[c], Untouched(o, c)'
  PROVE  Untouched(o, c)
<1>1. CASE objs'[o].main = objs[o].main /\ objs'[o].rec.idx = objs[o].rec.idx
  BY <1>1, ZenonT(60) DEF Untouched, Launched
<1>2. ASSUME NEW q \in DOMAIN objs, NEW d \in Chain, NEW t, NEW k,
             Changes(objs, objs', q, objs[q].main, objs[q].rec.idx, d, t, k)
      PROVE  Untouched(o, c)
  <2>1. objs'[o].main = objs[o].main /\ objs'[o].rec.idx = objs[o].rec.idx
    BY <1>2, SMTT(40) DEF Changes
  <2> QED
    BY <1>1, <2>1, ZenonT(60)
<1>3. ASSUME NEW q \in DOMAIN objs, NEW d \in Chain, NEW t, NEW i, NEW m, MainStep(q, m, i, d, t)
      PROVE  Untouched(o, c)
  <2>1. /\ objs'[o].main = IF o = q THEN m ELSE objs[o].main
        /\ objs'[o].rec.idx = IF o = q THEN i ELSE objs[o].rec.idx
        /\ objs'[o].run[c] = IF o = q /\ c = d THEN t ELSE objs[o].run[c]
    BY <1>3, ZenonT(60) DEF MainStep, Changes
  <2>2. CASE o # q
    BY <1>1, <2>1, <2>2, ZenonT(60)
  <2>3. CASE o = q /\ ~Sync(c)
    BY <1>3, <2>3, MainLaunched, ZenonT(60) DEF Untouched
  <2>4. CASE o = q /\ Sync(c)
    <3>0. objs[o].rec.idx \in Nat /\ c \in Nat
      BY Objects, Numbers, ZenonT(60)
    <3>1. CASE Looks(o, m, i, d, t) \/ Announces(o, m, i, d, t)
      BY <2>1, <2>4, <3>0, <3>1, ZenonT(60) DEF Looks, Announces, Untouched
    <3>2. CASE Launches(o, m, i, d, t)
      BY <2>1, <2>4, <3>0, <3>2, ZenonT(60) DEF Launches, Untouched
    <3>3. CASE Advances(o, m, i, d, t)
      <4>1. /\ i = objs[o].rec.idx + 1 /\ m = "loop"
            /\ objs'[o].main = "loop" /\ objs'[o].rec.idx = i
        BY <2>1, <2>4, <3>3, ZenonT(60) DEF Advances
      <4>2. c > i + 1 \/ c = i + 1
        BY <2>4, <4>1, ZenonT(60) DEF Untouched, Sync
      <4>3. c > objs[o].rec.idx + 1
        BY ONLY <3>0, <4>1, <4>2, SMTT(40)
      <4> QED
        BY <2>4, <4>3, ZenonT(60) DEF Untouched
    <3>4. CASE Retries(o, m, i, d, t)
      BY <2>1, <2>4, <3>0, <3>4, ZenonT(60) DEF Retries, Untouched
    <3> QED
      BY <1>3, <2>4, <3>1, <3>2, <3>3, <3>4, ZenonT(60) DEF MainStep
  <2> QED
    BY <2>2, <2>3, <2>4, ZenonT(60)
<1>4. CASE Kept
  BY <1>1, <1>4, ZenonT(60) DEF Kept
<1>5. CASE Created
  <2>1. objs'[o] = objs[o]
    BY <1>5, ZenonT(60) DEF Created
  <2> QED
    BY <1>1, <2>1, ZenonT(60)
<1> QED
  BY <1>2, <1>3, <1>4, <1>5, Cases, ZenonT(60) DEF RunnerStep, DaemonStep

\* The goroutine of the container moves.
LEMMA ContainerMoves ==
  ASSUME TypeOK, DownIsEmpty, FirstLife, MainInv, EventInv, LaunchInv, RecordInv, TokenInv, TokenInv',
         starts = 1, NEW o \in DOMAIN objs, NEW c \in Chain, NEW t \in Runner, NEW k,
         Container(o, c), RunnerStep(o, c, t, k)
  PROVE  Container(o, c)'
<1>0. /\ o \in DOMAIN objs' /\ objs'[o].rec.pod = objs[o].rec.pod /\ Uid(o)' = Uid(o)
      /\ objs'[o].run[c] = t /\ Where(o, c)' = t.at /\ objs'[o].rec.pid[c] = k
      /\ objs'[o].main = objs[o].main /\ objs'[o].rec.idx = objs[o].rec.idx
  <2>1. Changes(objs, objs', o, objs[o].main, objs[o].rec.idx, c, t, k)
    BY ZenonT(60) DEF RunnerStep
  <2>2. PICK m, i : m = objs[o].main /\ i = objs[o].rec.idx
    BY SMTT(40)
  <2>3. Changes(objs, objs', o, m, i, c, t, k)
    BY <2>1, <2>2, ZenonT(60)
  <2>4. objs'[o].main = m /\ objs'[o].rec.idx = i
    BY <2>3, ZenonT(60) DEF Changes
  <2> QED
    BY <2>2, <2>3, <2>4, ZenonT(60) DEF Changes, Uid, Where
<1>1. Launched(o, c) /\ Launched(o, c)'
  <2>1. Launched(o, c)
    BY MovesFrom, ZenonT(60) DEF RunnerStep, LaunchInv
  <2> QED
    BY <1>0, <2>1, ZenonT(60) DEF Launched
<1>2. ~Sync(c) /\ t.at # "off" /\ Failed(o, c)' => t.at = "finish" /\ ~t.ok
  BY <1>0, ZenonT(60) DEF Failed, TokenInv
<1>3. /\ Sync(c) /\ Where(o, c) \in Early => Untouched(o, c)
      /\ t.at \notin Early /\ ~(t.at = "off" /\ ~t.ok) => ~Untouched(o, c)'
      /\ ~Sync(c) => ~Untouched(o, c)'
  <2>1. Sync(c) => objs[o].main = "sync" /\ c = objs[o].rec.idx + 1
    BY <1>1, ZenonT(60) DEF Launched
  <2>2. objs[o].rec.idx \in Nat
    BY Objects, ZenonT(60)
  <2>3. Sync(c) => ~(c > objs[o].rec.idx + 1)
    BY <2>1, <2>2, SMTT(40)
  <2> QED
    BY <1>0, <1>1, <2>1, <2>3, ZenonT(60) DEF Untouched, Where
<1>4. ASSUME procs' = procs, k = objs[o].rec.pid[c],
             t.at \in {"started", "wait", "finish"} => k # 0,
             \A p \in DOMAIN procs : Own(o, c, p) => Past(o, c, p)'
      PROVE  Container(o, c)'
  <2>1. \A p : Own(o, c, p)' <=> Own(o, c, p)
    BY <1>0, <1>4, ZenonT(60) DEF Own
  <2> QED
    BY <1>0, <1>4, <2>1, ZenonT(60) DEF Container
<1>5. ASSUME NEW p \in DOMAIN procs, Own(o, c, p) PROVE Past(o, c, p)
  BY <1>5, ZenonT(60) DEF Container
<1>6. ASSUME NEW p, procs'[p] = procs[p] PROVE Again(o, p)' <=> Again(o, p)
  BY <1>0, <1>6, SMTT(40) DEF Again
<1>7. CASE Prepares(o, c, t, k)
  <2>1. Where(o, c) \in Early /\ t.at \in Early /\ k = objs[o].rec.pid[c] /\ procs' = procs
    BY <1>7, ZenonT(60) DEF Prepares
  <2>2. t.at \notin {"started", "wait", "finish", "off"}
        /\ Where(o, c) \notin {"started", "wait"}
    BY <2>1, ZenonT(60) DEF Early
  <2>3. ASSUME NEW p \in DOMAIN procs, Own(o, c, p) PROVE Past(o, c, p)'
    <3>1. Past(o, c, p) /\ ~procs[p].alive /\ ~Sync(c)
      BY <1>3, <1>5, <2>1, <2>2, <2>3, ZenonT(60) DEF Past, Runs, Where
    <3> QED
      BY <1>0, <1>2, <1>3, <1>6, <2>1, <2>2, <3>1, ZenonT(60) DEF Past
  <2> QED
    BY <1>4, <2>1, <2>2, <2>3, ZenonT(60)
<1>8. CASE Abandons(o, c, t, k)
  <2>1. Where(o, c) = "giveup" /\ t.at = "off" /\ k = objs[o].rec.pid[c] /\ procs' = procs
    BY <1>8, ZenonT(60) DEF Abandons
  <2>2. ASSUME NEW p \in DOMAIN procs, Own(o, c, p) PROVE Past(o, c, p)'
    <3>1. Past(o, c, p) /\ ~procs[p].alive /\ ~Sync(c) /\ Again(o, p)
      BY <1>3, <1>5, <2>1, <2>2, ZenonT(60) DEF Past, Runs, Where, Early
    <3> QED
      BY <1>0, <1>3, <1>6, <2>1, <3>1, ZenonT(60) DEF Past, Again, Early
  <2> QED
    BY <1>4, <2>1, <2>2, ZenonT(60)
<1>9. CASE Adopts(o, c, t, k)
  <2>1. Where(o, c) = "start" /\ k = objs[o].rec.pid[c] /\ k # 0 /\ procs[k].alive
    BY <1>9, ZenonT(60) DEF Adopts, alive
  <2>2. k \in DOMAIN procs /\ Own(o, c, k)
    BY <2>1, ZenonT(60) DEF Container, RecordInv, RecordOK, RecordIn
  <2> QED
    BY <1>5, <2>1, <2>2, ZenonT(60) DEF Past, Runs, Where
<1>10. CASE Spawns(o, c, t, k)
  <2>1. Where(o, c) = "start" /\ t.at = "started"
    BY <1>10, ZenonT(60) DEF Spawns
  <2>2. NewProcess(o, c, k)
    BY <1>10, Spawned, ZenonT(60)
  <2>3. k # 0 /\ Own(o, c, k)'
    BY <1>0, <2>2, ZenonT(60) DEF NewProcess, Own
  <2>4. ~Untouched(o, c)' /\ ~(~Sync(c) /\ Failed(o, c)')
    BY <1>2, <1>3, <2>1, ZenonT(60) DEF Early
  <2>5. Past(o, c, k)'
    <3>1. k <= k
      BY <2>2, SMTT(40) DEF NewProcess
    <3> QED
      BY <1>0, <2>1, <2>4, <3>1, ZenonT(60) DEF Past, Runs, Early
  <2>6. ASSUME NEW p \in DOMAIN procs, Own(o, c, p)' PROVE Past(o, c, p)'
    <3>1. p < k /\ procs'[p] = procs[p] /\ p # k /\ k \in Nat
      BY <2>2, <2>6, ZenonT(60) DEF NewProcess
    <3>2. Own(o, c, p)
      BY <1>0, <2>6, <3>1, ZenonT(60) DEF Own
    <3>3. Past(o, c, p) /\ ~procs[p].alive /\ Again(o, p)
      BY <1>5, <2>1, <2>6, <3>2, ZenonT(60) DEF Past, Runs, Where, Early
    <3>4. p <= k
      BY <3>1, Processes, SMTT(40)
    <3> QED
      BY <1>0, <1>6, <2>1, <2>4, <3>1, <3>3, <3>4, ZenonT(60) DEF Past, Early
  <2> QED
    BY <1>0, <2>2, <2>3, <2>5, <2>6, ZenonT(60) DEF Container, NewProcess
<1>11. CASE Waits(o, c, t, k)
  <2>1. Where(o, c) = "started" /\ t.at = "wait" /\ k = objs[o].rec.pid[c] /\ procs' = procs
    BY <1>11, ZenonT(60) DEF Waits
  <2>2. k # 0
    BY <2>1, ZenonT(60) DEF Container
  <2>3. ASSUME NEW p \in DOMAIN procs, Own(o, c, p) PROVE Past(o, c, p)'
    <3>1. Past(o, c, p)
      BY <1>5, <2>3, ZenonT(60)
    <3> QED
      BY <1>0, <1>2, <1>3, <1>6, <2>1, <3>1, ZenonT(60) DEF Past, Runs, Early
  <2> QED
    BY <1>4, <2>1, <2>2, <2>3, ZenonT(60)
<1>12. CASE Reaps(o, c, t, k)
  <2>1. /\ Where(o, c) = "wait" /\ t.at = "finish" /\ k = objs[o].rec.pid[c] /\ procs' = procs
        /\ ~procs[k].alive \/ ~procs[k].child
        /\ t.ok = (procs[k].child /\ procs[k].ok)
    BY <1>12, ZenonT(60) DEF Reaps
  <2>2. k # 0
    BY <2>1, ZenonT(60) DEF Container
  <2>3. k \in DOMAIN procs
    BY <2>1, <2>2, ZenonT(60) DEF RecordInv, RecordOK, RecordIn
  <2>4. procs[k].child
    <3>1. DOMAIN <<>> = {}
      BY SMTT(40)
    <3>2. up
      BY <3>1, ZenonT(60) DEF DownIsEmpty
    <3> QED
      BY <2>3, <3>2, ZenonT(60) DEF FirstLife
  <2>5. ASSUME NEW p \in DOMAIN procs, Own(o, c, p) PROVE Past(o, c, p)'
    <3>1. Past(o, c, p)
      BY <1>5, <2>5
    <3>2. ~procs[p].alive
      BY <2>1, <2>4, <3>1, ZenonT(60) DEF Past
    <3>3. ASSUME ~t.ok, objs[o].rec.pod.policy = "OnFailure" PROVE ~procs[p].ok
      BY <2>1, <2>4, <3>1, <3>3, ZenonT(60) DEF Past, Again
    <3> QED
      BY <1>0, <1>2, <1>3, <1>6, <2>1, <3>1, <3>2, <3>3, ZenonT(60) DEF Past, Early
  <2> QED
    BY <1>4, <2>1, <2>2, <2>5, ZenonT(60)
<1>13. CASE Finishes(o, c, t, k)
  <2>1. /\ Where(o, c) = "finish" /\ t = Off /\ k = objs[o].rec.pid[c] /\ procs' = procs
        /\ Send("finish", o, c, objs[o].run[c].ok) /\ t.at = "off" /\ t.ok
    BY <1>13, Offs, ZenonT(60) DEF Finishes
  <2>2. ~Sync(c) /\ Failed(o, c)' => ~objs[o].run[c].ok
    <3>1. ~Sync(c) => ~Held(o, c)'
      BY <2>1, ZenonT(60) DEF TokenInv, Held, RunnerStep, ByRunner
    <3>2. objs[o].run[c].ok \in BOOLEAN
      BY Objects, ZenonT(60) DEF Runner
    <3>3. PICK ok \in BOOLEAN : ok = objs[o].run[c].ok
      BY <3>2, SMTT(40)
    <3>4. Sent("finish", o, c, ok)
      BY <2>1, <3>3, SendSent, ZenonT(60)
    <3> QED
      BY <1>0, <2>1, <3>1, <3>3, <3>4, ZenonT(60) DEF Failed, Queued, Sent
  <2>3. ASSUME NEW p \in DOMAIN procs, Own(o, c, p) PROVE Past(o, c, p)'
    <3>1. Past(o, c, p) /\ ~procs[p].alive
      BY <1>5, <2>1, <2>3, ZenonT(60) DEF Past, Runs, Where
    <3>2. ~Sync(c) /\ Failed(o, c)' /\ objs[o].rec.pod.policy = "OnFailure" => ~procs[p].ok
      BY <2>1, <2>2, <3>1, ZenonT(60) DEF Past, Failed
    <3>3. ~Untouched(o, c)'
      BY <1>3, <2>1, ZenonT(60) DEF Early
    <3> QED
      BY <1>0, <1>6, <2>1, <3>1, <3>2, <3>3, ZenonT(60) DEF Past, Early
  <2> QED
    BY <1>4, <2>1, <2>3, ZenonT(60)
<1> QED
  BY <1>7, <1>8, <1>9, <1>10, <1>11, <1>12, <1>13, ZenonT(60) DEF RunnerStep, Moves

\* No process for container c of o: no process at all, or one for another.
LEMMA SettledCases ==
  ASSUME TypeOK, UidInv, NEW o \in DOMAIN objs, NEW c \in Chain,
         \/ procs' = procs \/ \E j \in DOMAIN procs : Ends(j)
         \/ \E q \in DOMAIN objs, d \in Chain, t \in Runner, j \in 0 .. MaxPids :
              Spawns(q, d, t, j) /\ (q # o \/ d # c)
  PROVE  Settled(o, c)
<1> SUFFICES ASSUME NEW p \in DOMAIN procs', procs'[p].uid = Uid(o), procs'[p].c = c
             PROVE  /\ p \in DOMAIN procs /\ Own(o, c, p)
                    /\ procs'[p].alive => procs[p].alive
                    /\ procs'[p].ok = procs[p].ok \/ procs[p].alive
  BY ZenonT(60) DEF Settled
<1>1. CASE procs' = procs
  BY <1>1, ZenonT(60) DEF Own
<1>2. ASSUME NEW j \in DOMAIN procs, Ends(j)
      PROVE  /\ p \in DOMAIN procs /\ Own(o, c, p)
             /\ procs'[p].alive => procs[p].alive
             /\ procs'[p].ok = procs[p].ok \/ procs[p].alive
  BY <1>2, ZenonT(60) DEF Ends, Own
<1>3. ASSUME NEW q \in DOMAIN objs, NEW d \in Chain, NEW t, NEW j, Spawns(q, d, t, j), q # o \/ d # c
      PROVE  p \in DOMAIN procs /\ procs'[p] = procs[p]
  <2>1. NewProcess(q, d, j)
    BY <1>3, Spawned, ZenonT(60)
  <2>2. p # j
    <3>1. p = j => Uid(q) = Uid(o) /\ d = c
      BY <2>1, ZenonT(60) DEF NewProcess
    <3> QED
      BY <1>3, <3>1, SameObject, ZenonT(60)
  <2> QED
    BY <2>1, <2>2, ZenonT(60) DEF NewProcess
<1>4. CASE \E q \in DOMAIN objs, d \in Chain, t \in Runner, j \in 0 .. MaxPids :
             Spawns(q, d, t, j) /\ (q # o \/ d # c)
  <2>1. p \in DOMAIN procs /\ procs'[p] = procs[p]
    BY <1>3, <1>4, ZenonT(60)
  <2> QED
    BY <2>1, ZenonT(60) DEF Own
<1> QED
  BY <1>1, <1>2, <1>4, ZenonT(60)

\* A container is launched that has had no process.
LEMMA ContainerLaunched ==
  ASSUME TypeOK, MainInv, EventInv, RecordInv, NEW o \in DOMAIN objs, NEW c \in Chain, NEW t, NEW i, NEW m,
         Container(o, c), MainStep(o, m, i, c, t), Launches(o, m, i, c, t)
  PROVE  Container(o, c)'
<1>1. /\ objs[o].main = "launch" /\ c = objs[o].rec.idx + 1 /\ t.at = "begin" /\ procs' = procs
  BY ZenonT(60) DEF MainStep, Launches, ByMain
<1>2. PICK k : k = objs[o].rec.pid[c]
  BY SMTT(40)
<1>3. objs'[o].rec.pod = objs[o].rec.pod /\ objs'[o].run[c] = t /\ objs'[o].rec.pid[c] = k
  BY <1>2, ZenonT(60) DEF MainStep, Changes
<1>4. Untouched(o, c)
  <2>1. ~(c <= objs[o].rec.idx)
    BY <1>1, Objects, Numbers, SMTT(40)
  <2> QED
    BY <1>1, <2>1, ZenonT(60) DEF Untouched, Launched
<1>5. ASSUME NEW p \in DOMAIN procs PROVE ~Own(o, c, p)
  BY <1>4, <1>5, ZenonT(60) DEF Container, Past
<1>6. \A p : Own(o, c, p)' <=> Own(o, c, p)
  BY <1>1, <1>3, ZenonT(60) DEF Own, Uid
<1> QED
  BY <1>1, <1>2, <1>3, <1>5, <1>6, ZenonT(60) DEF Container, Where

\* The daemon starts a container again as its restart policy says.
LEMMA ContainerRestarts ==
  ASSUME TypeOK, MainInv, EventInv, RecordInv, TokenInv, TokenInv', NEW o \in DOMAIN objs, NEW c \in Chain,
         NEW t, Container(o, c), DaemonStep(o, c, t)
  PROVE  Container(o, c)'
<1>1. Held(o, c) /\ ~Sync(c) /\ t.at = "begin" /\ procs' = procs
  BY ZenonT(60) DEF DaemonStep, Restarts, Held, ByBus
<1>2. /\ objs[o].rec.pod.policy # "Never"
      /\ objs[o].rec.pod.policy = "OnFailure" => ~daemon.ok
  BY ZenonT(60) DEF DaemonStep, Restarts
<1>3. Where(o, c) = "off" /\ Launched(o, c)
  BY <1>1, ZenonT(60) DEF TokenInv
<1>4. PICK k : k = objs[o].rec.pid[c]
  BY SMTT(40)
<1>5. Changes(objs, objs', o, objs[o].main, objs[o].rec.idx, c, t, k)
  BY <1>4, ZenonT(60) DEF DaemonStep
<1>6. /\ o \in DOMAIN objs' /\ objs'[o].rec.pod = objs[o].rec.pod /\ objs'[o].run[c] = t
      /\ objs'[o].rec.pid[c] = k /\ Where(o, c)' = "begin"
  BY <1>1, <1>5, ZenonT(60) DEF Changes, Where
<1>7. Launched(o, c)'
  BY <1>3, <1>5, SameLaunched, ZenonT(60)
<1>8. ~Failed(o, c)'
  BY <1>1, <1>6, ZenonT(60) DEF TokenInv, Failed
<1>9. ASSUME NEW p \in DOMAIN procs, Own(o, c, p) PROVE Past(o, c, p)'
  <2>1. Past(o, c, p) /\ ~procs[p].alive
    BY <1>3, <1>9, ZenonT(60) DEF Container, Past, Runs, Where
  <2>2. Again(o, p)
    BY <1>1, <1>2, <2>1, ZenonT(60) DEF Past, Failed, Again
  <2>3. Again(o, p)'
    BY <1>1, <1>6, <2>2, ZenonT(60) DEF Again
  <2> QED
    BY <1>1, <1>4, <1>6, <1>7, <1>8, <2>1, <2>3, ZenonT(60) DEF Past, Untouched
<1>10. \A p : Own(o, c, p)' <=> Own(o, c, p)
  BY <1>1, <1>6, ZenonT(60) DEF Own, Uid
<1> QED
  BY <1>1, <1>4, <1>6, <1>9, <1>10, ZenonT(60) DEF Container

\* Changes at container d of q are none at container c of o.
LEMMA ElsewhereUnmoved ==
  ASSUME NEW q \in DOMAIN objs, NEW m, NEW i, NEW d \in Chain, NEW t, NEW k,
         Changes(objs, objs', q, m, i, d, t, k), NEW o \in DOMAIN objs, NEW c \in Chain,
         q # o \/ d # c \/ (t = objs[q].run[d] /\ k = objs[q].rec.pid[d])
  PROVE  Unmoved(o, c)
<1>1. /\ objs'[o].run[c] = IF o = q /\ c = d THEN t ELSE objs[o].run[c]
      /\ objs'[o].rec.pid[c] = IF o = q /\ c = d THEN k ELSE objs[o].rec.pid[c]
      /\ objs'[o].rec.pod = objs[o].rec.pod
  BY ZenonT(60) DEF Changes
<1> QED
  BY <1>1, ZenonT(60) DEF Unmoved

\* What the steps that keep the objects do to the processes.
LEMMA OtherProcs ==
  ASSUME TypeOK, RecordInv, CallInv, OtherSteps
  PROVE  procs' = procs \/ \E j \in DOMAIN procs : Ends(j)
<1>1. CASE CallSteps
  BY <1>1, CallCases, ZenonT(60) DEF UpdateBegins, UpdateEnds, DeleteFindsNone, DeleteBegins, DeleteGoes,
        DeleteKills, DeleteGivesUp, DeleteEnds, Ends
<1> QED
  BY <1>1, OtherCases, UserCases, ZenonT(60) DEF Idle, Exits, Deliver, RecorderPut, ByBus

\* The first life is one life.
LEMMA OneLife ==
  ASSUME TypeOK, MainInv, EventInv, FirstLife, [Next]_vars, starts' = 1, DOMAIN objs' # {}
  PROVE  starts = 1 /\ ~Dies /\ ~Loaded
<1>1. ~Dies
  BY SMTT(40) DEF Dies
<1>2. ~Loaded
  <2>1. ASSUME Loaded PROVE FALSE
    <3>1. starts \in Nat
      <4>1. starts \in 0 .. MaxStarts
        BY ZenonT(60) DEF TypeOK
      <4> QED
        BY ONLY <4>1, Numbers, SMTT(40)
    <3>2. starts' = starts + 1
      BY <2>1, ZenonT(60) DEF Loaded
    <3>3. starts = 0
      BY ONLY <3>1, <3>2, starts' = 1, SMTT(40)
    <3> QED
      BY <2>1, <3>3, ZenonT(60) DEF FirstLife, Loaded
  <2> QED
    BY <2>1, SMTT(40)
<1> QED
  BY <1>1, <1>2, LifeFrame, StartLoads, ZenonT(60)

\* What is known of a container in the first life stays true.
LEMMA PolicyStep ==
  ASSUME TypeOK, DownIsEmpty, FirstLife, MainInv, EventInv, LaunchInv, TokenInv, TokenInv', RecordInv,
         UidInv, FreshInv, CallInv, PolicyInv, [Next]_vars
  PROVE  PolicyInv'
<1> SUFFICES ASSUME starts' = 1, NEW o \in DOMAIN objs', NEW c \in Chain PROVE Container(o, c)'
  BY ZenonT(60) DEF PolicyInv
<1>0. starts = 1 /\ ~Dies /\ ~Loaded
  BY OneLife, ZenonT(60)
<1>1. ASSUME o \in DOMAIN objs PROVE Container(o, c)
  BY <1>0, <1>1, ZenonT(60) DEF PolicyInv
<1>2. ASSUME o \in DOMAIN objs, Unmoved(o, c), Settled(o, c) PROVE Container(o, c)'
  <2>1. objs'[o].run[c] = objs[o].run[c]
    BY <1>2, ZenonT(60) DEF Unmoved
  <2>2. (Failed(o, c)' => Failed(o, c)) /\ (Untouched(o, c)' => Untouched(o, c))
    BY <1>0, <1>2, <2>1, FailedFrame, UntouchedFrame, ZenonT(60)
  <2> QED
    BY <1>1, <1>2, <2>2, ContainerStays, ZenonT(60)
<1>3. CASE Created
  <2>1. CASE o \in DOMAIN objs
    <3>1. objs'[o] = objs[o] /\ procs' = procs
      BY <1>3, <2>1, ZenonT(60) DEF Created
    <3> QED
      BY <1>2, <2>1, <3>1, SettledCases, ZenonT(60) DEF Unmoved
  <2>2. CASE o \notin DOMAIN objs
    <3>1. /\ objs'[o].rec.pid[c] = 0 /\ objs'[o].run[c] = Off /\ Uid(o)' = pods /\ procs' = procs
          /\ wanted # Nil /\ ~wanted.del /\ db = Nil
      <4>1. objs'[o].rec = db' /\ db'.pod = wanted /\ db'.pid[c] = 0 /\ objs'[o].run[c] = Off
            /\ wanted # Nil /\ procs' = procs /\ ~wanted.del /\ db = Nil
        BY <1>3, <2>2, ZenonT(60) DEF Created
      <4> QED
        BY <4>1, ZenonT(60) DEF Uid, UidInv
    <3>2. \A p \in DOMAIN procs' : ~Own(o, c, p)'
      BY <3>1, ZenonT(60) DEF Own, FreshInv
    <3> QED
      BY <3>1, <3>2, Offs, ZenonT(60) DEF Container, Where
  <2> QED
    BY <2>1, <2>2, ZenonT(60)
<1>4. CASE Kept /\ OtherSteps
  <2>1. o \in DOMAIN objs /\ Unmoved(o, c)
    BY <1>4, ZenonT(60) DEF Kept, Unmoved
  <2>2. Settled(o, c)
    BY <1>4, <2>1, OtherProcs, SettledCases, ZenonT(60)
  <2> QED
    BY <1>2, <2>1, <2>2, ZenonT(60)
<1>5. ASSUME NEW q \in DOMAIN objs, NEW d \in Chain, NEW t \in Runner, NEW k \in 0 .. MaxPids,
             RunnerStep(q, d, t, k)
      PROVE  Container(o, c)'
  <2>1. o \in DOMAIN objs
    BY <1>5, ZenonT(60) DEF RunnerStep, Changes
  <2>2. CASE q = o /\ d = c
    BY <1>0, <1>1, <1>5, <2>1, <2>2, ContainerMoves, ZenonT(60)
  <2>3. CASE q # o \/ d # c
    <3>1. Unmoved(o, c)
      BY <1>5, <2>1, <2>3, ElsewhereUnmoved, ZenonT(60) DEF RunnerStep
    <3>2. procs' = procs \/ Spawns(q, d, t, k)
      BY <1>5, ZenonT(60) DEF RunnerStep, Moves, Prepares, Abandons, Adopts, Waits, Reaps, Finishes
    <3>3. Settled(o, c)
      BY <2>1, <2>3, <3>2, SettledCases, ZenonT(60)
    <3> QED
      BY <1>2, <2>1, <3>1, <3>3, ZenonT(60)
  <2> QED
    BY <2>2, <2>3, ZenonT(60)
<1>6. ASSUME NEW q \in DOMAIN objs, NEW d \in Chain, NEW t \in Runner, NEW i, NEW m, MainStep(q, m, i, d, t)
      PROVE  Container(o, c)'
  <2>1. PICK k : k = objs[q].rec.pid[d]
    BY SMTT(40)
  <2>2. Changes(objs, objs', q, m, i, d, t, k) /\ procs' = procs
    BY <1>6, <2>1, ZenonT(60) DEF MainStep, ByMain
  <2>3. o \in DOMAIN objs
    BY <2>2, ZenonT(60) DEF Changes
  <2>4. CASE q = o /\ d = c /\ Launches(q, m, i, d, t)
    BY <1>1, <1>6, <2>3, <2>4, ContainerLaunched, ZenonT(60)
  <2>5. CASE q # o \/ d # c \/ t = objs[q].run[d]
    <3>1. Unmoved(o, c)
      BY <2>1, <2>2, <2>3, <2>5, ElsewhereUnmoved, ZenonT(60)
    <3> QED
      BY <1>2, <2>2, <2>3, <3>1, SettledCases, ZenonT(60)
  <2> QED
    BY <1>6, <2>4, <2>5, ZenonT(60) DEF MainStep, Looks, Announces, Advances, Retries
<1>7. ASSUME NEW q \in DOMAIN objs, NEW d \in Chain, NEW t \in Runner, DaemonStep(q, d, t)
      PROVE  Container(o, c)'
  <2>1. PICK k : k = objs[q].rec.pid[d]
    OBVIOUS
  <2>2. Changes(objs, objs', q, objs[q].main, objs[q].rec.idx, d, t, k) /\ procs' = procs
    BY <1>7, <2>1, ZenonT(60) DEF DaemonStep, ByBus
  <2>3. o \in DOMAIN objs
    BY <2>2, ZenonT(60) DEF Changes
  <2>4. CASE q = o /\ d = c
    BY <1>1, <1>7, <2>3, <2>4, ContainerRestarts, ZenonT(60)
  <2>5. CASE q # o \/ d # c
    <3>1. Unmoved(o, c)
      BY <2>2, <2>3, <2>5, ElsewhereUnmoved, ZenonT(60)
    <3> QED
      BY <1>2, <2>2, <2>3, <3>1, SettledCases, ZenonT(60)
  <2> QED
    BY <2>4, <2>5, SMTT(40)
<1> QED
  BY <1>0, <1>3, <1>4, <1>5, <1>6, <1>7, Cases, ZenonT(60)

\* PodProcess.run passes an init container when it has had a process.
LEMMA OrderStep ==
  ASSUME TypeOK, FirstLife, MainInv, EventInv, LaunchInv, TokenInv, PolicyInv, OrderInv, [Next]_vars
  PROVE  OrderInv'
<1> SUFFICES ASSUME starts' = 1, NEW o \in DOMAIN objs', NEW c \in Chain, Sync(c),
                    \/ c <= objs'[o].rec.idx
                    \/ Launched(o, c)' /\ Where(o, c)' = "off" /\ objs'[o].run[c].ok
             PROVE  objs'[o].rec.pid[c] # 0
  BY ZenonT(60) DEF OrderInv
<1>0. starts = 1 /\ ~Dies /\ ~Loaded
  BY OneLife, ZenonT(60)
<1>1. ASSUME o \in DOMAIN objs,
             \/ c <= objs[o].rec.idx
             \/ Launched(o, c) /\ Where(o, c) = "off" /\ objs[o].run[c].ok
      PROVE  objs[o].rec.pid[c] # 0
  BY <1>0, <1>1, ZenonT(60) DEF OrderInv
<1>2. CASE Created
  <2>1. CASE o \in DOMAIN objs
    <3>1. objs'[o] = objs[o]
      BY <1>2, <2>1, ZenonT(60) DEF Created
    <3> QED
      BY <1>1, <2>1, <3>1, ZenonT(60) DEF Launched, Where
  <2>2. CASE o \notin DOMAIN objs
    <3>1. objs'[o].rec.idx = 0 /\ objs'[o].main = "loop"
      BY <1>2, <2>2, ZenonT(60) DEF Created
    <3> QED
      BY <3>1, SMTT(40) DEF Launched, Chain
  <2> QED
    BY <2>1, <2>2, ZenonT(60)
<1>3. CASE Kept
  BY <1>1, <1>3, KeptLaunched, ZenonT(60) DEF Kept
<1>4. ASSUME NEW q \in DOMAIN objs, NEW d \in Chain, NEW t, NEW k,
             Changes(objs, objs', q, objs[q].main, objs[q].rec.idx, d, t, k),
             k # 0 \/ k = objs[q].rec.pid[d],
             t.at = "off" /\ t.ok => k # 0
      PROVE  objs'[o].rec.pid[c] # 0
  <2>1. o \in DOMAIN objs /\ (Launched(o, c)' <=> Launched(o, c))
    <3>1. o \in DOMAIN objs
      BY <1>4, ZenonT(60) DEF Changes
    <3> QED
      BY <1>4, <3>1, SameLaunched, ZenonT(60)
  <2>2. /\ objs'[o].run[c] = IF o = q /\ c = d THEN t ELSE objs[o].run[c]
        /\ objs'[o].rec.pid[c] = IF o = q /\ c = d THEN k ELSE objs[o].rec.pid[c]
    BY <1>4, <2>1, ZenonT(60) DEF Changes
  <2>3. objs'[o].rec.idx = objs[o].rec.idx
    BY <1>4, <2>1, ZenonT(60) DEF Changes
  <2>4. CASE o = q /\ c = d
    BY <1>1, <1>4, <2>1, <2>2, <2>3, <2>4, ZenonT(60) DEF Where
  <2>5. CASE ~(o = q /\ c = d)
    BY <1>1, <2>1, <2>2, <2>3, <2>5, ZenonT(60) DEF Where
  <2> QED
    BY <2>4, <2>5, ZenonT(60)
<1>5. ASSUME NEW q \in DOMAIN objs, NEW d \in Chain, NEW t, NEW k, RunnerStep(q, d, t, k)
      PROVE  objs'[o].rec.pid[c] # 0
  <2>1. k = objs[q].rec.pid[d] \/ k # 0
    <3>1. Spawns(q, d, t, k) => NewProcess(q, d, k)
      BY Spawned, ZenonT(60)
    <3> QED
      BY <1>5, <3>1, ZenonT(60) DEF RunnerStep, Moves, Prepares, Abandons, Adopts, Waits, Reaps, Finishes,
            NewProcess
  <2>2. ASSUME t.at = "off", t.ok PROVE k # 0
    <3>1. Finishes(q, d, t, k)
      BY <1>5, <2>2, ZenonT(60) DEF RunnerStep, Moves, Prepares, Abandons, Adopts, Spawns, Waits, Reaps, Early
    <3>2. Where(q, d) = "finish" /\ k = objs[q].rec.pid[d]
      BY <3>1, ZenonT(60) DEF Finishes
    <3> QED
      BY <1>0, <3>2, ZenonT(60) DEF PolicyInv, Container
  <2> QED
    BY <1>4, <1>5, <2>1, <2>2, ZenonT(60) DEF RunnerStep
<1>6. ASSUME NEW q \in DOMAIN objs, NEW d \in Chain, NEW t, DaemonStep(q, d, t)
      PROVE  objs'[o].rec.pid[c] # 0
  <2>1. PICK k : k = objs[q].rec.pid[d]
    BY SMTT(40)
  <2>2. Changes(objs, objs', q, objs[q].main, objs[q].rec.idx, d, t, k) /\ t.at = "begin"
    BY <1>6, <2>1, ZenonT(60) DEF DaemonStep
  <2> QED
    BY <1>4, <2>1, <2>2, ZenonT(60)
<1>7. ASSUME NEW q \in DOMAIN objs, NEW d \in Chain, NEW t, NEW i, NEW m, MainStep(q, m, i, d, t)
      PROVE  objs'[o].rec.pid[c] # 0
  <2>1. PICK k : k = objs[q].rec.pid[d]
    OBVIOUS
  <2>2. Changes(objs, objs', q, m, i, d, t, k)
    BY <1>7, <2>1, ZenonT(60) DEF MainStep
  <2>3. /\ o \in DOMAIN objs
        /\ objs'[o].main = IF o = q THEN m ELSE objs[o].main
        /\ objs'[o].rec.idx = IF o = q THEN i ELSE objs[o].rec.idx
        /\ objs'[o].run[c] = IF o = q /\ c = d THEN t ELSE objs[o].run[c]
        /\ objs'[o].rec.pid[c] = IF o = q /\ c = d THEN k ELSE objs[o].rec.pid[c]
    BY <2>2, ZenonT(60) DEF Changes
  <2>4. objs'[o].rec.pid[c] = objs[o].rec.pid[c]
    BY <2>1, <2>3, ZenonT(60)
  <2>5. CASE o # q
    BY <1>1, <2>3, <2>4, <2>5, ZenonT(60) DEF Launched, Where
  <2>6. CASE o = q
    <3>0. objs[o].rec.idx \in Nat /\ c \in Nat
      BY <2>3, Objects, Numbers, ZenonT(60)
    <3>1. CASE Looks(o, m, i, d, t) \/ Announces(o, m, i, d, t)
      BY <1>1, <2>3, <2>4, <2>6, <3>1, ZenonT(60) DEF Looks, Announces, Launched, Where
    <3>2. CASE Launches(o, m, i, d, t)
      <4>1. i = objs[o].rec.idx /\ d = objs[o].rec.idx + 1 /\ t.at = "begin"
        BY <3>2, ZenonT(60) DEF Launches
      <4>2. c <= objs[o].rec.idx
        BY <2>3, <2>6, <4>1, ZenonT(60) DEF Launched, Where
      <4> QED
        BY <1>1, <2>3, <2>4, <4>2, ZenonT(60)
    <3>3. CASE Advances(o, m, i, d, t)
      <4>1. /\ i = objs[o].rec.idx + 1 /\ d = objs[o].rec.idx + 1 /\ m = "loop" /\ t = objs[o].run[d]
            /\ objs[o].main = "next" \/ (objs[o].main = "sync" /\ t.at = "off" /\ t.ok)
        BY <3>3, ZenonT(60) DEF Advances
      <4>2. c <= objs[o].rec.idx + 1
        BY <2>3, <2>6, <4>1, ZenonT(60) DEF Launched
      <4>3. CASE c <= objs[o].rec.idx
        BY <1>1, <2>3, <2>4, <4>3, ZenonT(60)
      <4>4. CASE c = objs[o].rec.idx + 1
        <5>1. objs[o].main = "sync" /\ Where(o, c) = "off" /\ objs[o].run[c].ok
          BY <2>3, <4>1, <4>4, ZenonT(60) DEF MainInv, Where
        <5> QED
          BY <1>1, <2>3, <2>4, <4>4, <5>1, ZenonT(60) DEF Launched
      <4> QED
        <5>1. c <= objs[o].rec.idx \/ c = objs[o].rec.idx + 1
          BY ONLY <3>0, <4>2, SMTT(40)
        <5> QED
          BY ONLY <4>3, <4>4, <5>1, ZenonT(60)
    <3>4. CASE Retries(o, m, i, d, t)
      <4>1. i = objs[o].rec.idx /\ m = "loop"
        BY <3>4, ZenonT(60) DEF Retries
      <4> QED
        BY <1>1, <2>3, <2>4, <2>6, <4>1, ZenonT(60) DEF Launched
    <3> QED
      BY <1>7, <2>6, <3>1, <3>2, <3>3, <3>4, ZenonT(60) DEF MainStep
  <2> QED
    BY <2>5, <2>6, ZenonT(60)
<1> QED
  BY <1>0, <1>2, <1>3, <1>5, <1>6, <1>7, Cases, ZenonT(60)

\* A process is new because a goroutine has started it.
LEMMA NewIsSpawned ==
  ASSUME TypeOK, MainInv, EventInv, RecordInv, CallInv, [Next]_vars, NEW k \in DOMAIN procs',
         k \notin DOMAIN procs
  PROVE  \E o \in DOMAIN objs, c \in Chain : Where(o, c) = "start" /\ NewProcess(o, c, k)
<1>1. CASE Dies \/ procs' = procs \/ \E j \in DOMAIN procs : Ends(j)
  BY <1>1, Orphans, ZenonT(60) DEF Ends
<1>2. ASSUME NEW o \in DOMAIN objs, NEW c \in Chain, NEW t, NEW j, Spawns(o, c, t, j)
      PROVE  Where(o, c) = "start" /\ NewProcess(o, c, k)
  <2>1. NewProcess(o, c, j)
    BY <1>2, Spawned, ZenonT(60)
  <2>2. k = j
    BY <2>1, ZenonT(60) DEF NewProcess
  <2> QED
    BY <1>2, <2>1, <2>2, ZenonT(60) DEF Spawns
<1> QED
  BY <1>1, <1>2, ProcsFrame, ZenonT(60)

\* What InitFirst says of a container's process q and an init container i.
After(q, i) ==
  /\ \E p \in DOMAIN procs : p < q /\ procs[p].c = i /\ procs[p].uid = procs[q].uid
  /\ \A p \in DOMAIN procs : procs[p].c = i /\ procs[p].uid = procs[q].uid => ~procs[p].alive

\* Containers come after the init containers.
LEMMA InitFirstStep ==
  ASSUME TypeOK, FirstLife, MainInv, EventInv, LaunchInv, RecordInv, UidInv, CallInv, PolicyInv, OrderInv,
         InitFirst, [Next]_vars
  PROVE  InitFirst'
<1> SUFFICES ASSUME starts' = 1, NEW q \in DOMAIN procs', NEW i \in Chain, Sync(i), ~Sync(procs'[q].c)
             PROVE  After(q, i)'
  BY ZenonT(60) DEF InitFirst, After
<1>0. Later
  BY StepLater, SMTT(40)
<1>1. CASE q \in DOMAIN procs
  <2>1. procs'[q].uid = procs[q].uid /\ procs'[q].c = procs[q].c
    BY <1>0, <1>1, ZenonT(60) DEF Later
  <2>2. starts = 1
    <3>1. CASE Start
      <4>1. starts = 0
        <5>1. starts \in 0 .. MaxStarts /\ starts' = starts + 1
          BY <3>1, ZenonT(60) DEF TypeOK, Start
        <5> QED
          BY ONLY <5>1, starts' = 1, Numbers, SMTT(40)
      <4>2. procs = <<>>
        BY <4>1, ZenonT(60) DEF FirstLife
      <4> QED
        BY ONLY <1>1, <4>2, SMTT(40)
    <3> QED
      BY <3>1, LifeFrame, ZenonT(60) DEF Dies
  <2>3. After(q, i)
    BY <1>1, <2>1, <2>2, ZenonT(60) DEF InitFirst, After
  <2>4. \E p \in DOMAIN procs' : p < q /\ procs'[p].c = i /\ procs'[p].uid = procs'[q].uid
    BY <1>0, <2>1, <2>3, ZenonT(60) DEF After, Later
  <2>5. ASSUME NEW p \in DOMAIN procs', procs'[p].c = i, procs'[p].uid = procs'[q].uid
        PROVE  ~procs'[p].alive
    <3>1. CASE p \in DOMAIN procs
      <4>1. ~procs[p].alive /\ p # 0
        BY <1>0, <2>1, <2>3, <2>5, <3>1, Processes, ZenonT(60) DEF After, Later
      <4> QED
        BY <3>1, <4>1, DeadStays, ZenonT(60) DEF alive
    <3>2. CASE p \notin DOMAIN procs
      <4>1. PICK o \in DOMAIN objs, c \in Chain : Where(o, c) = "start" /\ NewProcess(o, c, p)
        BY <2>5, <3>2, NewIsSpawned, ZenonT(60)
      <4>2. c = i /\ Uid(o) = procs[q].uid
        BY <2>1, <2>5, <4>1, ZenonT(60) DEF NewProcess
      <4>3. PICK d \in Chain : d = procs[q].c
        BY <1>1, Processes, ZenonT(60)
      <4>4. Launched(o, i) /\ Launched(o, d)
        <5>1. Own(o, d, q)
          BY <4>2, <4>3, ZenonT(60) DEF Own
        <5>2. Container(o, d)
          BY <2>2, <4>3, ZenonT(60) DEF PolicyInv
        <5>3. ~Untouched(o, d)
          BY <1>1, <5>1, <5>2, ZenonT(60) DEF Container, Past
        <5> QED
          BY <2>1, <4>1, <4>2, <4>3, <5>3, ZenonT(60) DEF Untouched, LaunchInv
      <4>5. objs[o].main = "sync" /\ i = objs[o].rec.idx + 1 /\ d <= objs[o].rec.idx
        BY <2>1, <4>3, <4>4, ZenonT(60) DEF Launched
      <4> QED
        <5>1. objs[o].rec.idx \in Nat /\ d \in Nat /\ i \in Nat /\ Inits \in Nat
          BY <4>1, <4>3, Objects, Numbers, ZenonT(60)
        <5>2. i <= Inits /\ ~(d <= Inits)
          BY <2>1, <4>3, ZenonT(60) DEF Sync
        <5> QED
          BY ONLY <4>5, <5>1, <5>2, SMTT(40)
    <3> QED
      BY <3>1, <3>2, ZenonT(60)
  <2> QED
    BY <2>4, <2>5, ZenonT(60) DEF After
<1>2. CASE q \notin DOMAIN procs
  <2>1. PICK o \in DOMAIN objs, c \in Chain : Where(o, c) = "start" /\ NewProcess(o, c, q)
    BY <1>2, NewIsSpawned, ZenonT(60)
  <2>2. /\ procs'[q].c = c /\ procs'[q].uid = Uid(o) /\ DOMAIN procs' = DOMAIN procs \cup {q}
        /\ \A p \in DOMAIN procs : p < q /\ procs'[p] = procs[p]
    BY <2>1, ZenonT(60) DEF NewProcess
  <2>3. starts = 1
    <3>1. ~Start /\ ~Dies
      <4>1. Start => procs' = procs
        BY ZenonT(60) DEF Start
      <4> QED
        BY <1>2, <4>1, Orphans, ZenonT(60)
    <3> QED
      BY <3>1, LifeFrame, ZenonT(60)
  <2>4. i <= objs[o].rec.idx
    <3>1. Launched(o, c)
      BY <2>1, ZenonT(60) DEF LaunchInv
    <3>2. c <= objs[o].rec.idx \/ c = objs[o].rec.idx + 1
      BY <2>2, <3>1, ZenonT(60) DEF Launched
    <3> QED
      <4>1. objs[o].rec.idx \in Nat /\ c \in Nat /\ i \in Nat /\ Inits \in Nat
        BY Objects, Numbers, ZenonT(60)
      <4>2. i <= Inits /\ ~(c <= Inits)
        BY <2>2, ZenonT(60) DEF Sync
      <4> QED
        BY ONLY <3>2, <4>1, <4>2, SMTT(40)
  <2>5. Container(o, i) /\ objs[o].rec.pid[i] # 0
    BY <2>3, <2>4, ZenonT(60) DEF PolicyInv, OrderInv
  <2>6. PICK p \in DOMAIN procs : Own(o, i, p)
    BY <2>5, ZenonT(60) DEF Container, RecordInv, RecordOK, RecordIn
  <2>7. ASSUME NEW r \in DOMAIN procs', procs'[r].c = i, procs'[r].uid = procs'[q].uid
        PROVE  ~procs'[r].alive
    <3>1. r \in DOMAIN procs
      BY <2>2, <2>7, ZenonT(60)
    <3>2. Own(o, i, r)
      BY <2>2, <2>7, <3>1, ZenonT(60) DEF Own
    <3>3. Past(o, i, r)
      BY <2>5, <3>1, <3>2, ZenonT(60) DEF Container
    <3>4. ~Runs(o, i)
      <4>1. ASSUME Runs(o, i) PROVE FALSE
        <5>1. Launched(o, i)
          BY <4>1, ZenonT(60) DEF Runs, LaunchInv, Where
        <5> QED
          <6>1. objs[o].rec.idx \in Nat /\ i \in Nat
            BY Objects, Numbers, ZenonT(60)
          <6>2. ~(i = objs[o].rec.idx + 1)
            BY ONLY <2>4, <6>1, SMTT(40)
          <6> QED
            BY <5>1, <6>2, ZenonT(60) DEF Launched
      <4> QED
        BY <4>1, ZenonT(60)
    <3> QED
      BY <2>2, <3>1, <3>3, <3>4, ZenonT(60) DEF Past
  <2> QED
    BY <2>2, <2>6, <2>7, ZenonT(60) DEF After, Own
<1> QED
  BY <1>1, <1>2, ZenonT(60)
-----------------------------------------------------------------------------
(* The theorems. *)

\* Everything that is known of the process manager.
IInv ==
  /\ TypeOK /\ DownIsEmpty /\ FirstLife /\ EventInv /\ BusInv /\ MainInv /\ LaunchInv /\ TokenInv
  /\ RecordInv /\ UidInv /\ FreshInv /\ CallInv /\ KilledInv /\ MatchInv
  /\ Supervised /\ PolicyInv /\ OrderInv /\ InitFirst

\* It holds before the first start.
LEMMA InitIInv ==
  Init => IInv
<1> SUFFICES ASSUME Init PROVE IInv
  BY SMTT(40)
<1>0. /\ up = FALSE /\ starts = 0 /\ wanted = Nil /\ pods = 0 /\ gone = FALSE
      /\ db = Nil /\ objs = <<>> /\ procs = <<>>
      /\ subs = <<>> /\ joined = {} /\ bus = Nil
      /\ recorder = Nil /\ daemon = Nil /\ handler = Nil
      /\ call = NoCall /\ faults = 0
  BY ZenonT(60) DEF Init
<1>1. DOMAIN objs = {} /\ DOMAIN procs = {} /\ DOMAIN subs = {}
  BY <1>0, SMTT(40)
<1>2. call \in Call /\ call.op = "none" /\ call.rec = Nil
  BY <1>0, NoCallIsCall, ZenonT(60)
<1>3. TypeOK
  <2>1. /\ objs \in Seq(Object) /\ Len(objs) = 0 /\ procs \in Seq(Process) /\ Len(procs) = 0
        /\ subs \in Seq(Subscribers)
    BY <1>0, SMTT(40)
  <2>2. starts \in 0 .. MaxStarts /\ pods \in 0 .. MaxPods /\ faults \in 0 .. MaxFaults
        /\ 0 <= MaxPods /\ 0 <= MaxPids
    BY <1>0, Numbers, SMTT(40)
  <2> QED
    BY <1>0, <1>2, <2>1, <2>2, ZenonT(60) DEF TypeOK
<1>4. DownIsEmpty /\ FirstLife
  <2>1. starts # 1
    BY <1>0, SMTT(40)
  <2> QED
    BY <1>0, <2>1, ZenonT(60) DEF DownIsEmpty, FirstLife
<1>5. EventInv /\ BusInv /\ MainInv /\ LaunchInv /\ TokenInv
  BY <1>0, <1>1, ZenonT(60) DEF EventInv, BusInv, Distinct, MainInv, LaunchInv, TokenInv
<1>6. RecordInv /\ UidInv /\ FreshInv
  BY <1>0, <1>1, <1>2, ZenonT(60) DEF RecordInv, UidInv, FreshInv
<1>7. CallInv /\ KilledInv /\ MatchInv
  BY <1>0, <1>1, <1>2, ZenonT(60) DEF CallInv, KilledInv, MatchInv
<1>8. Supervised /\ PolicyInv /\ OrderInv /\ InitFirst
  BY <1>1, ZenonT(60) DEF Supervised, PolicyInv, OrderInv, InitFirst
<1> QED
  BY <1>3, <1>4, <1>5, <1>6, <1>7, <1>8, ZenonT(60) DEF IInv

\* Every step keeps it.
LEMMA StepIInv ==
  IInv /\ [Next]_vars => IInv'
<1> SUFFICES ASSUME IInv, [Next]_vars PROVE IInv'
  BY SMTT(40)
<1>0. /\ TypeOK /\ DownIsEmpty /\ FirstLife /\ EventInv /\ BusInv /\ MainInv /\ LaunchInv /\ TokenInv
      /\ RecordInv /\ UidInv /\ FreshInv /\ CallInv /\ KilledInv /\ MatchInv
      /\ Supervised /\ PolicyInv /\ OrderInv /\ InitFirst
  BY ZenonT(60) DEF IInv
<1>1. TypeOK'
  BY <1>0, TypeStep, ZenonT(60)
<1>2. DownIsEmpty' /\ FirstLife' /\ EventInv' /\ BusInv'
  BY <1>0, DownStep, FirstLifeStep, EventStep, BusStep, ZenonT(60)
<1>3. MainInv' /\ LaunchInv' /\ TokenInv'
  BY <1>0, MainInvStep, LaunchStep, TokenStep, ZenonT(60)
<1>4. RecordInv' /\ UidInv' /\ FreshInv'
  BY <1>0, <1>1, RecordStep, UidStep, FreshStep, ZenonT(60)
<1>5. CallInv' /\ KilledInv' /\ MatchInv'
  BY <1>0, <1>1, CallStep, KilledStep, MatchStep, ZenonT(60)
<1>6. Supervised' /\ PolicyInv' /\ OrderInv' /\ InitFirst'
  BY <1>0, <1>3, SupervisedStep, PolicyStep, OrderStep, InitFirstStep, ZenonT(60)
<1> QED
  BY <1>1, <1>2, <1>3, <1>4, <1>5, <1>6, ZenonT(60) DEF IInv

\* It is an invariant.
LEMMA IInvHolds ==
  Spec => []IInv
<1>1. Init => IInv
  BY InitIInv, SMTT(40)
<1>2. IInv /\ [Next]_vars => IInv'
  BY StepIInv, SMTT(40)
<1> QED
  BY <1>1, <1>2, PTL DEF Spec

\* The records, the objects, the processes, the bus and the calls of
\* process_manager.go have their types: no event is of a container beyond the
\* chain, and DeletePod never leaves it.
THEOREM TypeCorrect ==
  Spec => []TypeOK
<1>1. IInv => TypeOK
  BY ZenonT(60) DEF IInv
<1> QED
  BY <1>1, IInvHolds, PTL

\* Every process that this kubelet has started and that lives has a goroutine on
\* its way to processWaiter or in it, however the daemon restarts containers.
THEOREM ProcessesSupervised ==
  Spec => []Supervised
<1>1. IInv => Supervised
  BY ZenonT(60) DEF IInv
<1> QED
  BY <1>1, IInvHolds, PTL

\* startContainerDaemon and PodProcess.run start a container again only when its
\* process is dead and the restart policy asks for it.
THEOREM RestartPolicyRespected ==
  Spec => []PolicyRespected
<1>1. IInv => PolicyRespected
  <2> SUFFICES ASSUME IInv, starts = 1, NEW o \in DOMAIN objs, NEW p \in DOMAIN procs, NEW q \in DOMAIN procs,
                      p < q, procs[p].c = procs[q].c, procs[p].uid = procs[q].uid,
                      procs[q].uid = objs[o].rec.pod.uid
               PROVE  /\ ~procs[p].alive
                      /\ objs[o].rec.pod.policy # "Never"
                      /\ objs[o].rec.pod.policy = "OnFailure" => ~procs[p].ok
    BY ZenonT(60) DEF PolicyRespected
  <2>1. TypeOK /\ PolicyInv
    BY ZenonT(60) DEF IInv
  <2>2. PICK c \in Chain : c = procs[p].c
    BY <2>1, Processes, ZenonT(60)
  <2>3. Own(o, c, p) /\ Own(o, c, q)
    BY <2>2, ZenonT(60) DEF Own, Uid
  <2>4. Past(o, c, p) /\ Past(o, c, q)
    BY <2>1, <2>3, ZenonT(60) DEF PolicyInv, Container
  <2>5. p # objs[o].rec.pid[c]
    <3>1. q <= objs[o].rec.pid[c] /\ p \in Nat /\ q \in Nat
      BY <2>1, <2>4, Processes, ZenonT(60) DEF Past
    <3> QED
      BY <3>1, SMTT(40)
  <2> QED
    BY <2>4, <2>5, ZenonT(60) DEF Past, Again
<1> QED
  BY <1>1, IInvHolds, PTL

\* PodProcess.run starts no container before the processes of all the init
\* containers have come and gone.
THEOREM InitContainersFirst ==
  Spec => []InitFirst
<1>1. IInv => InitFirst
  BY SMTT(40) DEF IInv
<1> QED
  BY <1>1, IInvHolds, PTL

\* runProcess starts no second process beside a live one of the pod that the
\* database record has, also when a restarted kubelet works from that record.
THEOREM NoDuplicateOfRecorded ==
  Spec => RecordedNotDuplicated
<1>1. ASSUME IInv, NEW o \in DOMAIN objs, NEW c \in Chain, StartsProcess(o, c),
             db # Nil, db.pod.uid = objs[o].rec.pod.uid, alive(db.pid[c]), procs[db.pid[c]].uid = db.pod.uid
      PROVE  FALSE
  <2>1. db.pid[c] = objs[o].rec.pid[c]
    BY <1>1, ZenonT(60) DEF IInv, MatchInv, Uid
  <2> QED
    BY <1>1, <2>1, ZenonT(60) DEF StartsProcess
<1>2. IInv => \A o \in DOMAIN objs, c \in Chain :
                StartsProcess(o, c) =>
                  ~(/\ db # Nil /\ db.pod.uid = objs[o].rec.pod.uid
                    /\ alive(db.pid[c]) /\ procs[db.pid[c]].uid = db.pod.uid)
  BY <1>1, ZenonT(60)
<1> QED
  BY <1>2, IInvHolds, PTL DEF RecordedNotDuplicated

\* When DeletePod removes the record from the database, every process that the
\* record names is dead.
THEOREM RecordedProcessesKilled ==
  Spec => DeleteKillsRecorded
<1>1. ASSUME IInv, DeletePodRemoves, NEW c \in Chain PROVE ~alive(call.rec.pid[c])
  <2>1. call.op = "stop" /\ call.c \notin Running(call.rec)
    BY <1>1, ZenonT(60) DEF DeletePodRemoves
  <2>2. TypeOK /\ KilledInv /\ CallInv /\ RecordInv
    BY <1>1, ZenonT(60) DEF IInv
  <2>3. call.rec # Nil
    <3>1. call.op # "none"
      BY ONLY <2>1, SMTT(40)
    <3> QED
      BY <2>2, <3>1, ZenonT(60) DEF CallInv
  <2>4. RecordOK(call.rec)
    BY <2>2, <2>3, ZenonT(60) DEF RecordInv
  <2>5. ASSUME alive(call.rec.pid[c]) PROVE FALSE
    <3>1. c <= call.rec.idx + 1
      BY <2>4, <2>5, ZenonT(60) DEF RecordOK, RecordIn, alive
    <3>2. ~(c < call.c)
      BY <2>1, <2>2, <2>5, ZenonT(60) DEF KilledInv
    <3>3. call.c \in 1 .. Last + 1 /\ call.rec \in Record
      <4>1. call \in Call
        BY <2>2, ZenonT(60) DEF TypeOK
      <4> QED
        BY <2>3, <4>1, CallFields, ZenonT(60)
    <3>4. call.c \in Chain
      BY ONLY <3>2, <3>3, c \in Chain, Numbers, SMTT(40) DEF Chain
    <3>5. ~(call.c <= call.rec.idx + 1)
      BY <2>1, <3>4, ZenonT(60) DEF Running
    <3>6. call.rec.idx \in 0 .. Last
      BY <3>3, RecordFields, ZenonT(60)
    <3> QED
      BY ONLY <3>1, <3>2, <3>3, <3>5, <3>6, c \in Chain, Numbers, SMTT(40) DEF Chain
  <2> QED
    BY <2>5
<1>2. IInv => (DeletePodRemoves => \A c \in Chain : ~alive(call.rec.pid[c]))
  BY <1>1, SMTT(40)
<1> QED
  BY <1>2, IInvHolds, PTL DEF DeleteKillsRecorded
=============================================================================
