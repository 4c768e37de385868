------------------------ MODULE ProcessManagerSteps -------------------------
(***************************************************************************)
(* How a step of ProcessManager changes what the kubelet has in memory,    *)
(* the records and the processes, for every chain of containers and every  *)
(* value of the bounds.                                                    *)
(*                                                                         *)
(* The invariants come first: where PodProcess.run and the goroutine of a  *)
(* container can be (MainInv, LaunchInv), that a container has either a    *)
(* goroutine or a finish event that may restart it, and never both         *)
(* (TokenInv), what a call of the pod controller relies on (CallInv) and   *)
(* what records say of processes (RecordInv, MatchInv).  The lemmas before *)
(* Cases reduce the actions to seven kinds of step, with what each does to *)
(* the objects, the processes and the bus; after it every invariant is     *)
(* shown to be kept by one case distinction over those kinds.              *)
(***************************************************************************)
EXTENDS ProcessManager, Integers, TLAPS

\* The pod of an object; where the goroutine of its container c is.
Uid(o) == objs[o].rec.pod.uid
Where(o, c) == objs[o].run[c].at

\* The goroutine is not past runProcess.
Early == {"begin", "work", "told", "failed", "start", "notstarted", "giveup"}

\* Nothing of a kubelet that is down is left in memory.
DownIsEmpty ==
  ~up => /\ objs = <<>> /\ call = NoCall /\ subs = <<>> /\ joined = {}
         /\ bus = Nil /\ recorder = Nil /\ daemon = Nil /\ handler = Nil

\* Before the first start there is nothing; in the first life every process is
\* a child.
FirstLife ==
  /\ starts = 0 => ~up /\ db = Nil /\ procs = <<>>
  /\ starts = 1 /\ up => \A p \in DOMAIN procs : procs[p].child

\* Events are of objects in memory; the daemon keeps finish events only.
EventInv ==
  /\ bus # Nil => bus.ev.o \in DOMAIN objs
  /\ daemon # Nil => daemon.o \in DOMAIN objs /\ daemon.kind = "finish"
  /\ handler # Nil => handler.o \in DOMAIN objs

\* No element is there twice.
Distinct(s) == \A i, j \in DOMAIN s : s[i] = s[j] => i = j

\* A subscriber is in the slice once, and gets an event once.
BusInv ==
  /\ Distinct(subs) /\ \A i \in DOMAIN subs : subs[i] \in joined
  /\ bus # Nil => Distinct(bus.left)

\* Where PodProcess.run is.
MainInv ==
  \A o \in DOMAIN objs :
    LET p == objs[o] IN
    /\ p.main \in {"announce", "launch", "sync", "next"} => p.rec.idx < Last
    /\ p.main = "sync" => Sync(p.rec.idx + 1)
    /\ p.main = "next" => ~Sync(p.rec.idx + 1)

\* The container was started by PodProcess.run: an init container while it is
\* awaited, a container for good.
Launched(o, c) ==
  LET p == objs[o] IN
  IF Sync(c) THEN p.main = "sync" /\ c = p.rec.idx + 1
             ELSE c <= p.rec.idx \/ (p.main = "next" /\ c = p.rec.idx + 1)

\* A goroutine runs for a container that PodProcess.run has started.
LaunchInv == \A o \in DOMAIN objs, c \in Chain : Where(o, c) # "off" => Launched(o, c)

\* A finish event of the container is on its way to the daemon, or there.
Queued(o, c) ==
  /\ bus # Nil /\ bus.ev.kind = "finish" /\ bus.ev.o = o /\ bus.ev.c = c
  /\ \E i \in DOMAIN bus.left : bus.left[i] = "daemon"
Held(o, c) == daemon # Nil /\ daemon.o = o /\ daemon.c = c

\* A container has one goroutine, or one finish event.
TokenInv ==
  \A o \in DOMAIN objs, c \in Chain : ~Sync(c) =>
    /\ Queued(o, c) \/ Held(o, c) => Where(o, c) = "off" /\ Launched(o, c)
    /\ ~(Queued(o, c) /\ Held(o, c))

\* What a record of a pod says of the processes ps: they were started for that
\* container, for this pod or an earlier one, and not beyond Index.
RecordIn(pod, idx, pid, ps, n) ==
  /\ pod.uid <= n
  /\ \A c \in Chain : pid[c] # 0 =>
       /\ pid[c] \in DOMAIN ps /\ c <= idx + 1
       /\ ps[pid[c]].c = c /\ ps[pid[c]].uid <= pod.uid
RecordOK(r) == RecordIn(r.pod, r.idx, r.pid, procs, pods)

\* The records in the database, in the hands of the recorder and of a call, and
\* of the objects, are such records.
RecordInv ==
  /\ \A r \in {db, recorder, call.rec} : r # Nil => RecordOK(r)
  /\ \A o \in DOMAIN objs : RecordOK(objs[o].rec)

\* Pods get increasing ids; the objects in memory are of ever newer pods.
UidInv ==
  /\ wanted # Nil => wanted.uid = pods
  /\ \A o \in DOMAIN objs : o <= Uid(o)
  /\ \A o, p \in DOMAIN objs : o < p => Uid(o) < Uid(p)
  /\ \A p \in DOMAIN procs : procs[p].uid <= pods

\* A pod that is to run and has no record was not created yet.
FreshInv ==
  wanted # Nil /\ ~wanted.del /\ db = Nil =>
    /\ \A o \in DOMAIN objs : Uid(o) # pods
    /\ \A r \in {recorder, call.rec} : r # Nil => r.pod.uid # pods
    /\ \A p \in DOMAIN procs : procs[p].uid # pods

\* A call works for the pod the lister has, with a record it has read; DeletePod
\* runs only for a pod that is to be deleted.
CallInv ==
  /\ gone => wanted = Nil \/ wanted.del
  /\ call.op # "none" => wanted # Nil /\ ~gone /\ call.rec # Nil
  /\ call.op \in {"stop", "term"} => wanted.del
  /\ call.op = "term" => call.c \in Chain

\* What DeletePod has gone through is dead.
KilledInv ==
  call.op \in {"stop", "term"} =>
    \A c \in Chain : c < call.c => ~alive(call.rec.pid[c])

\* A live process that a record has of its pod is the one the object has.
MatchInv ==
  \A r \in {db, recorder, call.rec} : r # Nil =>
    \A o \in DOMAIN objs, c \in Chain :
      /\ r.pod.uid = Uid(o) /\ alive(r.pid[c]) /\ procs[r.pid[c]].uid = Uid(o)
      => r.pid[c] = objs[o].rec.pid[c]

-----------------------------------------------------------------------------
(* The values the model is built from. *)

\* The empty sequence.
LEMMA EmptySeq ==
  ASSUME NEW S
  PROVE  /\ <<>> \in Seq(S) /\ Len(<<>>) = 0
         /\ \A s \in Seq(S) : s # <<>> => Len(s) \in Nat \ {0}
  BY SMTT(40)

\* The positions of a sequence.
LEMMA LenProperties ==
  ASSUME NEW S, NEW s \in Seq(S)
  PROVE  Len(s) \in Nat /\ s \in [1 .. Len(s) -> S] /\ DOMAIN s = 1 .. Len(s)
  BY SMTT(40)

\* What Append adds.
LEMMA AppendProperties ==
  ASSUME NEW S, NEW s \in Seq(S), NEW e \in S
  PROVE  /\ Append(s, e) \in Seq(S) /\ Append(s, e) # <<>> /\ Len(Append(s, e)) = Len(s) + 1
         /\ \A i \in 1 .. Len(s) : Append(s, e)[i] = s[i]
         /\ Append(s, e)[Len(s) + 1] = e
  BY SMTT(40)

\* What Head and Tail return.
LEMMA HeadTailProperties ==
  ASSUME NEW S, NEW s \in Seq(S), s # <<>>
  PROVE  /\ Head(s) \in S /\ Tail(s) \in Seq(S) /\ Len(Tail(s)) = Len(s) - 1
         /\ \A i \in 1 .. Len(Tail(s)) : Tail(s)[i] = s[i + 1]
  BY SMTT(40)

\* The constants are numbers, and a pod has a container.
LEMMA Numbers ==
  /\ Inits \in Nat /\ Conts \in Nat /\ Conts # 0 /\ Grace \in Nat
  /\ MaxPods \in Nat /\ MaxVersions \in Nat /\ MaxVersions # 0 /\ MaxPids \in Nat /\ MaxFaults \in Nat
  /\ MaxStarts \in Nat /\ Last \in Nat /\ Inits < Last /\ Chain \subseteq Nat
  BY ProcessManagerAssumption, SMTT(40) DEF Last, Chain

\* The fields of a record.
LEMMA RecordFields ==
  ASSUME NEW r \in Record
  PROVE  /\ r.pod \in Pod /\ r.idx \in 0 .. Last /\ r.statuses \in BOOLEAN
         /\ r.pid \in [Chain -> 0 .. MaxPids] /\ r.done \in [Chain -> 0 .. 2]
  BY ZenonT(60) DEF Record

\* A record with one field changed, as the goroutines of the pod do.
LEMMA RecordUpdates ==
  ASSUME NEW r \in Record, NEW c \in Chain
  PROVE  /\ \A p \in 0 .. MaxPids : [r EXCEPT !.pid[c] = p] \in Record
         /\ \A s \in 0 .. 2 : [r EXCEPT !.done[c] = s] \in Record
         /\ r.idx < Last => [r EXCEPT !.idx = @ + 1] \in Record
         /\ [r EXCEPT !.statuses = TRUE] \in Record
<1>1. \A f \in [Chain -> 0 .. MaxPids] : [r EXCEPT !.pid = f] \in Record
  BY ZenonT(60) DEF Record
<1>2. \A f \in [Chain -> 0 .. 2] : [r EXCEPT !.done = f] \in Record
  BY ZenonT(60) DEF Record
<1>3. \A p \in 0 .. MaxPids : [r.pid EXCEPT ![c] = p] \in [Chain -> 0 .. MaxPids]
  BY RecordFields, SMTT(40)
<1>4. \A s \in 0 .. 2 : [r.done EXCEPT ![c] = s] \in [Chain -> 0 .. 2]
  BY RecordFields, SMTT(40)
<1>5. r.idx < Last => r.idx + 1 \in 0 .. Last
  BY Numbers, RecordFields, SMTT(40)
<1>6. \A i \in 0 .. Last : [r EXCEPT !.idx = i] \in Record
  BY ZenonT(60) DEF Record
<1>7. [r EXCEPT !.statuses = TRUE] \in Record
  BY ZenonT(60) DEF Record
<1> QED
  BY <1>1, <1>2, <1>3, <1>4, <1>5, <1>6, <1>7, ZenonT(60)

\* The fields of a PodProcess.
LEMMA ObjectFields ==
  ASSUME NEW x \in Object
  PROVE  /\ x.rec \in Record /\ x.loaded \in BOOLEAN /\ x.pm \in BOOLEAN
         /\ x.main \in {"off", "loop", "announce", "launch", "sync", "next"}
         /\ x.run \in [Chain -> Runner]
  BY ZenonT(60) DEF Object

\* A PodProcess with another record, goroutine or position is one.
LEMMA ObjectUpdates ==
  ASSUME NEW x \in Object, NEW r \in Record, NEW c \in Chain, NEW t \in Runner,
         NEW m \in {"off", "loop", "announce", "launch", "sync", "next"}
  PROVE  /\ [x EXCEPT !.run[c] = t] \in Object
         /\ [x EXCEPT !.rec = r] \in Object
         /\ [x EXCEPT !.main = m] \in Object
         /\ [x EXCEPT !.pm = TRUE] \in Object
<1>1. [x.run EXCEPT ![c] = t] \in [Chain -> Runner]
  BY ObjectFields, SMTT(40)
<1>2. \A f \in [Chain -> Runner] : [x EXCEPT !.run = f] \in Object
  BY ZenonT(60) DEF Object
<1>3. /\ [x EXCEPT !.rec = r] \in Object
      /\ [x EXCEPT !.main = m] \in Object
      /\ [x EXCEPT !.pm = TRUE] \in Object
  BY ZenonT(60) DEF Object
<1> QED
  BY <1>1, <1>2, <1>3, ZenonT(60)
-----------------------------------------------------------------------------
(* How the steps change the objects. *)

\* From f to g at most object o has changed, and of what the invariants look at
\* at most the position of PodProcess.run, Index, and the goroutine and the
\* process of container c.
Changes(f, g, o, m, i, c, t, k) ==
  /\ g \in Seq(Object) /\ Len(g) = Len(f) /\ DOMAIN g = DOMAIN f
  /\ \A p \in DOMAIN f :
       /\ g[p].rec.pod = f[p].rec.pod
       /\ g[p].main = IF p = o THEN m ELSE f[p].main
       /\ g[p].rec.idx = IF p = o THEN i ELSE f[p].rec.idx
       /\ \A d \in Chain :
            /\ g[p].run[d] = IF p = o /\ d = c THEN t ELSE f[p].run[d]
            /\ g[p].rec.pid[d] = IF p = o /\ d = c THEN k ELSE f[p].rec.pid[d]

\* One change after the other.
LEMMA Compose ==
  ASSUME NEW f, NEW g, NEW h, NEW o \in DOMAIN f, NEW c \in Chain, NEW m, NEW i, NEW t, NEW k,
         NEW n, NEW j, NEW u, NEW l,
         Changes(f, g, o, m, i, c, t, k), Changes(g, h, o, n, j, c, u, l)
  PROVE  Changes(f, h, o, n, j, c, u, l)
<1>1. h \in Seq(Object) /\ Len(h) = Len(f) /\ DOMAIN h = DOMAIN f /\ DOMAIN g = DOMAIN f
  BY ZenonT(60) DEF Changes
<1>2. ASSUME NEW p \in DOMAIN f
      PROVE  /\ h[p].rec.pod = f[p].rec.pod
             /\ h[p].main = IF p = o THEN n ELSE f[p].main
             /\ h[p].rec.idx = IF p = o THEN j ELSE f[p].rec.idx
  BY <1>1, <1>2, SMTT(40) DEF Changes
<1>3. ASSUME NEW p \in DOMAIN f, NEW d \in Chain
      PROVE  /\ h[p].run[d] = IF p = o /\ d = c THEN u ELSE f[p].run[d]
             /\ h[p].rec.pid[d] = IF p = o /\ d = c THEN l ELSE f[p].rec.pid[d]
  BY <1>1, <1>3, SMTT(40) DEF Changes
<1> QED
  BY <1>1, <1>2, <1>3, ZenonT(60) DEF Changes

\* One object of a sequence is replaced by one that differs at container c only.
LEMMA ReplaceObject ==
  ASSUME NEW f \in Seq(Object), NEW o \in DOMAIN f, NEW c \in Chain, NEW x \in Object,
         x.rec.pod = f[o].rec.pod,
         \A d \in Chain : d # c => x.run[d] = f[o].run[d] /\ x.rec.pid[d] = f[o].rec.pid[d],
         NEW g, g = [f EXCEPT ![o] = x]
  PROVE  Changes(f, g, o, x.main, x.rec.idx, c, x.run[c], x.rec.pid[c])
<1>1. /\ g \in Seq(Object) /\ Len(g) = Len(f) /\ DOMAIN g = DOMAIN f
      /\ g[o] = x /\ \A p \in DOMAIN f : p # o => g[p] = f[p]
  BY SMTT(40)
<1> QED
  BY <1>1, ZenonT(60) DEF Changes

\* The goroutine of a container moves.
LEMMA RunChanges ==
  ASSUME NEW f \in Seq(Object), NEW o \in DOMAIN f, NEW c \in Chain, NEW t \in Runner,
         NEW g, g = [f EXCEPT ![o].run[c] = t]
  PROVE  Changes(f, g, o, f[o].main, f[o].rec.idx, c, t, f[o].rec.pid[c])
<1> DEFINE x == [f[o] EXCEPT !.run[c] = t]
<1>1. f[o] \in Object /\ f[o].run \in [Chain -> Runner] /\ f[o].rec \in Record
  BY ObjectFields
<1>2. x \in Object
  BY <1>1, ObjectUpdates, ObjectFields, ZenonT(60)
<1>3. x.rec = f[o].rec /\ x.main = f[o].main /\ x.run = [f[o].run EXCEPT ![c] = t]
  BY <1>1, ZenonT(60) DEF Object
<1>4. x.run[c] = t /\ \A d \in Chain : d # c => x.run[d] = f[o].run[d]
  BY <1>1, <1>3, ZenonT(60)
<1>5. g = [f EXCEPT ![o] = x]
  BY ZenonT(60)
<1> HIDE DEF x
<1>6. /\ x.rec.pod = f[o].rec.pod
      /\ \A d \in Chain : d # c => x.run[d] = f[o].run[d] /\ x.rec.pid[d] = f[o].rec.pid[d]
  BY <1>3, <1>4, ZenonT(60)
<1>7. Changes(f, g, o, x.main, x.rec.idx, c, x.run[c], x.rec.pid[c])
  BY <1>2, <1>5, <1>6, ReplaceObject, ZenonT(60)
<1> QED
  BY <1>3, <1>4, <1>7, ZenonT(60)

\* PodProcess.run moves.
LEMMA MainChanges ==
  ASSUME NEW f \in Seq(Object), NEW o \in DOMAIN f, NEW c \in Chain,
         NEW m \in {"off", "loop", "announce", "launch", "sync", "next"},
         NEW g, g = [f EXCEPT ![o].main = m]
  PROVE  Changes(f, g, o, m, f[o].rec.idx, c, f[o].run[c], f[o].rec.pid[c])
<1> DEFINE x == [f[o] EXCEPT !.main = m]
<1>1. f[o] \in Object
  OBVIOUS
<1>2. x \in Object /\ x.rec = f[o].rec /\ x.main = m /\ x.run = f[o].run
  BY <1>1, ZenonT(60) DEF Object
<1>3. g = [f EXCEPT ![o] = x]
  BY ZenonT(60)
<1> HIDE DEF x
<1> QED
  BY <1>2, <1>3, ReplaceObject, ZenonT(60)

\* The record of an object changes, the pod apart.
LEMMA RecChanges ==
  ASSUME NEW f \in Seq(Object), NEW o \in DOMAIN f, NEW c \in Chain, NEW r \in Record,
         r.pod = f[o].rec.pod, \A d \in Chain : d # c => r.pid[d] = f[o].rec.pid[d],
         NEW g, g = [f EXCEPT ![o].rec = r]
  PROVE  Changes(f, g, o, f[o].main, r.idx, c, f[o].run[c], r.pid[c])
<1> DEFINE x == [f[o] EXCEPT !.rec = r]
<1>1. f[o] \in Object
  OBVIOUS
<1>2. x \in Object /\ x.rec = r /\ x.main = f[o].main /\ x.run = f[o].run
  BY <1>1, ZenonT(60) DEF Object
<1>3. g = [f EXCEPT ![o] = x]
  BY ZenonT(60)
<1> HIDE DEF x
<1> QED
  BY <1>2, <1>3, ReplaceObject, ZenonT(60)

\* The process manager of an object is set.
LEMMA PmChanges ==
  ASSUME NEW f \in Seq(Object), NEW o \in DOMAIN f, NEW c \in Chain,
         NEW g, g = [f EXCEPT ![o].pm = TRUE]
  PROVE  Changes(f, g, o, f[o].main, f[o].rec.idx, c, f[o].run[c], f[o].rec.pid[c])
<1> DEFINE x == [f[o] EXCEPT !.pm = TRUE]
<1>1. f[o] \in Object
  OBVIOUS
<1>2. x \in Object /\ x.rec = f[o].rec /\ x.main = f[o].main /\ x.run = f[o].run
  BY <1>1, ZenonT(60) DEF Object
<1>3. g = [f EXCEPT ![o] = x]
  BY ZenonT(60)
<1> HIDE DEF x
<1> QED
  BY <1>2, <1>3, ReplaceObject, ZenonT(60)

\* The objects are PodProcesses, and a pod has a first container.
LEMMA Objects ==
  ASSUME TypeOK, NEW o \in DOMAIN objs
  PROVE  /\ objs \in Seq(Object) /\ objs[o] \in Object /\ objs[o].rec \in Record
         /\ objs[o].run \in [Chain -> Runner] /\ 1 \in Chain
         /\ objs[o].rec.idx \in 0 .. Last /\ objs[o].rec.idx \in Nat
         /\ (objs[o].rec.idx < Last => objs[o].rec.idx + 1 \in Chain)
         /\ objs[o].rec.pod \in Pod /\ objs[o].rec.pod.uid \in Nat
<1>1. objs \in Seq(Object) /\ objs[o] \in Object
  BY SMTT(40) DEF TypeOK
<1>2. objs[o].rec \in Record /\ objs[o].run \in [Chain -> Runner]
  BY <1>1, ObjectFields
<1>3. objs[o].rec.idx \in 0 .. Last /\ objs[o].rec.pod \in Pod
  BY <1>2, RecordFields, ZenonT(60)
<1>4. /\ 1 \in Chain /\ (objs[o].rec.idx < Last => objs[o].rec.idx + 1 \in Chain)
      /\ objs[o].rec.idx \in Nat
  BY ONLY <1>3, Numbers, SMTT(40) DEF Chain
<1>5. objs[o].rec.pod.uid \in Nat
  <2>1. objs[o].rec.pod.uid \in 1 .. MaxPods
    BY <1>3, ZenonT(60) DEF Pod
  <2> QED
    BY ONLY <2>1, Numbers, SMTT(40)
<1> QED
  BY <1>1, <1>2, <1>3, <1>4, <1>5, ZenonT(60)

\* A goroutine that goes on.
LEMMA RunnerAt ==
  ASSUME NEW r \in Runner,
         NEW at \in {"off", "begin", "work", "told", "failed", "start", "started",
                    "notstarted", "wait", "finish", "giveup"}
  PROVE  At(r, at) \in Runner /\ At(r, at).at = at /\ At(r, at).ok = r.ok
  BY ZenonT(60) DEF Runner, At

\* A goroutine whose process has finished.
LEMMA RunnerFinishes ==
  ASSUME NEW r \in Runner, NEW ok \in BOOLEAN
  PROVE  /\ [r EXCEPT !.at = "finish", !.ok = ok] \in Runner
         /\ [r EXCEPT !.at = "finish", !.ok = ok].at = "finish"
         /\ [r EXCEPT !.at = "finish", !.ok = ok].ok = ok
  BY ZenonT(60) DEF Runner

\* A goroutine that has failed.
LEMMA RunnerFails ==
  ASSUME NEW r \in Runner
  PROVE  /\ [r EXCEPT !.ok = FALSE] \in Runner /\ [r EXCEPT !.ok = FALSE].at = r.at
         /\ ~[r EXCEPT !.ok = FALSE].ok
  BY ZenonT(60) DEF Runner

\* A goroutine that is over, and one that is about to start.
LEMMA Offs ==
  /\ Off \in Runner /\ Off.at = "off" /\ Off.ok
  /\ At(Off, "begin") \in Runner /\ At(Off, "begin").at = "begin"
  /\ [Off EXCEPT !.ok = FALSE] \in Runner
  /\ [Off EXCEPT !.ok = FALSE].at = "off" /\ ~[Off EXCEPT !.ok = FALSE].ok
  /\ \A s \in Stages : AfterStage(s) \in Runner /\ AfterStage(s).at \in {"begin", "start"}
<1>1. 1 \in Stages /\ \A s \in Stages : s # 2 => s + 1 \in Stages
  BY SMTT(40) DEF Stages
<1>2. \A s \in Stages, at \in {"off", "begin"} : [at |-> at, stage |-> s, ok |-> TRUE] \in Runner
  BY ZenonT(60) DEF Runner
<1>3. Off \in Runner /\ Off.at = "off" /\ Off.ok
  <2>1. Off \in Runner
    BY <1>1, <1>2, ZenonT(60) DEF Off
  <2>2. Off.at = "off" /\ Off.ok
    BY SMTT(40) DEF Off
  <2> QED
    BY <2>1, <2>2, SMTT(40)
<1>4. \A at \in {"begin", "start"} : At(Off, at) \in Runner /\ At(Off, at).at = at
  <2>1. At(Off, "begin") \in Runner /\ At(Off, "begin").at = "begin"
    BY <1>3, RunnerAt, ZenonT(60)
  <2>2. At(Off, "start") \in Runner /\ At(Off, "start").at = "start"
    BY <1>3, RunnerAt, ZenonT(60)
  <2> QED
    BY <2>1, <2>2, ZenonT(60)
<1>5. /\ [Off EXCEPT !.ok = FALSE] \in Runner
      /\ [Off EXCEPT !.ok = FALSE].at = "off" /\ ~[Off EXCEPT !.ok = FALSE].ok
  BY <1>3, RunnerFails, ZenonT(60)
<1>6. ASSUME NEW s \in Stages
      PROVE  AfterStage(s) \in Runner /\ AfterStage(s).at \in {"begin", "start"}
  <2>1. CASE s = 2
    BY <2>1, <1>4, ZenonT(60) DEF AfterStage
  <2>2. CASE s # 2
    BY <2>2, <1>1, <1>2, ZenonT(60) DEF AfterStage
  <2> QED
    BY <2>1, <2>2, SMTT(40)
<1> QED
  BY <1>3, <1>4, <1>5, <1>6, SMTT(40)

\* A container's goroutine says something that the daemon does not listen to.
Tell(o, c) == \E kind \in {"start", "run", "other"}, ok \in BOOLEAN : Send(kind, o, c, ok)

\* What the goroutine of container c does: it becomes t, and the process id k.
Prepares(o, c, t, k) ==
  /\ Where(o, c) \in Early /\ t.at \in Early /\ k = objs[o].rec.pid[c]
  /\ bus' = bus \/ Tell(o, c)
  /\ procs' = procs
Abandons(o, c, t, k) ==
  /\ Where(o, c) = "giveup" /\ t.at = "off" /\ ~t.ok /\ k = objs[o].rec.pid[c]
  /\ Send("finish", o, c, FALSE)
  /\ procs' = procs
Adopts(o, c, t, k) ==
  /\ Where(o, c) = "start" /\ t.at = "wait" /\ k = objs[o].rec.pid[c] /\ alive(k)
  /\ bus' = bus /\ procs' = procs
Spawns(o, c, t, k) ==
  /\ Where(o, c) = "start" /\ ~alive(objs[o].rec.pid[c])
  /\ t.at = "started" /\ k = Len(procs) + 1
  /\ procs' = Append(procs, [uid |-> Uid(o), c |-> c, alive |-> TRUE, ok |-> FALSE, child |-> TRUE])
  /\ bus' = bus
Waits(o, c, t, k) ==
  /\ Where(o, c) = "started" /\ t.at = "wait" /\ k = objs[o].rec.pid[c]
  /\ Tell(o, c)
  /\ procs' = procs
Reaps(o, c, t, k) ==
  /\ Where(o, c) = "wait" /\ t.at = "finish" /\ k = objs[o].rec.pid[c]
  /\ ~procs[k].alive \/ ~procs[k].child
  /\ t.ok = (procs[k].child /\ procs[k].ok)
  /\ bus' = bus /\ procs' = procs
Finishes(o, c, t, k) ==
  /\ Where(o, c) = "finish" /\ t = Off /\ k = objs[o].rec.pid[c]
  /\ Send("finish", o, c, objs[o].run[c].ok)
  /\ procs' = procs

Moves(o, c, t, k) ==
  \/ Prepares(o, c, t, k) \/ Abandons(o, c, t, k) \/ Adopts(o, c, t, k) \/ Spawns(o, c, t, k)
  \/ Waits(o, c, t, k) \/ Reaps(o, c, t, k) \/ Finishes(o, c, t, k)

RunnerMoves(o, c) ==
  \E t \in Runner, k \in 0 .. MaxPids :
    /\ Changes(objs, objs', o, objs[o].main, objs[o].rec.idx, c, t, k)
    /\ Moves(o, c, t, k)
    /\ ByRunner /\ faults' \in 0 .. MaxFaults
\* Begins, Works, WorkFails, ToldStage, ToldFailure, StartFails, and ToldRun of
\* a process that did not start.
LEMMA StepMoves ==
  ASSUME TypeOK, NEW o \in DOMAIN objs, NEW c \in Chain, NEW t \in Runner, Step(o, c, t),
         Moves(o, c, t, objs[o].rec.pid[c]), ByRunner, faults' \in 0 .. MaxFaults
  PROVE  RunnerMoves(o, c)
<1>1. objs[o].rec.pid[c] \in 0 .. MaxPids
  BY Objects, RecordFields, SMTT(40)
<1>2. Changes(objs, objs', o, objs[o].main, objs[o].rec.idx, c, t, objs[o].rec.pid[c])
  BY Objects, RunChanges, ZenonT(60) DEF Step
<1> QED
  BY <1>1, <1>2, ZenonT(60) DEF RunnerMoves

\* Every action of a container's goroutine is one of these moves, or a panic.
LEMMA RunnerSteps ==
  ASSUME TypeOK, NEW o \in DOMAIN objs, NEW c \in Chain, Containers(o, c)
  PROVE  RunnerMoves(o, c) \/ Dies
<1> DEFINE r == objs[o].run[c]
<1>1. r \in Runner /\ r.stage \in Stages /\ r.ok \in BOOLEAN /\ objs[o].rec \in Record
  BY Objects, SMTT(40) DEF Runner
<1>2. faults \in 0 .. MaxFaults /\ (faults < MaxFaults => faults + 1 \in 0 .. MaxFaults)
  BY Numbers, SMTT(40) DEF TypeOK
<1>3. CASE Begins(o, c)
  <2> DEFINE t == IF Needed(o, c, r.stage) THEN At(r, "work") ELSE AfterStage(r.stage)
  <2>1. t \in Runner /\ t.at \in Early
    BY <1>1, RunnerAt, Offs, ZenonT(60) DEF Early
  <2>2. Step(o, c, t) /\ r.at \in Early /\ (bus' = bus \/ Tell(o, c))
    BY <1>3, ZenonT(60) DEF Begins, Early, Tell
  <2>3. ByRunner /\ procs' = procs /\ faults' = faults
    BY <1>3, ZenonT(60) DEF Begins, Tells
  <2> HIDE DEF t
  <2>4. Moves(o, c, t, objs[o].rec.pid[c])
    BY <2>1, <2>2, <2>3, ZenonT(60) DEF Moves, Prepares, Where
  <2> QED
    BY <2>1, <2>2, <2>3, <2>4, <1>2, StepMoves, ZenonT(60)
<1>4. CASE WorkFails(o, c) \/ StartFails(o, c)
  <2>1. PICK at \in {"failed", "giveup", "notstarted"} : Step(o, c, At(r, at))
    BY <1>4, ZenonT(60) DEF WorkFails, StartFails
  <2>2. At(r, at) \in Runner /\ At(r, at).at \in Early
    BY <1>1, RunnerAt, SMTT(40) DEF Early
  <2>3. r.at \in Early /\ ByRunner /\ procs' = procs /\ bus' = bus /\ faults' \in 0 .. MaxFaults
    BY <1>2, <1>4, SMTT(40) DEF WorkFails, StartFails, Early
  <2>4. Moves(o, c, At(r, at), objs[o].rec.pid[c])
    BY <2>2, <2>3, ZenonT(60) DEF Moves, Prepares, Where
  <2> QED
    BY <2>1, <2>2, <2>3, <2>4, StepMoves, ZenonT(60)
<1>5. CASE ToldStage(o, c) \/ ToldFailure(o, c) \/ (ToldRun(o, c) /\ r.at = "notstarted")
  <2>1. PICK t \in {AfterStage(r.stage), At(r, "giveup")} : Step(o, c, t)
    BY <1>5, ZenonT(60) DEF ToldStage, ToldFailure, ToldRun
  <2>2. t \in Runner /\ t.at \in Early
    <3>1. AfterStage(r.stage) \in Runner /\ AfterStage(r.stage).at \in Early
      BY <1>1, Offs, ZenonT(60) DEF Early
    <3>2. At(r, "giveup") \in Runner /\ At(r, "giveup").at \in Early
      BY <1>1, RunnerAt, ZenonT(60) DEF Early
    <3> QED
      BY <3>1, <3>2, ZenonT(60)
  <2>3. r.at \in Early /\ Tell(o, c)
    BY <1>5, ZenonT(60) DEF ToldStage, ToldFailure, ToldRun, Early, Tell
  <2>4. ByRunner /\ procs' = procs /\ faults' = faults
    BY <1>5, ZenonT(60) DEF ToldStage, ToldFailure, ToldRun, Tells
  <2>5. Moves(o, c, t, objs[o].rec.pid[c])
    BY <2>2, <2>3, <2>4, ZenonT(60) DEF Moves, Prepares, Where
  <2> QED
    BY <2>1, <2>2, <2>4, <2>5, <1>2, StepMoves, ZenonT(60)
<1>6. CASE ToldRun(o, c) /\ r.at # "notstarted"
  <2>1. Step(o, c, At(r, "wait")) /\ r.at = "started" /\ Tell(o, c)
    BY <1>6, ZenonT(60) DEF ToldRun, Tell
  <2>2. ByRunner /\ procs' = procs /\ faults' = faults
    BY <1>6, ZenonT(60) DEF ToldRun, Tells
  <2>3. At(r, "wait") \in Runner /\ At(r, "wait").at = "wait"
    BY <1>1, RunnerAt, ZenonT(60)
  <2>4. Moves(o, c, At(r, "wait"), objs[o].rec.pid[c])
    BY <2>1, <2>2, <2>3, ZenonT(60) DEF Moves, Waits, Where
  <2> QED
    BY <2>1, <2>2, <2>3, <2>4, <1>2, StepMoves, ZenonT(60)
<1>7. CASE GivesUp(o, c)
  <2>1. Step(o, c, [Off EXCEPT !.ok = FALSE]) /\ r.at = "giveup" /\ Send("finish", o, c, FALSE)
    BY <1>7, ZenonT(60) DEF GivesUp
  <2>2. ByRunner /\ procs' = procs /\ faults' = faults
    BY <1>7, ZenonT(60) DEF GivesUp, Tells
  <2>3. Moves(o, c, [Off EXCEPT !.ok = FALSE], objs[o].rec.pid[c])
    BY <2>1, <2>2, Offs, ZenonT(60) DEF Moves, Abandons, Where
  <2> QED
    BY <2>1, <2>2, <2>3, <1>2, Offs, StepMoves, ZenonT(60)
<1>8. CASE ToldFinish(o, c)
  <2>1. Step(o, c, Off) /\ r.at = "finish" /\ Send("finish", o, c, r.ok)
    BY <1>8, ZenonT(60) DEF ToldFinish
  <2>2. ByRunner /\ procs' = procs /\ faults' = faults
    BY <1>8, ZenonT(60) DEF ToldFinish, Tells
  <2>3. Moves(o, c, Off, objs[o].rec.pid[c])
    BY <2>1, <2>2, ZenonT(60) DEF Moves, Finishes, Where
  <2> QED
    BY <2>1, <2>2, <2>3, <1>2, Offs, StepMoves, ZenonT(60)
<1>9. CASE FindsProcess(o, c)
  <2>1. Step(o, c, At(r, "wait")) /\ r.at = "start" /\ alive(objs[o].rec.pid[c])
    BY <1>9, ZenonT(60) DEF FindsProcess
  <2>2. ByRunner /\ procs' = procs /\ faults' = faults /\ bus' = bus
    BY <1>9, ZenonT(60) DEF FindsProcess, Quiet
  <2>3. At(r, "wait") \in Runner /\ At(r, "wait").at = "wait"
    BY <1>1, RunnerAt, ZenonT(60)
  <2>4. Moves(o, c, At(r, "wait"), objs[o].rec.pid[c])
    BY <2>1, <2>2, <2>3, ZenonT(60) DEF Moves, Adopts, Where
  <2> QED
    BY <2>1, <2>2, <2>3, <2>4, <1>2, StepMoves, ZenonT(60)
<1>10. CASE Waited(o, c)
  <2> DEFINE p == procs[objs[o].rec.pid[c]]
             t == [r EXCEPT !.at = "finish", !.ok = p.child /\ p.ok]
  <2>1. Step(o, c, t) /\ r.at = "wait" /\ (~p.alive \/ ~p.child)
    BY <1>10, ZenonT(60) DEF Waited
  <2>2. ByRunner /\ procs' = procs /\ faults' = faults /\ bus' = bus
    BY <1>10, ZenonT(60) DEF Waited, Quiet
  <2>3. (p.child /\ p.ok) \in BOOLEAN
    BY SMTT(40)
  <2>4. t \in Runner /\ t.at = "finish" /\ t.ok = (p.child /\ p.ok)
    BY <1>1, <2>3, RunnerFinishes, ZenonT(60)
  <2> HIDE DEF t
  <2>5. Moves(o, c, t, objs[o].rec.pid[c])
    BY <2>1, <2>2, <2>4, ZenonT(60) DEF Moves, Reaps, Where
  <2> QED
    BY <2>1, <2>2, <2>4, <2>5, <1>2, StepMoves, ZenonT(60)
<1>11. CASE Works(o, c)
  <2> DEFINE s == IF objs[o].rec.done[c] < r.stage THEN r.stage ELSE objs[o].rec.done[c]
             d == [objs[o].rec EXCEPT !.done[c] = s]
             f == [objs EXCEPT ![o].run[c] = At(r, "told")]
             k == objs[o].rec.pid[c]
  <2>1. At(r, "told") \in Runner /\ At(r, "told").at = "told"
    BY <1>1, RunnerAt, ZenonT(60)
  <2>2. objs \in Seq(Object) /\ s \in 0 .. 2 /\ k \in 0 .. MaxPids
    BY <1>1, Objects, RecordFields, SMTT(40) DEF Stages
  <2>3. Changes(objs, f, o, objs[o].main, objs[o].rec.idx, c, At(r, "told"), k)
    BY <2>1, <2>2, RunChanges, ZenonT(60)
  <2>4. d \in Record
    BY <1>1, <2>2, RecordUpdates, ZenonT(60)
  <2>5. d.pod = objs[o].rec.pod /\ d.idx = objs[o].rec.idx /\ d.pid = objs[o].rec.pid
    BY <1>1, ZenonT(60) DEF Record
  <2>6. objs' = [f EXCEPT ![o].rec = d] /\ f[o].rec = objs[o].rec /\ f[o].main = objs[o].main
    <3>1. objs' = [objs EXCEPT ![o].run[c] = At(r, "told"), ![o].rec.done[c] = s]
      BY <1>11, ZenonT(60) DEF Works
    <3>2. f[o].rec = objs[o].rec /\ f[o].main = objs[o].main
      BY <2>2, Objects, ZenonT(60) DEF Object
    <3> QED
      BY <3>1, <3>2, ZenonT(60)
  <2>7. f \in Seq(Object) /\ o \in DOMAIN f /\ f[o].run[c] = At(r, "told")
    BY <2>3, ZenonT(60) DEF Changes
  <2> HIDE DEF f, d, s
  <2>8. Changes(f, objs', o, objs[o].main, objs[o].rec.idx, c, At(r, "told"), k)
    BY <2>4, <2>5, <2>6, <2>7, RecChanges, ZenonT(60)
  <2>9. Changes(objs, objs', o, objs[o].main, objs[o].rec.idx, c, At(r, "told"), k)
    BY ONLY <2>3, <2>8, Compose, o \in DOMAIN objs, c \in Chain, SMTT(40)
  <2>10. Moves(o, c, At(r, "told"), k) /\ ByRunner /\ faults' = faults
    BY <1>11, <2>1, ZenonT(60) DEF Works, Quiet, Moves, Prepares, Where, Early
  <2> QED
    BY <2>1, <2>2, <2>9, <2>10, <1>2, ZenonT(60) DEF RunnerMoves
<1>12. CASE StartsProcess(o, c)
  <2> DEFINE k == Len(procs) + 1
             d == [objs[o].rec EXCEPT !.pid[c] = k]
             f == [objs EXCEPT ![o].run[c] = At(r, "started")]
  <2>1. At(r, "started") \in Runner /\ At(r, "started").at = "started"
    BY <1>1, RunnerAt, ZenonT(60)
  <2>2. objs \in Seq(Object) /\ k \in 0 .. MaxPids
    BY <1>12, Objects, Numbers, SMTT(40) DEF StartsProcess, TypeOK
  <2>3. Changes(objs, f, o, objs[o].main, objs[o].rec.idx, c, At(r, "started"), objs[o].rec.pid[c])
    BY <2>1, <2>2, RunChanges, ZenonT(60)
  <2>4. d \in Record
    BY <1>1, <2>2, RecordUpdates, ZenonT(60)
  <2>5. /\ d.pod = objs[o].rec.pod /\ d.idx = objs[o].rec.idx /\ d.pid[c] = k
        /\ \A e \in Chain : e # c => d.pid[e] = objs[o].rec.pid[e]
    <3>1. d.pod = objs[o].rec.pod /\ d.idx = objs[o].rec.idx
      BY <1>1, ZenonT(60) DEF Record
    <3>2. d.pid = [objs[o].rec.pid EXCEPT ![c] = k]
      BY <1>1, ZenonT(60) DEF Record
    <3>3. objs[o].rec.pid \in [Chain -> 0 .. MaxPids]
      BY <1>1, RecordFields
    <3> QED
      BY <3>1, <3>2, <3>3, ZenonT(60)
  <2>6. objs' = [f EXCEPT ![o].rec = d] /\ f[o].rec = objs[o].rec /\ f[o].main = objs[o].main
    <3>1. objs' = [objs EXCEPT ![o].run[c] = At(r, "started"), ![o].rec.pid[c] = k]
      BY <1>12, ZenonT(60) DEF StartsProcess
    <3>2. f[o].rec = objs[o].rec /\ f[o].main = objs[o].main
      BY <2>2, Objects, ZenonT(60) DEF Object
    <3> QED
      BY <3>1, <3>2, ZenonT(60)
  <2>7. f \in Seq(Object) /\ o \in DOMAIN f /\ f[o].run[c] = At(r, "started")
    BY <2>3, ZenonT(60) DEF Changes
  <2>8. Moves(o, c, At(r, "started"), k) /\ ByRunner /\ faults' = faults
    BY <1>12, <2>1, ZenonT(60) DEF StartsProcess, Moves, Spawns, Where, Uid
  <2> HIDE DEF f, d, k
  <2>9. Changes(f, objs', o, objs[o].main, objs[o].rec.idx, c, At(r, "started"), k)
    BY <2>4, <2>5, <2>6, <2>7, RecChanges, ZenonT(60)
  <2>10. Changes(objs, objs', o, objs[o].main, objs[o].rec.idx, c, At(r, "started"), k)
    BY ONLY <2>3, <2>9, Compose, o \in DOMAIN objs, c \in Chain, SMTT(40)
  <2> QED
    BY <2>1, <2>2, <2>8, <2>10, <1>2, ZenonT(60) DEF RunnerMoves
<1> QED
  BY <1>3, <1>4, <1>5, <1>6, <1>7, <1>8, <1>9, <1>10, <1>11, <1>12, ZenonT(60) DEF Containers, WorkPanics

\* What PodProcess.run does: it gets to m, Index to i, and the goroutine of
\* container c becomes t.
Looks(o, m, i, c, t) ==
  /\ objs[o].main = "loop" /\ i = objs[o].rec.idx /\ t = objs[o].run[c]
  /\ m = "off" \/ (m \in {"announce", "launch"} /\ i < Last)
  /\ bus' = bus
Announces(o, m, i, c, t) ==
  /\ objs[o].main = "announce" /\ m = "launch" /\ i = objs[o].rec.idx /\ t = objs[o].run[c]
  /\ Tell(o, 1)
Launches(o, m, i, c, t) ==
  /\ objs[o].main = "launch" /\ i = objs[o].rec.idx /\ c = i + 1 /\ t.at = "begin"
  /\ m = IF Sync(c) THEN "sync" ELSE "next"
  /\ bus' = bus
Advances(o, m, i, c, t) ==
  /\ c = objs[o].rec.idx + 1 /\ t = objs[o].run[c] /\ m = "loop"
  /\ objs[o].main = "next" \/ (objs[o].main = "sync" /\ t.at = "off" /\ t.ok)
  /\ i = objs[o].rec.idx + 1
  /\ bus' = bus
Retries(o, m, i, c, t) ==
  /\ c = objs[o].rec.idx + 1 /\ t = objs[o].run[c] /\ m = "loop"
  /\ objs[o].main = "sync" /\ t.at = "off" /\ ~t.ok
  /\ i = objs[o].rec.idx
  /\ bus' = bus

MainMoves(o) ==
  \E m \in {"off", "loop", "announce", "launch", "sync", "next"}, i \in 0 .. Last,
     c \in Chain, t \in Runner :
    /\ Changes(objs, objs', o, m, i, c, t, objs[o].rec.pid[c])
    /\ \/ Looks(o, m, i, c, t) \/ Announces(o, m, i, c, t) \/ Launches(o, m, i, c, t)
       \/ Advances(o, m, i, c, t) \/ Retries(o, m, i, c, t)
    /\ ByMain

\* MainLoops, MainAnnounces and the second try of MainAdvances.
LEMMA PositionMoves ==
  ASSUME TypeOK, NEW o \in DOMAIN objs, NEW c \in Chain,
         NEW m \in {"off", "loop", "announce", "launch", "sync", "next"},
         Main(o, m), ByMain,
         \/ Looks(o, m, objs[o].rec.idx, c, objs[o].run[c])
         \/ Announces(o, m, objs[o].rec.idx, c, objs[o].run[c])
         \/ Retries(o, m, objs[o].rec.idx, c, objs[o].run[c])
  PROVE  MainMoves(o)
<1>1. objs[o].rec.idx \in 0 .. Last /\ objs[o].run[c] \in Runner
  BY Objects, SMTT(40)
<1>2. Changes(objs, objs', o, m, objs[o].rec.idx, c, objs[o].run[c], objs[o].rec.pid[c])
  BY Objects, MainChanges, ZenonT(60) DEF Main
<1> QED
  BY <1>1, <1>2, ZenonT(60) DEF MainMoves

\* Every action of PodProcess.run is one of these moves, or a panic.
LEMMA MainSteps ==
  ASSUME TypeOK, MainInv, NEW o \in DOMAIN objs, Mains(o)
  PROVE  MainMoves(o) \/ Dies
<1> DEFINE p == objs[o]
           c == p.rec.idx + 1
<1>1. /\ objs \in Seq(Object) /\ p \in Object /\ p.rec \in Record /\ 1 \in Chain
      /\ p.rec.idx \in 0 .. Last /\ (p.rec.idx < Last => c \in Chain /\ p.rec.idx + 1 \in 0 .. Last)
  <2>1. p.rec.idx \in Nat /\ p.rec.idx < Last => p.rec.idx + 1 \in 0 .. Last
    BY ONLY Numbers, SMTT(40)
  <2> QED
    BY <2>1, Objects, ZenonT(60)
<1>2. p.main \in {"announce", "launch", "sync", "next"} => c \in Chain
  BY <1>1, SMTT(40) DEF MainInv
<1>3. CASE MainLoops(o)
  <2>1. PICK m \in {"off", "announce", "launch"} :
          /\ Main(o, m) /\ p.main = "loop" /\ (m = "off" \/ p.rec.idx < Last)
          /\ ByMain /\ bus' = bus
    BY <1>3, SMTT(40) DEF MainLoops
  <2>2. Looks(o, m, p.rec.idx, 1, p.run[1])
    BY <2>1, SMTT(40) DEF Looks
  <2> QED
    BY <2>1, <2>2, <1>1, PositionMoves, SMTT(40)
<1>4. CASE MainAnnounces(o)
  <2>1. Main(o, "launch") /\ ByMain /\ Announces(o, "launch", p.rec.idx, 1, p.run[1])
    BY <1>4, ZenonT(60) DEF MainAnnounces, Announces, Tell
  <2> QED
    BY <2>1, <1>1, PositionMoves, SMTT(40)
<1>5. CASE MainLaunches(o)
  <2> DEFINE m == IF Sync(c) THEN "sync" ELSE "next"
             t == At(Off, "begin")
             f == [objs EXCEPT ![o].main = m]
  <2>1. c \in Chain /\ t \in Runner /\ t.at = "begin"
    BY <1>5, <1>2, Offs, ZenonT(60) DEF MainLaunches
  <2>2. m \in {"off", "loop", "announce", "launch", "sync", "next"}
    BY SMTT(40)
  <2>3. Changes(objs, f, o, m, p.rec.idx, c, p.run[c], p.rec.pid[c])
    BY <1>1, <2>1, <2>2, MainChanges, ZenonT(60)
  <2>4. objs' = [f EXCEPT ![o].run[c] = t] /\ ByMain /\ bus' = bus /\ p.main = "launch"
    BY <1>5, ZenonT(60) DEF MainLaunches
  <2>5. Launches(o, m, p.rec.idx, c, t)
    BY <2>1, <2>4, ZenonT(60) DEF Launches
  <2> HIDE DEF f, m, t, c
  <2>6. /\ f \in Seq(Object) /\ o \in DOMAIN f
        /\ f[o].main = m /\ f[o].rec.idx = p.rec.idx /\ f[o].rec.pid[c] = p.rec.pid[c]
    BY ONLY <2>1, <2>3, o \in DOMAIN objs, SMTT(40) DEF Changes
  <2>7. Changes(f, objs', o, m, p.rec.idx, c, t, p.rec.pid[c])
    BY <2>1, <2>4, <2>6, RunChanges, ZenonT(60)
  <2>8. Changes(objs, objs', o, m, p.rec.idx, c, t, p.rec.pid[c])
    BY ONLY <2>1, <2>3, <2>7, Compose, o \in DOMAIN objs, SMTT(40)
  <2> QED
    BY <1>1, <2>1, <2>2, <2>4, <2>5, <2>8, ZenonT(60) DEF MainMoves
<1>6. CASE MainAdvances(o) /\ p.main = "sync" /\ ~p.run[c].ok
  <2>1. c \in Chain /\ Main(o, "loop") /\ ByMain /\ Retries(o, "loop", p.rec.idx, c, p.run[c])
    BY <1>6, <1>2, ZenonT(60) DEF MainAdvances, Main, Retries
  <2> QED
    BY <2>1, PositionMoves, SMTT(40)
<1>7. CASE MainAdvances(o) /\ ~(p.main = "sync" /\ ~p.run[c].ok)
  <2> DEFINE i == p.rec.idx + 1
             d == [p.rec EXCEPT !.idx = i]
             f == [objs EXCEPT ![o].main = "loop"]
             t == p.run[c]
  <2>1. c \in Chain /\ p.rec.idx < Last /\ i \in 0 .. Last /\ t \in Runner
    BY <1>7, <1>1, <1>2, Objects, SMTT(40) DEF MainAdvances, MainInv
  <2>2. Changes(objs, f, o, "loop", p.rec.idx, c, t, p.rec.pid[c])
    BY <1>1, <2>1, MainChanges, ZenonT(60)
  <2>3. d \in Record
    BY <1>1, <2>1, RecordUpdates, ZenonT(60)
  <2>4. d.pod = p.rec.pod /\ d.idx = i /\ d.pid = p.rec.pid
    BY <1>1, ZenonT(60) DEF Record
  <2>5. f[o].rec = p.rec
    BY <1>1, ZenonT(60) DEF Object
  <2>6. objs' = [objs EXCEPT ![o].main = "loop", ![o].rec.idx = @ + 1]
    BY <1>7, ZenonT(60) DEF MainAdvances
  <2>7. objs' = [f EXCEPT ![o].rec = d]
    BY <2>5, <2>6, ZenonT(60)
  <2>8. Advances(o, "loop", i, c, t) /\ ByMain
    BY <1>7, ZenonT(60) DEF MainAdvances, Advances
  <2> HIDE DEF f, d, t, c, i
  <2>9. f \in Seq(Object) /\ o \in DOMAIN f /\ f[o].run[c] = t /\ f[o].main = "loop"
    BY ONLY <2>1, <2>2, o \in DOMAIN objs, SMTT(40) DEF Changes
  <2>10. Changes(f, objs', o, "loop", i, c, t, p.rec.pid[c])
    BY <2>1, <2>3, <2>4, <2>5, <2>7, <2>9, RecChanges, ZenonT(60)
  <2>11. Changes(objs, objs', o, "loop", i, c, t, p.rec.pid[c])
    BY ONLY <2>1, <2>2, <2>10, Compose, o \in DOMAIN objs, SMTT(40)
  <2> QED
    BY <2>1, <2>8, <2>11, ZenonT(60) DEF MainMoves
<1> QED
  BY <1>3, <1>4, <1>5, <1>6, <1>7, ZenonT(60) DEF Mains, MainPanics

\* What the invariants look at in the objects is as before.
Kept ==
  /\ objs' \in Seq(Object) /\ Len(objs') = Len(objs) /\ DOMAIN objs' = DOMAIN objs
  /\ \A p \in DOMAIN objs :
       /\ objs'[p].rec.pod = objs[p].rec.pod
       /\ objs'[p].main = objs[p].main
       /\ objs'[p].rec.idx = objs[p].rec.idx
       /\ \A d \in Chain : /\ objs'[p].run[d] = objs[p].run[d]
                           /\ objs'[p].rec.pid[d] = objs[p].rec.pid[d]

\* A change to what is there already.
LEMMA NoChange ==
  ASSUME NEW o \in DOMAIN objs, NEW c \in Chain,
         Changes(objs, objs', o, objs[o].main, objs[o].rec.idx, c, objs[o].run[c], objs[o].rec.pid[c])
  PROVE  Kept
<1>1. objs' \in Seq(Object) /\ Len(objs') = Len(objs) /\ DOMAIN objs' = DOMAIN objs
  BY ZenonT(60) DEF Changes
<1>2. ASSUME NEW p \in DOMAIN objs, NEW d \in Chain
      PROVE  /\ objs'[p].rec.pod = objs[p].rec.pod
             /\ objs'[p].main = objs[p].main
             /\ objs'[p].rec.idx = objs[p].rec.idx
             /\ objs'[p].run[d] = objs[p].run[d]
             /\ objs'[p].rec.pid[d] = objs[p].rec.pid[d]
  <2>1. CASE p = o
    BY <2>1, SMTT(40) DEF Changes
  <2>2. CASE p # o
    BY <2>2, SMTT(40) DEF Changes
  <2> QED
    BY <2>1, <2>2, SMTT(40)
<1> QED
  BY <1>1, <1>2, ZenonT(60) DEF Kept

\* The steps that keep the objects, but for the statuses and the process manager.
Stays == UNCHANGED <<up, starts, wanted, pods, gone, db, procs, subs, joined, bus,
                     recorder, daemon, handler, call, faults>>
HandlerDone ==
  handler' = Nil /\ UNCHANGED <<up, starts, wanted, pods, gone, db, procs, subs, joined, bus,
                                recorder, daemon, call, faults>>
BusSteps == \/ \E s \in Subscribers : AddSubscribe(s)
            \/ \E s, t \in Subscribers : AddSubscribeRace(s, t)
            \/ Deliver \/ RecorderPut \/ HandlerDone \/ DaemonContinues
CallSteps == \/ UpdatePodGets \/ UpdatePodPuts \/ DeletePodGets \/ StopTerms \/ Tick
             \/ StopKills \/ DeletePodRemoves
OtherSteps == \/ Stays \/ BusSteps \/ Users \/ CallSteps
              \/ \E pid \in DOMAIN procs : ProcessExits(pid)

\* The daemon starts a container again.
DaemonMoves ==
  /\ daemon # Nil /\ Restarts(daemon)
  /\ \E t \in Runner : t.at = "begin" /\
       Changes(objs, objs', daemon.o, objs[daemon.o].main, objs[daemon.o].rec.idx, daemon.c,
               t, objs[daemon.o].rec.pid[daemon.c])
  /\ daemon' = Nil
  /\ ByBus /\ UNCHANGED <<db, subs, joined, bus, recorder, handler>>

\* The fields of an event.
LEMMA EventFields ==
  ASSUME NEW e \in Event
  PROVE  /\ e.kind \in {"start", "run", "finish", "other"} /\ e.o \in 1 .. MaxPods
         /\ e.c \in Chain /\ e.ok \in BOOLEAN
  BY ZenonT(60) DEF Event

\* Every step is of one of these kinds.
LEMMA NextCases ==
  ASSUME TypeOK, MainInv, EventInv, [Next]_vars
  PROVE  \/ Dies \/ Start \/ CreatePod \/ DaemonMoves
         \/ \E o \in DOMAIN objs, c \in Chain : RunnerMoves(o, c)
         \/ \E o \in DOMAIN objs : MainMoves(o)
         \/ Kept /\ OtherSteps
<1>1. ASSUME objs' = objs PROVE Kept
  BY <1>1, ZenonT(60) DEF Kept, TypeOK
<1>2. CASE vars' = vars
  BY <1>1, <1>2, ZenonT(60) DEF vars, OtherSteps, Stays
<1>3. ASSUME NEW o \in DOMAIN objs, StartSetsManager(o)
      PROVE  Kept /\ OtherSteps
  <2>1. 1 \in Chain /\ objs \in Seq(Object)
    BY Objects, SMTT(40)
  <2>2. Kept
    BY <1>3, <2>1, PmChanges, NoChange, ZenonT(60) DEF StartSetsManager
  <2> QED
    BY <1>3, <2>2, ZenonT(60) DEF StartSetsManager, OtherSteps, Stays, events
<1>4. CASE HandlerHandles
  <2>1. ByBus /\ UNCHANGED <<db, subs, joined, bus, recorder, daemon>> /\ handler' = Nil
    BY <1>4, ZenonT(60) DEF HandlerHandles
  <2>2. HandlerDone
    BY <2>1, ZenonT(60) DEF ByBus, HandlerDone
  <2>3. CASE handler.kind # "start"
    BY <1>1, <1>4, <2>2, <2>3, ZenonT(60) DEF HandlerHandles, OtherSteps, BusSteps
  <2>4. CASE handler.kind = "start"
    <3> DEFINE o == handler.o
               r == [objs[o].rec EXCEPT !.statuses = TRUE]
    <3>1. o \in DOMAIN objs
      BY <1>4, ZenonT(60) DEF HandlerHandles, EventInv
    <3>2. 1 \in Chain /\ objs \in Seq(Object) /\ objs[o].rec \in Record
      BY <3>1, Objects, SMTT(40)
    <3>3. r \in Record
      BY <3>2, RecordUpdates, ZenonT(60)
    <3>4. r.pod = objs[o].rec.pod /\ r.idx = objs[o].rec.idx /\ r.pid = objs[o].rec.pid
      BY <3>2, ZenonT(60) DEF Record
    <3>5. objs' = [objs EXCEPT ![o].rec = r]
      BY <1>4, <2>4, ZenonT(60) DEF HandlerHandles
    <3> HIDE DEF r, o
    <3>6. Changes(objs, objs', o, objs[o].main, r.idx, 1, objs[o].run[1], r.pid[1])
      BY <3>1, <3>2, <3>3, <3>4, <3>5, RecChanges, ZenonT(60)
    <3>7. Kept
      BY <3>1, <3>2, <3>4, <3>6, NoChange, ZenonT(60)
    <3> QED
      BY <3>7, <2>2, ZenonT(60) DEF OtherSteps, BusSteps
  <2> QED
    BY <2>3, <2>4, SMTT(40)
<1>5. CASE DaemonRestarts
  <2> DEFINE t == At(Off, "begin")
  <2>1. daemon.o \in DOMAIN objs /\ daemon.c \in Chain /\ daemon # Nil
    BY <1>5, EventFields, ZenonT(60) DEF DaemonRestarts, EventInv, TypeOK
  <2>2. t \in Runner /\ t.at = "begin"
    BY Offs, SMTT(40)
  <2>3. objs \in Seq(Object) /\ objs' = [objs EXCEPT ![daemon.o].run[daemon.c] = t]
    BY <1>5, ZenonT(60) DEF DaemonRestarts, TypeOK
  <2> HIDE DEF t
  <2>4. Changes(objs, objs', daemon.o, objs[daemon.o].main, objs[daemon.o].rec.idx, daemon.c,
                t, objs[daemon.o].rec.pid[daemon.c])
    BY <2>1, <2>2, <2>3, RunChanges, ZenonT(60)
  <2> QED
    BY <1>5, <2>2, <2>4, ZenonT(60) DEF DaemonRestarts, DaemonMoves
<1>6. CASE Crash \/ HandlerPanics
  BY <1>6, ZenonT(60) DEF Crash, HandlerPanics
<1>7. CASE \E pid \in DOMAIN procs : ProcessExits(pid)
  BY <1>1, <1>7, ZenonT(60) DEF ProcessExits, OtherSteps
<1>8. CASE Users
  BY <1>1, <1>8, ZenonT(60) DEF Users, UserCreates, UserUpdates, UserDeletes, ApiRemoves, ByUser, OtherSteps
<1>9. CASE CallSteps
  BY <1>1, <1>9, ZenonT(60) DEF CallSteps, UpdatePodGets, UpdatePodPuts, DeletePodGets, StopTerms, Tick,
        StopKills, DeletePodRemoves, OtherSteps
<1>10. CASE \/ \E s \in Subscribers : AddSubscribe(s)
            \/ \E s, t \in Subscribers : AddSubscribeRace(s, t)
            \/ Deliver \/ RecorderPut \/ DaemonContinues
  BY <1>1, <1>10, ZenonT(60) DEF AddSubscribe, AddSubscribeRace, Deliver, RecorderPut, DaemonContinues,
        OtherSteps, BusSteps
<1>11. CASE \E o \in DOMAIN objs : Mains(o)
  BY <1>11, MainSteps, SMTT(40)
<1>12. CASE \E o \in DOMAIN objs, c \in Chain : Containers(o, c)
  BY <1>12, RunnerSteps, SMTT(40)
<1>13. CASE Bus
  BY <1>4, <1>5, <1>6, <1>10, <1>13, ZenonT(60) DEF Bus
<1>14. CASE Controller
  BY <1>9, <1>14, ZenonT(60) DEF Controller, CallSteps
<1> QED
  BY <1>2, <1>3, <1>6, <1>7, <1>8, <1>11, <1>12, <1>13, <1>14, ZenonT(60) DEF Next
-----------------------------------------------------------------------------
(* Types. *)

\* An event that was sent.
Sent(kind, o, c, ok) ==
  /\ bus = Nil
  /\ bus' # Nil => /\ bus'.ev.kind = kind /\ bus'.ev.o = o /\ bus'.ev.c = c /\ bus'.ev.ok = ok
                   /\ bus'.left = subs
  /\ bus' \in Dispatch \cup {Nil} /\ (bus' # Nil => bus'.left # <<>>)

\* BaseEventBus.Send puts the event before the subscribers, if there are any.
LEMMA SendSent ==
  ASSUME TypeOK, NEW kind \in {"start", "run", "finish", "other"}, NEW o \in DOMAIN objs,
         NEW c \in Chain, NEW ok \in BOOLEAN, Send(kind, o, c, ok)
  PROVE  Sent(kind, o, c, ok)
<1> DEFINE e == [kind |-> kind, o |-> o, c |-> c, ok |-> ok]
           b == [ev |-> e, left |-> subs]
<1>1. o \in 1 .. MaxPods
  BY Numbers, SMTT(40) DEF TypeOK
<1>2. e \in Event /\ e.kind = kind /\ e.o = o /\ e.c = c /\ e.ok = ok
  BY <1>1, ZenonT(60) DEF Event
<1> HIDE DEF e
<1>3. subs \in Seq(Subscribers)
  BY ZenonT(60) DEF TypeOK
<1>4. b \in Dispatch /\ b.ev = e /\ b.left = subs
  BY <1>2, <1>3, ZenonT(60) DEF Dispatch
<1>5. bus = Nil /\ bus' = IF subs = <<>> THEN Nil ELSE b
  BY ZenonT(60) DEF Send, e
<1> HIDE DEF b
<1> QED
  BY <1>2, <1>4, <1>5, ZenonT(60) DEF Sent

\* What the goroutines tell is no finish event.
LEMMA TellSent ==
  ASSUME TypeOK, NEW o \in DOMAIN objs, NEW c \in Chain, Tell(o, c)
  PROVE  \E kind \in {"start", "run", "other"}, ok \in BOOLEAN : Sent(kind, o, c, ok)
  BY SendSent, ZenonT(60) DEF Tell

\* The steps of a container's goroutine keep the types.
LEMMA RunnerTypes ==
  ASSUME TypeOK, NEW o \in DOMAIN objs, NEW c \in Chain, RunnerMoves(o, c)
  PROVE  TypeOK'
<1>1. PICK t \in Runner, k \in 0 .. MaxPids :
        /\ Changes(objs, objs', o, objs[o].main, objs[o].rec.idx, c, t, k)
        /\ Moves(o, c, t, k) /\ ByRunner /\ faults' \in 0 .. MaxFaults
  BY ZenonT(60) DEF RunnerMoves
<1>2. objs' \in Seq(Object) /\ Len(objs') = Len(objs)
  BY <1>1, ZenonT(60) DEF Changes
<1>3. bus' \in Dispatch \cup {Nil} /\ (bus' # Nil => bus'.left # <<>>)
  <2>1. objs[o].run[c].ok \in BOOLEAN
    BY Objects, SMTT(40) DEF Runner
  <2>2. bus' = bus \/ \E kind \in {"start", "run", "finish", "other"}, ok \in BOOLEAN : Send(kind, o, c, ok)
    BY <1>1, <2>1, ZenonT(60) DEF Moves, Prepares, Abandons, Adopts, Spawns, Waits, Reaps, Finishes, Tell
  <2>3. CASE bus' = bus
    BY <2>3, ZenonT(60) DEF TypeOK
  <2> QED
    BY <2>2, <2>3, SendSent, ZenonT(60) DEF Sent
<1>4. procs' \in Seq(Process) /\ Len(procs') <= MaxPids
  <2>1. CASE procs' = procs
    BY <2>1, ZenonT(60) DEF TypeOK
  <2>2. CASE Spawns(o, c, t, k)
    <3> DEFINE p == [uid |-> Uid(o), c |-> c, alive |-> TRUE, ok |-> FALSE, child |-> TRUE]
    <3>1. Uid(o) \in 1 .. MaxPods
      BY Objects, RecordFields, ZenonT(60) DEF Uid, Pod
    <3>2. p \in Process
      BY <3>1, ZenonT(60) DEF Process
    <3>3. procs' = Append(procs, p) /\ k = Len(procs) + 1
      BY <2>2, ZenonT(60) DEF Spawns
    <3> HIDE DEF p
    <3> QED
      BY <3>2, <3>3, Numbers, SMTT(40) DEF TypeOK
  <2> QED
    BY <1>1, <2>1, <2>2, ZenonT(60) DEF Moves, Prepares, Abandons, Adopts, Waits, Reaps, Finishes
<1>5. UNCHANGED <<up, starts, wanted, pods, gone, db, subs, joined, recorder, daemon, handler, call>>
  BY <1>1, ZenonT(60) DEF ByRunner
<1> QED
  BY <1>1, <1>2, <1>3, <1>4, <1>5, SMTT(40) DEF TypeOK

\* So do those of PodProcess.run.
LEMMA MainTypes ==
  ASSUME TypeOK, NEW o \in DOMAIN objs, MainMoves(o)
  PROVE  TypeOK'
<1>1. PICK m \in {"off", "loop", "announce", "launch", "sync", "next"}, i \in 0 .. Last,
           c \in Chain, t \in Runner :
        /\ Changes(objs, objs', o, m, i, c, t, objs[o].rec.pid[c])
        /\ \/ Looks(o, m, i, c, t) \/ Announces(o, m, i, c, t) \/ Launches(o, m, i, c, t)
           \/ Advances(o, m, i, c, t) \/ Retries(o, m, i, c, t)
        /\ ByMain
  BY ZenonT(60) DEF MainMoves
<1>2. objs' \in Seq(Object) /\ Len(objs') = Len(objs)
  BY <1>1, ZenonT(60) DEF Changes
<1>3. bus' \in Dispatch \cup {Nil} /\ (bus' # Nil => bus'.left # <<>>)
  <2>1. bus' = bus \/ Tell(o, 1)
    BY <1>1, ZenonT(60) DEF Looks, Announces, Launches, Advances, Retries
  <2>2. CASE bus' = bus
    BY <2>2, ZenonT(60) DEF TypeOK
  <2> QED
    BY <2>1, <2>2, Objects, TellSent, ZenonT(60) DEF Sent
<1>4. UNCHANGED <<up, starts, wanted, pods, gone, db, procs, subs, joined, recorder, daemon,
                  handler, call, faults>>
  BY <1>1, ZenonT(60) DEF ByMain
<1> QED
  BY <1>2, <1>3, <1>4, SMTT(40) DEF TypeOK

\* What is left to be dispatched after a delivery.
LEMMA DeliverBus ==
  ASSUME TypeOK, Deliver
  PROVE  /\ bus # Nil /\ bus.ev \in Event /\ bus.left \in Seq(Subscribers) /\ bus.left # <<>>
         /\ bus' \in Dispatch \cup {Nil}
         /\ bus' = Nil => Len(bus.left) = 1
         /\ bus' # Nil => bus'.ev = bus.ev /\ bus'.left = Tail(bus.left) /\ bus'.left # <<>>
<1>1. bus # Nil /\ bus' = IF Len(bus.left) = 1 THEN Nil ELSE [bus EXCEPT !.left = Tail(@)]
  BY ZenonT(60) DEF Deliver
<1>2. bus \in Dispatch /\ bus.left # <<>>
  BY <1>1, ZenonT(60) DEF TypeOK
<1>3. bus.ev \in Event /\ bus.left \in Seq(Subscribers)
  BY <1>2, ZenonT(60) DEF Dispatch
<1>4. Tail(bus.left) \in Seq(Subscribers) /\ (Len(bus.left) # 1 => Tail(bus.left) # <<>>)
  <2>1. Tail(bus.left) \in Seq(Subscribers) /\ Len(Tail(bus.left)) = Len(bus.left) - 1
    BY <1>2, <1>3, HeadTailProperties, SMTT(40)
  <2>2. ASSUME Tail(bus.left) = <<>> PROVE Len(bus.left) = 1
    <3>1. Len(bus.left) \in Nat /\ 0 = Len(bus.left) - 1
      BY <2>1, <2>2, <1>3, EmptySeq, LenProperties, ZenonT(60)
    <3> QED
      BY ONLY <3>1, SMTT(40)
  <2> QED
    BY <2>1, <2>2, SMTT(40)
<1>5. \A l \in Seq(Subscribers) : /\ [bus EXCEPT !.left = l] \in Dispatch
                                  /\ [bus EXCEPT !.left = l].ev = bus.ev
                                  /\ [bus EXCEPT !.left = l].left = l
  BY <1>2, ZenonT(60) DEF Dispatch
<1>6. CASE Len(bus.left) = 1
  BY <1>1, <1>2, <1>3, <1>6, ZenonT(60)
<1>7. CASE Len(bus.left) # 1
  <2>1. bus' = [bus EXCEPT !.left = Tail(bus.left)]
    BY <1>1, <1>7, ZenonT(60)
  <2>2. bus' \in Dispatch /\ bus'.ev = bus.ev /\ bus'.left = Tail(bus.left)
    BY <2>1, <1>4, <1>5, ZenonT(60)
  <2>3. bus' # Nil
    BY <2>2, NilAssumption, ZenonT(60)
  <2> QED
    BY <1>1, <1>2, <1>3, <1>4, <1>7, <2>2, <2>3, ZenonT(60)
<1> QED
  BY <1>6, <1>7, SMTT(40)

\* The fields of a call.
LEMMA CallFields ==
  ASSUME NEW x \in Call
  PROVE  /\ x.op \in {"none", "update", "stop", "term"} /\ x.rec \in Record \cup {Nil}
         /\ x.c \in 1 .. Last + 1 /\ x.waited \in 0 .. Grace
  BY ZenonT(60) DEF Call

\* No call is in progress.
LEMMA NoCallIsCall ==
  NoCall \in Call /\ NoCall.op = "none" /\ NoCall.rec = Nil /\ NoCall.c = 1 /\ NoCall.waited = 0
<1>1. 1 \in 1 .. Last + 1 /\ 0 \in 0 .. Grace
  BY Numbers, SMTT(40)
<1>2. NoCall \in Call
  BY <1>1, ZenonT(60) DEF NoCall, Call
<1>3. NoCall.op = "none" /\ NoCall.rec = Nil /\ NoCall.c = 1 /\ NoCall.waited = 0
  BY ZenonT(60) DEF NoCall
<1> QED
  BY <1>2, <1>3, SMTT(40)

\* UpdatePod and DeletePod begin with the record.
LEMMA NewCall ==
  ASSUME NEW r \in Record, NEW op \in {"update", "stop"}
  PROVE  LET x == [NoCall EXCEPT !.op = op, !.rec = r] IN
         x \in Call /\ x.op = op /\ x.rec = r /\ x.c = 1
<1>1. \A y \in Call : LET x == [y EXCEPT !.op = op, !.rec = r] IN
        x \in Call /\ x.op = op /\ x.rec = r /\ x.c = y.c
  BY ZenonT(60) DEF Call
<1> QED
  BY <1>1, NoCallIsCall, ZenonT(60)

\* The steps of DeletePod through the containers.
LEMMA CallUpdates ==
  ASSUME NEW x \in Call
  PROVE  /\ LET y == [x EXCEPT !.op = "term", !.waited = 0] IN
            y \in Call /\ y.op = "term" /\ y.rec = x.rec /\ y.c = x.c
         /\ x.c \in Chain => LET y == [x EXCEPT !.c = @ + 1] IN
            y \in Call /\ y.op = x.op /\ y.rec = x.rec /\ y.c = x.c + 1
         /\ x.c \in Chain => LET y == [x EXCEPT !.op = "stop", !.c = @ + 1, !.waited = 0] IN
            y \in Call /\ y.op = "stop" /\ y.rec = x.rec /\ y.c = x.c + 1
         /\ x.waited < Grace => LET y == [x EXCEPT !.waited = @ + 1] IN
            y \in Call /\ y.op = x.op /\ y.rec = x.rec /\ y.c = x.c
<1>1. /\ 0 \in 0 .. Grace /\ (x.c \in Chain => x.c + 1 \in 1 .. Last + 1)
      /\ (x.waited < Grace => x.waited + 1 \in 0 .. Grace)
  BY CallFields, Numbers, SMTT(40) DEF Chain
<1>2. \A w \in 0 .. Grace :
        /\ LET y == [x EXCEPT !.op = "term", !.waited = w] IN
           y \in Call /\ y.op = "term" /\ y.rec = x.rec /\ y.c = x.c
        /\ LET y == [x EXCEPT !.waited = w] IN
           y \in Call /\ y.op = x.op /\ y.rec = x.rec /\ y.c = x.c
  BY ZenonT(60) DEF Call
<1>3. \A c \in 1 .. Last + 1 :
        LET y == [x EXCEPT !.c = c] IN y \in Call /\ y.op = x.op /\ y.rec = x.rec /\ y.c = c
  BY ZenonT(60) DEF Call
<1>4. \A c \in 1 .. Last + 1, w \in 0 .. Grace :
        LET y == [x EXCEPT !.op = "stop", !.c = c, !.waited = w] IN
        y \in Call /\ y.op = "stop" /\ y.rec = x.rec /\ y.c = c
  BY ZenonT(60) DEF Call
<1>5. /\ LET y == [x EXCEPT !.op = "term", !.waited = 0] IN
         y \in Call /\ y.op = "term" /\ y.rec = x.rec /\ y.c = x.c
      /\ x.waited < Grace => LET y == [x EXCEPT !.waited = @ + 1] IN
         y \in Call /\ y.op = x.op /\ y.rec = x.rec /\ y.c = x.c
  BY <1>1, <1>2, ZenonT(60)
<1>6. x.c \in Chain => LET y == [x EXCEPT !.c = @ + 1] IN
         y \in Call /\ y.op = x.op /\ y.rec = x.rec /\ y.c = x.c + 1
  BY <1>1, <1>3, ZenonT(60)
<1>7. x.c \in Chain => LET y == [x EXCEPT !.op = "stop", !.c = @ + 1, !.waited = 0] IN
         y \in Call /\ y.op = "stop" /\ y.rec = x.rec /\ y.c = x.c + 1
  BY <1>1, <1>4, ZenonT(60)
<1> QED
  BY <1>5, <1>6, <1>7, SMTT(40)

\* The processes after the kubelet died.
LEMMA Orphans ==
  ASSUME TypeOK, Dies
  PROVE  /\ procs' \in Seq(Process) /\ Len(procs') = Len(procs) /\ DOMAIN procs' = DOMAIN procs
         /\ \A p \in DOMAIN procs : /\ procs'[p].uid = procs[p].uid /\ procs'[p].c = procs[p].c
                                    /\ procs'[p].alive = procs[p].alive
                                    /\ procs'[p].ok = procs[p].ok /\ ~procs'[p].child
<1>1. procs' = [p \in DOMAIN procs |-> [procs[p] EXCEPT !.child = FALSE]]
  BY ZenonT(60) DEF Dies
<1>2. procs \in Seq(Process) /\ \A p \in DOMAIN procs : procs[p] \in Process
  BY SMTT(40) DEF TypeOK
<1>3. \A x \in Process : LET y == [x EXCEPT !.child = FALSE] IN
        y \in Process /\ y.uid = x.uid /\ y.c = x.c /\ y.alive = x.alive /\ y.ok = x.ok /\ ~y.child
  BY ZenonT(60) DEF Process
<1>4. \A p \in DOMAIN procs :
        /\ procs'[p] \in Process /\ procs'[p].uid = procs[p].uid /\ procs'[p].c = procs[p].c
        /\ procs'[p].alive = procs[p].alive /\ procs'[p].ok = procs[p].ok /\ ~procs'[p].child
  BY <1>1, <1>2, <1>3, ZenonT(60)
<1>5. procs' \in Seq(Process) /\ Len(procs') = Len(procs) /\ DOMAIN procs' = DOMAIN procs
  <2>1. DOMAIN procs = 1 .. Len(procs) /\ Len(procs) \in Nat
    BY <1>2, LenProperties, SMTT(40)
  <2>2. procs' \in [1 .. Len(procs) -> Process]
    BY <1>1, <1>4, <2>1, ZenonT(60)
  <2> QED
    BY <2>1, <2>2, SMTT(40)
<1> QED
  BY <1>4, <1>5, SMTT(40)

\* A PodProcess that is new in memory.
LEMMA NewObjects ==
  ASSUME NEW r \in Record, NEW l \in BOOLEAN
  PROVE  LET x == NewObject(r, l) IN
         /\ x \in Object /\ x.rec = r /\ x.main = "loop"
         /\ \A c \in Chain : x.run[c] = Off
<1>1. [c \in Chain |-> Off] \in [Chain -> Runner]
  BY Offs, ZenonT(60)
<1>2. (~l) \in BOOLEAN
  BY SMTT(40)
<1> QED
  BY <1>1, <1>2, ZenonT(60) DEF NewObject, Object

\* The record of a new pod.
LEMMA NewRecord ==
  ASSUME NEW w \in Pod
  PROVE  LET r == [pod |-> w, idx |-> 0, pid |-> [c \in Chain |-> 0],
                   done |-> [c \in Chain |-> 0], statuses |-> FALSE] IN
         /\ r \in Record /\ r.pod = w /\ r.idx = 0 /\ \A c \in Chain : r.pid[c] = 0
<1>1. 0 \in 0 .. Last /\ 0 \in 0 .. MaxPids /\ 0 \in 0 .. 2
  BY Numbers, SMTT(40)
<1>2. [c \in Chain |-> 0] \in [Chain -> 0 .. MaxPids] /\ [c \in Chain |-> 0] \in [Chain -> 0 .. 2]
  BY <1>1, ZenonT(60)
<1> QED
  BY <1>1, <1>2, ZenonT(60) DEF Record

\* CreatePod adds an object of a new pod.
Created ==
  /\ up /\ call = NoCall /\ wanted # Nil /\ ~wanted.del /\ db = Nil
  /\ db' \in Record /\ db'.pod = wanted /\ db'.idx = 0 /\ \A c \in Chain : db'.pid[c] = 0
  /\ objs' \in Seq(Object) /\ Len(objs') = Len(objs) + 1
  /\ DOMAIN objs' = DOMAIN objs \cup {Len(objs) + 1} /\ Len(objs) + 1 \notin DOMAIN objs
  /\ \A o \in DOMAIN objs : objs'[o] = objs[o]
  /\ LET x == objs'[Len(objs) + 1] IN
     /\ x.rec = db' /\ x.main = "loop" /\ \A c \in Chain : x.run[c] = Off
  /\ UNCHANGED <<up, starts, wanted, pods, gone, procs, subs, joined, bus, recorder, daemon,
                 handler, call, faults>>

\* That is what CreatePod does.
LEMMA CreatePodCreates ==
  ASSUME TypeOK, CreatePod
  PROVE  Created
<1> DEFINE r == [pod |-> wanted, idx |-> 0, pid |-> [c \in Chain |-> 0],
                 done |-> [c \in Chain |-> 0], statuses |-> FALSE]
           x == NewObject(r, FALSE)
<1>1. /\ up /\ call = NoCall /\ wanted # Nil /\ ~wanted.del /\ db = Nil
      /\ db' = r /\ objs' = Append(objs, x)
      /\ UNCHANGED <<up, starts, wanted, pods, gone, procs, subs, joined, bus, recorder, daemon,
                     handler, call, faults>>
  BY ZenonT(60) DEF CreatePod, Calls, ByCall, events
<1>2. wanted \in Pod /\ objs \in Seq(Object)
  BY <1>1, ZenonT(60) DEF TypeOK
<1>3. r \in Record /\ r.pod = wanted /\ r.idx = 0 /\ \A c \in Chain : r.pid[c] = 0
  BY <1>2, NewRecord, ZenonT(60)
<1> HIDE DEF r
<1>4. x \in Object /\ x.rec = r /\ x.main = "loop" /\ \A c \in Chain : x.run[c] = Off
  BY <1>3, NewObjects, ZenonT(60)
<1> HIDE DEF x
<1>5. /\ objs' \in Seq(Object) /\ Len(objs') = Len(objs) + 1
      /\ DOMAIN objs' = DOMAIN objs \cup {Len(objs) + 1} /\ Len(objs) + 1 \notin DOMAIN objs
      /\ \A o \in DOMAIN objs : objs'[o] = objs[o]
      /\ objs'[Len(objs) + 1] = x
  BY <1>1, <1>2, <1>4, SMTT(40)
<1> QED
  BY <1>1, <1>3, <1>4, <1>5, ZenonT(60) DEF Created

\* Start makes the object of the record, if there is one.
Loaded ==
  /\ ~up /\ up' /\ starts < MaxStarts /\ starts' = starts + 1
  /\ IF db = Nil THEN objs' = <<>> /\ DOMAIN objs' = {}
     ELSE /\ objs' \in Seq(Object) /\ Len(objs') = 1 /\ DOMAIN objs' = {1}
          /\ objs'[1].rec = db /\ objs'[1].main = "loop" /\ \A c \in Chain : objs'[1].run[c] = Off
  /\ UNCHANGED <<wanted, pods, gone, db, procs, subs, joined, bus, recorder, daemon,
                 handler, call, faults>>

\* That is what Start does.
LEMMA StartLoads ==
  ASSUME TypeOK, Start
  PROVE  Loaded /\ up' \in BOOLEAN
<1> DEFINE x == NewObject(db, TRUE)
<1>1. /\ ~up /\ up' = TRUE /\ starts < MaxStarts /\ starts' = starts + 1
      /\ objs' = IF db = Nil THEN <<>> ELSE <<x>>
      /\ UNCHANGED <<wanted, pods, gone, db, procs, subs, joined, bus, recorder, daemon,
                     handler, call, faults>>
  BY ZenonT(60) DEF Start, events
<1>2. CASE db = Nil
  BY <1>1, <1>2, SMTT(40) DEF Loaded
<1>3. CASE db # Nil
  <2>1. db \in Record
    BY <1>3, ZenonT(60) DEF TypeOK
  <2>2. x \in Object /\ x.rec = db /\ x.main = "loop" /\ \A c \in Chain : x.run[c] = Off
    BY <2>1, NewObjects, ZenonT(60)
  <2> HIDE DEF x
  <2>3. objs' \in Seq(Object) /\ Len(objs') = 1 /\ DOMAIN objs' = {1} /\ objs'[1] = x
    BY <1>1, <1>3, <2>2, SMTT(40)
  <2> QED
    BY <1>1, <1>3, <2>2, <2>3, ZenonT(60) DEF Loaded
<1> QED
  BY <1>2, <1>3, SMTT(40)

\* A process ends; the others go on.
Ends(k) ==
  /\ procs' \in Seq(Process) /\ Len(procs') = Len(procs) /\ DOMAIN procs' = DOMAIN procs
  /\ k \in DOMAIN procs /\ procs[k].alive /\ ~procs'[k].alive
  /\ \A p \in DOMAIN procs :
       /\ procs'[p].uid = procs[p].uid /\ procs'[p].c = procs[p].c /\ procs'[p].child = procs[p].child
       /\ p # k => procs'[p] = procs[p]

\* That is what an exit or a signal does.
LEMMA ProcessEnds ==
  ASSUME TypeOK, NEW k \in DOMAIN procs, procs[k].alive,
         \/ procs' = [procs EXCEPT ![k].alive = FALSE]
         \/ \E ok \in BOOLEAN : procs' = [procs EXCEPT ![k] = [@ EXCEPT !.alive = FALSE, !.ok = ok]]
  PROVE  Ends(k)
<1>1. procs \in Seq(Process) /\ procs[k] \in Process
  <2>1. procs \in Seq(Process)
    BY ZenonT(60) DEF TypeOK
  <2> QED
    BY ONLY <2>1, k \in DOMAIN procs, SMTT(40)
<1>2. \A x \in Process : LET y == [x EXCEPT !.alive = FALSE] IN
        y \in Process /\ y.uid = x.uid /\ y.c = x.c /\ y.child = x.child /\ ~y.alive
  BY ZenonT(60) DEF Process
<1>3. \A x \in Process, ok \in BOOLEAN : LET y == [x EXCEPT !.alive = FALSE, !.ok = ok] IN
        y \in Process /\ y.uid = x.uid /\ y.c = x.c /\ y.child = x.child /\ ~y.alive
  BY ZenonT(60) DEF Process
<1>4. PICK y \in Process : /\ procs' = [procs EXCEPT ![k] = y] /\ ~y.alive
                           /\ y.uid = procs[k].uid /\ y.c = procs[k].c /\ y.child = procs[k].child
  <2>1. CASE procs' = [procs EXCEPT ![k].alive = FALSE]
    <3>1. procs' = [procs EXCEPT ![k] = [procs[k] EXCEPT !.alive = FALSE]]
      BY <2>1, ZenonT(60)
    <3> QED
      BY <3>1, <1>1, <1>2, ZenonT(60)
  <2>2. ASSUME NEW ok \in BOOLEAN,
               procs' = [procs EXCEPT ![k] = [@ EXCEPT !.alive = FALSE, !.ok = ok]]
        PROVE  \E y \in Process : /\ procs' = [procs EXCEPT ![k] = y] /\ ~y.alive
                                  /\ y.uid = procs[k].uid /\ y.c = procs[k].c
                                  /\ y.child = procs[k].child
    <3>1. procs' = [procs EXCEPT ![k] = [procs[k] EXCEPT !.alive = FALSE, !.ok = ok]]
      BY <2>2, ZenonT(60)
    <3> QED
      BY <3>1, <1>1, <1>3, ZenonT(60)
  <2> QED
    BY <2>1, <2>2, ZenonT(60)
<1>5. /\ procs' \in Seq(Process) /\ Len(procs') = Len(procs) /\ DOMAIN procs' = DOMAIN procs
      /\ procs'[k] = y /\ \A p \in DOMAIN procs : p # k => procs'[p] = procs[p]
  BY ONLY <1>1, <1>4, k \in DOMAIN procs, SMTT(40)
<1> QED
  BY <1>4, <1>5, ZenonT(60) DEF Ends

\* A delivery: the recorder takes the record of the event's object, the daemon
\* and the handler the event, or nobody anything.
LEMMA DeliverTypes ==
  ASSUME TypeOK, EventInv, Deliver
  PROVE  /\ recorder' \in {recorder, objs[bus.ev.o].rec} /\ objs[bus.ev.o].rec \in Record
         /\ daemon' \in {daemon, bus.ev, Nil} /\ handler' \in {handler, bus.ev, Nil}
         /\ daemon' # daemon /\ daemon' # Nil => bus.ev.kind = "finish" /\ Head(bus.left) = "daemon"
<1>1. bus # Nil /\ bus.ev.o \in DOMAIN objs
  BY ZenonT(60) DEF Deliver, EventInv
<1> QED
  BY <1>1, Objects, ZenonT(60) DEF Deliver

\* Every step keeps the types.  That there are no more objects than pods needs
\* UidInv and FreshInv, that DeletePod stays within the chain CallInv.
LEMMA TypeStep ==
  ASSUME TypeOK, MainInv, EventInv, RecordInv, UidInv, FreshInv, CallInv, [Next]_vars
  PROVE  TypeOK'
<1>1. CASE Dies
  <2>1. procs' \in Seq(Process) /\ Len(procs') = Len(procs)
    BY <1>1, Orphans, SMTT(40)
  <2>2. /\ up' = FALSE /\ objs' = <<>> /\ call' = NoCall
        /\ subs' = <<>> /\ joined' = {} /\ bus' = Nil
        /\ recorder' = Nil /\ daemon' = Nil /\ handler' = Nil
        /\ UNCHANGED <<starts, wanted, pods, gone, db, faults>>
    BY <1>1, ZenonT(60) DEF Dies
  <2>3. /\ objs' \in Seq(Object) /\ Len(objs') = 0 /\ subs' \in Seq(Subscribers)
        /\ joined' \subseteq Subscribers /\ call' \in Call
    BY <2>2, NoCallIsCall, EmptySeq, ZenonT(60)
  <2>4. Len(procs) <= MaxPids /\ 0 <= MaxPods
    BY Numbers, SMTT(40) DEF TypeOK
  <2> QED
    BY <2>1, <2>2, <2>3, <2>4, ZenonT(60) DEF TypeOK
<1>2. CASE Start
  <2>1. Loaded /\ up' \in BOOLEAN
    BY <1>2, StartLoads, SMTT(40)
  <2>2. objs' \in Seq(Object) /\ Len(objs') <= MaxPods
    <3>1. CASE db = Nil
      BY <2>1, <3>1, Numbers, SMTT(40) DEF Loaded
    <3>2. CASE db # Nil
      <4>1. db.pod.uid \in 1 .. MaxPods
        BY <3>2, RecordFields, ZenonT(60) DEF TypeOK, Pod
      <4>2. objs' \in Seq(Object) /\ Len(objs') = 1
        BY <2>1, <3>2, ZenonT(60) DEF Loaded
      <4> QED
        BY <4>1, <4>2, Numbers, SMTT(40)
    <3> QED
      BY <3>1, <3>2, SMTT(40)
  <2>3. starts' \in 0 .. MaxStarts
    BY <2>1, Numbers, SMTT(40) DEF Loaded, TypeOK
  <2>4. UNCHANGED <<wanted, pods, gone, db, procs, subs, joined, bus, recorder, daemon,
                    handler, call, faults>>
    BY <2>1, ZenonT(60) DEF Loaded
  <2> QED
    BY <2>1, <2>2, <2>3, <2>4, SMTT(40) DEF TypeOK
<1>3. CASE CreatePod
  <2>1. Created
    BY <1>3, CreatePodCreates, SMTT(40)
  <2>2. ASSUME Len(objs) # 0 PROVE Len(objs) < pods
    <3>1. Len(objs) \in DOMAIN objs
      BY <2>2, SMTT(40) DEF TypeOK
    <3>2. Uid(Len(objs)) <= pods /\ Uid(Len(objs)) # pods /\ Len(objs) <= Uid(Len(objs))
      BY <2>1, <3>1, ZenonT(60) DEF Created, RecordInv, RecordOK, RecordIn, UidInv, FreshInv, Uid
    <3>3. Uid(Len(objs)) \in Nat
      BY <3>1, Objects, ZenonT(60) DEF Uid
    <3> QED
      BY <3>2, <3>3, SMTT(40) DEF TypeOK
  <2>3. pods >= 1
    <3>1. wanted \in Pod /\ wanted.uid = pods
      BY <2>1, ZenonT(60) DEF Created, TypeOK, UidInv
    <3> QED
      BY <3>1, Numbers, SMTT(40) DEF Pod
  <2>4. Len(objs') <= MaxPods
    BY <2>1, <2>2, <2>3, Numbers, SMTT(40) DEF TypeOK, Created
  <2>5. /\ db' \in Record /\ objs' \in Seq(Object)
        /\ UNCHANGED <<up, starts, wanted, pods, gone, procs, subs, joined, bus, recorder, daemon,
                       handler, call, faults>>
    BY <2>1, ZenonT(60) DEF Created
  <2> QED
    BY <2>4, <2>5, SMTT(40) DEF TypeOK
<1>4. CASE DaemonMoves
  <2>1. objs' \in Seq(Object) /\ Len(objs') = Len(objs)
    BY <1>4, ZenonT(60) DEF DaemonMoves, Changes
  <2>2. /\ daemon' = Nil
        /\ UNCHANGED <<up, starts, wanted, pods, gone, db, procs, subs, joined, bus, recorder,
                       handler, call, faults>>
    BY <1>4, ZenonT(60) DEF DaemonMoves, ByBus
  <2> QED
    BY <2>1, <2>2, SMTT(40) DEF TypeOK
<1>5. CASE Kept /\ Stays
  BY <1>5, SMTT(40) DEF TypeOK, Kept, Stays
<1>6. CASE Kept /\ HandlerDone
  BY <1>6, Zenon DEF TypeOK, Kept, HandlerDone
<1>7. CASE Kept /\ DaemonContinues
  BY <1>7, Zenon DEF TypeOK, Kept, DaemonContinues, ByBus
<1>8. CASE Kept /\ RecorderPut
  BY <1>8, ZenonT(60) DEF TypeOK, Kept, RecorderPut, ByBus
<1>9. CASE Kept /\ \E s \in Subscribers : \/ AddSubscribe(s)
                                          \/ \E t \in Subscribers : AddSubscribeRace(s, t)
  <2>1. PICK s \in Subscribers : /\ subs' = Append(subs, s) /\ joined' \subseteq Subscribers
    <3>1. CASE \E s \in Subscribers : AddSubscribe(s)
      BY <3>1, ZenonT(60) DEF AddSubscribe, TypeOK
    <3>2. CASE \E s, t \in Subscribers : AddSubscribeRace(s, t)
      BY <3>2, SMTT(40) DEF AddSubscribeRace, TypeOK
    <3> QED
      BY <1>9, <3>1, <3>2, ZenonT(60)
  <2>2. UNCHANGED <<up, starts, wanted, pods, gone, db, procs, bus, recorder, daemon,
                    handler, call, faults>>
    BY <1>9, ZenonT(60) DEF AddSubscribe, AddSubscribeRace, ByBus
  <2>3. subs' \in Seq(Subscribers)
    BY <2>1, AppendProperties, ZenonT(60) DEF TypeOK
  <2> QED
    BY <1>9, <2>1, <2>2, <2>3, SMTT(40) DEF TypeOK, Kept
<1>10. CASE Kept /\ Deliver
  <2>1. /\ bus' \in Dispatch \cup {Nil} /\ (bus' # Nil => bus'.left # <<>>) /\ bus.ev \in Event
    BY <1>10, DeliverBus, ZenonT(60)
  <2>2. recorder' \in Record \cup {Nil} /\ daemon' \in Event \cup {Nil} /\ handler' \in Event \cup {Nil}
    BY <1>10, <2>1, DeliverTypes, ZenonT(60) DEF TypeOK
  <2>3. UNCHANGED <<up, starts, wanted, pods, gone, db, procs, subs, joined, call, faults>>
    BY <1>10, ZenonT(60) DEF Deliver, ByBus
  <2> QED
    BY <1>10, <2>1, <2>2, <2>3, ZenonT(60) DEF TypeOK, Kept
<1>11. CASE Kept /\ \E pid \in DOMAIN procs : ProcessExits(pid)
  <2>1. PICK pid \in DOMAIN procs : Ends(pid)
    BY <1>11, ProcessEnds, ZenonT(60) DEF ProcessExits
  <2>2. UNCHANGED <<up, starts, wanted, pods, gone, db, subs, joined, bus, recorder, daemon,
                    handler, call, faults>>
    BY <1>11, ZenonT(60) DEF ProcessExits, events
  <2> QED
    BY <1>11, <2>1, <2>2, SMTT(40) DEF TypeOK, Kept, Ends
<1>12. CASE Kept /\ Users
  <2>1. UNCHANGED <<up, starts, db, procs, subs, joined, bus, recorder, daemon,
                    handler, call, faults>>
    BY <1>12, ZenonT(60) DEF Users, UserCreates, UserUpdates, UserDeletes, ApiRemoves, ByUser, events
  <2>2. wanted' \in Pod \cup {Nil} /\ pods' \in 0 .. MaxPods /\ gone' \in BOOLEAN
    <3>1. CASE UserCreates
      <4>1. PICK policy \in Policies :
              wanted' = [uid |-> pods', ver |-> 1, del |-> FALSE, policy |-> policy]
        BY <3>1, ZenonT(60) DEF UserCreates
      <4>2. pods' \in 1 .. MaxPods /\ gone' \in BOOLEAN
        <5>1. pods < MaxPods /\ pods' = pods + 1 /\ gone' = FALSE /\ pods \in 0 .. MaxPods
          BY <3>1, ZenonT(60) DEF UserCreates, TypeOK
        <5>2. pods' \in 1 .. MaxPods
          BY ONLY <5>1, Numbers, SMTT(40)
        <5> QED
          BY <5>1, <5>2, ZenonT(60)
      <4>3. 1 \in 1 .. MaxVersions
        BY Numbers, SMTT(40)
      <4>4. policy \in {"Always", "OnFailure", "Never"}
        BY ProcessManagerAssumption, SMTT(40)
      <4> QED
        BY <4>1, <4>2, <4>3, <4>4, Numbers, SMTT(40) DEF Pod
    <3>2. CASE UserUpdates
      <4>1. wanted \in Pod /\ wanted.ver + 1 \in 1 .. MaxVersions
        <5>1. wanted \in Pod /\ wanted.ver < MaxVersions
          BY <3>2, ZenonT(60) DEF UserUpdates, TypeOK
        <5>2. wanted.ver \in 1 .. MaxVersions
          BY ONLY <5>1, ZenonT(60) DEF Pod
        <5>3. wanted.ver + 1 \in 1 .. MaxVersions
          BY ONLY <5>1, <5>2, Numbers, SMTT(40)
        <5> QED
          BY ONLY <5>1, <5>3, Zenon
      <4>2. \A v \in 1 .. MaxVersions : [wanted EXCEPT !.ver = v] \in Pod
        BY <4>1, ZenonT(60) DEF Pod
      <4> QED
        BY <3>2, <4>1, <4>2, ZenonT(60) DEF UserUpdates, TypeOK
    <3>3. CASE UserDeletes
      <4>1. wanted \in Pod
        BY <3>3, ZenonT(60) DEF UserDeletes, TypeOK
      <4>2. [wanted EXCEPT !.del = TRUE] \in Pod
        BY <4>1, ZenonT(60) DEF Pod
      <4> QED
        BY <3>3, <4>2, ZenonT(60) DEF UserDeletes, TypeOK
    <3>4. CASE ApiRemoves
      BY <3>4, ZenonT(60) DEF ApiRemoves, TypeOK
    <3> QED
      BY <1>12, <3>1, <3>2, <3>3, <3>4, ZenonT(60) DEF Users
  <2> QED
    BY <1>12, <2>1, <2>2, SMTT(40) DEF TypeOK, Kept
<1>13. CASE Kept /\ CallSteps
  <2>1. UNCHANGED <<up, starts, wanted, pods, subs, joined, bus, recorder, daemon, handler, faults>>
    BY <1>13, ZenonT(60) DEF CallSteps, UpdatePodGets, UpdatePodPuts, DeletePodGets, StopTerms, Tick,
          StopKills, DeletePodRemoves, ByCall, events
  <2>2. /\ db' \in Record \cup {Nil} /\ gone' \in BOOLEAN /\ call' \in Call
        /\ procs' \in Seq(Process) /\ Len(procs') <= MaxPids
    <3>1. /\ call \in Call /\ db \in Record \cup {Nil} /\ gone \in BOOLEAN
          /\ procs \in Seq(Process) /\ Len(procs) <= MaxPids
      BY ZenonT(60) DEF TypeOK
    <3>2. CASE UpdatePodGets
      <4>1. PICK s \in {FALSE, db.statuses} :
              call' = [NoCall EXCEPT !.op = "update",
                                     !.rec = [db EXCEPT !.pod = wanted, !.statuses = s]]
        BY <3>2, ZenonT(60) DEF UpdatePodGets
      <4>2. db \in Record /\ wanted \in Pod /\ db.statuses \in BOOLEAN
        BY <3>2, RecordFields, ZenonT(60) DEF UpdatePodGets, Calls, TypeOK
      <4>3. s \in BOOLEAN
        BY <4>1, <4>2, ZenonT(60)
      <4>4. [db EXCEPT !.pod = wanted, !.statuses = s] \in Record
        BY <4>2, <4>3, ZenonT(60) DEF Record
      <4>5. call' \in Call
        BY <4>1, <4>4, NewCall, ZenonT(60)
      <4> QED
        BY <3>1, <3>2, <4>5, ZenonT(60) DEF UpdatePodGets
    <3>3. CASE UpdatePodPuts
      <4>1. call.rec \in Record \cup {Nil}
        BY <3>1, CallFields, SMTT(40)
      <4> QED
        BY <3>1, <3>3, <4>1, NoCallIsCall, ZenonT(60) DEF UpdatePodPuts
    <3>4. CASE DeletePodGets
      <4>1. call' \in Call
        BY <3>1, <3>4, NewCall, ZenonT(60) DEF DeletePodGets
      <4> QED
        BY <3>1, <3>4, <4>1, ZenonT(60) DEF DeletePodGets
    <3>5. CASE StopTerms
      <4>1. call.c \in Chain
        BY <3>5, ZenonT(60) DEF StopTerms, Running
      <4>2. call' \in Call
        BY <3>1, <3>5, <4>1, CallUpdates, ZenonT(60) DEF StopTerms
      <4> QED
        BY <3>1, <3>5, <4>2, ZenonT(60) DEF StopTerms
    <3>6. CASE Tick
      <4>1. call' \in Call
        BY <3>1, <3>6, CallUpdates, ZenonT(60) DEF Tick
      <4> QED
        BY <3>1, <3>6, <4>1, ZenonT(60) DEF Tick
    <3>7. CASE StopKills
      <4>1. call.c \in Chain
        BY <3>7, ZenonT(60) DEF StopKills, CallInv
      <4>2. call' \in Call
        <5>1. [call EXCEPT !.op = "stop", !.c = @ + 1, !.waited = 0] \in Call
          BY <3>1, <4>1, CallUpdates, ZenonT(60)
        <5>2. call' \in {[call EXCEPT !.op = "stop", !.c = @ + 1, !.waited = 0], NoCall}
          BY <3>7, ZenonT(60) DEF StopKills
        <5> QED
          BY <5>1, <5>2, NoCallIsCall, ZenonT(60)
      <4>3. procs' \in Seq(Process) /\ Len(procs') <= MaxPids
        <5> DEFINE pid == call.rec.pid[call.c]
        <5>1. CASE procs' = procs
          BY <3>1, <5>1, ZenonT(60)
        <5>2. CASE alive(pid) /\ procs' = [procs EXCEPT ![pid].alive = FALSE]
          <6>1. pid \in DOMAIN procs
            BY <3>7, <4>1, <5>2, ZenonT(60) DEF StopKills, CallInv, RecordInv, RecordOK, RecordIn, alive
          <6>2. Ends(pid)
            BY <5>2, <6>1, ProcessEnds, ZenonT(60) DEF alive
          <6> QED
            BY <3>1, <6>2, ZenonT(60) DEF Ends
        <5> QED
          BY <3>7, <5>1, <5>2, ZenonT(60) DEF StopKills
      <4> QED
        BY <3>1, <3>7, <4>2, <4>3, ZenonT(60) DEF StopKills
    <3>8. CASE DeletePodRemoves
      BY <3>1, <3>8, NoCallIsCall, ZenonT(60) DEF DeletePodRemoves
    <3> QED
      BY <1>13, <3>2, <3>3, <3>4, <3>5, <3>6, <3>7, <3>8, ZenonT(60) DEF CallSteps
  <2> QED
    BY <1>13, <2>1, <2>2, SMTT(40) DEF TypeOK, Kept
<1>14. CASE Kept /\ OtherSteps
  BY <1>5, <1>6, <1>7, <1>8, <1>9, <1>10, <1>11, <1>12, <1>13, <1>14, ZenonT(60) DEF OtherSteps, BusSteps
<1> QED
  BY <1>1, <1>2, <1>3, <1>4, <1>14, NextCases, RunnerTypes, MainTypes, ZenonT(60)
-----------------------------------------------------------------------------
(* The kubelet and its memory. *)

\* What the goroutines and the daemon leave alone.
LEMMA MovesFrame ==
  /\ \A o \in DOMAIN objs, c \in Chain : RunnerMoves(o, c) =>
       UNCHANGED <<up, starts, wanted, pods, gone, db, subs, joined, recorder, daemon, handler, call>>
  /\ \A o \in DOMAIN objs : MainMoves(o) =>
       UNCHANGED <<up, starts, wanted, pods, gone, db, procs, subs, joined, recorder, daemon, handler, call>>
  /\ DaemonMoves =>
       UNCHANGED <<up, starts, wanted, pods, gone, db, procs, subs, joined, bus, recorder, handler, call>>
<1>1. \A o \in DOMAIN objs, c \in Chain : RunnerMoves(o, c) =>
       UNCHANGED <<up, starts, wanted, pods, gone, db, subs, joined, recorder, daemon, handler, call>>
  BY ZenonT(60) DEF RunnerMoves, ByRunner
<1>2. \A o \in DOMAIN objs : MainMoves(o) =>
       UNCHANGED <<up, starts, wanted, pods, gone, db, procs, subs, joined, recorder, daemon, handler, call>>
  <2>1. ASSUME NEW o \in DOMAIN objs, MainMoves(o) PROVE ByMain
    BY <2>1, ZenonT(60) DEF MainMoves
  <2> QED
    BY <2>1, ZenonT(60) DEF ByMain
<1>3. DaemonMoves =>
       UNCHANGED <<up, starts, wanted, pods, gone, db, procs, subs, joined, bus, recorder, handler, call>>
  BY ZenonT(60) DEF DaemonMoves, ByBus
<1> QED
  BY <1>1, <1>2, <1>3, SMTT(40)

\* What a step does to the life of the kubelet.
LEMMA LifeFrame ==
  ASSUME TypeOK, MainInv, EventInv, [Next]_vars
  PROVE  Dies \/ Start \/ UNCHANGED <<up, starts>>
<1>1. CASE OtherSteps
  BY <1>1, ZenonT(60) DEF OtherSteps, Stays, BusSteps, AddSubscribe, AddSubscribeRace, Deliver, RecorderPut,
        HandlerDone, DaemonContinues, ByBus, Users, UserCreates, UserUpdates, UserDeletes, ApiRemoves,
        ByUser, CallSteps, UpdatePodGets, UpdatePodPuts, DeletePodGets, StopTerms, Tick, StopKills,
        DeletePodRemoves, ByCall, ProcessExits
<1> QED
  BY <1>1, NextCases, MovesFrame, ZenonT(60) DEF CreatePod, ByCall

\* A kubelet that is down keeps nothing in memory.
LEMMA DownStep ==
  ASSUME TypeOK, MainInv, EventInv, DownIsEmpty, [Next]_vars
  PROVE  DownIsEmpty'
<1>1. CASE Dies
  BY <1>1, ZenonT(60) DEF Dies, DownIsEmpty
<1>2. CASE Start
  BY <1>2, ZenonT(60) DEF Start, DownIsEmpty
<1>3. CASE up /\ up' = up
  BY <1>3, ZenonT(60) DEF DownIsEmpty
<1>4. CASE ~up /\ up' = up
  <2>1. /\ objs = <<>> /\ call = NoCall /\ subs = <<>> /\ joined = {}
        /\ bus = Nil /\ recorder = Nil /\ daemon = Nil /\ handler = Nil
    BY <1>4, ZenonT(60) DEF DownIsEmpty
  <2>2. DOMAIN objs = {} /\ call.op = "none"
    BY <2>1, NoCallIsCall, SMTT(40)
  <2>3. CASE Kept /\ OtherSteps
    <3>1. objs' = <<>>
      <4>1. objs' \in Seq(Object) /\ Len(objs') = 0
        BY <2>1, <2>3, EmptySeq, ZenonT(60) DEF Kept
      <4> QED
        BY <4>1, SMTT(40)
    <3>2. call' = call /\ subs' = subs /\ joined' = joined
      BY <1>4, <2>1, <2>2, <2>3, ZenonT(60) DEF OtherSteps, Stays, BusSteps, AddSubscribe, AddSubscribeRace,
            Deliver, RecorderPut, HandlerDone, DaemonContinues, ByBus, Users, UserCreates, UserUpdates,
            UserDeletes, ApiRemoves, ByUser, CallSteps, UpdatePodGets, UpdatePodPuts, DeletePodGets,
            StopTerms, Tick, StopKills, DeletePodRemoves, Calls, ProcessExits, events
    <3>3. bus' = bus /\ recorder' = recorder /\ daemon' = daemon /\ handler' = handler
      BY <1>4, <2>1, <2>2, <2>3, ZenonT(60) DEF OtherSteps, Stays, BusSteps, AddSubscribe, AddSubscribeRace,
            Deliver, RecorderPut, HandlerDone, DaemonContinues, ByBus, Users, UserCreates, UserUpdates,
            UserDeletes, ApiRemoves, ByUser, CallSteps, UpdatePodGets, UpdatePodPuts, DeletePodGets,
            StopTerms, Tick, StopKills, DeletePodRemoves, Calls, ProcessExits, ByCall, events
    <3> QED
      BY <2>1, <3>1, <3>2, <3>3, ZenonT(60) DEF DownIsEmpty
  <2> QED
    BY <1>1, <1>2, <1>4, <2>1, <2>2, <2>3, NextCases, ZenonT(60) DEF CreatePod, Calls, DaemonMoves
<1> QED
  BY <1>1, <1>2, <1>3, <1>4, LifeFrame, ZenonT(60)

\* What a step does to the processes.
LEMMA ProcsFrame ==
  ASSUME TypeOK, MainInv, EventInv, RecordInv, CallInv, [Next]_vars
  PROVE  \/ Dies \/ procs' = procs
         \/ objs' = objs /\ \E k \in DOMAIN procs : Ends(k)
         \/ \E o \in DOMAIN objs, c \in Chain, t \in Runner, k \in 0 .. MaxPids : Spawns(o, c, t, k)
<1>1. CASE \E o \in DOMAIN objs, c \in Chain : RunnerMoves(o, c)
  <2>1. PICK o \in DOMAIN objs, c \in Chain, t \in Runner, k \in 0 .. MaxPids : Moves(o, c, t, k)
    BY <1>1, ZenonT(60) DEF RunnerMoves
  <2>2. procs' = procs \/ Spawns(o, c, t, k)
    BY <2>1, ZenonT(60) DEF Moves, Prepares, Abandons, Adopts, Waits, Reaps, Finishes
  <2> QED
    BY <2>2, SMTT(40)
<1>2. CASE StopKills
  <2> DEFINE pid == call.rec.pid[call.c]
  <2>1. CASE alive(pid) /\ procs' = [procs EXCEPT ![pid].alive = FALSE]
    <3>1. pid \in DOMAIN procs
      BY <1>2, <2>1, ZenonT(60) DEF StopKills, CallInv, RecordInv, RecordOK, RecordIn, alive
    <3>2. Ends(pid)
      BY <2>1, <3>1, ProcessEnds, ZenonT(60) DEF alive
    <3> QED
      BY <1>2, <3>1, <3>2, ZenonT(60) DEF StopKills
  <2> QED
    BY <1>2, <2>1, ZenonT(60) DEF StopKills
<1>3. CASE \E pid \in DOMAIN procs : ProcessExits(pid)
  BY <1>3, ProcessEnds, ZenonT(60) DEF ProcessExits
<1>4. CASE OtherSteps
  BY <1>2, <1>3, <1>4, ZenonT(60) DEF OtherSteps, Stays, BusSteps, AddSubscribe, AddSubscribeRace, Deliver,
        RecorderPut, HandlerDone, DaemonContinues, ByBus, Users, UserCreates, UserUpdates, UserDeletes,
        ApiRemoves, ByUser, CallSteps, UpdatePodGets, UpdatePodPuts, DeletePodGets, StopTerms, Tick,
        DeletePodRemoves
<1> QED
  BY <1>1, <1>4, NextCases, MovesFrame, ZenonT(60) DEF Start, CreatePod

\* In the first life every process is a child, and before it there is none.
LEMMA FirstLifeStep ==
  ASSUME TypeOK, MainInv, EventInv, RecordInv, CallInv, DownIsEmpty, FirstLife, [Next]_vars
  PROVE  FirstLife'
<1>1. CASE Dies
  <2>1. procs = <<>> => procs' = <<>>
    <3>1. procs' \in Seq(Process) /\ Len(procs') = Len(procs)
      BY <1>1, Orphans, SMTT(40)
    <3> QED
      BY <3>1, SMTT(40)
  <2> QED
    BY <1>1, <2>1, ZenonT(60) DEF Dies, FirstLife
<1>2. CASE Start
  <2>1. starts' # 0 /\ (starts' = 1 => starts = 0) /\ procs' = procs
    BY <1>2, Numbers, SMTT(40) DEF Start, TypeOK
  <2>2. starts = 0 => DOMAIN procs = {}
    BY SMTT(40) DEF FirstLife
  <2> QED
    BY <2>1, <2>2, ZenonT(60) DEF FirstLife
<1>3. CASE UNCHANGED <<up, starts>>
  <2>1. ASSUME starts = 0 PROVE db' = Nil /\ procs' = <<>>
    <3>1. ~up /\ db = Nil /\ procs = <<>>
      BY <2>1, ZenonT(60) DEF FirstLife
    <3>2. DOMAIN procs = {}
      BY <3>1, SMTT(40)
    <3>3. objs = <<>> /\ recorder = Nil /\ call.op = "none" /\ daemon = Nil
      BY <3>1, NoCallIsCall, ZenonT(60) DEF DownIsEmpty
    <3>4. DOMAIN objs = {}
      BY <3>3, SMTT(40)
    <3>5. procs' = <<>>
      <4>1. CASE Dies
        <5>1. procs' \in Seq(Process) /\ Len(procs') = Len(procs)
          BY <4>1, Orphans
        <5> QED
          BY <5>1, <3>1, SMTT(40)
      <4> QED
        BY <4>1, <3>1, <3>2, <3>4, ProcsFrame, ZenonT(60)
    <3>6. CASE OtherSteps
      BY <3>1, <3>3, <3>5, <3>6, ZenonT(60) DEF OtherSteps, Stays, BusSteps, AddSubscribe, AddSubscribeRace,
            Deliver, RecorderPut, HandlerDone, DaemonContinues, Users, UserCreates, UserUpdates,
            UserDeletes, ApiRemoves, ByUser, CallSteps, UpdatePodGets, UpdatePodPuts, DeletePodGets,
            StopTerms, Tick, StopKills, DeletePodRemoves, ProcessExits
    <3> QED
      BY <3>1, <3>3, <3>4, <3>5, <3>6, NextCases, ZenonT(60) DEF Dies, Start, CreatePod, Calls, DaemonMoves
  <2>2. ASSUME starts = 1, up PROVE \A p \in DOMAIN procs' : procs'[p].child
    <3>1. \A p \in DOMAIN procs : procs[p].child
      BY <2>2, ZenonT(60) DEF FirstLife
    <3>2. ASSUME NEW o \in DOMAIN objs, NEW c \in Chain, NEW t, NEW k, Spawns(o, c, t, k)
          PROVE  \A p \in DOMAIN procs' : procs'[p].child
      <4>1. procs' = Append(procs, [uid |-> Uid(o), c |-> c, alive |-> TRUE, ok |-> FALSE, child |-> TRUE])
        BY <3>2, ZenonT(60) DEF Spawns
      <4>2. procs \in Seq(Process)
        BY ZenonT(60) DEF TypeOK
      <4> QED
        BY <3>1, <4>1, <4>2, SMTT(40)
    <3>3. CASE Dies
      BY <1>3, <2>2, <3>3, SMTT(40) DEF Dies
    <3>4. CASE \E k \in DOMAIN procs : Ends(k)
      BY <3>1, <3>4, ZenonT(60) DEF Ends
    <3> QED
      BY <3>1, <3>2, <3>3, <3>4, ProcsFrame, ZenonT(60)
  <2> QED
    BY <1>3, <2>1, <2>2, ZenonT(60) DEF FirstLife
<1> QED
  BY <1>1, <1>2, <1>3, LifeFrame, SMTT(40)
-----------------------------------------------------------------------------
(* The bus. *)

\* What the steps that keep the objects do to the bus, its subscribers and the
\* records.
LEMMA OtherFrame ==
  ASSUME OtherSteps
  PROVE  /\ bus' = bus \/ Deliver
         /\ daemon' = daemon \/ daemon' = Nil \/ Deliver
         /\ handler' = handler \/ handler' = Nil \/ Deliver
         /\ UNCHANGED <<subs, joined>> \/ \E s \in Subscribers :
              s \notin joined /\ subs' = Append(subs, s) /\ joined \cup {s} \subseteq joined'
         /\ recorder' = recorder \/ recorder' = Nil \/ Deliver
         /\ db' = db \/ RecorderPut \/ UpdatePodPuts \/ DeletePodRemoves
         /\ call' = call \/ CallSteps
         /\ UNCHANGED <<wanted, pods>> \/ Users
<1> USE DEF OtherSteps, Stays, BusSteps, AddSubscribe, AddSubscribeRace, Deliver, RecorderPut,
        HandlerDone, DaemonContinues, ByBus, Users, UserCreates, UserUpdates, UserDeletes, ApiRemoves,
        ByUser, CallSteps, UpdatePodGets, UpdatePodPuts, DeletePodGets, StopTerms, Tick, StopKills,
        DeletePodRemoves, ByCall, ProcessExits, events
<1>1. bus' = bus \/ Deliver
  BY ZenonT(60)
<1>2. daemon' = daemon \/ daemon' = Nil \/ Deliver
  BY ZenonT(60)
<1>3. handler' = handler \/ handler' = Nil \/ Deliver
  BY ZenonT(60)
<1>4. UNCHANGED <<subs, joined>> \/ \E s \in Subscribers :
              s \notin joined /\ subs' = Append(subs, s) /\ joined \cup {s} \subseteq joined'
  <2>1. ASSUME NEW s \in Subscribers, AddSubscribe(s)
        PROVE  s \notin joined /\ subs' = Append(subs, s) /\ joined \cup {s} \subseteq joined'
    BY <2>1, ZenonT(60)
  <2>2. ASSUME NEW s \in Subscribers, NEW t \in Subscribers, AddSubscribeRace(s, t)
        PROVE  s \notin joined /\ subs' = Append(subs, s) /\ joined \cup {s} \subseteq joined'
    BY <2>2, ZenonT(60)
  <2>3. CASE \/ \E s \in Subscribers : AddSubscribe(s)
             \/ \E s, t \in Subscribers : AddSubscribeRace(s, t)
    BY <2>1, <2>2, <2>3, ZenonT(60)
  <2>4. CASE ~ \/ \E s \in Subscribers : AddSubscribe(s)
               \/ \E s, t \in Subscribers : AddSubscribeRace(s, t)
    BY <2>4, ZenonT(60)
  <2> QED
    BY <2>3, <2>4, ZenonT(60)
<1>5. recorder' = recorder \/ recorder' = Nil \/ Deliver
  BY ZenonT(60)
<1>6. db' = db \/ RecorderPut \/ UpdatePodPuts \/ DeletePodRemoves
  BY ZenonT(60)
<1>7. call' = call \/ CallSteps
  BY ZenonT(60)
<1>8. UNCHANGED <<wanted, pods>> \/ Users
  BY ZenonT(60)
<1> QED
  BY ONLY <1>1, <1>2, <1>3, <1>4, <1>5, <1>6, <1>7, <1>8, ZenonT(60)

\* What a step does to the set of objects.
LEMMA DomainFrame ==
  ASSUME TypeOK, MainInv, EventInv, [Next]_vars
  PROVE  Dies \/ Start \/ DOMAIN objs \subseteq DOMAIN objs'
<1>1. CASE CreatePod
  BY <1>1, CreatePodCreates, ZenonT(60) DEF Created
<1>2. CASE DaemonMoves
  BY <1>2, ZenonT(60) DEF DaemonMoves, Changes
<1>3. ASSUME NEW o \in DOMAIN objs, NEW c \in Chain, RunnerMoves(o, c)
      PROVE  DOMAIN objs \subseteq DOMAIN objs'
  BY <1>3, ZenonT(60) DEF RunnerMoves, Changes
<1>4. ASSUME NEW o \in DOMAIN objs, MainMoves(o)
      PROVE  DOMAIN objs \subseteq DOMAIN objs'
  BY <1>4, ZenonT(60) DEF MainMoves, Changes
<1>5. CASE Kept
  BY <1>5, ZenonT(60) DEF Kept
<1> QED
  BY <1>1, <1>2, <1>3, <1>4, <1>5, NextCases, ZenonT(60)

\* What a step does to the event being dispatched.
LEMMA BusFrame ==
  ASSUME TypeOK, MainInv, EventInv, [Next]_vars
  PROVE  \/ bus' = bus \/ bus' = Nil \/ Deliver
         \/ \E kind \in {"start", "run", "finish", "other"}, o \in DOMAIN objs, c \in Chain, ok \in BOOLEAN :
              Sent(kind, o, c, ok)
<1>1. CASE \E o \in DOMAIN objs, c \in Chain : RunnerMoves(o, c)
  <2>1. PICK o \in DOMAIN objs, c \in Chain, t \in Runner, k \in 0 .. MaxPids : Moves(o, c, t, k)
    BY <1>1, ZenonT(60) DEF RunnerMoves
  <2>2. objs[o].run[c].ok \in BOOLEAN
    BY Objects, SMTT(40) DEF Runner
  <2>3. bus' = bus \/ \E kind \in {"start", "run", "finish", "other"}, ok \in BOOLEAN : Send(kind, o, c, ok)
    BY <2>1, <2>2, ZenonT(60) DEF Moves, Prepares, Abandons, Adopts, Spawns, Waits, Reaps, Finishes, Tell
  <2> QED
    BY <2>3, SendSent, ZenonT(60)
<1>2. CASE \E o \in DOMAIN objs : MainMoves(o)
  <2>1. PICK o \in DOMAIN objs : MainMoves(o)
    BY <1>2, SMTT(40)
  <2>2. bus' = bus \/ Tell(o, 1)
    <3>1. PICK m, i, c, t : \/ Looks(o, m, i, c, t) \/ Announces(o, m, i, c, t)
                            \/ Launches(o, m, i, c, t) \/ Advances(o, m, i, c, t)
                            \/ Retries(o, m, i, c, t)
      BY <2>1, ZenonT(60) DEF MainMoves
    <3> QED
      BY <3>1, ZenonT(60) DEF Looks, Announces, Launches, Advances, Retries
  <2>3. 1 \in Chain
    BY Objects
  <2>4. CASE Tell(o, 1)
    BY <2>3, <2>4, TellSent, ZenonT(60)
  <2> QED
    BY <2>2, <2>4, SMTT(40)
<1> QED
  BY <1>1, <1>2, NextCases, MovesFrame, OtherFrame, ZenonT(60) DEF Dies, Start, CreatePod, ByCall, events

\* Events stay events of objects.
LEMMA EventStep ==
  ASSUME TypeOK, MainInv, DownIsEmpty, EventInv, [Next]_vars
  PROVE  EventInv'
<1>1. CASE Dies
  BY <1>1, ZenonT(60) DEF Dies, EventInv
<1>2. CASE Start
  BY <1>2, ZenonT(60) DEF Start, events, DownIsEmpty, EventInv
<1>3. CASE DOMAIN objs \subseteq DOMAIN objs'
  <2>1. bus' # Nil => bus'.ev.o \in DOMAIN objs
    <3>1. CASE Deliver
      BY <3>1, DeliverBus, ZenonT(60) DEF EventInv
    <3> QED
      BY <3>1, BusFrame, ZenonT(60) DEF EventInv, Sent
  <2>2. daemon' # Nil => daemon'.o \in DOMAIN objs /\ daemon'.kind = "finish"
    <3>1. CASE Deliver
      BY <3>1, DeliverBus, DeliverTypes, ZenonT(60) DEF EventInv
    <3>2. CASE daemon' = daemon \/ daemon' = Nil
      BY <3>2, ZenonT(60) DEF EventInv
    <3> QED
      BY <3>1, <3>2, <1>1, <1>2, NextCases, MovesFrame, OtherFrame, ZenonT(60) DEF Dies, Start, CreatePod,
            ByCall, events, DaemonMoves
  <2>3. handler' # Nil => handler'.o \in DOMAIN objs
    <3>1. CASE Deliver
      BY <3>1, DeliverBus, DeliverTypes, ZenonT(60) DEF EventInv
    <3>2. CASE handler' = handler \/ handler' = Nil
      BY <3>2, ZenonT(60) DEF EventInv
    <3> QED
      BY <3>1, <3>2, <1>1, <1>2, NextCases, MovesFrame, OtherFrame, ZenonT(60) DEF Dies, Start, CreatePod,
            ByCall, events
  <2> QED
    BY <1>3, <2>1, <2>2, <2>3, ZenonT(60) DEF EventInv
<1> QED
  BY <1>1, <1>2, <1>3, DomainFrame

\* A subscriber that is new leaves the slice free of duplicates.
LEMMA DistinctAppend ==
  ASSUME NEW S, NEW s \in Seq(S), NEW x \in S, Distinct(s), \A i \in DOMAIN s : s[i] # x
  PROVE  Distinct(Append(s, x))
<1> DEFINE t == Append(s, x)
<1>1. /\ Len(s) \in Nat /\ DOMAIN s = 1 .. Len(s) /\ DOMAIN t = 1 .. Len(s) + 1
      /\ \A i \in 1 .. Len(s) : t[i] = s[i]
      /\ t[Len(s) + 1] = x
  BY AppendProperties, LenProperties, SMTT(40)
<1> HIDE DEF t
<1>2. ASSUME NEW i \in DOMAIN t, NEW j \in DOMAIN t, t[i] = t[j] PROVE i = j
  BY <1>1, <1>2, SMTT(40) DEF Distinct
<1> QED
  BY <1>2, ZenonT(60) DEF Distinct, t

\* So does a delivery.
LEMMA DistinctTail ==
  ASSUME NEW S, NEW s \in Seq(S), s # <<>>, Distinct(s)
  PROVE  /\ Distinct(Tail(s)) /\ \A i \in DOMAIN Tail(s) : Tail(s)[i] # Head(s)
         /\ \A i \in DOMAIN Tail(s) : \E j \in DOMAIN s : s[j] = Tail(s)[i]
<1> DEFINE t == Tail(s)
<1>1. /\ Len(s) \in Nat \ {0} /\ DOMAIN s = 1 .. Len(s) /\ DOMAIN t = 1 .. Len(s) - 1
      /\ \A i \in 1 .. Len(s) - 1 : t[i] = s[i + 1]
  BY HeadTailProperties, LenProperties, EmptySeq, SMTT(40)
<1>2. Head(s) = s[1]
  BY ONLY s \in Seq(S), s # <<>>, SMTT(40)
<1> HIDE DEF t
<1>3. ASSUME NEW i \in DOMAIN t, NEW j \in DOMAIN t, t[i] = t[j] PROVE i = j
  <2>1. i \in Int /\ j \in Int /\ i + 1 \in DOMAIN s /\ j + 1 \in DOMAIN s
    BY <1>1, <1>3, SMTT(40)
  <2>2. s[i + 1] = s[j + 1]
    BY <1>1, <1>3, ZenonT(60)
  <2>3. i + 1 = j + 1
    BY <2>1, <2>2, ZenonT(60) DEF Distinct
  <2> QED
    BY ONLY <2>1, <2>3, SMTT(40)
<1>4. ASSUME NEW i \in DOMAIN t
      PROVE  i + 1 \in DOMAIN s /\ 1 \in DOMAIN s /\ t[i] = s[i + 1] /\ t[i] # s[1]
  BY <1>1, <1>4, SMTT(40) DEF Distinct
<1> QED
  BY <1>2, <1>3, <1>4, ZenonT(60) DEF Distinct, t

\* What a step does to the subscribers.
LEMMA SubsFrame ==
  ASSUME TypeOK, MainInv, EventInv, [Next]_vars
  PROVE  Dies \/ UNCHANGED <<subs, joined>> \/ \E s \in Subscribers :
           s \notin joined /\ subs' = Append(subs, s) /\ joined \cup {s} \subseteq joined'
<1>1. CASE OtherSteps
  BY <1>1, OtherFrame, SMTT(40)
<1>2. CASE Start \/ CreatePod
  BY <1>2, ZenonT(60) DEF Start, CreatePod, ByCall, events
<1> QED
  BY <1>1, <1>2, NextCases, MovesFrame, ZenonT(60)

\* A subscriber is in the slice once, and gets an event once.
LEMMA BusStep ==
  ASSUME TypeOK, MainInv, EventInv, BusInv, [Next]_vars
  PROVE  BusInv'
<1>1. Distinct(subs') /\ \A i \in DOMAIN subs' : subs'[i] \in joined'
  <2>1. CASE Dies
    <3>1. DOMAIN subs' = {}
      BY <2>1, SMTT(40) DEF Dies
    <3> QED
      BY <3>1, ZenonT(60) DEF Distinct
  <2>2. CASE UNCHANGED <<subs, joined>>
    BY <2>2, ZenonT(60) DEF BusInv
  <2>3. ASSUME NEW s \in Subscribers, s \notin joined, subs' = Append(subs, s),
               joined \cup {s} \subseteq joined'
        PROVE  Distinct(subs') /\ \A i \in DOMAIN subs' : subs'[i] \in joined'
    <3>1. subs \in Seq(Subscribers)
      BY ZenonT(60) DEF TypeOK
    <3>2. Distinct(subs')
      BY <2>3, <3>1, DistinctAppend, ZenonT(60) DEF BusInv
    <3>3. \A i \in DOMAIN subs' : subs'[i] = s \/ \E j \in DOMAIN subs : subs'[i] = subs[j]
      BY <2>3, <3>1, SMTT(40)
    <3> QED
      BY <2>3, <3>2, <3>3, ZenonT(60) DEF BusInv
  <2> QED
    BY <2>1, <2>2, <2>3, SubsFrame, SMTT(40)
<1>2. bus' # Nil => Distinct(bus'.left)
  <2>1. CASE Deliver
    BY <2>1, DeliverBus, DistinctTail, ZenonT(60) DEF BusInv
  <2> QED
    BY <2>1, BusFrame, ZenonT(60) DEF Sent, BusInv
<1> QED
  BY <1>1, <1>2, ZenonT(60) DEF BusInv
-----------------------------------------------------------------------------
(* PodProcess.run and the goroutines of the containers. *)

\* What a step does to the objects, in terms of Changes.
RunnerStep(o, c, t, k) ==
  /\ Changes(objs, objs', o, objs[o].main, objs[o].rec.idx, c, t, k)
  /\ Moves(o, c, t, k) /\ ByRunner
MainStep(o, m, i, c, t) ==
  /\ Changes(objs, objs', o, m, i, c, t, objs[o].rec.pid[c])
  /\ \/ Looks(o, m, i, c, t) \/ Announces(o, m, i, c, t) \/ Launches(o, m, i, c, t)
     \/ Advances(o, m, i, c, t) \/ Retries(o, m, i, c, t)
  /\ ByMain
DaemonStep(o, c, t) ==
  /\ daemon # Nil /\ daemon.o = o /\ daemon.c = c /\ Restarts(daemon) /\ t.at = "begin"
  /\ Changes(objs, objs', o, objs[o].main, objs[o].rec.idx, c, t, objs[o].rec.pid[c])
  /\ daemon' = Nil
  /\ ByBus /\ UNCHANGED <<db, subs, joined, bus, recorder, handler>>

\* Every step is of one of seven kinds.
LEMMA Cases ==
  ASSUME TypeOK, MainInv, EventInv, [Next]_vars
  PROVE  \/ Dies \/ Loaded \/ Created \/ (Kept /\ OtherSteps)
         \/ \E o \in DOMAIN objs, c \in Chain, t \in Runner, k \in 0 .. MaxPids : RunnerStep(o, c, t, k)
         \/ \E o \in DOMAIN objs, c \in Chain, t \in Runner, i \in 0 .. Last,
               m \in {"off", "loop", "announce", "launch", "sync", "next"} : MainStep(o, m, i, c, t)
         \/ \E o \in DOMAIN objs, c \in Chain, t \in Runner : DaemonStep(o, c, t)
<1>1. CASE \E o \in DOMAIN objs, c \in Chain : RunnerMoves(o, c)
  BY <1>1, ZenonT(60) DEF RunnerMoves, RunnerStep
<1>2. CASE \E o \in DOMAIN objs : MainMoves(o)
  <2>1. PICK o \in DOMAIN objs : MainMoves(o)
    BY <1>2
  <2>2. PICK m \in {"off", "loop", "announce", "launch", "sync", "next"}, i \in 0 .. Last,
             c \in Chain, t \in Runner : MainStep(o, m, i, c, t)
    BY <2>1, ZenonT(60) DEF MainMoves, MainStep
  <2> QED
    BY <2>2, SMTT(40)
<1>3. CASE DaemonMoves
  <2>1. daemon.o \in DOMAIN objs /\ daemon.c \in Chain
    BY <1>3, EventFields, ZenonT(60) DEF DaemonMoves, EventInv, TypeOK
  <2> QED
    BY <1>3, <2>1, ZenonT(60) DEF DaemonMoves, DaemonStep
<1> QED
  BY <1>1, <1>2, <1>3, NextCases, StartLoads, CreatePodCreates, ZenonT(60)

\* Where PodProcess.run is.
LEMMA MainInvStep ==
  ASSUME TypeOK, EventInv, MainInv, [Next]_vars
  PROVE  MainInv'
<1>1. CASE Dies
  <2>1. DOMAIN objs' = {}
    BY <1>1, SMTT(40) DEF Dies
  <2> QED
    BY <2>1, ZenonT(60) DEF MainInv
<1>2. CASE Loaded
  BY <1>2, Zenon DEF Loaded, MainInv
<1>3. CASE Created
  BY <1>3, Zenon DEF Created, MainInv
<1>4. CASE Kept
  BY <1>4, ZenonT(60) DEF Kept, MainInv
<1>5. ASSUME NEW o \in DOMAIN objs, NEW c \in Chain, NEW t, NEW k,
             Changes(objs, objs', o, objs[o].main, objs[o].rec.idx, c, t, k)
      PROVE  MainInv'
  BY <1>5, SMTT(40) DEF Changes, MainInv
<1>6. ASSUME NEW o \in DOMAIN objs, NEW c \in Chain, NEW t, NEW i, NEW m, MainStep(o, m, i, c, t)
      PROVE  MainInv'
  <2>1. /\ m \in {"announce", "launch", "sync", "next"} => i < Last
        /\ m = "sync" => Sync(i + 1)
        /\ m = "next" => ~Sync(i + 1)
    BY <1>6, SMTT(40) DEF MainStep, MainInv, Looks, Announces, Launches, Advances, Retries
  <2>2. DOMAIN objs' = DOMAIN objs /\ \A p \in DOMAIN objs :
          /\ objs'[p].main = IF p = o THEN m ELSE objs[p].main
          /\ objs'[p].rec.idx = IF p = o THEN i ELSE objs[p].rec.idx
    BY <1>6, ZenonT(60) DEF MainStep, Changes
  <2> QED
    BY <2>1, <2>2, ZenonT(60) DEF MainInv
<1> QED
  BY <1>1, <1>2, <1>3, <1>4, <1>5, <1>6, Cases, ZenonT(60) DEF RunnerStep, DaemonStep

\* The steps of one goroutine leave Launched as it is.
LEMMA SameLaunched ==
  ASSUME NEW o \in DOMAIN objs, NEW c \in Chain, NEW t, NEW k,
         Changes(objs, objs', o, objs[o].main, objs[o].rec.idx, c, t, k),
         NEW p \in DOMAIN objs, NEW d \in Chain
  PROVE  /\ Launched(p, d)' <=> Launched(p, d)
         /\ Where(p, d)' = IF p = o /\ d = c THEN t.at ELSE Where(p, d)
<1>1. objs'[p].main = objs[p].main /\ objs'[p].rec.idx = objs[p].rec.idx
  BY SMTT(40) DEF Changes
<1>2. objs'[p].run[d] = IF p = o /\ d = c THEN t ELSE objs[p].run[d]
  BY ZenonT(60) DEF Changes
<1> QED
  BY <1>1, <1>2, ZenonT(60) DEF Launched, Where

\* So do the steps that keep the objects.
LEMMA KeptLaunched ==
  ASSUME Kept, NEW p \in DOMAIN objs, NEW d \in Chain
  PROVE  (Launched(p, d)' <=> Launched(p, d)) /\ Where(p, d)' = Where(p, d)
<1>1. objs'[p].main = objs[p].main /\ objs'[p].rec.idx = objs[p].rec.idx
      /\ objs'[p].run[d] = objs[p].run[d]
  BY ZenonT(60) DEF Kept
<1> QED
  BY <1>1, ZenonT(60) DEF Launched, Where

\* PodProcess.run launches one container at a time, and waits for those it has
\* to wait for.
LEMMA MainLaunched ==
  ASSUME TypeOK, MainInv, LaunchInv, NEW o \in DOMAIN objs, NEW c \in Chain, NEW t, NEW i, NEW m,
         MainStep(o, m, i, c, t), NEW p \in DOMAIN objs, NEW d \in Chain
  PROVE  /\ Where(p, d) # "off" => Launched(p, d)'
         /\ ~Sync(d) /\ Launched(p, d) => Launched(p, d)'
         /\ Where(p, d)' # Where(p, d) => /\ p = o /\ d = c /\ Launches(o, m, i, c, t)
                                      /\ Launched(p, d)' /\ ~Launched(p, d)
<1>1. /\ objs'[p].main = IF p = o THEN m ELSE objs[p].main
      /\ objs'[p].rec.idx = IF p = o THEN i ELSE objs[p].rec.idx
      /\ objs'[p].run[d] = IF p = o /\ d = c THEN t ELSE objs[p].run[d]
  BY ZenonT(60) DEF MainStep, Changes
<1>2. CASE p # o
  BY <1>1, <1>2, ZenonT(60) DEF Launched, Where, LaunchInv
<1>3. CASE p = o
  <2>0. objs[o].rec.idx \in Nat /\ d \in Nat /\ Inits \in Nat /\ (Where(o, d) # "off" => Launched(o, d))
    BY Objects, Numbers, ZenonT(60) DEF LaunchInv
  <2>a. Launched(o, d) <=> IF Sync(d) THEN objs[o].main = "sync" /\ d = objs[o].rec.idx + 1
                           ELSE \/ d <= objs[o].rec.idx
                                \/ objs[o].main = "next" /\ d = objs[o].rec.idx + 1
    BY ZenonT(60) DEF Launched
  <2>b. Launched(o, d)' <=> IF Sync(d) THEN m = "sync" /\ d = i + 1
                            ELSE d <= i \/ (m = "next" /\ d = i + 1)
    BY <1>1, <1>3, ZenonT(60) DEF Launched, Sync
  <2>c. /\ Where(o, d) = objs[o].run[d].at
        /\ Where(o, d)' = IF d = c THEN t.at ELSE objs[o].run[d].at
    BY <1>1, <1>3, ZenonT(60) DEF Where
  <2>d. /\ objs[o].main = "sync" => Sync(objs[o].rec.idx + 1)
        /\ objs[o].main = "next" => ~Sync(objs[o].rec.idx + 1)
    BY ZenonT(60) DEF MainInv
  <2>1. CASE Looks(o, m, i, c, t) \/ Announces(o, m, i, c, t)
    BY ONLY <1>3, <2>0, <2>1, <2>a, <2>b, <2>c, ZenonT(60) DEF Looks, Announces
  <2>2. CASE Launches(o, m, i, c, t)
    <3>1. /\ objs[o].main = "launch" /\ i = objs[o].rec.idx /\ c = i + 1 /\ t.at = "begin"
          /\ m = IF Sync(c) THEN "sync" ELSE "next"
      BY ONLY <2>2, ZenonT(60) DEF Launches
    <3>2. ~(i + 1 <= i)
      BY ONLY <2>0, <3>1, SMTT(40)
    <3>3. ~Sync(d) /\ Launched(o, d) => Launched(o, d)'
      BY ONLY <2>a, <2>b, <3>1, ZenonT(60)
    <3>4. d = c => ~Launched(o, d) /\ Launched(o, d)'
      BY ONLY <2>a, <2>b, <3>1, <3>2, ZenonT(60)
    <3>5. Where(o, d) # "off" => Launched(o, d)'
      BY ONLY <2>0, <2>a, <3>1, <3>3, ZenonT(60)
    <3>6. d # c => Where(o, d)' = Where(o, d)
      BY ONLY <2>c, ZenonT(60)
    <3> QED
      BY ONLY <1>3, <2>2, <3>3, <3>4, <3>5, <3>6, ZenonT(60)
  <2>3. CASE Advances(o, m, i, c, t)
    <3>1. /\ c = objs[o].rec.idx + 1 /\ t = objs[o].run[c] /\ m = "loop" /\ i = c
          /\ objs[o].main = "next" \/ (objs[o].main = "sync" /\ t.at = "off")
      BY ONLY <2>3, ZenonT(60) DEF Advances
    <3>2. Where(o, d)' = Where(o, d)
      BY ONLY <2>c, <3>1, ZenonT(60)
    <3>3. ~Sync(d) /\ Launched(o, d) => Launched(o, d)'
      <4>1. d <= objs[o].rec.idx \/ d = objs[o].rec.idx + 1 => d <= objs[o].rec.idx + 1
        BY ONLY <2>0, SMTT(40)
      <4> QED
        BY ONLY <2>a, <2>b, <3>1, <4>1, ZenonT(60)
    <3>4. Where(o, d) # "off" => ~Sync(d)
      BY ONLY <2>0, <2>a, <2>c, <2>d, <3>1, ZenonT(60) DEF Sync
    <3> QED
      BY ONLY <1>3, <2>0, <3>2, <3>3, <3>4, ZenonT(60)
  <2>4. CASE Retries(o, m, i, c, t)
    <3>1. /\ c = objs[o].rec.idx + 1 /\ t = objs[o].run[c] /\ m = "loop" /\ i = objs[o].rec.idx
          /\ objs[o].main = "sync" /\ t.at = "off"
      BY ONLY <2>4, ZenonT(60) DEF Retries
    <3>2. Where(o, d)' = Where(o, d)
      BY ONLY <2>c, <3>1, ZenonT(60)
    <3>3. ~Sync(d) /\ Launched(o, d) => Launched(o, d)'
      BY ONLY <2>0, <2>a, <2>b, <3>1, ZenonT(60)
    <3>4. Where(o, d) # "off" => ~Sync(d)
      BY ONLY <2>0, <2>a, <2>c, <2>d, <3>1, ZenonT(60) DEF Sync
    <3> QED
      BY ONLY <1>3, <2>0, <3>2, <3>3, <3>4, ZenonT(60)
  <2> QED
    BY <2>1, <2>2, <2>3, <2>4, ZenonT(60) DEF MainStep
<1> QED
  BY <1>2, <1>3, SMTT(40)

\* A goroutine that works starts from somewhere.
LEMMA MovesFrom ==
  ASSUME NEW o, NEW c, NEW t, NEW k, Moves(o, c, t, k)
  PROVE  Where(o, c) # "off"
  BY ZenonT(60) DEF Moves, Prepares, Abandons, Adopts, Spawns, Waits, Reaps, Finishes, Early

\* Goroutines of containers that were launched.
LEMMA LaunchStep ==
  ASSUME TypeOK, EventInv, MainInv, LaunchInv, TokenInv, [Next]_vars
  PROVE  LaunchInv'
<1>1. CASE Dies
  <2>1. DOMAIN objs' = {}
    BY <1>1, SMTT(40) DEF Dies
  <2> QED
    BY <2>1, ZenonT(60) DEF LaunchInv
<1>2. CASE Loaded
  <2>1. ASSUME NEW p \in DOMAIN objs', NEW d \in Chain PROVE objs'[p].run[d].at = "off"
    <3>1. objs'[p].run[d] = Off
      BY <1>2, <2>1, ZenonT(60) DEF Loaded
    <3> QED
      BY <3>1, Offs, ZenonT(60)
  <2> QED
    BY <2>1, ZenonT(60) DEF LaunchInv, Where
<1>3. CASE Created
  <2>1. ASSUME NEW p \in DOMAIN objs', NEW d \in Chain, objs'[p].run[d].at # "off"
        PROVE  p \in DOMAIN objs /\ objs'[p] = objs[p]
    <3>1. p \in DOMAIN objs \/ objs'[p].run[d] = Off
      BY <1>3, <2>1, ZenonT(60) DEF Created
    <3> QED
      BY <1>3, <2>1, <3>1, Offs, ZenonT(60) DEF Created
  <2> QED
    BY <2>1, ZenonT(60) DEF LaunchInv, Where, Launched
<1>4. CASE Kept
  <2>1. DOMAIN objs' = DOMAIN objs
    BY <1>4, ZenonT(60) DEF Kept
  <2> QED
    BY <1>4, <2>1, KeptLaunched, ZenonT(60) DEF LaunchInv
<1>5. ASSUME NEW o \in DOMAIN objs, NEW c \in Chain, NEW t, NEW k,
             Changes(objs, objs', o, objs[o].main, objs[o].rec.idx, c, t, k), Launched(o, c)
      PROVE  LaunchInv'
  <2>1. DOMAIN objs' = DOMAIN objs
    BY <1>5, ZenonT(60) DEF Changes
  <2>2. ASSUME NEW p \in DOMAIN objs, NEW d \in Chain, Where(p, d)' # "off" PROVE Launched(p, d)'
    <3>1. (p = o /\ d = c) \/ Where(p, d)' = Where(p, d)
      BY <1>5, SameLaunched, ZenonT(60)
    <3>2. Launched(p, d)
      BY <1>5, <2>2, <3>1, ZenonT(60) DEF LaunchInv
    <3> QED
      BY <1>5, <3>2, SameLaunched, ZenonT(60)
  <2> QED
    BY <2>1, <2>2, ZenonT(60) DEF LaunchInv
<1>6. ASSUME NEW o \in DOMAIN objs, NEW c \in Chain, NEW t, NEW i, NEW m, MainStep(o, m, i, c, t)
      PROVE  LaunchInv'
  <2>1. DOMAIN objs' = DOMAIN objs
    BY <1>6, ZenonT(60) DEF MainStep, Changes
  <2>2. ASSUME NEW p \in DOMAIN objs, NEW d \in Chain, Where(p, d)' # "off" PROVE Launched(p, d)'
    BY <1>6, <2>2, MainLaunched, ZenonT(60)
  <2> QED
    BY <2>1, <2>2, ZenonT(60) DEF LaunchInv
<1>7. ASSUME NEW o \in DOMAIN objs, NEW c \in Chain, NEW t, NEW k, RunnerStep(o, c, t, k)
      PROVE  LaunchInv'
  BY <1>5, <1>7, MovesFrom, ZenonT(60) DEF RunnerStep, LaunchInv
<1>8. ASSUME NEW o \in DOMAIN objs, NEW c \in Chain, NEW t, DaemonStep(o, c, t)
      PROVE  LaunchInv'
  BY <1>5, <1>8, ZenonT(60) DEF DaemonStep, Restarts, TokenInv, Held
<1> QED
  BY <1>1, <1>2, <1>3, <1>4, <1>6, <1>7, <1>8, Cases, ZenonT(60)

\* A container that runs has no finish event.
LEMMA TokenStep ==
  ASSUME TypeOK, DownIsEmpty, EventInv, BusInv, MainInv, LaunchInv, TokenInv, [Next]_vars
  PROVE  TokenInv'
<1> SUFFICES ASSUME NEW p \in DOMAIN objs', NEW d \in Chain, ~Sync(d)
             PROVE  /\ Queued(p, d)' \/ Held(p, d)' => Where(p, d)' = "off" /\ Launched(p, d)'
                    /\ ~(Queued(p, d)' /\ Held(p, d)')
  BY ZenonT(60) DEF TokenInv
<1>1. CASE Dies
  BY <1>1, ZenonT(60) DEF Dies, Queued, Held
<1>2. CASE Loaded
  BY <1>2, ZenonT(60) DEF Loaded, DownIsEmpty, Queued, Held
<1>3. CASE Created
  <2>1. (Queued(p, d)' <=> Queued(p, d)) /\ (Held(p, d)' <=> Held(p, d))
    BY <1>3, ZenonT(60) DEF Created, Queued, Held
  <2>2. CASE p \in DOMAIN objs
    <3>1. objs'[p] = objs[p]
      BY <1>3, <2>2, ZenonT(60) DEF Created
    <3> QED
      BY <2>1, <2>2, <3>1, ZenonT(60) DEF TokenInv, Where, Launched
  <2>3. CASE p \notin DOMAIN objs
    BY <2>1, <2>3, ZenonT(60) DEF EventInv, Queued, Held
  <2> QED
    BY <2>2, <2>3, SMTT(40)
<1>4. CASE Kept /\ OtherSteps
  <2>1. p \in DOMAIN objs /\ (Launched(p, d)' <=> Launched(p, d)) /\ Where(p, d)' = Where(p, d)
    BY <1>4, KeptLaunched, ZenonT(60) DEF Kept
  <2>2. CASE Deliver
    <3>1. /\ Queued(p, d)' => Queued(p, d)
          /\ \A i \in DOMAIN Tail(bus.left) : Tail(bus.left)[i] # Head(bus.left)
      <4>1. /\ \A i \in DOMAIN Tail(bus.left) : Tail(bus.left)[i] # Head(bus.left)
            /\ \A i \in DOMAIN Tail(bus.left) : \E j \in DOMAIN bus.left : bus.left[j] = Tail(bus.left)[i]
        BY <2>2, DeliverBus, DistinctTail, ZenonT(60) DEF BusInv
      <4>2. bus # Nil /\ (bus' # Nil => bus'.ev = bus.ev /\ bus'.left = Tail(bus.left))
        BY <2>2, DeliverBus, SMTT(40)
      <4> QED
        BY <4>1, <4>2, ZenonT(60) DEF Queued
    <3>2. Held(p, d)' => Held(p, d) \/ (Queued(p, d) /\ Head(bus.left) = "daemon")
      <4>1. CASE daemon' = daemon \/ daemon' = Nil
        BY <4>1, ZenonT(60) DEF Held
      <4>2. CASE daemon' # daemon /\ daemon' # Nil
        <5>1. daemon' = bus.ev /\ bus.ev.kind = "finish" /\ Head(bus.left) = "daemon"
          BY <2>2, <4>2, DeliverTypes, ZenonT(60)
        <5>2. 1 \in DOMAIN bus.left /\ bus.left[1] = Head(bus.left)
          <6>1. bus.left \in Seq(Subscribers) /\ bus.left # <<>>
            BY <2>2, DeliverBus, SMTT(40)
          <6> QED
            BY ONLY <6>1, SMTT(40)
        <5> QED
          BY <2>2, <5>1, <5>2, DeliverBus, ZenonT(60) DEF Held, Queued
      <4> QED
        BY <4>1, <4>2, SMTT(40)
    <3>3. ~(Queued(p, d)' /\ Held(p, d)')
      <4>1. ASSUME Queued(p, d)', Held(p, d)' PROVE FALSE
        <5>1. Head(bus.left) = "daemon"
          BY <2>1, <3>1, <3>2, <4>1, ZenonT(60) DEF TokenInv
        <5>2. bus' # Nil /\ \E i \in DOMAIN bus'.left : bus'.left[i] = "daemon"
          BY <4>1, ZenonT(60) DEF Queued
        <5>3. bus'.left = Tail(bus.left)
          BY <2>2, <5>2, DeliverBus, SMTT(40)
        <5> QED
          BY <3>1, <4>1, <5>1, <5>2, <5>3, ZenonT(60)
      <4> QED
        BY <4>1, SMTT(40)
    <3> QED
      BY <2>1, <3>1, <3>2, <3>3, ZenonT(60) DEF TokenInv
  <2>3. CASE bus' = bus /\ (daemon' = daemon \/ daemon' = Nil)
    BY <2>1, <2>3, ZenonT(60) DEF TokenInv, Queued, Held
  <2> QED
    BY <1>4, <2>2, <2>3, OtherFrame, ZenonT(60)
<1>5. ASSUME NEW o \in DOMAIN objs, NEW c \in Chain, NEW t, NEW k, RunnerStep(o, c, t, k)
      PROVE  /\ Queued(p, d)' \/ Held(p, d)' => Where(p, d)' = "off" /\ Launched(p, d)'
             /\ ~(Queued(p, d)' /\ Held(p, d)')
  <2>1. /\ p \in DOMAIN objs /\ (Launched(p, d)' <=> Launched(p, d))
        /\ Where(p, d)' = IF p = o /\ d = c THEN t.at ELSE Where(p, d)
    <3>1. p \in DOMAIN objs /\ Changes(objs, objs', o, objs[o].main, objs[o].rec.idx, c, t, k)
      BY <1>5, ZenonT(60) DEF RunnerStep, Changes
    <3> QED
      BY <3>1, SameLaunched, ZenonT(60)
  <2>2. Where(o, c) # "off"
    BY <1>5, MovesFrom DEF RunnerStep
  <2>3. Held(p, d)' <=> Held(p, d)
    BY <1>5, ZenonT(60) DEF RunnerStep, ByRunner, Held
  <2>4. CASE (Abandons(o, c, t, k) \/ Finishes(o, c, t, k)) /\ bus' # Nil
    <3>1. PICK ok \in BOOLEAN : Sent("finish", o, c, ok)
      <4>1. objs[o].run[c].ok \in BOOLEAN
        BY Objects, SMTT(40) DEF Runner
      <4> QED
        BY <2>4, <4>1, SendSent, ZenonT(60) DEF Abandons, Finishes
    <3>2. t.at = "off"
      BY <2>4, Offs, ZenonT(60) DEF Abandons, Finishes
    <3>3. Queued(p, d)' => p = o /\ d = c
      BY <2>4, <3>1, ZenonT(60) DEF Sent, Queued
    <3> QED
      BY <2>1, <2>2, <2>3, <3>2, <3>3, ZenonT(60) DEF TokenInv, LaunchInv
  <2>5. CASE bus' = bus \/ Tell(o, c) \/ bus' = Nil
    <3>1. Queued(p, d)' => Queued(p, d)
      BY <2>5, TellSent, ZenonT(60) DEF Sent, Queued
    <3> QED
      BY <2>1, <2>2, <2>3, <3>1, ZenonT(60) DEF TokenInv
  <2> QED
    BY <1>5, <2>4, <2>5, ZenonT(60) DEF RunnerStep, Moves, Prepares, Adopts, Spawns, Waits, Reaps
<1>6. ASSUME NEW o \in DOMAIN objs, NEW c \in Chain, NEW t, NEW i, NEW m, MainStep(o, m, i, c, t)
      PROVE  /\ Queued(p, d)' \/ Held(p, d)' => Where(p, d)' = "off" /\ Launched(p, d)'
             /\ ~(Queued(p, d)' /\ Held(p, d)')
  <2>1. p \in DOMAIN objs
    BY <1>6, ZenonT(60) DEF MainStep, Changes
  <2>2. /\ Launched(p, d) => Launched(p, d)'
        /\ Where(p, d)' # Where(p, d) => ~Launched(p, d)
    BY <1>6, <2>1, MainLaunched, ZenonT(60)
  <2>3. Held(p, d)' <=> Held(p, d)
    BY <1>6, ZenonT(60) DEF MainStep, ByMain, Held
  <2>4. Queued(p, d)' => Queued(p, d)
    <3>1. bus' = bus \/ Tell(o, 1)
      BY <1>6, ZenonT(60) DEF MainStep, Looks, Announces, Launches, Advances, Retries
    <3>2. 1 \in Chain
      BY Objects, SMTT(40)
    <3> QED
      BY <3>1, <3>2, TellSent, ZenonT(60) DEF Sent, Queued
  <2> QED
    BY <2>1, <2>2, <2>3, <2>4, ZenonT(60) DEF TokenInv
<1>7. ASSUME NEW o \in DOMAIN objs, NEW c \in Chain, NEW t, DaemonStep(o, c, t)
      PROVE  /\ Queued(p, d)' \/ Held(p, d)' => Where(p, d)' = "off" /\ Launched(p, d)'
             /\ ~(Queued(p, d)' /\ Held(p, d)')
  <2>1. /\ p \in DOMAIN objs /\ (Launched(p, d)' <=> Launched(p, d))
        /\ Where(p, d)' = IF p = o /\ d = c THEN t.at ELSE Where(p, d)
    <3>1. PICK k : Changes(objs, objs', o, objs[o].main, objs[o].rec.idx, c, t, k)
      BY <1>7, ZenonT(60) DEF DaemonStep
    <3>2. p \in DOMAIN objs
      BY <3>1, ZenonT(60) DEF Changes
    <3> QED
      BY <3>1, <3>2, SameLaunched, ZenonT(60)
  <2>2. Held(o, c) /\ ~Held(p, d)' /\ (Queued(p, d)' <=> Queued(p, d))
    BY <1>7, ZenonT(60) DEF DaemonStep, Held, Queued
  <2> QED
    BY <2>1, <2>2, ZenonT(60) DEF TokenInv
<1> QED
  BY <1>1, <1>2, <1>3, <1>4, <1>5, <1>6, <1>7, Cases, ZenonT(60)
-----------------------------------------------------------------------------
(* The API server and the calls of the pod controller. *)

\* The steps of the API server.
NewPod ==
  /\ wanted = Nil /\ pods' = pods + 1 /\ ~gone'
  /\ wanted' # Nil /\ wanted'.uid = pods' /\ ~wanted'.del
SamePod ==
  /\ wanted # Nil /\ ~wanted.del /\ wanted' # Nil /\ wanted'.uid = wanted.uid
  /\ UNCHANGED <<pods, gone>>
NoPod ==
  /\ wanted # Nil /\ wanted.del /\ gone /\ wanted' = Nil
  /\ UNCHANGED <<pods, gone>>

\* Users and the API server create, change or remove the pod.
LEMMA UserCases ==
  ASSUME TypeOK, Users
  PROVE  /\ NewPod \/ SamePod \/ NoPod
         /\ UNCHANGED <<up, starts, db, objs, procs, subs, joined, bus, recorder, daemon,
                        handler, call, faults>>
<1>1. CASE UserCreates
  <2>1. PICK policy \in Policies :
          wanted' = [uid |-> pods', ver |-> 1, del |-> FALSE, policy |-> policy]
    BY <1>1, ZenonT(60) DEF UserCreates
  <2>2. wanted'.uid = pods' /\ ~wanted'.del
    BY <2>1, SMTT(40)
  <2>3. wanted' # Nil
    <3>1. wanted' \in Pod
      <4>1. pods' \in 1 .. MaxPods
        <5>1. pods' = pods + 1 /\ pods \in 0 .. MaxPods /\ pods < MaxPods
          BY <1>1, ZenonT(60) DEF UserCreates, TypeOK
        <5> QED
          BY ONLY <5>1, Numbers, SMTT(40)
      <4>2. 1 \in 1 .. MaxVersions /\ policy \in {"Always", "OnFailure", "Never"}
        BY Numbers, ProcessManagerAssumption, SMTT(40)
      <4> QED
        BY <2>1, <4>1, <4>2, ZenonT(60) DEF Pod
    <3> QED
      BY <3>1, NilAssumption, ZenonT(60)
  <2> QED
    BY <1>1, <2>2, <2>3, ZenonT(60) DEF UserCreates, NewPod, ByUser, events
<1>2. CASE UserUpdates \/ UserDeletes
  <2>1. wanted \in Pod /\ wanted # Nil /\ ~wanted.del
    BY <1>2, ZenonT(60) DEF UserUpdates, UserDeletes, TypeOK
  <2>2. /\ \A v \in 1 .. MaxVersions : /\ [wanted EXCEPT !.ver = v] \in Pod
                                       /\ [wanted EXCEPT !.ver = v].uid = wanted.uid
        /\ [wanted EXCEPT !.del = TRUE] \in Pod /\ [wanted EXCEPT !.del = TRUE].uid = wanted.uid
    BY <2>1, ZenonT(60) DEF Pod
  <2>3. CASE UserUpdates
    <3>1. wanted' = [wanted EXCEPT !.ver = wanted.ver + 1] /\ wanted.ver < MaxVersions
      BY <2>3, ZenonT(60) DEF UserUpdates
    <3>2. wanted.ver + 1 \in 1 .. MaxVersions
      BY <2>1, <3>1, Numbers, SMTT(40) DEF Pod
    <3>3. wanted' # Nil /\ wanted'.uid = wanted.uid
      BY <2>2, <3>1, <3>2, NilAssumption, ZenonT(60)
    <3> QED
      BY <2>1, <2>3, <3>3, ZenonT(60) DEF UserUpdates, SamePod, ByUser, events
  <2>4. CASE UserDeletes
    <3>1. wanted' # Nil /\ wanted'.uid = wanted.uid
      BY <2>2, <2>4, NilAssumption, ZenonT(60) DEF UserDeletes
    <3> QED
      BY <2>1, <2>4, <3>1, ZenonT(60) DEF UserDeletes, SamePod, ByUser, events
  <2> QED
    BY <1>2, <2>3, <2>4, SMTT(40)
<1>3. CASE ApiRemoves
  BY <1>3, ZenonT(60) DEF ApiRemoves, NoPod, ByUser, events
<1> QED
  BY <1>1, <1>2, <1>3, ZenonT(60) DEF Users

\* The steps of a call.
UpdateBegins ==
  /\ call = NoCall /\ wanted # Nil /\ ~wanted.del /\ db # Nil
  /\ call'.op = "update" /\ call'.rec # Nil /\ call'.rec.pod = wanted
  /\ call'.rec.idx = db.idx /\ call'.rec.pid = db.pid
  /\ UNCHANGED <<gone, db, procs>>
UpdateEnds ==
  /\ call.op = "update" /\ db' = call.rec /\ call' = NoCall
  /\ UNCHANGED <<gone, procs>>
DeleteFindsNone ==
  /\ call = NoCall /\ wanted # Nil /\ wanted.del /\ db = Nil /\ gone'
  /\ UNCHANGED <<call, db, procs>>
DeleteBegins ==
  /\ call = NoCall /\ wanted # Nil /\ wanted.del /\ ~gone /\ db # Nil
  /\ call'.op = "stop" /\ call'.rec = db /\ call'.c = 1
  /\ UNCHANGED <<gone, db, procs>>
DeleteGoes ==
  /\ call.op \in {"stop", "term"} /\ call'.op \in {"stop", "term"} /\ call'.rec = call.rec
  /\ call.c \in Chain
  /\ \/ call'.c = call.c
     \/ call'.op = "stop" /\ call'.c = call.c + 1 /\ ~alive(call.rec.pid[call.c])
  /\ UNCHANGED <<gone, db, procs>>
DeleteKills ==
  /\ call.op = "term" /\ call.c \in Chain
  /\ call'.op = "stop" /\ call'.rec = call.rec /\ call'.c = call.c + 1
  /\ Ends(call.rec.pid[call.c])
  /\ UNCHANGED <<gone, db>>
DeleteGivesUp ==
  /\ call' = NoCall
  /\ UNCHANGED <<gone, db, procs>>
DeleteEnds ==
  /\ call.op = "stop" /\ call.c \notin Running(call.rec)
  /\ db' = Nil /\ gone' /\ call' = NoCall
  /\ UNCHANGED procs

\* UpdatePod and DeletePod take one of these steps.
LEMMA CallCases ==
  ASSUME TypeOK, RecordInv, CallInv, CallSteps
  PROVE  /\ \/ UpdateBegins \/ UpdateEnds \/ DeleteFindsNone \/ DeleteBegins \/ DeleteGoes
            \/ DeleteKills \/ DeleteGivesUp \/ DeleteEnds
         /\ UNCHANGED <<up, starts, wanted, pods, objs, subs, joined, bus, recorder, daemon,
                        handler, faults>>
<1>0. call \in Call
  BY ZenonT(60) DEF TypeOK
<1>1. UNCHANGED <<up, starts, wanted, pods, objs, subs, joined, bus, recorder, daemon, handler, faults>>
  BY ZenonT(60) DEF CallSteps, UpdatePodGets, UpdatePodPuts, DeletePodGets, StopTerms, Tick, StopKills,
        DeletePodRemoves, ByCall, events
<1>2. CASE UpdatePodGets
  <2>1. PICK s \in {FALSE, db.statuses} :
          call' = [NoCall EXCEPT !.op = "update", !.rec = [db EXCEPT !.pod = wanted, !.statuses = s]]
    BY <1>2, ZenonT(60) DEF UpdatePodGets
  <2> DEFINE r == [db EXCEPT !.pod = wanted, !.statuses = s]
  <2>2. db \in Record /\ wanted \in Pod /\ db.statuses \in BOOLEAN
    BY <1>2, RecordFields, ZenonT(60) DEF UpdatePodGets, Calls, TypeOK
  <2>3. s \in BOOLEAN
    BY <2>1, <2>2, ZenonT(60)
  <2>4. r \in Record /\ r.pod = wanted /\ r.idx = db.idx /\ r.pid = db.pid
    BY <2>2, <2>3, ZenonT(60) DEF Record
  <2>5. call' = [NoCall EXCEPT !.op = "update", !.rec = r]
    BY <2>1, SMTT(40)
  <2> HIDE DEF r
  <2>6. call'.op = "update" /\ call'.rec = r
    BY <2>4, <2>5, NewCall, ZenonT(60)
  <2>7. r # Nil
    BY <2>4, NilAssumption, ZenonT(60)
  <2> QED
    BY <1>1, <1>2, <2>4, <2>6, <2>7, ZenonT(60) DEF UpdatePodGets, Calls, UpdateBegins
<1>3. CASE UpdatePodPuts
  BY <1>1, <1>3, ZenonT(60) DEF UpdatePodPuts, UpdateEnds
<1>4. CASE DeletePodGets /\ db = Nil
  BY <1>1, <1>4, ZenonT(60) DEF DeletePodGets, Calls, DeleteFindsNone
<1>5. CASE DeletePodGets /\ db # Nil
  <2>1. db \in Record
    BY <1>5, ZenonT(60) DEF TypeOK
  <2>2. call' = [NoCall EXCEPT !.op = "stop", !.rec = db]
    BY <1>5, ZenonT(60) DEF DeletePodGets
  <2>3. call'.op = "stop" /\ call'.rec = db /\ call'.c = 1
    BY <2>1, <2>2, NewCall, ZenonT(60)
  <2> QED
    BY <1>1, <1>5, <2>3, ZenonT(60) DEF DeletePodGets, Calls, DeleteBegins
<1>6. CASE StopTerms
  <2>1. call.c \in Chain /\ call.op = "stop"
    BY <1>6, ZenonT(60) DEF StopTerms, Running
  <2>2. CASE alive(call.rec.pid[call.c])
    <3>1. call'.op = "term" /\ call'.rec = call.rec /\ call'.c = call.c
      BY <1>0, <1>6, <2>2, CallUpdates, ZenonT(60) DEF StopTerms
    <3> QED
      BY <1>1, <1>6, <2>1, <3>1, ZenonT(60) DEF StopTerms, DeleteGoes
  <2>3. CASE ~alive(call.rec.pid[call.c])
    <3>1. call'.op = call.op /\ call'.rec = call.rec /\ call'.c = call.c + 1
      BY <1>0, <1>6, <2>1, <2>3, CallUpdates, ZenonT(60) DEF StopTerms
    <3> QED
      BY <1>1, <1>6, <2>1, <2>3, <3>1, ZenonT(60) DEF StopTerms, DeleteGoes
  <2> QED
    BY <2>2, <2>3, SMTT(40)
<1>7. CASE Tick
  <2>1. call.c \in Chain /\ call.op = "term"
    BY <1>7, ZenonT(60) DEF Tick, CallInv
  <2>2. call'.op = call.op /\ call'.rec = call.rec /\ call'.c = call.c
    BY <1>0, <1>7, CallUpdates, ZenonT(60) DEF Tick
  <2> QED
    BY <1>1, <1>7, <2>1, <2>2, ZenonT(60) DEF Tick, DeleteGoes
<1>8. CASE StopKills
  <2> DEFINE pid == call.rec.pid[call.c]
             next == [call EXCEPT !.op = "stop", !.c = @ + 1, !.waited = 0]
  <2>1. call.c \in Chain /\ call.op = "term"
    BY <1>8, ZenonT(60) DEF StopKills, CallInv
  <2>2. next.op = "stop" /\ next.rec = call.rec /\ next.c = call.c + 1
    BY <1>0, <2>1, CallUpdates, ZenonT(60)
  <2>3. /\ gone' = gone /\ db' = db
        /\ IF alive(pid) THEN procs' = [procs EXCEPT ![pid].alive = FALSE] /\ call' = next
                         ELSE call' \in {next, NoCall} /\ procs' = procs
    BY <1>8, ZenonT(60) DEF StopKills
  <2> HIDE DEF next
  <2>4. CASE alive(pid)
    <3>1. pid \in DOMAIN procs
      BY <2>1, <2>4, ZenonT(60) DEF CallInv, RecordInv, RecordOK, RecordIn, alive
    <3>2. Ends(pid)
      BY <2>3, <2>4, <3>1, ProcessEnds, ZenonT(60) DEF alive
    <3> QED
      BY <1>1, <2>1, <2>2, <2>3, <2>4, <3>2, ZenonT(60) DEF DeleteKills
  <2>5. CASE ~alive(pid)
    BY <1>1, <2>1, <2>2, <2>3, <2>5, ZenonT(60) DEF DeleteGoes, DeleteGivesUp
  <2> QED
    BY <2>4, <2>5, Zenon
<1>9. CASE DeletePodRemoves
  BY <1>1, <1>9, ZenonT(60) DEF DeletePodRemoves, DeleteEnds
<1> QED
  BY <1>2, <1>3, <1>4, <1>5, <1>6, <1>7, <1>8, <1>9, ZenonT(60) DEF CallSteps

\* The steps that keep the objects.
Idle == UNCHANGED <<up, starts, wanted, pods, gone, db, procs, bus, recorder, call>>
        /\ daemon' \in {daemon, Nil}
Exits == /\ \E k \in DOMAIN procs : Ends(k)
         /\ UNCHANGED <<up, starts, wanted, pods, gone, db, objs, bus, recorder, daemon, call>>

\* The steps that keep the objects are of one of six kinds.
LEMMA OtherCases ==
  ASSUME TypeOK, OtherSteps
  PROVE  Idle \/ Exits \/ Deliver \/ RecorderPut \/ Users \/ CallSteps
<1>1. CASE Stays \/ HandlerDone \/ DaemonContinues
  BY <1>1, ZenonT(60) DEF Stays, HandlerDone, DaemonContinues, ByBus, Idle
<1>2. CASE \/ \E s \in Subscribers : AddSubscribe(s)
           \/ \E s, t \in Subscribers : AddSubscribeRace(s, t)
  BY <1>2, ZenonT(60) DEF AddSubscribe, AddSubscribeRace, ByBus, Idle
<1>3. ASSUME NEW k \in DOMAIN procs, ProcessExits(k) PROVE Exits
  <2>1. Ends(k)
    BY <1>3, ProcessEnds, ZenonT(60) DEF ProcessExits
  <2> QED
    BY <1>3, <2>1, ZenonT(60) DEF ProcessExits, Exits, events
<1> QED
  BY <1>1, <1>2, <1>3, ZenonT(60) DEF OtherSteps, BusSteps

\* What a step does to the pod and the call.
LEMMA CallFrame ==
  ASSUME TypeOK, MainInv, EventInv, [Next]_vars
  PROVE  \/ Users \/ CallSteps
         \/ Dies \/ UNCHANGED <<wanted, pods, gone, call>>
<1>1. CASE OtherSteps
  BY <1>1, OtherCases, ZenonT(60) DEF Idle, Exits, Deliver, RecorderPut, ByBus
<1>2. CASE Start \/ CreatePod
  BY <1>2, ZenonT(60) DEF Start, CreatePod, ByCall
<1> QED
  BY <1>1, <1>2, NextCases, MovesFrame, ZenonT(60)

\* A call is for a pod that is there, and DeletePod for one that is to go.
LEMMA CallStep ==
  ASSUME TypeOK, MainInv, EventInv, RecordInv, CallInv, [Next]_vars
  PROVE  CallInv'
<1>1. CASE Dies
  <2>1. UNCHANGED <<wanted, gone>> /\ call'.op = "none"
    BY <1>1, NoCallIsCall, ZenonT(60) DEF Dies
  <2> QED
    BY <2>1, SMTT(40) DEF CallInv
<1>2. CASE UNCHANGED <<wanted, pods, gone, call>>
  BY <1>2, ZenonT(60) DEF CallInv
<1>3. CASE Users
  <2>1. (NewPod \/ SamePod \/ NoPod) /\ call' = call
    BY <1>3, UserCases, ZenonT(60)
  <2>2. CASE NewPod
    BY <2>1, <2>2, ZenonT(60) DEF NewPod, CallInv
  <2>3. CASE SamePod
    BY <2>1, <2>3, ZenonT(60) DEF SamePod, CallInv
  <2>4. CASE NoPod
    BY <2>1, <2>4, ZenonT(60) DEF NoPod, CallInv
  <2> QED
    BY <2>1, <2>2, <2>3, <2>4, SMTT(40)
<1>4. CASE CallSteps
  <2>1. wanted' = wanted
    BY <1>4, CallCases, ZenonT(60)
  <2>2. CASE UpdateBegins
    BY <2>1, <2>2, ZenonT(60) DEF UpdateBegins, CallInv
  <2>3. CASE UpdateEnds \/ DeleteGivesUp \/ DeleteFindsNone \/ DeleteEnds
    <3>1. call'.op = "none" /\ (gone' => gone \/ wanted.del)
      <4>1. call' = NoCall /\ (gone' = gone \/ wanted.del)
        BY <2>3, ZenonT(60) DEF UpdateEnds, DeleteGivesUp, DeleteFindsNone, DeleteEnds, CallInv
      <4> QED
        BY ONLY <4>1, NoCallIsCall, SMTT(40)
    <3> QED
      BY <2>1, <3>1, Zenon DEF CallInv
  <2>4. CASE DeleteBegins
    BY <2>1, <2>4, Zenon DEF DeleteBegins, CallInv
  <2>5. CASE DeleteGoes
    <3>1. call'.op = "term" => call'.c \in Chain
      BY <2>5, ZenonT(60) DEF DeleteGoes
    <3> QED
      BY <2>1, <2>5, <3>1, ZenonT(60) DEF DeleteGoes, CallInv
  <2>6. CASE DeleteKills
    BY <2>1, <2>6, SMTT(40) DEF DeleteKills, CallInv
  <2> QED
    BY <1>4, <2>2, <2>3, <2>4, <2>5, <2>6, CallCases, ZenonT(60)
<1> QED
  BY <1>1, <1>2, <1>3, <1>4, CallFrame, ZenonT(60)
-----------------------------------------------------------------------------
(* Records, pods and processes. *)

\* Pods become more, and a process stays what it was started for.
Later ==
  /\ pods <= pods' /\ DOMAIN procs \subseteq DOMAIN procs'
  /\ \A p \in DOMAIN procs : procs'[p].uid = procs[p].uid /\ procs'[p].c = procs[p].c

\* So it is in every step.
LEMMA StepLater ==
  ASSUME TypeOK, MainInv, EventInv, RecordInv, CallInv, [Next]_vars
  PROVE  Later
<1>1. pods <= pods'
  <2>1. pods \in Nat
    <3>1. pods \in 0 .. MaxPods
      BY ZenonT(60) DEF TypeOK
    <3> QED
      BY ONLY <3>1, Numbers, SMTT(40)
  <2>2. pods' = pods \/ pods' = pods + 1
    <3>1. CASE Users
      BY <3>1, UserCases, ZenonT(60) DEF NewPod, SamePod, NoPod
    <3>2. CASE CallSteps
      BY <3>2, CallCases, ZenonT(60)
    <3> QED
      BY <3>1, <3>2, CallFrame, ZenonT(60) DEF Dies
  <2> QED
    BY ONLY <2>1, <2>2, SMTT(40)
<1>2. /\ DOMAIN procs \subseteq DOMAIN procs'
      /\ \A p \in DOMAIN procs : procs'[p].uid = procs[p].uid /\ procs'[p].c = procs[p].c
  <2>1. CASE Dies
    BY <2>1, Orphans, ZenonT(60)
  <2>2. CASE \E k \in DOMAIN procs : Ends(k)
    BY <2>2, ZenonT(60) DEF Ends
  <2>3. ASSUME NEW x, procs' = Append(procs, x)
        PROVE  /\ DOMAIN procs \subseteq DOMAIN procs'
               /\ \A p \in DOMAIN procs : procs'[p] = procs[p]
    <3>1. procs \in Seq(Process)
      BY ZenonT(60) DEF TypeOK
    <3> QED
      BY <2>3, <3>1, SMTT(40)
  <2> QED
    BY <2>1, <2>2, <2>3, ProcsFrame, ZenonT(60) DEF Spawns
<1> QED
  BY <1>1, <1>2, ZenonT(60) DEF Later

\* What a record says stays true.
LEMMA RecordLater ==
  ASSUME TypeOK, TypeOK', Later, NEW pod \in Pod, NEW idx, NEW pid, RecordIn(pod, idx, pid, procs, pods)
  PROVE  RecordIn(pod, idx, pid, procs', pods')
<1>1. pod.uid <= pods'
  <2>1. pod.uid \in 1 .. MaxPods /\ pods \in 0 .. MaxPods /\ pods' \in 0 .. MaxPods
    BY ZenonT(60) DEF Pod, TypeOK
  <2>2. pod.uid <= pods /\ pods <= pods'
    BY ZenonT(60) DEF RecordIn, Later
  <2> QED
    BY ONLY <2>1, <2>2, Numbers, SMTT(40)
<1> QED
  BY <1>1, ZenonT(60) DEF RecordIn, Later

\* The new process of a container.
NewProcess(o, c, k) ==
  /\ k \in Nat /\ k # 0 /\ k \notin DOMAIN procs /\ DOMAIN procs' = DOMAIN procs \cup {k}
  /\ \A p \in DOMAIN procs : p < k /\ procs'[p] = procs[p]
  /\ procs'[k].uid = Uid(o) /\ procs'[k].c = c
  /\ procs'[k].alive /\ procs'[k].child /\ ~procs'[k].ok

\* runProcess starts such a process.
LEMMA Spawned ==
  ASSUME TypeOK, NEW o \in DOMAIN objs, NEW c \in Chain, NEW t, NEW k, Spawns(o, c, t, k)
  PROVE  NewProcess(o, c, k)
<1> DEFINE x == [uid |-> Uid(o), c |-> c, alive |-> TRUE, ok |-> FALSE, child |-> TRUE]
<1>1. procs' = Append(procs, x) /\ k = Len(procs) + 1 /\ procs \in Seq(Process)
  BY ZenonT(60) DEF Spawns, TypeOK
<1>2. x.uid = Uid(o) /\ x.c = c /\ x.alive /\ x.child /\ ~x.ok
  BY SMTT(40)
<1> HIDE DEF x
<1>3. /\ k \in Nat /\ k # 0 /\ k \notin DOMAIN procs /\ DOMAIN procs' = DOMAIN procs \cup {k}
      /\ \A p \in DOMAIN procs : p < k /\ procs'[p] = procs[p]
      /\ procs'[k] = x
  BY ONLY <1>1, SMTT(40)
<1> QED
  BY <1>2, <1>3, ZenonT(60) DEF NewProcess

\* A goroutine that is not over is of a container up to Index.
LEMMA LaunchedUpTo ==
  ASSUME TypeOK, LaunchInv, NEW o \in DOMAIN objs, NEW c \in Chain, Where(o, c) # "off"
  PROVE  c <= objs[o].rec.idx + 1
<1>1. Launched(o, c)
  BY ZenonT(60) DEF LaunchInv
<1>2. objs[o].rec.idx \in Nat /\ c \in Nat
  BY Objects, Numbers, ZenonT(60)
<1> QED
  BY <1>1, <1>2, SMTT(40) DEF Launched

\* The records of the objects.
LEMMA ObjectRecordStep ==
  ASSUME TypeOK, TypeOK', MainInv, EventInv, LaunchInv, RecordInv, UidInv, CallInv, [Next]_vars,
         NEW o \in DOMAIN objs'
  PROVE  RecordOK(objs[o].rec)'
<1>0. Later
  BY StepLater, SMTT(40)
<1> SUFFICES RecordIn(objs'[o].rec.pod, objs'[o].rec.idx, objs'[o].rec.pid, procs', pods')
  BY ZenonT(60) DEF RecordOK
<1>1. CASE Dies
  <2>1. DOMAIN objs' = {}
    BY <1>1, SMTT(40) DEF Dies
  <2> QED
    BY <2>1, ZenonT(60)
<1>2. CASE Loaded
  <2>1. db # Nil /\ objs'[o].rec = db
    BY <1>2, ZenonT(60) DEF Loaded
  <2>2. db.pod \in Pod
    BY <2>1, RecordFields, ZenonT(60) DEF TypeOK
  <2> QED
    BY <1>0, <2>1, <2>2, RecordLater, ZenonT(60) DEF RecordInv, RecordOK
<1>3. CASE Created
  <2>1. CASE o \in DOMAIN objs
    <3>1. objs'[o] = objs[o] /\ objs[o].rec.pod \in Pod
      BY <1>3, <2>1, Objects, RecordFields, ZenonT(60) DEF Created
    <3> QED
      BY <1>0, <2>1, <3>1, RecordLater, ZenonT(60) DEF RecordInv, RecordOK
  <2>2. CASE o \notin DOMAIN objs
    <3>1. objs'[o].rec = db' /\ db'.pod = wanted /\ wanted # Nil /\ \A c \in Chain : db'.pid[c] = 0
      BY <1>3, <2>2, ZenonT(60) DEF Created
    <3>2. wanted.uid = pods /\ pods' = pods /\ pods \in Nat
      <4>1. wanted.uid = pods /\ pods' = pods /\ pods \in 0 .. MaxPods
        BY <1>3, <3>1, ZenonT(60) DEF Created, UidInv, TypeOK
      <4> QED
        BY ONLY <4>1, Numbers, SMTT(40)
    <3> QED
      BY <3>1, <3>2, SMTT(40) DEF RecordIn
  <2> QED
    BY <2>1, <2>2, SMTT(40)
<1>4. ASSUME NEW q \in DOMAIN objs, NEW m, NEW i, NEW c \in Chain, NEW t, NEW k,
             Changes(objs, objs', q, m, i, c, t, k), i = objs[q].rec.idx \/ i = objs[q].rec.idx + 1,
             \/ k = objs[q].rec.pid[c]
             \/ c <= i + 1 /\ Spawns(q, c, t, k)
      PROVE  RecordIn(objs'[o].rec.pod, objs'[o].rec.idx, objs'[o].rec.pid, procs', pods')
  <2>1. /\ o \in DOMAIN objs /\ objs'[o].rec.pod = objs[o].rec.pod
        /\ objs'[o].rec.idx = IF o = q THEN i ELSE objs[o].rec.idx
        /\ \A d \in Chain : objs'[o].rec.pid[d] = IF o = q /\ d = c THEN k ELSE objs[o].rec.pid[d]
    BY <1>4, ZenonT(60) DEF Changes
  <2>2. objs[o].rec.pod \in Pod /\ objs[o].rec.idx \in Nat /\ objs[q].rec.idx \in Nat
    BY <1>4, <2>1, Objects, ZenonT(60)
  <2>3. RecordIn(objs[o].rec.pod, objs[o].rec.idx, objs[o].rec.pid, procs', pods')
    BY <1>0, <2>1, <2>2, RecordLater, ZenonT(60) DEF RecordInv, RecordOK
  <2>4. objs'[o].rec.idx \in Nat /\ objs[o].rec.idx <= objs'[o].rec.idx
    <3>1. objs'[o].rec.idx \in {objs[o].rec.idx, objs[o].rec.idx + 1}
      BY <1>4, <2>1, ZenonT(60)
    <3> QED
      BY ONLY <2>2, <3>1, SMTT(40)
  <2>5. ASSUME NEW d \in Chain, objs'[o].rec.pid[d] # 0
        PROVE  LET pid == objs'[o].rec.pid IN
               /\ pid[d] \in DOMAIN procs' /\ d <= objs'[o].rec.idx + 1
               /\ procs'[pid[d]].c = d /\ procs'[pid[d]].uid <= objs[o].rec.pod.uid
    <3>1. CASE objs'[o].rec.pid[d] = objs[o].rec.pid[d]
      <4>1. /\ objs'[o].rec.pid[d] \in DOMAIN procs' /\ d <= objs[o].rec.idx + 1
            /\ procs'[objs'[o].rec.pid[d]].c = d
            /\ procs'[objs'[o].rec.pid[d]].uid <= objs[o].rec.pod.uid
        BY <2>3, <2>5, <3>1, ZenonT(60) DEF RecordIn
      <4>2. d <= objs'[o].rec.idx + 1
        <5>1. d \in Nat
          BY Numbers, ZenonT(60)
        <5> QED
          BY ONLY <2>2, <2>4, <4>1, <5>1, SMTT(40)
      <4> QED
        BY <4>1, <4>2, SMTT(40)
    <3>2. CASE objs'[o].rec.pid[d] # objs[o].rec.pid[d]
      <4>1. o = q /\ d = c /\ objs'[o].rec.pid[d] = k /\ Spawns(q, c, t, k) /\ c <= i + 1
            /\ objs'[o].rec.idx = i
        BY <1>4, <2>1, <3>2, ZenonT(60)
      <4>2. k \in DOMAIN procs' /\ procs'[k].c = c /\ procs'[k].uid = Uid(o)
        <5>1. NewProcess(q, c, k)
          BY <4>1, Spawned, ZenonT(60)
        <5> QED
          BY <4>1, <5>1, ZenonT(60) DEF NewProcess
      <4>3. Uid(o) \in Nat
        <5>1. Uid(o) \in 1 .. MaxPods
          BY <2>2, ZenonT(60) DEF Uid, Pod
        <5> QED
          BY ONLY <5>1, Numbers, SMTT(40)
      <4> QED
        BY <4>1, <4>2, <4>3, SMTT(40) DEF Uid
    <3> QED
      BY ONLY <3>1, <3>2, ZenonT(60)
  <2> QED
    BY <2>1, <2>3, <2>5, ZenonT(60) DEF RecordIn
<1>5. CASE Kept
  <2>1. /\ o \in DOMAIN objs /\ objs'[o].rec.pod = objs[o].rec.pod /\ objs'[o].rec.idx = objs[o].rec.idx
        /\ \A d \in Chain : objs'[o].rec.pid[d] = objs[o].rec.pid[d]
    BY <1>5, ZenonT(60) DEF Kept
  <2>2. objs[o].rec.pod \in Pod
    BY <2>1, Objects, RecordFields, SMTT(40)
  <2>3. RecordIn(objs[o].rec.pod, objs[o].rec.idx, objs[o].rec.pid, procs', pods')
    BY <1>0, <2>1, <2>2, RecordLater, ZenonT(60) DEF RecordInv, RecordOK
  <2> QED
    BY <2>1, <2>3, ZenonT(60) DEF RecordIn
<1>6. ASSUME NEW q \in DOMAIN objs, NEW c \in Chain, NEW t, NEW k, RunnerStep(q, c, t, k)
      PROVE  RecordIn(objs'[o].rec.pod, objs'[o].rec.idx, objs'[o].rec.pid, procs', pods')
  <2>1. k = objs[q].rec.pid[c] \/ Spawns(q, c, t, k)
    BY <1>6, ZenonT(60) DEF RunnerStep, Moves, Prepares, Abandons, Adopts, Waits, Reaps, Finishes
  <2>2. c <= objs[q].rec.idx + 1
    BY <1>6, MovesFrom, LaunchedUpTo, ZenonT(60) DEF RunnerStep
  <2> QED
    BY <1>4, <1>6, <2>1, <2>2, ZenonT(60) DEF RunnerStep
<1>7. ASSUME NEW q \in DOMAIN objs, NEW c \in Chain, NEW t, NEW i, NEW m, MainStep(q, m, i, c, t)
      PROVE  RecordIn(objs'[o].rec.pod, objs'[o].rec.idx, objs'[o].rec.pid, procs', pods')
  <2>1. i = objs[q].rec.idx \/ i = objs[q].rec.idx + 1
    BY <1>7, ZenonT(60) DEF MainStep, Looks, Announces, Launches, Advances, Retries
  <2> QED
    BY <1>4, <1>7, <2>1, ZenonT(60) DEF MainStep
<1>8. ASSUME NEW q \in DOMAIN objs, NEW c \in Chain, NEW t, DaemonStep(q, c, t)
      PROVE  RecordIn(objs'[o].rec.pod, objs'[o].rec.idx, objs'[o].rec.pid, procs', pods')
  BY <1>4, <1>8, ZenonT(60) DEF DaemonStep
<1> QED
  BY <1>1, <1>2, <1>3, <1>5, <1>6, <1>7, <1>8, Cases, ZenonT(60)

\* The fields of a process.
LEMMA Processes ==
  ASSUME TypeOK, NEW p \in DOMAIN procs
  PROVE  /\ p \in Nat /\ p # 0 /\ procs[p].uid \in Nat /\ procs[p].c \in Chain
         /\ procs[p].alive \in BOOLEAN /\ procs[p].ok \in BOOLEAN /\ procs[p].child \in BOOLEAN
<1>1. procs \in Seq(Process)
  BY ZenonT(60) DEF TypeOK
<1>2. p \in Nat /\ p # 0 /\ procs[p] \in Process
  BY ONLY <1>1, p \in DOMAIN procs, SMTT(40)
<1>3. \A x \in Process : /\ x.uid \in 1 .. MaxPods /\ x.c \in Chain
                         /\ x.alive \in BOOLEAN /\ x.ok \in BOOLEAN /\ x.child \in BOOLEAN
  BY ZenonT(60) DEF Process
<1>4. procs[p].uid \in Nat
  <2>1. procs[p].uid \in 1 .. MaxPods
    BY <1>2, <1>3, ZenonT(60)
  <2> QED
    BY ONLY <2>1, Numbers, SMTT(40)
<1> QED
  BY <1>2, <1>3, <1>4, ZenonT(60)

\* Pods are numbered from 1.
LEMMA PodUid ==
  ASSUME NEW x \in Pod
  PROVE  x.uid \in Nat /\ 1 <= x.uid /\ x.del \in BOOLEAN
<1>1. x.uid \in 1 .. MaxPods /\ x.del \in BOOLEAN
  BY ZenonT(60) DEF Pod
<1> QED
  BY <1>1, Numbers, SMTT(40)

\* The numbers of the pods.
LEMMA Uids ==
  ASSUME TypeOK
  PROVE  /\ pods \in Nat
         /\ wanted # Nil => wanted \in Pod /\ wanted.uid \in Nat /\ 1 <= wanted.uid
         /\ \A o \in DOMAIN objs : Uid(o) \in Nat /\ 1 <= Uid(o)
         /\ \A r \in {db, recorder, call.rec} :
              r # Nil => r \in Record /\ r.pod.uid \in Nat /\ 1 <= r.pod.uid
<1>1. pods \in Nat
  <2>1. pods \in 0 .. MaxPods
    BY ZenonT(60) DEF TypeOK
  <2> QED
    BY ONLY <2>1, Numbers, SMTT(40)
<1>2. wanted # Nil => wanted \in Pod
  BY ZenonT(60) DEF TypeOK
<1>3. \A o \in DOMAIN objs : objs[o].rec.pod \in Pod
  BY Objects, RecordFields, ZenonT(60)
<1>4. \A r \in {db, recorder, call.rec} : r # Nil => r \in Record /\ r.pod \in Pod
  <2>1. call \in Call /\ db \in Record \cup {Nil} /\ recorder \in Record \cup {Nil}
    BY ZenonT(60) DEF TypeOK
  <2>2. call.rec \in Record \cup {Nil}
    BY <2>1, CallFields, ZenonT(60)
  <2>3. \A r \in {db, recorder, call.rec} : r # Nil => r \in Record
    BY <2>1, <2>2, SMTT(40)
  <2> QED
    BY <2>3, RecordFields, ZenonT(60)
<1> QED
  BY <1>1, <1>2, <1>3, <1>4, PodUid, ZenonT(60) DEF Uid

\* What a step does to the record in the database.
LEMMA DbFrame ==
  ASSUME TypeOK, MainInv, EventInv, RecordInv, CallInv, [Next]_vars
  PROVE  \/ db' = db
         \/ db' = recorder /\ recorder # Nil
         \/ db' = call.rec /\ call.rec # Nil /\ call.op = "update"
         \/ db' = Nil /\ wanted' = wanted /\ wanted # Nil /\ wanted.del
         \/ Created
<1>1. CASE Dies \/ Start
  BY <1>1, ZenonT(60) DEF Dies, Start
<1>2. CASE OtherSteps
  <2>1. CASE CallSteps
    BY <2>1, CallCases, ZenonT(60) DEF UpdateBegins, UpdateEnds, DeleteFindsNone, DeleteBegins, DeleteGoes,
          DeleteKills, DeleteGivesUp, DeleteEnds, CallInv
  <2>2. CASE Idle \/ Exits \/ Deliver \/ RecorderPut \/ Users
    BY <2>2, UserCases, ZenonT(60) DEF Idle, Exits, Deliver, RecorderPut
  <2> QED
    BY <1>2, <2>1, <2>2, OtherCases, ZenonT(60)
<1> QED
  BY <1>1, <1>2, NextCases, MovesFrame, CreatePodCreates, ZenonT(60)

\* What a step does to the record the recorder is to write.
LEMMA RecorderFrame ==
  ASSUME TypeOK, MainInv, EventInv, [Next]_vars
  PROVE  \/ recorder' = recorder \/ recorder' = Nil
         \/ /\ bus.ev.o \in DOMAIN objs /\ recorder' = objs[bus.ev.o].rec /\ Kept
            /\ UNCHANGED <<procs, pods, wanted, db>>
<1>1. CASE Dies \/ Start \/ CreatePod
  BY <1>1, ZenonT(60) DEF Dies, Start, CreatePod, ByCall, events
<1>2. CASE Kept /\ OtherSteps
  <2>1. CASE Deliver
    <3>1. bus.ev.o \in DOMAIN objs
      BY <2>1, DeliverBus, ZenonT(60) DEF EventInv
    <3> QED
      BY <1>2, <2>1, <3>1, DeliverTypes, ZenonT(60) DEF Deliver, ByBus
  <2> QED
    BY <1>2, <2>1, OtherFrame, ZenonT(60)
<1> QED
  BY <1>1, <1>2, NextCases, MovesFrame, ZenonT(60)

\* What a step does to the record of the call.
LEMMA CallRecFrame ==
  ASSUME TypeOK, MainInv, EventInv, RecordInv, CallInv, [Next]_vars
  PROVE  \/ call'.rec = call.rec \/ call'.rec = Nil
         \/ call'.rec = db /\ wanted # Nil /\ wanted.del /\ UNCHANGED <<objs, procs, pods, wanted>>
         \/ UpdateBegins /\ UNCHANGED <<objs, procs, pods, wanted>>
<1>1. CASE Dies
  BY <1>1, NoCallIsCall, ZenonT(60) DEF Dies
<1>2. CASE Users
  BY <1>2, UserCases, ZenonT(60)
<1>3. CASE CallSteps
  <2>1. UNCHANGED <<objs, pods, wanted>>
    BY <1>3, CallCases, ZenonT(60)
  <2>2. CASE UpdateBegins
    BY <2>1, <2>2, ZenonT(60) DEF UpdateBegins
  <2>3. CASE UpdateEnds \/ DeleteFindsNone \/ DeleteGoes \/ DeleteKills \/ DeleteGivesUp \/ DeleteEnds
    BY <2>3, NoCallIsCall, ZenonT(60) DEF UpdateEnds, DeleteFindsNone, DeleteGoes, DeleteKills,
          DeleteGivesUp, DeleteEnds
  <2>4. CASE DeleteBegins
    BY <2>1, <2>4, ZenonT(60) DEF DeleteBegins
  <2> QED
    BY <1>3, <2>2, <2>3, <2>4, CallCases, ZenonT(60)
<1> QED
  BY <1>1, <1>2, <1>3, CallFrame, ZenonT(60)

\* Records speak of processes that there are.
LEMMA RecordStep ==
  ASSUME TypeOK, TypeOK', MainInv, EventInv, LaunchInv, RecordInv, UidInv, CallInv, [Next]_vars
  PROVE  RecordInv'
<1>0. Later
  BY StepLater, SMTT(40)
<1>1. \A o \in DOMAIN objs' : RecordOK(objs[o].rec)'
  BY ObjectRecordStep, SMTT(40)
<1>2. ASSUME NEW r \in Record, RecordOK(r)
      PROVE  RecordIn(r.pod, r.idx, r.pid, procs', pods')
  BY <1>0, <1>2, RecordFields, RecordLater, ZenonT(60) DEF RecordOK
<1>3. \A r \in {db, recorder, call.rec} : r # Nil => r \in Record /\ RecordOK(r)
  BY Uids, ZenonT(60) DEF RecordInv
<1>4. ASSUME db' # Nil PROVE RecordIn(db'.pod, db'.idx, db'.pid, procs', pods')
  <2>1. CASE Created
    <3>1. Len(objs) + 1 \in DOMAIN objs' /\ objs'[Len(objs) + 1].rec = db'
      BY <2>1, ZenonT(60) DEF Created
    <3> QED
      BY <1>1, <3>1, ZenonT(60) DEF RecordOK
  <2>2. CASE \E r \in {db, recorder, call.rec} : db' = r /\ r # Nil
    BY <1>2, <1>3, <2>2, ZenonT(60)
  <2> QED
    BY <1>4, <2>1, <2>2, DbFrame, ZenonT(60)
<1>5. ASSUME recorder' # Nil PROVE RecordIn(recorder'.pod, recorder'.idx, recorder'.pid, procs', pods')
  <2>1. CASE bus.ev.o \in DOMAIN objs /\ recorder' = objs[bus.ev.o].rec
    <3>1. recorder' \in Record /\ RecordOK(objs[bus.ev.o].rec)
      BY <2>1, Objects, ZenonT(60) DEF RecordInv
    <3> QED
      BY <1>2, <2>1, <3>1, ZenonT(60)
  <2>2. CASE recorder' = recorder
    BY <1>2, <1>3, <1>5, <2>2, ZenonT(60)
  <2> QED
    BY <1>5, <2>1, <2>2, RecorderFrame, ZenonT(60)
<1>6. ASSUME call'.rec # Nil
      PROVE  RecordIn(call'.rec.pod, call'.rec.idx, call'.rec.pid, procs', pods')
  <2>1. CASE call'.rec = call.rec \/ call'.rec = db
    BY <1>2, <1>3, <1>6, <2>1, ZenonT(60)
  <2>2. CASE UpdateBegins /\ UNCHANGED <<objs, procs, pods, wanted>>
    <3>1. RecordIn(db.pod, db.idx, db.pid, procs, pods) /\ wanted.uid = pods /\ wanted # Nil
      BY <1>3, <2>2, ZenonT(60) DEF UpdateBegins, RecordOK, UidInv
    <3>2. /\ call'.rec.pod = wanted /\ call'.rec.idx = db.idx /\ call'.rec.pid = db.pid
          /\ procs' = procs /\ pods' = pods
      BY <2>2, ZenonT(60) DEF UpdateBegins
    <3>3. RecordIn(wanted, db.idx, db.pid, procs, pods)
      <4>1. db \in Record /\ db.pod.uid \in Nat /\ pods \in Nat
        BY <2>2, Uids, ZenonT(60) DEF UpdateBegins
      <4>2. ASSUME NEW c \in Chain, db.pid[c] # 0
            PROVE  /\ db.pid[c] \in DOMAIN procs /\ c <= db.idx + 1 /\ procs[db.pid[c]].c = c
                   /\ procs[db.pid[c]].uid <= db.pod.uid /\ procs[db.pid[c]].uid \in Nat
        <5>1. db.pid[c] \in DOMAIN procs
          BY <3>1, <4>2, ZenonT(60) DEF RecordIn
        <5>2. procs[db.pid[c]].uid \in Nat
          BY <5>1, Processes, ZenonT(60)
        <5> QED
          BY <3>1, <4>2, <5>2, ZenonT(60) DEF RecordIn
      <4>3. \A c \in Chain : db.pid[c] # 0 => procs[db.pid[c]].uid <= pods
        BY <3>1, <4>1, <4>2, SMTT(40) DEF RecordIn
      <4> QED
        BY <3>1, <4>1, <4>2, <4>3, SMTT(40) DEF RecordIn
    <3> QED
      BY <3>2, <3>3, ZenonT(60)
  <2> QED
    BY <1>6, <2>1, <2>2, CallRecFrame, ZenonT(60)
<1> QED
  BY <1>1, <1>4, <1>5, <1>6, ZenonT(60) DEF RecordInv, RecordOK

\* What a step does to the pods of the objects.
LEMMA PodsFrame ==
  ASSUME TypeOK, MainInv, EventInv, [Next]_vars
  PROVE  \/ Dies \/ Loaded \/ Created
         \/ DOMAIN objs' = DOMAIN objs /\ \A o \in DOMAIN objs : objs'[o].rec.pod = objs[o].rec.pod
<1>1. CASE Kept
  BY <1>1, ZenonT(60) DEF Kept
<1>2. ASSUME NEW q \in DOMAIN objs, NEW m, NEW i, NEW c \in Chain, NEW t, NEW k,
             Changes(objs, objs', q, m, i, c, t, k)
      PROVE  DOMAIN objs' = DOMAIN objs /\ \A o \in DOMAIN objs : objs'[o].rec.pod = objs[o].rec.pod
  BY <1>2, ZenonT(60) DEF Changes
<1>3. CASE \E o \in DOMAIN objs, c \in Chain, t \in Runner, k \in 0 .. MaxPids : RunnerStep(o, c, t, k)
  BY <1>2, <1>3, ZenonT(60) DEF RunnerStep
<1>4. CASE \E o \in DOMAIN objs, c \in Chain, t \in Runner, i \in 0 .. Last,
              m \in {"off", "loop", "announce", "launch", "sync", "next"} : MainStep(o, m, i, c, t)
  <2>1. PICK o \in DOMAIN objs, c \in Chain, t \in Runner, i \in 0 .. Last,
             m \in {"off", "loop", "announce", "launch", "sync", "next"} : MainStep(o, m, i, c, t)
    BY <1>4, SMTT(40)
  <2> QED
    BY <1>2, <2>1, ZenonT(60) DEF MainStep
<1>5. CASE \E o \in DOMAIN objs, c \in Chain, t \in Runner : DaemonStep(o, c, t)
  BY <1>2, <1>5, ZenonT(60) DEF DaemonStep
<1> QED
  BY <1>1, <1>3, <1>4, <1>5, Cases, ZenonT(60)

\* A process is new because an object of its pod has started it.
LEMMA NewProcs ==
  ASSUME TypeOK, MainInv, EventInv, RecordInv, CallInv, [Next]_vars, NEW p \in DOMAIN procs',
         p \notin DOMAIN procs
  PROVE  \E o \in DOMAIN objs : procs'[p].uid = Uid(o)
<1>1. CASE Dies
  BY <1>1, Orphans, ZenonT(60)
<1>2. CASE procs' = procs \/ \E k \in DOMAIN procs : Ends(k)
  BY <1>2, ZenonT(60) DEF Ends
<1>3. ASSUME NEW o \in DOMAIN objs, NEW c \in Chain, NEW t, NEW k, Spawns(o, c, t, k)
      PROVE  procs'[p].uid = Uid(o)
  <2>1. NewProcess(o, c, k)
    BY <1>3, Spawned, ZenonT(60)
  <2> QED
    BY <2>1, ZenonT(60) DEF NewProcess
<1> QED
  BY <1>1, <1>2, <1>3, ProcsFrame, ZenonT(60)

\* Pods are numbered as they come.
LEMMA UidStep ==
  ASSUME TypeOK, TypeOK', MainInv, EventInv, RecordInv, UidInv, FreshInv, CallInv, [Next]_vars
  PROVE  UidInv'
<1>0. pods \in Nat /\ pods' \in Nat
  <2>1. pods \in 0 .. MaxPods /\ pods' \in 0 .. MaxPods
    BY ZenonT(60) DEF TypeOK
  <2> QED
    BY ONLY <2>1, Numbers, SMTT(40)
<1>1. wanted' # Nil => wanted'.uid = pods'
  <2>1. CASE Users
    BY <2>1, UserCases, ZenonT(60) DEF NewPod, SamePod, NoPod, UidInv
  <2>2. CASE CallSteps
    BY <2>2, CallCases, ZenonT(60) DEF UidInv
  <2> QED
    BY <2>1, <2>2, CallFrame, ZenonT(60) DEF Dies, UidInv
<1>2. ASSUME DOMAIN objs' = DOMAIN objs, \A o \in DOMAIN objs : objs'[o].rec.pod = objs[o].rec.pod
      PROVE  /\ \A o \in DOMAIN objs' : o <= Uid(o)'
             /\ \A o, p \in DOMAIN objs' : o < p => Uid(o)' < Uid(p)'
  BY <1>2, ZenonT(60) DEF UidInv, Uid
<1>3. /\ \A o \in DOMAIN objs' : o <= Uid(o)'
      /\ \A o, p \in DOMAIN objs' : o < p => Uid(o)' < Uid(p)'
  <2>1. CASE Dies
    <3>1. DOMAIN objs' = {}
      BY <2>1, SMTT(40) DEF Dies
    <3> QED
      BY <3>1, ZenonT(60)
  <2>2. CASE Loaded
    <3>1. CASE db = Nil
      BY <2>2, <3>1, ZenonT(60) DEF Loaded
    <3>2. CASE db # Nil
      <4>1. db.pod.uid \in 1 .. MaxPods
        BY <3>2, RecordFields, ZenonT(60) DEF TypeOK, Pod
      <4>2. DOMAIN objs' = {1} /\ Uid(1)' = db.pod.uid
        BY <2>2, <3>2, ZenonT(60) DEF Loaded, Uid
      <4> QED
        BY <4>1, <4>2, Numbers, SMTT(40)
    <3> QED
      BY <3>1, <3>2, SMTT(40)
  <2>3. CASE Created
    <3>0. PICK n : n = Len(objs) + 1
      BY SMTT(40)
    <3>1. DOMAIN objs' = DOMAIN objs \cup {n} /\ DOMAIN objs = 1 .. Len(objs) /\ Len(objs) \in Nat
      BY <2>3, <3>0, LenProperties, ZenonT(60) DEF Created, TypeOK
    <3>2. /\ \A o \in DOMAIN objs : Uid(o)' = Uid(o)
          /\ Uid(n)' = pods /\ wanted.uid = pods
      <4>1. wanted.uid = pods
        BY <2>3, ZenonT(60) DEF Created, UidInv
      <4>2. objs'[n].rec = db' /\ db'.pod = wanted
        BY <2>3, <3>0, ZenonT(60) DEF Created
      <4>3. \A o \in DOMAIN objs : objs'[o] = objs[o]
        BY <2>3, ZenonT(60) DEF Created
      <4> QED
        BY <4>1, <4>2, <4>3, ZenonT(60) DEF Uid
    <3>3. ASSUME NEW o \in DOMAIN objs PROVE Uid(o) < pods /\ Uid(o) \in Nat /\ o <= Uid(o)
      <4>1. Uid(o) <= pods /\ Uid(o) # pods /\ o <= Uid(o)
        BY <2>3, <3>3, ZenonT(60) DEF Created, RecordInv, RecordOK, RecordIn, FreshInv, UidInv, Uid
      <4>2. Uid(o) \in Nat
        BY <3>3, Objects, ZenonT(60) DEF Uid
      <4> QED
        BY <1>0, <4>1, <4>2, SMTT(40)
    <3>4. pods >= 1
      <4>1. wanted \in Pod
        BY <2>3, ZenonT(60) DEF Created, TypeOK
      <4> QED
        <5>1. pods \in 1 .. MaxPods
          BY <3>2, <4>1, ZenonT(60) DEF Pod
        <5> QED
          BY ONLY <5>1, Numbers, SMTT(40)
    <3>5. n <= pods
      <4>1. CASE Len(objs) = 0
        BY ONLY <1>0, <3>0, <3>4, <4>1, SMTT(40)
      <4>2. CASE Len(objs) # 0
        <5>1. Len(objs) \in DOMAIN objs
          BY <3>1, <4>2, SMTT(40)
        <5>2. Uid(Len(objs)) < pods /\ Uid(Len(objs)) \in Nat /\ Len(objs) <= Uid(Len(objs))
          BY <3>3, <5>1, SMTT(40)
        <5> QED
          BY ONLY <1>0, <3>0, <3>1, <5>2, SMTT(40)
      <4> QED
        BY <4>1, <4>2, ZenonT(60)
    <3>6. \A o \in DOMAIN objs' : o <= Uid(o)'
      <4>1. ASSUME NEW o \in DOMAIN objs PROVE o <= Uid(o)'
        BY <3>2, <3>3, <4>1, ZenonT(60)
      <4>2. n <= Uid(n)'
        BY <3>2, <3>5, ZenonT(60)
      <4> QED
        BY <3>1, <4>1, <4>2, ZenonT(60)
    <3>7. ASSUME NEW o \in DOMAIN objs', NEW p \in DOMAIN objs', o < p PROVE Uid(o)' < Uid(p)'
      <4>1. o \in DOMAIN objs
        BY <3>0, <3>1, <3>7, SMTT(40)
      <4>2. CASE p \in DOMAIN objs
        BY <3>2, <3>7, <4>1, <4>2, ZenonT(60) DEF UidInv
      <4>3. CASE p = n
        <5>1. Uid(p)' = pods
          BY <3>2, <4>3, ZenonT(60)
        <5>2. Uid(o)' = Uid(o) /\ Uid(o) < pods
          BY <3>2, <3>3, <4>1, ZenonT(60)
        <5> QED
          BY <5>1, <5>2, ZenonT(60)
      <4> QED
        BY <3>1, <4>2, <4>3, ZenonT(60)
    <3> QED
      BY <3>6, <3>7, SMTT(40)
  <2> QED
    BY <1>2, <2>1, <2>2, <2>3, PodsFrame, ZenonT(60)
<1>4. ASSUME NEW p \in DOMAIN procs' PROVE procs'[p].uid <= pods'
  <2>1. Later
    BY StepLater, ZenonT(60)
  <2>2. CASE p \in DOMAIN procs
    <3>1. procs[p].uid \in Nat /\ procs[p].uid <= pods /\ pods <= pods'
      BY <2>1, <2>2, Processes, ZenonT(60) DEF UidInv, Later
    <3>2. procs'[p].uid = procs[p].uid
      BY <2>1, <2>2, ZenonT(60) DEF Later
    <3> QED
      BY ONLY <1>0, <3>1, <3>2, SMTT(40)
  <2>3. CASE p \notin DOMAIN procs
    <3>1. PICK o \in DOMAIN objs : procs'[p].uid = Uid(o)
      BY <1>4, <2>3, NewProcs, ZenonT(60)
    <3>2. Uid(o) \in Nat /\ Uid(o) <= pods /\ pods <= pods'
      BY <2>1, Uids, ZenonT(60) DEF Later, RecordInv, RecordOK, RecordIn, Uid
    <3> QED
      BY ONLY <1>0, <3>1, <3>2, SMTT(40)
  <2> QED
    BY <2>2, <2>3, SMTT(40)
<1> QED
  BY <1>1, <1>3, <1>4, ZenonT(60) DEF UidInv

\* What has no record yet is not in memory either.
LEMMA FreshStep ==
  ASSUME TypeOK, TypeOK', MainInv, EventInv, RecordInv, UidInv, FreshInv, CallInv, [Next]_vars
  PROVE  FreshInv'
<1> SUFFICES ASSUME wanted' # Nil, ~wanted'.del, db' = Nil
             PROVE  /\ \A o \in DOMAIN objs' : Uid(o)' # pods'
                    /\ \A r \in {recorder', call'.rec} : r # Nil => r.pod.uid # pods'
                    /\ \A p \in DOMAIN procs' : procs'[p].uid # pods'
  BY ZenonT(60) DEF FreshInv
<1>1. CASE Users
  <2>1. /\ NewPod \/ SamePod
        /\ UNCHANGED <<db, objs, procs, recorder, call>>
    BY <1>1, UserCases, ZenonT(60) DEF NoPod
  <2>2. CASE NewPod
    <3>1. pods' = pods + 1 /\ pods \in Nat
      BY <2>2, Uids, ZenonT(60) DEF NewPod
    <3>2. \A o \in DOMAIN objs : Uid(o) <= pods /\ Uid(o) \in Nat
      BY Uids, ZenonT(60) DEF RecordInv, RecordOK, RecordIn, Uid
    <3>3. \A r \in {recorder, call.rec} : r # Nil => r.pod.uid <= pods /\ r.pod.uid \in Nat
      BY Uids, ZenonT(60) DEF RecordInv, RecordOK, RecordIn
    <3>4. \A p \in DOMAIN procs : procs[p].uid <= pods /\ procs[p].uid \in Nat
      BY Processes, ZenonT(60) DEF UidInv
    <3>5. \A u \in Nat : u <= pods => u # pods'
      BY ONLY <3>1, SMTT(40)
    <3> QED
      BY <2>1, <3>2, <3>3, <3>4, <3>5, ZenonT(60) DEF Uid
  <2>3. CASE SamePod
    BY <2>1, <2>3, ZenonT(60) DEF SamePod, FreshInv, Uid
  <2> QED
    BY <2>1, <2>2, <2>3, ZenonT(60)
<1>2. CASE UNCHANGED <<wanted, pods>>
  <2>1. ~Created
    BY NilAssumption, ZenonT(60) DEF Created
  <2>2. db = Nil
    BY <1>2, <2>1, DbFrame, ZenonT(60)
  <2>3. /\ \A o \in DOMAIN objs : Uid(o) # pods
        /\ \A r \in {recorder, call.rec} : r # Nil => r.pod.uid # pods
        /\ \A p \in DOMAIN procs : procs[p].uid # pods
    BY <1>2, <2>2, ZenonT(60) DEF FreshInv
  <2>4. \A o \in DOMAIN objs' : Uid(o)' # pods'
    <3>1. CASE Dies
      <4>1. DOMAIN objs' = {}
        BY <3>1, SMTT(40) DEF Dies
      <4> QED
        BY <4>1, ZenonT(60)
    <3>2. CASE Loaded
      BY <2>2, <3>2, ZenonT(60) DEF Loaded
    <3> QED
      BY <1>2, <2>1, <2>3, <3>1, <3>2, PodsFrame, ZenonT(60) DEF Uid
  <2>5. recorder' # Nil => recorder'.pod.uid # pods'
    BY <1>2, <2>3, RecorderFrame, ZenonT(60) DEF Uid
  <2>6. call'.rec # Nil => call'.rec.pod.uid # pods'
    <3>1. call'.rec = call.rec \/ call'.rec = Nil
      BY <1>2, <2>2, CallRecFrame, ZenonT(60) DEF UpdateBegins
    <3> QED
      BY <1>2, <2>3, <3>1, ZenonT(60)
  <2>7. ASSUME NEW p \in DOMAIN procs' PROVE procs'[p].uid # pods'
    <3>1. CASE p \in DOMAIN procs
      BY <1>2, <2>3, <3>1, StepLater, ZenonT(60) DEF Later
    <3>2. CASE p \notin DOMAIN procs
      BY <1>2, <2>3, <2>7, <3>2, NewProcs, ZenonT(60)
    <3> QED
      BY <3>1, <3>2, SMTT(40)
  <2> QED
    BY <2>4, <2>5, <2>6, <2>7, ZenonT(60)
<1>3. CASE CallSteps
  BY <1>2, <1>3, CallCases, ZenonT(60)
<1> QED
  BY <1>1, <1>2, <1>3, CallFrame, ZenonT(60) DEF Dies
=============================================================================
