--------------------------- MODULE ProcessManager ---------------------------
(***************************************************************************)
(* The native provider's process manager (process_manager.go,              *)
(* process_runner.go, image_puller.go, resource_downloader.go, event.go    *)
(* under src/cmd/virtual-kubelet/internal/provider/native) for one pod     *)
(* key.  It composes                                                       *)
(*   - the record of the pod in the bitcask database, which survives the   *)
(*     kubelet, and the PodProcess objects in memory, which do not;        *)
(*   - PodProcess.run, which starts the containers one after the other,    *)
(*     and one goroutine per container that prepares, starts and awaits it;*)
(*   - the event bus: a dispatcher and its subscribers, the recorder, the  *)
(*     container daemon (restart policy) and the pod status handler;       *)
(*   - the operating system's processes (external): they outlive the       *)
(*     kubelet; process ids are not reused;                                *)
(*   - the pod controller's calls and the pod lister (external).           *)
(* Containers are numbered from 1; the code numbers them from 0.           *)
(***************************************************************************)
EXTENDS Naturals, Sequences

CONSTANTS
  Nil,
  Inits, Conts,      \* how many init containers and containers the pod has
  Policies,          \* restart policies a pod may have
  Grace,             \* terminationGracePeriodSeconds
  PullAlways,        \* TRUE: image pull policy Always, or the tag is latest
  RacyAppend,        \* TRUE: AddSubscribe calls may overlap
  LateSubscribers,   \* TRUE: pods may be started before all have subscribed
  InOrder,           \* TRUE: the subscribers subscribe in the order of the code
  MaxPods,           \* bound: pods created under the key
  MaxVersions,       \* bound: versions of a pod's spec
  MaxPids,           \* bound: processes started
  MaxFaults,         \* bound: failing pulls, downloads and process starts
  MaxStarts          \* bound: starts of the kubelet

ASSUME ProcessManagerAssumption ==
  /\ Inits \in Nat /\ Conts \in Nat \ {0} /\ Grace \in Nat
  /\ Policies \subseteq {"Always", "OnFailure", "Never"} /\ Policies # {}
  /\ {PullAlways, RacyAppend, LateSubscribers, InOrder} \subseteq BOOLEAN
  /\ {MaxPods, MaxVersions, MaxPids, MaxFaults, MaxStarts} \subseteq Nat /\ MaxVersions # 0

Last == Inits + Conts
Chain == 1 .. Last
Sync(c) == c <= Inits

\* The stages of the preparation, in order.  pull and unzip are alike and stand
\* as the first, the config maps and the secrets of downloadResource as the
\* second; a record knows how many are done.
Stages == 1 .. 2
Image == 1

Subscribers == {"recorder", "daemon", "handler"}
Pod == [uid : 1 .. MaxPods, ver : 1 .. MaxVersions, del : BOOLEAN,
        policy : {"Always", "OnFailure", "Never"}]

\* A PodProcess as it is written to the database.
Record == [pod : Pod, idx : 0 .. Last, pid : [Chain -> 0 .. MaxPids],
           done : [Chain -> 0 .. 2], statuses : BOOLEAN]

\* A goroutine of ContainerProcess.run; ok is the result of the last one.
Runner == [at : {"off", "begin", "work", "told", "failed", "start", "started",
                 "notstarted", "wait", "finish", "giveup"},
           stage : Stages, ok : BOOLEAN]

\* A PodProcess in memory: loaded from the database it has no image manager,
\* and no process manager until Start sets it.
Object == [rec : Record, loaded : BOOLEAN, pm : BOOLEAN,
           main : {"off", "loop", "announce", "launch", "sync", "next"},
           run : [Chain -> Runner]]

Event == [kind : {"start", "run", "finish", "other"}, o : 1 .. MaxPods,
          c : Chain, ok : BOOLEAN]

\* A process of the operating system: the pod and the container it runs, whether
\* it ended well, and whether the kubelet that started it still runs.
Process == [uid : 1 .. MaxPods, c : Chain, alive : BOOLEAN, ok : BOOLEAN, child : BOOLEAN]

Dispatch == [ev : Event, left : Seq(Subscribers)]
Call == [op : {"none", "update", "stop", "term"}, rec : Record \cup {Nil},
         c : 1 .. Last + 1, waited : 0 .. Grace]

ASSUME NilAssumption ==
  /\ Nil \notin Pod /\ Nil \notin Record /\ Nil \notin Event /\ Nil \notin Dispatch

VARIABLES
  up, starts,   \* the kubelet runs; how often it was started
  wanted,       \* the pod the API server and the lister have
  pods,         \* how many pods were created
  gone,         \* the last DeletePod succeeded
  db,           \* the record in the database
  objs,         \* the PodProcess objects in memory, with their goroutines
  procs,        \* the processes, by process id
  subs,         \* subscribes: the subscribers in the order of the slice
  joined,       \* the goroutines that have called AddSubscribe
  bus,          \* the event being dispatched and who is still to get it
  recorder, daemon, handler,   \* what each subscriber is working on
  call,         \* the call of the pod controller in progress
  faults

events == <<subs, joined, bus, recorder, daemon, handler>>
vars == <<up, starts, wanted, pods, gone, db, objs, procs, subs, joined, bus,
          recorder, daemon, handler, call, faults>>

NoCall == [op |-> "none", rec |-> Nil, c |-> 1, waited |-> 0]
Off == [at |-> "off", stage |-> 1, ok |-> TRUE]
At(r, at) == [r EXCEPT !.at = at]
alive(pid) == pid # 0 /\ procs[pid].alive

Init ==
  /\ up = FALSE /\ starts = 0
  /\ wanted = Nil /\ pods = 0 /\ gone = FALSE
  /\ db = Nil /\ objs = <<>> /\ procs = <<>>
  /\ subs = <<>> /\ joined = {} /\ bus = Nil
  /\ recorder = Nil /\ daemon = Nil /\ handler = Nil
  /\ call = NoCall /\ faults = 0
-----------------------------------------------------------------------------
(* The life of the kubelet. *)

\* Everything in memory is gone; the processes go on, as orphans.
Dies ==
  /\ up' = FALSE /\ objs' = <<>> /\ call' = NoCall
  /\ subs' = <<>> /\ joined' = {} /\ bus' = Nil
  /\ recorder' = Nil /\ daemon' = Nil /\ handler' = Nil
  /\ procs' = [p \in DOMAIN procs |-> [procs[p] EXCEPT !.child = FALSE]]
  /\ UNCHANGED <<starts, wanted, pods, gone, db, faults>>

\* A new object for a record, and PodProcess.run.
NewObject(rec, loaded) ==
  [rec |-> rec, loaded |-> loaded, pm |-> ~loaded, main |-> "loop",
   run |-> [c \in Chain |-> Off]]

\* Start: the record found in the database is run.
Start ==
  /\ ~up /\ starts < MaxStarts
  /\ up' = TRUE /\ starts' = starts + 1
  /\ objs' = IF db = Nil THEN <<>> ELSE <<NewObject(db, TRUE)>>
  /\ UNCHANGED <<wanted, pods, gone, db, procs, events, call, faults>>

\* pp.pm = m comes after pp.run.
StartSetsManager(o) ==
  /\ ~objs[o].pm
  /\ objs' = [objs EXCEPT ![o].pm = TRUE]
  /\ UNCHANGED <<up, starts, wanted, pods, gone, db, procs, events, call, faults>>

Crash == up /\ starts < MaxStarts /\ Dies
-----------------------------------------------------------------------------
(* The bus. *)

ByBus == UNCHANGED <<up, starts, wanted, pods, gone, procs, call, faults>>

AddSubscribe(s) ==
  /\ up /\ s \notin joined
  /\ InOrder => joined = CASE s = "recorder" -> {}
                           [] s = "daemon" -> {"recorder"}
                           [] s = "handler" -> {"recorder", "daemon"}
  /\ joined' = joined \cup {s}
  /\ subs' = Append(subs, s)
  /\ ByBus /\ UNCHANGED <<db, objs, bus, recorder, daemon, handler>>

\* Two goroutines append to the slice at the same time: one of them is lost.
AddSubscribeRace(s, t) ==
  /\ RacyAppend
  /\ up /\ s # t /\ {s, t} \cap joined = {}
  /\ joined' = joined \cup {s, t}
  /\ subs' = Append(subs, s)
  /\ ByBus /\ UNCHANGED <<db, objs, bus, recorder, daemon, handler>>

\* bus <- event: the sender waits until the dispatcher takes the event.
Send(kind, o, c, ok) ==
  /\ bus = Nil
  /\ bus' = IF subs = <<>> THEN Nil
            ELSE [ev |-> [kind |-> kind, o |-> o, c |-> c, ok |-> ok], left |-> subs]

\* Mutant: the daemon and the handler do not look at the kind of the event.
Deliver_AnyKind ==
  LET ev == bus.ev
      s == Head(bus.left) IN
  /\ bus # Nil
  /\ \/ s = "recorder" /\ recorder = Nil /\ recorder' = objs[ev.o].rec
        /\ UNCHANGED <<daemon, handler>>
     \/ s = "daemon" /\ daemon = Nil /\ daemon' = ev /\ UNCHANGED <<recorder, handler>>
     \/ s = "handler" /\ handler = Nil /\ handler' = ev /\ UNCHANGED <<recorder, daemon>>
  /\ bus' = IF Len(bus.left) = 1 THEN Nil ELSE [bus EXCEPT !.left = Tail(@)]
  /\ ByBus /\ UNCHANGED <<db, objs, subs, joined>>

\* v <- event: the dispatcher waits until the subscriber takes it.  The
\* recorder marshals the PodProcess when it has the event; the daemon and the
\* handler are through at once with an event that is not for them.
Deliver ==
  LET ev == bus.ev
      s == Head(bus.left) IN
  /\ bus # Nil
  /\ \/ s = "recorder" /\ recorder = Nil /\ recorder' = objs[ev.o].rec
        /\ UNCHANGED <<daemon, handler>>
     \/ s = "daemon" /\ daemon = Nil /\ UNCHANGED <<recorder, handler>>
        /\ daemon' = IF ev.kind = "finish" THEN ev ELSE Nil
     \/ s = "handler" /\ handler = Nil /\ UNCHANGED <<recorder, daemon>>
        /\ handler' = IF ev.kind = "other" THEN Nil ELSE ev
  /\ bus' = IF Len(bus.left) = 1 THEN Nil ELSE [bus EXCEPT !.left = Tail(@)]
  /\ ByBus /\ UNCHANGED <<db, objs, subs, joined>>

\* Mutant: the recorder does not write.
RecorderPut_Dropped ==
  /\ recorder # Nil
  /\ recorder' = Nil
  /\ ByBus /\ UNCHANGED <<db, objs, subs, joined, bus, daemon, handler>>

\* Put of the recorder.
RecorderPut ==
  /\ recorder # Nil
  /\ db' = recorder /\ recorder' = Nil
  /\ ByBus /\ UNCHANGED <<objs, subs, joined, bus, daemon, handler>>

\* The container statuses that PodEventHandler indexes: OnPodStart makes them,
\* OnContainerRun and OnFinish tell init containers from containers by
\* initLen < event.index.
OutOfRange(ev) ==
  LET i == ev.c - 1 IN
  /\ ev.kind \in {"run", "finish"}
  /\ \/ ~objs[ev.o].rec.statuses
     \/ Inits < i                            \* InitContainerStatuses[i]
     \/ i < Inits                            \* ContainerStatuses[i - Inits]
     \/ ev.kind = "run" /\ i >= Conts        \* ContainerStatuses[i] = ...

HandlerHandles ==
  /\ handler # Nil /\ ~OutOfRange(handler)
  /\ objs' = IF handler.kind = "start" THEN [objs EXCEPT ![handler.o].rec.statuses = TRUE]
                                       ELSE objs
  /\ handler' = Nil
  /\ ByBus /\ UNCHANGED <<db, subs, joined, bus, recorder, daemon>>

HandlerPanics == handler # Nil /\ OutOfRange(handler) /\ Dies
-----------------------------------------------------------------------------
(* startContainerDaemon. *)

\* Mutant: the restart policy is not looked at.
Restarts_AnyPolicy(ev) ==
  /\ ~Sync(ev.c)
  /\ db # Nil /\ ~db.pod.del
  /\ wanted # Nil /\ db.pod.uid = wanted.uid

\* The tests before cp.run.  The pod of the record is the one CreatePod or
\* UpdatePod was given.
Restarts(ev) ==
  /\ ~Sync(ev.c)
  /\ db # Nil /\ ~db.pod.del
  /\ wanted # Nil /\ db.pod.uid = wanted.uid
  /\ LET policy == objs[ev.o].rec.pod.policy IN
     policy = "Always" \/ (policy = "OnFailure" /\ ~ev.ok)

DaemonRestarts ==
  /\ daemon # Nil /\ Restarts(daemon)
  /\ objs' = [objs EXCEPT ![daemon.o].run[daemon.c] = At(Off, "begin")]
  /\ daemon' = Nil
  /\ ByBus /\ UNCHANGED <<db, subs, joined, bus, recorder, handler>>

DaemonContinues ==
  /\ daemon # Nil /\ ~Restarts(daemon)
  /\ daemon' = Nil
  /\ ByBus /\ UNCHANGED <<db, objs, subs, joined, bus, recorder, handler>>
-----------------------------------------------------------------------------
(* PodProcess.run. *)

ByMain == UNCHANGED <<up, starts, wanted, pods, gone, db, procs, subs, joined,
                      recorder, daemon, handler, call, faults>>
Main(o, at) == objs' = [objs EXCEPT ![o].main = at]

\* The head of the loop.
MainLoops(o) ==
  LET p == objs[o] IN
  /\ p.main = "loop"
  /\ \/ p.rec.idx = Last /\ Main(o, "off")
     \/ /\ p.rec.idx < Last /\ p.pm /\ db # Nil
        /\ Main(o, IF db.pod.del THEN "off"
                   ELSE IF p.rec.idx = 0 THEN "announce" ELSE "launch")
  /\ ByMain /\ UNCHANGED bus

\* p.pm is still nil, or getPod has returned neither a pod nor an error.
MainPanics(o) ==
  /\ objs[o].main = "loop" /\ objs[o].rec.idx < Last
  /\ ~objs[o].pm \/ db = Nil
  /\ Dies

MainAnnounces(o) ==
  /\ objs[o].main = "announce"
  /\ Send("start", o, 1, TRUE)
  /\ Main(o, "launch")
  /\ ByMain

\* Mutant: an init container is not awaited.
MainLaunches_Async(o) ==
  LET c == objs[o].rec.idx + 1 IN
  /\ objs[o].main = "launch"
  /\ objs' = [objs EXCEPT ![o].main = "next", ![o].run[c] = At(Off, "begin")]
  /\ ByMain /\ UNCHANGED bus

\* cp.run: an init container is awaited, a container is not.
MainLaunches(o) ==
  LET c == objs[o].rec.idx + 1 IN
  /\ objs[o].main = "launch"
  /\ objs' = [objs EXCEPT ![o].main = IF Sync(c) THEN "sync" ELSE "next",
                          ![o].run[c] = At(Off, "begin")]
  /\ ByMain /\ UNCHANGED bus

\* index++; p.Index++ when cp.run has returned no error, otherwise try again.
MainAdvances(o) ==
  LET p == objs[o]
      r == p.run[p.rec.idx + 1] IN
  /\ \/ p.main = "next"
     \/ p.main = "sync" /\ r.at = "off"
  /\ objs' = IF p.main = "sync" /\ ~r.ok
             THEN [objs EXCEPT ![o].main = "loop"]
             ELSE [objs EXCEPT ![o].main = "loop", ![o].rec.idx = @ + 1]
  /\ ByMain /\ UNCHANGED bus
-----------------------------------------------------------------------------
(* ContainerProcess.run: container c of object o. *)

ByRunner == UNCHANGED <<up, starts, wanted, pods, gone, db, subs, joined,
                        recorder, daemon, handler, call>>
Quiet == ByRunner /\ UNCHANGED <<bus, procs, faults>>
Tells == ByRunner /\ UNCHANGED <<procs, faults>>

Step(o, c, r) == objs' = [objs EXCEPT ![o].run[c] = r]
Needed(o, c, s) == objs[o].rec.done[c] < s \/ (s = Image /\ PullAlways)
\* Mutant: one stage too many.
AfterStage_OffByOne(s) ==
  IF s > 2 THEN At(Off, "start") ELSE [at |-> "begin", stage |-> s + 1, ok |-> TRUE]

AfterStage(s) == IF s = 2 THEN At(Off, "start")
                 ELSE [at |-> "begin", stage |-> s + 1, ok |-> TRUE]

\* pull and unzip announce that they start, or that there is nothing to do;
\* downloadResource says nothing.
Begins(o, c) ==
  LET r == objs[o].run[c] IN
  /\ r.at = "begin"
  /\ IF r.stage = Image THEN Send("other", o, c, TRUE) ELSE UNCHANGED bus
  /\ Step(o, c, IF Needed(o, c, r.stage) THEN At(r, "work") ELSE AfterStage(r.stage))
  /\ Tells

\* A loaded ContainerProcess has neither image manager nor process manager: it
\* cannot pull, and cannot download what the pod mounts, if it mounts anything.
CanWork(o, s) == ~objs[o].loaded \/ s # Image

Works(o, c) ==
  LET r == objs[o].run[c] IN
  /\ r.at = "work" /\ CanWork(o, r.stage)
  /\ objs' = [objs EXCEPT ![o].run[c] = At(r, "told"),
                          ![o].rec.done[c] = IF @ < r.stage THEN r.stage ELSE @]
  /\ Quiet

WorkFails(o, c) ==
  LET r == objs[o].run[c] IN
  /\ r.at = "work" /\ CanWork(o, r.stage)
  /\ faults < MaxFaults /\ faults' = faults + 1
  /\ Step(o, c, At(r, "failed"))
  /\ ByRunner /\ UNCHANGED <<bus, procs>>

WorkPanics(o, c) ==
  /\ objs[o].run[c].at = "work" /\ objs[o].loaded
  /\ Dies

ToldStage(o, c) ==
  LET r == objs[o].run[c] IN
  /\ r.at = "told"
  /\ Send("other", o, c, TRUE)
  /\ Step(o, c, AfterStage(r.stage))
  /\ Tells

ToldFailure(o, c) ==
  LET r == objs[o].run[c] IN
  /\ r.at = "failed"
  /\ Send("other", o, c, TRUE)
  /\ Step(o, c, At(r, "giveup"))
  /\ Tells

\* Mutant: no finish event for a container that did not get to run.
GivesUp_Silently(o, c) ==
  /\ objs[o].run[c].at = "giveup"
  /\ Step(o, c, [Off EXCEPT !.ok = FALSE])
  /\ Quiet

\* startFunc: the finish event of a container that did not get to run.
GivesUp(o, c) ==
  /\ objs[o].run[c].at = "giveup"
  /\ Send("finish", o, c, FALSE)
  /\ Step(o, c, [Off EXCEPT !.ok = FALSE])
  /\ Tells

\* runProcess: a process that exists is not started again.
FindsProcess(o, c) ==
  LET r == objs[o].run[c] IN
  /\ r.at = "start" /\ alive(objs[o].rec.pid[c])
  /\ Step(o, c, At(r, "wait"))
  /\ Quiet

\* Mutant: the process id of the record is not looked at.
StartsProcess_Again(o, c) ==
  LET r == objs[o].run[c]
      pid == Len(procs) + 1 IN
  /\ r.at = "start" /\ pid <= MaxPids
  /\ procs' = Append(procs, [uid |-> objs[o].rec.pod.uid, c |-> c,
                             alive |-> TRUE, ok |-> FALSE, child |-> TRUE])
  /\ objs' = [objs EXCEPT ![o].run[c] = At(r, "started"), ![o].rec.pid[c] = pid]
  /\ ByRunner /\ UNCHANGED <<bus, faults>>

StartsProcess(o, c) ==
  LET r == objs[o].run[c]
      pid == Len(procs) + 1 IN
  /\ r.at = "start" /\ ~alive(objs[o].rec.pid[c])
  /\ pid <= MaxPids
  /\ procs' = Append(procs, [uid |-> objs[o].rec.pod.uid, c |-> c,
                             alive |-> TRUE, ok |-> FALSE, child |-> TRUE])
  /\ objs' = [objs EXCEPT ![o].run[c] = At(r, "started"), ![o].rec.pid[c] = pid]
  /\ ByRunner /\ UNCHANGED <<bus, faults>>

\* No environment or no output file; or cmd.Start fails.
StartFails(o, c) ==
  LET r == objs[o].run[c] IN
  /\ r.at = "start" /\ ~alive(objs[o].rec.pid[c])
  /\ faults < MaxFaults /\ faults' = faults + 1
  /\ \E at \in {"giveup", "notstarted"} : Step(o, c, At(r, at))
  /\ ByRunner /\ UNCHANGED <<bus, procs>>

\* Mutant: the process is not awaited.
ToldRun_NoWait(o, c) ==
  LET r == objs[o].run[c] IN
  /\ r.at \in {"started", "notstarted"}
  /\ Send("run", o, c, r.at = "started")
  /\ Step(o, c, At(r, IF r.at = "started" THEN "finish" ELSE "giveup"))
  /\ Tells

ToldRun(o, c) ==
  LET r == objs[o].run[c] IN
  /\ r.at \in {"started", "notstarted"}
  /\ Send("run", o, c, r.at = "started")
  /\ Step(o, c, At(r, IF r.at = "started" THEN "wait" ELSE "giveup"))
  /\ Tells

\* waitProcessDead: waiting for a process that is not a child is an error.
Waited(o, c) ==
  LET r == objs[o].run[c]
      p == procs[objs[o].rec.pid[c]] IN
  /\ r.at = "wait"
  /\ ~p.alive \/ ~p.child
  /\ Step(o, c, [r EXCEPT !.at = "finish", !.ok = p.child /\ p.ok])
  /\ Quiet

ToldFinish(o, c) ==
  LET r == objs[o].run[c] IN
  /\ r.at = "finish"
  /\ Send("finish", o, c, r.ok)
  /\ Step(o, c, Off)
  /\ Tells
-----------------------------------------------------------------------------
(* The operating system: a process exits by itself.  The bound leaves room  *)
(* for its successor.                                                       *)

ProcessExits(pid) ==
  /\ procs[pid].alive /\ Len(procs) < MaxPids
  /\ \E ok \in BOOLEAN : procs' = [procs EXCEPT ![pid] = [@ EXCEPT !.alive = FALSE, !.ok = ok]]
  /\ UNCHANGED <<up, starts, wanted, pods, gone, db, objs, events, call, faults>>
-----------------------------------------------------------------------------
(* The API server, and the calls the pod controller makes for the key: one  *)
(* at a time, GetPod deciding which.                                        *)

ByUser == UNCHANGED <<up, starts, db, objs, procs, events, call, faults>>

UserCreates ==
  /\ wanted = Nil /\ pods < MaxPods
  /\ pods' = pods + 1 /\ gone' = FALSE
  /\ \E policy \in Policies :
       wanted' = [uid |-> pods', ver |-> 1, del |-> FALSE, policy |-> policy]
  /\ ByUser

UserUpdates ==
  /\ wanted # Nil /\ ~wanted.del /\ wanted.ver < MaxVersions
  /\ wanted' = [wanted EXCEPT !.ver = @ + 1]
  /\ UNCHANGED <<pods, gone>> /\ ByUser

UserDeletes ==
  /\ wanted # Nil /\ ~wanted.del
  /\ wanted' = [wanted EXCEPT !.del = TRUE]
  /\ UNCHANGED <<pods, gone>> /\ ByUser

\* The pod controller removes the pod once DeletePod has succeeded.
ApiRemoves ==
  /\ wanted # Nil /\ wanted.del /\ gone
  /\ wanted' = Nil
  /\ UNCHANGED <<pods, gone>> /\ ByUser

ByCall == UNCHANGED <<up, starts, wanted, pods, events, faults>>
Calls == up /\ call = NoCall /\ wanted # Nil

\* RunPod: convertPod2Process, Put, run.
CreatePod ==
  LET rec == [pod |-> wanted, idx |-> 0, pid |-> [c \in Chain |-> 0],
              done |-> [c \in Chain |-> 0], statuses |-> FALSE] IN
  /\ Calls /\ ~wanted.del /\ db = Nil
  /\ LateSubscribers \/ joined = Subscribers
  /\ db' = rec
  /\ objs' = Append(objs, NewObject(rec, FALSE))
  /\ ByCall /\ UNCHANGED <<gone, procs, call>>

\* UpdatePod: Get, then Put.  The pod comes with the API server's status.
UpdatePodGets ==
  /\ Calls /\ ~wanted.del /\ db # Nil /\ db.pod.ver # wanted.ver
  /\ \E statuses \in {FALSE, db.statuses} :
       call' = [NoCall EXCEPT !.op = "update",
                              !.rec = [db EXCEPT !.pod = wanted, !.statuses = statuses]]
  /\ ByCall /\ UNCHANGED <<gone, db, objs, procs>>

UpdatePodPuts ==
  /\ call.op = "update"
  /\ db' = call.rec /\ call' = NoCall
  /\ ByCall /\ UNCHANGED <<gone, objs, procs>>

\* Mutant: a record that is gone is an error.
DeletePodGets_NotFound ==
  /\ Calls /\ wanted.del /\ ~gone /\ db # Nil
  /\ call' = [NoCall EXCEPT !.op = "stop", !.rec = db]
  /\ ByCall /\ UNCHANGED <<gone, db, objs, procs>>

\* DeletePod works on its own copy of the record.
DeletePodGets ==
  /\ Calls /\ wanted.del /\ ~gone
  /\ IF db = Nil THEN gone' = TRUE /\ UNCHANGED call
     ELSE call' = [NoCall EXCEPT !.op = "stop", !.rec = db] /\ UNCHANGED gone
  /\ ByCall /\ UNCHANGED <<db, objs, procs>>

\* Mutant: the container at Index is left out.
Running_Before(rec) == {c \in Chain : c <= rec.idx}

\* getRuningContainerProcess: containers up to and including Index.
Running(rec) == {c \in Chain : c <= rec.idx + 1}

\* ContainerProcess.stop: SIGTERM.  No process, or one that has finished, is
\* no error.
StopTerms ==
  LET c == call.c IN
  /\ call.op = "stop" /\ c \in Running(call.rec)
  /\ call' = IF alive(call.rec.pid[c]) THEN [call EXCEPT !.op = "term", !.waited = 0]
                                       ELSE [call EXCEPT !.c = @ + 1]
  /\ ByCall /\ UNCHANGED <<gone, db, objs, procs>>

\* Time, in seconds since the SIGTERM.
Tick ==
  /\ call.op = "term" /\ call.waited < Grace
  /\ call' = [call EXCEPT !.waited = @ + 1]
  /\ ByCall /\ UNCHANGED <<gone, db, objs, procs>>

\* time.Duration(terminationSeconds) counts nanoseconds: it has passed at some
\* instant of the second waited + 1.
Second == 1000000000
Expired == (call.waited + 1) * Second > Grace

\* SIGKILL to the process group.  A group that is gone is an error, and
\* DeletePod returns it.
StopKills ==
  LET pid == call.rec.pid[call.c]
      next == [call EXCEPT !.op = "stop", !.c = @ + 1, !.waited = 0] IN
  /\ call.op = "term" /\ Expired
  /\ IF alive(pid)
     THEN /\ procs' = [procs EXCEPT ![pid].alive = FALSE]
          /\ call' = next
     ELSE /\ call' \in {next, NoCall}
          /\ UNCHANGED procs
  /\ ByCall /\ UNCHANGED <<gone, db, objs>>

DeletePodRemoves ==
  /\ call.op = "stop" /\ call.c \notin Running(call.rec)
  /\ db' = Nil /\ gone' = TRUE /\ call' = NoCall
  /\ ByCall /\ UNCHANGED <<objs, procs>>
-----------------------------------------------------------------------------
Containers(o, c) ==
  \/ Begins(o, c) \/ Works(o, c) \/ WorkFails(o, c) \/ WorkPanics(o, c)
  \/ ToldStage(o, c) \/ ToldFailure(o, c) \/ GivesUp(o, c)
  \/ FindsProcess(o, c) \/ StartsProcess(o, c) \/ StartFails(o, c)
  \/ ToldRun(o, c) \/ Waited(o, c) \/ ToldFinish(o, c)

Mains(o) == \/ MainLoops(o) \/ MainPanics(o) \/ MainAnnounces(o)
            \/ MainLaunches(o) \/ MainAdvances(o)

Bus == \/ \E s \in Subscribers : AddSubscribe(s)
       \/ \E s, t \in Subscribers : AddSubscribeRace(s, t)
       \/ Deliver \/ RecorderPut \/ HandlerHandles \/ HandlerPanics
       \/ DaemonRestarts \/ DaemonContinues

Users == UserCreates \/ UserUpdates \/ UserDeletes \/ ApiRemoves

Controller ==
  \/ CreatePod \/ UpdatePodGets \/ UpdatePodPuts
  \/ DeletePodGets \/ StopTerms \/ Tick \/ StopKills \/ DeletePodRemoves

Next ==
  \/ Start \/ Crash
  \/ \E o \in DOMAIN objs : StartSetsManager(o) \/ Mains(o)
  \/ \E o \in DOMAIN objs, c \in Chain : Containers(o, c)
  \/ \E pid \in DOMAIN procs : ProcessExits(pid)
  \/ Bus \/ Users \/ Controller

Spec == Init /\ [][Next]_vars

\* The types of the record, the PodProcess objects, the processes, the bus and
\* the calls of process_manager.go.
TypeOK ==
  /\ up \in BOOLEAN /\ starts \in 0 .. MaxStarts
  /\ wanted \in Pod \cup {Nil} /\ pods \in 0 .. MaxPods /\ gone \in BOOLEAN
  /\ db \in Record \cup {Nil} /\ recorder \in Record \cup {Nil}
  /\ objs \in Seq(Object) /\ Len(objs) <= MaxPods
  /\ procs \in Seq(Process) /\ Len(procs) <= MaxPids
  /\ subs \in Seq(Subscribers) /\ joined \subseteq Subscribers
  /\ bus \in Dispatch \cup {Nil} /\ (bus # Nil => bus.left # <<>>)
  /\ daemon \in Event \cup {Nil} /\ handler \in Event \cup {Nil}
  /\ call \in Call /\ faults \in 0 .. MaxFaults
-----------------------------------------------------------------------------
(* Properties. *)

Runs(o, c) == objs[o].run[c].at \in {"started", "wait"}

\* Every process this kubelet has started is looked after until it is dead: a
\* goroutine of its container is on its way to processWaiter or in it, and no
\* restart by the daemon takes the container away from it.
Supervised ==
  \A pid \in DOMAIN procs :
    procs[pid].alive /\ procs[pid].child =>
      \E o \in DOMAIN objs, c \in Chain : Runs(o, c) /\ objs[o].rec.pid[c] = pid

\* In one life of the kubelet a container has a second process only after the
\* first is dead and if the restart policy asks for one: never with Never, with
\* OnFailure only after a failure.
PolicyRespected ==
  starts = 1 => \A o \in DOMAIN objs, p, q \in DOMAIN procs :
    /\ p < q /\ procs[p].c = procs[q].c
    /\ procs[p].uid = procs[q].uid /\ procs[q].uid = objs[o].rec.pod.uid
    => /\ ~procs[p].alive
       /\ objs[o].rec.pod.policy # "Never"
       /\ objs[o].rec.pod.policy = "OnFailure" => ~procs[p].ok

\* PodProcess.run starts a container when the process of every init container
\* has come and gone, in one life of the kubelet.
InitFirst ==
  starts = 1 => \A q \in DOMAIN procs, i \in Chain :
    Sync(i) /\ ~Sync(procs[q].c) =>
      /\ \E p \in DOMAIN procs : p < q /\ procs[p].c = i /\ procs[p].uid = procs[q].uid
      /\ \A p \in DOMAIN procs :
           procs[p].c = i /\ procs[p].uid = procs[q].uid => ~procs[p].alive

\* runProcess does not start a process for a container while one of the pod that
\* the database record has is alive, also after a restart of the kubelet.
RecordedNotDuplicated ==
  [][\A o \in DOMAIN objs, c \in Chain :
       StartsProcess(o, c) =>
         ~(/\ db # Nil /\ db.pod.uid = objs[o].rec.pod.uid
           /\ alive(db.pid[c]) /\ procs[db.pid[c]].uid = db.pod.uid)]_vars

\* When DeletePod removes the record, every process of the record it has read
\* is dead.
DeleteKillsRecorded ==
  [][DeletePodRemoves => \A c \in Chain : ~alive(call.rec.pid[c])]_vars

\* A pod that is to be deleted is not restarted by the container daemon.
NoRestartOfDeleted ==
  [][DaemonRestarts => ~(wanted.del /\ wanted.uid = objs[daemon.o].rec.pod.uid)]_vars

-----------------------------------------------------------------------------
(* Goroutines are scheduled, the supervisor restarts the kubelet, the queue *)
(* retries calls, time passes.  Failures, exits and users need not happen.  *)

Proceeds(o, c) ==
  \/ Begins(o, c) \/ Works(o, c) \/ WorkPanics(o, c) \/ ToldStage(o, c)
  \/ ToldFailure(o, c) \/ GivesUp(o, c) \/ FindsProcess(o, c)
  \/ StartsProcess(o, c) \/ ToldRun(o, c) \/ Waited(o, c) \/ ToldFinish(o, c)

Fairness ==
  /\ WF_vars(Start)
  /\ \A s \in Subscribers : WF_vars(AddSubscribe(s))
  /\ WF_vars(Deliver) /\ WF_vars(RecorderPut)
  /\ WF_vars(HandlerHandles \/ HandlerPanics)
  /\ WF_vars(DaemonRestarts \/ DaemonContinues)
  /\ \A o \in 1 .. MaxPods :
       /\ WF_vars(o \in DOMAIN objs /\ StartSetsManager(o))
       /\ WF_vars(o \in DOMAIN objs /\ Mains(o))
       /\ \A c \in Chain : WF_vars(o \in DOMAIN objs /\ Proceeds(o, c))
  /\ WF_vars(Controller) /\ WF_vars(ApiRemoves)

FairSpec == Spec /\ Fairness

\* startContainerDaemon: while the kubelet is up, a pod with restart policy
\* Always has a running process again and again until it is deleted.
KeepsRunning ==
  \A u \in 1 .. MaxPods :
    wanted # Nil /\ wanted.uid = u /\ wanted.policy = "Always" ~>
      \/ \E pid \in DOMAIN procs : procs[pid].uid = u /\ procs[pid].alive
      \/ wanted = Nil \/ wanted.del \/ ~up

\* DeletePod, which an error makes the queue repeat, succeeds in the end.
DeletionSucceeds == wanted # Nil /\ wanted.del ~> gone

\* The recorder brings the process id of a running container to the database,
\* where DeletePod and the next kubelet look for it.
RecordCatchesUp ==
  \A o \in 1 .. MaxPods, c \in Chain :
    (o \in DOMAIN objs /\ objs[o].run[c].at = "wait") ~>
      \/ o \notin DOMAIN objs \/ objs[o].run[c].at # "wait"
      \/ db = Nil \/ db.pod.uid # objs[o].rec.pod.uid
      \/ db.pid[c] = objs[o].rec.pid[c]
=============================================================================
