---------------------------- MODULE ImageManager ----------------------------
(***************************************************************************)
(* The native provider's image manager (image_manager.go): goroutines of   *)
(* containers that pull an image and then unzip it.  The database and the  *)
(* archive files survive the kubelet, the map of running pulls does not.   *)
(* containers/image (cc.Image) is external: its docker-archive writer      *)
(* creates the archive, refuses one that has content, and shares one that  *)
(* another writer has just created and that is still empty.                *)
(***************************************************************************)
EXTENDS Naturals

CONSTANTS
  Nil,
  Callers,     \* goroutines that need an image
  Names,       \* image names
  ImageOf,     \* the image each caller needs
  Files,       \* archive files
  Dest,        \* imageDestDir: the archive file of a name
  MaxCalls,    \* bound: calls of PullImage
  MaxFaults,   \* bound: failing pulls
  MaxCrashes   \* bound: crashes of the kubelet

\* An archive file: who writes it, of which image, how far.
Archive == [by : SUBSET Callers, image : Names, size : {"empty", "some", "all", "mixed"}]

ASSUME ImageManagerAssumption ==
  /\ ImageOf \in [Callers -> Names] /\ Dest \in [Names -> Files]
  /\ Nil \notin Callers \cup Archive
  /\ {MaxCalls, MaxFaults, MaxCrashes} \subseteq Nat

VARIABLES
  at,        \* where each caller is in PullImage and UnzipImage
  calls,     \* how often PullImage was called
  awaits,    \* the ImagePulling whose channel it waits for, by its caller
  result,    \* what the last call returned
  pulling,   \* m.pulling: the caller whose ImagePulling is stored for a name
  imageDb,   \* names in the database
  archive,   \* the archive files
  faults, crashes

vars == <<at, calls, awaits, result, pulling, imageDb, archive, faults, crashes>>

Writing == {"delete", "open", "copy", "put"}
PCs == {"idle", "check", "load", "wait", "store", "unmap", "close", "unzip"} \cup Writing

Init ==
  /\ at = [p \in Callers |-> "idle"]
  /\ calls = 0
  /\ awaits = [p \in Callers |-> Nil]
  /\ result = [p \in Callers |-> "none"]
  /\ pulling = [n \in Names |-> Nil]
  /\ imageDb = {} /\ archive = [f \in Files |-> Nil]
  /\ faults = 0 /\ crashes = 0

Goes(p, from, to) == at[p] = from /\ at' = [at EXCEPT ![p] = to]
Kept == UNCHANGED <<calls, crashes>>

PullImage(p) ==
  /\ Goes(p, "idle", "check") /\ calls < MaxCalls
  /\ calls' = calls + 1
  /\ result' = [result EXCEPT ![p] = "none"]
  /\ UNCHANGED <<awaits, pulling, imageDb, archive, faults, crashes>>

\* m.imageDb.Has: an image in the database is not pulled again.
Check(p) ==
  /\ at[p] = "check"
  /\ at' = [at EXCEPT ![p] = IF ImageOf[p] \in imageDb THEN "unzip" ELSE "load"]
  /\ Kept /\ UNCHANGED <<awaits, result, pulling, imageDb, archive, faults>>

Load(p) ==
  LET v == pulling[ImageOf[p]] IN
  /\ at[p] = "load"
  /\ at' = [at EXCEPT ![p] = IF v = Nil THEN "store" ELSE "wait"]
  /\ awaits' = [awaits EXCEPT ![p] = v]
  /\ Kept /\ UNCHANGED <<result, pulling, imageDb, archive, faults>>

\* <-pull.ch, goto check: closing a channel lets everyone go who waits for it.
Waited(p) ==
  /\ at[p] = "wait" /\ awaits[p] = Nil
  /\ at' = [at EXCEPT ![p] = "check"]
  /\ Kept /\ UNCHANGED <<awaits, result, pulling, imageDb, archive, faults>>

\* LoadOrStore, whose result is not looked at.
Store(p) ==
  /\ Goes(p, "store", "delete")
  /\ pulling' = [pulling EXCEPT ![ImageOf[p]] = IF @ = Nil THEN p ELSE @]
  /\ Kept /\ UNCHANGED <<awaits, result, imageDb, archive, faults>>

\* deleteExistImage: a writer goes on with the file that has lost its name.
DeleteExistImage(p) ==
  /\ Goes(p, "delete", "open")
  /\ archive' = [archive EXCEPT ![Dest[ImageOf[p]]] = Nil]
  /\ Kept /\ UNCHANGED <<awaits, result, pulling, imageDb, faults>>

Fail(p) ==
  /\ at' = [at EXCEPT ![p] = "unmap"]
  /\ result' = [result EXCEPT ![p] = "error"]

\* cc.Image opens the archive.
Open(p) ==
  LET f == Dest[ImageOf[p]]
      a == archive[f] IN
  /\ at[p] = "open"
  /\ \/ /\ a = Nil
        /\ at' = [at EXCEPT ![p] = "copy"]
        /\ archive' = [archive EXCEPT ![f] = [by |-> {p}, image |-> ImageOf[p], size |-> "empty"]]
        /\ UNCHANGED result
     \/ /\ a # Nil /\ a.size = "empty"
        /\ at' = [at EXCEPT ![p] = "copy"]
        /\ archive' = [archive EXCEPT ![f].by = @ \cup {p}]
        /\ UNCHANGED result
     \/ /\ a # Nil /\ a.size # "empty"
        /\ Fail(p) /\ UNCHANGED archive
  /\ Kept /\ UNCHANGED <<awaits, pulling, imageDb, faults>>

\* Its writer, and no other, has the file that bears the name.
Writes(p, f, size) ==
  LET a == archive[f] IN
  archive' = IF a # Nil /\ p \in a.by
             THEN [archive EXCEPT ![f].size = IF a.by = {p} THEN size ELSE "mixed"]
             ELSE archive

CopySome(p) ==
  LET a == archive[Dest[ImageOf[p]]] IN
  /\ at[p] = "copy" /\ a # Nil /\ p \in a.by /\ a.size = "empty"
  /\ Writes(p, Dest[ImageOf[p]], "some")
  /\ Kept /\ UNCHANGED <<at, awaits, result, pulling, imageDb, faults>>

CopyEnds(p) ==
  /\ Goes(p, "copy", "put")
  /\ Writes(p, Dest[ImageOf[p]], "all")
  /\ Kept /\ UNCHANGED <<awaits, result, pulling, imageDb, faults>>

\* Mutant: the error of cc.Image is not returned.
PullFails_Ignored(p) ==
  /\ at[p] \in {"open", "copy"} /\ faults < MaxFaults
  /\ faults' = faults + 1
  /\ at' = [at EXCEPT ![p] = "put"]
  /\ Kept /\ UNCHANGED <<awaits, result, pulling, imageDb, archive>>

\* The log file cannot be opened, the registry fails or the time is up.
PullFails(p) ==
  /\ at[p] \in {"open", "copy"} /\ faults < MaxFaults
  /\ faults' = faults + 1
  /\ Fail(p)
  /\ Kept /\ UNCHANGED <<awaits, pulling, imageDb, archive>>

Put(p) ==
  /\ Goes(p, "put", "unmap")
  /\ imageDb' = imageDb \cup {ImageOf[p]}
  /\ result' = [result EXCEPT ![p] = "pulled"]
  /\ Kept /\ UNCHANGED <<awaits, pulling, archive, faults>>

\* The deferred calls: m.pulling.Delete(name), whoever is stored there, ...
Unmap(p) ==
  /\ Goes(p, "unmap", "close")
  /\ pulling' = [pulling EXCEPT ![ImageOf[p]] = Nil]
  /\ Kept /\ UNCHANGED <<awaits, result, imageDb, archive, faults>>

\* Mutant: the channel is not closed.
Close_Forgotten(p) ==
  /\ at[p] = "close"
  /\ at' = [at EXCEPT ![p] = IF result[p] = "error" THEN "idle" ELSE "unzip"]
  /\ Kept /\ UNCHANGED <<awaits, result, pulling, imageDb, archive, faults>>

\* ... and close(pulling.ch).
Close(p) ==
  /\ at[p] = "close"
  /\ at' = [at EXCEPT ![p] = IF result[p] = "error" THEN "idle" ELSE "unzip"]
  /\ awaits' = [q \in Callers |-> IF awaits[q] = p THEN Nil ELSE awaits[q]]
  /\ Kept /\ UNCHANGED <<result, pulling, imageDb, archive, faults>>

\* UnzipImage: the archive of the database entry, unpacked layer by layer.
UnzipImage(p) ==
  LET a == archive[Dest[ImageOf[p]]] IN
  /\ Goes(p, "unzip", "idle")
  /\ result' = [result EXCEPT ![p] =
       IF a = Nil \/ (a # Nil /\ a.size # "all") THEN "broken"
       ELSE IF a.image = ImageOf[p] THEN "unzipped" ELSE "other"]
  /\ Kept /\ UNCHANGED <<awaits, pulling, imageDb, archive, faults>>

Crash ==
  /\ crashes < MaxCrashes /\ crashes' = crashes + 1
  /\ at' = [p \in Callers |-> "idle"]
  /\ awaits' = [p \in Callers |-> Nil]
  /\ result' = [p \in Callers |-> "none"]
  /\ pulling' = [n \in Names |-> Nil]
  /\ archive' = [f \in Files |-> IF archive[f] = Nil THEN Nil
                                 ELSE [archive[f] EXCEPT !.by = {}]]
  /\ UNCHANGED <<calls, imageDb, faults>>

Proceeds(p) ==
  \/ Check(p) \/ Load(p) \/ Waited(p) \/ Store(p) \/ DeleteExistImage(p)
  \/ Open(p) \/ CopyEnds(p) \/ Put(p) \/ Unmap(p) \/ Close(p) \/ UnzipImage(p)

Next ==
  \/ \E p \in Callers : Proceeds(p) \/ PullImage(p) \/ CopySome(p) \/ PullFails(p)
  \/ Crash

Spec == Init /\ [][Next]_vars
FairSpec == Spec /\ \A p \in Callers : WF_vars(Proceeds(p))
-----------------------------------------------------------------------------
\* The types of the map of pulls, the database, the archives and the callers of
\* image_manager.go.
TypeOK ==
  /\ at \in [Callers -> PCs]
  /\ calls \in 0 .. MaxCalls
  /\ awaits \in [Callers -> Callers \cup {Nil}]
  /\ result \in [Callers -> {"none", "error", "pulled", "unzipped", "broken", "other"}]
  /\ pulling \in [Names -> Callers \cup {Nil}]
  /\ imageDb \subseteq Names
  /\ archive \in [Files -> Archive \cup {Nil}]
  /\ faults \in 0 .. MaxFaults /\ crashes \in 0 .. MaxCrashes

\* An image that the database has is there, complete and its own: PullImage
\* returns at once for it and UnzipImage reads it, whatever failed, timed out
\* or crashed before.  This is so for an image that one goroutine needs and
\* whose archive file no other image has; two pulls at a time can break it.
Alone(n) ==
  /\ \A p, q \in Callers : ImageOf[p] = n /\ ImageOf[q] = n => p = q
  /\ \A m \in Names : Dest[m] = Dest[n] => m = n
RecordedIsComplete ==
  \A n \in imageDb : Alone(n) =>
    LET a == archive[Dest[n]] IN a # Nil /\ a.image = n /\ a.size = "all"

\* A caller that waits for a pull waits for one that is under way and will
\* close its channel.
WaitsForPuller ==
  \A p \in Callers :
    at[p] = "wait" /\ awaits[p] # Nil =>
      /\ ImageOf[awaits[p]] = ImageOf[p]
      /\ at[awaits[p]] \in Writing \cup {"unmap", "close"}

\* Every call of PullImage returns, also those that wait for another's pull.
PullReturns == \A p \in Callers : at[p] = "check" ~> at[p] \in {"idle", "unzip"}
=============================================================================
