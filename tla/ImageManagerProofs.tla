------------------------- MODULE ImageManagerProofs -------------------------
(***************************************************************************)
(* Proofs about ImageManager, for any callers, images, files, failures and *)
(* crashes.                                                                *)
(***************************************************************************)
EXTENDS ImageManager, TLAPS

-----------------------------------------------------------------------------
(* Waiting                                                                 *)

Pulls(p) == at[p] \in Writing \cup {"unmap", "close"}

\* The ImagePulling that is stored for an image, and the one whose channel
\* somebody waits for, belong to a pull of that image that is under way.
WaitInv ==
  /\ at \in [Callers -> PCs]
  /\ awaits \in [Callers -> Callers \cup {Nil}]
  /\ pulling \in [Names -> Callers \cup {Nil}]
  /\ \A n \in Names : pulling[n] # Nil =>
       ImageOf[pulling[n]] = n /\ at[pulling[n]] \in Writing \cup {"unmap"}
  /\ \A p \in Callers : awaits[p] # Nil =>
       ImageOf[awaits[p]] = ImageOf[p] /\ Pulls(awaits[p])

\* Nobody pulls and nobody waits.
LEMMA InitWait == Init => WaitInv
BY ImageManagerAssumption, SMTT(40) DEF Init, WaitInv, PCs

\* A pull leaves the map before it closes its channel, and closing the channel
\* lets everyone go who waits for it.
LEMMA NextWait == WaitInv /\ [Next]_vars => WaitInv'
<1> SUFFICES ASSUME WaitInv, [Next]_vars
             PROVE  WaitInv'
    OBVIOUS
<1> USE ImageManagerAssumption DEF WaitInv, Pulls, PCs, Writing
<1>1. CASE Crash
  BY <1>1 DEF Crash
<1>2. CASE UNCHANGED vars
  BY <1>2 DEF vars
<1>3. ASSUME NEW p \in Callers, PullImage(p) \/ Check(p) \/ Waited(p)
      PROVE  WaitInv'
  BY <1>3 DEF PullImage, Goes, Check, Waited
<1>4. ASSUME NEW p \in Callers, Load(p)
      PROVE  WaitInv'
  BY <1>4 DEF Load
<1>5. ASSUME NEW p \in Callers, Store(p)
      PROVE  WaitInv'
  BY <1>5 DEF Store, Goes
<1>6. ASSUME NEW p \in Callers,
             DeleteExistImage(p) \/ CopySome(p) \/ CopyEnds(p) \/ PullFails(p) \/ Put(p)
      PROVE  WaitInv'
  BY <1>6 DEF DeleteExistImage, CopySome, CopyEnds, PullFails, Put, Goes, Fail
<1>7. ASSUME NEW p \in Callers, Open(p)
      PROVE  WaitInv'
  BY <1>7 DEF Open, Fail
<1>8. ASSUME NEW p \in Callers, Unmap(p)
      PROVE  WaitInv'
  <2>1. /\ at[p] = "unmap" /\ at' = [at EXCEPT ![p] = "close"]
        /\ pulling' = [pulling EXCEPT ![ImageOf[p]] = Nil] /\ awaits' = awaits
    BY <1>8 DEF Unmap, Goes
  <2> QED
    BY <2>1
<1>9. ASSUME NEW p \in Callers, Close(p)
      PROVE  WaitInv'
  BY <1>9 DEF Close
<1>10. ASSUME NEW p \in Callers, UnzipImage(p)
       PROVE  WaitInv'
  BY <1>10 DEF UnzipImage, Goes
<1> QED
  BY <1>1, <1>2, <1>3, <1>4, <1>5, <1>6, <1>7, <1>8, <1>9, <1>10 DEF Next, Proceeds

\* Whoever waits for a pull waits for one that is under way and will close its
\* channel, also when another puller has taken the entry from the map.
THEOREM WaitsForPullerThm == Spec => []WaitsForPuller
<1>1. WaitInv => WaitsForPuller
  BY DEF WaitInv, WaitsForPuller, Pulls
<1> QED
  BY <1>1, InitWait, NextWait, PTL DEF Spec

-----------------------------------------------------------------------------
(* Archives                                                                *)

\* For an image that one caller needs: while that caller pulls, the archive is
\* its own, and once the image is recorded it does not pull again.
ArchiveInv ==
  /\ at \in [Callers -> PCs]
  /\ imageDb \subseteq Names
  /\ archive \in [Files -> Archive \cup {Nil}]
  /\ \A p \in Callers : Alone(ImageOf[p]) =>
       LET a == archive[Dest[ImageOf[p]]] IN
       /\ at[p] = "open" => a = Nil
       /\ at[p] \in {"copy", "put"} => a # Nil /\ a.by = {p} /\ a.image = ImageOf[p]
       /\ at[p] = "put" => a.size = "all"
       /\ ImageOf[p] \in imageDb => at[p] \notin Writing \cup {"load", "wait", "store"}
  /\ RecordedIsComplete

\* No image is recorded at first.
LEMMA InitArchive == Init => ArchiveInv
BY ImageManagerAssumption DEF Init, ArchiveInv, PCs, Writing, RecordedIsComplete

\* The file of an image that is alone belongs to no other image, and the image
\* to no other caller.
LEMMA OwnFile ==
  ASSUME NEW p \in Callers, NEW n \in Names, Alone(n)
  PROVE  /\ ImageOf[p] # n => Dest[ImageOf[p]] # Dest[n]
         /\ \A q \in Callers : ImageOf[p] = n /\ ImageOf[q] = n => p = q
BY ImageManagerAssumption DEF Alone

\* A step of caller p that changes at most p's place, the archive of its image
\* and what the database says of it keeps the invariant if it does so for p.
LEMMA StepOf ==
  ASSUME ArchiveInv, NEW p \in Callers,
         at' \in [Callers -> PCs], \A q \in Callers \ {p} : at'[q] = at[q],
         imageDb' \subseteq Names, imageDb' \ {ImageOf[p]} = imageDb \ {ImageOf[p]},
         archive' \in [Files -> Archive \cup {Nil}],
         \A f \in Files \ {Dest[ImageOf[p]]} : archive'[f] = archive[f],
         Alone(ImageOf[p]) =>
           LET a == archive'[Dest[ImageOf[p]]] IN
           /\ at'[p] = "open" => a = Nil
           /\ at'[p] \in {"copy", "put"} => a # Nil /\ a.by = {p} /\ a.image = ImageOf[p]
           /\ at'[p] = "put" => a.size = "all"
           /\ ImageOf[p] \in imageDb' =>
                /\ at'[p] \notin Writing \cup {"load", "wait", "store"}
                /\ a # Nil /\ a.image = ImageOf[p] /\ a.size = "all"
  PROVE  ArchiveInv'
<1>1. ASSUME NEW q \in Callers, Alone(ImageOf[q]), q # p
      PROVE  LET a == archive'[Dest[ImageOf[q]]] IN
             /\ at'[q] = "open" => a = Nil
             /\ at'[q] \in {"copy", "put"} => a # Nil /\ a.by = {q} /\ a.image = ImageOf[q]
             /\ at'[q] = "put" => a.size = "all"
             /\ ImageOf[q] \in imageDb' => at'[q] \notin Writing \cup {"load", "wait", "store"}
  <2>1. ImageOf[q] \in Names /\ Dest[ImageOf[q]] \in Files
    BY ImageManagerAssumption
  <2>2. ImageOf[p] # ImageOf[q] /\ Dest[ImageOf[p]] # Dest[ImageOf[q]]
    BY <1>1, <2>1, OwnFile
  <2>3. /\ archive'[Dest[ImageOf[q]]] = archive[Dest[ImageOf[q]]]
        /\ at'[q] = at[q]
        /\ ImageOf[q] \in imageDb' <=> ImageOf[q] \in imageDb
    BY <1>1, <2>1, <2>2
  <2> QED
    BY <1>1, <2>3 DEF ArchiveInv
<1>2. ASSUME NEW n \in imageDb', Alone(n)
      PROVE  archive'[Dest[n]] # Nil /\ archive'[Dest[n]].image = n
             /\ archive'[Dest[n]].size = "all"
  <2>1. CASE n = ImageOf[p]
    BY <1>2, <2>1
  <2>2. CASE n # ImageOf[p]
    <3>1. n \in Names /\ n \in imageDb /\ Dest[n] \in Files
      BY <1>2, <2>2, ImageManagerAssumption
    <3>2. archive'[Dest[n]] = archive[Dest[n]]
      BY <1>2, <2>2, <3>1, OwnFile
    <3> QED
      BY <1>2, <3>1, <3>2 DEF ArchiveInv, RecordedIsComplete
  <2> QED
    BY <2>1, <2>2
<1>3. RecordedIsComplete'
  BY <1>2, SMTT(40) DEF RecordedIsComplete, Alone
<1> QED
  BY <1>1, <1>3 DEF ArchiveInv, Alone

\* The places of a caller that has begun to pull and has not recorded the image.
Pulling == Writing \cup {"load", "wait", "store"}

\* A caller that only changes its place keeps the invariant, unless it begins to
\* pull what is recorded.
LEMMA MoveOf ==
  ASSUME ArchiveInv, NEW p \in Callers, NEW to \in PCs \ {"open", "copy", "put"},
         at' = [at EXCEPT ![p] = to], imageDb' = imageDb, archive' = archive,
         Alone(ImageOf[p]) /\ ImageOf[p] \in imageDb => to \notin Pulling
  PROVE  ArchiveInv'
<1>1. at \in [Callers -> PCs]
  BY DEF ArchiveInv
<1>2. at' \in [Callers -> PCs] /\ at'[p] = to /\ \A q \in Callers \ {p} : at'[q] = at[q]
  BY <1>1
<1>3. RecordedIsComplete'
  BY DEF ArchiveInv, RecordedIsComplete, Alone
<1>4. ASSUME NEW q \in Callers, Alone(ImageOf[q])
      PROVE  LET a == archive'[Dest[ImageOf[q]]] IN
             /\ at'[q] = "open" => a = Nil
             /\ at'[q] \in {"copy", "put"} => a # Nil /\ a.by = {q} /\ a.image = ImageOf[q]
             /\ at'[q] = "put" => a.size = "all"
             /\ ImageOf[q] \in imageDb' => at'[q] \notin Writing \cup {"load", "wait", "store"}
  <2>1. CASE q = p
    BY <1>2, <1>4, <2>1 DEF Pulling
  <2>2. CASE q # p
    <3>1. at'[q] = at[q]
      BY <1>2, <2>2
    <3> QED
      BY <1>4, <3>1 DEF ArchiveInv
  <2> QED
    BY <2>1, <2>2
<1> QED
  BY <1>2, <1>3, <1>4 DEF ArchiveInv, Alone

\* Every step keeps the invariant.
LEMMA NextArchive == ArchiveInv /\ [Next]_vars => ArchiveInv'
<1> SUFFICES ASSUME ArchiveInv, [Next]_vars
             PROVE  ArchiveInv'
    OBVIOUS
<1> USE ImageManagerAssumption
<1>1. CASE Crash
  <2>1. /\ at' = [p \in Callers |-> "idle"] /\ imageDb' = imageDb
        /\ archive' = [f \in Files |-> IF archive[f] = Nil THEN Nil
                                       ELSE [archive[f] EXCEPT !.by = {}]]
    BY <1>1 DEF Crash
  <2>2. ASSUME NEW f \in Files, archive[f] # Nil
        PROVE  /\ archive'[f] \in Archive /\ archive'[f] # Nil
               /\ archive'[f].image = archive[f].image /\ archive'[f].size = archive[f].size
    <3>1. archive[f] \in Archive /\ archive'[f] = [archive[f] EXCEPT !.by = {}]
      BY <2>1, <2>2 DEF ArchiveInv
    <3>2. archive'[f] \in Archive
      BY <3>1 DEF Archive
    <3> QED
      BY <3>1, <3>2 DEF Archive
  <2>3. archive' \in [Files -> Archive \cup {Nil}]
    BY <2>1, <2>2
  <2>4. RecordedIsComplete'
    <3> SUFFICES ASSUME NEW n \in imageDb, Alone(n)
                 PROVE  archive'[Dest[n]] # Nil /\ archive'[Dest[n]].image = n
                        /\ archive'[Dest[n]].size = "all"
      BY <2>1 DEF RecordedIsComplete, Alone
    <3>1. Dest[n] \in Files
      BY DEF ArchiveInv
    <3>2. archive[Dest[n]] # Nil /\ archive[Dest[n]].image = n /\ archive[Dest[n]].size = "all"
      BY DEF ArchiveInv, RecordedIsComplete
    <3> QED
      BY <2>2, <3>1, <3>2
  <2> QED
    BY <2>1, <2>3, <2>4 DEF ArchiveInv, PCs, Writing
<1>2. CASE UNCHANGED vars
  BY <1>2 DEF vars, ArchiveInv, RecordedIsComplete, Alone
<1>3. ASSUME NEW p \in Callers, PullImage(p) \/ Check(p) \/ Load(p) \/ Waited(p) \/ Store(p)
      PROVE  ArchiveInv'
  <2>1. imageDb' = imageDb /\ archive' = archive
    BY <1>3 DEF PullImage, Check, Load, Waited, Store
  <2>2. CASE at' = [at EXCEPT ![p] = "check"] \/ at' = [at EXCEPT ![p] = "unzip"]
    BY <2>1, <2>2, MoveOf DEF PCs, Pulling, Writing
  <2>3. CASE at' = [at EXCEPT ![p] = "load"] /\ ImageOf[p] \notin imageDb
    BY <2>1, <2>3, MoveOf, Zenon DEF PCs, Writing
  <2>4. CASE /\ at[p] \in {"load", "store"}
             /\ \/ at' = [at EXCEPT ![p] = "store"]
                \/ at' = [at EXCEPT ![p] = "wait"]
                \/ at' = [at EXCEPT ![p] = "delete"]
    <3>1. ~ (Alone(ImageOf[p]) /\ ImageOf[p] \in imageDb)
      BY <2>4 DEF ArchiveInv
    <3> QED
      BY <2>1, <2>4, <3>1, MoveOf DEF PCs, Writing
  <2> QED
    BY <1>3, <2>2, <2>3, <2>4 DEF PullImage, Check, Load, Waited, Store, Goes
<1>4. ASSUME NEW p \in Callers, DeleteExistImage(p)
      PROVE  ArchiveInv'
  BY <1>4, StepOf DEF DeleteExistImage, Goes, ArchiveInv, PCs, Writing
<1>5. ASSUME NEW p \in Callers, Open(p)
      PROVE  ArchiveInv'
  <2> DEFINE f == Dest[ImageOf[p]]
  <2>1. f \in Files /\ ImageOf[p] \in Names /\ at[p] = "open" /\ imageDb' = imageDb
    BY <1>5 DEF Open
  <2>2. CASE /\ at' = [at EXCEPT ![p] = "copy"]
             /\ archive[f] = Nil
             /\ archive' = [archive EXCEPT ![f] = [by |-> {p}, image |-> ImageOf[p],
                                                  size |-> "empty"]]
    <3> DEFINE new == [by |-> {p}, image |-> ImageOf[p], size |-> "empty"]
    <3>1. new \in Archive /\ new.by = {p} /\ new.image = ImageOf[p]
      BY <2>1 DEF Archive
    <3> HIDE DEF new
    <3>2. archive'[f] = new /\ new # Nil /\ archive' \in [Files -> Archive \cup {Nil}]
      BY <2>1, <2>2, <3>1, Zenon DEF ArchiveInv, new
    <3>3. /\ at' \in [Callers -> PCs] /\ at'[p] = "copy"
          /\ \A q \in Callers \ {p} : at'[q] = at[q]
      BY <2>2 DEF ArchiveInv, PCs, Writing
    <3>4. imageDb' \subseteq Names /\ \A g \in Files \ {f} : archive'[g] = archive[g]
      BY <2>1, <2>2 DEF ArchiveInv
    <3>5. Alone(ImageOf[p]) => ImageOf[p] \notin imageDb'
      BY <2>1 DEF ArchiveInv, Writing
    <3> QED
      BY <2>1, <3>1, <3>2, <3>3, <3>4, <3>5, StepOf
  <2>3. CASE /\ at' = [at EXCEPT ![p] = "copy"]
             /\ archive[f] # Nil
             /\ archive' = [archive EXCEPT ![f].by = @ \cup {p}]
    <3>1. archive' \in [Files -> Archive \cup {Nil}]
      BY <2>1, <2>3 DEF ArchiveInv, Archive
    <3>2. ~ Alone(ImageOf[p])
      BY <2>1, <2>3 DEF ArchiveInv
    <3> QED
      BY <2>1, <2>3, <3>1, <3>2, StepOf, Zenon DEF ArchiveInv, PCs, Writing
  <2>4. CASE at' = [at EXCEPT ![p] = "unmap"] /\ archive' = archive
    BY <2>1, <2>4, MoveOf, Zenon DEF PCs, Pulling, Writing
  <2> QED
    BY <1>5, <2>2, <2>3, <2>4 DEF Open, Fail
<1>6. ASSUME NEW p \in Callers, CopySome(p) \/ CopyEnds(p)
      PROVE  ArchiveInv'
  <2> DEFINE f == Dest[ImageOf[p]]
  <2>1. /\ f \in Files /\ ImageOf[p] \in Names /\ at[p] = "copy" /\ imageDb' = imageDb
        /\ at' \in [Callers -> PCs] /\ \A q \in Callers \ {p} : at'[q] = at[q]
        /\ at'[p] = "copy" \/ at'[p] = "put"
    BY <1>6 DEF CopySome, CopyEnds, Goes, ArchiveInv, PCs, Writing
  <2>2. PICK size \in {"some", "all"} : Writes(p, f, size) /\ (at'[p] = "put" => size = "all")
    BY <1>6 DEF CopySome, CopyEnds, Goes
  <2>3. Alone(ImageOf[p]) =>
          /\ archive[f] # Nil /\ archive[f].by = {p} /\ archive[f].image = ImageOf[p]
          /\ ImageOf[p] \notin imageDb
    BY <2>1 DEF ArchiveInv, Writing
  <2>4. CASE archive' = archive /\ ~ (archive[f] # Nil /\ p \in archive[f].by)
    <3>1. ~ Alone(ImageOf[p])
      BY <2>4, <2>3
    <3> QED
      BY <2>1, <2>4, <3>1, StepOf DEF ArchiveInv
  <2>5. CASE archive[f] # Nil /\ p \in archive[f].by
    <3>1. archive[f] \in Archive
      BY <2>1, <2>5 DEF ArchiveInv
    <3> DEFINE s == IF archive[f].by = {p} THEN size ELSE "mixed"
               new == [archive[f] EXCEPT !.size = s]
    <3>2. /\ new \in Archive /\ new.size = s
          /\ new.by = archive[f].by /\ new.image = archive[f].image
      BY <3>1 DEF Archive
    <3>3. archive' = [archive EXCEPT ![f] = new]
      BY <2>2, <2>5 DEF Writes
    <3> HIDE DEF new
    <3>4. archive'[f] = new /\ new # Nil
      BY <2>1, <3>2, <3>3 DEF ArchiveInv
    <3>5. /\ archive' \in [Files -> Archive \cup {Nil}]
          /\ \A g \in Files \ {f} : archive'[g] = archive[g]
      BY <2>1, <3>2, <3>3 DEF ArchiveInv
    <3>6. Alone(ImageOf[p]) => new.by = {p} /\ new.image = ImageOf[p] /\ new.size = size
      BY <2>3, <3>2
    <3>7. imageDb' \subseteq Names
      BY <2>1 DEF ArchiveInv
    <3> QED
      BY <2>1, <2>2, <2>3, <3>4, <3>5, <3>6, <3>7, StepOf
  <2> QED
    BY <2>2, <2>4, <2>5 DEF Writes
<1>7. ASSUME NEW p \in Callers, Put(p)
      PROVE  ArchiveInv'
  <2>1. /\ at[p] = "put" /\ at' = [at EXCEPT ![p] = "unmap"]
        /\ imageDb' = imageDb \cup {ImageOf[p]} /\ archive' = archive
    BY <1>7 DEF Put, Goes
  <2>2. /\ at' \in [Callers -> PCs] /\ at'[p] = "unmap"
        /\ \A q \in Callers \ {p} : at'[q] = at[q]
    BY <2>1 DEF ArchiveInv, PCs
  <2>3. /\ imageDb' \subseteq Names /\ imageDb' \ {ImageOf[p]} = imageDb \ {ImageOf[p]}
        /\ archive' \in [Files -> Archive \cup {Nil}]
    BY <2>1 DEF ArchiveInv
  <2>4. Alone(ImageOf[p]) =>
          LET a == archive'[Dest[ImageOf[p]]] IN a # Nil /\ a.image = ImageOf[p] /\ a.size = "all"
    BY <2>1 DEF ArchiveInv
  <2> QED
    BY <2>1, <2>2, <2>3, <2>4, StepOf DEF Writing
<1>8. ASSUME NEW p \in Callers, PullFails(p) \/ Unmap(p) \/ Close(p) \/ UnzipImage(p)
      PROVE  ArchiveInv'
  <2>1. imageDb' = imageDb /\ archive' = archive
    BY <1>8 DEF PullFails, Unmap, Close, UnzipImage
  <2>2. \E to \in {"unmap", "close", "idle", "unzip"} : at' = [at EXCEPT ![p] = to]
    BY <1>8 DEF PullFails, Fail, Unmap, Close, UnzipImage, Goes
  <2>3. PICK to \in {"unmap", "close", "idle", "unzip"} : at' = [at EXCEPT ![p] = to]
    BY <2>2, Zenon
  <2>4. to \in PCs \ {"open", "copy", "put"} /\ to \notin Pulling
    BY DEF PCs, Pulling, Writing
  <2> QED
    BY <2>1, <2>3, <2>4, MoveOf, Zenon
<1> QED
  BY <1>1, <1>2, <1>3, <1>4, <1>5, <1>6, <1>7, <1>8 DEF Next, Proceeds

\* An image in the database is there, complete and its own, whatever failed or
\* crashed before, if one goroutine needs it and no other image has its file.
THEOREM RecordedIsCompleteThm == Spec => []RecordedIsComplete
<1>1. ArchiveInv => RecordedIsComplete
  BY DEF ArchiveInv
<1> QED
  BY <1>1, InitArchive, NextArchive, PTL DEF Spec

-----------------------------------------------------------------------------
(* Types                                                                   *)

\* An archive keeps its type when a writer joins, when it is written and when
\* its writers are gone.
LEMMA ArchiveTypes ==
  ASSUME NEW a \in Archive
  PROVE  /\ \A b \in SUBSET Callers : [a EXCEPT !.by = b] \in Archive
         /\ \A s \in {"empty", "some", "all", "mixed"} : [a EXCEPT !.size = s] \in Archive
BY DEF Archive

\* Every step keeps the types.
LEMMA NextType == TypeOK /\ [Next]_vars => TypeOK'
<1> SUFFICES ASSUME TypeOK, [Next]_vars
             PROVE  TypeOK'
    OBVIOUS
<1> USE ImageManagerAssumption DEF TypeOK, PCs, Writing
<1>1. CASE Crash
  <2>1. archive' \in [Files -> Archive \cup {Nil}]
    BY <1>1, ArchiveTypes, Zenon DEF Crash
  <2> QED
    BY <1>1, <2>1 DEF Crash
<1>2. CASE UNCHANGED vars
  BY <1>2 DEF vars
<1>3. ASSUME NEW p \in Callers, PullImage(p) \/ Check(p) \/ Waited(p) \/ Unmap(p)
      PROVE  TypeOK'
  BY <1>3 DEF PullImage, Goes, Check, Waited, Unmap, Kept
<1>4. ASSUME NEW p \in Callers, Load(p) \/ Store(p) \/ DeleteExistImage(p)
      PROVE  TypeOK'
  BY <1>4 DEF Load, Store, DeleteExistImage, Goes, Kept
<1>5. ASSUME NEW p \in Callers, PullFails(p) \/ Put(p) \/ Close(p) \/ UnzipImage(p)
      PROVE  TypeOK'
  BY <1>5 DEF PullFails, Put, Close, UnzipImage, Fail, Goes, Kept
<1>6. ASSUME NEW p \in Callers, Open(p)
      PROVE  TypeOK'
  <2> DEFINE f == Dest[ImageOf[p]]
             new == [by |-> {p}, image |-> ImageOf[p], size |-> "empty"]
  <2>1. f \in Files /\ new \in Archive
    BY DEF Archive
  <2>2. archive' \in [Files -> Archive \cup {Nil}]
    <3>1. CASE archive' = [archive EXCEPT ![f] = new]
      BY <2>1, <3>1
    <3>2. CASE archive[f] # Nil /\ archive' = [archive EXCEPT ![f].by = @ \cup {p}]
      <4>1. archive[f] \in Archive /\ archive[f].by \cup {p} \in SUBSET Callers
        BY <2>1, <3>2 DEF Archive
      <4> QED
        BY <2>1, <3>2, <4>1, ArchiveTypes, Zenon
    <3> QED
      BY <1>6, <3>1, <3>2 DEF Open
  <2> QED
    BY <1>6, <2>2 DEF Open, Fail, Kept
<1>7. ASSUME NEW p \in Callers, CopySome(p) \/ CopyEnds(p)
      PROVE  TypeOK'
  <2> DEFINE f == Dest[ImageOf[p]]
  <2>1. PICK size \in {"some", "all"} : Writes(p, f, size)
    BY <1>7 DEF CopySome, CopyEnds
  <2>2. archive' \in [Files -> Archive \cup {Nil}]
    <3>1. f \in Files /\ (archive[f] # Nil => archive[f] \in Archive)
      OBVIOUS
    <3> QED
      BY <2>1, <3>1, ArchiveTypes, Zenon DEF Writes
  <2> QED
    BY <1>7, <2>2 DEF CopySome, CopyEnds, Goes, Kept
<1> QED
  BY <1>1, <1>2, <1>3, <1>4, <1>5, <1>6, <1>7 DEF Next, Proceeds

\* The map of pulls, the database, the archives and the callers keep their
\* types, for any callers, images, files and bounds.
THEOREM TypeCorrect == Spec => []TypeOK
<1>1. Init => TypeOK
  BY ImageManagerAssumption DEF Init, TypeOK, PCs
<1> QED
  BY <1>1, NextType, PTL DEF Spec
=============================================================================
