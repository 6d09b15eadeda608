---------------------------- MODULE Panda_proofs ----------------------------
(***************************************************************************)
(* What panda takes for installed has all its files and, where they were   *)
(* asked for, its dependencies, until files are written over or cannot be  *)
(* copied; and what was asked for stays so: for any projects, dependencies *)
(* (circular ones, too), numbers of files, requests, failures and kills.   *)
(***************************************************************************)
EXTENDS Panda, BuildOrder, SequenceTheorems, TLAPS

Stage == {"deps", "each", "fetch", "build", "test", "install", "copy"}
Calls == [project : Project, isdep : BOOLEAN, deps : SUBSET Nat, stage : Stage, file : 0..Files]

PdTypes ==
  /\ frames \in Seq(Calls)
  /\ \A n \in DOMAIN frames : \A i \in frames[n].deps :
       i \in DOMAIN Depends[frames[n].project] /\ Depends[frames[n].project][i] \in Project
  /\ whole \in [Project -> SUBSET (1..Files)]
  /\ spoilt \subseteq Project
  /\ DOMAIN states \subseteq Project
  /\ DOMAIN statefile.records \subseteq Project
  /\ linked \subseteq Project
  /\ ~Running => frames = <<>> /\ states = <<>>

(* What was there in full, and is written over, is spoilt until it is there in
   full again. *)
Complete(p) == p \in Project /\ Sound(p)

(* Dependencies are due only while they are resolved, one call in the other; a
   call has copied what it has counted, or spoilt the project. *)
Counted(call, files, lost) == 1..call.file \subseteq files[call.project] \/ call.project \in lost

FilesInOrder(call) ==
  /\ call.stage \notin {"install", "copy"} => call.file = 0
  /\ call.stage = "copy" => call.file < Files

CallsNested ==
  \A n \in DOMAIN frames :
    /\ n # Len(frames) => frames[n].stage = "each"
    /\ frames[n].stage # "each" => frames[n].deps = {}
    /\ FilesInOrder(frames[n]) /\ Counted(frames[n], whole, spoilt)

(* Each dependency of a project whose dependencies were looked up is complete,
   still to be resolved, or being resolved. *)
DependencyIsDue(n, i) ==
  LET d == Depends[frames[n].project][i]
  IN  \/ Complete(d)
      \/ i \in frames[n].deps
      \/ n + 1 \in DOMAIN frames /\ frames[n + 1].project = d

DependenciesDue ==
  ~request.nodeps =>
    \A n \in DOMAIN frames : frames[n].stage # "deps" =>
      \A i \in DOMAIN Depends[frames[n].project] : DependencyIsDue(n, i)

RecordedComplete ==
  /\ \A p \in Recorded : Complete(p)
  /\ \A p \in linked : \A i \in DOMAIN Depends[p] : Complete(Depends[p][i])

PdInv == PdTypes /\ CallsNested /\ DependenciesDue /\ RecordedComplete

(* What is resolved, or will be, for the sake of others was not asked for. *)
Requested(p) == p \in DOMAIN states /\ states[p] = "installed"

OnlyForOthers ==
  \A n \in DOMAIN frames :
    /\ n # 1 => frames[n].isdep
    /\ frames[n].isdep => ~Requested(frames[n].project)
    /\ \A i \in frames[n].deps : ~Requested(Depends[frames[n].project][i])
-----------------------------------------------------------------------------
LEMMA DependsTyped ==
  ASSUME NEW p \in Project
  PROVE  Depends[p] \in Seq(Project \cup Unknown) /\ DOMAIN Depends[p] \subseteq Nat
<1>1. Depends[p] \in Seq(Project \cup Unknown)
  BY PandaAssumption
<1>. QED BY <1>1

LEMMA PdInitial == PdInit => PdInv /\ OnlyForOthers
<1>. SUFFICES ASSUME PdInit PROVE PdInv /\ OnlyForOthers
  OBVIOUS
<1>1. frames = <<>> /\ DOMAIN frames = {} /\ frames \in Seq(Calls)
  BY DEF PdInit
<1>2. states = <<>> /\ DOMAIN states = {} /\ DOMAIN statefile.records = {}
  BY DEF PdInit
<1>3. linked = {} /\ spoilt = {} /\ whole \in [Project -> SUBSET (1..Files)]
  BY DEF PdInit
<1>. QED BY <1>1, <1>2, <1>3 DEF PdInv, PdTypes, CallsNested, DependenciesDue, RecordedComplete, Recorded, OnlyForOthers

(* The innermost call. *)
LEMMA Innermost ==
  ASSUME PdInv, frames # <<>>
  PROVE  /\ Len(frames) \in DOMAIN frames /\ Len(frames) \in Nat \ {0}
         /\ DOMAIN frames = 1..Len(frames)
         /\ Frame = frames[Len(frames)] /\ Frame \in Calls
         /\ \A n \in DOMAIN frames : frames[n] \in Calls
         /\ DOMAIN Depends[Frame.project] \subseteq Nat
<1>1. frames \in Seq(Calls)
  BY DEF PdInv, PdTypes
<1>2. Len(frames) \in Nat \ {0} /\ DOMAIN frames = 1..Len(frames)
  BY <1>1
<1>3. Frame \in Calls
  BY <1>1, <1>2 DEF Frame
<1>4. Frame.project \in Project
  BY <1>3 DEF Calls
<1>. QED BY <1>1, <1>2, <1>3, <1>4, DependsTyped DEF Frame

(* What a step may do to the files: what is complete stays so. *)
FilesKept ==
  /\ whole' \in [Project -> SUBSET (1..Files)] /\ spoilt' \subseteq Project
  /\ \A p : Complete(p) => Complete(p)'

LEMMA FilesAlone ==
  ASSUME PdInv, UNCHANGED <<whole, spoilt>>
  PROVE  FilesKept
BY DEF FilesKept, PdInv, PdTypes, Complete, Sound, InFull

(* Steps after which no call is left, nothing more is recorded and what is
   complete stays so: exceptions, the end of the process, and a new one. *)
LEMMA NoCallsKeep ==
  ASSUME PdInv, OnlyForOthers, frames' = <<>>, FilesKept, linked' = linked,
         Recorded' \subseteq Recorded, (~Running)' => states' = <<>>
  PROVE  PdInv' /\ OnlyForOthers'
<1>1. DOMAIN frames' = {} /\ frames' \in Seq(Calls)
  OBVIOUS
<1>2. DOMAIN states' \subseteq Project /\ DOMAIN statefile'.records \subseteq Project
  BY DEF PdInv, RecordedComplete, Recorded, Complete
<1>. QED BY <1>1, <1>2
         DEF PdInv, PdTypes, CallsNested, DependenciesDue, RecordedComplete, FilesKept, OnlyForOthers

(* The innermost call goes on: each of its dependencies stays due or is
   complete, and none that is due was asked for. *)
GoesOn(call) ==
  /\ frames # <<>>
  /\ call \in Calls /\ call.project = Frame.project /\ call.isdep = Frame.isdep
  /\ frames' = [frames EXCEPT ![Len(frames)] = call]
  /\ call.stage # "each" => call.deps = {}
  /\ FilesInOrder(call) /\ Counted(call, whole', spoilt')
  /\ FilesKept
  /\ ~request.nodeps /\ call.stage # "deps" =>
       \A i \in DOMAIN Depends[Frame.project] : i \in call.deps \/ Complete(Depends[Frame.project][i])
  /\ \A i \in call.deps :
       /\ i \in DOMAIN Depends[Frame.project] /\ Depends[Frame.project][i] \in Project
       /\ ~Requested(Depends[Frame.project][i])
  /\ UNCHANGED <<request, states, statefile, linked>>

LEMMA CallGoesOn ==
  ASSUME PdInv, OnlyForOthers, NEW call, GoesOn(call)
  PROVE  PdInv' /\ OnlyForOthers'
<1>. USE DEF GoesOn
<1>. DEFINE l == Len(frames)
<1>0. l \in Nat \ {0} /\ DOMAIN frames = 1..l /\ frames \in Seq(Calls) /\ frames[l] = Frame
  BY Innermost DEF PdInv, PdTypes
<1>1. /\ frames' \in Seq(Calls) /\ DOMAIN frames' = DOMAIN frames /\ Len(frames') = l
      /\ frames'[l] = call
      /\ \A n \in DOMAIN frames : n # l => frames'[n] = frames[n]
  BY <1>0
<1>2. \A n \in DOMAIN frames : frames'[n].project = frames[n].project /\ frames'[n].isdep = frames[n].isdep
  BY <1>0, <1>1
<1>. HIDE DEF l
<1>3. \A d : Complete(d) => Complete(d)'
  BY DEF FilesKept
<1>4. PdTypes'
  BY <1>0, <1>1, <1>2 DEF PdInv, PdTypes, Running, FilesKept
<1>5. CallsNested'
  <2>. SUFFICES ASSUME NEW n \in DOMAIN frames
                PROVE  /\ n # l => frames'[n].stage = "each"
                       /\ frames'[n].stage # "each" => frames'[n].deps = {}
                       /\ FilesInOrder(frames'[n]) /\ Counted(frames'[n], whole', spoilt')
    BY <1>1 DEF CallsNested
  <2>1. CASE n = l
    BY <2>1, <1>1, <1>0 DEF Counted
  <2>2. CASE n # l
    <3>1. frames'[n] = frames[n] /\ frames[n] \in Calls
      BY <2>2, <1>0, <1>1
    <3>2. frames[n].stage = "each" /\ FilesInOrder(frames[n])
      BY <2>2 DEF PdInv, CallsNested, l
    <3>3. frames[n].file = 0
      BY <3>2 DEF FilesInOrder
    <3>. QED BY <3>1, <3>2, <3>3 DEF Counted
  <2>. QED BY <2>1, <2>2
<1>6. DependenciesDue'
  <2>. SUFFICES ASSUME ~request.nodeps, NEW n \in DOMAIN frames, frames'[n].stage # "deps",
                       NEW i \in DOMAIN Depends[frames[n].project]
                PROVE  DependencyIsDue(n, i)'
    BY <1>1, <1>2 DEF DependenciesDue
  <2>1. CASE n = l
    BY <2>1, <1>0, <1>1, <1>3 DEF DependencyIsDue
  <2>2. CASE n # l
    <3>1. DependencyIsDue(n, i)
      BY <2>2, <1>1 DEF PdInv, DependenciesDue
    <3>. QED BY <2>2, <3>1, <1>1, <1>2, <1>3 DEF DependencyIsDue
  <2>. QED BY <2>1, <2>2
<1>7. RecordedComplete'
  BY <1>3 DEF PdInv, RecordedComplete, Recorded
<1>8. OnlyForOthers'
  BY <1>0, <1>1, <1>2 DEF OnlyForOthers, Requested
<1>. QED BY <1>4, <1>5, <1>6, <1>7, <1>8 DEF PdInv
-----------------------------------------------------------------------------
LEMMA ResolveKeeps ==
  ASSUME PdInv, OnlyForOthers, PdResolve
  PROVE  PdInv' /\ OnlyForOthers'
<1>. USE DEF PdResolve
<1>0. request'.nodeps = request.nodeps /\ Running'
  BY DEF Running
<1>1. CASE frames' = <<>>
  BY <1>0, <1>1, FilesAlone, NoCallsKeep DEF Recorded
<1>2. CASE \E p \in Project : frames' = <<Call(p, FALSE)>>
  <2>0. PICK p \in Project : frames' = <<Call(p, FALSE)>>
    BY <1>2
  <2>1. Call(p, FALSE) \in Calls
    BY PandaAssumption DEF Call, Calls, Stage
  <2>2. DOMAIN frames' = {1} /\ Len(frames') = 1 /\ frames'[1] = Call(p, FALSE) /\ frames' \in Seq(Calls)
    <3>1. \A c \in Calls : <<c>> \in Seq(Calls) /\ Len(<<c>>) = 1 /\ <<c>>[1] = c /\ DOMAIN <<c>> = {1}
      OBVIOUS
    <3>. DEFINE c == Call(p, FALSE)
    <3>2. c \in Calls /\ frames' = <<c>>
      BY <2>0, <2>1
    <3>3. frames' \in Seq(Calls) /\ Len(frames') = 1 /\ frames'[1] = c /\ DOMAIN frames' = {1}
      <4>. HIDE DEF c
      <4>. QED BY <3>1, <3>2
    <3>. QED BY <3>3
  <2>4. PdTypes'
    BY <1>0, <2>2 DEF PdInv, PdTypes, Call
  <2>5. CallsNested'
    BY <2>2 DEF CallsNested, Call, FilesInOrder, Counted
  <2>6. DependenciesDue'
    BY <2>2 DEF DependenciesDue, Call
  <2>7. RecordedComplete'
    BY FilesAlone DEF PdInv, RecordedComplete, Recorded, FilesKept
  <2>8. OnlyForOthers'
    BY <2>2 DEF OnlyForOthers, Call
  <2>. QED BY <2>4, <2>5, <2>6, <2>7, <2>8 DEF PdInv
<1>. QED BY <1>1, <1>2

(* Dependencies that are not due are recorded, hence complete. *)
LEMMA DepsKeeps ==
  ASSUME PdInv, OnlyForOthers, PdDeps
  PROVE  PdInv' /\ OnlyForOthers'
<1>. DEFINE names == Depends[Frame.project]
            absent == {i \in DOMAIN names : Absent(names[i])}
<1>. SUFFICES ASSUME frames' # <<>> PROVE PdInv' /\ OnlyForOthers'
  BY FilesAlone, NoCallsKeep DEF PdDeps, In, Recorded, Running
<1>0. /\ frames # <<>> /\ Running /\ Frame.stage = "deps"
      /\ UNCHANGED <<started, request, states, statefile, flushing, whole, linked, spoilt>>
  BY DEF PdDeps, In
<1>1. /\ Len(frames) \in DOMAIN frames /\ Frame \in Calls /\ frames[Len(frames)] = Frame
      /\ DOMAIN frames = 1..Len(frames) /\ DOMAIN names \subseteq Nat
      /\ Frame.deps = {} /\ Frame.file = 0
  BY <1>0, Innermost DEF PdInv, CallsNested, FilesInOrder
<1>2. FilesKept
  BY <1>0, FilesAlone
<1>3. CASE request.nodeps
  <2>. DEFINE call == [Frame EXCEPT !.stage = "fetch"]
  <2>1. frames' = [frames EXCEPT ![Len(frames)] = call]
    BY <1>0, <1>1, <1>3 DEF PdDeps, To
  <2>2. /\ call \in Calls /\ call.project = Frame.project /\ call.isdep = Frame.isdep
        /\ call.deps = {} /\ call.file = 0 /\ call.stage = "fetch"
    BY <1>1 DEF Calls, Stage
  <2>. HIDE DEF call
  <2>3. GoesOn(call)
    BY <1>0, <1>1, <1>2, <1>3, <2>1, <2>2 DEF GoesOn, FilesInOrder, Counted
  <2>. QED BY <2>3, CallGoesOn
<1>4. CASE ~request.nodeps
  <2>. DEFINE call == [Frame EXCEPT !.deps = absent, !.stage = "each"]
  <2>1. /\ frames' = [frames EXCEPT ![Len(frames)] = call]
        /\ \A i \in DOMAIN names : names[i] \in Project
    BY <1>0, <1>1, <1>4 DEF PdDeps, Throw
  <2>2. /\ call \in Calls /\ call.project = Frame.project /\ call.isdep = Frame.isdep
        /\ call.deps = absent /\ call.file = Frame.file /\ call.stage = "each"
    BY <1>1 DEF Calls, Stage
  <2>3. \A i \in DOMAIN names : i \in absent \/ Complete(names[i])
    BY DEF Absent, PdInv, RecordedComplete, Recorded
  <2>4. \A i \in absent : ~Requested(names[i])
    BY DEF Absent, Requested
  <2>5. absent \subseteq DOMAIN names
    OBVIOUS
  <2>. HIDE DEF call, absent
  <2>6. GoesOn(call)
    BY <1>0, <1>1, <1>2, <2>1, <2>2, <2>3, <2>4, <2>5 DEF GoesOn, FilesInOrder, Counted
  <2>. QED BY <2>6, CallGoesOn
<1>. QED BY <1>3, <1>4

(* Without dependencies that are due, all are complete. *)
LEMMA InnermostDone ==
  ASSUME PdInv, frames # <<>>, Frame.stage # "deps", Frame.stage = "each" => Frame.deps = {},
         ~request.nodeps, NEW i \in DOMAIN Depends[Frame.project]
  PROVE  Complete(Depends[Frame.project][i])
<1>1. DependencyIsDue(Len(frames), i)
  BY Innermost DEF PdInv, DependenciesDue
<1>2. Len(frames) + 1 \notin DOMAIN frames
  BY Innermost
<1>3. frames[Len(frames)].deps = {}
  BY Innermost DEF PdInv, CallsNested
<1>. QED BY <1>1, <1>2, <1>3 DEF DependencyIsDue, Frame

(* The steps from one stage to the next. *)
LEMMA StageKeeps ==
  ASSUME PdInv, OnlyForOthers, PdDepsDone \/ PdFetch \/ PdBuild \/ PdTest
  PROVE  PdInv' /\ OnlyForOthers'
<1>. SUFFICES ASSUME frames' # <<>> PROVE PdInv' /\ OnlyForOthers'
  BY FilesAlone, NoCallsKeep DEF PdDepsDone, PdFetch, PdBuild, PdTest, In, Throw, Recorded, Running
<1>0. /\ frames # <<>> /\ Running /\ Frame.stage \notin {"deps", "install", "copy"}
      /\ Frame.stage = "each" => Frame.deps = {}
      /\ UNCHANGED <<started, request, states, statefile, flushing, whole, linked, spoilt>>
  BY DEF PdDepsDone, PdFetch, PdBuild, PdTest, In
<1>1. /\ Len(frames) \in DOMAIN frames /\ Frame \in Calls /\ frames[Len(frames)] = Frame
      /\ DOMAIN frames = 1..Len(frames)
      /\ Frame.deps = {} /\ Frame.file = 0
  BY <1>0, Innermost DEF PdInv, CallsNested, FilesInOrder
<1>2. FilesKept
  BY <1>0, FilesAlone
<1>3. PICK stage \in Stage \ {"deps", "each", "copy"} : frames' = [frames EXCEPT ![Len(frames)].stage = stage]
  BY DEF PdDepsDone, PdFetch, PdBuild, PdTest, To, Throw, Stage
<1>. DEFINE call == [Frame EXCEPT !.stage = stage]
<1>4. frames' = [frames EXCEPT ![Len(frames)] = call]
  BY <1>1, <1>3
<1>5. /\ call \in Calls /\ call.project = Frame.project /\ call.isdep = Frame.isdep
      /\ call.deps = {} /\ call.file = 0 /\ call.stage # "copy"
  BY <1>1, <1>3 DEF Calls
<1>6. ~request.nodeps => \A i \in DOMAIN Depends[Frame.project] : Complete(Depends[Frame.project][i])
  BY <1>0, <1>1, InnermostDone
<1>. HIDE DEF call
<1>7. GoesOn(call)
  BY <1>0, <1>1, <1>2, <1>4, <1>5, <1>6 DEF GoesOn, FilesInOrder, Counted
<1>. QED BY <1>7, CallGoesOn

(* A call that is made for the sake of another. *)
LEMMA EachDepKeeps ==
  ASSUME PdInv, OnlyForOthers, PdEachDep
  PROVE  PdInv' /\ OnlyForOthers'
<1>. DEFINE l == Len(frames)
            names == Depends[Frame.project]
<1>0. /\ frames # <<>> /\ Running /\ Frame.stage = "each"
      /\ UNCHANGED <<started, request, states, statefile, flushing, whole, linked, spoilt>>
  BY DEF PdEachDep, In
<1>1. /\ l \in Nat \ {0} /\ DOMAIN frames = 1..l /\ frames \in Seq(Calls) /\ frames[l] = Frame
      /\ Frame \in Calls /\ Frame.deps \subseteq DOMAIN names
  BY <1>0, Innermost DEF PdInv, PdTypes
<1>2. PICK i \in Frame.deps :
        frames' = Append([frames EXCEPT ![l].deps = @ \ {i}], Call(names[i], TRUE))
  BY DEF PdEachDep
<1>. DEFINE d == names[i]
            call == [Frame EXCEPT !.deps = @ \ {i}]
            made == Call(d, TRUE)
<1>3. d \in Project /\ ~Requested(d)
  BY <1>1 DEF OnlyForOthers, PdInv, PdTypes
<1>4. /\ call \in Calls /\ call.project = Frame.project /\ call.isdep = Frame.isdep
      /\ call.deps = Frame.deps \ {i} /\ call.file = Frame.file /\ call.stage = "each"
  BY <1>0, <1>1 DEF Calls
<1>5. /\ made \in Calls /\ made.project = d /\ made.isdep = TRUE
      /\ made.deps = {} /\ made.file = 0 /\ made.stage = "deps"
  BY <1>3, PandaAssumption DEF Call, Calls, Stage
<1>6. frames' = Append([frames EXCEPT ![l] = call], made)
  BY <1>1, <1>2
<1>. HIDE DEF call, made
<1>7. /\ frames' \in Seq(Calls) /\ Len(frames') = l + 1 /\ DOMAIN frames' = 1..l + 1
      /\ frames'[l + 1] = made /\ frames'[l] = call
      /\ \A n \in DOMAIN frames : n # l => frames'[n] = frames[n]
  <2>. DEFINE left == [frames EXCEPT ![l] = call]
  <2>. HIDE DEF l
  <2>1. /\ left \in Seq(Calls) /\ Len(left) = l /\ DOMAIN left = 1..l /\ left[l] = call
        /\ \A n \in DOMAIN frames : n # l => left[n] = frames[n]
    BY <1>1, <1>4 DEF l
  <2>2. frames' = Append(left, made)
    BY <1>6 DEF l
  <2>. HIDE DEF left
  <2>. QED BY <1>1, <1>5, <2>1, <2>2
<1>8. \A n \in DOMAIN frames :
        /\ frames'[n].project = frames[n].project /\ frames'[n].isdep = frames[n].isdep
        /\ frames'[n].file = frames[n].file /\ frames'[n].stage = frames[n].stage
        /\ frames'[n].deps = IF n = l THEN frames[n].deps \ {i} ELSE frames[n].deps
  BY <1>0, <1>1, <1>4, <1>7
<1>. HIDE DEF l
<1>9. PdTypes'
  <2>1. \A n \in DOMAIN frames' : n \in DOMAIN frames \/ n = l + 1
    BY <1>1, <1>7
  <2>2. \A n \in DOMAIN frames : \A j \in frames[n].deps :
           j \in DOMAIN Depends[frames[n].project] /\ Depends[frames[n].project][j] \in Project
    BY DEF PdInv, PdTypes
  <2>3. ASSUME NEW n \in DOMAIN frames', NEW j \in frames'[n].deps
        PROVE  j \in DOMAIN Depends[frames'[n].project] /\ Depends[frames'[n].project][j] \in Project
    <3>1. CASE n = l + 1
      BY <1>5, <1>7, <2>3, <3>1
    <3>2. CASE n \in DOMAIN frames
      <4>1. j \in frames[n].deps /\ frames'[n].project = frames[n].project
        BY <1>8, <2>3, <3>2
      <4>. QED BY <2>2, <3>2, <4>1
    <3>. QED BY <2>1, <3>1, <3>2
  <2>4. /\ whole' \in [Project -> SUBSET (1..Files)] /\ spoilt' \subseteq Project
        /\ DOMAIN states' \subseteq Project
        /\ DOMAIN statefile'.records \subseteq Project /\ linked' \subseteq Project
    BY <1>0 DEF PdInv, PdTypes
  <2>5. Running'
    BY <1>0 DEF Running
  <2>. QED BY <1>7, <2>3, <2>4, <2>5 DEF PdTypes
<1>10. CallsNested'
  <2>. SUFFICES ASSUME NEW n \in DOMAIN frames'
                PROVE  /\ n # l + 1 => frames'[n].stage = "each"
                       /\ frames'[n].stage # "each" => frames'[n].deps = {}
                       /\ FilesInOrder(frames'[n]) /\ Counted(frames'[n], whole, spoilt)
    BY <1>0, <1>7 DEF CallsNested, Counted
  <2>1. CASE n = l + 1
    BY <2>1, <1>5, <1>7 DEF FilesInOrder, Counted
  <2>2. CASE n \in DOMAIN frames
    BY <2>2, <1>0, <1>1, <1>8 DEF PdInv, CallsNested, l, FilesInOrder, Counted
  <2>. QED BY <2>1, <2>2, <1>1, <1>7
<1>11. DependenciesDue'
  <2>. SUFFICES ASSUME ~request.nodeps, NEW n \in DOMAIN frames', frames'[n].stage # "deps",
                       NEW k \in DOMAIN Depends[frames'[n].project]
                PROVE  DependencyIsDue(n, k)'
    BY <1>0 DEF DependenciesDue
  <2>1. n \in DOMAIN frames
    BY <1>1, <1>5, <1>7
  <2>2. DependencyIsDue(n, k)
    BY <2>1, <1>8 DEF PdInv, DependenciesDue
  <2>3. CASE n = l /\ k = i
    <3>1. n + 1 \in DOMAIN frames' /\ frames'[n + 1].project = d /\ frames'[n].project = Frame.project
      <4>1. n + 1 \in DOMAIN frames' /\ frames'[n + 1] = made
        BY <2>3, <1>1, <1>7
      <4>2. frames'[n].project = Frame.project
        BY <2>1, <2>3, <1>1, <1>8
      <4>. QED BY <4>1, <4>2, <1>5
    <3>. QED BY <2>3, <3>1 DEF DependencyIsDue
  <2>4. CASE ~(n = l /\ k = i)
    <3>1. k \in frames[n].deps => k \in frames'[n].deps
      BY <2>1, <2>4, <1>8
    <3>2. ASSUME n + 1 \in DOMAIN frames
          PROVE  n + 1 \in DOMAIN frames' /\ frames'[n + 1].project = frames[n + 1].project
      <4>1. n + 1 \in DOMAIN frames'
        BY <2>1, <3>2, <1>1, <1>7
      <4>. QED BY <3>2, <4>1, <1>8
    <3>. QED BY <2>1, <2>2, <3>1, <3>2, <1>0, <1>8 DEF DependencyIsDue, Complete, Sound, InFull
  <2>. QED BY <2>3, <2>4
<1>12. RecordedComplete'
  BY <1>0 DEF PdInv, RecordedComplete, Recorded, Complete, Sound, InFull
<1>13. OnlyForOthers'
  <2>1. \A p : Requested(p)' <=> Requested(p)
    BY <1>0 DEF Requested
  <2>. SUFFICES ASSUME NEW n \in DOMAIN frames'
                PROVE  /\ n # 1 => frames'[n].isdep
                       /\ frames'[n].isdep => ~Requested(frames'[n].project)
                       /\ \A k \in frames'[n].deps : ~Requested(Depends[frames'[n].project][k])
    BY <2>1 DEF OnlyForOthers
  <2>2. CASE n = l + 1
    BY <2>2, <1>3, <1>5, <1>7
  <2>3. CASE n \in DOMAIN frames
    BY <2>3, <1>8 DEF OnlyForOthers
  <2>. QED BY <2>2, <2>3, <1>1, <1>7
<1>. QED BY <1>9, <1>10, <1>11, <1>12, <1>13 DEF PdInv

(* A step of the installation of files: the innermost call goes on to stage and
   file, or an exception ends all calls. *)
LEMMA InstallationKeeps ==
  ASSUME PdInv, OnlyForOthers, frames # <<>>, Running, Frame.stage \in {"install", "copy"},
         NEW call \in Calls, FilesKept, UNCHANGED <<request, states, statefile, linked>>,
         call = [Frame EXCEPT !.stage = call.stage, !.file = call.file],
         call.stage \in {"install", "copy"}, FilesInOrder(call),
         \/ frames' = <<>>
         \/ frames' = [frames EXCEPT ![Len(frames)] = call] /\ Counted(call, whole', spoilt')
  PROVE  PdInv' /\ OnlyForOthers'
<1>1. CASE frames' = <<>>
  BY <1>1, NoCallsKeep DEF Recorded, Running
<1>2. CASE frames' = [frames EXCEPT ![Len(frames)] = call] /\ Counted(call, whole', spoilt')
  <2>1. Frame \in Calls /\ Frame.deps = {}
    BY Innermost DEF PdInv, CallsNested
  <2>2. call.project = Frame.project /\ call.isdep = Frame.isdep /\ call.deps = {}
    BY <2>1 DEF Calls
  <2>3. ~request.nodeps => \A i \in DOMAIN Depends[Frame.project] : Complete(Depends[Frame.project][i])
    BY InnermostDone
  <2>4. GoesOn(call)
    BY <1>2, <2>2, <2>3 DEF GoesOn
  <2>. QED BY <2>4, CallGoesOn
<1>. QED BY <1>1, <1>2

(* A file is opened, over the one that was there, or cannot be; it is written,
   in full or not. *)
LEMMA InstallFileKeeps ==
  ASSUME PdInv, OnlyForOthers, PdOpenFile \/ PdInstallFile
  PROVE  PdInv' /\ OnlyForOthers'
<1>. DEFINE own == Frame.project
            done == Frame.file
            opened == [Frame EXCEPT !.stage = "copy"]
            next == [Frame EXCEPT !.stage = "install", !.file = @ + 1]
<1>0. /\ frames # <<>> /\ Running /\ Frame.stage \in {"install", "copy"}
      /\ UNCHANGED <<started, request, states, statefile, flushing, linked>>
  BY DEF PdOpenFile, PdInstallFile, In
<1>1. /\ Len(frames) \in DOMAIN frames /\ Frame \in Calls /\ frames[Len(frames)] = Frame
      /\ FilesInOrder(Frame) /\ Counted(Frame, whole, spoilt)
  BY <1>0, Innermost DEF PdInv, CallsNested
<1>2. /\ own \in Project /\ done \in Nat /\ done < Files /\ Files \in Nat
      /\ whole \in [Project -> SUBSET (1..Files)] /\ spoilt \subseteq Project
  BY <1>1, PandaAssumption DEF Calls, FilesInOrder, PdOpenFile, PdInstallFile, In, PdInv, PdTypes
<1>3. /\ opened \in Calls /\ opened = [Frame EXCEPT !.stage = opened.stage, !.file = opened.file]
      /\ opened.project = own /\ opened.stage = "copy" /\ opened.file = done
      /\ FilesInOrder(opened)
  <2>1. /\ opened \in Calls /\ opened.project = own /\ opened.stage = "copy" /\ opened.file = done
        /\ opened = [Frame EXCEPT !.stage = opened.stage, !.file = opened.file]
    BY <1>1 DEF Calls, Stage
  <2>. QED BY <2>1, <1>2 DEF FilesInOrder
<1>4. /\ next \in Calls /\ next = [Frame EXCEPT !.stage = next.stage, !.file = next.file]
      /\ next.project = own /\ next.stage = "install" /\ next.file = done + 1
      /\ FilesInOrder(next)
  <2>1. done + 1 \in 0..Files
    BY <1>2
  <2>2. /\ next \in Calls /\ next.project = own /\ next.stage = "install" /\ next.file = done + 1
        /\ next = [Frame EXCEPT !.stage = next.stage, !.file = next.file]
    BY <1>1, <2>1 DEF Calls, Stage
  <2>. QED BY <2>2 DEF FilesInOrder
<1>5. To("copy") => frames' = [frames EXCEPT ![Len(frames)] = opened]
  BY <1>1 DEF To
<1>6. Onward => frames' = [frames EXCEPT ![Len(frames)] = next]
  BY <1>1 DEF Onward
<1>7. 1..done \subseteq whole[own] \/ own \in spoilt
  BY <1>1 DEF Counted
<1>. HIDE DEF own, done, opened, next
<1>8. CASE Throw /\ UNCHANGED <<whole, spoilt>>
  <2>1. FilesKept
    BY <1>8, FilesAlone
  <2>. QED BY <1>0, <1>4, <1>8, <2>1, InstallationKeeps DEF Throw
<1>9. CASE /\ Onward \/ Throw
           /\ spoilt' = spoilt \cup {own} /\ UNCHANGED whole
  <2>1. FilesKept
    BY <1>2, <1>9 DEF FilesKept, Complete, Sound, InFull
  <2>2. Counted(next, whole', spoilt')
    BY <1>4, <1>9 DEF Counted
  <2>. QED BY <1>0, <1>4, <1>6, <1>9, <2>1, <2>2, InstallationKeeps DEF Throw
<1>10. CASE /\ To("copy") /\ whole' = [whole EXCEPT ![own] = @ \ {done + 1}]
            /\ spoilt' = IF InFull(own) THEN spoilt \cup {own} ELSE spoilt
  <2>1. /\ whole' \in [Project -> SUBSET (1..Files)]
        /\ whole'[own] = whole[own] \ {done + 1}
        /\ \A p \in Project \ {own} : whole'[p] = whole[p]
    BY <1>2, <1>10
  <2>2. /\ spoilt \subseteq spoilt' /\ spoilt' \subseteq Project
        /\ InFull(own) => own \in spoilt'
    BY <1>2, <1>10
  <2>3. FilesKept
    BY <2>1, <2>2 DEF FilesKept, Complete, Sound, InFull
  <2>4. 1..done \subseteq whole[own] => 1..done \subseteq whole'[own]
    BY <1>2, <2>1
  <2>5. Counted(opened, whole', spoilt')
    BY <1>3, <1>7, <2>2, <2>4 DEF Counted
  <2>. QED BY <1>0, <1>3, <1>5, <1>10, <2>3, <2>5, InstallationKeeps
<1>11. CASE /\ Onward \/ Throw
            /\ whole' = [whole EXCEPT ![own] = @ \cup {done + 1}] /\ UNCHANGED spoilt
  <2>1. /\ whole' \in [Project -> SUBSET (1..Files)]
        /\ whole'[own] = whole[own] \cup {done + 1}
        /\ \A p \in Project \ {own} : whole'[p] = whole[p]
    BY <1>2, <1>11
  <2>2. FilesKept
    BY <1>2, <1>11, <2>1 DEF FilesKept, Complete, Sound, InFull
  <2>3. 1..done \subseteq whole[own] => 1..done + 1 \subseteq whole'[own]
    BY <1>2, <2>1
  <2>4. Counted(next, whole', spoilt')
    BY <1>4, <1>7, <1>11, <2>3 DEF Counted
  <2>. QED BY <1>0, <1>4, <1>6, <1>11, <2>2, <2>4, InstallationKeeps DEF Throw
<1>. QED BY <1>8, <1>9, <1>10, <1>11 DEF PdOpenFile, PdInstallFile, own, done

(* What is recorded is complete, and the caller counts on it. *)
LEMMA SetStateKeeps ==
  ASSUME PdInv, OnlyForOthers, PdSetState
  PROVE  /\ PdInv' /\ OnlyForOthers'
         /\ \A p : Requested(p) => Requested(p)'
<1>. DEFINE l == Len(frames)
            own == Frame.project
<1>0. /\ frames # <<>> /\ Running /\ Frame.stage = "install" /\ Frame.file = Files
      /\ UNCHANGED <<started, request, whole>>
  BY DEF PdSetState, In
<1>1. /\ l \in Nat \ {0} /\ DOMAIN frames = 1..l /\ frames \in Seq(Calls) /\ frames[l] = Frame
      /\ Frame \in Calls /\ own \in Project /\ Frame.deps = {} /\ Frame.isdep \in BOOLEAN
  BY <1>0, Innermost DEF PdInv, PdTypes, CallsNested, Calls
<1>2. Complete(own) /\ FilesKept
  <2>1. /\ Counted(Frame, whole, spoilt) /\ whole \in [Project -> SUBSET (1..Files)] /\ spoilt \subseteq Project
    BY <1>0, <1>1 DEF PdInv, PdTypes, CallsNested
  <2>2. spoilt' = IF InFull(own) THEN spoilt \ {own} ELSE spoilt
    BY DEF PdSetState
  <2>3. Complete(own)
    BY <1>0, <1>1, <2>1 DEF Complete, Sound, InFull, Counted
  <2>. QED BY <1>0, <2>1, <2>2, <2>3 DEF FilesKept, Complete, Sound, InFull
<1>3. /\ frames' \in Seq(Calls) /\ Len(frames') = l - 1 /\ DOMAIN frames' = 1..l - 1
      /\ \A n \in DOMAIN frames' : frames'[n] = frames[n] /\ n \in DOMAIN frames /\ n # l
  <2>1. frames' = SubSeq(frames, 1, l - 1)
    BY DEF PdSetState
  <2>. HIDE DEF l
  <2>. QED BY <1>1, <2>1
<1>4. /\ DOMAIN states' = DOMAIN states \cup {own}
      /\ \A p \in DOMAIN states : p # own => states'[p] = states[p]
      /\ states'[own] = IF Frame.isdep THEN "installed-dep" ELSE "installed"
      /\ DOMAIN statefile'.records = {}
      /\ linked' \subseteq linked \cup {own}
      /\ request.nodeps => linked' = linked
  BY DEF PdSetState
<1>5. Frame.isdep => ~Requested(own)
  BY <1>0, <1>1 DEF OnlyForOthers
<1>. HIDE DEF l, own
<1>6. PdTypes'
  BY <1>0, <1>1, <1>2, <1>3, <1>4 DEF PdInv, PdTypes, Running, FilesKept
<1>7. CallsNested'
  <2>. SUFFICES ASSUME NEW n \in DOMAIN frames'
                PROVE  /\ n # Len(frames') => frames'[n].stage = "each"
                       /\ frames'[n].stage # "each" => frames'[n].deps = {}
                       /\ FilesInOrder(frames'[n]) /\ Counted(frames'[n], whole', spoilt')
    BY DEF CallsNested
  <2>1. frames'[n] = frames[n] /\ n \in DOMAIN frames /\ n # l
    BY <1>3
  <2>2. frames[n].stage = "each" /\ FilesInOrder(frames[n])
    BY <2>1 DEF PdInv, CallsNested, l
  <2>. QED BY <2>1, <2>2 DEF FilesInOrder, Counted
<1>8. DependenciesDue'
  <2>. SUFFICES ASSUME ~request.nodeps, NEW n \in DOMAIN frames', frames'[n].stage # "deps",
                       NEW i \in DOMAIN Depends[frames'[n].project]
                PROVE  DependencyIsDue(n, i)'
    BY <1>0 DEF DependenciesDue
  <2>1. DependencyIsDue(n, i) /\ frames'[n] = frames[n]
    BY <1>3 DEF PdInv, DependenciesDue
  <2>2. ASSUME n + 1 \in DOMAIN frames, n + 1 \notin DOMAIN frames' PROVE frames[n + 1].project = own
    BY <2>2, <1>1, <1>3 DEF own
  <2>. QED BY <1>2, <1>3, <2>1, <2>2 DEF DependencyIsDue, FilesKept
<1>9. RecordedComplete'
  <2>2. ASSUME own \in linked', own \notin linked, NEW i \in DOMAIN Depends[own]
        PROVE  Complete(Depends[own][i])
    BY <2>2, <1>0, <1>4, InnermostDone DEF own
  <2>3. \A p \in Recorded' : p \in Recorded \/ p = own
    BY <1>4 DEF Recorded
  <2>. QED BY <1>2, <1>4, <2>2, <2>3 DEF PdInv, RecordedComplete, FilesKept
<1>10. OnlyForOthers'
  <2>1. CASE ~Frame.isdep
    <3>1. DOMAIN frames' = {}
      BY <2>1, <1>1, <1>3 DEF OnlyForOthers
    <3>. QED BY <3>1 DEF OnlyForOthers
  <2>2. CASE Frame.isdep
    <3>1. \A p : p \in DOMAIN states' /\ states'[p] = "installed" => Requested(p)
      BY <2>2, <1>4 DEF Requested
    <3>2. \A n \in DOMAIN frames' :
            /\ n # 1 => frames'[n].isdep
            /\ frames'[n].isdep => ~Requested(frames'[n].project)
            /\ \A i \in frames'[n].deps : ~Requested(Depends[frames'[n].project][i])
      BY <1>3 DEF OnlyForOthers
    <3>. QED BY <3>1, <3>2 DEF OnlyForOthers, Requested
  <2>. QED BY <2>1, <2>2
<1>11. \A p : Requested(p) => Requested(p)'
  BY <1>1, <1>4, <1>5 DEF Requested
<1>. QED BY <1>6, <1>7, <1>8, <1>9, <1>10, <1>11 DEF PdInv

LEMMA FlushedKeeps ==
  ASSUME PdInv, OnlyForOthers, PdFlushed
  PROVE  PdInv' /\ OnlyForOthers'
<1>. USE DEF PdFlushed
<1>1. PdTypes'
  BY DEF PdInv, PdTypes, Running
<1>2. RecordedComplete'
  BY DEF PdInv, RecordedComplete, Recorded, Complete, Sound, InFull
<1>3. DependenciesDue'
  BY DEF PdInv, DependenciesDue, DependencyIsDue, Complete, Sound, InFull
<1>4. CallsNested' /\ OnlyForOthers'
  BY DEF PdInv, CallsNested, FilesInOrder, Counted, OnlyForOthers, Requested
<1>. QED BY <1>1, <1>2, <1>3, <1>4 DEF PdInv

(* A process starts, ends or is killed. *)
LEMMA ProcessKeeps ==
  ASSUME PdInv, OnlyForOthers, PdExit \/ PdKill \/ PdTooDeep \/ \E r \in Requests : PdStart(r)
  PROVE  PdInv' /\ OnlyForOthers'
<1>0. DOMAIN <<>> = {}
  OBVIOUS
<1>1. CASE PdExit
  BY <1>1, <1>0, FilesAlone, NoCallsKeep DEF PdExit, Recorded
<1>2. CASE PdTooDeep
  BY <1>2, <1>0, FilesAlone, NoCallsKeep DEF PdTooDeep, Killed, Recorded
<1>3. CASE PdKill
  <2>1. DOMAIN statefile'.records \subseteq Recorded
    BY <1>3 DEF PdKill, Recorded
  <2>2. frames' = <<>> /\ states' = <<>> /\ UNCHANGED <<whole, linked, spoilt>>
    BY <1>3 DEF PdKill, Killed
  <2>. QED BY <1>0, <2>1, <2>2, FilesAlone, NoCallsKeep DEF Recorded
<1>4. ASSUME NEW r \in Requests, PdStart(r) PROVE PdInv' /\ OnlyForOthers'
  <2>1. frames' = <<>> /\ UNCHANGED <<statefile, whole, linked, spoilt>>
    BY <1>4 DEF PdStart, PdInv, PdTypes
  <2>2. CASE states' = statefile.records /\ Running'
    BY <2>1, <2>2, FilesAlone, NoCallsKeep DEF Recorded
  <2>3. CASE UNCHANGED <<states, request>>
    BY <2>1, <2>3, <1>4, FilesAlone, NoCallsKeep DEF Recorded, PdStart, PdInv, PdTypes
  <2>. QED BY <1>4, <2>2, <2>3 DEF PdStart, Running
<1>. QED BY <1>1, <1>2, <1>3, <1>4
-----------------------------------------------------------------------------
LEMMA PdKeeps == PdInv /\ OnlyForOthers /\ [PdNext]_pdVars => PdInv' /\ OnlyForOthers'
<1>. SUFFICES ASSUME PdInv, OnlyForOthers, [PdNext]_pdVars PROVE PdInv' /\ OnlyForOthers'
  OBVIOUS
<1>1. CASE UNCHANGED pdVars
  BY <1>1 DEF pdVars, PdInv, PdTypes, CallsNested, DependenciesDue, DependencyIsDue, RecordedComplete,
              Recorded, Complete, Sound, InFull, FilesInOrder, Counted, OnlyForOthers, Requested, Running
<1>2. CASE PdNext
  BY <1>2, ResolveKeeps, DepsKeeps, EachDepKeeps, StageKeeps, InstallFileKeeps, SetStateKeeps, FlushedKeeps,
     ProcessKeeps DEF PdNext, PdStep
<1>. QED BY <1>1, <1>2

LEMMA PdKeepsRequested ==
  ASSUME PdInv, OnlyForOthers, [PdNext]_pdVars,
         NEW p \in DOMAIN states \cap DOMAIN states', states[p] = "installed"
  PROVE  states'[p] = "installed"
<1>0. DOMAIN <<>> = {}
  OBVIOUS
<1>1. CASE PdSetState
  BY <1>1, SetStateKeeps DEF Requested
<1>2. CASE states' = <<>>
  BY <1>0, <1>2
<1>3. CASE states' = states
  BY <1>3
<1>4. ASSUME NEW r \in Requests, PdStart(r) PROVE states = <<>>
  BY <1>4 DEF PdStart, PdInv, PdTypes
<1>5. PdSetState \/ states' = <<>> \/ states' = states \/ \E r \in Requests : PdStart(r)
  BY DEF PdNext, PdStep, pdVars, PdResolve, PdExit, PdDeps, PdEachDep, PdDepsDone, PdFetch, PdBuild, PdTest,
         PdOpenFile, PdInstallFile, PdFlushed, PdTooDeep, PdKill, Killed
<1>. QED BY <1>0, <1>1, <1>2, <1>3, <1>4, <1>5

(* project-set-state comes after the last file and after the dependencies, and
   the state file holds what was set, whatever is asked for, fails or is killed:
   only a failed copy, which nobody looks at, or a later installation that
   writes over its files leaves a recorded project without some of them. *)
THEOREM PandaRecordedCompleteAlways == PdSpec => []PandaRecordedComplete
<1>1. PdInv => PandaRecordedComplete
  BY DEF PdInv, RecordedComplete, PandaRecordedComplete, Complete
<1>. QED BY <1>1, PdInitial, PdKeeps, PTL DEF PdSpec

(* A dependency is resolved only if it was absent, and while it waits, nobody
   asks for it. *)
THEOREM PandaKeepsRequestedAlways == PdSpec => PandaKeepsRequested
<1>1. PdInv /\ OnlyForOthers /\ [PdNext]_pdVars =>
        [\A p \in DOMAIN states \cap DOMAIN states' :
           states[p] = "installed" => states'[p] = "installed"]_pdVars
  BY PdKeepsRequested
<1>. QED BY <1>1, PdInitial, PdKeeps, PTL DEF PdSpec, PandaKeepsRequested
-----------------------------------------------------------------------------
(***************************************************************************)
(* The order in which panda compiles the modules of a project is right for *)
(* any modules and whatever they use, in circles, too.                     *)
(***************************************************************************)
Uses_ == SUBSET (Module \cup Elsewhere)

BoTypes ==
  /\ usages_of \in [Module -> Uses_]
  /\ color_of \in [Module -> {Fresh, "visited"}]
  /\ visits \in Seq([module : Module, left : Uses_])
  /\ order \in Seq(Module)

Open(m) == \E i \in DOMAIN visits : visits[i].module = m
Done(m) == \E i \in DOMAIN order : order[i] = m

(* A module that is visited is being visited or done, never both or twice. *)
PlacedOnce ==
  /\ \A m \in Module : Visited(m) <=> Open(m) \/ Done(m)
  /\ \A m \in Module : ~(Open(m) /\ Done(m))
  /\ \A i, j \in DOMAIN visits : visits[i].module = visits[j].module => i = j
  /\ \A i, j \in DOMAIN order : order[i] = order[j] => i = j

(* What a call of dfs-visit has looked at is visited. *)
LookedAtVisited ==
  \A i \in DOMAIN visits :
    /\ visits[i].left \subseteq usages_of[visits[i].module]
    /\ \A u \in UseOf(usages_of, visits[i].module) : u \in visits[i].left \/ Visited(u)

(* Each call is made for the sake of the ones around it. *)
CallsReach ==
  \A i, j \in DOMAIN visits : i < j => visits[j].module \in Reaches(usages_of, visits[i].module)

Sorted ==
  \A j \in DOMAIN order : \A used \in UseOf(usages_of, order[j]) :
    order[j] \in Reaches(usages_of, used) \/ \E i \in 1..j - 1 : order[i] = used

BoInv == BoTypes /\ PlacedOnce /\ LookedAtVisited /\ CallsReach /\ Sorted
-----------------------------------------------------------------------------
(* What a module uses it reaches, and from there on what is used. *)
LEMMA ReachesUse ==
  ASSUME NEW usages, NEW m, NEW u \in UseOf(usages, m)
  PROVE  u \in Reaches(usages, m)
BY DEF Reaches, UseOf

LEMMA ReachesFurther ==
  ASSUME NEW usages, NEW m, NEW x \in Reaches(usages, m), NEW u \in UseOf(usages, x)
  PROVE  u \in Reaches(usages, m)
<1>1. u \in Module
  BY DEF UseOf
<1>2. ASSUME NEW S \in SUBSET Module, UseOf(usages, m) \subseteq S, \A y \in S : UseOf(usages, y) \subseteq S
      PROVE  u \in S
  BY <1>2 DEF Reaches
<1>. QED BY <1>1, <1>2 DEF Reaches

LEMMA InitHolds == BoInit => BoInv
<1>. SUFFICES ASSUME BoInit PROVE BoInv
  OBVIOUS
<1>. USE DEF BoInit
<1>1. DOMAIN visits = {} /\ DOMAIN order = {}
  OBVIOUS
<1>2. BoTypes
  BY BuildOrderAssumption DEF BoTypes, Uses_
<1>3. PlacedOnce
  BY <1>1 DEF PlacedOnce, Visited, Open, Done
<1>. QED BY <1>1, <1>2, <1>3 DEF BoInv, LookedAtVisited, CallsReach, Sorted

(* The innermost call. *)
LEMMA InnermostVisit ==
  ASSUME BoTypes, visits # <<>>
  PROVE  /\ Len(visits) \in Nat \ {0} /\ DOMAIN visits = 1..Len(visits)
         /\ Last(visits) = visits[Len(visits)]
         /\ \A i \in DOMAIN visits : visits[i].module \in Module /\ visits[i].left \in Uses_
         /\ Front(visits) \in Seq([module : Module, left : Uses_])
         /\ DOMAIN Front(visits) = 1..Len(visits) - 1
         /\ \A i \in 1..Len(visits) - 1 : Front(visits)[i] = visits[i]
<1>. DEFINE Visits == [module : Module, left : Uses_]
<1>1. visits \in Seq(Visits)
  BY DEF BoTypes
<1>2. \A c \in Visits : c.module \in Module /\ c.left \in Uses_
  OBVIOUS
<1>. HIDE DEF Visits
<1>3. /\ Len(visits) \in Nat \ {0} /\ DOMAIN visits = 1..Len(visits)
      /\ \A i \in DOMAIN visits : visits[i] \in Visits
  BY <1>1
<1>4. /\ Front(visits) \in Seq(Visits) /\ DOMAIN Front(visits) = 1..Len(visits) - 1
      /\ \A i \in 1..Len(visits) - 1 : Front(visits)[i] = visits[i]
  BY <1>1, <1>3 DEF Front
<1>. QED BY <1>2, <1>3, <1>4 DEF Last, Visits

(* One use less that it has to look at. *)
LEMMA OneLess ==
  ASSUME NEW A, NEW B, NEW c \in [module : A, left : B], NEW used
  PROVE  [c EXCEPT !.left = @ \ {used}] = [module |-> c.module, left |-> c.left \ {used}]
OBVIOUS

(* One used module less to look at. *)
LessOne(v, used) == [v EXCEPT ![Len(v)].left = @ \ {used}]

LEMMA LeftShrinks ==
  ASSUME BoTypes, visits # <<>>, NEW used
  PROVE  LET rest == LessOne(visits, used)
         IN  /\ rest \in Seq([module : Module, left : Uses_])
             /\ DOMAIN rest = 1..Len(visits) /\ Len(rest) = Len(visits)
             /\ \A i \in 1..Len(visits) :
                  /\ rest[i].module = visits[i].module
                  /\ rest[i].left = IF i = Len(visits) THEN visits[i].left \ {used} ELSE visits[i].left
<1>. DEFINE rest == LessOne(visits, used)
            l == Len(visits)
            calls == [module : Module, left : Uses_]
            call == [module |-> visits[l].module, left |-> visits[l].left \ {used}]
<1>1. /\ l \in 1..l /\ DOMAIN visits = 1..l
      /\ visits[l].module \in Module /\ visits[l].left \in Uses_
  BY InnermostVisit
<1>2. visits \in Seq(calls)
  BY DEF BoTypes
<1>3. call \in calls /\ call.module = visits[l].module /\ call.left = visits[l].left \ {used}
  BY <1>1 DEF Uses_
<1>. HIDE DEF calls
<1>4. visits[l] \in calls
  BY <1>1, <1>2, ElementOfSeq
<1>5. [visits[l] EXCEPT !.left = @ \ {used}] = call
  BY <1>4, OneLess DEF calls
<1>. HIDE DEF call
<1>6. rest = [visits EXCEPT ![l] = call]
  BY <1>1, <1>5 DEF LessOne
<1>. HIDE DEF rest
<1>7. /\ rest \in Seq(calls) /\ Len(rest) = l
      /\ \A i \in 1..l : rest[i] = IF i = l THEN call ELSE visits[i]
  <2>1. l \in 1..Len(visits) /\ visits \in Seq(calls) /\ call \in calls
    BY <1>1, <1>2, <1>3
  <2>. HIDE DEF l
  <2>2. /\ [visits EXCEPT ![l] = call] \in Seq(calls) /\ Len([visits EXCEPT ![l] = call]) = Len(visits)
        /\ \A i \in 1..Len(visits) : [visits EXCEPT ![l] = call][i] = IF i = l THEN call ELSE visits[i]
    BY <2>1, ExceptSeq, Z3
  <2>. QED BY <1>6, <2>2 DEF l
<1>. HIDE DEF l
<1>8. DOMAIN rest = 1..l
  BY <1>7, LenProperties
<1>. QED BY <1>3, <1>7, <1>8 DEF calls, l, rest

(* topo-sort takes up a module. *)
LEMMA NextModuleKeeps ==
  ASSUME BoInv, NEW m \in Module, BoNextModule(m)
  PROVE  BoInv'
<1>1. /\ visits = <<>> /\ ~Visited(m) /\ visits' = <<Visit(m)>>
      /\ color_of' = [color_of EXCEPT ![m] = "visited"]
      /\ usages_of' = usages_of /\ order' = order
  BY DEF BoNextModule
<1>2. Visit(m).module = m /\ Visit(m).left = usages_of[m] /\ Visit(m) \in [module : Module, left : Uses_]
  BY DEF Visit, BoInv, BoTypes
<1>3. DOMAIN visits = {} /\ DOMAIN visits' = {1} /\ visits'[1] = Visit(m)
  BY <1>1
<1>4. BoTypes'
  BY <1>1, <1>2 DEF BoInv, BoTypes
<1>5. \A x \in Module : Visited(x)' <=> Visited(x) \/ x = m
  BY <1>1 DEF BoInv, BoTypes, Visited, Fresh
<1>6. \A x \in Module : (Done(x)' <=> Done(x)) /\ ~Open(x) /\ (Open(x)' <=> x = m)
  BY <1>1, <1>2, <1>3 DEF Done, Open
<1>7. PlacedOnce'
  BY <1>1, <1>3, <1>5, <1>6 DEF BoInv, PlacedOnce
<1>8. LookedAtVisited'
  BY <1>1, <1>2, <1>3 DEF LookedAtVisited, UseOf
<1>9. CallsReach'
  BY <1>3 DEF CallsReach
<1>10. Sorted'
  BY <1>1 DEF BoInv, Sorted
<1>. QED BY <1>4, <1>7, <1>8, <1>9, <1>10 DEF BoInv

(* dfs-visit looks at what it need not visit. *)
LEMMA UsePasses ==
  ASSUME BoInv, visits # <<>>, NEW used \in Last(visits).left, ~(used \in Module /\ ~Visited(used)),
         visits' = [visits EXCEPT ![Len(visits)].left = @ \ {used}],
         UNCHANGED <<usages_of, color_of, order>>
  PROVE  BoInv'
<1>. DEFINE l == Len(visits)
<1>1. /\ l \in Nat \ {0} /\ DOMAIN visits = 1..l /\ Last(visits) = visits[l]
      /\ \A i \in DOMAIN visits : visits[i].module \in Module /\ visits[i].left \in Uses_
  BY InnermostVisit DEF BoInv
<1>2. /\ visits' \in Seq([module : Module, left : Uses_]) /\ DOMAIN visits' = DOMAIN visits
      /\ \A i \in DOMAIN visits : /\ visits'[i].module = visits[i].module
                                  /\ visits'[i].left = IF i = l THEN visits[i].left \ {used} ELSE visits[i].left
  <2>1. BoTypes /\ visits' = LessOne(visits, used)
    BY DEF BoInv, LessOne
  <2>. DEFINE rest == LessOne(visits, used)
  <2>2. /\ rest \in Seq([module : Module, left : Uses_]) /\ DOMAIN rest = 1..l
        /\ \A i \in 1..l :
              /\ rest[i].module = visits[i].module
              /\ rest[i].left = IF i = l THEN visits[i].left \ {used} ELSE visits[i].left
    BY <2>1, LeftShrinks
  <2>. HIDE DEF rest
  <2>3. visits' = rest
    BY <2>1 DEF rest
  <2>. QED BY <1>1, <2>2, <2>3
<1>. HIDE DEF l
<1>3. BoTypes'
  BY <1>2 DEF BoInv, BoTypes
<1>4. \A m \in Module : (Visited(m)' <=> Visited(m)) /\ (Open(m)' <=> Open(m)) /\ (Done(m)' <=> Done(m))
  BY <1>2 DEF Visited, Open, Done
<1>5. PlacedOnce'
  BY <1>2, <1>4 DEF BoInv, PlacedOnce
<1>6. LookedAtVisited'
  <2>. SUFFICES ASSUME NEW i \in DOMAIN visits
                PROVE  /\ visits'[i].left \subseteq usages_of[visits[i].module]
                       /\ \A u \in UseOf(usages_of, visits[i].module) : u \in visits'[i].left \/ Visited(u)
    BY <1>2 DEF LookedAtVisited, UseOf, Visited
  <2>. QED BY <1>2 DEF BoInv, LookedAtVisited, UseOf
<1>7. CallsReach'
  BY <1>2 DEF BoInv, CallsReach
<1>8. Sorted'
  BY DEF BoInv, Sorted
<1>. QED BY <1>3, <1>5, <1>6, <1>7, <1>8 DEF BoInv

(* It visits what is not yet visited. *)
LEMMA UseVisits ==
  ASSUME BoInv, visits # <<>>, NEW used \in Last(visits).left, used \in Module, ~Visited(used),
         visits' = Append([visits EXCEPT ![Len(visits)].left = @ \ {used}], Visit(used)),
         color_of' = [color_of EXCEPT ![used] = "visited"],
         UNCHANGED <<usages_of, order>>
  PROVE  BoInv'
<1>. DEFINE l == Len(visits)
            calls == [module : Module, left : Uses_]
            rest == LessOne(visits, used)
<1>1. /\ l \in Nat \ {0} /\ DOMAIN visits = 1..l /\ Last(visits) = visits[l]
      /\ \A i \in DOMAIN visits : visits[i].module \in Module /\ visits[i].left \in Uses_
  BY InnermostVisit DEF BoInv
<1>2. /\ rest \in Seq(calls) /\ Len(rest) = l /\ DOMAIN rest = 1..l
      /\ \A i \in 1..l : /\ rest[i].module = visits[i].module
                         /\ rest[i].left = IF i = l THEN visits[i].left \ {used} ELSE visits[i].left
  BY LeftShrinks DEF BoInv
<1>3. Visit(used) \in calls /\ Visit(used).module = used /\ Visit(used).left = usages_of[used]
  BY DEF Visit, BoInv, BoTypes
<1>. HIDE DEF rest, calls
<1>4. /\ visits' \in Seq(calls) /\ DOMAIN visits' = 1..l + 1 /\ visits'[l + 1] = Visit(used)
      /\ \A i \in 1..l : visits'[i] = rest[i]
  <2>1. visits' = Append(rest, Visit(used))
    BY DEF rest, LessOne
  <2>2. /\ visits' \in Seq(calls) /\ Len(visits') = l + 1 /\ visits'[l + 1] = Visit(used)
        /\ \A i \in 1..l : visits'[i] = rest[i]
    <3>0. rest \in Seq(calls) /\ Visit(used) \in calls
      BY <1>2, <1>3
    <3>1. /\ Append(rest, Visit(used)) \in Seq(calls)
          /\ Len(Append(rest, Visit(used))) = Len(rest) + 1
          /\ Append(rest, Visit(used))[Len(rest) + 1] = Visit(used)
          /\ \A i \in 1..Len(rest) : Append(rest, Visit(used))[i] = rest[i]
      BY <3>0, AppendProperties
    <3>. QED BY <1>2, <2>1, <3>1
  <2>. QED BY <2>2, LenProperties
<1>5. /\ visits'[l + 1].module = used /\ visits'[l + 1].left = usages_of[used]
      /\ \A i \in 1..l : /\ visits'[i].module = visits[i].module
                         /\ visits'[i].left = IF i = l THEN visits[i].left \ {used} ELSE visits[i].left
  BY <1>2, <1>3, <1>4
<1>6. l \in 1..l /\ l + 1 \notin 1..l /\ \A i \in 1..l + 1 : i \in 1..l \/ i = l + 1
  BY <1>1
<1>. HIDE DEF l
<1>7. BoTypes'
  BY <1>4 DEF calls, BoInv, BoTypes
<1>8. \A x \in Module : Visited(x)' <=> Visited(x) \/ x = used
  BY DEF BoInv, BoTypes, Visited, Fresh
<1>9. \A x \in Module : (Done(x)' <=> Done(x)) /\ (Open(x)' <=> Open(x) \/ x = used)
  BY <1>1, <1>4, <1>5, <1>6 DEF Done, Open
<1>10. PlacedOnce'
  <2>1. ~Open(used) /\ ~Done(used)
    BY DEF BoInv, PlacedOnce
  <2>2. \A i, j \in 1..l + 1 : visits'[i].module = visits'[j].module => i = j
    BY <1>1, <1>5, <1>6, <2>1 DEF BoInv, PlacedOnce, Open
  <2>. QED BY <1>4, <1>8, <1>9, <2>1, <2>2 DEF BoInv, PlacedOnce
<1>11. LookedAtVisited'
  <2>. SUFFICES ASSUME NEW i \in 1..l + 1
                PROVE  /\ visits'[i].left \subseteq usages_of[visits'[i].module]
                       /\ \A u \in UseOf(usages_of, visits'[i].module) : u \in visits'[i].left \/ Visited(u)'
    BY <1>4 DEF LookedAtVisited, UseOf
  <2>1. CASE i \in 1..l
    <3>1. /\ visits[i].left \subseteq usages_of[visits[i].module]
          /\ \A u \in UseOf(usages_of, visits[i].module) : u \in visits[i].left \/ Visited(u)
      BY <1>1, <2>1 DEF BoInv, LookedAtVisited
    <3>2. \A u \in UseOf(usages_of, visits[i].module) : u \in Module
      BY DEF UseOf
    <3>. QED BY <1>5, <1>8, <2>1, <3>1, <3>2
  <2>2. CASE i = l + 1
    BY <1>5, <2>2 DEF UseOf
  <2>. QED BY <1>6, <2>1, <2>2
<1>12. CallsReach'
  <2>. SUFFICES ASSUME NEW i \in 1..l + 1, NEW j \in 1..l + 1, i < j
                PROVE  visits'[j].module \in Reaches(usages_of, visits'[i].module)
    BY <1>4 DEF CallsReach
  <2>1. CASE j \in 1..l
    <3>1. i \in 1..l
      BY <1>1, <1>6, <2>1
    <3>. QED BY <1>1, <1>5, <2>1, <3>1 DEF BoInv, CallsReach
  <2>2. CASE j = l + 1
    <3>1. i \in 1..l
      BY <1>1, <1>6, <2>2
    <3>2. used \in UseOf(usages_of, visits[l].module)
      BY <1>1, <1>6 DEF UseOf, BoInv, LookedAtVisited
    <3>3. CASE i = l
      BY <1>5, <2>2, <3>1, <3>2, <3>3, ReachesUse
    <3>4. CASE i # l
      <4>1. i < l
        BY <1>1, <3>1, <3>4
      <4>2. visits[l].module \in Reaches(usages_of, visits[i].module)
        BY <1>1, <1>6, <3>1, <4>1 DEF BoInv, CallsReach
      <4>3. used \in Reaches(usages_of, visits[i].module)
        BY <3>2, <4>2, ReachesFurther
      <4>. QED BY <1>5, <2>2, <3>1, <4>3
    <3>. QED BY <3>3, <3>4
  <2>. QED BY <1>6, <2>1, <2>2
<1>13. Sorted'
  BY DEF BoInv, Sorted
<1>. QED BY <1>7, <1>10, <1>11, <1>12, <1>13 DEF BoInv

(* A module is done: all that it uses are before it in the order, or around it
   in the calls. *)
LEMMA DoneKeeps ==
  ASSUME BoInv, BoDone
  PROVE  BoInv'
<1>. DEFINE l == Len(visits)
            n == Len(order)
            m == visits[l].module
<1>0. visits # <<>> /\ Last(visits).left = {} /\ UNCHANGED <<usages_of, color_of>>
  BY DEF BoDone
<1>1. /\ l \in Nat \ {0} /\ DOMAIN visits = 1..l /\ Last(visits) = visits[l]
      /\ m \in Module
      /\ visits' \in Seq([module : Module, left : Uses_]) /\ DOMAIN visits' = 1..l - 1
      /\ \A i \in 1..l - 1 : visits'[i] = visits[i]
  BY <1>0, InnermostVisit DEF BoInv, BoDone
<1>2. /\ n \in Nat /\ DOMAIN order = 1..n /\ order' \in Seq(Module) /\ DOMAIN order' = 1..n + 1
      /\ order'[n + 1] = m /\ \A i \in 1..n : order'[i] = order[i]
  <2>1. order' = Append(order, m) /\ order \in Seq(Module)
    BY <1>1 DEF BoDone, BoInv, BoTypes
  <2>. QED BY <1>1, <2>1
<1>. HIDE DEF l, n, m
<1>3. /\ l \in 1..l /\ l \notin 1..l - 1 /\ \A i \in 1..l : i \in 1..l - 1 \/ i = l
      /\ n + 1 \notin 1..n /\ \A i \in 1..n + 1 : i \in 1..n \/ i = n + 1
      /\ 1..l - 1 \subseteq 1..l /\ 1..n \subseteq 1..n + 1 /\ n + 1 \in 1..n + 1
  BY <1>1, <1>2
<1>4. visits[l].module = m
  BY DEF m
<1>5. BoTypes'
  BY <1>0, <1>1, <1>2 DEF BoInv, BoTypes
<1>6. \A x \in Module : /\ Visited(x)' <=> Visited(x)
                        /\ Open(x)' <=> Open(x) /\ x # m
                        /\ Done(x)' <=> Done(x) \/ x = m
  <2>. SUFFICES ASSUME NEW x \in Module
                PROVE  /\ Open(x)' <=> Open(x) /\ x # m
                       /\ Done(x)' <=> Done(x) \/ x = m
    BY <1>0 DEF Visited
  <2>1. Open(x)' <=> Open(x) /\ x # m
    BY <1>1, <1>3, <1>4 DEF Open, BoInv, PlacedOnce
  <2>2. Done(x)' <=> Done(x) \/ x = m
    BY <1>2, <1>3 DEF Done
  <2>. QED BY <2>1, <2>2
<1>7. Open(m) /\ ~Done(m)
  BY <1>1, <1>3, <1>4 DEF Open, BoInv, PlacedOnce
<1>8. PlacedOnce'
  <2>1. \A i, j \in DOMAIN visits' : visits'[i].module = visits'[j].module => i = j
    BY <1>1, <1>3 DEF BoInv, PlacedOnce
  <2>2. \A i, j \in DOMAIN order' : order'[i] = order'[j] => i = j
    BY <1>2, <1>3, <1>7 DEF BoInv, PlacedOnce, Done
  <2>. QED BY <1>6, <1>7, <2>1, <2>2 DEF BoInv, PlacedOnce
<1>9. LookedAtVisited'
  BY <1>0, <1>1, <1>3 DEF BoInv, LookedAtVisited, UseOf, Visited
<1>10. CallsReach'
  BY <1>0, <1>1, <1>3 DEF BoInv, CallsReach
<1>11. ASSUME NEW used \in UseOf(usages_of, m)
       PROVE  m \in Reaches(usages_of, used) \/ Done(used)
  <2>1. used \in Module /\ Visited(used)
    BY <1>0, <1>1, <1>3, <1>4 DEF BoInv, LookedAtVisited, UseOf
  <2>2. CASE Open(used)
    <3>1. PICK i \in 1..l : visits[i].module = used
      BY <1>1, <2>2 DEF Open
    <3>2. CASE i = l
      BY <1>4, <1>11, <3>1, <3>2, ReachesUse
    <3>3. CASE i # l
      <4>1. i < l
        BY <1>1, <3>3
      <4>. QED BY <1>1, <1>3, <1>4, <3>1, <4>1 DEF BoInv, CallsReach
    <3>. QED BY <3>2, <3>3
  <2>. QED BY <2>1, <2>2 DEF BoInv, PlacedOnce
<1>12. Sorted'
  <2>. SUFFICES ASSUME NEW j \in 1..n + 1, NEW used \in UseOf(usages_of, order'[j])
                PROVE  order'[j] \in Reaches(usages_of, used) \/ \E i \in 1..j - 1 : order'[i] = used
    BY <1>0, <1>2 DEF Sorted
  <2>1. CASE j \in 1..n
    <3>1. order'[j] = order[j] /\ 1..j - 1 \subseteq 1..n
      BY <1>2, <2>1
    <3>2. order[j] \in Reaches(usages_of, used) \/ \E i \in 1..j - 1 : order[i] = used
      BY <1>2, <2>1, <3>1 DEF BoInv, Sorted
    <3>. QED BY <1>2, <3>1, <3>2
  <2>2. CASE j = n + 1
    <3>1. order'[j] = m /\ 1..j - 1 = 1..n
      BY <1>2, <2>2
    <3>2. m \in Reaches(usages_of, used) \/ Done(used)
      BY <1>11, <3>1
    <3>. QED BY <1>2, <3>1, <3>2 DEF Done
  <2>. QED BY <1>3, <2>1, <2>2
<1>. QED BY <1>5, <1>8, <1>9, <1>10, <1>12 DEF BoInv

(* Every step of the search keeps the invariant. *)
LEMMA NextKeeps == BoInv /\ [BoNext]_boVars => BoInv'
<1>. SUFFICES ASSUME BoInv, [BoNext]_boVars PROVE BoInv'
  OBVIOUS
<1>1. CASE BoDone
  BY <1>1, DoneKeeps
<1>2. ASSUME NEW m \in Module, BoNextModule(m) PROVE BoInv'
  BY <1>2, NextModuleKeeps
<1>3. ASSUME NEW used \in Module \cup Elsewhere, BoUse(used) PROVE BoInv'
  <2>1. CASE used \in Module /\ ~Visited(used)
    BY <1>3, <2>1, UseVisits DEF BoUse, Visited
  <2>2. CASE ~(used \in Module /\ ~Visited(used))
    BY <1>3, <2>2, UsePasses DEF BoUse, Visited
  <2>. QED BY <2>1, <2>2
<1>4. CASE UNCHANGED boVars
  <2>1. BoTypes' /\ PlacedOnce' /\ LookedAtVisited'
    BY <1>4 DEF boVars, BoInv, BoTypes, PlacedOnce, Open, Done, Visited, LookedAtVisited, UseOf
  <2>2. CallsReach' /\ Sorted'
    BY <1>4 DEF boVars, BoInv, CallsReach, Sorted
  <2>. QED BY <2>1, <2>2 DEF BoInv
<1>. QED BY <1>1, <1>2, <1>3, <1>4 DEF BoNext

(* Each module of a project is compiled once, in the end all of them, and after
   what it uses unless that comes to use it in turn: what topo-sort of
   Panda::Builder returns, for any modules and uses. *)
THEOREM BuildOrderSortedAlways == BoSpec => []BuildOrderSorted
<1>1. BoSpec => []BoInv
  BY InitHolds, NextKeeps, PTL DEF BoSpec
<1>2. ASSUME BoInv PROVE BuildOrderSorted
  <2>1. \A i, j \in DOMAIN order : order[i] = order[j] => i = j
    BY <1>2 DEF BoInv, PlacedOnce
  <2>2. ASSUME visits = <<>>, \A m \in Module : Visited(m) PROVE ToSet(order) = Module
    <3>1. \A m \in Module : Done(m)
      BY <1>2, <2>2 DEF BoInv, PlacedOnce, Open
    <3>2. \A i \in DOMAIN order : order[i] \in Module
      BY <1>2 DEF BoInv, BoTypes
    <3>. QED BY <3>1, <3>2 DEF ToSet, Done
  <2>. QED BY <1>2, <2>1, <2>2 DEF BuildOrderSorted, BoInv, Sorted
<1>. QED BY <1>1, <1>2, PTL
=============================================================================
