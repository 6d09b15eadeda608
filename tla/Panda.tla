-------------------------------- MODULE Panda --------------------------------
(***************************************************************************)
(* panda, the installer of modules (modules/panda): the requested projects *)
(* are resolved one after another, each after the dependencies that are    *)
(* not installed; what is installed is recorded in memory and in a state   *)
(* file that is written anew each time.  The process may be killed at any  *)
(* moment and started again.                                               *)
(***************************************************************************)
EXTENDS Integers, Sequences, FiniteSets

CONSTANTS
  Project,               \* the projects in the ecosystem
  Unknown,               \* names that are not
  Depends,               \* dependencies: project -> sequence of names
  Files,                 \* bound: the number of files of a project
  Requests,              \* bound: what is asked for: [modules, nodeps, notests]
  MaxDepth,              \* bound: how deep the recursion may get
  Starts                 \* bound: how often the process is started

ASSUME PandaAssumption ==
  /\ Project \cap Unknown = {}
  /\ Depends \in [Project -> Seq(Project \cup Unknown)]
  /\ Files \in Nat \ {0} /\ MaxDepth \in Nat \ {0} /\ Starts \in Nat
  /\ \A r \in Requests : r.modules \in Seq(Project \cup Unknown)
  /\ Requests \subseteq [modules : Seq(Project \cup Unknown), nodeps : BOOLEAN, notests : BOOLEAN]

VARIABLES
  started,    \* how often the process was started
  request,    \* what is still to be done of the request; "none" without a process
  frames,     \* the calls of resolve-helper, the innermost last
  states,     \* %!states, in memory
  statefile,  \* what the state file holds, and whether its last line is cut
  flushing,   \* is the state file being written?
  whole,      \* the files of each project that are installed, in full
  linked,     \* ghost: projects that were once recorded with their dependencies
  spoilt      \* ghost: projects that lost files, or of which one was not copied

pdVars == <<started, request, frames, states, statefile, flushing, whole, linked, spoilt>>

NoRequest == [modules |-> <<>>, nodeps |-> FALSE, notests |-> FALSE, running |-> FALSE]

Running == request.running
Frame == frames[Len(frames)]
Absent(p) == p \notin DOMAIN states
InFull(p) == whole[p] = 1..Files

(* A call of resolve-helper: a project, which of its dependencies are still to
   be resolved, and what it does next. *)
Call(p, isdep) == [project |-> p, isdep |-> isdep, deps |-> {}, stage |-> "deps", file |-> 0]

In(stage) == Running /\ ~flushing /\ frames # <<>> /\ Frame.stage = stage

To(stage) == frames' = [frames EXCEPT ![Len(frames)].stage = stage]

(* Variant: it ends the innermost call, and the caller goes on. *)
ThrowOnce == frames' = SubSeq(frames, 1, Len(frames) - 1)

(* An exception ends all calls; the program says so and goes on with the next
   module. *)
Throw == frames' = <<>>
-----------------------------------------------------------------------------
PdInit ==
  /\ started = 0
  /\ request = NoRequest
  /\ frames = <<>>
  /\ states = <<>>
  /\ statefile = [records |-> <<>>, torn |-> FALSE]
  /\ flushing = FALSE
  /\ whole = [p \in Project |-> {}]
  /\ linked = {} /\ spoilt = {}

(* The state file is read; a line that is cut may end the program. *)
PdStart(r) ==
  /\ ~Running /\ started < Starts
  /\ started' = started + 1
  /\ \/ /\ states' = statefile.records
        /\ request' = [modules |-> r.modules, nodeps |-> r.nodeps, notests |-> r.notests, running |-> TRUE]
     \/ statefile.torn /\ UNCHANGED <<states, request>>
  /\ UNCHANGED <<frames, statefile, flushing, whole, linked, spoilt>>

(* Variant: the module stays on the list. *)
PdResolveAgain ==
  /\ Running /\ frames = <<>> /\ ~flushing /\ request.modules # <<>>
  /\ frames' = IF Head(request.modules) \in Project THEN <<Call(Head(request.modules), FALSE)>> ELSE <<>>
  /\ UNCHANGED <<started, request, states, statefile, flushing, whole, linked, spoilt>>

(* The next module; one that is not in the ecosystem is an exception. *)
PdResolve ==
  /\ Running /\ frames = <<>> /\ ~flushing /\ request.modules # <<>>
  /\ request' = [request EXCEPT !.modules = Tail(@)]
  /\ frames' = IF Head(request.modules) \in Project THEN <<Call(Head(request.modules), FALSE)>> ELSE <<>>
  /\ UNCHANGED <<started, states, statefile, flushing, whole, linked, spoilt>>

PdExit ==
  /\ Running /\ frames = <<>> /\ ~flushing /\ request.modules = <<>>
  /\ request' = NoRequest
  /\ states' = <<>>
  /\ UNCHANGED <<started, frames, statefile, flushing, whole, linked, spoilt>>

(* Variant: those that are installed are resolved again. *)
PdDepsAll ==
  /\ In("deps")
  /\ LET names == Depends[Frame.project]
     IN  IF request.nodeps THEN To("fetch")
         ELSE IF \E i \in DOMAIN names : names[i] \notin Project THEN Throw
         ELSE frames' = [frames EXCEPT ![Len(frames)].deps = DOMAIN names, ![Len(frames)].stage = "each"]
  /\ UNCHANGED <<started, request, states, statefile, flushing, whole, linked, spoilt>>

(* deps-helper: the absent ones of the dependencies, all looked up before the
   first is installed. *)
PdDeps ==
  /\ In("deps")
  /\ LET names == Depends[Frame.project]
         absent == {i \in DOMAIN names : Absent(names[i])}
     IN  IF request.nodeps THEN To("fetch")
         ELSE IF \E i \in DOMAIN names : names[i] \notin Project THEN Throw
         ELSE frames' = [frames EXCEPT ![Len(frames)].deps = absent, ![Len(frames)].stage = "each"]
  /\ UNCHANGED <<started, request, states, statefile, flushing, whole, linked, spoilt>>

PdEachDep ==
  /\ In("each") /\ Len(frames) < MaxDepth
  /\ \E i \in Frame.deps :
       /\ \A j \in Frame.deps : i <= j
       /\ frames' = Append([frames EXCEPT ![Len(frames)].deps = @ \ {i}],
                           Call(Depends[Frame.project][i], TRUE))
  /\ UNCHANGED <<started, request, states, statefile, flushing, whole, linked, spoilt>>

PdDepsDone ==
  /\ In("each") /\ Frame.deps = {}
  /\ To("fetch")
  /\ UNCHANGED <<started, request, states, statefile, flushing, whole, linked, spoilt>>

(* fetch, build and test work outside of the directory of installed modules,
   and may fail. *)
PdFetch ==
  /\ In("fetch") /\ (To("build") \/ Throw)
  /\ UNCHANGED <<started, request, states, statefile, flushing, whole, linked, spoilt>>

PdBuild ==
  /\ In("build") /\ (To(IF request.notests THEN "install" ELSE "test") \/ Throw)
  /\ UNCHANGED <<started, request, states, statefile, flushing, whole, linked, spoilt>>

PdTest ==
  /\ In("test") /\ (To("install") \/ Throw)
  /\ UNCHANGED <<started, request, states, statefile, flushing, whole, linked, spoilt>>

(* The next file, whether or not this one was copied: IO.copy catches what
   goes wrong and returns a Failure, at which nobody looks. *)
Onward == frames' = [frames EXCEPT ![Len(frames)].stage = "install", ![Len(frames)].file = @ + 1]

(* mkpath throws what goes wrong; then the file is opened, which empties the
   one that was there before, unless it cannot be; the chmod that follows the
   copy of a script throws, too. *)
PdOpenFile ==
  /\ In("install") /\ Frame.file < Files
  /\ \/ Throw /\ UNCHANGED <<whole, spoilt>>
     \/ /\ To("copy")
        /\ whole' = [whole EXCEPT ![Frame.project] = @ \ {Frame.file + 1}]
        /\ spoilt' = IF InFull(Frame.project) THEN spoilt \cup {Frame.project} ELSE spoilt
     \/ /\ Onward \/ Throw
        /\ spoilt' = spoilt \cup {Frame.project} /\ UNCHANGED whole
  /\ UNCHANGED <<started, request, states, statefile, flushing, linked>>

(* It is written to the end, or only in part. *)
PdInstallFile ==
  /\ In("copy")
  /\ Onward \/ Throw
  /\ \/ whole' = [whole EXCEPT ![Frame.project] = @ \cup {Frame.file + 1}] /\ UNCHANGED spoilt
     \/ spoilt' = spoilt \cup {Frame.project} /\ UNCHANGED whole
  /\ UNCHANGED <<started, request, states, statefile, flushing, linked>>

(* project-set-state and the beginning of flush-states: the file is opened for
   writing, which empties it. *)
PdSetState ==
  /\ In("install") /\ Frame.file = Files
  /\ states' = [p \in DOMAIN states \cup {Frame.project} |->
                  IF p # Frame.project THEN states[p]
                  ELSE IF Frame.isdep THEN "installed-dep" ELSE "installed"]
  /\ statefile' = [records |-> <<>>, torn |-> FALSE]
  /\ flushing' = TRUE
  /\ linked' = IF request.nodeps THEN linked ELSE linked \cup {Frame.project}
  /\ spoilt' = IF InFull(Frame.project) THEN spoilt \ {Frame.project} ELSE spoilt
  /\ frames' = SubSeq(frames, 1, Len(frames) - 1)
  /\ UNCHANGED <<started, request, whole>>

(* The end of flush-states. *)
PdFlushed ==
  /\ flushing
  /\ statefile' = [records |-> states, torn |-> FALSE]
  /\ flushing' = FALSE
  /\ UNCHANGED <<started, request, frames, states, whole, linked, spoilt>>

Killed ==
  /\ request' = NoRequest /\ frames' = <<>> /\ states' = <<>> /\ flushing' = FALSE
  /\ UNCHANGED <<started, whole, linked, spoilt>>

(* The process is killed; of a file being written, some lines are there. *)
PdKill ==
  /\ Running
  /\ Killed
  /\ IF ~flushing THEN UNCHANGED statefile
     ELSE \E some \in SUBSET DOMAIN states, torn \in BOOLEAN :
            statefile' = [records |-> [p \in some |-> states[p]], torn |-> torn]

(* Projects that depend on each other recurse until the memory is exhausted. *)
PdTooDeep ==
  /\ In("each") /\ Frame.deps # {} /\ Len(frames) = MaxDepth
  /\ Killed
  /\ UNCHANGED statefile

PdStep ==
  \/ PdResolve \/ PdExit \/ PdDeps \/ PdEachDep \/ PdDepsDone \/ PdFetch \/ PdBuild \/ PdTest
  \/ PdOpenFile \/ PdInstallFile \/ PdSetState \/ PdFlushed \/ PdTooDeep

PdNext == PdStep \/ PdKill \/ \E r \in Requests : PdStart(r)

PdSpec == PdInit /\ [][PdNext]_pdVars /\ WF_pdVars(PdStep)
-----------------------------------------------------------------------------
(* What is taken for installed by the process, or by one that reads the state
   file after a crash. *)
Recorded == DOMAIN states \cup DOMAIN statefile.records

(* It is there in full, or files of it were written over since, or could not be
   copied; neither stops panda, or is undone, before it is installed again. *)
Sound(p) == InFull(p) \/ p \in spoilt

(* It has all its files, whatever stage failed or was killed before it was
   recorded, and if dependencies were asked for, each of them has, too: until a
   copy fails, or a later installation writes over what is there. *)
PandaRecordedComplete ==
  \A p \in Recorded :
    /\ Sound(p)
    /\ p \in linked => \A i \in DOMAIN Depends[p] : Sound(Depends[p][i])

(* A project that was asked for does not become one that is there only for
   others. *)
PandaKeepsRequested ==
  [][\A p \in DOMAIN states \cap DOMAIN states' :
       states[p] = "installed" => states'[p] = "installed"]_pdVars

(* Every run of panda ends. *)
PandaEnds == Running ~> ~Running
=============================================================================
