------------------------------ MODULE GcGmsInv ------------------------------
(***************************************************************************)
(* The inductive invariants behind the safety properties of GcGms: what    *)
(* holds between any two steps of a collection, not only when it is over.  *)
(* TLC checks them as invariants of the runs, Gc_proofs proves them.       *)
(***************************************************************************)
EXTENDS GcGms

Collecting == {"cleanup", "dirty", "work", "sweep"}
Marking == {"dirty", "work"}

-----------------------------------------------------------------------------
(***************************************************************************)
(* Arrays and flags, for any number of generations and any program.        *)
(***************************************************************************)

\* The block level the collection takes on entry is there for it to give back.
BlockHeld == phase \in Collecting => gc_mark_block_level > 0

\* Where the headers are that a phase has still to look at.
TodoPlaced ==
  /\ phase \in {"mutator", "sweep"} => todo = {}
  /\ phase = "cleanup" => todo \subseteq dirty_list
  /\ phase = "dirty" => todo = work_list
  /\ phase = "work" => todo \subseteq work_list

\* The marked PMCs are the ones on the work list, until they are put back into
\* generations that the sweep has still to visit.
LivePlaced ==
  /\ phase \in {"mutator", "cleanup"} => live \cap Pmc = {}
  /\ phase \in Marking => live \cap Pmc = work_list
  /\ phase = "sweep" => live \cap Pmc \subseteq UNION {objects[g] : g \in 0 .. sweeping}

\* ... and are clean PMCs of the generations to collect.
MarkedClean ==
  \A p \in work_list : /\ generation[p] <= gen_to_collect
                       /\ generation[p] > 0 => p \in need_write_barrier

WorkListPlaced ==
  /\ phase \in {"mutator", "cleanup", "sweep"} => work_list = {}
  /\ MarkedClean

\* What the program holds is in use, and is held until a call on it is over.
HeldAllocated ==
  /\ roots \cup stack \subseteq Allocated
  /\ pending \cup filling \subseteq stack
  /\ filling \subseteq CloneTarget

\* A temporary PMC is known to its owner only and points to nothing.
TemporaryApart ==
  /\ Temporary \cap (roots \cup pending \cup filling) = {}
  /\ \A o \in Obj : refs[o] \cap Temporary = {}
  /\ \A t \in Temporary : refs[t] = {}

\* The collection in progress will not free o.
Marked(o) == o \in live \/ o \in dirty_list \/ generation[o] > gen_to_collect

HeldMarked ==
  /\ phase \in Marking => \A o \in roots \cup stack : Marked(o)
  /\ phase = "sweep" =>
       \A g \in 0 .. sweeping : (roots \cup stack) \cap objects[g] \subseteq live

ArraysInv ==
  /\ TypeOK /\ CheckSanity /\ BlockHeld /\ TodoPlaced /\ LivePlaced
  /\ WorkListPlaced /\ HeldAllocated /\ TemporaryApart /\ HeldMarked

-----------------------------------------------------------------------------
(***************************************************************************)
(* What keeps reachable objects alive.  With four generations the collector*)
(* does free reachable headers (GmsDeadObject), and so it does when a      *)
(* C function fills a clone for long; these are the situations by which it *)
(* comes to that.                                                          *)
(***************************************************************************)

\* What the marking has reached, and the sweep will promote, refers to no dirty
\* PMC of its own age: it would overtake it.
NoneOvertakes ==
  phase = "work" =>
    \A o \in work_list : \A c \in refs[o] \cap dirty_list :
      generation[o] < generation[c] \/ generation[o] = Oldest

\* A clone target that is still filled is young, or on the dirty list: there the
\* collection that promotes it puts it, for it is on the C stack; but the next
\* one takes it off, and the stores that follow have no barrier.
FillingYoung == \A o \in filling : generation[o] = 0 \/ o \in dirty_list

Untroubled == NoneOvertakes /\ FillingYoung

\* No collection comes while the owner of a temporary PMC still uses it.
TemporaryBrief == phase \in Collecting => Temporary \cap stack = {}

\* The store is there but its barrier is not; the value is still held.
Excused(o, c) == o \in pending /\ c \in stack

\* Dirty PMCs are old.  With up to three generations those that survive the
\* clean-up are of the oldest, so that none is overtaken: this is where a fourth
\* generation makes the difference.
DirtyAged ==
  /\ \A d \in dirty_list : generation[d] > 0
  /\ MaxGenerations <= 3 /\ phase \in {"cleanup"} \cup Marking =>
       \A d \in dirty_list \ todo : generation[d] = Oldest

\* Outside the sweep, no clean PMC has a younger child.
NoYoungerChild ==
  phase # "sweep" =>
    \A o \in Allocated \ dirty_list : \A c \in refs[o] :
      generation[o] <= generation[c] \/ Excused(o, c)

\* What will be left when the sweep is over, and in which generation.
Surviving == Allocated \ UNION {Dead(g) : g \in 0 .. sweeping}
Settling(o) ==
  IF o \in dirty_list \/ generation[o] > sweeping THEN generation[o]
                                                  ELSE Older(generation[o])

NoYoungerSurvivor ==
  phase = "sweep" =>
    \A o \in Surviving \ dirty_list : \A c \in refs[o] :
      Settling(o) <= Settling(c) \/ Excused(o, c)

\* Pointers lead to headers in use, even from garbage; during the sweep, from
\* what survives to what survives.
NoDangling ==
  /\ phase # "sweep" => \A o \in Allocated : refs[o] \subseteq Allocated
  /\ phase = "sweep" => \A o \in Surviving : refs[o] \subseteq Surviving

\* No black object has a white child: tri-colour marking, where the dirty list
\* counts as black once it has been gone through.
Tricolour ==
  phase = "work" =>
    \A p \in dirty_list \cup (work_list \ todo) : \A c \in refs[p] : Marked(c)

HeapInv ==
  /\ ArraysInv
  /\ DirtyAged /\ NoYoungerChild /\ NoYoungerSurvivor /\ NoDangling /\ Tricolour

\* A header on the free list refers to nothing.
FreeEmpty == \A o \in Obj \ Allocated : refs[o] = {}
=============================================================================
