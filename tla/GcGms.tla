------------------------------- MODULE GcGms --------------------------------
(***************************************************************************)
(* The generational mark and sweep collector of Parrot                     *)
(* (parrot/src/gc/gc_gms.c) together with the code that uses it: C         *)
(* functions that hold pointers on the C stack, VTABLE functions that      *)
(* store references and run the write barrier after their body, and the    *)
(* interpreter's own roots.                                                *)
(*                                                                         *)
(* One collection is a sequence of steps, as in gc_gms_mark_and_sweep: it  *)
(* goes through the dirty list, traces the roots, marks and sweeps.  No    *)
(* other code runs meanwhile, but a collection can begin in any state of   *)
(* the interpreter, since any allocation may trigger it.                   *)
(***************************************************************************)
EXTENDS Naturals, FiniteSets

CONSTANTS
  Pmc, Str,        \* PMC headers and string headers; a string has no children
  Temporary,       \* PMCs made by Parrot_pmc_new_temporary
  CloneTarget,     \* PMCs that a C function fills without barriers
  MaxGenerations,  \* MAX_GENERATIONS, 4 in the code
  RunBase,         \* 10 in the code: how much rarer each older collection is
  MaxRefs,         \* bound: references an object has at a time
  MaxStack,        \* bound: headers the C stack refers to at a time
  MaxRoots,        \* bound: headers the interpreter structure refers to
  MaxPending,      \* bound: VTABLE functions between body and barrier
  MaxBlock         \* bound: nesting of requests to block the collector

ASSUME KindsAssumption ==
  /\ Pmc \cap Str = {}
  /\ Temporary \subseteq Pmc /\ CloneTarget \subseteq Pmc \ Temporary

ASSUME GenerationsAssumption == MaxGenerations \in 2..4 /\ RunBase \in Nat \ {0}

ASSUME BoundsAssumption ==
  /\ MaxRefs \in Nat /\ MaxStack \in Nat /\ MaxRoots \in Nat
  /\ MaxPending \in Nat /\ MaxBlock \in Nat

Obj == Pmc \cup Str
Gens == 0 .. MaxGenerations - 1
Oldest == MaxGenerations - 1

\* gc_mark_runs is kept modulo the period of the choice of generation.
RunCycle ==
  CASE MaxGenerations = 4 -> RunBase * RunBase * RunBase
    [] MaxGenerations = 3 -> RunBase * RunBase
    [] MaxGenerations = 2 -> RunBase

VARIABLES
  \* what the program points to
  refs,                  \* refs[o]: the headers that VTABLE_mark of o visits
  roots,                 \* fields of the interpreter, marked by mark_interp
  stack,                 \* pointers on the C stack and in machine registers
  pending,               \* PMCs whose VTABLE body is done, barrier still to run
  filling,               \* clone targets that a C function is still filling
  \* the arrays a header can be in; none when it is on the free list
  objects,               \* objects[g]: the arrays objects[g] and strings[g]
  dirty_list, work_list,
  \* header flags
  generation,            \* the generation flags
  live, soil_root,       \* headers with PObj_live, PObj_GC_soil_root
  on_dirty_list,         \* ... with PObj_GC_on_dirty_list
  need_write_barrier,    \* ... with PObj_GC_need_write_barrier, "sealed"
  \* the collection in progress
  phase, todo, sweeping, gc_mark_runs,
  gc_mark_block_level, gc_sweep_block_level

mutatorVars == <<refs, roots, stack, pending, filling>>
arrayVars == <<objects, dirty_list, work_list>>
flagVars == <<generation, live, soil_root, on_dirty_list, need_write_barrier>>
runVars == <<phase, todo, sweeping, gc_mark_runs>>
blockVars == <<gc_mark_block_level, gc_sweep_block_level>>
vars == <<mutatorVars, arrayVars, flagVars, runVars, blockVars>>

Allocated == (UNION {objects[g] : g \in Gens}) \cup dirty_list \cup work_list

\* gc_gms_select_generation_to_collect, for the run in progress.
\* (Variant: the oldest generation is never chosen.)
gen_to_collect_never_oldest == IF gc_mark_runs % RunBase = 0 THEN 1 ELSE 0

gen_to_collect ==
  IF MaxGenerations > 3 /\ gc_mark_runs % (RunBase * RunBase * RunBase) = 0 THEN 3
  ELSE IF MaxGenerations > 2 /\ gc_mark_runs % (RunBase * RunBase) = 0 THEN 2
  ELSE IF gc_mark_runs % RunBase = 0 THEN 1
  ELSE 0

Init ==
  /\ refs = [o \in Obj |-> {}]
  /\ roots = {} /\ stack = {} /\ pending = {} /\ filling = {}
  /\ objects = [g \in Gens |-> {}] /\ dirty_list = {} /\ work_list = {}
  /\ generation = [o \in Obj |-> 0]
  /\ live = {} /\ soil_root = {} /\ on_dirty_list = {} /\ need_write_barrier = {}
  /\ phase = "mutator" /\ todo = {} /\ sweeping = 0 /\ gc_mark_runs = 0
  /\ gc_mark_block_level = 0 /\ gc_sweep_block_level = 0

-----------------------------------------------------------------------------
(***************************************************************************)
(* The program.  It works on what it has on the C stack.                   *)
(***************************************************************************)

\* The tail of gc_gms_allocate_pmc_header and gc_gms_allocate_string_header,
\* whose callers in api.c give the header its first flags; the collection they
\* may begin with is StartRun.
AllocateHeader(o) ==
  /\ phase = "mutator"
  /\ o \in Obj \ Allocated
  /\ Cardinality(stack) < MaxStack
  /\ objects' = [objects EXCEPT ![0] = @ \cup {o}]
  /\ generation' = [generation EXCEPT ![o] = 0]
  /\ live' = live \ {o}
  /\ soil_root' = soil_root \ {o}
  /\ on_dirty_list' = on_dirty_list \ {o}
  /\ need_write_barrier' = need_write_barrier \ {o}
  /\ refs' = [refs EXCEPT ![o] = {}]
  /\ stack' = stack \cup {o}
  /\ filling' = filling \cup ({o} \cap CloneTarget)
  /\ UNCHANGED <<roots, pending, dirty_list, work_list, runVars, blockVars>>

\* A pointer is read from a held PMC or from the interpreter.  What happens
\* once a freed header is followed is left open: the model stops short of it.
Load(o) ==
  /\ phase = "mutator"
  /\ o \in (roots \cup UNION {refs[p] : p \in stack}) \cap Allocated
  /\ Cardinality(stack) < MaxStack
  /\ stack' = stack \cup {o}
  /\ UNCHANGED <<refs, roots, pending, filling, arrayVars, flagVars, runVars, blockVars>>

\* The caller of a VTABLE function holds the receiver, and the value it
\* passes, until the function returns.
InCall(o) == o \in pending \cup filling \/ \E p \in pending : o \in refs[p]

Drop(o) ==
  /\ phase = "mutator"
  /\ o \in stack \ Temporary
  /\ ~InCall(o)
  /\ stack' = stack \ {o}
  /\ UNCHANGED <<refs, roots, pending, filling, arrayVars, flagVars, runVars, blockVars>>

SetRoot(o) ==
  /\ phase = "mutator"
  /\ o \in stack \ Temporary
  /\ Cardinality(roots) < MaxRoots
  /\ roots' = roots \cup {o}
  /\ UNCHANGED <<refs, stack, pending, filling, arrayVars, flagVars, runVars, blockVars>>

ClearRoot(o) ==
  /\ phase = "mutator"
  /\ o \in roots
  /\ roots' = roots \ {o}
  /\ UNCHANGED <<refs, stack, pending, filling, arrayVars, flagVars, runVars, blockVars>>

\* The body of a VTABLE function marked :write: pmc2c appends the barrier to
\* it, so that a collection can still come in between.
VtableWrite(p) ==
  /\ phase = "mutator"
  /\ p \in (stack \cap Pmc) \ (pending \cup filling \cup Temporary)
  /\ Cardinality(pending) < MaxPending
  /\ \E S \in SUBSET (refs[p] \cup (stack \ Temporary)) :
       /\ Cardinality(S) <= MaxRefs
       /\ refs' = [refs EXCEPT ![p] = S]
  /\ pending' = pending \cup {p}
  /\ UNCHANGED <<roots, stack, filling, arrayVars, flagVars, runVars, blockVars>>

\* Parrot_hash_clone: a C function stores into the new PMC directly and leaves
\* the barrier to its end.
FillClone(p, c) ==
  /\ phase = "mutator"
  /\ p \in filling
  /\ c \in stack \ Temporary
  /\ Cardinality(refs[p] \cup {c}) <= MaxRefs
  /\ refs' = [refs EXCEPT ![p] = @ \cup {c}]
  /\ UNCHANGED <<roots, stack, pending, filling, arrayVars, flagVars, runVars, blockVars>>

\* PARROT_GC_WRITE_BARRIER calls gc_gms_write_barrier for sealed PMCs only.
\* (Variant: the barrier takes the first old generation for the nursery.)
BarredLate(p) ==
  p \in need_write_barrier /\ p \notin on_dirty_list /\ generation[p] > 1

Barred(p) ==
  p \in need_write_barrier /\ p \notin on_dirty_list /\ generation[p] # 0

WriteBarrier(p) ==
  \/ /\ Barred(p)
     /\ objects' = [objects EXCEPT ![generation[p]] = @ \ {p}]
     /\ dirty_list' = dirty_list \cup {p}
     /\ on_dirty_list' = on_dirty_list \cup {p}
     /\ need_write_barrier' = need_write_barrier \ {p}
     /\ UNCHANGED <<work_list, generation, live, soil_root>>
  \/ ~Barred(p) /\ UNCHANGED <<arrayVars, flagVars>>

FinishWrite(p) ==
  /\ phase = "mutator"
  /\ p \in pending
  /\ pending' = pending \ {p}
  /\ WriteBarrier(p)
  /\ UNCHANGED <<refs, roots, stack, filling, runVars, blockVars>>

FinishClone(p) ==
  /\ phase = "mutator"
  /\ p \in filling
  /\ filling' = filling \ {p}
  /\ WriteBarrier(p)
  /\ UNCHANGED <<refs, roots, stack, pending, runVars, blockVars>>

\* PARROT_ASSERT calls Parrot_confess, and the interpreter is gone.
Confess ==
  /\ phase' = "aborted"
  /\ UNCHANGED <<mutatorVars, arrayVars, flagVars, todo, sweeping, gc_mark_runs, blockVars>>

\* Parrot_pmc_free_temporary: gc_gms_free_pmc_header asserts that the header
\* is not dirty and takes it out of the array its generation flags name.
FreeDirtyTemporary(p) ==
  /\ phase = "mutator"
  /\ p \in Temporary \cap stack \cap on_dirty_list
  /\ Confess

FreeTemporary(p) ==
  /\ phase = "mutator"
  /\ p \in (Temporary \cap stack) \ on_dirty_list
  /\ stack' = stack \ {p}
  /\ objects' = [objects EXCEPT ![generation[p]] = @ \ {p}]
  /\ generation' = [generation EXCEPT ![p] = 0]
  /\ need_write_barrier' = need_write_barrier \ {p}
  /\ UNCHANGED <<refs, roots, pending, filling, dirty_list, work_list,
                 live, soil_root, on_dirty_list, runVars, blockVars>>

\* Parrot_block_GC_mark, Parrot_block_GC_sweep and their counterparts.
BlockMark ==
  /\ phase = "mutator"
  /\ gc_mark_block_level < MaxBlock
  /\ gc_mark_block_level' = gc_mark_block_level + 1
  /\ UNCHANGED <<mutatorVars, arrayVars, flagVars, runVars, gc_sweep_block_level>>

UnblockMark ==
  /\ phase = "mutator"
  /\ gc_mark_block_level > 0
  /\ gc_mark_block_level' = gc_mark_block_level - 1
  /\ UNCHANGED <<mutatorVars, arrayVars, flagVars, runVars, gc_sweep_block_level>>

BlockSweep ==
  /\ phase = "mutator"
  /\ gc_sweep_block_level < MaxBlock
  /\ gc_sweep_block_level' = gc_sweep_block_level + 1
  /\ UNCHANGED <<mutatorVars, arrayVars, flagVars, runVars, gc_mark_block_level>>

UnblockSweep ==
  /\ phase = "mutator"
  /\ gc_sweep_block_level > 0
  /\ gc_sweep_block_level' = gc_sweep_block_level - 1
  /\ UNCHANGED <<mutatorVars, arrayVars, flagVars, runVars, gc_mark_block_level>>

-----------------------------------------------------------------------------
(***************************************************************************)
(* A run of gc_gms_mark_and_sweep.                                         *)
(***************************************************************************)

\* Steps 1 and 2: the guard of the function; the sweep level is not looked at.
StartRun ==
  /\ phase = "mutator"
  /\ gc_mark_block_level = 0
  /\ gc_mark_block_level' = gc_mark_block_level + 1
  /\ gc_mark_runs' = (gc_mark_runs + 1) % RunCycle
  /\ phase' = "cleanup"
  /\ todo' = dirty_list
  /\ UNCHANGED <<mutatorVars, arrayVars, flagVars, sweeping, gc_sweep_block_level>>

\* Step 3, gc_gms_cleanup_dirty_list: the order is that of the cells in the
\* pointer array, which insertions reuse, so any order can occur.
\* A survivor of the clean-up grows older with what it points to.  (Variants:
\* the condition the code comment records as wrong, and no last generation.)
OlderIfCollected(g) == IF g <= gen_to_collect /\ g < Oldest THEN g + 1 ELSE g
OlderForEver(g) == g + 1

Older(g) == IF g < Oldest THEN g + 1 ELSE g

\* What the clean-up's own mark callbacks find.  (Variant: the callback for
\* strings is left out.)
HasYoungerPmc(p) == \E c \in refs[p] \cap Pmc : generation[c] < generation[p]

HasYoungerChild(p) == \E c \in refs[p] : generation[c] < generation[p]

CleanDirty(p) ==
  /\ phase = "cleanup"
  /\ p \in todo
  /\ ~HasYoungerChild(p)
  /\ todo' = todo \ {p}
  /\ dirty_list' = dirty_list \ {p}
  /\ on_dirty_list' = on_dirty_list \ {p}
  /\ live' = live \ {p}
  /\ objects' = [objects EXCEPT ![generation[p]] = @ \cup {p}]
  /\ need_write_barrier' = need_write_barrier \cup {p}
  /\ UNCHANGED <<mutatorVars, work_list, generation, soil_root,
                 phase, sweeping, gc_mark_runs, blockVars>>

AgeDirty(p) ==
  /\ phase = "cleanup"
  /\ p \in todo
  /\ HasYoungerChild(p)
  /\ todo' = todo \ {p}
  /\ generation' = [generation EXCEPT ![p] = Older(@)]
  /\ UNCHANGED <<mutatorVars, arrayVars, live, soil_root, on_dirty_list,
                 need_write_barrier, phase, sweeping, gc_mark_runs, blockVars>>

\* gc_gms_mark_pmc_header skips headers that are marked, too old or dirty;
\* gc_gms_mark_str_header does not look.  (Variants: an off-by-one in the
\* choice of what is too old, no look at the dirty flag, strings forgotten.)
WhiteBelow(S) ==
  {p \in S \cap Pmc : /\ p \notin live
                      /\ generation[p] < gen_to_collect
                      /\ p \notin on_dirty_list}
WhiteOrDirty(S) ==
  {p \in S \cap Pmc : p \notin live /\ generation[p] <= gen_to_collect}

White(S) ==
  {p \in S \cap Pmc : /\ p \notin live
                      /\ generation[p] <= gen_to_collect
                      /\ p \notin on_dirty_list}

MarkPmcs(S) ==
  /\ live' = live \cup White(S)
  /\ work_list' = work_list \cup White(S)
  /\ objects' = [g \in Gens |-> objects[g] \ White(S)]

Mark(S) ==
  /\ live' = live \cup White(S) \cup (S \cap Str)
  /\ work_list' = work_list \cup White(S)
  /\ objects' = [g \in Gens |-> objects[g] \ White(S)]

\* gc_gms_is_pmc_ptr and gc_gms_is_string_ptr: what a word of the C stack has
\* to be to count as a pointer.
IsObjPtr(o) ==
  /\ o \notin live /\ o \notin on_dirty_list
  /\ generation[o] <= gen_to_collect
  /\ o \in objects[generation[o]]

Nursery(S) == {p \in S \cap Pmc : generation[p] = 0}

\* gc_gms_mark_pmc_header asserts that it is not handed a freed header.
Resurrects(S) == (S \cap Pmc) \ Allocated # {}

Children(S) == UNION {refs[p] : p \in S}

MarkDeadObject ==
  /\ \/ phase = "dirty" /\ Resurrects(Children(dirty_list))
     \/ phase = "work" /\ Resurrects(Children(todo))
  /\ Confess

\* Step 4, Parrot_gc_trace_root: the C stack, whose nursery PMCs it soils, and
\* then the fields of the interpreter.
TraceRoots ==
  /\ phase = "cleanup" /\ todo = {}
  /\ LET found == {o \in stack : IsObjPtr(o)} IN
       /\ Mark(found \cup roots)
       /\ todo' = White(found \cup roots)
       /\ soil_root' = soil_root \cup Nursery(found)
  /\ phase' = "dirty"
  /\ UNCHANGED <<mutatorVars, dirty_list, generation, on_dirty_list,
                 need_write_barrier, sweeping, gc_mark_runs, blockVars>>

\* Step 5, gc_gms_process_dirty_list.
ProcessDirtyList ==
  /\ phase = "dirty"
  /\ ~Resurrects(Children(dirty_list))
  /\ Mark(Children(dirty_list))
  /\ todo' = todo \cup White(Children(dirty_list))
  /\ phase' = "work"
  /\ UNCHANGED <<mutatorVars, dirty_list, generation, soil_root, on_dirty_list,
                 need_write_barrier, sweeping, gc_mark_runs, blockVars>>

\* Step 6, the first loop of gc_gms_process_work_list: the list grows while
\* it is walked.
ScanWork(p) ==
  /\ phase = "work"
  /\ p \in todo
  /\ ~Resurrects(refs[p])
  /\ Mark(refs[p])
  /\ todo' = (todo \ {p}) \cup White(refs[p])
  /\ UNCHANGED <<mutatorVars, dirty_list, generation, soil_root, on_dirty_list,
                 need_write_barrier, phase, sweeping, gc_mark_runs, blockVars>>

\* ... and the second, which puts the headers back.
RestoreWorkList ==
  /\ phase = "work" /\ todo = {}
  /\ objects' = [g \in Gens |->
                   objects[g] \cup {p \in work_list : generation[p] = g}]
  /\ work_list' = {}
  /\ phase' = "sweep"
  /\ sweeping' = gen_to_collect
  /\ UNCHANGED <<mutatorVars, dirty_list, flagVars, todo, gc_mark_runs, blockVars>>

\* Step 8, gc_gms_sweep_pools, for one generation; after the youngest the
\* collection is over.  (Variants: the sweep takes every string for dead,
\* does not seal what it promotes.)
DeadOrString(g) == {o \in objects[g] : o \in Str \/ o \notin live \cup Temporary}
SealedNever(g) == {}

Dead(g) == {o \in objects[g] : o \notin live \cup Temporary}
Promoted(g) == IF g < Oldest THEN objects[g] \ Dead(g) ELSE {}
Soiled(g) == Promoted(g) \cap soil_root
Sealed(g) == (Promoted(g) \ Soiled(g)) \cap Pmc

SweepGeneration(g) ==
  /\ objects' = [h \in Gens |->
       CASE h = g     -> (objects[g] \ Dead(g)) \ Promoted(g)
         [] h = g + 1 -> objects[h] \cup (Promoted(g) \ Soiled(g))
         [] OTHER     -> objects[h]]
  /\ dirty_list' = dirty_list \cup Soiled(g)
  /\ generation' = [o \in Obj |-> IF o \in Promoted(g) THEN g + 1
                                  ELSE IF o \in Dead(g) THEN 0
                                  ELSE generation[o]]
  /\ live' = live \ objects[g]
  /\ soil_root' = soil_root \ (Soiled(g) \cup Dead(g))
  /\ on_dirty_list' = on_dirty_list \cup Soiled(g)
  /\ need_write_barrier' = (need_write_barrier \cup Sealed(g)) \ Dead(g)
  /\ refs' = [o \in Obj |-> IF o \in Dead(g) THEN {} ELSE refs[o]]

Sweep ==
  /\ phase = "sweep" /\ sweeping > 0
  /\ SweepGeneration(sweeping)
  /\ sweeping' = sweeping - 1
  /\ UNCHANGED <<roots, stack, pending, filling, work_list, phase, todo,
                 gc_mark_runs, blockVars>>

SweepNursery ==
  /\ phase = "sweep" /\ sweeping = 0
  /\ SweepGeneration(0)
  /\ phase' = "mutator"
  /\ gc_mark_block_level' = gc_mark_block_level - 1
  /\ UNCHANGED <<roots, stack, pending, filling, work_list, todo, sweeping,
                 gc_mark_runs, gc_sweep_block_level>>

-----------------------------------------------------------------------------
Program ==
  \/ \E o \in Obj : AllocateHeader(o) \/ Load(o) \/ Drop(o) \/ SetRoot(o) \/ ClearRoot(o)
  \/ \E p \in Pmc : VtableWrite(p) \/ FinishWrite(p) \/ FinishClone(p)
                    \/ FreeTemporary(p) \/ FreeDirtyTemporary(p)
  \/ \E p \in Pmc, c \in Obj : FillClone(p, c)
  \/ BlockMark \/ UnblockMark \/ BlockSweep \/ UnblockSweep

Collector ==
  \/ StartRun
  \/ \E p \in Pmc : CleanDirty(p) \/ AgeDirty(p) \/ ScanWork(p)
  \/ TraceRoots \/ ProcessDirtyList \/ RestoreWorkList
  \/ Sweep \/ SweepNursery
  \/ MarkDeadObject

Next == Program \/ Collector

Spec == Init /\ [][Next]_vars

\* A program that goes on allocating crosses gc_threshold again and again, and
\* a collection, once begun, runs to its end.
FairSpec == Spec /\ WF_vars(Collector)

-----------------------------------------------------------------------------
(***************************************************************************)
(* Properties.                                                             *)
(***************************************************************************)

\* Every header is in arrays and under flags of its own kind: the collector
\* never puts a string on the dirty or the work list, and the block levels
\* (UINTVAL in the code) are decremented only when they are positive.
TypeOK ==
  /\ refs \in [Obj -> SUBSET Obj] /\ \A s \in Str : refs[s] = {}
  /\ roots \subseteq Obj /\ stack \subseteq Obj
  /\ pending \subseteq Pmc /\ filling \subseteq Pmc
  /\ objects \in [Gens -> SUBSET Obj]
  /\ dirty_list \subseteq Pmc /\ work_list \subseteq Pmc
  /\ generation \in [Obj -> Gens]
  /\ live \subseteq Obj /\ soil_root \subseteq Pmc
  /\ on_dirty_list \subseteq Pmc /\ need_write_barrier \subseteq Pmc
  /\ phase \in {"mutator", "cleanup", "dirty", "work", "sweep", "aborted"}
  /\ todo \subseteq Pmc /\ sweeping \in Gens /\ gc_mark_runs \in 0 .. RunCycle - 1
  /\ gc_mark_block_level \in Nat /\ gc_sweep_block_level \in Nat

\* What gc_gms_check_sanity takes for granted when it walks the arrays: a
\* header has a cell in one array at most.
InOneArray ==
  /\ \A g, h \in Gens : g # h => objects[g] \cap objects[h] = {}
  /\ \A g \in Gens : objects[g] \cap (dirty_list \cup work_list) = {}
  /\ dirty_list \cap work_list = {}

\* The assertions of gc_gms_check_sanity: an array holds headers of its own
\* generation, old PMCs in it are sealed, and the dirty list holds exactly the
\* headers that are flagged as dirty, so the work list holds none.
FlagsMatchArrays ==
  /\ \A g \in Gens : \A o \in objects[g] :
       /\ generation[o] = g
       /\ g > 0 /\ o \in Pmc => o \in need_write_barrier
  /\ dirty_list = on_dirty_list

\* gc_gms_check_sanity finds nothing wrong, at any point of a collection or
\* of the program.
CheckSanity == InOneArray /\ FlagsMatchArrays

\* Where no store waits for its barrier.
Settled == Allocated \ (pending \cup filling)

\* The invariant of the header comment, as the collector relies on it: a PMC
\* that is not on the dirty list has no children younger than itself.
OldToYoung ==
  phase = "mutator" =>
    \A o \in Settled \ dirty_list : \A c \in refs[o] : generation[o] <= generation[c]

AbstractHeap == INSTANCE Heap WITH allocated <- Allocated, roots <- roots \cup stack

\* When the sweep comes to a generation, the marking has reached all that the
\* program can reach in it, by whatever path through clean, dirty, old and
\* young objects.
MarkComplete ==
  phase = "sweep" =>
    \A g \in 0 .. sweeping : objects[g] \cap AbstractHeap!Reachable \cap Dead(g) = {}

\* No pointer that is followed leads to a freed header: not from the roots, not
\* from a live object, and not from a dead one that is still marked from.
\* gc_gms_validate_objects confesses "Dead object found!" otherwise.
ReachableAllocated ==
  /\ roots \cup stack \subseteq Allocated
  /\ phase # "sweep" => Children(Allocated) \subseteq Allocated

\* The collector is a garbage collector: what it frees was not reachable, and
\* it changes no reference of what remains.
HeapImplemented == AbstractHeap!Spec

\* No assertion fails: Parrot_confess is never called.
NeverConfesses == phase # "aborted"

\* Garbage does not stay for ever, in whatever generation it died, were it
\* dirty, part of a cycle or marked by a dead dirty object.
GarbageReclaimed ==
  \A o \in Obj :
    o \in Allocated \ AbstractHeap!Reachable ~> o \notin Allocated
=============================================================================
