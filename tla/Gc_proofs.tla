------------------------------ MODULE Gc_proofs ------------------------------
(***************************************************************************)
(* Proofs about the garbage collectors: of headers (GcGms), for every set  *)
(* of headers, every bound and every RunBase, and of the storage of        *)
(* strings (StringGc), for any number of headers and blocks and any sizes. *)
(***************************************************************************)
EXTENDS GcGmsInv, StringGc, Induction_proofs

-----------------------------------------------------------------------------
(***************************************************************************)
(* Facts about the operators.                                              *)
(***************************************************************************)

\* There are at least two generations, numbered from the nursery.
LEMMA GensFacts ==
  /\ MaxGenerations \in {2, 3, 4}
  /\ Oldest \in Gens /\ Oldest > 0
  /\ 0 \in Gens /\ 1 \in Gens
  /\ \A g \in Gens : g \in Nat /\ g <= Oldest
  /\ \A g \in Nat : g <= Oldest => g \in Gens
BY GenerationsAssumption DEF Gens, Oldest

\* gc_gms_select_generation_to_collect names a generation there is.
LEMMA GenToCollect == gen_to_collect \in Gens
BY GenerationsAssumption DEF gen_to_collect, Gens

LEMMA GenToCollectPrimed == gen_to_collect' \in Gens
BY GenerationsAssumption DEF gen_to_collect, Gens

LEMMA GenToCollectStable ==
  ASSUME gc_mark_runs' = gc_mark_runs PROVE gen_to_collect' = gen_to_collect
BY DEF gen_to_collect

\* The counter of collections has a period, a positive number.
LEMMA RunCycleType == RunCycle \in Nat \ {0}
<1>1. CASE MaxGenerations = 2
  BY <1>1, GenerationsAssumption DEF RunCycle
<1>2. CASE MaxGenerations = 3
  <2>1. RunBase * RunBase \in Nat \ {0}
    BY GenerationsAssumption
  <2> QED BY <1>2, <2>1 DEF RunCycle
<1>3. CASE MaxGenerations = 4
  <2>1. RunBase * RunBase \in Nat \ {0}
    BY GenerationsAssumption
  <2>2. (RunBase * RunBase) * RunBase \in Nat \ {0}
    BY <2>1, GenerationsAssumption
  <2> QED BY <1>3, <2>2 DEF RunCycle
<1> QED BY <1>1, <1>2, <1>3, GensFacts

\* A survivor of the clean-up stays within the generations.
LEMMA OlderType ==
  ASSUME NEW g \in Gens
  PROVE  Older(g) \in Gens /\ Older(g) >= g
BY GensFacts DEF Older

LEMMA AllocatedFacts ==
  \A o : o \in Allocated <=>
           (\E g \in Gens : o \in objects[g]) \/ o \in dirty_list \/ o \in work_list
BY DEF Allocated

LEMMA AllocatedFactsPrimed ==
  \A o : o \in Allocated' <=>
           (\E g \in Gens : o \in objects'[g]) \/ o \in dirty_list' \/ o \in work_list'
BY DEF Allocated

\* Only clean PMCs in the arrays are marked, so marking takes them out of there.
LEMMA WhiteInArrays ==
  ASSUME ArraysInv, NEW S, S \cap Pmc \subseteq Allocated,
         phase \in {"cleanup", "dirty", "work"}
  PROVE  /\ White(S) \subseteq Pmc \cap S
         /\ \A p \in White(S) : /\ p \in objects[generation[p]]
                                /\ generation[p] \in Gens
                                /\ generation[p] <= gen_to_collect
                                /\ p \notin dirty_list /\ p \notin work_list
<1>1. White(S) \subseteq Pmc \cap S
  BY DEF White
<1>2. ASSUME NEW p \in White(S)
      PROVE  /\ p \in objects[generation[p]]
             /\ generation[p] \in Gens
             /\ generation[p] <= gen_to_collect
             /\ p \notin dirty_list /\ p \notin work_list
  <2>1. p \in Pmc /\ p \in Allocated /\ p \notin live /\ p \notin on_dirty_list
        /\ generation[p] <= gen_to_collect
    BY <1>2 DEF White
  <2>2. p \notin dirty_list
    BY <2>1 DEF ArraysInv, CheckSanity, FlagsMatchArrays
  <2>3. p \notin work_list
    BY <2>1 DEF ArraysInv, LivePlaced, WorkListPlaced, MarkedClean, Marking
  <2>4. PICK g \in Gens : p \in objects[g]
    BY <2>1, <2>2, <2>3, AllocatedFacts
  <2>5. generation[p] = g
    BY <2>4 DEF ArraysInv, CheckSanity, FlagsMatchArrays
  <2> QED BY <2>1, <2>2, <2>3, <2>4, <2>5
<1> QED BY <1>1, <1>2

\* What marking a set of headers does: White(S) goes from the arrays to the
\* work list and nothing else moves, no mark is lost and S is marked.
LEMMA MarkEffect ==
  ASSUME ArraysInv, NEW S \in SUBSET Obj, S \cap Pmc \subseteq Allocated,
         phase \in {"cleanup", "dirty", "work"}, Mark(S),
         UNCHANGED <<dirty_list, generation, on_dirty_list, need_write_barrier, gc_mark_runs>>
  PROVE  /\ CheckSanity'
         /\ Allocated' = Allocated
         /\ objects' \in [Gens -> SUBSET Obj]
         /\ live' \subseteq Obj /\ work_list' \subseteq Pmc
         /\ live' \cap Pmc = (live \cap Pmc) \cup White(S)
         /\ MarkedClean'
         /\ \A o \in Obj : Marked(o) => Marked(o)'
         /\ \A o \in S : Marked(o)'
<1> DEFINE W == White(S)
<1>w. /\ W \subseteq Pmc \cap S
      /\ \A p \in W : /\ p \in objects[generation[p]]
                      /\ generation[p] \in Gens
                      /\ generation[p] <= gen_to_collect
                      /\ p \notin dirty_list /\ p \notin work_list
  BY WhiteInArrays
<1>m. /\ live' = live \cup W \cup (S \cap Str)
      /\ work_list' = work_list \cup W
      /\ objects' = [g \in Gens |-> objects[g] \ W]
  BY DEF Mark
<1>i. TypeOK /\ InOneArray /\ FlagsMatchArrays /\ Pmc \cap Str = {}
  BY KindsAssumption DEF ArraysInv, CheckSanity
<1>g. gen_to_collect' = gen_to_collect
  BY GenToCollectStable
<1>u. /\ dirty_list' = dirty_list /\ generation' = generation
      /\ on_dirty_list' = on_dirty_list /\ need_write_barrier' = need_write_barrier
  OBVIOUS
<1>5. work_list' \subseteq Pmc /\ live' \subseteq Obj /\ objects' \in [Gens -> SUBSET Obj]
  BY <1>w, <1>m, <1>i DEF TypeOK, Obj
<1>1. InOneArray'
  BY <1>w, <1>m, <1>i, <1>u DEF InOneArray
<1>2. FlagsMatchArrays'
  BY <1>w, <1>m, <1>i, <1>u DEF FlagsMatchArrays
<1>3. Allocated' = Allocated
  <2>1. ASSUME NEW o \in Allocated PROVE o \in Allocated'
    BY <2>1, <1>m, <1>u, AllocatedFacts, AllocatedFactsPrimed
  <2>2. ASSUME NEW o \in Allocated' PROVE o \in Allocated
    BY <2>2, <1>m, <1>u, <1>w, AllocatedFacts, AllocatedFactsPrimed
  <2> QED BY <2>1, <2>2
<1>4. live' \cap Pmc = (live \cap Pmc) \cup W
  BY <1>m, <1>w, <1>i
<1>6. MarkedClean'
  BY <1>w, <1>m, <1>g, <1>u, <1>i DEF FlagsMatchArrays, ArraysInv, WorkListPlaced, MarkedClean
<1>7. \A o \in Obj : Marked(o) => Marked(o)'
  BY <1>m, <1>u, <1>g DEF Marked
<1>8. ASSUME NEW o \in S PROVE Marked(o)'
  <2>1. CASE o \in Str
    BY <2>1, <1>m DEF Marked
  <2>2. CASE o \in Pmc
    <3>1. o \in White(S) \/ o \in live \/ ~(generation[o] <= gen_to_collect)
            \/ o \in on_dirty_list
      BY <2>2 DEF White
    <3>2. generation[o] \in Nat /\ gen_to_collect \in Nat
      BY <1>i, <2>2, GenToCollect, GensFacts DEF TypeOK, Obj
    <3> QED BY <3>1, <3>2, <1>m, <1>u, <1>g, <1>i DEF Marked, FlagsMatchArrays
  <2> QED BY <2>1, <2>2 DEF Obj
<1> HIDE DEF W
<1> QED BY <1>1, <1>2, <1>3, <1>4, <1>5, <1>6, <1>7, <1>8 DEF CheckSanity, W

-----------------------------------------------------------------------------
(***************************************************************************)
(* ArraysInv, one action after the other.                                  *)
(***************************************************************************)

LEMMA InitArrays == Init => ArraysInv
<1> SUFFICES ASSUME Init PROVE ArraysInv
  OBVIOUS
<1>1. TypeOK
  BY GensFacts, RunCycleType DEF Init, TypeOK, Obj
<1>2. CheckSanity
  BY DEF Init, CheckSanity, InOneArray, FlagsMatchArrays
<1>3. BlockHeld /\ TodoPlaced /\ LivePlaced /\ work_list = {}
  BY DEF Init, BlockHeld, TodoPlaced, LivePlaced, Collecting, Marking
<1>5. WorkListPlaced
  BY <1>3 DEF WorkListPlaced, MarkedClean
<1>4. HeldAllocated /\ TemporaryApart /\ HeldMarked
  BY KindsAssumption DEF Init, HeldAllocated, TemporaryApart, HeldMarked, Marking, Obj
<1> QED BY <1>1, <1>2, <1>3, <1>4, <1>5 DEF ArraysInv

\* The parts of ArraysInv that speak of arrays, flags and the run only, while
\* the program touches none of them.
LEMMA ProgramFrame ==
  ASSUME ArraysInv, phase = "mutator", UNCHANGED <<arrayVars, flagVars, runVars, blockVars>>
  PROVE  /\ CheckSanity' /\ BlockHeld' /\ TodoPlaced' /\ LivePlaced' /\ WorkListPlaced'
         /\ HeldMarked'
         /\ Allocated' = Allocated
<1> USE DEF arrayVars, flagVars, runVars, blockVars
<1>1. CheckSanity'
  BY DEF ArraysInv, CheckSanity, InOneArray, FlagsMatchArrays
<1>2. BlockHeld' /\ TodoPlaced' /\ LivePlaced'
  BY DEF ArraysInv, BlockHeld, TodoPlaced, LivePlaced, Marking
<1>3. WorkListPlaced'
  BY GenToCollectStable DEF ArraysInv, WorkListPlaced, MarkedClean
<1>4. HeldMarked'
  BY DEF HeldMarked, Marking
<1>5. Allocated' = Allocated
  BY DEF Allocated
<1> QED BY <1>1, <1>2, <1>3, <1>4, <1>5

LEMMA LoadArrays ==
  ASSUME ArraysInv, NEW o \in Obj, Load(o) PROVE ArraysInv'
<1> USE DEF Load
<1>1. CheckSanity' /\ BlockHeld' /\ TodoPlaced' /\ LivePlaced' /\ WorkListPlaced'
      /\ HeldMarked' /\ Allocated' = Allocated
  BY ProgramFrame
<1>2. TypeOK'
  BY DEF ArraysInv, TypeOK, arrayVars, flagVars, runVars, blockVars
<1>3. HeldAllocated'
  BY <1>1 DEF ArraysInv, HeldAllocated
<1>4. TemporaryApart'
  BY DEF ArraysInv, TemporaryApart
<1> QED BY <1>1, <1>2, <1>3, <1>4 DEF ArraysInv

LEMMA DropArrays ==
  ASSUME ArraysInv, NEW o \in Obj, Drop(o) PROVE ArraysInv'
<1> USE DEF Drop
<1>1. CheckSanity' /\ BlockHeld' /\ TodoPlaced' /\ LivePlaced' /\ WorkListPlaced'
      /\ HeldMarked' /\ Allocated' = Allocated
  BY ProgramFrame
<1>2. TypeOK'
  BY DEF ArraysInv, TypeOK, arrayVars, flagVars, runVars, blockVars
<1>3. HeldAllocated'
  BY <1>1 DEF ArraysInv, HeldAllocated, InCall
<1>4. TemporaryApart'
  BY DEF ArraysInv, TemporaryApart
<1> QED BY <1>1, <1>2, <1>3, <1>4 DEF ArraysInv

LEMMA SetRootArrays ==
  ASSUME ArraysInv, NEW o \in Obj, SetRoot(o) PROVE ArraysInv'
<1> USE DEF SetRoot
<1>1. CheckSanity' /\ BlockHeld' /\ TodoPlaced' /\ LivePlaced' /\ WorkListPlaced'
      /\ HeldMarked' /\ Allocated' = Allocated
  BY ProgramFrame
<1>2. TypeOK'
  BY DEF ArraysInv, TypeOK, arrayVars, flagVars, runVars, blockVars
<1>3. HeldAllocated'
  BY <1>1 DEF ArraysInv, HeldAllocated
<1>4. TemporaryApart'
  BY DEF ArraysInv, TemporaryApart
<1> QED BY <1>1, <1>2, <1>3, <1>4 DEF ArraysInv

LEMMA ClearRootArrays ==
  ASSUME ArraysInv, NEW o \in Obj, ClearRoot(o) PROVE ArraysInv'
<1> USE DEF ClearRoot
<1>1. CheckSanity' /\ BlockHeld' /\ TodoPlaced' /\ LivePlaced' /\ WorkListPlaced'
      /\ HeldMarked' /\ Allocated' = Allocated
  BY ProgramFrame
<1>2. TypeOK'
  BY DEF ArraysInv, TypeOK, arrayVars, flagVars, runVars, blockVars
<1>3. HeldAllocated'
  BY <1>1 DEF ArraysInv, HeldAllocated
<1>4. TemporaryApart'
  BY DEF ArraysInv, TemporaryApart
<1> QED BY <1>1, <1>2, <1>3, <1>4 DEF ArraysInv

LEMMA VtableWriteArrays ==
  ASSUME ArraysInv, NEW p \in Pmc, VtableWrite(p) PROVE ArraysInv'
<1> USE DEF VtableWrite
<1>1. CheckSanity' /\ BlockHeld' /\ TodoPlaced' /\ LivePlaced' /\ WorkListPlaced'
      /\ HeldMarked' /\ Allocated' = Allocated
  BY ProgramFrame
<1>2. PICK S \in SUBSET (refs[p] \cup (stack \ Temporary)) : refs' = [refs EXCEPT ![p] = S]
  OBVIOUS
<1>i. TypeOK /\ p \in Obj /\ p \notin Str
  BY KindsAssumption DEF ArraysInv, Obj
<1>3. TypeOK'
  BY <1>i, <1>2 DEF TypeOK, arrayVars, flagVars, runVars, blockVars
<1>4. HeldAllocated'
  BY <1>1 DEF ArraysInv, HeldAllocated
<1>5. TemporaryApart'
  BY <1>i, <1>2 DEF ArraysInv, TemporaryApart, TypeOK
<1> QED BY <1>1, <1>3, <1>4, <1>5 DEF ArraysInv

LEMMA FillCloneArrays ==
  ASSUME ArraysInv, NEW p \in Pmc, NEW c \in Obj, FillClone(p, c) PROVE ArraysInv'
<1> USE DEF FillClone
<1>1. CheckSanity' /\ BlockHeld' /\ TodoPlaced' /\ LivePlaced' /\ WorkListPlaced'
      /\ HeldMarked' /\ Allocated' = Allocated
  BY ProgramFrame
<1>i. TypeOK /\ p \in Obj /\ p \notin Str
  BY KindsAssumption DEF ArraysInv, Obj
<1>3. TypeOK'
  BY <1>i DEF TypeOK, arrayVars, flagVars, runVars, blockVars
<1>4. HeldAllocated'
  BY <1>1 DEF ArraysInv, HeldAllocated
<1>5. TemporaryApart'
  BY <1>i, KindsAssumption DEF ArraysInv, TemporaryApart, TypeOK, HeldAllocated
<1> QED BY <1>1, <1>3, <1>4, <1>5 DEF ArraysInv

\* A new header is in the nursery with its flags clear.
LEMMA AllocateHeaderArrays ==
  ASSUME ArraysInv, NEW o \in Obj, AllocateHeader(o)
  PROVE  ArraysInv' /\ Allocated' = Allocated \cup {o}
<1> USE DEF AllocateHeader
<1>i. TypeOK /\ InOneArray /\ FlagsMatchArrays
  BY DEF ArraysInv, CheckSanity
<1>f. /\ \A g \in Gens : o \notin objects[g]
      /\ o \notin dirty_list /\ o \notin work_list
  BY AllocatedFacts
<1>j. \A g \in Gens : objects'[g] = IF g = 0 THEN objects[0] \cup {o} ELSE objects[g]
  BY <1>i, GensFacts DEF TypeOK
<1>v. /\ generation' \in [Obj -> Gens]
      /\ \A p \in Obj : generation'[p] = IF p = o THEN 0 ELSE generation[p]
      /\ refs' \in [Obj -> SUBSET Obj]
      /\ \A p \in Obj : refs'[p] = IF p = o THEN {} ELSE refs[p]
  BY <1>i, GensFacts DEF TypeOK
<1>g. gen_to_collect' = gen_to_collect
  BY GenToCollectStable DEF runVars
<1>1. TypeOK'
  BY <1>i, <1>v, KindsAssumption, GensFacts DEF TypeOK, runVars, blockVars, Obj
<1>2. InOneArray'
  BY <1>i, <1>j, <1>f DEF InOneArray
<1>3. FlagsMatchArrays'
  <2>1. \A g \in Gens : objects[g] \subseteq Obj
    BY <1>i DEF TypeOK
  <2> QED BY <1>i, <1>j, <1>f, <1>v, <2>1, GensFacts DEF FlagsMatchArrays
<1>4. Allocated' = Allocated \cup {o}
  <2>1. \A p : p \in Allocated' <=> p \in Allocated \/ p = o
    BY <1>j, AllocatedFacts, AllocatedFactsPrimed, GensFacts
  <2> QED BY <2>1
<1>5. BlockHeld' /\ TodoPlaced' /\ HeldMarked'
  BY DEF ArraysInv, BlockHeld, TodoPlaced, HeldMarked, Collecting, Marking, runVars, blockVars
<1>6. LivePlaced' /\ WorkListPlaced'
  BY <1>f, <1>v, <1>g DEF ArraysInv, LivePlaced, WorkListPlaced, MarkedClean, Marking, runVars
<1>7. HeldAllocated'
  BY <1>4 DEF ArraysInv, HeldAllocated
<1>8. TemporaryApart'
  BY <1>i, <1>v, <1>f, KindsAssumption, AllocatedFacts DEF ArraysInv, TemporaryApart
<1> QED BY <1>1, <1>2, <1>3, <1>4, <1>5, <1>6, <1>7, <1>8 DEF ArraysInv, CheckSanity

\* A barred PMC goes from the array of its generation to the dirty list.
LEMMA WriteBarrierArrays ==
  ASSUME ArraysInv, phase = "mutator", NEW p \in Pmc, p \in Allocated,
         WriteBarrier(p), UNCHANGED runVars
  PROVE  /\ CheckSanity' /\ TodoPlaced' /\ LivePlaced' /\ WorkListPlaced' /\ HeldMarked'
         /\ objects' \in [Gens -> SUBSET Obj]
         /\ dirty_list' \subseteq Pmc /\ on_dirty_list' \subseteq Pmc
         /\ need_write_barrier' \subseteq Pmc
         /\ UNCHANGED <<work_list, generation, live, soil_root>>
         /\ Allocated' = Allocated
         /\ dirty_list' = dirty_list \cup (IF Barred(p) THEN {p} ELSE {})
<1>i. TypeOK /\ InOneArray /\ FlagsMatchArrays
  BY DEF ArraysInv, CheckSanity
<1>g. gen_to_collect' = gen_to_collect
  BY GenToCollectStable DEF runVars
<1>u. UNCHANGED <<work_list, generation, live, soil_root, phase, todo>>
  BY DEF WriteBarrier, arrayVars, flagVars, runVars
<1>m. TodoPlaced' /\ LivePlaced' /\ WorkListPlaced' /\ HeldMarked'
  BY <1>u, <1>g DEF ArraysInv, TodoPlaced, LivePlaced, WorkListPlaced, MarkedClean, HeldMarked, Marking
<1>1. CASE ~Barred(p)
  <2>1. UNCHANGED <<objects, dirty_list, work_list, generation, live, soil_root,
                    on_dirty_list, need_write_barrier>>
    BY <1>1 DEF WriteBarrier, arrayVars, flagVars
  <2>2. CheckSanity'
    BY <1>i, <2>1 DEF CheckSanity, InOneArray, FlagsMatchArrays
  <2>3. Allocated' = Allocated
    BY <2>1 DEF Allocated
  <2>4. dirty_list' = dirty_list \cup (IF Barred(p) THEN {p} ELSE {})
    BY <1>1, <2>1
  <2> QED BY <1>i, <1>m, <2>1, <2>2, <2>3, <2>4 DEF TypeOK
<1>2. CASE Barred(p)
  <2>1. /\ objects' = [objects EXCEPT ![generation[p]] = @ \ {p}]
        /\ dirty_list' = dirty_list \cup {p}
        /\ on_dirty_list' = on_dirty_list \cup {p}
        /\ need_write_barrier' = need_write_barrier \ {p}
    BY <1>2 DEF WriteBarrier
  <2>2. p \notin dirty_list /\ p \notin work_list
    BY <1>2, <1>i DEF Barred, FlagsMatchArrays, ArraysInv, WorkListPlaced, MarkedClean
  <2>3. PICK g \in Gens : p \in objects[g]
    BY <2>2, AllocatedFacts
  <2>4. generation[p] = g /\ \A h \in Gens \ {g} : p \notin objects[h]
    BY <2>3, <1>i DEF FlagsMatchArrays
  <2>5. \A h \in Gens : objects'[h] = objects[h] \ {p}
    BY <1>i, <2>1, <2>4 DEF TypeOK
  <2>6. InOneArray'
    BY <1>i, <1>u, <2>1, <2>2, <2>5 DEF InOneArray
  <2>7. FlagsMatchArrays'
    BY <1>i, <1>u, <2>1, <2>5 DEF FlagsMatchArrays
  <2>8. objects' \in [Gens -> SUBSET Obj]
    BY <1>i, <2>1 DEF TypeOK
  <2>9. Allocated' = Allocated
    <3>1. \A o : o \in Allocated' <=> o \in Allocated
      BY <1>u, <2>1, <2>3, <2>5, AllocatedFacts, AllocatedFactsPrimed
    <3> QED BY <3>1
  <2>10. dirty_list' = dirty_list \cup (IF Barred(p) THEN {p} ELSE {})
    BY <1>2, <2>1
  <2> QED BY <1>i, <1>m, <1>u, <2>1, <2>6, <2>7, <2>8, <2>9, <2>10 DEF TypeOK, CheckSanity
<1> QED BY <1>1, <1>2

LEMMA FinishWriteArrays ==
  ASSUME ArraysInv, NEW p \in Pmc, FinishWrite(p) PROVE ArraysInv'
<1> USE DEF FinishWrite
<1>1. p \in Allocated
  BY DEF ArraysInv, HeldAllocated
<1>2. /\ CheckSanity' /\ TodoPlaced' /\ LivePlaced' /\ WorkListPlaced' /\ HeldMarked'
      /\ objects' \in [Gens -> SUBSET Obj]
      /\ dirty_list' \subseteq Pmc /\ on_dirty_list' \subseteq Pmc
      /\ need_write_barrier' \subseteq Pmc
      /\ UNCHANGED <<work_list, generation, live, soil_root>>
      /\ Allocated' = Allocated
  BY <1>1, WriteBarrierArrays
<1>3. TypeOK'
  BY <1>2 DEF ArraysInv, TypeOK, runVars, blockVars
<1>4. BlockHeld' /\ HeldAllocated' /\ TemporaryApart'
  BY <1>2 DEF ArraysInv, BlockHeld, HeldAllocated, TemporaryApart, runVars, blockVars
<1> QED BY <1>2, <1>3, <1>4 DEF ArraysInv

LEMMA FinishCloneArrays ==
  ASSUME ArraysInv, NEW p \in Pmc, FinishClone(p) PROVE ArraysInv'
<1> USE DEF FinishClone
<1>1. p \in Allocated
  BY DEF ArraysInv, HeldAllocated
<1>2. /\ CheckSanity' /\ TodoPlaced' /\ LivePlaced' /\ WorkListPlaced' /\ HeldMarked'
      /\ objects' \in [Gens -> SUBSET Obj]
      /\ dirty_list' \subseteq Pmc /\ on_dirty_list' \subseteq Pmc
      /\ need_write_barrier' \subseteq Pmc
      /\ UNCHANGED <<work_list, generation, live, soil_root>>
      /\ Allocated' = Allocated
  BY <1>1, WriteBarrierArrays
<1>3. TypeOK'
  BY <1>2 DEF ArraysInv, TypeOK, runVars, blockVars
<1>4. BlockHeld' /\ HeldAllocated' /\ TemporaryApart'
  BY <1>2 DEF ArraysInv, BlockHeld, HeldAllocated, TemporaryApart, runVars, blockVars
<1> QED BY <1>2, <1>3, <1>4 DEF ArraysInv

\* The assertions that fail end the program and leave the collector as it is.
LEMMA ConfessArrays ==
  ASSUME ArraysInv, phase \in {"mutator", "dirty", "work"}, Confess
  PROVE  ArraysInv' /\ Allocated' = Allocated
<1> USE DEF Confess, mutatorVars, arrayVars, flagVars, blockVars
<1>1. TypeOK' /\ CheckSanity' /\ Allocated' = Allocated
  BY DEF ArraysInv, TypeOK, CheckSanity, InOneArray, FlagsMatchArrays, Allocated
<1>2. BlockHeld' /\ TodoPlaced' /\ LivePlaced' /\ HeldMarked'
  BY DEF BlockHeld, TodoPlaced, LivePlaced, HeldMarked, Collecting, Marking
<1>3. WorkListPlaced'
  BY GenToCollectStable DEF ArraysInv, WorkListPlaced, MarkedClean
<1>4. HeldAllocated' /\ TemporaryApart'
  BY <1>1 DEF ArraysInv, HeldAllocated, TemporaryApart
<1> QED BY <1>1, <1>2, <1>3, <1>4 DEF ArraysInv

\* A clean temporary PMC sits where its generation flags say.
LEMMA FreeTemporaryArrays ==
  ASSUME ArraysInv, NEW p \in Pmc, FreeTemporary(p)
  PROVE  ArraysInv' /\ Allocated' = Allocated \ {p}
<1> USE DEF FreeTemporary
<1>i. TypeOK /\ InOneArray /\ FlagsMatchArrays
  BY DEF ArraysInv, CheckSanity
<1>g. gen_to_collect' = gen_to_collect
  BY GenToCollectStable DEF runVars
<1>p. /\ p \notin dirty_list /\ p \notin work_list /\ p \in Allocated
  BY <1>i DEF ArraysInv, FlagsMatchArrays, WorkListPlaced, MarkedClean, HeldAllocated
<1>h. PICK g \in Gens : p \in objects[g]
  BY <1>p, AllocatedFacts
<1>k. generation[p] = g /\ \A h \in Gens \ {g} : p \notin objects[h]
  BY <1>h, <1>i DEF FlagsMatchArrays
<1>j. \A h \in Gens : objects'[h] = objects[h] \ {p}
  BY <1>i, <1>k DEF TypeOK
<1>v. /\ generation' \in [Obj -> Gens]
      /\ \A o \in Obj : generation'[o] = IF o = p THEN 0 ELSE generation[o]
      /\ objects' \in [Gens -> SUBSET Obj]
  BY <1>i, GensFacts DEF TypeOK, Obj
<1>1. TypeOK'
  BY <1>i, <1>v DEF TypeOK, runVars, blockVars
<1>2. InOneArray'
  BY <1>i, <1>j DEF InOneArray
<1>3. FlagsMatchArrays'
  <2>1. \A h \in Gens : objects[h] \subseteq Obj
    BY <1>i DEF TypeOK
  <2> QED BY <1>i, <1>j, <1>v, <2>1 DEF FlagsMatchArrays
<1>4. Allocated' = Allocated \ {p}
  <2>1. \A o : o \in Allocated' <=> o \in Allocated /\ o # p
    BY <1>j, <1>p, AllocatedFacts, AllocatedFactsPrimed
  <2> QED BY <2>1
<1>5. BlockHeld' /\ TodoPlaced' /\ HeldMarked'
  BY DEF ArraysInv, BlockHeld, TodoPlaced, HeldMarked, Collecting, Marking, runVars, blockVars
<1>6. LivePlaced' /\ WorkListPlaced'
  BY <1>p, <1>g DEF ArraysInv, LivePlaced, WorkListPlaced, MarkedClean, Marking, runVars
<1>7. HeldAllocated'
  BY <1>4 DEF ArraysInv, HeldAllocated, TemporaryApart
<1>8. TemporaryApart'
  BY DEF ArraysInv, TemporaryApart
<1> QED BY <1>1, <1>2, <1>3, <1>4, <1>5, <1>6, <1>7, <1>8 DEF ArraysInv, CheckSanity

\* Blocking the collector changes its block levels only.
LEMMA BlockArrays ==
  ASSUME ArraysInv, BlockMark \/ UnblockMark \/ BlockSweep \/ UnblockSweep
  PROVE  ArraysInv' /\ Allocated' = Allocated
<1>1. /\ phase = "mutator"
      /\ UNCHANGED <<mutatorVars, arrayVars, flagVars, runVars>>
      /\ gc_mark_block_level' \in Nat /\ gc_sweep_block_level' \in Nat
  BY DEF ArraysInv, TypeOK, BlockMark, UnblockMark, BlockSweep, UnblockSweep
<1> USE DEF mutatorVars, arrayVars, flagVars, runVars
<1>2. TypeOK' /\ CheckSanity' /\ Allocated' = Allocated
  BY <1>1 DEF ArraysInv, TypeOK, CheckSanity, InOneArray, FlagsMatchArrays, Allocated
<1>3. BlockHeld' /\ TodoPlaced' /\ LivePlaced' /\ HeldMarked'
  BY <1>1 DEF ArraysInv, BlockHeld, TodoPlaced, LivePlaced, HeldMarked, Collecting, Marking
<1>4. WorkListPlaced'
  BY <1>1, GenToCollectStable DEF ArraysInv, WorkListPlaced, MarkedClean
<1>5. HeldAllocated' /\ TemporaryApart'
  BY <1>1, <1>2 DEF ArraysInv, HeldAllocated, TemporaryApart
<1> QED BY <1>2, <1>3, <1>4, <1>5 DEF ArraysInv

\* A collection begins with nothing marked and an empty work list, so the
\* change of the generation to collect disturbs nothing.
LEMMA StartRunArrays ==
  ASSUME ArraysInv, StartRun PROVE ArraysInv' /\ Allocated' = Allocated
<1> USE DEF StartRun, mutatorVars, arrayVars, flagVars
<1>1. gc_mark_runs' \in 0 .. RunCycle - 1
  BY RunCycleType DEF ArraysInv, TypeOK
<1>2. TypeOK' /\ CheckSanity' /\ Allocated' = Allocated
  BY <1>1 DEF ArraysInv, TypeOK, CheckSanity, InOneArray, FlagsMatchArrays, Allocated
<1>3. BlockHeld' /\ TodoPlaced' /\ LivePlaced' /\ WorkListPlaced' /\ HeldMarked'
  BY DEF ArraysInv, BlockHeld, TodoPlaced, LivePlaced, WorkListPlaced, MarkedClean, HeldMarked, Marking
<1>4. HeldAllocated' /\ TemporaryApart'
  BY <1>2 DEF ArraysInv, HeldAllocated, TemporaryApart
<1> QED BY <1>2, <1>3, <1>4 DEF ArraysInv

\* A PMC that leaves the dirty list goes to the array of its generation.
LEMMA CleanDirtyArrays ==
  ASSUME ArraysInv, NEW p \in Pmc, CleanDirty(p)
  PROVE  ArraysInv' /\ Allocated' = Allocated
<1> USE DEF CleanDirty
<1>i. TypeOK /\ InOneArray /\ FlagsMatchArrays
  BY DEF ArraysInv, CheckSanity
<1>g. gen_to_collect' = gen_to_collect
  BY GenToCollectStable
<1>p. /\ p \in dirty_list /\ p \notin work_list /\ generation[p] \in Gens
      /\ \A h \in Gens : p \notin objects[h]
  BY <1>i DEF ArraysInv, TodoPlaced, InOneArray, TypeOK, Obj
<1>j. /\ objects' \in [Gens -> SUBSET Obj]
      /\ \A h \in Gens : objects'[h] = IF h = generation[p] THEN objects[h] \cup {p}
                                                          ELSE objects[h]
  BY <1>i, <1>p DEF TypeOK, Obj
<1>1. TypeOK'
  BY <1>i, <1>j DEF TypeOK, mutatorVars, blockVars
<1>2. InOneArray'
  BY <1>i, <1>j, <1>p DEF InOneArray
<1>3. FlagsMatchArrays'
  BY <1>i, <1>j DEF FlagsMatchArrays
<1>4. Allocated' = Allocated
  <2>1. \A o : o \in Allocated' <=> o \in Allocated
    BY <1>j, <1>p, AllocatedFacts, AllocatedFactsPrimed
  <2> QED BY <2>1
<1>5. BlockHeld' /\ TodoPlaced' /\ HeldMarked'
  BY DEF ArraysInv, BlockHeld, TodoPlaced, HeldMarked, Collecting, Marking, blockVars
<1>6. LivePlaced' /\ WorkListPlaced'
  BY <1>p, <1>g DEF ArraysInv, LivePlaced, WorkListPlaced, MarkedClean, Marking
<1>7. HeldAllocated' /\ TemporaryApart'
  BY <1>4 DEF ArraysInv, HeldAllocated, TemporaryApart, mutatorVars
<1> QED BY <1>1, <1>2, <1>3, <1>4, <1>5, <1>6, <1>7 DEF ArraysInv, CheckSanity

LEMMA AgeDirtyArrays ==
  ASSUME ArraysInv, NEW p \in Pmc, AgeDirty(p)
  PROVE  ArraysInv' /\ Allocated' = Allocated
<1> USE DEF AgeDirty
<1>i. TypeOK /\ InOneArray /\ FlagsMatchArrays
  BY DEF ArraysInv, CheckSanity
<1>p. /\ p \in dirty_list /\ p \notin work_list /\ generation[p] \in Gens
      /\ \A h \in Gens : p \notin objects[h]
  BY <1>i DEF ArraysInv, TodoPlaced, InOneArray, TypeOK, Obj
<1>v. /\ generation' \in [Obj -> Gens]
      /\ \A o \in Obj : o # p => generation'[o] = generation[o]
  BY <1>i, <1>p, OlderType DEF TypeOK
<1>1. TypeOK'
  BY <1>i, <1>v DEF TypeOK, mutatorVars, arrayVars, blockVars
<1>2. InOneArray'
  BY <1>i DEF InOneArray, arrayVars
<1>3. FlagsMatchArrays'
  <2>1. \A h \in Gens : objects[h] \subseteq Obj
    BY <1>i DEF TypeOK
  <2> QED BY <1>i, <1>v, <1>p, <2>1 DEF FlagsMatchArrays, arrayVars
<1>4. Allocated' = Allocated
  BY DEF Allocated, arrayVars
<1>5. BlockHeld' /\ TodoPlaced' /\ HeldMarked' /\ LivePlaced' /\ WorkListPlaced'
  BY DEF ArraysInv, BlockHeld, TodoPlaced, LivePlaced, WorkListPlaced, MarkedClean, HeldMarked,
         Collecting, Marking, blockVars, arrayVars
<1>6. HeldAllocated' /\ TemporaryApart'
  BY <1>4 DEF ArraysInv, HeldAllocated, TemporaryApart, mutatorVars
<1> QED BY <1>1, <1>2, <1>3, <1>4, <1>5, <1>6 DEF ArraysInv, CheckSanity

\* The roots are in use, so tracing them marks every one.
LEMMA TraceRootsArrays ==
  ASSUME ArraysInv, TraceRoots PROVE ArraysInv' /\ Allocated' = Allocated
<1> DEFINE found == {o \in stack : IsObjPtr(o)}
           S == found \cup roots
<1>t. /\ phase = "cleanup" /\ todo = {}
      /\ Mark(S)
      /\ todo' = White(S)
      /\ soil_root' = soil_root \cup Nursery(found)
      /\ phase' = "dirty"
      /\ UNCHANGED <<mutatorVars, dirty_list, generation, on_dirty_list,
                     need_write_barrier, sweeping, gc_mark_runs, blockVars>>
  BY DEF TraceRoots
<1>i. TypeOK /\ FlagsMatchArrays
  BY DEF ArraysInv, CheckSanity
<1>s. /\ S \in SUBSET Obj /\ S \cap Pmc \subseteq Allocated
      /\ White(S) \subseteq Pmc /\ Nursery(found) \subseteq Pmc
  BY <1>i DEF ArraysInv, HeldAllocated, TypeOK, White, Nursery
<1>l. live \cap Pmc = {} /\ work_list = {}
  BY <1>t DEF ArraysInv, LivePlaced, WorkListPlaced, MarkedClean
<1>f. \A o \in stack : o \in S \/ Marked(o)
  \* A word of the C stack that does not count as a pointer is marked, dirty, too old.
  <2> SUFFICES ASSUME NEW o \in stack, o \notin found, ~Marked(o) PROVE FALSE
    OBVIOUS
  <2>1. /\ o \notin live /\ o \notin dirty_list
        /\ generation[o] \in Nat /\ gen_to_collect \in Nat
        /\ generation[o] <= gen_to_collect
    BY <1>i, GenToCollect, GensFacts DEF Marked, TypeOK
  <2>2. o \notin work_list /\ o \in Allocated
    BY <1>l DEF ArraysInv, HeldAllocated
  <2>3. PICK g \in Gens : o \in objects[g]
    BY <2>1, <2>2, AllocatedFacts
  <2>4. g = generation[o]
    BY <1>i, <2>3 DEF FlagsMatchArrays
  <2>5. IsObjPtr(o)
    BY <1>i, <2>1, <2>3, <2>4 DEF IsObjPtr, FlagsMatchArrays
  <2> QED BY <2>5
<1> HIDE DEF S, found
<1>m. /\ CheckSanity' /\ Allocated' = Allocated
      /\ objects' \in [Gens -> SUBSET Obj]
      /\ live' \subseteq Obj /\ work_list' \subseteq Pmc
      /\ live' \cap Pmc = (live \cap Pmc) \cup White(S)
      /\ MarkedClean'
      /\ \A o \in Obj : Marked(o) => Marked(o)'
      /\ \A o \in S : Marked(o)'
  BY <1>t, <1>s, MarkEffect
<1>w. work_list' = White(S)
  BY <1>t, <1>l DEF Mark
<1>1. TypeOK'
  BY <1>i, <1>t, <1>s, <1>m DEF TypeOK, mutatorVars, blockVars
<1>2. BlockHeld'
  BY <1>t DEF ArraysInv, BlockHeld, Collecting, blockVars
<1>3. TodoPlaced' /\ LivePlaced'
  BY <1>t, <1>w, <1>m, <1>l DEF TodoPlaced, LivePlaced, Marking
<1>6. WorkListPlaced'
  BY <1>t, <1>m DEF WorkListPlaced
<1>4. HeldAllocated' /\ TemporaryApart'
  BY <1>t, <1>m DEF ArraysInv, HeldAllocated, TemporaryApart, mutatorVars
<1>5. HeldMarked'
  <2>1. \A o \in roots \cup stack : Marked(o)'
    BY <1>f, <1>i, <1>m DEF S, TypeOK
  <2> QED BY <2>1, <1>t DEF HeldMarked, Marking, mutatorVars
<1> QED BY <1>1, <1>2, <1>3, <1>4, <1>5, <1>6, <1>m DEF ArraysInv

\* Marking from the dirty list and from the work list: the children are in use,
\* or the collector has confessed.
LEMMA ProcessDirtyListArrays ==
  ASSUME ArraysInv, ProcessDirtyList PROVE ArraysInv' /\ Allocated' = Allocated
<1> DEFINE S == Children(dirty_list)
<1>t. /\ phase = "dirty" /\ ~Resurrects(S) /\ Mark(S)
      /\ todo' = todo \cup White(S) /\ phase' = "work"
      /\ UNCHANGED <<mutatorVars, dirty_list, generation, soil_root, on_dirty_list,
                     need_write_barrier, sweeping, gc_mark_runs, blockVars>>
  BY DEF ProcessDirtyList
<1>i. TypeOK
  BY DEF ArraysInv
<1>s. /\ S \in SUBSET Obj /\ S \cap Pmc \subseteq Allocated /\ White(S) \subseteq Pmc
  BY <1>i, <1>t DEF TypeOK, Children, Resurrects, White, Obj
<1> HIDE DEF S
<1>m. /\ CheckSanity' /\ Allocated' = Allocated
      /\ objects' \in [Gens -> SUBSET Obj]
      /\ live' \subseteq Obj /\ work_list' \subseteq Pmc
      /\ live' \cap Pmc = (live \cap Pmc) \cup White(S)
      /\ MarkedClean'
      /\ \A o \in Obj : Marked(o) => Marked(o)'
  BY <1>t, <1>s, MarkEffect
<1>w. work_list' = work_list \cup White(S)
  BY <1>t DEF Mark
<1>1. TypeOK'
  BY <1>i, <1>t, <1>s, <1>m DEF TypeOK, mutatorVars, blockVars
<1>2. BlockHeld'
  BY <1>t DEF ArraysInv, BlockHeld, Collecting, blockVars
<1>3. TodoPlaced' /\ LivePlaced'
  BY <1>t, <1>w, <1>m DEF ArraysInv, TodoPlaced, LivePlaced, Marking
<1>6. WorkListPlaced'
  BY <1>t, <1>m DEF WorkListPlaced
<1>4. HeldAllocated' /\ TemporaryApart'
  BY <1>t, <1>m DEF ArraysInv, HeldAllocated, TemporaryApart, mutatorVars
<1>5. HeldMarked'
  BY <1>t, <1>m, <1>i DEF ArraysInv, HeldMarked, Marking, mutatorVars, TypeOK
<1> QED BY <1>1, <1>2, <1>3, <1>4, <1>5, <1>6, <1>m DEF ArraysInv

LEMMA ScanWorkArrays ==
  ASSUME ArraysInv, NEW p \in Pmc, ScanWork(p)
  PROVE  ArraysInv' /\ Allocated' = Allocated
<1> DEFINE S == refs[p]
<1>t. /\ phase = "work" /\ p \in todo /\ ~Resurrects(S) /\ Mark(S)
      /\ todo' = (todo \ {p}) \cup White(S)
      /\ UNCHANGED <<mutatorVars, dirty_list, generation, soil_root, on_dirty_list,
                     need_write_barrier, phase, sweeping, gc_mark_runs, blockVars>>
  BY DEF ScanWork
<1>i. TypeOK
  BY DEF ArraysInv
<1>s. /\ S \in SUBSET Obj /\ S \cap Pmc \subseteq Allocated /\ White(S) \subseteq Pmc
  BY <1>i, <1>t DEF TypeOK, Resurrects, White, Obj
<1> HIDE DEF S
<1>m. /\ CheckSanity' /\ Allocated' = Allocated
      /\ objects' \in [Gens -> SUBSET Obj]
      /\ live' \subseteq Obj /\ work_list' \subseteq Pmc
      /\ live' \cap Pmc = (live \cap Pmc) \cup White(S)
      /\ MarkedClean'
      /\ \A o \in Obj : Marked(o) => Marked(o)'
  BY <1>t, <1>s, MarkEffect
<1>w. work_list' = work_list \cup White(S)
  BY <1>t DEF Mark
<1>1. TypeOK'
  BY <1>i, <1>t, <1>s, <1>m DEF TypeOK, mutatorVars, blockVars
<1>2. BlockHeld'
  BY <1>t DEF ArraysInv, BlockHeld, Collecting, blockVars
<1>3. TodoPlaced' /\ LivePlaced'
  BY <1>t, <1>w, <1>m DEF ArraysInv, TodoPlaced, LivePlaced, Marking
<1>6. WorkListPlaced'
  BY <1>t, <1>m DEF WorkListPlaced
<1>4. HeldAllocated' /\ TemporaryApart'
  BY <1>t, <1>m DEF ArraysInv, HeldAllocated, TemporaryApart, mutatorVars
<1>5. HeldMarked'
  BY <1>t, <1>m, <1>i DEF ArraysInv, HeldMarked, Marking, mutatorVars, TypeOK
<1> QED BY <1>1, <1>2, <1>3, <1>4, <1>5, <1>6, <1>m DEF ArraysInv

\* The marked PMCs are of generations the sweep visits, and go back to the
\* arrays of these before it starts.
LEMMA RestoreWorkListArrays ==
  ASSUME ArraysInv, RestoreWorkList PROVE ArraysInv' /\ Allocated' = Allocated
<1> USE DEF RestoreWorkList
<1>i. TypeOK /\ InOneArray /\ FlagsMatchArrays
  BY DEF ArraysInv, CheckSanity
<1>g. gen_to_collect' = gen_to_collect /\ gen_to_collect \in Gens
  BY GenToCollectStable, GenToCollect
<1>w. /\ live \cap Pmc = work_list
      /\ \A p \in work_list : generation[p] \in Gens /\ generation[p] <= gen_to_collect
  BY <1>i DEF ArraysInv, LivePlaced, WorkListPlaced, MarkedClean, Marking, TypeOK, Obj
<1>j. /\ objects' \in [Gens -> SUBSET Obj]
      /\ \A g \in Gens : objects'[g] = objects[g] \cup {p \in work_list : generation[p] = g}
  BY <1>i DEF TypeOK, Obj
<1>u. /\ generation' = generation /\ live' = live /\ dirty_list' = dirty_list
      /\ work_list' = {} /\ on_dirty_list' = on_dirty_list
      /\ need_write_barrier' = need_write_barrier /\ sweeping' = gen_to_collect
      /\ todo' = {}
  BY DEF flagVars
<1>1. TypeOK'
  BY <1>i, <1>j, <1>g DEF TypeOK, mutatorVars, flagVars, blockVars
<1>2. InOneArray'
  BY <1>i, <1>j, <1>u DEF InOneArray
<1>s. \A p \in work_list : generation[p] > 0 => p \in need_write_barrier
  BY DEF ArraysInv, WorkListPlaced, MarkedClean
<1>3. FlagsMatchArrays'
  BY <1>i, <1>j, <1>u, <1>s DEF FlagsMatchArrays
<1>4. Allocated' = Allocated
  <2>1. \A o : o \in Allocated' <=> o \in Allocated
    BY <1>j, <1>u, <1>w, AllocatedFacts, AllocatedFactsPrimed
  <2> QED BY <2>1
<1>5. BlockHeld' /\ TodoPlaced' /\ WorkListPlaced'
  BY <1>u DEF ArraysInv, BlockHeld, TodoPlaced, WorkListPlaced, MarkedClean, Collecting, blockVars
<1>6. LivePlaced'
  <2>1. \A p \in work_list : p \in objects'[generation[p]]
    BY <1>j, <1>w
  <2>2. \A p \in work_list : generation[p] \in 0 .. gen_to_collect
    BY <1>w, <1>g, GensFacts
  <2> QED BY <1>u, <1>w, <2>1, <2>2 DEF LivePlaced, Marking
<1>7. HeldAllocated' /\ TemporaryApart'
  BY <1>4 DEF ArraysInv, HeldAllocated, TemporaryApart, mutatorVars
<1>8. HeldMarked'
  <2> SUFFICES ASSUME NEW g \in 0 .. gen_to_collect, NEW o \in (roots \cup stack) \cap objects'[g]
               PROVE  o \in live
    BY <1>u DEF HeldMarked, Marking, mutatorVars
  <2>0. g \in Gens /\ g \in Nat /\ gen_to_collect \in Nat /\ g <= gen_to_collect
    BY <1>g, GensFacts
  <2>1. CASE o \in work_list
    BY <2>1, <1>w
  <2>2. CASE o \in objects[g]
    <3>1. generation[o] = g /\ o \notin dirty_list
      BY <2>0, <2>2, <1>i DEF InOneArray, FlagsMatchArrays
    <3>2. Marked(o)
      BY <1>u DEF ArraysInv, HeldMarked, Marking
    <3> QED BY <2>0, <3>1, <3>2 DEF Marked
  <2> QED BY <2>0, <2>1, <2>2, <1>j
<1> QED BY <1>1, <1>2, <1>3, <1>4, <1>5, <1>6, <1>7, <1>8 DEF ArraysInv, CheckSanity

\* The sweep of one generation frees its dead headers and moves the others up,
\* sealed or back on the dirty list.
LEMMA SweepFacts ==
  ASSUME ArraysInv, phase = "sweep", NEW g \in Gens, g = sweeping, SweepGeneration(g)
  PROVE  /\ objects' \in [Gens -> SUBSET Obj]
         /\ \A h \in Gens : objects'[h] =
              IF h = g THEN (objects[g] \ Dead(g)) \ Promoted(g)
              ELSE IF h = g + 1 THEN objects[h] \cup (Promoted(g) \ Soiled(g))
              ELSE objects[h]
         /\ generation' \in [Obj -> Gens]
         /\ \A o \in Obj : generation'[o] = IF o \in Promoted(g) THEN g + 1
                                            ELSE IF o \in Dead(g) THEN 0
                                            ELSE generation[o]
         /\ refs' \in [Obj -> SUBSET Obj]
         /\ \A o \in Obj : refs'[o] = IF o \in Dead(g) THEN {} ELSE refs[o]
         /\ Dead(g) \subseteq objects[g] \ live /\ Promoted(g) \subseteq objects[g]
         /\ Dead(g) \cap Promoted(g) = {}
         /\ Soiled(g) \subseteq Promoted(g) \cap Pmc
         /\ Promoted(g) # {} => g + 1 \in Gens
         /\ g < Oldest => Promoted(g) = objects[g] \ Dead(g)
<1>n. g \in Nat /\ g # g + 1 /\ (g < Oldest => g + 1 \in Gens)
  BY GensFacts
<1>i. TypeOK
  BY DEF ArraysInv
<1>1. /\ Dead(g) \subseteq objects[g] \ live /\ Promoted(g) \subseteq objects[g]
      /\ Dead(g) \cap Promoted(g) = {}
      /\ Soiled(g) \subseteq Promoted(g) \cap Pmc
      /\ g < Oldest => Promoted(g) = objects[g] \ Dead(g)
  BY <1>i DEF TypeOK, Dead, Promoted, Soiled
<1>2. Promoted(g) # {} => g + 1 \in Gens
  BY <1>n DEF Promoted
<1>3. \A h \in Gens : objects'[h] =
              IF h = g THEN (objects[g] \ Dead(g)) \ Promoted(g)
              ELSE IF h = g + 1 THEN objects[h] \cup (Promoted(g) \ Soiled(g))
              ELSE objects[h]
  BY <1>n DEF SweepGeneration
<1>4. objects' \in [Gens -> SUBSET Obj]
  BY <1>i, <1>1, <1>3 DEF TypeOK, SweepGeneration
<1>5. /\ generation' \in [Obj -> Gens]
      /\ \A o \in Obj : generation'[o] = IF o \in Promoted(g) THEN g + 1
                                         ELSE IF o \in Dead(g) THEN 0
                                         ELSE generation[o]
  BY <1>i, <1>2, GensFacts DEF TypeOK, SweepGeneration
<1>6. /\ refs' \in [Obj -> SUBSET Obj]
      /\ \A o \in Obj : refs'[o] = IF o \in Dead(g) THEN {} ELSE refs[o]
  BY <1>i DEF TypeOK, SweepGeneration
<1> QED BY <1>1, <1>2, <1>3, <1>4, <1>5, <1>6

LEMMA SweepGenerationArrays ==
  ASSUME ArraysInv, phase = "sweep", NEW g \in Gens, g = sweeping, SweepGeneration(g),
         UNCHANGED <<roots, stack, pending, filling, work_list, todo, gc_mark_runs>>
  PROVE  /\ CheckSanity' /\ MarkedClean'
         /\ Allocated' = Allocated \ Dead(g)
         /\ refs' \in [Obj -> SUBSET Obj] /\ \A s \in Str : refs'[s] = {}
         /\ objects' \in [Gens -> SUBSET Obj] /\ generation' \in [Obj -> Gens]
         /\ dirty_list' \subseteq Pmc /\ on_dirty_list' \subseteq Pmc
         /\ live' \subseteq Obj /\ soil_root' \subseteq Pmc /\ need_write_barrier' \subseteq Pmc
         /\ live' \cap Pmc \subseteq UNION {objects'[h] : h \in 0 .. g - 1}
         /\ HeldAllocated' /\ TemporaryApart'
         /\ \A h \in 0 .. g - 1 : (roots \cup stack) \cap objects'[h] \subseteq live'
<1>i. TypeOK /\ InOneArray /\ FlagsMatchArrays
  BY DEF ArraysInv, CheckSanity
<1>n. g \in Nat /\ g <= Oldest /\ \A h \in 0 .. g - 1 : h \in Gens /\ h # g /\ h # g + 1
  BY GensFacts
<1>f. /\ objects' \in [Gens -> SUBSET Obj]
      /\ \A h \in Gens : objects'[h] =
           IF h = g THEN (objects[g] \ Dead(g)) \ Promoted(g)
           ELSE IF h = g + 1 THEN objects[h] \cup (Promoted(g) \ Soiled(g))
           ELSE objects[h]
      /\ generation' \in [Obj -> Gens]
      /\ \A o \in Obj : generation'[o] = IF o \in Promoted(g) THEN g + 1
                                         ELSE IF o \in Dead(g) THEN 0
                                         ELSE generation[o]
      /\ refs' \in [Obj -> SUBSET Obj]
      /\ \A o \in Obj : refs'[o] = IF o \in Dead(g) THEN {} ELSE refs[o]
      /\ Dead(g) \subseteq objects[g] \ live /\ Promoted(g) \subseteq objects[g]
      /\ Dead(g) \cap Promoted(g) = {}
      /\ Soiled(g) \subseteq Promoted(g) \cap Pmc
      /\ Promoted(g) # {} => g + 1 \in Gens
  BY SweepFacts
<1>u. /\ dirty_list' = dirty_list \cup Soiled(g)
      /\ live' = live \ objects[g]
      /\ soil_root' = soil_root \ (Soiled(g) \cup Dead(g))
      /\ on_dirty_list' = on_dirty_list \cup Soiled(g)
      /\ need_write_barrier' = (need_write_barrier \cup Sealed(g)) \ Dead(g)
      /\ work_list' = work_list
  BY DEF SweepGeneration
<1>e. work_list = {} /\ live \cap Pmc \subseteq UNION {objects[h] : h \in 0 .. g}
  BY DEF ArraysInv, WorkListPlaced, LivePlaced
<1>s. Sealed(g) = (Promoted(g) \ Soiled(g)) \cap Pmc
  BY DEF Sealed
<1>o. \A h \in Gens : objects[h] \subseteq Obj
  BY <1>i DEF TypeOK
<1>1. InOneArray'
  <2>1. \A h, k \in Gens : h # k => objects'[h] \cap objects'[k] = {}
    BY <1>i, <1>f DEF InOneArray
  <2>2. \A h \in Gens : objects'[h] \cap dirty_list' = {}
    BY <1>i, <1>f, <1>u DEF InOneArray
  <2> QED BY <2>1, <2>2, <1>u, <1>e DEF InOneArray
<1>2. FlagsMatchArrays'
  <2>1. ASSUME NEW h \in Gens, NEW o \in objects'[h]
        PROVE  /\ generation'[o] = h
               /\ h > 0 /\ o \in Pmc => o \in need_write_barrier'
    <3>1. CASE o \in Promoted(g) /\ h = g + 1
      BY <3>1, <2>1, <1>i, <1>f, <1>u, <1>s, <1>o, <1>n DEF InOneArray
    <3>2. CASE o \in objects[h] /\ h # g
      BY <3>2, <2>1, <1>i, <1>f, <1>u, <1>o DEF InOneArray, FlagsMatchArrays
    <3>3. CASE h = g /\ o \in (objects[g] \ Dead(g)) \ Promoted(g)
      BY <3>3, <1>i, <1>f, <1>u, <1>o DEF FlagsMatchArrays
    <3> QED BY <2>1, <3>1, <3>2, <3>3, <1>f
  <2> QED BY <2>1, <1>i, <1>u DEF FlagsMatchArrays
<1>3. Allocated' = Allocated \ Dead(g)
  <2>1. \A o \in Dead(g) : o \notin Promoted(g) /\ o \notin dirty_list /\ o \notin work_list
                           /\ \A h \in Gens \ {g} : o \notin objects[h]
    BY <1>i, <1>f, <1>e DEF InOneArray
  <2>2. ASSUME NEW o, o \in Allocated' PROVE o \in Allocated \ Dead(g)
    BY <2>1, <2>2, <1>f, <1>u, AllocatedFacts, AllocatedFactsPrimed
  <2>3. ASSUME NEW o, o \in Allocated, o \notin Dead(g) PROVE o \in Allocated'
    <3>1. CASE o \in dirty_list \/ o \in work_list
      BY <3>1, <1>u, AllocatedFactsPrimed
    <3>2. CASE o \in Promoted(g)
      <4>1. o \in Soiled(g) \/ o \in objects'[g + 1]
        BY <3>2, <1>f, <1>n
      <4> QED BY <4>1, <3>2, <1>f, <1>u, AllocatedFactsPrimed
    <3>3. ASSUME NEW h \in Gens, o \in objects[h], o \notin Promoted(g)
          PROVE  o \in Allocated'
      <4>1. o \in objects'[h]
        BY <3>3, <2>3, <1>f
      <4> QED BY <4>1, AllocatedFactsPrimed
    <3> QED BY <2>3, <3>1, <3>2, <3>3, AllocatedFacts
  <2> QED BY <2>2, <2>3
<1>4. /\ dirty_list' \subseteq Pmc /\ on_dirty_list' \subseteq Pmc
      /\ live' \subseteq Obj /\ soil_root' \subseteq Pmc /\ need_write_barrier' \subseteq Pmc
      /\ \A s \in Str : refs'[s] = {}
  BY <1>i, <1>f, <1>u, <1>s DEF TypeOK, Obj
<1>5. live' \cap Pmc \subseteq UNION {objects'[h] : h \in 0 .. g - 1}
  <2> SUFFICES ASSUME NEW o \in live', o \in Pmc
               PROVE  \E h \in 0 .. g - 1 : o \in objects'[h]
    OBVIOUS
  <2>1. PICK h \in 0 .. g : o \in objects[h]
    BY <1>e, <1>u
  <2>2. h # g
    BY <2>1, <1>u
  <2>3. h \in 0 .. g - 1
    BY <2>1, <2>2, <1>n
  <2> QED BY <2>1, <2>3, <1>n, <1>f
<1>6. HeldAllocated'
  <2>1. \A o \in roots \cup stack : o \notin Dead(g)
    BY <1>f, <1>n DEF ArraysInv, HeldMarked
  <2> QED BY <2>1, <1>3 DEF ArraysInv, HeldAllocated
<1>7. TemporaryApart'
  BY <1>i, <1>f, KindsAssumption DEF ArraysInv, TemporaryApart, Obj
<1>8. \A h \in 0 .. g - 1 : (roots \cup stack) \cap objects'[h] \subseteq live'
  <2> SUFFICES ASSUME NEW h \in 0 .. g - 1, NEW o \in (roots \cup stack) \cap objects'[h]
               PROVE  o \in live'
    OBVIOUS
  <2>1. o \in objects[h] /\ o \notin objects[g]
    BY <1>n, <1>f, <1>i DEF InOneArray
  <2>2. o \in live
    BY <2>1, <1>n DEF ArraysInv, HeldMarked
  <2> QED BY <2>1, <2>2, <1>u
<1>9. MarkedClean'
  BY <1>e, <1>u DEF MarkedClean
<1> QED BY <1>1, <1>2, <1>3, <1>4, <1>5, <1>6, <1>7, <1>8, <1>9, <1>f DEF CheckSanity

LEMMA SweepArrays ==
  ASSUME ArraysInv, Sweep PROVE ArraysInv'
<1> USE DEF Sweep
<1>i. TypeOK /\ sweeping \in Gens /\ sweeping \in Nat /\ sweeping - 1 \in Gens
  BY GensFacts DEF ArraysInv, TypeOK
<1>1. /\ CheckSanity' /\ MarkedClean'
      /\ refs' \in [Obj -> SUBSET Obj] /\ \A s \in Str : refs'[s] = {}
      /\ objects' \in [Gens -> SUBSET Obj] /\ generation' \in [Obj -> Gens]
      /\ dirty_list' \subseteq Pmc /\ on_dirty_list' \subseteq Pmc
      /\ live' \subseteq Obj /\ soil_root' \subseteq Pmc /\ need_write_barrier' \subseteq Pmc
      /\ live' \cap Pmc \subseteq UNION {objects'[h] : h \in 0 .. sweeping - 1}
      /\ HeldAllocated' /\ TemporaryApart'
      /\ \A h \in 0 .. sweeping - 1 : (roots \cup stack) \cap objects'[h] \subseteq live'
  BY <1>i, SweepGenerationArrays
<1>2. TypeOK'
  BY <1>i, <1>1 DEF TypeOK, blockVars
<1>3. BlockHeld' /\ TodoPlaced'
  BY DEF ArraysInv, BlockHeld, TodoPlaced, Collecting, blockVars
<1>4. LivePlaced'
  BY <1>1 DEF LivePlaced, Marking
<1>5. WorkListPlaced'
  BY <1>1 DEF ArraysInv, WorkListPlaced
<1>6. HeldMarked'
  BY <1>1 DEF HeldMarked, Marking
<1> QED BY <1>1, <1>2, <1>3, <1>4, <1>5, <1>6 DEF ArraysInv

LEMMA SweepNurseryArrays ==
  ASSUME ArraysInv, SweepNursery PROVE ArraysInv'
<1> USE DEF SweepNursery
<1>i. TypeOK /\ sweeping = 0 /\ 0 \in Gens
  BY GensFacts DEF ArraysInv
<1>1. /\ CheckSanity' /\ MarkedClean'
      /\ refs' \in [Obj -> SUBSET Obj] /\ \A s \in Str : refs'[s] = {}
      /\ objects' \in [Gens -> SUBSET Obj] /\ generation' \in [Obj -> Gens]
      /\ dirty_list' \subseteq Pmc /\ on_dirty_list' \subseteq Pmc
      /\ live' \subseteq Obj /\ soil_root' \subseteq Pmc /\ need_write_barrier' \subseteq Pmc
      /\ live' \cap Pmc \subseteq UNION {objects'[h] : h \in 0 .. 0 - 1}
      /\ HeldAllocated' /\ TemporaryApart'
  BY <1>i, SweepGenerationArrays
<1>b. gc_mark_block_level' \in Nat
  \* The collection gives back the level that it took on entry.
  BY <1>i DEF ArraysInv, BlockHeld, Collecting, TypeOK
<1>2. TypeOK'
  BY <1>i, <1>1, <1>b DEF TypeOK
<1>3. BlockHeld' /\ TodoPlaced' /\ HeldMarked'
  BY DEF ArraysInv, BlockHeld, TodoPlaced, HeldMarked, Collecting, Marking
<1>4. LivePlaced'
  BY <1>1 DEF LivePlaced, Marking
<1>5. WorkListPlaced'
  BY <1>1 DEF ArraysInv, WorkListPlaced
<1> QED BY <1>1, <1>2, <1>3, <1>4, <1>5 DEF ArraysInv

LEMMA StutterArrays ==
  ASSUME ArraysInv, UNCHANGED vars PROVE ArraysInv'
<1> USE DEF vars, mutatorVars, arrayVars, flagVars, runVars, blockVars
<1>1. TypeOK' /\ CheckSanity' /\ Allocated' = Allocated
  BY DEF ArraysInv, TypeOK, CheckSanity, InOneArray, FlagsMatchArrays, Allocated
<1>g. gen_to_collect' = gen_to_collect
  BY GenToCollectStable
<1>2. BlockHeld' /\ TodoPlaced' /\ LivePlaced'
  BY DEF ArraysInv, BlockHeld, TodoPlaced, LivePlaced
<1>3. WorkListPlaced'
  BY <1>g DEF ArraysInv, WorkListPlaced, MarkedClean
<1>4. HeldAllocated' /\ TemporaryApart'
  BY <1>1 DEF ArraysInv, HeldAllocated, TemporaryApart
<1>5. HeldMarked'
  BY <1>g DEF ArraysInv, HeldMarked, Marked
<1> QED BY <1>1, <1>2, <1>3, <1>4, <1>5 DEF ArraysInv

\* Every step of the program and of the collector preserves ArraysInv.
LEMMA NextArrays == ArraysInv /\ [Next]_vars => ArraysInv'
<1> SUFFICES ASSUME ArraysInv, [Next]_vars PROVE ArraysInv'
  OBVIOUS
<1>1. ASSUME NEW o \in Obj,
             AllocateHeader(o) \/ Load(o) \/ Drop(o) \/ SetRoot(o) \/ ClearRoot(o)
      PROVE  ArraysInv'
  BY <1>1, AllocateHeaderArrays, LoadArrays, DropArrays, SetRootArrays, ClearRootArrays
<1>2. ASSUME NEW p \in Pmc,
             VtableWrite(p) \/ FinishWrite(p) \/ FinishClone(p) \/ FreeTemporary(p)
      PROVE  ArraysInv'
  BY <1>2, VtableWriteArrays, FinishWriteArrays, FinishCloneArrays, FreeTemporaryArrays
<1>3. ASSUME NEW p \in Pmc, FreeDirtyTemporary(p) PROVE ArraysInv'
  BY <1>3, ConfessArrays DEF FreeDirtyTemporary
<1>4. ASSUME NEW p \in Pmc, NEW c \in Obj, FillClone(p, c) PROVE ArraysInv'
  BY <1>4, FillCloneArrays
<1>5. CASE BlockMark \/ UnblockMark \/ BlockSweep \/ UnblockSweep
  BY <1>5, BlockArrays
<1>6. ASSUME NEW p \in Pmc, CleanDirty(p) \/ AgeDirty(p) \/ ScanWork(p) PROVE ArraysInv'
  BY <1>6, CleanDirtyArrays, AgeDirtyArrays, ScanWorkArrays
<1>7. CASE StartRun \/ TraceRoots \/ ProcessDirtyList \/ RestoreWorkList
  BY <1>7, StartRunArrays, TraceRootsArrays, ProcessDirtyListArrays, RestoreWorkListArrays
<1>8. CASE Sweep \/ SweepNursery
  BY <1>8, SweepArrays, SweepNurseryArrays
<1>9. CASE MarkDeadObject
  BY <1>9, ConfessArrays DEF MarkDeadObject
<1>10. CASE UNCHANGED vars
  BY <1>10, StutterArrays
<1>11. CASE Program
  BY <1>11, <1>1, <1>2, <1>3, <1>4, <1>5 DEF Program
<1>12. CASE Collector
  BY <1>12, <1>6, <1>7, <1>8, <1>9 DEF Collector
<1> QED BY <1>10, <1>11, <1>12 DEF Next

\* The structure of the collector's arrays, lists, flags and block levels, at
\* every step of a collection and of the program.
THEOREM ArraysInvariant == Spec => []ArraysInv
BY InitArrays, NextArrays, PTL DEF Spec

\* Headers stay in arrays and under flags of their own kind, and a block level
\* is never decremented below zero.
THEOREM TypeCorrect == Spec => []TypeOK
<1>1. ArraysInv => TypeOK
  BY DEF ArraysInv
<1> QED BY <1>1, ArraysInvariant, PTL

\* gc_gms_check_sanity never fails, for whatever the program does and however
\* many generations there are: the C clones and the temporaries that break the
\* marking do not break the arrays.
THEOREM SanityAlways == Spec => []CheckSanity
<1>1. ArraysInv => CheckSanity
  BY DEF ArraysInv
<1> QED BY <1>1, ArraysInvariant, PTL

-----------------------------------------------------------------------------
(***************************************************************************)
(* HeapInv: nothing reachable is freed, unless the situations come about   *)
(* that Untroubled names.                                                  *)
(***************************************************************************)

LEMMA InitHeap == Init => HeapInv
<1> SUFFICES ASSUME Init PROVE HeapInv
  OBVIOUS
<1>1. ArraysInv
  BY InitArrays
<1>2. Allocated = {}
  BY AllocatedFacts DEF Init
<1>3. DirtyAged /\ NoYoungerChild /\ NoYoungerSurvivor /\ NoDangling /\ Tricolour
  BY <1>2 DEF Init, DirtyAged, NoYoungerChild, NoYoungerSurvivor, NoDangling,
              Tricolour, Marking
<1> QED BY <1>1, <1>3 DEF HeapInv

\* While the program runs, two parts of HeapInv have nothing to say.
LEMMA ProgramHeap ==
  ASSUME ArraysInv', phase = "mutator", phase' \in {"mutator", "cleanup", "aborted"},
         DirtyAged', NoYoungerChild', \A o \in Allocated' : refs'[o] \subseteq Allocated'
  PROVE  HeapInv'
BY DEF HeapInv, NoYoungerSurvivor, NoDangling, Tricolour

LEMMA AllocateHeaderHeap ==
  ASSUME HeapInv, ArraysInv', NEW o \in Obj, AllocateHeader(o) PROVE HeapInv'
<1> USE DEF AllocateHeader
<1>i. ArraysInv /\ TypeOK /\ phase' = "mutator"
  BY DEF HeapInv, ArraysInv, runVars
<1>a. Allocated' = Allocated \cup {o} /\ o \notin Allocated /\ o \notin dirty_list
  BY <1>i, AllocateHeaderArrays, AllocatedFacts
<1>v. \A x \in Obj : /\ generation'[x] = IF x = o THEN 0 ELSE generation[x]
                     /\ refs'[x] = IF x = o THEN {} ELSE refs[x]
  BY <1>i DEF TypeOK
<1>t. Allocated \subseteq Obj /\ dirty_list \subseteq Allocated
  BY <1>i, AllocatedFacts DEF TypeOK, Obj
<1>d. \A x \in Allocated : refs[x] \subseteq Allocated
  BY DEF HeapInv, NoDangling
<1>1. DirtyAged'
  BY <1>i, <1>a, <1>v, <1>t DEF HeapInv, DirtyAged, Marking
<1>2. NoYoungerChild'
  <2> SUFFICES ASSUME NEW x \in Allocated' \ dirty_list', NEW c \in refs'[x]
               PROVE  generation'[x] <= generation'[c] \/ Excused(x, c)'
    BY DEF NoYoungerChild
  <2>1. x # o /\ x \in Allocated \ dirty_list /\ c \in refs[x] /\ c # o /\ c \in Allocated
    BY <1>a, <1>v, <1>t, <1>d
  <2>2. generation[x] <= generation[c] \/ Excused(x, c)
    BY <2>1 DEF HeapInv, NoYoungerChild
  <2>3. generation'[x] = generation[x] /\ generation'[c] = generation[c]
    BY <2>1, <1>v, <1>t
  <2> QED BY <2>2, <2>3 DEF Excused
<1>3. \A x \in Allocated' : refs'[x] \subseteq Allocated'
  BY <1>a, <1>v, <1>t, <1>d
<1> QED BY <1>1, <1>2, <1>3, <1>i, ProgramHeap

\* Picking up and letting go of pointers: what a pending store wrote is held
\* until its barrier has run.
LEMMA HoldHeap ==
  ASSUME HeapInv, ArraysInv', NEW o \in Obj, Load(o) \/ Drop(o) \/ SetRoot(o) \/ ClearRoot(o)
  PROVE  HeapInv'
<1>u. /\ phase = "mutator"
      /\ UNCHANGED <<refs, pending, filling, arrayVars, flagVars, runVars, blockVars>>
      /\ \A x \in pending : \A c \in refs[x] \cap stack : c \in stack'
  BY DEF Load, Drop, SetRoot, ClearRoot, InCall
<1>a. Allocated' = Allocated
  BY <1>u DEF Allocated, arrayVars
<1>1. DirtyAged'
  BY <1>u DEF HeapInv, DirtyAged, arrayVars, flagVars, runVars, Marking
<1>2. NoYoungerChild'
  BY <1>u, <1>a DEF HeapInv, NoYoungerChild, Excused, arrayVars, flagVars, runVars
<1>3. \A x \in Allocated' : refs'[x] \subseteq Allocated'
  BY <1>u, <1>a DEF HeapInv, NoDangling
<1> QED BY <1>1, <1>2, <1>3, <1>u, ProgramHeap DEF runVars

\* A store puts the PMC under its pending barrier together with what it points
\* to from now on.
LEMMA VtableWriteHeap ==
  ASSUME HeapInv, ArraysInv', NEW p \in Pmc, VtableWrite(p) PROVE HeapInv'
<1>u. /\ phase = "mutator" /\ p \in stack /\ p \notin pending
      /\ pending' = pending \cup {p}
      /\ UNCHANGED <<stack, arrayVars, flagVars, runVars>>
  BY DEF VtableWrite
<1>i. ArraysInv /\ TypeOK /\ stack \subseteq Allocated /\ phase' = "mutator"
  BY <1>u DEF HeapInv, ArraysInv, HeldAllocated, runVars
<1>s. PICK S \in SUBSET (refs[p] \cup (stack \ Temporary)) : refs' = [refs EXCEPT ![p] = S]
  BY DEF VtableWrite
<1>r. \A x \in Obj : refs'[x] = IF x = p THEN S ELSE refs[x]
  BY <1>i, <1>s DEF TypeOK
<1>a. Allocated' = Allocated /\ Allocated \subseteq Obj
  BY <1>u, <1>i, AllocatedFacts DEF Allocated, arrayVars, TypeOK, Obj
<1>d. \A x \in Allocated : refs[x] \subseteq Allocated
  BY <1>u DEF HeapInv, NoDangling
<1>1. DirtyAged'
  BY <1>u DEF HeapInv, DirtyAged, arrayVars, flagVars, runVars, Marking
<1>2. NoYoungerChild'
  <2> SUFFICES ASSUME NEW x \in Allocated \ dirty_list, NEW c \in refs'[x]
               PROVE  generation[x] <= generation[c] \/ Excused(x, c)'
    BY <1>a, <1>u DEF NoYoungerChild, arrayVars, flagVars
  <2>1. CASE c \in refs[x]
    <3>1. generation[x] <= generation[c] \/ Excused(x, c)
      BY <2>1, <1>u DEF HeapInv, NoYoungerChild
    <3> QED BY <3>1, <1>u DEF Excused
  <2>2. CASE c \notin refs[x]
    BY <2>2, <1>u, <1>r, <1>a DEF Excused
  <2> QED BY <2>1, <2>2
<1>3. \A x \in Allocated' : refs'[x] \subseteq Allocated'
  BY <1>a, <1>d, <1>r, <1>i, <1>u
<1> QED BY <1>1, <1>2, <1>3, <1>i, <1>u, ProgramHeap

\* A C function goes on storing into a clone that is in the nursery, where it has
\* no younger children, or on the dirty list, where it may have them.
LEMMA FillCloneHeap ==
  ASSUME HeapInv, FillingYoung, ArraysInv', NEW p \in Pmc, NEW c \in Obj, FillClone(p, c)
  PROVE  HeapInv'
<1>u. /\ phase = "mutator" /\ p \in filling /\ c \in stack
      /\ refs' = [refs EXCEPT ![p] = @ \cup {c}]
      /\ UNCHANGED <<stack, pending, arrayVars, flagVars, runVars>>
  BY DEF FillClone
<1>i. ArraysInv /\ TypeOK /\ stack \subseteq Allocated /\ p \in Obj /\ phase' = "mutator"
  BY <1>u DEF HeapInv, ArraysInv, HeldAllocated, runVars, Obj
<1>r. \A x \in Obj : refs'[x] = IF x = p THEN refs[p] \cup {c} ELSE refs[x]
  BY <1>i, <1>u DEF TypeOK
<1>a. Allocated' = Allocated /\ Allocated \subseteq Obj
  BY <1>u, <1>i, AllocatedFacts DEF Allocated, arrayVars, TypeOK, Obj
<1>d. \A x \in Allocated : refs[x] \subseteq Allocated
  BY <1>u DEF HeapInv, NoDangling
<1>t. \A x \in Obj : generation[x] \in Nat
  BY <1>i, GensFacts DEF TypeOK
<1>1. DirtyAged'
  BY <1>u DEF HeapInv, DirtyAged, arrayVars, flagVars, runVars, Marking
<1>2. NoYoungerChild'
  <2> SUFFICES ASSUME NEW x \in Allocated \ dirty_list, NEW y \in refs'[x]
               PROVE  generation[x] <= generation[y] \/ Excused(x, y)
    BY <1>a, <1>u DEF NoYoungerChild, Excused, arrayVars, flagVars
  <2>1. CASE x = p
    <3>1. generation[x] = 0
      BY <2>1, <1>u DEF FillingYoung
    <3>2. y \in Obj
      BY <1>i, <1>a, <1>d, <1>r
    <3> QED BY <3>1, <3>2, <1>t
  <2>2. CASE x # p
    BY <2>2, <1>r, <1>a, <1>u DEF HeapInv, NoYoungerChild
  <2> QED BY <2>1, <2>2
<1>3. \A x \in Allocated' : refs'[x] \subseteq Allocated'
  BY <1>a, <1>d, <1>r, <1>i, <1>u
<1> QED BY <1>1, <1>2, <1>3, <1>i, <1>u, ProgramHeap

\* The barrier leaves the PMC dirty, or it is in the nursery, where no child is
\* younger.
LEMMA FinishWriteHeap ==
  ASSUME HeapInv, ArraysInv', NEW p \in Pmc, FinishWrite(p) \/ FinishClone(p)
  PROVE  HeapInv'
<1>u. /\ phase = "mutator" /\ p \in pending \cup filling /\ WriteBarrier(p)
      /\ pending \ {p} \subseteq pending'
      /\ UNCHANGED <<refs, stack, runVars>>
  BY DEF FinishWrite, FinishClone
<1>i. /\ ArraysInv /\ TypeOK /\ FlagsMatchArrays /\ p \in Allocated /\ p \in Obj
      /\ phase' = "mutator"
  BY <1>u DEF HeapInv, ArraysInv, HeldAllocated, CheckSanity, runVars, Obj
<1>b. /\ UNCHANGED <<work_list, generation, live, soil_root>>
      /\ Allocated' = Allocated
      /\ dirty_list' = dirty_list \cup (IF Barred(p) THEN {p} ELSE {})
  BY <1>u, <1>i, WriteBarrierArrays
<1>t. \A x \in Obj : generation[x] \in Nat
  BY <1>i, GensFacts DEF TypeOK
<1>n. p \in dirty_list' \/ generation[p] = 0
  <2> SUFFICES ASSUME p \notin dirty_list, ~Barred(p) PROVE generation[p] = 0
    BY <1>b
  <2>1. p \notin work_list
    BY <1>u, <1>i DEF ArraysInv, WorkListPlaced
  <2>2. PICK g \in Gens : p \in objects[g]
    BY <1>i, <2>1, AllocatedFacts
  <2>3. generation[p] = g /\ (g > 0 => p \in need_write_barrier) /\ p \notin on_dirty_list
    BY <2>2, <1>i DEF FlagsMatchArrays
  <2> QED BY <2>2, <2>3, GensFacts DEF Barred
<1>1. DirtyAged'
  <2>1. Barred(p) => generation[p] > 0
    BY <1>t, <1>i DEF Barred
  <2>2. \A d \in dirty_list' : generation'[d] > 0
    BY <2>1, <1>b DEF HeapInv, DirtyAged
  <2> QED BY <2>2, <1>i DEF DirtyAged, Marking
<1>a. Allocated \subseteq Obj /\ \A x \in Allocated : refs[x] \subseteq Allocated
  BY <1>u, <1>i, AllocatedFacts DEF TypeOK, Obj, HeapInv, NoDangling
<1>2. NoYoungerChild'
  <2> SUFFICES ASSUME NEW x \in Allocated \ dirty_list', NEW c \in refs[x]
               PROVE  generation[x] <= generation[c] \/ Excused(x, c)'
    BY <1>b, <1>u DEF NoYoungerChild
  <2>0. c \in Obj /\ x \in Obj
    BY <1>a
  <2>1. CASE x = p
    BY <2>0, <2>1, <1>n, <1>t
  <2>2. CASE x # p
    <3>1. generation[x] <= generation[c] \/ Excused(x, c)
      BY <1>b, <1>u DEF HeapInv, NoYoungerChild
    <3> QED BY <3>1, <2>2, <1>u DEF Excused
  <2> QED BY <2>1, <2>2
<1>3. \A x \in Allocated' : refs'[x] \subseteq Allocated'
  BY <1>a, <1>b, <1>u
<1> QED BY <1>1, <1>2, <1>3, <1>i, <1>u, ProgramHeap

LEMMA FreeTemporaryHeap ==
  ASSUME HeapInv, ArraysInv', NEW p \in Pmc, FreeTemporary(p) PROVE HeapInv'
<1>u. /\ phase = "mutator" /\ p \in Temporary /\ p \notin on_dirty_list
      /\ UNCHANGED <<refs, pending, dirty_list, phase>>
      /\ stack' = stack \ {p}
      /\ generation' = [generation EXCEPT ![p] = 0]
  BY DEF FreeTemporary, runVars
<1>i. ArraysInv /\ TypeOK /\ p \notin dirty_list
  BY <1>u DEF HeapInv, ArraysInv, CheckSanity, FlagsMatchArrays
<1>a. Allocated' = Allocated \ {p}
  BY <1>i, FreeTemporaryArrays
<1>t. /\ Allocated \subseteq Obj /\ dirty_list \subseteq Obj
      /\ \A x \in Allocated : refs[x] \subseteq Allocated
      /\ \A x \in Obj : p \notin refs[x]
      /\ \A x \in Obj \ {p} : generation'[x] = generation[x]
  BY <1>u, <1>i, AllocatedFacts
  DEF TypeOK, Obj, HeapInv, NoDangling, ArraysInv, TemporaryApart
<1>1. DirtyAged'
  BY <1>u, <1>i, <1>t DEF HeapInv, DirtyAged, Marking
<1>2. NoYoungerChild'
  <2> SUFFICES ASSUME NEW x \in Allocated' \ dirty_list, NEW c \in refs[x]
               PROVE  generation'[x] <= generation'[c] \/ Excused(x, c)'
    BY <1>u DEF NoYoungerChild
  <2>1. x # p /\ c # p /\ x \in Obj /\ c \in Obj /\ x \in Allocated
    BY <1>a, <1>t
  <2>2. generation[x] <= generation[c] \/ Excused(x, c)
    BY <2>1, <1>u DEF HeapInv, NoYoungerChild
  <2>3. generation'[x] = generation[x] /\ generation'[c] = generation[c]
    BY <2>1, <1>t
  <2> QED BY <2>1, <2>2, <2>3, <1>u DEF Excused
<1>3. \A x \in Allocated' : refs'[x] \subseteq Allocated'
  BY <1>a, <1>t, <1>u
<1> QED BY <1>1, <1>2, <1>3, <1>u, ProgramHeap

\* Steps that leave the pointers, the arrays and the generations as they are and
\* do not begin a phase with a claim of its own.
LEMMA FrameHeap ==
  ASSUME HeapInv, ArraysInv', UNCHANGED <<mutatorVars, arrayVars, generation>>,
         phase \in {"mutator", "dirty", "work"}, phase' \in {"mutator", "aborted"}
  PROVE  HeapInv'
<1> USE DEF mutatorVars, arrayVars
<1>a. Allocated' = Allocated
  BY DEF Allocated
<1>1. DirtyAged'
  BY DEF HeapInv, DirtyAged, Marking
<1>2. NoYoungerChild'
  BY <1>a DEF HeapInv, NoYoungerChild, Excused
<1>3. NoDangling' /\ NoYoungerSurvivor' /\ Tricolour'
  BY <1>a DEF HeapInv, NoDangling, NoYoungerSurvivor, Tricolour
<1> QED BY <1>1, <1>2, <1>3 DEF HeapInv

LEMMA StartRunHeap ==
  ASSUME HeapInv, ArraysInv', StartRun PROVE HeapInv'
<1> USE DEF StartRun, mutatorVars, arrayVars, flagVars
<1>a. Allocated' = Allocated
  BY DEF Allocated
<1>1. DirtyAged'
  BY DEF HeapInv, DirtyAged
<1>2. NoYoungerChild'
  BY <1>a DEF HeapInv, NoYoungerChild, Excused
<1>3. \A x \in Allocated' : refs'[x] \subseteq Allocated'
  BY <1>a DEF HeapInv, NoDangling
<1> QED BY <1>1, <1>2, <1>3, ProgramHeap

\* The order of the dirty list does not matter to a PMC that is cleaned: what
\* it points to only grows older.
LEMMA CleanDirtyHeap ==
  ASSUME HeapInv, ArraysInv', NEW p \in Pmc, CleanDirty(p) PROVE HeapInv'
<1>u. /\ phase = "cleanup" /\ phase' = "cleanup" /\ p \in todo /\ ~HasYoungerChild(p)
      /\ todo' = todo \ {p} /\ dirty_list' = dirty_list \ {p}
      /\ UNCHANGED <<refs, stack, pending, generation>>
  BY DEF CleanDirty, mutatorVars
<1>i. ArraysInv /\ TypeOK /\ p \in dirty_list
  BY <1>u DEF HeapInv, ArraysInv, TodoPlaced
<1>a. Allocated' = Allocated
  BY <1>i, CleanDirtyArrays
<1>t. \A x \in Obj : generation[x] \in Nat /\ refs[x] \subseteq Obj
  BY <1>i, GensFacts DEF TypeOK
<1>1. DirtyAged'
  BY <1>u DEF HeapInv, DirtyAged, Marking
<1>2. NoYoungerChild'
  <2> SUFFICES ASSUME NEW x \in Allocated \ dirty_list', NEW c \in refs[x]
               PROVE  generation[x] <= generation[c] \/ Excused(x, c)
    BY <1>a, <1>u DEF NoYoungerChild, Excused
  <2>1. CASE x = p
    BY <2>1, <1>u, <1>t DEF HasYoungerChild, Obj
  <2>2. CASE x # p
    BY <2>2, <1>u DEF HeapInv, NoYoungerChild
  <2> QED BY <2>1, <2>2
<1>3. NoDangling' /\ NoYoungerSurvivor' /\ Tricolour'
  BY <1>u, <1>a DEF HeapInv, NoDangling, NoYoungerSurvivor, Tricolour
<1> QED BY <1>1, <1>2, <1>3 DEF HeapInv

\* A dirty PMC that grows older still has no clean referrer that is older; with up
\* to three generations it is of the oldest now.
LEMMA AgeDirtyHeap ==
  ASSUME HeapInv, ArraysInv', NEW p \in Pmc, AgeDirty(p) PROVE HeapInv'
<1>u. /\ phase = "cleanup" /\ phase' = "cleanup" /\ p \in todo /\ todo' = todo \ {p}
      /\ generation' = [generation EXCEPT ![p] = Older(@)]
      /\ UNCHANGED <<refs, stack, pending, objects, dirty_list, work_list>>
  BY DEF AgeDirty, mutatorVars, arrayVars
<1>i. ArraysInv /\ TypeOK /\ p \in dirty_list /\ p \in Obj
  BY <1>u DEF HeapInv, ArraysInv, TodoPlaced, Obj
<1>a. Allocated' = Allocated
  BY <1>u DEF Allocated
<1>t. /\ \A x \in Obj : generation[x] \in Nat /\ generation[x] \in Gens /\ refs[x] \subseteq Obj
      /\ Allocated \subseteq Obj /\ dirty_list \subseteq Obj
  BY <1>i, AllocatedFacts, GensFacts DEF TypeOK, Obj
<1>v. \A x \in Obj : generation'[x] = IF x = p THEN Older(generation[p]) ELSE generation[x]
  BY <1>u, <1>i DEF TypeOK
<1>o. /\ Older(generation[p]) \in Nat /\ Older(generation[p]) >= generation[p]
      /\ Older(generation[p]) > 0
      /\ MaxGenerations <= 3 => Older(generation[p]) = Oldest
  <2>1. generation[p] > 0 /\ generation[p] <= Oldest /\ generation[p] \in Nat
    BY <1>i, <1>t, GensFacts DEF HeapInv, DirtyAged
  <2>2. Oldest \in Nat /\ (MaxGenerations <= 3 => Oldest \in {1, 2})
    BY GensFacts DEF Oldest
  <2> QED BY <2>1, <2>2 DEF Older
<1>1. DirtyAged'
  <2>1. \A d \in dirty_list : generation'[d] > 0
    BY <1>o, <1>v, <1>t DEF HeapInv, DirtyAged
  <2>2. MaxGenerations <= 3 => \A d \in dirty_list \ todo' : generation'[d] = Oldest
    BY <1>o, <1>u, <1>v, <1>t DEF HeapInv, DirtyAged
  <2> QED BY <2>1, <2>2, <1>u DEF DirtyAged
<1>2. NoYoungerChild'
  <2> SUFFICES ASSUME NEW x \in Allocated \ dirty_list, NEW c \in refs[x]
               PROVE  generation'[x] <= generation'[c] \/ Excused(x, c)
    BY <1>a, <1>u DEF NoYoungerChild, Excused
  <2>1. x # p /\ x \in Obj /\ c \in Obj
    BY <1>i, <1>t
  <2>2. generation[x] <= generation[c] \/ Excused(x, c)
    BY <1>u DEF HeapInv, NoYoungerChild
  <2>3. generation'[x] = generation[x] /\ generation'[c] >= generation[c]
        /\ generation'[c] \in Nat
    BY <2>1, <1>v, <1>o, <1>t, GensFacts
  <2>4. generation[x] \in Nat /\ generation[c] \in Nat
    BY <2>1, <1>t
  <2> QED BY <2>2, <2>3, <2>4
<1>3. NoDangling' /\ NoYoungerSurvivor' /\ Tricolour'
  BY <1>u, <1>a DEF HeapInv, NoDangling, NoYoungerSurvivor, Tricolour
<1> QED BY <1>1, <1>2, <1>3 DEF HeapInv

LEMMA TraceRootsHeap ==
  ASSUME HeapInv, ArraysInv', TraceRoots PROVE HeapInv'
<1>u. /\ phase = "cleanup" /\ todo = {} /\ phase' = "dirty"
      /\ UNCHANGED <<refs, stack, pending, dirty_list, generation>>
  BY DEF TraceRoots, mutatorVars
<1>a. Allocated' = Allocated
  BY TraceRootsArrays DEF HeapInv
<1>1. DirtyAged'
  BY <1>u DEF HeapInv, DirtyAged
<1>2. NoYoungerChild'
  BY <1>u, <1>a DEF HeapInv, NoYoungerChild, Excused
<1>3. NoDangling' /\ NoYoungerSurvivor' /\ Tricolour'
  BY <1>u, <1>a DEF HeapInv, NoDangling, NoYoungerSurvivor, Tricolour
<1> QED BY <1>1, <1>2, <1>3 DEF HeapInv

\* After this step everything is either grey or has marked children.
LEMMA ProcessDirtyListHeap ==
  ASSUME HeapInv, ArraysInv', ProcessDirtyList PROVE HeapInv'
<1> DEFINE S == Children(dirty_list)
<1>u. /\ phase = "dirty" /\ phase' = "work" /\ ~Resurrects(S) /\ Mark(S)
      /\ todo' = todo \cup White(S)
      /\ UNCHANGED <<refs, stack, pending, dirty_list, generation, on_dirty_list,
                     need_write_barrier, gc_mark_runs>>
  BY DEF ProcessDirtyList, mutatorVars
<1>i. ArraysInv /\ TypeOK /\ dirty_list \subseteq Obj
  BY DEF HeapInv, ArraysInv, TypeOK, Obj
<1>a. Allocated' = Allocated
  BY <1>i, ProcessDirtyListArrays
<1>s. S \in SUBSET Obj /\ S \cap Pmc \subseteq Allocated
      /\ \A d \in dirty_list : refs[d] \subseteq S
  BY <1>i, <1>u DEF TypeOK, Children, Resurrects
<1> HIDE DEF S
<1>m. \A o \in S : Marked(o)'
  BY <1>s, <1>u, <1>i, MarkEffect
<1>w. work_list' \ todo' = {}
  BY <1>u, <1>i DEF Mark, ArraysInv, TodoPlaced
<1>1. DirtyAged'
  <2>1. MaxGenerations <= 3 => \A d \in dirty_list : generation[d] = Oldest
    BY <1>u, <1>i DEF HeapInv, DirtyAged, Marking, ArraysInv, TodoPlaced,
                      CheckSanity, InOneArray
  <2> QED BY <2>1, <1>u DEF HeapInv, DirtyAged
<1>2. NoYoungerChild'
  BY <1>u, <1>a DEF HeapInv, NoYoungerChild, Excused
<1>3. NoDangling' /\ NoYoungerSurvivor'
  BY <1>u, <1>a DEF HeapInv, NoDangling, NoYoungerSurvivor
<1>4. Tricolour'
  BY <1>u, <1>s, <1>m, <1>w DEF Tricolour
<1> QED BY <1>1, <1>2, <1>3, <1>4 DEF HeapInv

LEMMA ScanWorkHeap ==
  ASSUME HeapInv, ArraysInv', NEW p \in Pmc, ScanWork(p) PROVE HeapInv'
<1> DEFINE S == refs[p]
<1>u. /\ phase = "work" /\ phase' = "work" /\ p \in todo /\ ~Resurrects(S) /\ Mark(S)
      /\ todo' = (todo \ {p}) \cup White(S)
      /\ UNCHANGED <<refs, stack, pending, dirty_list, generation, on_dirty_list,
                     need_write_barrier, gc_mark_runs>>
  BY DEF ScanWork, mutatorVars
<1>i. /\ ArraysInv /\ TypeOK /\ dirty_list \subseteq Obj /\ work_list \subseteq Obj
      /\ \A x \in Obj : refs[x] \subseteq Obj
  BY DEF HeapInv, ArraysInv, TypeOK, Obj
<1>a. Allocated' = Allocated
  BY <1>i, ScanWorkArrays
<1>s. S \in SUBSET Obj /\ S \cap Pmc \subseteq Allocated
  BY <1>i, <1>u DEF Obj, Resurrects
<1>m. /\ \A o \in S : Marked(o)'
      /\ \A o \in Obj : Marked(o) => Marked(o)'
  BY <1>s, <1>u, <1>i, MarkEffect
<1>w. work_list' \ todo' \subseteq (work_list \ todo) \cup {p}
  BY <1>u DEF Mark
<1>1. DirtyAged'
  <2>1. MaxGenerations <= 3 => \A d \in dirty_list : generation[d] = Oldest
    BY <1>u, <1>i DEF HeapInv, DirtyAged, Marking, ArraysInv, TodoPlaced,
                      CheckSanity, InOneArray
  <2> QED BY <2>1, <1>u DEF HeapInv, DirtyAged
<1>2. NoYoungerChild'
  BY <1>u, <1>a DEF HeapInv, NoYoungerChild, Excused
<1>3. NoDangling' /\ NoYoungerSurvivor'
  BY <1>u, <1>a DEF HeapInv, NoDangling, NoYoungerSurvivor
<1>4. Tricolour'
  <2> SUFFICES ASSUME NEW q \in dirty_list \cup (work_list' \ todo'), NEW c \in refs[q]
               PROVE  Marked(c)'
    BY <1>u DEF Tricolour
  <2>1. CASE q = p
    BY <2>1, <1>m
  <2>2. CASE q \in dirty_list \cup (work_list \ todo)
    <3>1. Marked(c) /\ c \in Obj
      BY <2>2, <1>u, <1>i DEF HeapInv, Tricolour
    <3> QED BY <3>1, <1>m
  <2> QED BY <2>1, <2>2, <1>w
<1> QED BY <1>1, <1>2, <1>3, <1>4 DEF HeapInv

LEMMA SurvivingFacts ==
  \A o : o \in Surviving <=>
           o \in Allocated /\ \A g \in 0 .. sweeping : o \notin Dead(g)
BY DEF Surviving

LEMMA SurvivingFactsPrimed ==
  \A o : o \in Surviving' <=>
           o \in Allocated' /\ \A g \in 0 .. sweeping' : o \notin Dead(g)'
BY DEF Surviving

\* When marking is over, what the sweep will spare is what is marked, together
\* with the temporary PMCs, and whatever is marked has marked children: a clean
\* PMC too old to be collected has no younger ones.  What is marked and promoted
\* overtakes no child, since its dirty ones are older to begin with.
LEMMA RestoreWorkListHeap ==
  ASSUME HeapInv, NoneOvertakes, ArraysInv', RestoreWorkList PROVE HeapInv'
<1> DEFINE K == gen_to_collect
<1>u. /\ phase = "work" /\ todo = {} /\ phase' = "sweep" /\ sweeping' = K /\ work_list' = {}
      /\ UNCHANGED <<refs, stack, pending, filling, dirty_list, generation, live>>
  BY DEF RestoreWorkList, mutatorVars, flagVars
<1>i. /\ ArraysInv /\ TypeOK /\ FlagsMatchArrays' /\ InOneArray'
      /\ live \cap Pmc = work_list
  BY <1>u DEF HeapInv, ArraysInv, CheckSanity, LivePlaced, Marking
<1>a. Allocated' = Allocated
  BY <1>i, RestoreWorkListArrays
<1>k. K \in Gens /\ K \in Nat /\ K <= Oldest
  BY GenToCollect, GensFacts
<1> HIDE DEF K
<1>t. /\ \A x \in Obj : generation[x] \in Nat /\ generation[x] \in Gens
      /\ Allocated \subseteq Obj /\ \A x \in Allocated : refs[x] \subseteq Allocated
  BY <1>i, <1>u, AllocatedFacts, GensFacts DEF TypeOK, Obj, HeapInv, NoDangling
<1>d. \A x \in work_list : \A c \in refs[x] \cap dirty_list :
        generation[x] < generation[c] \/ generation[x] = Oldest
  BY <1>u DEF NoneOvertakes
<1>m. \A x : Marked(x) <=> (x \in live \/ x \in dirty_list \/ generation[x] > K)
  BY DEF Marked, K
<1>s. \A x \in Allocated : x \in Surviving' <=> Marked(x) \/ x \in Temporary
  <2> SUFFICES ASSUME NEW x \in Allocated
               PROVE  x \in Surviving' <=> Marked(x) \/ x \in Temporary
    OBVIOUS
  <2>1. \A g \in 0 .. K : x \in Dead(g)' <=>
          x \in objects'[g] /\ x \notin live /\ x \notin Temporary
    BY <1>u DEF Dead
  <2>2. x \in dirty_list => \A g \in Gens : x \notin objects'[g]
    BY <1>i, <1>u DEF InOneArray
  <2>3. \A g \in Gens : x \in objects'[g] => generation[x] = g
    BY <1>i, <1>u DEF FlagsMatchArrays
  <2>4. \A g \in 0 .. K : g \in Gens /\ g <= K /\ g \in Nat
    BY <1>k, GensFacts
  <2>5. ASSUME Marked(x) \/ x \in Temporary PROVE x \in Surviving'
    <3>1. \A g \in 0 .. K : x \notin Dead(g)'
      BY <2>1, <2>2, <2>3, <2>4, <2>5, <1>m, <1>k
    <3> QED BY <3>1, <1>a, <1>u, SurvivingFactsPrimed
  <2>6. ASSUME x \in Surviving', x \notin Temporary, x \notin dirty_list PROVE Marked(x)
    <3>1. PICK g \in Gens : x \in objects'[g]
      BY <2>6, <1>a, <1>u, AllocatedFactsPrimed
    <3>2. generation[x] = g /\ g \in Nat
      BY <3>1, <2>3, GensFacts
    <3>3. CASE g > K
      BY <3>2, <3>3, <1>m
    <3>4. CASE g <= K
      <4>1. g \in 0 .. K
        BY <3>2, <3>4, <1>k
      <4>2. x \notin Dead(g)'
        BY <4>1, <2>6, <1>u, SurvivingFactsPrimed
      <4> QED BY <4>1, <4>2, <3>1, <2>1, <2>6, <1>m
    <3> QED BY <3>2, <3>3, <3>4, <1>k
  <2> QED BY <2>5, <2>6, <1>m
<1>n. \A x \in Surviving' : \A c \in refs[x] : c \in Surviving'
  <2> SUFFICES ASSUME NEW x \in Surviving', NEW c \in refs[x] PROVE c \in Surviving'
    OBVIOUS
  <2>0. x \in Allocated /\ x \in Obj /\ c \in Allocated /\ c \in Obj
    BY <1>a, <1>t, SurvivingFactsPrimed
  <2> SUFFICES Marked(c)
    BY <2>0, <1>s
  <2>1. CASE x \in dirty_list \/ x \in work_list
    BY <2>1, <1>u DEF HeapInv, Tricolour
  <2>2. x \notin Temporary /\ x \notin Str
    BY <1>i, <2>0 DEF TypeOK, ArraysInv, TemporaryApart
  <2>3. CASE x \notin dirty_list /\ x \notin work_list
    <3>1. generation[x] > K
      BY <2>0, <2>2, <2>3, <1>s, <1>m, <1>i DEF Obj
    <3>2. CASE generation[x] <= generation[c]
      BY <3>1, <3>2, <2>0, <1>t, <1>k, <1>m
    <3>3. CASE Excused(x, c)
      BY <3>3, <1>u DEF Excused, HeapInv, ArraysInv, HeldMarked, Marking
    <3> QED BY <3>2, <3>3, <2>0, <2>3, <1>u DEF HeapInv, NoYoungerChild
  <2> QED BY <2>1, <2>3
<1>1. DirtyAged'
  BY <1>u DEF HeapInv, DirtyAged, Marking
<1>2. NoYoungerSurvivor'
  <2> SUFFICES ASSUME NEW x \in Surviving' \ dirty_list, NEW c \in refs[x]
               PROVE  Settling(x)' <= Settling(c)' \/ Excused(x, c)
    BY <1>u DEF NoYoungerSurvivor, Excused
  <2>0. x \in Allocated /\ x \in Obj /\ c \in Obj
    BY <1>a, <1>t, SurvivingFactsPrimed
  <2>1. \A y \in Obj : Settling(y)' = IF y \in dirty_list \/ generation[y] > K
                                     THEN generation[y] ELSE Older(generation[y])
    BY <1>u DEF Settling, Older
  <2>2. generation[x] <= generation[c] \/ Excused(x, c)
    BY <2>0, <1>u DEF HeapInv, NoYoungerChild
  <2>3. ASSUME generation[x] <= generation[c] PROVE Settling(x)' <= Settling(c)'
    <3>1. generation[x] \in Nat /\ generation[c] \in Nat /\ Oldest \in Nat
          /\ generation[x] <= Oldest /\ generation[c] <= Oldest
      BY <2>0, <1>t, GensFacts
    <3>2. x \notin dirty_list
      OBVIOUS
    <3>3. CASE generation[x] > K
      BY <3>1, <3>2, <3>3, <2>0, <2>1, <2>3, <1>k
    <3>4. CASE generation[x] <= K
      <4>1. x \notin Temporary /\ x \notin Str
        BY <1>i, <2>0 DEF TypeOK, ArraysInv, TemporaryApart
      <4>2. x \in work_list
        BY <3>1, <3>2, <3>4, <4>1, <2>0, <1>s, <1>m, <1>k, <1>i DEF Obj
      <4>3. Settling(x)' = Older(generation[x])
        BY <3>1, <3>2, <3>4, <2>0, <2>1, <1>k
      <4>4. CASE c \in dirty_list
        <5>1. generation[x] < generation[c] \/ generation[x] = Oldest
          BY <4>2, <4>4, <1>d
        <5>2. Settling(c)' = generation[c]
          BY <4>4, <2>0, <2>1
        <5> QED BY <5>1, <5>2, <4>3, <3>1, <2>3 DEF Older
      <4>5. CASE c \notin dirty_list /\ generation[c] > K
        <5>1. Settling(c)' = generation[c]
          BY <4>5, <2>0, <2>1
        <5> QED BY <5>1, <4>3, <4>5, <3>1, <3>4, <1>k DEF Older
      <4>6. CASE c \notin dirty_list /\ ~(generation[c] > K)
        <5>1. Settling(c)' = Older(generation[c])
          BY <4>6, <2>0, <2>1
        <5> QED BY <5>1, <4>3, <3>1, <2>3 DEF Older
      <4> QED BY <4>4, <4>5, <4>6
    <3> QED BY <3>1, <3>3, <3>4, <1>k
  <2> QED BY <2>2, <2>3
<1>3. NoYoungerChild' /\ NoDangling' /\ Tricolour'
  BY <1>u, <1>n DEF NoYoungerChild, NoDangling, Tricolour
<1> QED BY <1>1, <1>2, <1>3 DEF HeapInv

\* A header that survives the sweep of its generation settles there and then:
\* the arrays of this generation and of the next are done with.
LEMMA SweepGenerationHeap ==
  ASSUME HeapInv, phase = "sweep", NEW g \in Gens, g = sweeping, SweepGeneration(g),
         UNCHANGED <<roots, stack, pending, filling, work_list, todo, gc_mark_runs>>
  PROVE  /\ Allocated' = Allocated \ Dead(g)
         /\ \A x \in Surviving :
              /\ x \in Allocated' /\ x \in Obj
              /\ refs'[x] = refs[x]
              /\ x \in dirty_list => x \in dirty_list' /\ generation'[x] = generation[x]
              /\ x \in objects[g] => generation'[x] = Older(g) /\ Settling(x) = Older(g)
              /\ \A h \in Gens \ {g} : x \in objects[h] =>
                   generation'[x] = h /\ (x \notin dirty_list') /\ generation[x] = h
         /\ \A x \in Surviving \ dirty_list : \E h \in Gens : x \in objects[h]
         /\ \A d \in dirty_list' : generation'[d] > 0
<1>i. ArraysInv /\ TypeOK /\ InOneArray /\ FlagsMatchArrays /\ work_list = {}
  BY DEF HeapInv, ArraysInv, CheckSanity, WorkListPlaced
<1>f. /\ generation' \in [Obj -> Gens]
      /\ \A o \in Obj : generation'[o] = IF o \in Promoted(g) THEN g + 1
                                         ELSE IF o \in Dead(g) THEN 0
                                         ELSE generation[o]
      /\ \A o \in Obj : refs'[o] = IF o \in Dead(g) THEN {} ELSE refs[o]
      /\ Dead(g) \subseteq objects[g] \ live /\ Promoted(g) \subseteq objects[g]
      /\ Dead(g) \cap Promoted(g) = {}
      /\ Soiled(g) \subseteq Promoted(g) \cap Pmc
      /\ g < Oldest => Promoted(g) = objects[g] \ Dead(g)
  BY <1>i, SweepFacts
<1>a. Allocated' = Allocated \ Dead(g)
  BY <1>i, SweepGenerationArrays
<1>u. dirty_list' = dirty_list \cup Soiled(g)
  BY DEF SweepGeneration
<1>g. g \in Nat /\ g <= Oldest /\ Oldest \in Nat /\ g \in 0 .. sweeping
  BY GensFacts
<1>t. Allocated \subseteq Obj /\ \A h \in Gens : objects[h] \subseteq Obj
  BY <1>i, AllocatedFacts DEF TypeOK, Obj
<1>1. ASSUME NEW x \in Surviving
      PROVE  /\ x \in Allocated' /\ x \in Obj
             /\ refs'[x] = refs[x]
             /\ x \in dirty_list => x \in dirty_list' /\ generation'[x] = generation[x]
             /\ x \in objects[g] => generation'[x] = Older(g) /\ Settling(x) = Older(g)
             /\ \A h \in Gens \ {g} : x \in objects[h] =>
                  generation'[x] = h /\ (x \notin dirty_list') /\ generation[x] = h
  <2>1. x \in Allocated /\ x \notin Dead(g) /\ x \in Obj
    BY <1>g, <1>t, SurvivingFacts
  <2>2. x \in dirty_list => x \in dirty_list' /\ generation'[x] = generation[x]
    BY <2>1, <1>i, <1>f, <1>u DEF InOneArray
  <2>3. ASSUME x \in objects[g] PROVE generation'[x] = Older(g) /\ Settling(x) = Older(g)
    <3>1. generation[x] = g /\ x \notin dirty_list
      BY <2>3, <1>i DEF InOneArray, FlagsMatchArrays
    <3>2. Settling(x) = Older(g)
      BY <3>1, <1>g DEF Settling
    <3>3. generation'[x] = Older(g)
      BY <2>1, <2>3, <3>1, <1>f, <1>g DEF Older, Promoted
    <3> QED BY <3>2, <3>3
  <2>4. ASSUME NEW h \in Gens \ {g}, x \in objects[h]
        PROVE  generation'[x] = h /\ x \notin dirty_list' /\ generation[x] = h
    BY <2>1, <2>4, <1>i, <1>f, <1>u DEF InOneArray, FlagsMatchArrays
  <2> QED BY <2>1, <2>2, <2>3, <2>4, <1>a, <1>f
<1>2. \A x \in Surviving \ dirty_list : \E h \in Gens : x \in objects[h]
  BY <1>i, SurvivingFacts, AllocatedFacts
<1>3. ASSUME NEW d \in dirty_list' PROVE generation'[d] > 0
  <2>1. CASE d \in dirty_list
    <3>1. d \in Obj /\ d \notin Promoted(g) /\ d \notin Dead(g)
      BY <2>1, <1>i, <1>f DEF InOneArray, TypeOK, Obj
    <3> QED BY <2>1, <3>1, <1>f DEF HeapInv, DirtyAged
  <2>2. CASE d \in Soiled(g)
    BY <2>2, <1>f, <1>g, <1>t
  <2> QED BY <2>1, <2>2, <1>u
<1> QED BY <1>a, <1>1, <1>2, <1>3

LEMMA SweepHeap ==
  ASSUME HeapInv, ArraysInv', Sweep PROVE HeapInv'
<1> DEFINE g == sweeping
<1>u. /\ phase = "sweep" /\ phase' = "sweep" /\ g > 0 /\ sweeping' = g - 1
      /\ SweepGeneration(g)
      /\ UNCHANGED <<roots, stack, pending, filling, work_list, todo, gc_mark_runs>>
  BY DEF Sweep
<1>i. ArraysInv /\ TypeOK /\ InOneArray /\ FlagsMatchArrays /\ g \in Gens
  BY DEF HeapInv, ArraysInv, CheckSanity, TypeOK
<1>n. g \in Nat /\ g <= Oldest /\ \A h \in Gens : h \in Nat
  BY <1>i, GensFacts
<1>h. /\ Allocated' = Allocated \ Dead(g)
      /\ \A x \in Surviving :
           /\ x \in Allocated' /\ x \in Obj
           /\ refs'[x] = refs[x]
           /\ x \in dirty_list => x \in dirty_list' /\ generation'[x] = generation[x]
           /\ x \in objects[g] => generation'[x] = Older(g) /\ Settling(x) = Older(g)
           /\ \A h \in Gens \ {g} : x \in objects[h] =>
                generation'[x] = h /\ (x \notin dirty_list') /\ generation[x] = h
      /\ \A x \in Surviving \ dirty_list : \E h \in Gens : x \in objects[h]
      /\ \A d \in dirty_list' : generation'[d] > 0
  BY <1>u, <1>i, SweepGenerationHeap
<1>d. \A h \in 0 .. g - 1 : Dead(h)' = Dead(h)
  <2> SUFFICES ASSUME NEW h \in 0 .. g - 1 PROVE Dead(h)' = Dead(h)
    OBVIOUS
  <2>0. h \in Gens /\ h # g /\ h # g + 1
    BY <1>n, GensFacts
  <2>1. objects'[h] = objects[h]
    BY <2>0, <1>i, <1>u, SweepFacts
  <2>2. live' = live \ objects[g] /\ objects[h] \cap objects[g] = {}
    BY <2>0, <1>i, <1>u DEF SweepGeneration, InOneArray
  <2> QED BY <2>1, <2>2 DEF Dead
<1>s. \A x : x \in Surviving' <=> x \in Surviving
  <2>1. \A h : h \in 0 .. g <=> h \in 0 .. g - 1 \/ h = g
    BY <1>n
  <2> QED BY <2>1, <1>d, <1>h, <1>u, SurvivingFacts, SurvivingFactsPrimed
<1>e. \A x \in Surviving : Settling(x)' = Settling(x)
  <2> SUFFICES ASSUME NEW x \in Surviving PROVE Settling(x)' = Settling(x)
    OBVIOUS
  <2>0. Settling(x)' = IF x \in dirty_list' \/ generation'[x] > g - 1
                         THEN generation'[x] ELSE Older(generation'[x])
    BY <1>u DEF Settling, Older
  <2>1. CASE x \in dirty_list
    <3>1. Settling(x)' = generation'[x]
      BY <2>0, <2>1, <1>h
    <3> QED BY <2>1, <3>1, <1>h DEF Settling
  <2>2. CASE x \in objects[g]
    <3>1. Older(g) \in Nat /\ Older(g) > g - 1
      BY <1>n, GensFacts DEF Older
    <3>2. Settling(x)' = Older(g)
      BY <2>0, <2>2, <3>1, <1>h
    <3> QED BY <2>2, <3>2, <1>h
  <2>3. ASSUME NEW h \in Gens \ {g}, x \in objects[h], x \notin dirty_list
        PROVE  Settling(x)' = Settling(x)
    <3>1. generation'[x] = h /\ generation[x] = h /\ x \notin dirty_list' /\ h \in Nat
      BY <2>3, <1>h, <1>n
    <3>2. Settling(x)' = IF h > g - 1 THEN h ELSE Older(h)
      BY <2>0, <3>1
    <3>3. Settling(x) = IF h > g THEN h ELSE Older(h)
      BY <2>3, <3>1 DEF Settling
    <3>4. h > g - 1 <=> h > g
      BY <2>3, <3>1, <1>n
    <3> QED BY <3>2, <3>3, <3>4
  <2> QED BY <2>1, <2>2, <2>3, <1>h
<1>1. DirtyAged'
  BY <1>u, <1>h DEF DirtyAged, Marking
<1>2. NoYoungerSurvivor'
  <2> SUFFICES ASSUME NEW x \in Surviving' \ dirty_list', NEW c \in refs'[x]
               PROVE  Settling(x)' <= Settling(c)' \/ Excused(x, c)'
    BY DEF NoYoungerSurvivor
  <2>1. x \in Surviving \ dirty_list /\ c \in refs[x]
    BY <1>s, <1>h
  <2>2. c \in Surviving
    BY <2>1, <1>u DEF HeapInv, NoDangling
  <2>3. Settling(x) <= Settling(c) \/ Excused(x, c)
    BY <2>1, <1>u DEF HeapInv, NoYoungerSurvivor
  <2> QED BY <2>1, <2>2, <2>3, <1>e, <1>u DEF Excused
<1>3. NoDangling'
  <2>1. \A x \in Surviving' : refs'[x] \subseteq Surviving'
    BY <1>s, <1>h, <1>u DEF HeapInv, NoDangling
  <2> QED BY <2>1, <1>u DEF NoDangling
<1>4. NoYoungerChild' /\ Tricolour'
  BY <1>u DEF NoYoungerChild, Tricolour
<1> QED BY <1>1, <1>2, <1>3, <1>4 DEF HeapInv

LEMMA SweepNurseryHeap ==
  ASSUME HeapInv, ArraysInv', SweepNursery PROVE HeapInv'
<1>u. /\ phase = "sweep" /\ phase' = "mutator" /\ sweeping = 0
      /\ SweepGeneration(0)
      /\ UNCHANGED <<roots, stack, pending, filling, work_list, todo, gc_mark_runs>>
  BY DEF SweepNursery
<1>i. ArraysInv /\ TypeOK /\ 0 \in Gens /\ \A h \in Gens : h \in Nat
  BY GensFacts DEF HeapInv, ArraysInv
<1>h. /\ Allocated' = Allocated \ Dead(0)
      /\ \A x \in Surviving :
           /\ x \in Allocated' /\ x \in Obj
           /\ refs'[x] = refs[x]
           /\ x \in dirty_list => x \in dirty_list' /\ generation'[x] = generation[x]
           /\ x \in objects[0] => generation'[x] = Older(0) /\ Settling(x) = Older(0)
           /\ \A h \in Gens \ {0} : x \in objects[h] =>
                generation'[x] = h /\ (x \notin dirty_list') /\ generation[x] = h
      /\ \A x \in Surviving \ dirty_list : \E h \in Gens : x \in objects[h]
      /\ \A d \in dirty_list' : generation'[d] > 0
  BY <1>u, <1>i, SweepGenerationHeap
<1>s. \A x : x \in Allocated' <=> x \in Surviving
  <2>1. \A h : h \in 0 .. 0 <=> h = 0
    OBVIOUS
  <2> QED BY <2>1, <1>h, <1>u, SurvivingFacts
<1>e. \A x \in Surviving : generation'[x] = Settling(x)
  <2> SUFFICES ASSUME NEW x \in Surviving PROVE generation'[x] = Settling(x)
    OBVIOUS
  <2>1. CASE x \in dirty_list
    BY <2>1, <1>h DEF Settling
  <2>2. CASE x \in objects[0]
    BY <2>2, <1>h
  <2>3. ASSUME NEW h \in Gens \ {0}, x \in objects[h] PROVE generation'[x] = Settling(x)
    <3>1. generation'[x] = h /\ generation[x] = h /\ h > 0
      BY <2>3, <1>h, <1>i
    <3> QED BY <3>1, <1>u DEF Settling
  <2> QED BY <2>1, <2>2, <2>3, <1>h
<1>1. DirtyAged'
  BY <1>u, <1>h DEF DirtyAged, Marking
<1>2. NoYoungerChild'
  <2> SUFFICES ASSUME NEW x \in Allocated' \ dirty_list', NEW c \in refs'[x]
               PROVE  generation'[x] <= generation'[c] \/ Excused(x, c)'
    BY DEF NoYoungerChild
  <2>1. x \in Surviving \ dirty_list /\ c \in refs[x]
    BY <1>s, <1>h
  <2>2. c \in Surviving
    BY <2>1, <1>u DEF HeapInv, NoDangling
  <2>3. Settling(x) <= Settling(c) \/ Excused(x, c)
    BY <2>1, <1>u DEF HeapInv, NoYoungerSurvivor
  <2> QED BY <2>1, <2>2, <2>3, <1>e, <1>u DEF Excused
<1>3. NoDangling'
  <2>1. \A x \in Allocated' : refs'[x] \subseteq Allocated'
    BY <1>s, <1>h, <1>u DEF HeapInv, NoDangling
  <2> QED BY <2>1, <1>u DEF NoDangling
<1>4. NoYoungerSurvivor' /\ Tricolour'
  BY <1>u DEF NoYoungerSurvivor, Tricolour
<1> QED BY <1>1, <1>2, <1>3, <1>4 DEF HeapInv

LEMMA StutterHeap ==
  ASSUME HeapInv, ArraysInv', UNCHANGED vars PROVE HeapInv'
<1> USE DEF vars, mutatorVars, arrayVars, flagVars, runVars, blockVars
<1>a. Allocated' = Allocated
  BY DEF Allocated
<1>g. gen_to_collect' = gen_to_collect
  BY GenToCollectStable
<1>1. DirtyAged' /\ NoYoungerChild'
  BY <1>a DEF HeapInv, DirtyAged, NoYoungerChild, Excused
<1>2. Tricolour'
  BY <1>g DEF HeapInv, Tricolour, Marked
<1>d. \A h : Dead(h)' = Dead(h)
  BY DEF Dead
<1>s. Surviving' = Surviving
  BY <1>a, <1>d DEF Surviving
<1>3. NoDangling'
  BY <1>a, <1>s DEF HeapInv, NoDangling
<1>e. \A x : Settling(x)' = Settling(x)
  BY DEF Settling, Older
<1>4. NoYoungerSurvivor'
  BY <1>s, <1>e DEF HeapInv, NoYoungerSurvivor, Excused
<1> QED BY <1>1, <1>2, <1>3, <1>4 DEF HeapInv

LEMMA NextHeap ==
  ASSUME HeapInv, Untroubled, [Next]_vars PROVE HeapInv'
<1>a. ArraysInv /\ ArraysInv' /\ NoneOvertakes /\ FillingYoung
  BY NextArrays DEF HeapInv, Untroubled
<1>1. ASSUME NEW o \in Obj,
             AllocateHeader(o) \/ Load(o) \/ Drop(o) \/ SetRoot(o) \/ ClearRoot(o)
      PROVE  HeapInv'
  BY <1>1, <1>a, AllocateHeaderHeap, HoldHeap
<1>2. ASSUME NEW p \in Pmc,
             VtableWrite(p) \/ FinishWrite(p) \/ FinishClone(p) \/ FreeTemporary(p)
      PROVE  HeapInv'
  BY <1>2, <1>a, VtableWriteHeap, FinishWriteHeap, FreeTemporaryHeap
<1>3. ASSUME NEW p \in Pmc, FreeDirtyTemporary(p) PROVE HeapInv'
  BY <1>3, <1>a, FrameHeap DEF FreeDirtyTemporary, Confess, flagVars
<1>4. ASSUME NEW p \in Pmc, NEW c \in Obj, FillClone(p, c) PROVE HeapInv'
  BY <1>4, <1>a, FillCloneHeap
<1>5. CASE BlockMark \/ UnblockMark \/ BlockSweep \/ UnblockSweep
  BY <1>5, <1>a, FrameHeap
  DEF BlockMark, UnblockMark, BlockSweep, UnblockSweep, flagVars, runVars
<1>6. ASSUME NEW p \in Pmc, CleanDirty(p) \/ AgeDirty(p) \/ ScanWork(p) PROVE HeapInv'
  BY <1>6, <1>a, CleanDirtyHeap, AgeDirtyHeap, ScanWorkHeap
<1>7. CASE StartRun \/ TraceRoots \/ ProcessDirtyList \/ RestoreWorkList
  BY <1>7, <1>a, StartRunHeap, TraceRootsHeap, ProcessDirtyListHeap, RestoreWorkListHeap
<1>8. CASE Sweep \/ SweepNursery
  BY <1>8, <1>a, SweepHeap, SweepNurseryHeap
<1>9. CASE MarkDeadObject
  BY <1>9, <1>a, FrameHeap DEF MarkDeadObject, Confess, flagVars
<1>10. CASE UNCHANGED vars
  BY <1>10, <1>a, StutterHeap
<1>11. CASE Program
  BY <1>11, <1>1, <1>2, <1>3, <1>4, <1>5 DEF Program
<1>12. CASE Collector
  BY <1>12, <1>6, <1>7, <1>8, <1>9 DEF Collector
<1> QED BY <1>10, <1>11, <1>12 DEF Next

\* With up to three generations nothing is overtaken, and a program whose stores
\* are all followed by the barrier pmc2c appends fills no clone: HeapInv rules out
\* the troubles by itself.
THEOREM UntroubledUpToThree ==
  ASSUME MaxGenerations <= 3, CloneTarget = {} PROVE Spec => [](Untroubled /\ HeapInv)
<1>1. Init => HeapInv
  BY InitHeap
<1>2. HeapInv => Untroubled
  <2> SUFFICES ASSUME HeapInv PROVE NoneOvertakes /\ FillingYoung
    BY DEF Untroubled
  <2>1. FillingYoung
    BY DEF FillingYoung, HeapInv, ArraysInv, HeldAllocated
  <2>2. ASSUME phase = "work", NEW o \in work_list, NEW c \in refs[o] \cap dirty_list
        PROVE  generation[o] < generation[c] \/ generation[o] = Oldest
    <3>1. ArraysInv /\ TypeOK /\ InOneArray /\ todo \subseteq work_list
      BY <2>2 DEF HeapInv, ArraysInv, CheckSanity, TodoPlaced
    <3>2. generation[c] = Oldest
      BY <2>2, <3>1 DEF HeapInv, DirtyAged, Marking, InOneArray
    <3>3. generation[o] \in Gens
      BY <3>1, <2>2 DEF TypeOK, Obj
    <3> QED BY <3>2, <3>3, GensFacts
  <2> QED BY <2>1, <2>2 DEF NoneOvertakes
<1>3. HeapInv /\ [Next]_vars => HeapInv'
  BY <1>2, NextHeap
<1> QED BY <1>1, <1>2, <1>3, PTL DEF Spec

\* The inductive invariant of the marking, with two to four generations and any
\* clone targets: it holds as long as no marked PMC overtakes a dirty one, and no
\* clone is filled on when it has grown old.
THEOREM HeapInvariant == Spec /\ []Untroubled => []HeapInv
<1>1. Init => HeapInv
  BY InitHeap
<1>2. HeapInv /\ Untroubled /\ [Next]_vars => HeapInv'
  BY NextHeap
<1> QED BY <1>1, <1>2, PTL DEF Spec

\* The generational invariant of gc_gms.c: outside the dirty list, and once the
\* barrier has run, no PMC has a younger child, but for the two troubles.
THEOREM OldToYoungAlways == Spec /\ []Untroubled => []OldToYoung
<1>1. HeapInv => OldToYoung
  BY DEF HeapInv, NoYoungerChild, OldToYoung, Settled, Excused
<1> QED BY <1>1, HeapInvariant, PTL

\* No root and no header in use leads to a freed header: the two troubles are the
\* only ways in which the collector comes to free what the program, or another
\* header, still refers to.
THEOREM ReachableAllocatedAlways == Spec /\ []Untroubled => []ReachableAllocated
<1>1. HeapInv => ReachableAllocated
  BY DEF HeapInv, ArraysInv, HeldAllocated, NoDangling, ReachableAllocated, Children
<1> QED BY <1>1, HeapInvariant, PTL

-----------------------------------------------------------------------------
(***************************************************************************)
(* The collector implements the heap of module Heap, and what follows from *)
(* its invariants for what the marking reaches.                            *)
(***************************************************************************)

HeapRoots == roots \cup stack

\* The closure of a set that contains the roots contains what they reach.
LEMMA ReachableWithin ==
  ASSUME NEW S \in SUBSET Obj, HeapRoots \subseteq S, \A o \in S : refs[o] \subseteq S
  PROVE  AbstractHeap!Reachable \subseteq S
BY DEF AbstractHeap!Reachable, AbstractHeap!Closed, HeapRoots

\* The roots are reachable, and so is what a reachable object refers to.
LEMMA ReachableClosed ==
  ASSUME TypeOK
  PROVE  /\ HeapRoots \subseteq AbstractHeap!Reachable
         /\ \A o \in AbstractHeap!Reachable : refs[o] \subseteq AbstractHeap!Reachable
<1>1. HeapRoots \subseteq AbstractHeap!Reachable
  BY DEF AbstractHeap!Reachable, HeapRoots, TypeOK
<1>2. ASSUME NEW o \in AbstractHeap!Reachable, NEW c \in refs[o]
      PROVE  c \in AbstractHeap!Reachable
  <2>1. o \in Obj /\ c \in Obj
    BY DEF AbstractHeap!Reachable, TypeOK
  <2>2. ASSUME NEW S \in SUBSET Obj, HeapRoots \subseteq S, AbstractHeap!Closed(S)
        PROVE  c \in S
    <3>1. o \in S
      BY <2>2 DEF AbstractHeap!Reachable, HeapRoots
    <3> QED BY <3>1, <2>2 DEF AbstractHeap!Closed
  <2> QED BY <2>1, <2>2 DEF AbstractHeap!Reachable, HeapRoots
<1> QED BY <1>1, <1>2

\* During the sweep, what is reachable is among what will survive it.
LEMMA ReachableSurvives ==
  ASSUME HeapInv, phase = "sweep" PROVE AbstractHeap!Reachable \subseteq Surviving
<1>i. ArraysInv /\ TypeOK
  BY DEF HeapInv, ArraysInv
<1>1. Surviving \in SUBSET Obj
  BY <1>i, SurvivingFacts, AllocatedFacts DEF TypeOK, Obj
<1>2. HeapRoots \subseteq Surviving
  <2> SUFFICES ASSUME NEW o \in HeapRoots, NEW g \in 0 .. sweeping, o \in Dead(g)
               PROVE  FALSE
    BY <1>i, SurvivingFacts DEF ArraysInv, HeldAllocated, HeapRoots
  <2> QED BY <1>i DEF ArraysInv, HeldMarked, Dead, HeapRoots
<1>3. \A o \in Surviving : refs[o] \subseteq Surviving
  BY DEF HeapInv, NoDangling
<1> QED BY <1>1, <1>2, <1>3, ReachableWithin

\* The marking is complete when the sweep begins: no reachable header is dead in
\* a generation that is still to be swept, but for the two troubles.
THEOREM MarkCompleteAlways == Spec /\ []Untroubled => []MarkComplete
<1>1. HeapInv => MarkComplete
  <2> SUFFICES ASSUME HeapInv, phase = "sweep", NEW g \in 0 .. sweeping,
                      NEW o \in AbstractHeap!Reachable, o \in Dead(g)
               PROVE  FALSE
    BY DEF MarkComplete
  <2>1. o \in Surviving
    BY ReachableSurvives
  <2> QED BY <2>1, SurvivingFacts
<1> QED BY <1>1, HeapInvariant, PTL

\* A temporary that is in use is held by its owner, and is not dirty.
TemporaryOwned == Temporary \cap Allocated \subseteq stack /\ Temporary \cap dirty_list = {}

LEMMA OwnedStep ==
  ASSUME ArraysInv, TemporaryBrief, TemporaryOwned, [Next]_vars PROVE TemporaryOwned'
<1>i. /\ TypeOK /\ CheckSanity /\ Temporary \cap (roots \cup pending \cup filling) = {}
      /\ pending \cup filling \subseteq Allocated
  BY DEF ArraysInv, TemporaryApart, HeldAllocated
<1>k. ASSUME Allocated' \subseteq Allocated, dirty_list' \subseteq dirty_list,
             Temporary \cap stack \subseteq stack'
      PROVE  TemporaryOwned'
  BY <1>k DEF TemporaryOwned
<1>1. ASSUME NEW o \in Obj, AllocateHeader(o) PROVE TemporaryOwned'
  <2>1. Allocated' = Allocated \cup {o}
    BY <1>1, AllocateHeaderArrays
  <2> QED BY <1>1, <2>1 DEF AllocateHeader, TemporaryOwned
<1>2. ASSUME NEW o \in Obj, Load(o) \/ Drop(o) \/ SetRoot(o) \/ ClearRoot(o)
      PROVE  TemporaryOwned'
  <2>1. UNCHANGED arrayVars /\ Temporary \cap stack \subseteq stack'
    BY <1>2 DEF Load, Drop, SetRoot, ClearRoot
  <2> QED BY <2>1, <1>k DEF arrayVars, Allocated
<1>3. ASSUME NEW p \in Pmc, NEW c \in Obj,
             VtableWrite(p) \/ FillClone(p, c) \/ FreeDirtyTemporary(p)
      PROVE  TemporaryOwned'
  <2>1. UNCHANGED <<arrayVars, stack>>
    BY <1>3 DEF VtableWrite, FillClone, FreeDirtyTemporary, Confess, mutatorVars
  <2> QED BY <2>1, <1>k DEF arrayVars, Allocated
<1>4. ASSUME NEW p \in Pmc, FinishWrite(p) \/ FinishClone(p) PROVE TemporaryOwned'
  <2>1. /\ phase = "mutator" /\ p \in pending \cup filling /\ WriteBarrier(p)
        /\ UNCHANGED <<stack, runVars>>
    BY <1>4 DEF FinishWrite, FinishClone
  <2>2. Allocated' = Allocated /\ dirty_list' \subseteq dirty_list \cup {p}
    BY <1>i, <2>1, WriteBarrierArrays
  <2> QED BY <1>i, <2>1, <2>2 DEF TemporaryOwned
<1>5. ASSUME NEW p \in Pmc, FreeTemporary(p) PROVE TemporaryOwned'
  <2>1. Allocated' = Allocated \ {p} /\ stack' = stack \ {p} /\ dirty_list' = dirty_list
    BY <1>5, FreeTemporaryArrays DEF FreeTemporary
  <2> QED BY <2>1 DEF TemporaryOwned
<1>6. CASE BlockMark \/ UnblockMark \/ BlockSweep \/ UnblockSweep \/ MarkDeadObject
           \/ UNCHANGED vars
  <2>1. UNCHANGED <<arrayVars, stack>>
    BY <1>6 DEF BlockMark, UnblockMark, BlockSweep, UnblockSweep, MarkDeadObject, Confess,
                vars, mutatorVars
  <2> QED BY <2>1, <1>k DEF arrayVars, Allocated
<1>7. ASSUME NEW p \in Pmc, CleanDirty(p) \/ AgeDirty(p) \/ ScanWork(p)
      PROVE  TemporaryOwned'
  <2>1. Allocated' = Allocated
    BY <1>7, CleanDirtyArrays, AgeDirtyArrays, ScanWorkArrays
  <2>2. stack' = stack /\ dirty_list' \subseteq dirty_list
    BY <1>7 DEF CleanDirty, AgeDirty, ScanWork, mutatorVars, arrayVars
  <2> QED BY <2>1, <2>2, <1>k
<1>8. CASE StartRun \/ TraceRoots \/ ProcessDirtyList \/ RestoreWorkList
  <2>1. Allocated' = Allocated
    BY <1>8, StartRunArrays, TraceRootsArrays, ProcessDirtyListArrays, RestoreWorkListArrays
  <2>2. stack' = stack /\ dirty_list' = dirty_list
    BY <1>8 DEF StartRun, TraceRoots, ProcessDirtyList, RestoreWorkList, mutatorVars, arrayVars
  <2> QED BY <2>1, <2>2, <1>k
<1>9. CASE Sweep \/ SweepNursery
  <2> DEFINE g == sweeping
  <2>1. /\ phase = "sweep" /\ SweepGeneration(g) /\ g \in Gens
        /\ UNCHANGED <<roots, stack, pending, filling, work_list, todo, gc_mark_runs>>
    BY <1>9, <1>i DEF Sweep, SweepNursery, TypeOK
  <2>2. Allocated' = Allocated \ Dead(g)
    BY <2>1, SweepGenerationArrays
  <2>3. Temporary \cap Allocated = {}
    BY <2>1 DEF TemporaryOwned, TemporaryBrief, Collecting
  <2>4. dirty_list' \subseteq Allocated'
    BY AllocatedFactsPrimed
  <2> QED BY <2>2, <2>3, <2>4 DEF TemporaryOwned
<1>10. CASE Program
  <2>1. Pmc \subseteq Obj
    BY DEF Obj
  <2>2. \A p \in Pmc : VtableWrite(p) \/ FreeDirtyTemporary(p) => TemporaryOwned'
    BY <2>1, <1>3
  <2> QED BY <1>10, <2>2, <1>1, <1>2, <1>3, <1>4, <1>5, <1>6 DEF Program
<1>11. CASE Collector
  BY <1>11, <1>6, <1>7, <1>8, <1>9 DEF Collector
<1> QED BY <1>6, <1>10, <1>11 DEF Next

\* No assertion fails, whatever the number of generations, as long as the two
\* troubles do not come about and no collection comes while a temporary is in use:
\* the marking never comes upon a freed header, and no temporary is freed dirty.
THEOREM NeverConfessesUntroubled ==
  Spec /\ []Untroubled /\ []TemporaryBrief => []NeverConfesses
<1>1. Init => NeverConfesses
  BY DEF Init, NeverConfesses
<1>o. Init => TemporaryOwned
  <2>1. Init => Allocated = {}
    BY AllocatedFacts DEF Init
  <2> QED BY <2>1 DEF Init, TemporaryOwned
<1>s. HeapInv /\ TemporaryBrief /\ TemporaryOwned /\ [Next]_vars => TemporaryOwned'
  BY OwnedStep DEF HeapInv
<1>2. HeapInv /\ TemporaryOwned /\ NeverConfesses /\ [Next]_vars => NeverConfesses'
  <2> SUFFICES ASSUME HeapInv, TemporaryOwned, NeverConfesses, [Next]_vars
               PROVE  NeverConfesses'
    OBVIOUS
  <2>1. ASSUME NEW p \in Pmc, FreeDirtyTemporary(p) PROVE FALSE
    BY <2>1 DEF FreeDirtyTemporary, TemporaryOwned, HeapInv, ArraysInv, CheckSanity,
                FlagsMatchArrays
  <2>2. CASE MarkDeadObject
    <3>1. /\ dirty_list \subseteq Allocated
          /\ phase = "work" => todo \subseteq Allocated
      BY AllocatedFacts DEF HeapInv, ArraysInv, TodoPlaced
    <3>2. phase # "sweep" => \A o \in Allocated : refs[o] \subseteq Allocated
      BY DEF HeapInv, NoDangling
    <3>3. ~Resurrects(Children(dirty_list)) \/ phase = "sweep"
      BY <3>1, <3>2 DEF Resurrects, Children
    <3>4. ~Resurrects(Children(todo)) \/ phase # "work"
      BY <3>1, <3>2 DEF Resurrects, Children
    <3> QED BY <2>2, <3>3, <3>4 DEF MarkDeadObject
  <2>3. ASSUME NEW o \in Obj,
               AllocateHeader(o) \/ Load(o) \/ Drop(o) \/ SetRoot(o) \/ ClearRoot(o)
        PROVE  NeverConfesses'
    BY <2>3 DEF AllocateHeader, Load, Drop, SetRoot, ClearRoot, NeverConfesses, runVars
  <2>4. ASSUME NEW p \in Pmc,
               VtableWrite(p) \/ FinishWrite(p) \/ FinishClone(p) \/ FreeTemporary(p)
        PROVE  NeverConfesses'
    BY <2>4 DEF VtableWrite, FinishWrite, FinishClone, FreeTemporary, NeverConfesses, runVars
  <2>5. ASSUME NEW p \in Pmc, NEW c \in Obj, FillClone(p, c) PROVE NeverConfesses'
    BY <2>5 DEF FillClone, NeverConfesses, runVars
  <2>6. CASE BlockMark \/ UnblockMark \/ BlockSweep \/ UnblockSweep
    BY <2>6 DEF BlockMark, UnblockMark, BlockSweep, UnblockSweep, NeverConfesses, runVars
  <2>7. ASSUME NEW p \in Pmc, CleanDirty(p) \/ AgeDirty(p) \/ ScanWork(p)
        PROVE  NeverConfesses'
    BY <2>7 DEF CleanDirty, AgeDirty, ScanWork, NeverConfesses
  <2>8. CASE StartRun \/ TraceRoots \/ ProcessDirtyList \/ RestoreWorkList
             \/ Sweep \/ SweepNursery
    BY <2>8 DEF StartRun, TraceRoots, ProcessDirtyList, RestoreWorkList, Sweep,
                SweepNursery, NeverConfesses
  <2>9. CASE UNCHANGED vars
    BY <2>9 DEF vars, runVars, NeverConfesses
  <2>10. CASE Program
    BY <2>10, <2>1, <2>3, <2>4, <2>5, <2>6 DEF Program
  <2>11. CASE Collector
    BY <2>11, <2>2, <2>7, <2>8 DEF Collector
  <2> QED BY <2>9, <2>10, <2>11 DEF Next
<1> QED BY <1>1, <1>o, <1>s, <1>2, HeapInvariant, PTL DEF Spec

-----------------------------------------------------------------------------
(***************************************************************************)
(* The refinement.                                                         *)
(***************************************************************************)

\* What a step of the collector leaves to the abstract heap: nothing, for all
\* but the sweep.
AbstractStep == AbstractHeap!Next \/ UNCHANGED AbstractHeap!heapVars

LEMMA HoldStep ==
  ASSUME TypeOK, NEW o \in Obj, Load(o) \/ Drop(o) \/ SetRoot(o) \/ ClearRoot(o)
  PROVE  AbstractStep
<1>1. UNCHANGED <<objects, dirty_list, work_list, refs>>
  BY DEF Load, Drop, SetRoot, ClearRoot, arrayVars
<1>2. Allocated' = Allocated
  BY <1>1 DEF Allocated
<1>3. HeapRoots' \subseteq AbstractHeap!Reachable
  <2>1. CASE Load(o)
    <3>1. o \in AbstractHeap!Reachable
      BY <2>1, ReachableClosed DEF Load, HeapRoots
    <3> QED BY <2>1, <3>1, ReachableClosed DEF Load, HeapRoots
  <2>2. CASE Drop(o) \/ SetRoot(o) \/ ClearRoot(o)
    <3>1. HeapRoots' \subseteq HeapRoots
      BY <2>2 DEF Drop, SetRoot, ClearRoot, HeapRoots
    <3> QED BY <3>1, ReachableClosed
  <2> QED BY <2>1, <2>2
<1>4. AbstractHeap!Hold
  BY <1>1, <1>2, <1>3 DEF AbstractHeap!Hold, HeapRoots
<1> QED BY <1>4 DEF AbstractStep, AbstractHeap!Next

\* A header on the free list refers to nothing, and a new one neither.
LEMMA AllocateHeaderStep ==
  ASSUME ArraysInv, FreeEmpty, NEW o \in Obj, AllocateHeader(o) PROVE AbstractStep
<1>1. Allocated' = Allocated \cup {o} /\ o \notin Allocated
  BY AllocateHeaderArrays DEF AllocateHeader
<1>2. refs' = refs
  BY DEF AllocateHeader, FreeEmpty, ArraysInv, TypeOK
<1>3. roots' \cup stack' = (roots \cup stack) \cup {o}
  BY DEF AllocateHeader
<1>4. AbstractHeap!New(o)
  BY <1>1, <1>2, <1>3 DEF AbstractHeap!New
<1> QED BY <1>4 DEF AbstractStep, AbstractHeap!Next

LEMMA VtableWriteStep ==
  ASSUME TypeOK, NEW p \in Pmc, VtableWrite(p) PROVE AbstractStep
<1>1. UNCHANGED <<objects, dirty_list, work_list, roots, stack>> /\ p \in stack /\ p \in Obj
  BY DEF VtableWrite, arrayVars, Obj
<1>2. Allocated' = Allocated
  BY <1>1 DEF Allocated
<1>3. PICK S \in SUBSET (refs[p] \cup (stack \ Temporary)) : refs' = [refs EXCEPT ![p] = S]
  BY DEF VtableWrite
<1>4. p \in AbstractHeap!Reachable /\ S \subseteq AbstractHeap!Reachable
  BY <1>1, ReachableClosed DEF HeapRoots
<1>5. AbstractHeap!Update(p)
  BY <1>1, <1>2, <1>3, <1>4 DEF AbstractHeap!Update
<1> QED BY <1>1, <1>5 DEF AbstractStep, AbstractHeap!Next

LEMMA FillCloneStep ==
  ASSUME ArraysInv, NEW p \in Pmc, NEW c \in Obj, FillClone(p, c) PROVE AbstractStep
<1>1. /\ UNCHANGED <<objects, dirty_list, work_list, roots, stack>>
      /\ p \in stack /\ p \in Obj /\ c \in stack /\ TypeOK
      /\ refs' = [refs EXCEPT ![p] = @ \cup {c}]
  BY DEF FillClone, arrayVars, Obj, ArraysInv, HeldAllocated
<1>2. Allocated' = Allocated
  BY <1>1 DEF Allocated
<1>3. p \in AbstractHeap!Reachable /\ refs[p] \cup {c} \subseteq AbstractHeap!Reachable
  BY <1>1, ReachableClosed DEF HeapRoots
<1>4. refs' = [refs EXCEPT ![p] = refs[p] \cup {c}]
  BY <1>1
<1>5. AbstractHeap!Update(p)
  BY <1>1, <1>2, <1>3, <1>4 DEF AbstractHeap!Update
<1> QED BY <1>1, <1>5 DEF AbstractStep, AbstractHeap!Next

LEMMA FreeTemporaryStep ==
  ASSUME ArraysInv, NEW p \in Pmc, FreeTemporary(p) PROVE AbstractStep
<1>1. Allocated' = Allocated \ {p} /\ p \in Obj
  BY FreeTemporaryArrays DEF Obj
<1>2. /\ p \in stack /\ p \notin roots /\ p \in Temporary
      /\ roots' = roots /\ stack' = stack \ {p}
  BY DEF FreeTemporary, ArraysInv, TemporaryApart
<1>3. refs' = refs /\ refs[p] = {} /\ \A o \in Obj : p \notin refs[o]
  BY <1>2 DEF FreeTemporary, ArraysInv, TemporaryApart
<1>4. refs' = [refs EXCEPT ![p] = {}]
  BY <1>1, <1>3 DEF ArraysInv, TypeOK
<1>5. AbstractHeap!Release(p)
  BY <1>1, <1>2, <1>3, <1>4 DEF AbstractHeap!Release
<1> QED BY <1>1, <1>5 DEF AbstractStep, AbstractHeap!Next

\* The sweep of a generation reclaims its dead headers, none of them reachable.
LEMMA SweepStep ==
  ASSUME HeapInv, Sweep \/ SweepNursery PROVE AbstractStep
<1> DEFINE g == sweeping
<1>u. /\ phase = "sweep" /\ SweepGeneration(g)
      /\ UNCHANGED <<roots, stack, pending, filling, work_list, todo, gc_mark_runs>>
  BY DEF Sweep, SweepNursery
<1>i. ArraysInv /\ g \in Gens /\ g \in 0 .. sweeping
  BY GensFacts DEF HeapInv, ArraysInv, TypeOK
<1>1. Allocated' = Allocated \ Dead(g)
  BY <1>u, <1>i, SweepGenerationArrays
<1>2. Dead(g) \in SUBSET (Allocated \ AbstractHeap!Reachable)
  BY <1>u, <1>i, ReachableSurvives, SurvivingFacts, AllocatedFacts DEF Dead
<1>3. refs' = [o \in Obj |-> IF o \in Dead(g) THEN {} ELSE refs[o]]
  BY <1>u DEF SweepGeneration
<1>4. AbstractHeap!Reclaim
  BY <1>1, <1>2, <1>3, <1>u DEF AbstractHeap!Reclaim
<1> QED BY <1>4 DEF AbstractStep, AbstractHeap!Next

\* The other steps leave the headers in use, the references and the roots alone.
LEMMA QuietStep ==
  ASSUME Allocated' = Allocated, UNCHANGED <<refs, roots, stack>> PROVE AbstractStep
BY DEF AbstractStep, AbstractHeap!heapVars

LEMMA NextStep ==
  ASSUME HeapInv, FreeEmpty, [Next]_vars PROVE AbstractStep
<1>i. ArraysInv /\ TypeOK
  BY DEF HeapInv, ArraysInv
<1>1. ASSUME NEW o \in Obj,
             AllocateHeader(o) \/ Load(o) \/ Drop(o) \/ SetRoot(o) \/ ClearRoot(o)
      PROVE  AbstractStep
  BY <1>1, <1>i, AllocateHeaderStep, HoldStep
<1>2. ASSUME NEW p \in Pmc, VtableWrite(p) \/ FreeTemporary(p) PROVE AbstractStep
  BY <1>2, <1>i, VtableWriteStep, FreeTemporaryStep
<1>3. ASSUME NEW p \in Pmc, FinishWrite(p) \/ FinishClone(p) PROVE AbstractStep
  <2>1. p \in Allocated /\ phase = "mutator"
    BY <1>3, <1>i DEF FinishWrite, FinishClone, ArraysInv, HeldAllocated
  <2>2. Allocated' = Allocated
    BY <1>3, <1>i, <2>1, WriteBarrierArrays DEF FinishWrite, FinishClone
  <2> QED BY <1>3, <2>2, QuietStep DEF FinishWrite, FinishClone
<1>4. ASSUME NEW p \in Pmc, NEW c \in Obj, FillClone(p, c) PROVE AbstractStep
  BY <1>4, <1>i, FillCloneStep
<1>5. CASE Confess
  BY <1>5, QuietStep DEF Confess, Allocated, mutatorVars, arrayVars
<1>6. CASE BlockMark \/ UnblockMark \/ BlockSweep \/ UnblockSweep
  BY <1>6, QuietStep
  DEF BlockMark, UnblockMark, BlockSweep, UnblockSweep, Allocated, mutatorVars, arrayVars
<1>7. ASSUME NEW p \in Pmc, CleanDirty(p) \/ AgeDirty(p) \/ ScanWork(p)
      PROVE  AbstractStep
  <2>1. Allocated' = Allocated
    BY <1>7, <1>i, CleanDirtyArrays, AgeDirtyArrays, ScanWorkArrays
  <2> QED BY <1>7, <2>1, QuietStep DEF CleanDirty, AgeDirty, ScanWork, mutatorVars
<1>8. CASE StartRun \/ TraceRoots \/ ProcessDirtyList \/ RestoreWorkList
  <2>1. Allocated' = Allocated
    BY <1>8, <1>i, StartRunArrays, TraceRootsArrays, ProcessDirtyListArrays,
       RestoreWorkListArrays
  <2> QED BY <1>8, <2>1, QuietStep
          DEF StartRun, TraceRoots, ProcessDirtyList, RestoreWorkList, mutatorVars
<1>9. CASE Sweep \/ SweepNursery
  BY <1>9, SweepStep
<1>10. CASE UNCHANGED vars
  BY <1>10, QuietStep DEF vars, Allocated, mutatorVars, arrayVars
<1>11. CASE Program
  BY <1>11, <1>1, <1>2, <1>3, <1>4, <1>5, <1>6 DEF Program, FreeDirtyTemporary
<1>12. CASE Collector
  BY <1>12, <1>5, <1>7, <1>8, <1>9 DEF Collector, MarkDeadObject
<1> QED BY <1>10, <1>11, <1>12 DEF Next

LEMMA ReachableInUse ==
  ASSUME HeapInv PROVE AbstractHeap!Reachable \subseteq Allocated
<1>i. ArraysInv /\ TypeOK
  BY DEF HeapInv, ArraysInv
<1>1. CASE phase = "sweep"
  BY <1>1, ReachableSurvives, SurvivingFacts
<1>2. CASE phase # "sweep"
  <2>1. Allocated \in SUBSET Obj
    BY <1>i, AllocatedFacts DEF TypeOK, Obj
  <2> QED BY <1>2, <2>1, <1>i, ReachableWithin
          DEF HeapInv, NoDangling, ArraysInv, HeldAllocated, HeapRoots
<1> QED BY <1>1, <1>2

\* Freed headers are emptied, and nothing is stored into them afterwards.
LEMMA FreeEmptyStep ==
  ASSUME HeapInv, FreeEmpty, AbstractStep PROVE FreeEmpty'
<1>t. TypeOK
  BY DEF HeapInv, ArraysInv
<1>1. ASSUME NEW o \in Obj, AbstractHeap!New(o) PROVE FreeEmpty'
  BY <1>1 DEF AbstractHeap!New, FreeEmpty
<1>2. ASSUME NEW o \in Obj, AbstractHeap!Update(o) PROVE FreeEmpty'
  <2>1. o \in Allocated /\ Allocated' = Allocated
    BY <1>2, ReachableInUse DEF AbstractHeap!Update
  <2>2. \A x \in Obj : x # o => refs'[x] = refs[x]
    BY <1>2, <1>t DEF AbstractHeap!Update, TypeOK
  <2> QED BY <2>1, <2>2 DEF FreeEmpty
<1>3. ASSUME NEW o \in Obj, AbstractHeap!Release(o) PROVE FreeEmpty'
  <2>1. \A x \in Obj : refs'[x] = IF x = o THEN {} ELSE refs[x]
    BY <1>3, <1>t DEF AbstractHeap!Release, TypeOK
  <2> QED BY <1>3, <2>1 DEF AbstractHeap!Release, FreeEmpty
<1>4. CASE AbstractHeap!Hold
  BY <1>4 DEF AbstractHeap!Hold, FreeEmpty
<1>5. CASE AbstractHeap!Reclaim
  BY <1>5 DEF AbstractHeap!Reclaim, FreeEmpty
<1>6. CASE UNCHANGED AbstractHeap!heapVars
  BY <1>6 DEF AbstractHeap!heapVars, FreeEmpty
<1> QED BY <1>1, <1>2, <1>3, <1>4, <1>5, <1>6 DEF AbstractStep, AbstractHeap!Next

\* The collector is a collector: whatever the order of its steps, a program sees
\* a heap where only unreachable objects vanish, and where no reference of an
\* object that remains is changed, until one of the two troubles comes about.
THEOREM CollectorImplementsHeap == Spec /\ []Untroubled => HeapImplemented
<1>1. Init => FreeEmpty /\ AbstractHeap!Init
  <2>1. Init => Allocated = {}
    BY AllocatedFacts DEF Init
  <2> QED BY <2>1 DEF Init, FreeEmpty, AbstractHeap!Init
<1>2. HeapInv /\ FreeEmpty /\ [Next]_vars => FreeEmpty'
  BY NextStep, FreeEmptyStep
<1>3. HeapInv /\ FreeEmpty /\ [Next]_vars => [AbstractHeap!Next]_(AbstractHeap!heapVars)
  BY NextStep DEF AbstractStep
<1> QED BY <1>1, <1>2, <1>3, HeapInvariant, PTL DEF Spec, HeapImplemented, AbstractHeap!Spec
-----------------------------------------------------------------------------
(***************************************************************************)
(* The storages of strings never overlap, the counts of the blocks cover   *)
(* what lives in them, and sharing survives every compaction, for any      *)
(* number of headers and blocks and any sizes.                             *)
(***************************************************************************)

BlockId == 1..Blocks + 2
Storage == [block : BlockId, at : Nat, size : Nat \ {0}]

BlockMap == UNION {[D -> MemoryBlock] : D \in SUBSET BlockId}

Pool == [block : BlockMap, top : BlockId, minimum : Nat,
         buf : [Header -> {NoStorage} \cup Storage], shared : SUBSET (BlockId \X Nat)]

Types(p) ==
  /\ p \in Pool
  /\ p.top \in DOMAIN p.block
  /\ \A x \in p.shared : x[1] \in DOMAIN p.block

Span(b) == b.at .. b.at + b.size - 1
Words(p, i) == UNION {Span(p.buf[h]) : h \in {g \in Stored(p) : p.buf[g].block = i}}

(* Two storages are in different blocks, the same, or next to each other. *)
Apart(b, c) ==
  c.block # b.block \/ c = b \/ c.at + c.size <= b.at \/ b.at + b.size <= c.at

Within(p, b) ==
  b.block \in DOMAIN p.block /\ b.at + b.size <= p.block[b.block].size - p.block[b.block].free

AllWithin(p) == \A h \in Stored(p) : Within(p, p.buf[h])
AllApart(p) == \A g, h \in Stored(p) : Apart(p.buf[g], p.buf[h])

(* What two headers have in common is noted as shared. *)
SharedNoted(p) ==
  \A g, h \in Stored(p) : g # h /\ p.buf[g] = p.buf[h] => PlaceOf(p.buf[h]) \in p.shared

(* The counts of a block leave room for every word that lives in it. *)
WordsCounted(p) ==
  \A i \in DOMAIN p.block :
    IsFiniteSet(Words(p, i)) /\ Cardinality(Words(p, i)) <= InUse(p.block[i])

PoolInv(p) == Types(p) /\ AllWithin(p) /\ AllApart(p) /\ SharedNoted(p) /\ WordsCounted(p)

SgInv == PoolInv(pool) /\ Bounded(pool)

(* The headers still in use share what they shared, and as much of it. *)
Follows(p, q) ==
  /\ Stored(q) \subseteq Stored(p)
  /\ \A h \in Stored(q) : q.buf[h].size = p.buf[h].size
  /\ \A g, h \in Stored(q) : p.buf[g] = p.buf[h] <=> q.buf[g] = q.buf[h]

LEMMA FollowsTransitive ==
  ASSUME NEW p, NEW q, NEW r, Follows(p, q), Follows(q, r)
  PROVE  Follows(p, r)
BY DEF Follows

LEMMA FollowsItself == \A p : Follows(p, p)
BY DEF Follows
-----------------------------------------------------------------------------
LEMMA BlockMapIs ==
  ASSUME NEW f
  PROVE  f \in BlockMap <=> /\ f = [i \in DOMAIN f |-> f[i]]
                            /\ DOMAIN f \in SUBSET BlockId
                            /\ \A i \in DOMAIN f : f[i] \in MemoryBlock
<1>1. ASSUME f \in BlockMap
      PROVE  /\ f = [i \in DOMAIN f |-> f[i]]
             /\ DOMAIN f \in SUBSET BlockId
             /\ \A i \in DOMAIN f : f[i] \in MemoryBlock
  BY <1>1 DEF BlockMap
<1>2. ASSUME f = [i \in DOMAIN f |-> f[i]], DOMAIN f \in SUBSET BlockId,
             \A i \in DOMAIN f : f[i] \in MemoryBlock
      PROVE  f \in BlockMap
  <2>1. f \in [DOMAIN f -> MemoryBlock]
    BY <1>2
  <2>. QED BY <1>2, <2>1 DEF BlockMap
<1>. QED BY <1>1, <1>2

(* The words of the storages of a block are where each of them is. *)
LEMMA WordsWithin ==
  ASSUME NEW p, NEW i, NEW S,
         \A h \in Stored(p) : p.buf[h].block = i => Span(p.buf[h]) \subseteq S
  PROVE  Words(p, i) \in SUBSET S
<1>. DEFINE H == {g \in Stored(p) : p.buf[g].block = i}
<1>1. \A h \in H : Span(p.buf[h]) \subseteq S
  OBVIOUS
<1>2. Words(p, i) = UNION {Span(p.buf[h]) : h \in H}
  BY Zenon DEF Words
<1>. HIDE DEF H
<1>. QED BY <1>1, <1>2

LEMMA StoredIs ==
  ASSUME NEW p \in Pool
  PROVE  /\ Stored(p) \subseteq Header
         /\ \A h \in Stored(p) : p.buf[h] \in Storage
         /\ \A h \in Header : h \notin Stored(p) => p.buf[h] = NoStorage
         /\ NoStorage \notin Storage
         /\ \A b \in Storage : b # NoStorage /\ b.at \in Nat /\ b.size \in Nat \ {0} /\ b.block \in BlockId
<1>1. NoStorage \notin Storage
  BY DEF NoStorage, Storage, BlockId
<1>2. p.buf \in [Header -> {NoStorage} \cup Storage]
  BY DEF Pool
<1>. QED BY <1>1, <1>2 DEF Stored, Storage

LEMMA BlocksAre ==
  ASSUME NEW p \in Pool, NEW i \in DOMAIN p.block
  PROVE  /\ i \in BlockId /\ p.block[i] \in MemoryBlock
         /\ p.block[i].size \in Nat /\ p.block[i].free \in Nat /\ p.block[i].freed \in Nat
         /\ InUse(p.block[i]) \in Int
<1>1. p.block \in BlockMap
  BY DEF Pool
<1>2. i \in BlockId /\ p.block[i] \in MemoryBlock
  BY <1>1, BlockMapIs
<1>. QED BY <1>2 DEF MemoryBlock, InUse

LEMMA SpanSize ==
  ASSUME NEW b \in Storage
  PROVE  IsFiniteSet(Span(b)) /\ Cardinality(Span(b)) = b.size /\ Span(b) # {}
<1>1. b.at \in Nat /\ b.size \in Nat \ {0}
  BY DEF Storage
<1>. DEFINE last == b.at + b.size - 1
<1>4. b.at \in Int /\ last \in Int
  BY <1>1
<1>. HIDE DEF last
<1>5. /\ IsFiniteSet(b.at .. last)
      /\ Cardinality(b.at .. last) = IF b.at > last THEN 0 ELSE last - b.at + 1
  BY <1>4, FS_Interval
<1>2. Span(b) = b.at .. last
  BY DEF Span, last
<1>3. b.at \in Span(b)
  BY <1>1 DEF Span
<1>6. (IF b.at > last THEN 0 ELSE last - b.at + 1) = b.size
  BY <1>1 DEF last
<1>. QED BY <1>2, <1>3, <1>5, <1>6

LEMMA SpanBelow ==
  ASSUME NEW b \in Storage, NEW n \in Nat, b.at + b.size <= n
  PROVE  Span(b) \subseteq 0..n - 1
<1>1. b.at \in Nat /\ b.size \in Nat \ {0}
  BY DEF Storage
<1>. QED BY <1>1 DEF Span

LEMMA SpansApart ==
  ASSUME NEW b \in Storage, NEW c \in Storage, b.block = c.block, b # c
  PROVE  Apart(b, c) <=> Span(b) \cap Span(c) = {}
<1>1. b.at \in Nat /\ b.size \in Nat \ {0} /\ c.at \in Nat /\ c.size \in Nat \ {0}
  BY DEF Storage
<1>2. ASSUME b.at + b.size <= c.at \/ c.at + c.size <= b.at PROVE Span(b) \cap Span(c) = {}
  BY <1>1, <1>2 DEF Span
<1>3. ASSUME ~(b.at + b.size <= c.at), ~(c.at + c.size <= b.at) PROVE Span(b) \cap Span(c) # {}
  <2>1. CASE b.at <= c.at
    <3>1. c.at \in Span(b) /\ c.at \in Span(c)
      BY <1>1, <1>3, <2>1 DEF Span
    <3>. QED BY <3>1
  <2>2. CASE c.at <= b.at
    <3>1. b.at \in Span(b) /\ b.at \in Span(c)
      BY <1>1, <1>3, <2>2 DEF Span
    <3>. QED BY <3>1
  <2>. QED BY <1>1, <2>1, <2>2
<1>. QED BY <1>2, <1>3 DEF Apart

(* A block is never used beyond its size. *)
LEMMA BlockRoom ==
  ASSUME NEW p, PoolInv(p), NEW i \in DOMAIN p.block
  PROVE  /\ InUse(p.block[i]) \in Nat
         /\ p.block[i].size \in Nat /\ p.block[i].free \in Nat /\ p.block[i].freed \in Nat
         /\ p.block[i].free <= p.block[i].size
<1>1. /\ p.block[i].size \in Nat /\ p.block[i].free \in Nat /\ p.block[i].freed \in Nat
      /\ InUse(p.block[i]) \in Int
  BY BlocksAre DEF PoolInv, Types
<1>2. Cardinality(Words(p, i)) \in Nat /\ Cardinality(Words(p, i)) <= InUse(p.block[i])
  BY FS_CardinalityType DEF PoolInv, WordsCounted
<1>3. InUse(p.block[i]) \in Nat
  BY <1>1, <1>2
<1>. QED BY <1>1, <1>3 DEF InUse

LEMMA InWords ==
  ASSUME NEW p, NEW i, NEW w
  PROVE  w \in Words(p, i) <=> \E h \in Stored(p) : p.buf[h].block = i /\ w \in Span(p.buf[h])
BY DEF Words
-----------------------------------------------------------------------------
(* A header that is done with. *)
DropFrom(p, h) == [p EXCEPT !.buf[h] = NoStorage]

GiveUp(p, h) ==
  [p EXCEPT !.buf[h] = NoStorage, !.block[p.buf[h].block].freed = @ + p.buf[h].size]

LEMMA DropIs ==
  ASSUME NEW p, p \in Pool, NEW h \in Header, NEW q, q = DropFrom(p, h)
  PROVE  /\ q \in Pool
         /\ q.block = p.block /\ q.top = p.top /\ q.minimum = p.minimum /\ q.shared = p.shared
         /\ Stored(q) = Stored(p) \ {h}
         /\ \A g \in Stored(q) : q.buf[g] = p.buf[g]
<1>1. /\ q.block = p.block /\ q.top = p.top /\ q.minimum = p.minimum /\ q.shared = p.shared
      /\ q.buf = [p.buf EXCEPT ![h] = NoStorage] /\ q \in Pool
  BY DEF DropFrom, Pool
<1>2. p.buf \in [Header -> {NoStorage} \cup Storage]
  BY DEF Pool
<1>3. \A g \in Header : q.buf[g] = IF g = h THEN NoStorage ELSE p.buf[g]
  BY <1>1, <1>2
<1>. QED BY <1>1, <1>3 DEF Stored

LEMMA DropKeeps ==
  ASSUME NEW p, PoolInv(p), NEW h \in Header, NEW q, q = DropFrom(p, h)
  PROVE  PoolInv(q) /\ Follows(p, q)
<1>1. p \in Pool
  BY DEF PoolInv, Types
<1>2. /\ q \in Pool /\ q.block = p.block /\ q.top = p.top /\ q.shared = p.shared
      /\ Stored(q) = Stored(p) \ {h} /\ \A g \in Stored(q) : q.buf[g] = p.buf[g]
  BY <1>1, DropIs
<1>3. Types(q) /\ AllWithin(q) /\ AllApart(q) /\ SharedNoted(q)
  BY <1>2 DEF PoolInv, Types, AllWithin, AllApart, SharedNoted, Within
<1>4. ASSUME NEW i \in DOMAIN q.block
      PROVE  IsFiniteSet(Words(q, i)) /\ Cardinality(Words(q, i)) <= InUse(q.block[i])
  <2>1. IsFiniteSet(Words(p, i)) /\ Cardinality(Words(p, i)) <= InUse(p.block[i])
    BY <1>2 DEF PoolInv, WordsCounted
  <2>2. Words(q, i) \in SUBSET Words(p, i)
    BY <1>2, InWords
  <2>3. IsFiniteSet(Words(q, i)) /\ Cardinality(Words(q, i)) <= Cardinality(Words(p, i))
    BY <2>1, <2>2, FS_Subset
  <2>4. Cardinality(Words(q, i)) \in Nat /\ Cardinality(Words(p, i)) \in Nat /\ InUse(p.block[i]) \in Int
    BY <1>1, <1>2, <2>1, <2>3, FS_CardinalityType, BlocksAre
  <2>. QED BY <1>2, <2>1, <2>3, <2>4
<1>5. Follows(p, q)
  BY <1>2 DEF Follows
<1>. QED BY <1>3, <1>4, <1>5 DEF PoolInv, WordsCounted

(* More of a block is given up. *)
Freed(p, i, n) == [p EXCEPT !.block[i].freed = @ + n]

LEMMA FreedIs ==
  ASSUME NEW p, p \in Pool, NEW i \in DOMAIN p.block, NEW n \in Nat, NEW q,
         q = Freed(p, i, n)
  PROVE  /\ q \in Pool
         /\ q.top = p.top /\ q.minimum = p.minimum /\ q.shared = p.shared /\ q.buf = p.buf
         /\ DOMAIN q.block = DOMAIN p.block
         /\ \A j \in DOMAIN p.block : j # i => q.block[j] = p.block[j]
         /\ q.block[i] = [size |-> p.block[i].size, free |-> p.block[i].free, freed |-> p.block[i].freed + n]
<1>. DEFINE b == [size |-> p.block[i].size, free |-> p.block[i].free, freed |-> p.block[i].freed + n]
<1>1. p.block \in BlockMap /\ p.block[i] \in MemoryBlock
  BY BlocksAre DEF Pool
<1>2. [p.block[i] EXCEPT !.freed = @ + n] = b /\ b \in MemoryBlock
  BY <1>1 DEF MemoryBlock
<1>3. /\ q.block = [p.block EXCEPT ![i] = [p.block[i] EXCEPT !.freed = @ + n]]
      /\ q.top = p.top /\ q.minimum = p.minimum /\ q.shared = p.shared /\ q.buf = p.buf
  BY DEF Freed, Pool
<1>. HIDE DEF b
<1>4. q.block = [p.block EXCEPT ![i] = b]
  BY <1>2, <1>3
<1>5. /\ DOMAIN q.block = DOMAIN p.block
      /\ \A j \in DOMAIN p.block : q.block[j] = IF j = i THEN b ELSE p.block[j]
  BY <1>1, <1>4, BlockMapIs
<1>6. q.block \in BlockMap
  BY <1>1, <1>2, <1>4, <1>5, BlockMapIs
<1>7. q = [block |-> q.block, top |-> p.top, minimum |-> p.minimum, buf |-> p.buf, shared |-> p.shared]
  BY <1>3 DEF Freed, Pool
<1>8. q \in Pool
  BY <1>6, <1>7 DEF Pool
<1>. QED BY <1>3, <1>5, <1>8 DEF b

LEMMA GiveUpKeeps ==
  ASSUME NEW p, PoolInv(p), NEW h \in Stored(p),
         \A g \in Stored(p) : p.buf[g] = p.buf[h] => g = h,
         NEW q, q = GiveUp(p, h)
  PROVE  /\ PoolInv(q) /\ Follows(p, q) /\ Stored(q) = Stored(p) \ {h}
         /\ q.top = p.top /\ DOMAIN q.block = DOMAIN p.block
         /\ \A i \in DOMAIN p.block : q.block[i].free = p.block[i].free
<1>. DEFINE r == DropFrom(p, h)
            b == p.buf[h]
            k == b.block
<1>1. p \in Pool /\ h \in Header /\ b \in Storage /\ k \in DOMAIN p.block /\ b.size \in Nat
  BY StoredIs DEF PoolInv, Types, AllWithin, Within
<1>2. /\ r \in Pool /\ r.block = p.block /\ r.top = p.top /\ r.shared = p.shared
      /\ Stored(r) = Stored(p) \ {h} /\ \A g \in Stored(r) : r.buf[g] = p.buf[g]
  BY <1>1, DropIs
<1>3. PoolInv(r) /\ Follows(p, r)
  BY <1>1, DropKeeps
<1>4. q = Freed(r, k, b.size)
  BY <1>1 DEF GiveUp, DropFrom, Freed, Pool
<1>. HIDE DEF r
<1>5. /\ q \in Pool /\ q.top = r.top /\ q.shared = r.shared /\ q.buf = r.buf
      /\ DOMAIN q.block = DOMAIN r.block
      /\ \A j \in DOMAIN r.block : j # k => q.block[j] = r.block[j]
      /\ q.block[k] = [size |-> r.block[k].size, free |-> r.block[k].free, freed |-> r.block[k].freed + b.size]
  <2>1. r \in Pool /\ k \in DOMAIN r.block /\ b.size \in Nat
    BY <1>1, <1>2
  <2>. HIDE DEF b, k
  <2>. QED BY <1>4, <2>1, FreedIs
<1>6. /\ Stored(q) = Stored(r) /\ \A i : Words(q, i) = Words(r, i)
      /\ \A i \in DOMAIN p.block : q.block[i].free = p.block[i].free /\ q.block[i].size = p.block[i].size
  BY <1>2, <1>5 DEF Stored, Words
<1>7. Types(q) /\ AllWithin(q) /\ AllApart(q) /\ SharedNoted(q)
  <2>1. Types(r) /\ AllWithin(r) /\ AllApart(r) /\ SharedNoted(r)
    BY <1>3 DEF PoolInv
  <2>2. Types(q)
    BY <1>5, <2>1 DEF Types
  <2>3. ASSUME NEW c, Within(r, c) PROVE Within(q, c)
    BY <1>2, <1>5, <1>6, <2>3 DEF Within
  <2>4. AllWithin(q)
    BY <1>5, <1>6, <2>1, <2>3 DEF AllWithin
  <2>5. AllApart(q) /\ SharedNoted(q)
    BY <1>5, <1>6, <2>1 DEF AllApart, SharedNoted
  <2>. QED BY <2>2, <2>4, <2>5
<1>8. Follows(p, q)
  BY <1>3, <1>5, <1>6 DEF Follows
<1>9. IsFiniteSet(Words(r, k)) /\ Cardinality(Words(r, k)) + b.size <= InUse(p.block[k])
  <2>1. IsFiniteSet(Words(p, k)) /\ Cardinality(Words(p, k)) <= InUse(p.block[k])
    BY <1>1 DEF PoolInv, WordsCounted
  <2>2. IsFiniteSet(Words(r, k))
    BY <1>1, <1>2, <1>3 DEF PoolInv, WordsCounted
  <2>3. Words(r, k) \cup Span(b) \in SUBSET Words(p, k)
    BY <1>2, InWords
  <2>4. Words(r, k) \cap Span(b) = {}
    <3>1. ASSUME NEW g \in Stored(r), r.buf[g].block = k PROVE Span(r.buf[g]) \cap Span(b) = {}
      <4>1. r.buf[g] = p.buf[g] /\ p.buf[g] # b /\ p.buf[g] \in Storage
        BY <1>1, <1>2, StoredIs
      <4>2. Apart(p.buf[g], b)
        BY <1>2 DEF PoolInv, AllApart
      <4>. QED BY <1>1, <3>1, <4>1, <4>2, SpansApart
    <3>. QED BY <3>1, InWords
  <2>5. /\ IsFiniteSet(Span(b)) /\ Cardinality(Span(b)) = b.size
        /\ Cardinality(Words(r, k)) \in Nat /\ Cardinality(Words(p, k)) \in Nat
    BY <1>1, <2>1, <2>2, SpanSize, FS_CardinalityType
  <2>6. Cardinality(Words(r, k) \cup Span(b)) = Cardinality(Words(r, k)) + b.size
    <3>1. Cardinality(Words(r, k) \cup Span(b))
            = Cardinality(Words(r, k)) + Cardinality(Span(b)) - Cardinality(Words(r, k) \cap Span(b))
      BY <2>2, <2>5, FS_Union
    <3>2. Cardinality(Words(r, k) \cap Span(b)) = 0
      BY <2>4, FS_EmptySet
    <3>. QED BY <1>1, <2>5, <3>1, <3>2
  <2>7. Cardinality(Words(r, k) \cup Span(b)) <= Cardinality(Words(p, k))
    BY <2>1, <2>3, FS_Subset
  <2>8. InUse(p.block[k]) \in Int
    BY <1>1, BlocksAre
  <2>. QED BY <1>1, <2>1, <2>2, <2>5, <2>6, <2>7, <2>8
<1>10. ASSUME NEW i \in DOMAIN q.block
       PROVE  IsFiniteSet(Words(q, i)) /\ Cardinality(Words(q, i)) <= InUse(q.block[i])
  <2>1. CASE i # k
    BY <1>2, <1>3, <1>5, <1>6, <2>1 DEF PoolInv, WordsCounted
  <2>2. CASE i = k
    <3>1. InUse(q.block[k]) = InUse(p.block[k]) - b.size /\ InUse(p.block[k]) \in Int
      <4>1. p.block[k].size \in Nat /\ p.block[k].free \in Nat /\ p.block[k].freed \in Nat
        BY <1>1, BlocksAre
      <4>2. /\ q.block[k].size = p.block[k].size /\ q.block[k].free = p.block[k].free
            /\ q.block[k].freed = p.block[k].freed + b.size /\ b.size \in Nat
        BY <1>1, <1>2, <1>5
      <4>. HIDE DEF b, k
      <4>. QED BY <4>1, <4>2 DEF InUse
    <3>2. Cardinality(Words(r, k)) \in Nat
      BY <1>9, FS_CardinalityType
    <3>. QED BY <1>1, <1>6, <1>9, <2>2, <3>1, <3>2
  <2>. QED BY <2>1, <2>2
<1>. QED BY <1>2, <1>5, <1>6, <1>7, <1>8, <1>10 DEF PoolInv, WordsCounted

(* Parrot_gc_str_free_buffer_storage, of whatever header. *)
LEMMA ReleaseKeeps ==
  ASSUME NEW p, PoolInv(p), NEW h \in Stored(p), NEW q, q = Release(p, h)
  PROVE  PoolInv(q) /\ Follows(p, q) /\ Stored(q) = Stored(p) \ {h} /\ DOMAIN q.block = DOMAIN p.block
<1>1. p \in Pool /\ h \in Header
  BY StoredIs DEF PoolInv, Types
<1>2. CASE PlaceOf(p.buf[h]) \in p.shared
  <2>1. q = DropFrom(p, h)
    BY <1>2 DEF Release, DropFrom
  <2>. QED BY <1>1, <2>1, DropIs, DropKeeps
<1>3. CASE PlaceOf(p.buf[h]) \notin p.shared
  <2>1. q = GiveUp(p, h)
    BY <1>1, <1>3 DEF Release, GiveUp, Pool
  <2>2. \A g \in Stored(p) : p.buf[g] = p.buf[h] => g = h
    BY <1>3 DEF PoolInv, SharedNoted
  <2>. QED BY <2>1, <2>2, GiveUpKeeps
<1>. QED BY <1>2, <1>3

(* The pools after the sweep has looked at the first headers. *)
Sweeping(after, p, dead, k) ==
  after = [n \in 0..k |->
             IF n = 0 THEN p ELSE IF n \in dead THEN Release(after[n - 1], n) ELSE after[n - 1]]

LEMMA SweepingExists ==
  ASSUME NEW p, NEW dead
  PROVE  \A k \in Nat : \E after : Sweeping(after, p, dead, k)
<1>. DEFINE T == {k \in Nat : \E after : Sweeping(after, p, dead, k)}
<1>1. 0 \in T
  <2>1. Sweeping([n \in 0..0 |-> p], p, dead, 0)
    BY DEF Sweeping
  <2>. QED BY <2>1
<1>2. ASSUME NEW k \in Nat, k \in T PROVE k + 1 \in T
  <2>1. PICK f : Sweeping(f, p, dead, k)
    BY <1>2
  <2>. DEFINE last == IF k + 1 \in dead THEN Release(f[k], k + 1) ELSE f[k]
  <2>. HIDE DEF last
  <2>. DEFINE g == [n \in 0..k + 1 |-> IF n = k + 1 THEN last ELSE f[n]]
  <2>2. ASSUME NEW n \in 0..k + 1
        PROVE  g[n] = IF n = 0 THEN p ELSE IF n \in dead THEN Release(g[n - 1], n) ELSE g[n - 1]
    <3>1. CASE n = k + 1
      <4>1. g[n] = last /\ g[n - 1] = f[k] /\ n # 0
        BY <3>1
      <4>. QED BY <3>1, <4>1 DEF last
    <3>2. CASE n # k + 1
      <4>1. n \in 0..k /\ (n # 0 => n - 1 \in 0..k)
        BY <3>2
      <4>2. g[n] = f[n] /\ (n # 0 => g[n - 1] = f[n - 1])
        BY <4>1
      <4>. HIDE DEF g
      <4>3. f[n] = IF n = 0 THEN p ELSE IF n \in dead THEN Release(f[n - 1], n) ELSE f[n - 1]
        BY <2>1, <4>1 DEF Sweeping
      <4>. QED BY <4>2, <4>3
    <3>. QED BY <3>1, <3>2
  <2>3. g = [n \in 0..k + 1 |-> g[n]]
    OBVIOUS
  <2>. HIDE DEF g
  <2>4. Sweeping(g, p, dead, k + 1)
    BY <2>2, <2>3 DEF Sweeping
  <2>. QED BY <2>4
<1>3. Nat \subseteq T
  <2>. HIDE DEF T
  <2>. QED BY <1>1, <1>2, NaturalInduction
<1>. QED BY <1>3

LEMMA SweptIs ==
  ASSUME NEW p, NEW dead
  PROVE  \E after : Sweeping(after, p, dead, Headers) /\ Swept(p, dead) = after[Headers]
<1>. DEFINE c == CHOOSE after : Sweeping(after, p, dead, Headers)
<1>1. Swept(p, dead) = c[Headers]
  BY Zenon DEF Swept, Sweeping
<1>2. Sweeping(c, p, dead, Headers)
  BY SweepingExists, StringGcAssumption
<1>. QED BY <1>1, <1>2

(* What the sweep leaves. *)
LEMMA SweepKeeps ==
  ASSUME NEW p, PoolInv(p), NEW dead \in SUBSET Stored(p), NEW q, q = Swept(p, dead)
  PROVE  PoolInv(q) /\ Follows(p, q) /\ Stored(q) = Stored(p) \ dead /\ DOMAIN q.block = DOMAIN p.block
<1>1. PICK after : Sweeping(after, p, dead, Headers) /\ q = after[Headers]
  BY SweptIs
<1>. DEFINE Good(n) == /\ PoolInv(after[n]) /\ Follows(p, after[n])
                       /\ Stored(after[n]) = Stored(p) \ (dead \cap 1..n)
                       /\ DOMAIN after[n].block = DOMAIN p.block
            T == {n \in Nat : n <= Headers => Good(n)}
<1>2. Stored(p) \subseteq Header /\ Headers \in Nat /\ Header = 1..Headers
  BY StringGcAssumption DEF Stored, Header
<1>3. 0 \in T
  <2>1. after[0] = p
    BY <1>1, <1>2 DEF Sweeping
  <2>. QED BY <2>1, FollowsItself
<1>4. ASSUME NEW n \in Nat, n \in T PROVE n + 1 \in T
  <2>. SUFFICES ASSUME n + 1 <= Headers PROVE Good(n + 1)
    OBVIOUS
  <2>1. Good(n) /\ n + 1 \in 0..Headers /\ n + 1 # 0 /\ (n + 1) - 1 = n
    BY <1>2, <1>4
  <2>2. after[n + 1] = IF n + 1 \in dead THEN Release(after[n], n + 1) ELSE after[n]
    BY <1>1, <2>1 DEF Sweeping
  <2>3. 1..n + 1 = (1..n) \cup {n + 1} /\ n + 1 \notin 1..n
    OBVIOUS
  <2>4. CASE n + 1 \in dead
    <3>1. n + 1 \in Stored(after[n])
      BY <2>1, <2>3, <2>4
    <3>2. /\ PoolInv(after[n + 1]) /\ Follows(after[n], after[n + 1])
          /\ Stored(after[n + 1]) = Stored(after[n]) \ {n + 1}
          /\ DOMAIN after[n + 1].block = DOMAIN after[n].block
      BY <2>1, <2>2, <2>4, <3>1, ReleaseKeeps
    <3>3. Stored(after[n + 1]) = Stored(p) \ (dead \cap 1..n + 1)
      BY <2>1, <2>3, <2>4, <3>2
    <3>4. Follows(p, after[n + 1])
      BY <2>1, <3>2, FollowsTransitive
    <3>. QED BY <2>1, <3>2, <3>3, <3>4
  <2>5. CASE n + 1 \notin dead
    <3>1. dead \cap 1..n + 1 = dead \cap 1..n /\ after[n + 1] = after[n]
      BY <2>2, <2>3, <2>5
    <3>. QED BY <2>1, <3>1
  <2>. QED BY <2>4, <2>5
<1>5. Good(Headers)
  <2>. HIDE DEF Good
  <2>1. Nat \subseteq T
    <3>. HIDE DEF T
    <3>. QED BY <1>3, <1>4, NaturalInduction
  <2>2. Headers \in T /\ Headers <= Headers
    BY <1>2, <2>1
  <2>. QED BY <2>2
<1>6. dead \cap 1..Headers = dead
  BY <1>2
<1>. QED BY <1>1, <1>5, <1>6
-----------------------------------------------------------------------------
LEMMA CarveIs ==
  ASSUME NEW p, PoolInv(p), NEW h \in Header, NEW size \in Nat \ {0},
         size <= p.block[p.top].free, NEW q, q = Carve(p, h, size)
  PROVE  LET t == p.top
             b == [block |-> t, at |-> p.block[t].size - p.block[t].free, size |-> size]
         IN  /\ q \in Pool /\ b \in Storage
             /\ q.top = t /\ q.minimum = p.minimum /\ q.shared = p.shared \ {<<t, b.at>>}
             /\ Stored(q) = Stored(p) \cup {h}
             /\ q.buf[h] = b /\ \A g \in Header : g # h => q.buf[g] = p.buf[g]
             /\ DOMAIN q.block = DOMAIN p.block
             /\ \A i \in DOMAIN p.block : i # t => q.block[i] = p.block[i]
             /\ q.block[t] = [size |-> p.block[t].size, free |-> p.block[t].free - size,
                              freed |-> p.block[t].freed]
<1>. DEFINE t == p.top
            k == p.block[t]
            b == [block |-> t, at |-> k.size - k.free, size |-> size]
            c == [size |-> k.size, free |-> k.free - size, freed |-> k.freed]
<1>1. /\ p \in Pool /\ t \in DOMAIN p.block /\ t \in BlockId /\ k \in MemoryBlock
      /\ k.size \in Nat /\ k.free \in Nat /\ k.freed \in Nat /\ k.free <= k.size
  BY BlockRoom, BlocksAre DEF PoolInv, Types
<1>2. b \in Storage /\ c \in MemoryBlock
  BY <1>1 DEF Storage, MemoryBlock
<1>3. [k EXCEPT !.free = @ - size] = c
  BY <1>1 DEF MemoryBlock
<1>4. /\ p.block \in BlockMap /\ p.buf \in [Header -> {NoStorage} \cup Storage]
      /\ p.shared \subseteq BlockId \X Nat
  BY <1>1 DEF Pool
<1>5. /\ q.buf = [p.buf EXCEPT ![h] = b] /\ q.shared = p.shared \ {<<t, b.at>>}
      /\ q.block = [p.block EXCEPT ![t] = [k EXCEPT !.free = @ - size]]
      /\ q.top = t /\ q.minimum = p.minimum
      /\ q = [block |-> q.block, top |-> q.top, minimum |-> q.minimum, buf |-> q.buf, shared |-> q.shared]
  BY <1>1 DEF Carve, Pool
<1>6. q.block = [p.block EXCEPT ![t] = c]
  BY <1>3, <1>5
<1>. HIDE DEF b, c
<1>7. /\ DOMAIN q.block = DOMAIN p.block
      /\ \A i \in DOMAIN p.block : q.block[i] = IF i = t THEN c ELSE p.block[i]
      /\ q.block \in BlockMap
  BY <1>1, <1>2, <1>4, <1>6, BlockMapIs
<1>8. q.buf \in [Header -> {NoStorage} \cup Storage] /\ \A g \in Header : q.buf[g] = IF g = h THEN b ELSE p.buf[g]
  BY <1>2, <1>4, <1>5
<1>9. q \in Pool
  BY <1>1, <1>4, <1>5, <1>7, <1>8 DEF Pool
<1>10. Stored(q) = Stored(p) \cup {h}
  BY <1>1, <1>2, <1>8, StoredIs DEF Stored
<1>. QED BY <1>1, <1>2, <1>5, <1>7, <1>8, <1>9, <1>10 DEF b, c

LEMMA CarveKeeps ==
  ASSUME NEW p, PoolInv(p), NEW h \in Header, h \notin Stored(p), NEW size \in Nat \ {0},
         size <= p.block[p.top].free, NEW q, q = Carve(p, h, size)
  PROVE  /\ PoolInv(q) /\ Stored(q) = Stored(p) \cup {h} /\ DOMAIN q.block = DOMAIN p.block
         /\ \A g \in Stored(p) : q.buf[g] = p.buf[g] /\ q.buf[g] # q.buf[h]
<1>. DEFINE t == p.top
            k == p.block[t]
            b == [block |-> t, at |-> k.size - k.free, size |-> size]
<1>1. /\ q \in Pool /\ b \in Storage
      /\ q.top = t /\ q.shared = p.shared \ {<<t, b.at>>}
      /\ Stored(q) = Stored(p) \cup {h}
      /\ q.buf[h] = b /\ \A g \in Header : g # h => q.buf[g] = p.buf[g]
      /\ DOMAIN q.block = DOMAIN p.block
      /\ \A i \in DOMAIN p.block : i # t => q.block[i] = p.block[i]
      /\ q.block[t] = [size |-> k.size, free |-> k.free - size, freed |-> k.freed]
  BY CarveIs
<1>2. /\ p \in Pool /\ t \in DOMAIN p.block
      /\ k.size \in Nat /\ k.free \in Nat /\ k.freed \in Nat /\ k.free <= k.size
  BY BlockRoom DEF PoolInv, Types
<1>3. /\ b.block = t /\ b.at = k.size - k.free /\ b.size = size /\ PlaceOf(b) = <<t, b.at>>
      /\ b.at \in Nat /\ b.at + b.size <= q.block[t].size - q.block[t].free
      /\ q.block[t].size - q.block[t].free \in Int
  BY <1>1, <1>2 DEF PlaceOf
<1>. HIDE DEF b
<1>4. \A g \in Stored(p) : g # h /\ g \in Header /\ q.buf[g] = p.buf[g] /\ p.buf[g] \in Storage
  BY <1>1, <1>2, StoredIs
<1>5. ASSUME NEW g \in Stored(p), p.buf[g].block = t PROVE p.buf[g].at + p.buf[g].size <= b.at
  <2>1. p.buf[g].at + p.buf[g].size <= k.size - k.free
    BY <1>5 DEF PoolInv, AllWithin, Within
  <2>. QED BY <1>3, <2>1
<1>6. ASSUME NEW g \in Stored(p) PROVE Apart(p.buf[g], b) /\ Apart(b, p.buf[g]) /\ p.buf[g] # b
  <2>1. CASE p.buf[g].block = t
    <3>1. p.buf[g].at + p.buf[g].size <= b.at /\ p.buf[g].size \in Nat \ {0} /\ p.buf[g].at \in Nat
      BY <1>4, <1>5, <2>1 DEF Storage
    <3>. QED BY <1>3, <3>1 DEF Apart
  <2>2. CASE p.buf[g].block # t
    BY <1>3, <2>2 DEF Apart
  <2>. QED BY <2>1, <2>2
<1>7. Types(q)
  BY <1>1, <1>2 DEF PoolInv, Types
<1>8. AllWithin(q)
  <2>1. Within(q, q.buf[h])
    BY <1>1, <1>2, <1>3 DEF Within
  <2>2. ASSUME NEW g \in Stored(p) PROVE Within(q, q.buf[g])
    <3>1. Within(p, p.buf[g]) /\ q.buf[g] = p.buf[g]
      BY <1>4 DEF PoolInv, AllWithin
    <3>2. CASE p.buf[g].block # t
      BY <1>1, <3>1, <3>2 DEF Within
    <3>3. CASE p.buf[g].block = t
      <4>1. p.buf[g].at + p.buf[g].size <= b.at /\ p.buf[g].at + p.buf[g].size \in Int
        BY <1>4, <1>5, <3>3 DEF Storage
      <4>2. b.at <= q.block[t].size - q.block[t].free
        BY <1>3
      <4>. QED BY <1>1, <1>2, <1>3, <3>1, <3>3, <4>1, <4>2 DEF Within
    <3>. QED BY <3>2, <3>3
  <2>. QED BY <1>1, <2>1, <2>2 DEF AllWithin
<1>9. AllApart(q)
  <2>1. Apart(b, b)
    BY DEF Apart
  <2>. QED BY <1>1, <1>4, <1>6, <2>1 DEF PoolInv, AllApart
<1>10. SharedNoted(q)
  <2>1. ASSUME NEW f \in Stored(q), NEW g \in Stored(q), f # g, q.buf[f] = q.buf[g]
        PROVE  PlaceOf(q.buf[g]) \in q.shared
    <3>1. f \in Stored(p) /\ g \in Stored(p)
      BY <1>1, <1>4, <1>6, <2>1
    <3>2. PlaceOf(p.buf[g]) \in p.shared /\ q.buf[g] = p.buf[g]
      BY <1>4, <2>1, <3>1 DEF PoolInv, SharedNoted
    <3>3. PlaceOf(p.buf[g]) # <<t, b.at>>
      <4>1. CASE p.buf[g].block # t
        BY <4>1 DEF PlaceOf
      <4>2. CASE p.buf[g].block = t
        <5>1. p.buf[g].at + p.buf[g].size <= b.at /\ p.buf[g].size \in Nat \ {0} /\ p.buf[g].at \in Nat
          BY <1>4, <1>5, <3>1, <4>2 DEF Storage
        <5>. QED BY <1>3, <5>1 DEF PlaceOf
      <4>. QED BY <4>1, <4>2
    <3>. QED BY <1>1, <3>2, <3>3
  <2>. QED BY <2>1 DEF SharedNoted
<1>11. ASSUME NEW i \in DOMAIN q.block
       PROVE  IsFiniteSet(Words(q, i)) /\ Cardinality(Words(q, i)) <= InUse(q.block[i])
  <2>1. IsFiniteSet(Words(p, i)) /\ Cardinality(Words(p, i)) <= InUse(p.block[i])
    BY <1>1 DEF PoolInv, WordsCounted
  <2>2. CASE i # t
    <3>1. /\ Stored(q) = Stored(p) \cup {h} /\ q.buf[h].block # i
          /\ \A g \in Stored(p) : q.buf[g] = p.buf[g]
      BY <1>1, <1>3, <1>4, <2>2
    <3>2. \A w : w \in Words(q, i) <=> w \in Words(p, i)
      BY <3>1, InWords
    <3>3. Words(q, i) = Words(p, i)
      BY <3>2
    <3>. QED BY <1>1, <2>1, <2>2, <3>3
  <2>3. CASE i = t
    <3>1. Words(q, t) = Words(p, t) \cup Span(b)
      BY <1>1, <1>3, <1>4, InWords
    <3>2. IsFiniteSet(Span(b)) /\ Cardinality(Span(b)) = size
      BY <1>1, <1>3, SpanSize
    <3>3. /\ IsFiniteSet(Words(p, t) \cup Span(b))
          /\ Cardinality(Words(p, t) \cup Span(b))
               = Cardinality(Words(p, t)) + Cardinality(Span(b)) - Cardinality(Words(p, t) \cap Span(b))
      BY <2>1, <2>3, <3>2, FS_Union
    <3>4. Cardinality(Words(p, t)) \in Nat /\ Cardinality(Words(p, t) \cap Span(b)) \in Nat
      BY <2>1, <2>3, FS_Intersection, FS_CardinalityType
    <3>5. InUse(q.block[t]) = InUse(k) + size /\ InUse(k) \in Int
      BY <1>1, <1>2 DEF InUse
    <3>. QED BY <2>1, <2>3, <3>1, <3>2, <3>3, <3>4, <3>5
  <2>. QED BY <2>2, <2>3
<1>12. PoolInv(q)
  BY <1>7, <1>8, <1>9, <1>10, <1>11 DEF PoolInv, WordsCounted
<1>. QED BY <1>1, <1>4, <1>6, <1>12
-----------------------------------------------------------------------------
Few(p, n) == Cardinality(DOMAIN p.block) <= n

(* There is a number for another block. *)
LEMMA NumberLeft ==
  ASSUME NEW D \in SUBSET BlockId, Cardinality(D) <= Blocks + 1
  PROVE  \E i \in BlockId : i \notin D /\ \A j \in 1..i - 1 : j \in D
<1>1. Blocks \in Nat /\ BlockId \subseteq Nat
  BY StringGcAssumption DEF BlockId
<1>2. IsFiniteSet(BlockId) /\ Cardinality(BlockId) = Blocks + 2
  <2>1. 1 \in Int /\ Blocks + 2 \in Int /\ ~(1 > Blocks + 2) /\ (Blocks + 2) - 1 + 1 = Blocks + 2
    BY <1>1
  <2>. QED BY <2>1, FS_Interval DEF BlockId
<1>3. D # BlockId
  BY <1>1, <1>2
<1>4. PICK i \in BlockId \ D : \A j \in BlockId \ D : i <= j
  BY <1>1, <1>3, LeastNatural
<1>5. \A j \in 1..i - 1 : j \in BlockId /\ ~(i <= j)
  BY <1>1, <1>4 DEF BlockId
<1>. QED BY <1>4, <1>5

LEMMA NewBlockIs ==
  ASSUME NEW p, PoolInv(p), Few(p, Blocks + 1), NEW size \in Nat, NEW q, q = NewBlock(p, size)
  PROVE  /\ q \in Pool /\ q.top \in BlockId \ DOMAIN p.block
         /\ q.minimum = p.minimum /\ q.buf = p.buf /\ q.shared = p.shared
         /\ DOMAIN q.block = DOMAIN p.block \cup {q.top}
         /\ \A i \in DOMAIN p.block : q.block[i] = p.block[i]
         /\ q.block[q.top].size \in Nat /\ q.block[q.top].size >= size /\ q.block[q.top].size >= p.minimum
         /\ q.block[q.top].free = q.block[q.top].size /\ q.block[q.top].freed = 0
<1>. DEFINE Fits(i) == i \notin DOMAIN p.block /\ \A j \in 1..i - 1 : j \in DOMAIN p.block
            id == CHOOSE i \in 1..Blocks + 2 : Fits(i)
            n == IF size > p.minimum THEN size ELSE p.minimum
            new == [size |-> n, free |-> n, freed |-> 0]
            f == [i \in DOMAIN p.block \cup {id} |-> IF i = id THEN new ELSE p.block[i]]
<1>1. /\ p \in Pool /\ p.block \in BlockMap /\ p.minimum \in Nat /\ p.buf \in [Header -> {NoStorage} \cup Storage]
      /\ p.shared \in SUBSET (BlockId \X Nat)
  BY DEF PoolInv, Types, Pool
<1>2. id \in BlockId /\ Fits(id)
  <2>1. DOMAIN p.block \in SUBSET BlockId
    BY <1>1, BlockMapIs
  <2>2. \E i \in 1..Blocks + 2 : Fits(i)
    BY <2>1, NumberLeft DEF BlockId, Few
  <2>. HIDE DEF Fits
  <2>. QED BY <2>2 DEF BlockId
<1>3. n \in Nat /\ n >= size /\ n >= p.minimum
  BY <1>1
<1>4. new \in MemoryBlock /\ new.size = n /\ new.free = n /\ new.freed = 0
  BY <1>3 DEF MemoryBlock
<1>5. q = [p EXCEPT !.block = f, !.top = id]
  BY DEF NewBlock
<1>. HIDE DEF id, n, new
<1>6. f \in BlockMap
  <2>1. DOMAIN f \in SUBSET BlockId /\ \A i \in DOMAIN f : f[i] \in MemoryBlock
    BY <1>1, <1>2, <1>4, BlockMapIs
  <2>. QED BY <2>1, BlockMapIs
<1>7. /\ DOMAIN f = DOMAIN p.block \cup {id} /\ f[id] = new
      /\ \A i \in DOMAIN p.block : f[i] = p.block[i]
  BY <1>2
<1>. HIDE DEF f
<1>8. /\ q.block = f /\ q.top = id /\ q.minimum = p.minimum /\ q.buf = p.buf /\ q.shared = p.shared
      /\ q = [block |-> f, top |-> id, minimum |-> p.minimum, buf |-> p.buf, shared |-> p.shared]
  BY <1>1, <1>5 DEF Pool
<1>9. q \in Pool
  BY <1>1, <1>2, <1>6, <1>8 DEF Pool
<1>. QED BY <1>2, <1>3, <1>4, <1>7, <1>8, <1>9

LEMMA NewBlockKeeps ==
  ASSUME NEW p, PoolInv(p), Few(p, Blocks + 1), NEW size \in Nat, NEW q, q = NewBlock(p, size)
  PROVE  /\ PoolInv(q) /\ Follows(p, q) /\ Stored(q) = Stored(p)
         /\ \A n \in Nat : Few(p, n) => Few(q, n + 1)
<1>1. /\ q \in Pool /\ q.top \in BlockId \ DOMAIN p.block
      /\ q.minimum = p.minimum /\ q.buf = p.buf /\ q.shared = p.shared
      /\ DOMAIN q.block = DOMAIN p.block \cup {q.top}
      /\ \A i \in DOMAIN p.block : q.block[i] = p.block[i]
      /\ q.block[q.top].size \in Nat
      /\ q.block[q.top].free = q.block[q.top].size /\ q.block[q.top].freed = 0
  BY NewBlockIs
<1>2. Stored(q) = Stored(p) /\ \A i : Words(q, i) = Words(p, i)
  BY <1>1 DEF Stored, Words
<1>3. Types(q) /\ AllApart(q) /\ SharedNoted(q) /\ Follows(p, q)
  BY <1>1, <1>2 DEF PoolInv, Types, AllApart, SharedNoted, Follows
<1>4. AllWithin(q)
  BY <1>1, <1>2 DEF PoolInv, AllWithin, Within
<1>5. ASSUME NEW i \in DOMAIN q.block
      PROVE  IsFiniteSet(Words(q, i)) /\ Cardinality(Words(q, i)) <= InUse(q.block[i])
  <2>1. CASE i \in DOMAIN p.block
    BY <1>1, <1>2, <2>1 DEF PoolInv, WordsCounted
  <2>2. CASE i = q.top
    <3>1. \A h \in Stored(p) : p.buf[h].block # q.top
      BY <1>1 DEF PoolInv, AllWithin, Within
    <3>2. Words(q, i) = {}
      BY <1>2, <2>2, <3>1 DEF Words
    <3>3. InUse(q.block[i]) = 0
      BY <1>1, <2>2 DEF InUse
    <3>. QED BY <3>2, <3>3, FS_EmptySet
  <2>. QED BY <1>1, <2>1, <2>2
<1>6. \A n \in Nat : Few(p, n) => Few(q, n + 1)
  <2>1. IsFiniteSet(DOMAIN p.block)
    <3>1. p.block \in BlockMap
      BY DEF PoolInv, Types, Pool
    <3>2. IsFiniteSet(BlockId)
      BY StringGcAssumption, FS_Interval DEF BlockId
    <3>. QED BY <3>1, <3>2, BlockMapIs, FS_Subset
  <2>2. Cardinality(DOMAIN p.block \cup {q.top}) = Cardinality(DOMAIN p.block) + 1
    BY <1>1, <2>1, FS_AddElement
  <2>3. Cardinality(DOMAIN p.block) \in Nat
    BY <2>1, FS_CardinalityType
  <2>. QED BY <1>1, <2>2, <2>3 DEF Few
<1>. QED BY <1>2, <1>3, <1>4, <1>5, <1>6 DEF PoolInv, WordsCounted

LEMMA RoomKeeps ==
  ASSUME NEW p, PoolInv(p), Few(p, Blocks + 1), NEW size \in Nat, NEW q, q = Room(p, size)
  PROVE  PoolInv(q) /\ Follows(p, q) /\ Stored(q) = Stored(p) /\ size <= q.block[q.top].free
<1>1. p \in Pool /\ p.top \in DOMAIN p.block /\ p.block[p.top].free \in Nat
  BY BlocksAre DEF PoolInv, Types
<1>2. CASE p.block[p.top].free >= size
  BY <1>1, <1>2, FollowsItself DEF Room
<1>3. CASE ~(p.block[p.top].free >= size)
  <2>. DEFINE r == [p EXCEPT !.minimum = IF @ < BlockCap THEN 2 * @ ELSE @]
  <2>1. /\ r.block = p.block /\ r.top = p.top /\ r.buf = p.buf /\ r.shared = p.shared
        /\ r \in Pool
    BY <1>1, StringGcAssumption DEF Pool
  <2>2. q = NewBlock(r, size)
    BY <1>3 DEF Room
  <2>. HIDE DEF r
  <2>3. Stored(r) = Stored(p) /\ \A i : Words(r, i) = Words(p, i)
    BY <2>1 DEF Stored, Words
  <2>4. PoolInv(r) /\ Follows(p, r) /\ Few(r, Blocks + 1)
    BY <2>1, <2>3 DEF PoolInv, Types, AllWithin, Within, AllApart, SharedNoted, WordsCounted, Follows, Few
  <2>5. PoolInv(q) /\ Follows(r, q) /\ Stored(q) = Stored(r)
    BY <2>2, <2>4, NewBlockKeeps
  <2>6. q.block[q.top].size >= size /\ q.block[q.top].free = q.block[q.top].size
    BY <2>2, <2>4, NewBlockIs
  <2>7. q.block[q.top].size \in Nat
    BY <2>2, <2>4, NewBlockIs
  <2>8. size <= q.block[q.top].free
    BY <2>6, <2>7
  <2>. QED BY <2>3, <2>4, <2>5, <2>8, FollowsTransitive
<1>. QED BY <1>2, <1>3

LEMMA FreeOldKeeps ==
  ASSUME NEW p, PoolInv(p), NEW q, q = FreeOldBlocks(p),
         \A h \in Stored(p) : p.buf[h].block \notin Sparse(p, DOMAIN p.block \ {p.top})
  PROVE  PoolInv(q) /\ Follows(p, q) /\ Stored(q) = Stored(p) /\ DOMAIN q.block \subseteq DOMAIN p.block
<1>. DEFINE kept == DOMAIN p.block \ Sparse(p, DOMAIN p.block \ {p.top})
            f == [i \in kept |-> p.block[i]]
            s == {x \in p.shared : x[1] \in kept}
<1>1. /\ p \in Pool /\ p.top \in kept /\ p.block \in BlockMap /\ kept \subseteq DOMAIN p.block
      /\ p.shared \subseteq BlockId \X Nat
  BY DEF PoolInv, Types, Pool, Sparse
<1>2. q = [p EXCEPT !.block = f, !.shared = s]
  BY DEF FreeOldBlocks
<1>3. \A h \in Stored(p) : p.buf[h].block \in kept
  BY DEF PoolInv, AllWithin, Within
<1>. HIDE DEF kept
<1>4. f \in BlockMap
  <2>1. DOMAIN f \in SUBSET BlockId /\ \A i \in DOMAIN f : f[i] \in MemoryBlock
    BY <1>1, BlockMapIs
  <2>. QED BY <2>1, BlockMapIs
<1>5. DOMAIN f = kept /\ \A i \in kept : f[i] = p.block[i]
  OBVIOUS
<1>6. s \subseteq BlockId \X Nat /\ \A x \in p.shared : x[1] \in kept <=> x \in s
  BY <1>1
<1>. HIDE DEF f, s
<1>7. /\ q.block = f /\ q.shared = s /\ q.top = p.top /\ q.minimum = p.minimum /\ q.buf = p.buf
      /\ q \in Pool
  BY <1>1, <1>2, <1>4, <1>6 DEF Pool
<1>8. Stored(q) = Stored(p) /\ \A i : Words(q, i) = Words(p, i)
  BY <1>7 DEF Stored, Words
<1>9. Types(q) /\ AllApart(q) /\ Follows(p, q)
  <2>1. \A x \in s : x[1] \in kept
    BY DEF s
  <2>. QED BY <1>1, <1>5, <1>7, <1>8, <2>1 DEF PoolInv, Types, AllApart, Follows
<1>10. AllWithin(q) /\ WordsCounted(q)
  BY <1>1, <1>3, <1>5, <1>7, <1>8 DEF PoolInv, AllWithin, Within, WordsCounted
<1>11. SharedNoted(q)
  <2>1. \A h \in Stored(p) : PlaceOf(p.buf[h]) \in p.shared => PlaceOf(p.buf[h]) \in s
    BY <1>3, <1>6 DEF PlaceOf
  <2>. QED BY <1>7, <1>8, <2>1 DEF PoolInv, SharedNoted
<1>. QED BY <1>1, <1>5, <1>7, <1>8, <1>9, <1>10, <1>11 DEF PoolInv
-----------------------------------------------------------------------------
(* What a compaction starts from: the new block is at the top, and empty. *)
Empty(s) ==
  /\ PoolInv(s)
  /\ \A h \in Stored(s) : s.buf[h].block # s.top
  /\ ~AlmostFull(s.block[s.top])

(* The headers up to n whose storage is to be moved, and the words of these. *)
Movers(s, n) == {h \in Stored(s) : h <= n /\ ~AlmostFull(s.block[s.buf[h].block])}
OldWords(s, n) == UNION {{s.buf[h].block} \X Span(s.buf[h]) : h \in Movers(s, n)}

(* What move_one_buffer has done to the first n headers. *)
MoveTypes(s, n, m) ==
  /\ m = [pool |-> m.pool, used |-> m.used, moved |-> m.moved]
  /\ m.pool \in Pool /\ m.used \in Nat
  /\ m.pool.block = s.block /\ m.pool.top = s.top

MovedOnly(s, n, m) ==
  /\ \A h \in Header \ Movers(s, n) : m.pool.buf[h] = s.buf[h]
  /\ \A h \in Movers(s, n) :
       /\ m.pool.buf[h] \in Storage
       /\ m.pool.buf[h].block = s.top /\ m.pool.buf[h].size = s.buf[h].size
       /\ m.pool.buf[h].at + s.buf[h].size <= m.used

MovedApart(s, n, m) ==
  \A g, h \in Movers(s, n) :
    /\ s.buf[g] = s.buf[h] <=> m.pool.buf[g] = m.pool.buf[h]
    /\ Apart(m.pool.buf[g], m.pool.buf[h])

WordLeft(s, n, m) ==
  /\ \A x \in DOMAIN m.moved : \E h \in Movers(s, n) : x = PlaceOf(s.buf[h])
  /\ \A h \in Movers(s, n) :
       PlaceOf(s.buf[h]) \in s.shared =>
         PlaceOf(s.buf[h]) \in DOMAIN m.moved /\ m.moved[PlaceOf(s.buf[h])] = m.pool.buf[h]
  /\ DOMAIN m.moved \subseteq s.shared

MovedShared(s, n, m) ==
  /\ s.shared \subseteq m.pool.shared
  /\ \A x \in m.pool.shared : x \in s.shared \/ x[1] = s.top
  /\ \A g, h \in Movers(s, n) :
       g # h /\ m.pool.buf[g] = m.pool.buf[h] => PlaceOf(m.pool.buf[h]) \in m.pool.shared

UsedCounts(s, n, m) == IsFiniteSet(OldWords(s, n)) /\ Cardinality(OldWords(s, n)) = m.used

MoveInv(s, n, m) ==
  /\ MoveTypes(s, n, m) /\ MovedOnly(s, n, m) /\ MovedApart(s, n, m)
  /\ WordLeft(s, n, m) /\ MovedShared(s, n, m) /\ UsedCounts(s, n, m)

LEMMA MoversAre ==
  ASSUME NEW s, Empty(s), NEW n
  PROVE  /\ s \in Pool /\ s.top \in DOMAIN s.block /\ s.top \in BlockId
         /\ \A h \in Movers(s, n) :
              /\ h \in Stored(s) /\ h \in Header
              /\ s.buf[h] \in Storage /\ s.buf[h].block # s.top /\ s.buf[h].block \in DOMAIN s.block
BY StoredIs, BlocksAre DEF Empty, PoolInv, Types, Movers, AllWithin, Within

(* Where a storage is tells which it is. *)
LEMMA PlaceTells ==
  ASSUME NEW p, PoolInv(p), NEW g \in Stored(p), NEW h \in Stored(p), PlaceOf(p.buf[g]) = PlaceOf(p.buf[h])
  PROVE  p.buf[g] = p.buf[h]
<1>1. p.buf[g] \in Storage /\ p.buf[h] \in Storage
  BY StoredIs DEF PoolInv, Types
<1>2. p.buf[g].block = p.buf[h].block /\ p.buf[g].at = p.buf[h].at
  BY DEF PlaceOf
<1>3. /\ p.buf[g].at \in Nat /\ p.buf[g].size \in Nat \ {0}
      /\ p.buf[h].at \in Nat /\ p.buf[h].size \in Nat \ {0}
  BY <1>1 DEF Storage
<1>4. Apart(p.buf[g], p.buf[h])
  BY DEF PoolInv, AllApart
<1>. QED BY <1>2, <1>3, <1>4 DEF Apart

LEMMA MoveStart ==
  ASSUME NEW s, Empty(s)
  PROVE  MoveInv(s, 0, [pool |-> s, used |-> 0, moved |-> <<>>])
<1>. DEFINE m == [pool |-> s, used |-> 0, moved |-> <<>>]
<1>1. Movers(s, 0) = {} /\ OldWords(s, 0) = {}
  BY StoredIs, StringGcAssumption DEF Empty, PoolInv, Types, Movers, OldWords, Header
<1>2. m.pool = s /\ m.used = 0 /\ DOMAIN m.moved = {} /\ s \in Pool
  BY DEF Empty, PoolInv, Types
<1>3. MoveTypes(s, 0, m)
  BY <1>2 DEF MoveTypes
<1>. HIDE DEF m
<1>4. UsedCounts(s, 0, m)
  BY <1>1, <1>2, FS_EmptySet DEF UsedCounts
<1>. QED BY <1>1, <1>2, <1>3, <1>4 DEF MoveInv, MovedOnly, MovedApart, WordLeft, MovedShared, m

(* A header whose storage stays. *)
LEMMA MoveStays ==
  ASSUME NEW s, Empty(s), NEW n \in Nat, n + 1 \in Header, NEW m, MoveInv(s, n, m),
         n + 1 \notin Movers(s, n + 1)
  PROVE  MoveInv(s, n + 1, MoveOne(m, n + 1))
<1>1. Movers(s, n + 1) = Movers(s, n) /\ OldWords(s, n + 1) = OldWords(s, n)
  <2>1. \A h \in Stored(s) : h \in Nat
    BY StoredIs, StringGcAssumption DEF Empty, PoolInv, Types, Header
  <2>2. Movers(s, n + 1) = Movers(s, n)
    BY <2>1 DEF Movers
  <2>. QED BY <2>2 DEF OldWords
<1>2. m.pool.buf[n + 1] = s.buf[n + 1] /\ m.pool.block = s.block
  BY <1>1 DEF MoveInv, MovedOnly, MoveTypes
<1>3. s.buf[n + 1] = NoStorage \/ AlmostFull(s.block[s.buf[n + 1].block])
  BY DEF Movers, Stored
<1>4. MoveOne(m, n + 1) = m
  BY <1>2, <1>3 DEF MoveOne
<1>. QED BY <1>1, <1>4
     DEF MoveInv, MoveTypes, MovedOnly, MovedApart, WordLeft, MovedShared, UsedCounts

(* A header that names another storage from now on. *)
Rehoused(p, h, b, x) == [p EXCEPT !.buf[h] = b, !.shared = @ \cup x]

LEMMA RehousedIs ==
  ASSUME NEW p, p \in Pool, NEW h \in Header, NEW b \in Storage, NEW x \in SUBSET (BlockId \X Nat), NEW q,
         q = Rehoused(p, h, b, x)
  PROVE  /\ q \in Pool /\ q.block = p.block /\ q.top = p.top /\ q.shared = p.shared \cup x
         /\ q.buf[h] = b /\ \A g \in Header : g # h => q.buf[g] = p.buf[g]
<1>1. /\ q.block = p.block /\ q.top = p.top /\ q.minimum = p.minimum /\ q.shared = p.shared \cup x
      /\ q.buf = [p.buf EXCEPT ![h] = b]
      /\ q = [block |-> q.block, top |-> q.top, minimum |-> q.minimum, buf |-> q.buf, shared |-> q.shared]
  BY DEF Rehoused, Pool
<1>2. /\ p.buf \in [Header -> {NoStorage} \cup Storage] /\ p.shared \in SUBSET (BlockId \X Nat)
      /\ p.block \in BlockMap /\ p.top \in BlockId /\ p.minimum \in Nat
  BY DEF Pool
<1>3. /\ q.buf \in [Header -> {NoStorage} \cup Storage]
      /\ \A g \in Header : q.buf[g] = IF g = h THEN b ELSE p.buf[g]
  BY <1>1, <1>2
<1>4. q.shared \in SUBSET (BlockId \X Nat)
  BY <1>1, <1>2
<1>. QED BY <1>1, <1>2, <1>3, <1>4 DEF Pool

(* What both cases of a header that moves have in common. *)
LEMMA MoverIs ==
  ASSUME NEW s, Empty(s), NEW n \in Nat, n + 1 \in Header, NEW m, MoveInv(s, n, m),
         n + 1 \in Movers(s, n + 1)
  PROVE  LET h == n + 1
             b == s.buf[h]
             from == PlaceOf(b)
         IN  /\ Movers(s, h) = Movers(s, n) \cup {h} /\ h \notin Movers(s, n)
             /\ OldWords(s, h) = OldWords(s, n) \cup ({b.block} \X Span(b))
             /\ m.pool.buf[h] = b /\ b \in Storage /\ b # NoStorage /\ h \in Stored(s)
             /\ ~AlmostFull(m.pool.block[b.block])
             /\ b.block # s.top
             /\ (from \in m.pool.shared <=> from \in s.shared)
             /\ (from \in DOMAIN m.moved <=>
                   from \in s.shared /\ \E g \in Movers(s, n) : s.buf[g] = b)
<1>. DEFINE h == n + 1
            b == s.buf[h]
            from == PlaceOf(b)
<1>1. \A g \in Stored(s) : g \in Nat
  BY StoredIs, StringGcAssumption DEF Empty, PoolInv, Types, Header
<1>2. Movers(s, h) = Movers(s, n) \cup {h} /\ h \notin Movers(s, n)
  BY <1>1 DEF Movers
<1>3. OldWords(s, h) = OldWords(s, n) \cup ({b.block} \X Span(b))
  BY <1>2 DEF OldWords
<1>4. b \in Storage /\ h \in Stored(s) /\ b # NoStorage /\ b.block # s.top
  BY MoversAre, StoredIs
<1>5. m.pool.buf[h] = b /\ ~AlmostFull(m.pool.block[b.block])
  <2>1. m.pool.buf[h] = b
    BY <1>2 DEF MoveInv, MovedOnly
  <2>2. ~AlmostFull(s.block[b.block])
    BY DEF Movers
  <2>. QED BY <2>1, <2>2 DEF MoveInv, MoveTypes
<1>6. from \in m.pool.shared <=> from \in s.shared
  <2>1. from[1] # s.top
    BY <1>4 DEF PlaceOf
  <2>. QED BY <2>1 DEF MoveInv, MovedShared
<1>7. ASSUME from \in DOMAIN m.moved PROVE from \in s.shared /\ \E g \in Movers(s, n) : s.buf[g] = b
  <2>1. PICK g \in Movers(s, n) : from = PlaceOf(s.buf[g])
    BY <1>7 DEF MoveInv, WordLeft
  <2>2. s.buf[g] = b
    BY <1>4, <2>1, PlaceTells DEF Empty, Movers
  <2>. QED BY <1>7, <2>2 DEF MoveInv, WordLeft
<1>8. ASSUME from \in s.shared, NEW g \in Movers(s, n), s.buf[g] = b PROVE from \in DOMAIN m.moved
  BY <1>8 DEF MoveInv, WordLeft
<1>. QED BY <1>2, <1>3, <1>4, <1>5, <1>6, <1>7, <1>8

(* A header whose storage another one has moved. *)
LEMMA MoveFollows ==
  ASSUME NEW s, Empty(s), NEW n \in Nat, n + 1 \in Header, NEW m, MoveInv(s, n, m),
         n + 1 \in Movers(s, n + 1), PlaceOf(s.buf[n + 1]) \in DOMAIN m.moved
  PROVE  MoveInv(s, n + 1, MoveOne(m, n + 1))
<1>. DEFINE h == n + 1
            b == s.buf[h]
            from == PlaceOf(b)
            to == m.moved[from]
            M == Movers(s, n)
            r == MoveOne(m, h)
<1>1. /\ Movers(s, h) = M \cup {h} /\ h \notin M
      /\ OldWords(s, h) = OldWords(s, n) \cup ({b.block} \X Span(b))
      /\ m.pool.buf[h] = b /\ b \in Storage /\ b # NoStorage /\ h \in Stored(s)
      /\ ~AlmostFull(m.pool.block[b.block])
      /\ from \in s.shared /\ \E g \in M : s.buf[g] = b
  BY MoverIs
<1>2. PICK g \in M : s.buf[g] = b
  BY <1>1
<1>3. /\ to = m.pool.buf[g] /\ to \in Storage /\ to.block = s.top /\ to.size = b.size
      /\ to.at + b.size <= m.used
  BY <1>1, <1>2 DEF MoveInv, WordLeft, MovedOnly
<1>4. h \in Header /\ s.top \in BlockId /\ \A f \in M : f \in Header
  BY MoversAre
<1>5. PlaceOf(to) = <<s.top, to.at>> /\ PlaceOf(to) \in BlockId \X Nat /\ {PlaceOf(to)} \in SUBSET (BlockId \X Nat)
  BY <1>3, <1>4 DEF PlaceOf, Storage
<1>6. r = [m EXCEPT !.pool.buf[h] = to, !.pool.shared = @ \cup {PlaceOf(to)}]
  BY <1>1 DEF MoveOne
<1>. DEFINE q == Rehoused(m.pool, h, to, {PlaceOf(to)})
<1>7. r = [pool |-> q, used |-> m.used, moved |-> m.moved]
  <2>1. m = [pool |-> m.pool, used |-> m.used, moved |-> m.moved] /\ m.pool \in Pool
    BY DEF MoveInv, MoveTypes
  <2>2. m.pool = [block |-> m.pool.block, top |-> m.pool.top, minimum |-> m.pool.minimum,
                  buf |-> m.pool.buf, shared |-> m.pool.shared]
    BY <2>1 DEF Pool
  <2>. HIDE DEF r, to
  <2>. QED BY <1>6, <2>1, <2>2 DEF Rehoused
<1>. HIDE DEF r, to
<1>8. /\ q \in Pool /\ q.block = s.block /\ q.top = s.top /\ q.shared = m.pool.shared \cup {PlaceOf(to)}
      /\ q.buf[h] = to /\ \A f \in Header : f # h => q.buf[f] = m.pool.buf[f]
  <2>1. m.pool \in Pool /\ m.pool.block = s.block /\ m.pool.top = s.top
    BY DEF MoveInv, MoveTypes
  <2>2. m.pool \in Pool /\ h \in Header /\ to \in Storage /\ {PlaceOf(to)} \in SUBSET (BlockId \X Nat)
    BY <1>3, <1>4, <1>5, <2>1
  <2>3. /\ q \in Pool /\ q.block = m.pool.block /\ q.top = m.pool.top /\ q.shared = m.pool.shared \cup {PlaceOf(to)}
        /\ q.buf[h] = to /\ \A f \in Header : f # h => q.buf[f] = m.pool.buf[f]
    BY <2>2, RehousedIs
  <2>. HIDE DEF q
  <2>. QED BY <2>1, <2>3
<1>. HIDE DEF q
<1>9. r.pool = q /\ r.used = m.used /\ r.moved = m.moved
  BY <1>7
<1>10. MoveTypes(s, h, r)
  BY <1>7, <1>8, <1>9 DEF MoveInv, MoveTypes
<1>11. MovedOnly(s, h, r)
  BY <1>1, <1>3, <1>4, <1>8, <1>9 DEF MoveInv, MovedOnly
<1>12. \A f \in M : q.buf[f] = m.pool.buf[f]
  BY <1>1, <1>4, <1>8
<1>13. MovedApart(s, h, r)
  <2>1. \A f \in M : /\ s.buf[f] = b <=> m.pool.buf[f] = to
                     /\ Apart(m.pool.buf[f], to) /\ Apart(to, m.pool.buf[f])
    BY <1>2, <1>3 DEF MoveInv, MovedApart
  <2>2. Apart(to, to)
    BY DEF Apart
  <2>. QED BY <1>1, <1>8, <1>9, <1>12, <2>1, <2>2 DEF MoveInv, MovedApart
<1>14. WordLeft(s, h, r)
  BY <1>1, <1>8, <1>9, <1>12 DEF MoveInv, WordLeft, to
<1>15. MovedShared(s, h, r)
  <2>1. PlaceOf(to)[1] = s.top
    BY <1>5
  <2>. QED BY <1>1, <1>8, <1>9, <1>12, <2>1 DEF MoveInv, MovedShared
<1>16. UsedCounts(s, h, r)
  <2>1. OldWords(s, h) = OldWords(s, n)
    BY <1>1, <1>2 DEF OldWords
  <2>. QED BY <1>9, <2>1 DEF MoveInv, UsedCounts
<1>. QED BY <1>10, <1>11, <1>13, <1>14, <1>15, <1>16 DEF MoveInv, r

(* The first header of its storage. *)
LEMMA MoveMoves ==
  ASSUME NEW s, Empty(s), NEW n \in Nat, n + 1 \in Header, NEW m, MoveInv(s, n, m),
         n + 1 \in Movers(s, n + 1), PlaceOf(s.buf[n + 1]) \notin DOMAIN m.moved
  PROVE  MoveInv(s, n + 1, MoveOne(m, n + 1))
<1>. DEFINE h == n + 1
            b == s.buf[h]
            from == PlaceOf(b)
            to == [block |-> s.top, at |-> m.used, size |-> b.size]
            M == Movers(s, n)
            q == [m.pool EXCEPT !.buf[h] = to]
            left == IF from \notin m.pool.shared THEN m.moved
                    ELSE [x \in DOMAIN m.moved \cup {from} |-> IF x = from THEN to ELSE m.moved[x]]
            r == MoveOne(m, h)
<1>1. /\ Movers(s, h) = M \cup {h} /\ h \notin M
      /\ OldWords(s, h) = OldWords(s, n) \cup ({b.block} \X Span(b))
      /\ m.pool.buf[h] = b /\ b \in Storage /\ b # NoStorage /\ h \in Stored(s)
      /\ ~AlmostFull(m.pool.block[b.block]) /\ b.block # s.top
      /\ (from \in m.pool.shared <=> from \in s.shared)
      /\ ~(from \in s.shared /\ \E g \in M : s.buf[g] = b)
  BY MoverIs
<1>2. \A g \in M : s.buf[g] # b
  <2>1. ASSUME NEW g \in M, s.buf[g] = b PROVE from \in s.shared
    <3>1. g \in Stored(s) /\ g # h
      BY <1>1, MoversAre
    <3>. QED BY <1>1, <2>1, <3>1 DEF Empty, PoolInv, SharedNoted
  <2>. QED BY <1>1, <2>1
<1>3. /\ m.pool \in Pool /\ m.pool.block = s.block /\ m.pool.top = s.top /\ m.used \in Nat
      /\ h \in Header /\ s.top \in BlockId /\ b.size \in Nat \ {0} /\ \A f \in M : f \in Header
  BY <1>1, MoversAre DEF MoveInv, MoveTypes, Storage
<1>4. /\ to \in Storage /\ to.block = s.top /\ to.at = m.used /\ to.size = b.size
      /\ PlaceOf(to) = <<s.top, m.used>>
  BY <1>3 DEF Storage, PlaceOf
<1>5. r = [pool |-> q, used |-> m.used + b.size, moved |-> left]
  BY <1>1, <1>3 DEF MoveOne
<1>6. /\ q \in Pool /\ q.block = s.block /\ q.top = s.top /\ q.shared = m.pool.shared
      /\ q.buf[h] = to /\ \A f \in Header : f # h => q.buf[f] = m.pool.buf[f]
  <2>. HIDE DEF to
  <2>. DEFINE none == {}
  <2>1. q = Rehoused(m.pool, h, to, none) /\ none \in SUBSET (BlockId \X Nat)
    BY <1>3 DEF Rehoused, Pool
  <2>3. m.pool \in Pool /\ h \in Header /\ to \in Storage
    BY <1>3, <1>4
  <2>. HIDE DEF q, h, none
  <2>2. /\ q \in Pool /\ q.block = m.pool.block /\ q.top = m.pool.top /\ q.shared = m.pool.shared \cup none
        /\ q.buf[h] = to /\ \A f \in Header : f # h => q.buf[f] = m.pool.buf[f]
    BY <2>1, <2>3, RehousedIs
  <2>. QED BY <1>3, <2>2 DEF none
<1>. HIDE DEF to, q
<1>7. r.pool = q /\ r.used = m.used + b.size /\ r.moved = left
  BY <1>5
<1>8. MoveTypes(s, h, r)
  BY <1>3, <1>5, <1>6, <1>7 DEF MoveTypes
<1>. HIDE DEF r
<1>9. \A f \in M : /\ q.buf[f] = m.pool.buf[f] /\ m.pool.buf[f] \in Storage
                   /\ m.pool.buf[f].block = s.top /\ m.pool.buf[f].size = s.buf[f].size
                   /\ m.pool.buf[f].at + s.buf[f].size <= m.used
                   /\ s.buf[f].size \in Nat \ {0} /\ m.pool.buf[f].at \in Nat
  <2>1. \A f \in M : q.buf[f] = m.pool.buf[f] /\ s.buf[f] \in Storage
    BY <1>1, <1>3, <1>6, MoversAre
  <2>. QED BY <2>1 DEF MoveInv, MovedOnly, Storage
<1>10. MovedOnly(s, h, r)
  <2>1. \A f \in M : q.buf[f].at + s.buf[f].size <= m.used + b.size
    BY <1>3, <1>9
  <2>2. \A f \in Header \ Movers(s, h) : q.buf[f] = s.buf[f]
    BY <1>1, <1>6 DEF MoveInv, MovedOnly
  <2>3. to.at + b.size <= m.used + b.size
    BY <1>3, <1>4
  <2>4. /\ r.pool = q /\ r.used = m.used + b.size /\ q.buf[h] = to
    BY <1>6, <1>7
  <2>. QED BY <1>1, <1>4, <1>6, <1>9, <2>1, <2>2, <2>3, <2>4 DEF MovedOnly
<1>11. MovedApart(s, h, r)
  <2>1. ASSUME NEW f \in M PROVE m.pool.buf[f] # to /\ Apart(m.pool.buf[f], to) /\ Apart(to, m.pool.buf[f])
    <3>1. m.pool.buf[f].at + m.pool.buf[f].size <= to.at /\ m.pool.buf[f].at < to.at
      BY <1>3, <1>4, <1>9
    <3>. QED BY <1>3, <1>4, <1>9, <3>1 DEF Apart
  <2>2. Apart(to, to)
    BY DEF Apart
  <2>. QED BY <1>1, <1>2, <1>6, <1>7, <1>9, <2>1, <2>2 DEF MoveInv, MovedApart
<1>12. WordLeft(s, h, r)
  <2>1. ASSUME from \in s.shared PROVE WordLeft(s, h, r)
    <3>1. left = [x \in DOMAIN m.moved \cup {from} |-> IF x = from THEN to ELSE m.moved[x]]
      BY <1>1, <2>1
    <3>2. DOMAIN left = DOMAIN m.moved \cup {from} /\ left[from] = to /\ \A x \in DOMAIN m.moved : x # from => left[x] = m.moved[x]
      BY <3>1
    <3>. HIDE DEF left
    <3>3. \A f \in M : PlaceOf(s.buf[f]) # from
      <4>1. PoolInv(s) /\ h \in Stored(s) /\ \A f \in M : f \in Stored(s)
        BY <1>1 DEF Empty, Movers
      <4>. QED BY <1>2, <4>1, PlaceTells
    <3>. QED BY <1>1, <1>6, <1>7, <1>9, <2>1, <3>2, <3>3 DEF MoveInv, WordLeft
  <2>2. ASSUME from \notin s.shared PROVE WordLeft(s, h, r)
    <3>1. left = m.moved
      BY <1>1, <2>2
    <3>. HIDE DEF left
    <3>. QED BY <1>1, <1>6, <1>7, <1>9, <2>2, <3>1 DEF MoveInv, WordLeft
  <2>. QED BY <2>1, <2>2
<1>13. MovedShared(s, h, r)
  <2>1. \A f \in M : m.pool.buf[f] # to
    BY <1>3, <1>4, <1>9
  <2>. QED BY <1>1, <1>6, <1>7, <1>9, <2>1 DEF MoveInv, MovedShared
<1>14. UsedCounts(s, h, r)
  <2>. DEFINE N == {b.block} \X Span(b)
  <2>1. IsFiniteSet(N) /\ Cardinality(N) = b.size
    BY <1>1, SpanSize, TaggedSize
  <2>2. IsFiniteSet(OldWords(s, n)) /\ Cardinality(OldWords(s, n)) = m.used
    BY DEF MoveInv, UsedCounts
  <2>3. OldWords(s, n) \cap N = {}
    <3>1. ASSUME NEW f \in M, s.buf[f].block = b.block PROVE Span(s.buf[f]) \cap Span(b) = {}
      <4>1. f \in Stored(s) /\ s.buf[f] \in Storage /\ s.buf[f] # b
        BY <1>2, MoversAre
      <4>2. Apart(s.buf[f], b)
        BY <1>1, <4>1 DEF Empty, PoolInv, AllApart
      <4>. QED BY <1>1, <3>1, <4>1, <4>2, SpansApart
    <3>. QED BY <3>1 DEF OldWords
  <2>. HIDE DEF N
  <2>4. /\ IsFiniteSet(OldWords(s, n) \cup N)
        /\ Cardinality(OldWords(s, n) \cup N)
             = Cardinality(OldWords(s, n)) + Cardinality(N) - Cardinality(OldWords(s, n) \cap N)
    BY <2>1, <2>2, FS_Union
  <2>5. Cardinality(OldWords(s, n) \cap N) = 0
    BY <2>3, FS_EmptySet
  <2>6. OldWords(s, h) = OldWords(s, n) \cup N
    BY <1>1 DEF N
  <2>7. Cardinality(OldWords(s, n) \cup N) = m.used + b.size
    <3>. HIDE DEF b
    <3>. QED BY <1>3, <2>1, <2>2, <2>4, <2>5
  <2>. QED BY <1>7, <2>4, <2>6, <2>7 DEF UsedCounts
<1>. QED BY <1>8, <1>10, <1>11, <1>12, <1>13, <1>14 DEF MoveInv, r

(* What has become of the pool after each of the headers. *)
Moving(after, p, k) ==
  after = [n \in 0..k |->
             IF n = 0 THEN [pool |-> p, used |-> 0, moved |-> <<>>] ELSE MoveOne(after[n - 1], n)]

LEMMA MovingExists ==
  ASSUME NEW p
  PROVE  \A k \in Nat : \E after : Moving(after, p, k)
<1>. DEFINE start == [pool |-> p, used |-> 0, moved |-> <<>>]
            T == {k \in Nat : \E after : Moving(after, p, k)}
<1>1. 0 \in T
  <2>1. Moving([n \in 0..0 |-> start], p, 0)
    BY DEF Moving
  <2>. QED BY <2>1
<1>2. ASSUME NEW k \in Nat, k \in T PROVE k + 1 \in T
  <2>1. PICK f : Moving(f, p, k)
    BY <1>2
  <2>. DEFINE last == MoveOne(f[k], k + 1)
  <2>. HIDE DEF last
  <2>. DEFINE g == [n \in 0..k + 1 |-> IF n = k + 1 THEN last ELSE f[n]]
  <2>2. ASSUME NEW n \in 0..k + 1
        PROVE  g[n] = IF n = 0 THEN start ELSE MoveOne(g[n - 1], n)
    <3>. HIDE DEF start
    <3>1. CASE n = k + 1
      <4>1. g[n] = last /\ g[n - 1] = f[k] /\ n # 0
        BY <3>1
      <4>. QED BY <3>1, <4>1 DEF last
    <3>2. CASE n # k + 1
      <4>1. n \in 0..k /\ (n # 0 => n - 1 \in 0..k)
        BY <3>2
      <4>2. g[n] = f[n] /\ (n # 0 => g[n - 1] = f[n - 1])
        BY <4>1
      <4>. HIDE DEF g
      <4>3. f[n] = IF n = 0 THEN start ELSE MoveOne(f[n - 1], n)
        BY <2>1, <4>1 DEF Moving, start
      <4>. QED BY <4>2, <4>3
    <3>. QED BY <3>1, <3>2
  <2>3. g = [n \in 0..k + 1 |-> g[n]]
    OBVIOUS
  <2>. HIDE DEF g
  <2>4. Moving(g, p, k + 1)
    BY <2>2, <2>3 DEF Moving
  <2>. QED BY <2>4
<1>3. Nat \subseteq T
  <2>. HIDE DEF T
  <2>. QED BY <1>1, <1>2, NaturalInduction
<1>. QED BY <1>3

LEMMA MovedIs ==
  ASSUME NEW p
  PROVE  \E after : Moving(after, p, Headers) /\ Moved(p) = after[Headers]
<1>. DEFINE c == CHOOSE after : Moving(after, p, Headers)
<1>1. Moved(p) = c[Headers]
  BY Zenon DEF Moved, Moving
<1>2. Moving(c, p, Headers)
  BY MovingExists, StringGcAssumption
<1>. QED BY <1>1, <1>2

LEMMA MoveKeeps ==
  ASSUME NEW s, Empty(s)
  PROVE  MoveInv(s, Headers, Moved(s))
<1>1. PICK after : Moving(after, s, Headers) /\ Moved(s) = after[Headers]
  BY MovedIs
<1>. DEFINE T == {n \in Nat : n <= Headers => MoveInv(s, n, after[n])}
<1>2. Headers \in Nat
  BY StringGcAssumption
<1>3. 0 \in T
  <2>1. after[0] = [pool |-> s, used |-> 0, moved |-> <<>>]
    BY <1>1, <1>2 DEF Moving
  <2>. QED BY <2>1, MoveStart
<1>4. ASSUME NEW n \in Nat, n \in T PROVE n + 1 \in T
  <2>. SUFFICES ASSUME n + 1 <= Headers PROVE MoveInv(s, n + 1, after[n + 1])
    OBVIOUS
  <2>1. MoveInv(s, n, after[n]) /\ n + 1 \in 0..Headers /\ n + 1 # 0 /\ (n + 1) - 1 = n /\ n + 1 \in Header
    BY <1>2, <1>4 DEF Header
  <2>2. after[n + 1] = MoveOne(after[n], n + 1)
    BY <1>1, <2>1 DEF Moving
  <2>. QED BY <2>1, <2>2, MoveStays, MoveFollows, MoveMoves
<1>5. Nat \subseteq T
  <2>. HIDE DEF T
  <2>. QED BY <1>3, <1>4, NaturalInduction
<1>. QED BY <1>1, <1>2, <1>5

(* What the new block has left is set when all are moved. *)
Filled(p, n) == [p EXCEPT !.block[p.top].free = n]

LEMMA FilledIs ==
  ASSUME NEW p, p \in Pool, p.top \in DOMAIN p.block, NEW n \in Nat, NEW q, q = Filled(p, n)
  PROVE  LET t == p.top
         IN  /\ q \in Pool
             /\ q.top = t /\ q.shared = p.shared /\ q.buf = p.buf
             /\ DOMAIN q.block = DOMAIN p.block
             /\ \A j \in DOMAIN p.block : j # t => q.block[j] = p.block[j]
             /\ q.block[t] = [size |-> p.block[t].size, free |-> n, freed |-> p.block[t].freed]
<1>. DEFINE t == p.top
            b == [size |-> p.block[t].size, free |-> n, freed |-> p.block[t].freed]
<1>1. p.block \in BlockMap /\ p.block[t] \in MemoryBlock
  BY BlocksAre DEF Pool
<1>2. [p.block[t] EXCEPT !.free = n] = b /\ b \in MemoryBlock
  BY <1>1 DEF MemoryBlock
<1>3. /\ q.block = [p.block EXCEPT ![t] = [p.block[t] EXCEPT !.free = n]]
      /\ q.top = p.top /\ q.minimum = p.minimum /\ q.shared = p.shared /\ q.buf = p.buf
      /\ q = [block |-> q.block, top |-> p.top, minimum |-> p.minimum, buf |-> p.buf, shared |-> p.shared]
  BY DEF Filled, Pool
<1>. HIDE DEF b
<1>4. q.block = [p.block EXCEPT ![t] = b]
  BY <1>2, <1>3
<1>5. /\ DOMAIN q.block = DOMAIN p.block
      /\ \A j \in DOMAIN p.block : q.block[j] = IF j = t THEN b ELSE p.block[j]
      /\ q.block \in BlockMap
  BY <1>1, <1>2, <1>4, BlockMapIs
<1>6. q \in Pool
  BY <1>3, <1>5 DEF Pool
<1>. QED BY <1>3, <1>5, <1>6 DEF b

LEMMA FilledKeeps ==
  ASSUME NEW s, Empty(s), NEW m, MoveInv(s, Headers, m),
         s.block[s.top].freed = 0, m.used <= s.block[s.top].size,
         NEW q, q = Filled(m.pool, s.block[s.top].size - m.used)
  PROVE  /\ PoolInv(q) /\ Follows(s, q) /\ Stored(q) = Stored(s)
         /\ DOMAIN q.block = DOMAIN s.block /\ q.top = s.top
         /\ \A h \in Stored(q) : q.buf[h].block # q.top => AlmostFull(q.block[q.buf[h].block])
<1>m. PICK M : M = Movers(s, Headers)
  OBVIOUS
<1>t. PICK t : t = s.top
  OBVIOUS
<1>z. PICK z : z = s.block[t].size
  OBVIOUS
<1>u. PICK u : u = m.used
  OBVIOUS
<1>1. /\ s \in Pool /\ t \in DOMAIN s.block /\ t \in BlockId /\ PoolInv(s)
      /\ m.pool \in Pool /\ m.pool.block = s.block /\ m.pool.top = t /\ u \in Nat
      /\ z \in Nat /\ z - u \in Nat
  <2>1. s \in Pool /\ t \in DOMAIN s.block /\ t \in BlockId /\ PoolInv(s)
    BY <1>t, MoversAre DEF Empty
  <2>2. m.pool \in Pool /\ m.pool.block = s.block /\ m.pool.top = t /\ u \in Nat
    BY <1>t, <1>u DEF MoveInv, MoveTypes
  <2>3. z \in Nat
    BY <1>z, <2>1, BlockRoom
  <2>4. u <= z
    BY <1>t, <1>z, <1>u
  <2>. QED BY <2>1, <2>2, <2>3, <2>4
<1>1n. u \in Nat /\ z \in Nat
  BY <1>1
<1>1s. s \in Pool
  BY <1>1
<1>2. /\ q \in Pool /\ q.top = t /\ q.shared = m.pool.shared /\ q.buf = m.pool.buf
      /\ DOMAIN q.block = DOMAIN s.block
      /\ \A j \in DOMAIN s.block : j # t => q.block[j] = s.block[j]
      /\ q.block[t] = [size |-> z, free |-> z - u, freed |-> 0]
  <2>1. m.pool.top \in DOMAIN m.pool.block /\ q = Filled(m.pool, z - u)
    BY <1>1, <1>t, <1>z, <1>u
  <2>2. s.block[t].freed = 0 /\ s.block[t].size = z
    BY <1>t, <1>z
  <2>3. /\ q \in Pool /\ q.top = m.pool.top /\ q.shared = m.pool.shared /\ q.buf = m.pool.buf
        /\ DOMAIN q.block = DOMAIN m.pool.block
        /\ \A j \in DOMAIN m.pool.block : j # m.pool.top => q.block[j] = m.pool.block[j]
        /\ q.block[m.pool.top] = [size |-> m.pool.block[m.pool.top].size, free |-> z - u,
                                  freed |-> m.pool.block[m.pool.top].freed]
    BY <1>1, <2>1, FilledIs
  <2>. QED BY <1>1, <2>2, <2>3
<1>17. /\ q.block[t].size = z /\ q.block[t].freed = 0 /\ q.block[t].free = z - u
       /\ q.block[t].size - q.block[t].free = u
  <2>1. PICK r : r = [size |-> z, free |-> z - u, freed |-> 0]
    OBVIOUS
  <2>2. r.size = z /\ r.freed = 0 /\ r.free = z - u
    BY <2>1
  <2>3. q.block[t] = r
    BY <1>2, <2>1
  <2>4. z - (z - u) = u
    BY <1>1n
  <2>. QED BY <2>2, <2>3, <2>4
<1>3. /\ \A h \in Stored(s) : h \in Header /\ s.buf[h] \in Storage /\ s.buf[h].block # t
      /\ \A h \in Stored(s) : s.buf[h].block \in DOMAIN s.block
      /\ \A h \in Stored(s) : h <= Headers
  <2>1. ASSUME NEW h \in Stored(s)
        PROVE  h \in Header /\ s.buf[h] \in Storage /\ h <= Headers
    <3>1. h \in Header /\ s.buf[h] \in Storage
      BY <1>1s, StoredIs
    <3>. QED BY <3>1, StringGcAssumption DEF Header
  <2>2. ASSUME NEW h \in Stored(s) PROVE s.buf[h].block # t
    BY <1>t DEF Empty
  <2>3. ASSUME NEW h \in Stored(s) PROVE s.buf[h].block \in DOMAIN s.block
    <3>1. Within(s, s.buf[h])
      BY DEF Empty, PoolInv, AllWithin
    <3>. QED BY <3>1 DEF Within
  <2>. QED BY <2>1, <2>2, <2>3
<1>4. \A h \in Stored(s) : h \in M \/ AlmostFull(s.block[s.buf[h].block])
  BY <1>m, <1>3 DEF Movers
<1>5. \A h \in M : /\ h \in Stored(s) /\ q.buf[h] \in Storage /\ q.buf[h] # NoStorage
                   /\ q.buf[h].block = t /\ q.buf[h].size = s.buf[h].size
                   /\ q.buf[h].at + s.buf[h].size <= u
  <2>1. ASSUME NEW h \in M
        PROVE  /\ m.pool.buf[h] \in Storage
               /\ m.pool.buf[h].block = s.top /\ m.pool.buf[h].size = s.buf[h].size
               /\ m.pool.buf[h].at + s.buf[h].size <= m.used
    BY <1>m DEF MoveInv, MovedOnly
  <2>4. NoStorage \notin Storage
    BY <1>1s, StoredIs
  <2>2. q.buf = m.pool.buf
    BY <1>2
  <2>3. M \subseteq Stored(s)
    BY <1>m DEF Movers
  <2>. QED BY <1>t, <1>u, <2>1, <2>2, <2>3, <2>4
<1>6. \A h \in Header \ M : q.buf[h] = s.buf[h]
  BY <1>2, <1>m DEF MoveInv, MovedOnly
<1>7. Stored(q) = Stored(s)
  BY <1>5, <1>6 DEF Stored
<1>8. \A h \in Stored(s) \ M : q.buf[h] = s.buf[h] /\ q.buf[h].block # t
  BY <1>3, <1>6
<1>9. Types(q)
  BY <1>1, <1>2 DEF Types, MoveInv, MovedShared, PoolInv
<1>10. AllWithin(q)
  <2>1. ASSUME NEW h \in M PROVE Within(q, q.buf[h])
    <3>1. t \in DOMAIN q.block
      BY <1>1, <1>2
    <3>. QED BY <1>5, <1>17, <3>1 DEF Within
  <2>2. ASSUME NEW h \in Stored(s) \ M PROVE Within(q, q.buf[h])
    <3>1. Within(s, s.buf[h]) /\ q.buf[h] = s.buf[h] /\ s.buf[h].block # t
      BY <1>1, <1>3, <1>8 DEF PoolInv, AllWithin
    <3>. QED BY <1>2, <3>1 DEF Within
  <2>. QED BY <1>7, <2>1, <2>2 DEF AllWithin
<1>11. AllApart(q)
  <2>1. ASSUME NEW g \in Stored(s), NEW h \in Stored(s) PROVE Apart(q.buf[g], q.buf[h])
    <3>1. CASE g \in M /\ h \in M
      <4>1. Apart(m.pool.buf[g], m.pool.buf[h])
        BY <1>m, <3>1 DEF MoveInv, MovedApart
      <4>. QED BY <1>2, <4>1
    <3>2. CASE g \in M <=> h \notin M
      BY <1>5, <1>8, <3>2 DEF Apart
    <3>3. CASE g \notin M /\ h \notin M
      BY <1>1, <1>8, <3>3 DEF PoolInv, AllApart
    <3>. QED BY <3>1, <3>2, <3>3
  <2>. QED BY <1>7, <2>1 DEF AllApart
<1>12. \A g, h \in Stored(s) : s.buf[g] = s.buf[h] <=> q.buf[g] = q.buf[h]
  <2>1. ASSUME NEW g \in Stored(s), NEW h \in Stored(s) PROVE s.buf[g] = s.buf[h] <=> q.buf[g] = q.buf[h]
    <3>. DEFINE almost(f) == AlmostFull(s.block[s.buf[f].block])
    <3>5. \A f \in M : f \in Stored(s) /\ ~almost(f)
      BY <1>m DEF Movers
    <3>6. \A f \in Stored(s) \ M : almost(f)
      BY <1>4
    <3>1. CASE g \in M /\ h \in M
      <4>1. s.buf[g] = s.buf[h] <=> m.pool.buf[g] = m.pool.buf[h]
        BY <1>m, <3>1 DEF MoveInv, MovedApart
      <4>. QED BY <1>2, <4>1
    <3>7. ASSUME NEW f \in M, NEW e \in Stored(s) \ M PROVE s.buf[f] # s.buf[e] /\ q.buf[f] # q.buf[e]
      BY <1>5, <1>8, <3>5, <3>6
    <3>2. CASE g \in M /\ h \notin M
      BY <3>2, <3>7
    <3>3. CASE g \notin M /\ h \in M
      BY <3>3, <3>7
    <3>4. CASE g \notin M /\ h \notin M
      BY <1>8, <3>4
    <3>. QED BY <3>1, <3>2, <3>3, <3>4
  <2>. QED BY <2>1
<1>13. SharedNoted(q)
  <2>1. ASSUME NEW g \in Stored(s), NEW h \in Stored(s), g # h, q.buf[g] = q.buf[h]
        PROVE  PlaceOf(q.buf[h]) \in q.shared
    <3>1. CASE g \in M /\ h \in M
      BY <1>2, <1>m, <2>1, <3>1 DEF MoveInv, MovedShared
    <3>2. CASE h \notin M
      <4>1. PlaceOf(s.buf[h]) \in s.shared
        BY <1>1, <1>12, <2>1 DEF PoolInv, SharedNoted
      <4>. QED BY <1>2, <1>8, <3>2, <4>1 DEF MoveInv, MovedShared
    <3>3. CASE g \notin M /\ h \in M
      BY <1>5, <1>8, <2>1, <3>3
    <3>. QED BY <3>1, <3>2, <3>3
  <2>. QED BY <1>7, <2>1 DEF SharedNoted
<1>14. ASSUME NEW i \in DOMAIN q.block
       PROVE  IsFiniteSet(Words(q, i)) /\ Cardinality(Words(q, i)) <= InUse(q.block[i])
  <2>1. CASE i = t
    <3>1. IsFiniteSet(0..u - 1) /\ Cardinality(0..u - 1) = u
      <4>1. u - 1 \in Int /\ (IF 0 > u - 1 THEN 0 ELSE u - 1 - 0 + 1) = u
        BY <1>1
      <4>. DEFINE w == u - 1
      <4>2. w \in Int /\ (IF 0 > w THEN 0 ELSE w - 0 + 1) = u
        BY <4>1
      <4>. HIDE DEF w
      <4>3. IsFiniteSet(0..w) /\ Cardinality(0..w) = u
        BY <4>2, FS_Interval
      <4>. QED BY <4>3 DEF w
    <3>2. Words(q, t) \in SUBSET (0..u - 1)
      <4>1. ASSUME NEW h \in Stored(q), q.buf[h].block = t PROVE Span(q.buf[h]) \subseteq 0..u - 1
        <5>1. h \in M
          BY <1>7, <1>8, <4>1
        <5>2. q.buf[h].at \in Nat /\ q.buf[h].size \in Nat /\ q.buf[h].at + q.buf[h].size <= u
          BY <1>5, <5>1 DEF Storage
        <5>3. q.buf[h] \in Storage /\ u \in Nat
          BY <1>1, <1>5, <5>1
        <5>. QED BY <5>2, <5>3, SpanBelow
      <4>. QED BY <4>1, WordsWithin
    <3>3. IsFiniteSet(Words(q, t)) /\ Cardinality(Words(q, t)) <= Cardinality(0..u - 1)
      BY <3>1, <3>2, FS_Subset
    <3>4. InUse(q.block[t]) = u
      <4>1. InUse(q.block[t]) = z - 0 - (z - u)
        BY Zenon, <1>17 DEF InUse
      <4>. QED BY <1>1n, <4>1
    <3>. QED BY <2>1, <3>1, <3>3, <3>4
  <2>2. CASE i # t
    <3>1. Words(q, i) \in SUBSET Words(s, i)
      <4>1. ASSUME NEW h \in Stored(q), q.buf[h].block = i PROVE Span(q.buf[h]) \subseteq Words(s, i)
        <5>1. h \in Stored(s)
          BY <1>7, <4>1
        <5>2. h \notin M
          BY <1>5, <2>2, <4>1
        <5>3. q.buf[h] = s.buf[h]
          BY <1>8, <5>1, <5>2
        <5>. QED BY <4>1, <5>1, <5>3 DEF Words
      <4>. QED BY <4>1, WordsWithin
    <3>2. IsFiniteSet(Words(s, i)) /\ Cardinality(Words(s, i)) <= InUse(q.block[i])
      BY <1>1, <1>2, <2>2 DEF PoolInv, WordsCounted
    <3>3. IsFiniteSet(Words(q, i)) /\ Cardinality(Words(q, i)) <= Cardinality(Words(s, i))
      BY <3>1, <3>2, FS_Subset
    <3>4. Cardinality(Words(q, i)) \in Nat /\ Cardinality(Words(s, i)) \in Nat /\ InUse(q.block[i]) \in Int
      BY <1>2, <3>2, <3>3, FS_CardinalityType, BlocksAre
    <3>. QED BY <3>2, <3>3, <3>4
  <2>. QED BY <2>1, <2>2
<1>15. Follows(s, q)
  <2>1. \A h \in Stored(q) : q.buf[h].size = s.buf[h].size
    BY <1>5, <1>7, <1>8
  <2>2. \A g, h \in Stored(q) : s.buf[g] = s.buf[h] <=> q.buf[g] = q.buf[h]
    BY <1>7, <1>12
  <2>. QED BY <1>7, <2>1, <2>2 DEF Follows
<1>16. ASSUME NEW h \in Stored(q), q.buf[h].block # q.top PROVE AlmostFull(q.block[q.buf[h].block])
  <2>1. h \in Stored(s) \ M
    BY <1>2, <1>5, <1>7, <1>16
  <2>2. AlmostFull(s.block[s.buf[h].block]) /\ q.buf[h] = s.buf[h]
    BY <1>4, <1>8, <2>1
  <2>. QED BY <1>2, <1>3, <2>1, <2>2
<1>18. PoolInv(q)
  <2>1. WordsCounted(q)
    BY <1>14 DEF WordsCounted
  <2>. QED BY <1>9, <1>10, <1>11, <1>13, <2>1 DEF PoolInv
<1>. QED BY <1>2, <1>t, <1>7, <1>15, <1>16, <1>18
-----------------------------------------------------------------------------
LEMMA NumbersFinite ==
  ASSUME NEW p, p \in Pool
  PROVE  IsFiniteSet(DOMAIN p.block) /\ DOMAIN p.block \in SUBSET BlockId
<1>1. p.block \in BlockMap
  BY DEF Pool
<1>2. IsFiniteSet(BlockId)
  BY StringGcAssumption, FS_Interval DEF BlockId
<1>. QED BY <1>1, <1>2, BlockMapIs, FS_Subset

(* The size asked for the new block suffices for what is to be moved, and if
   nothing is asked for then the sparse blocks are empty. *)
LEMMA TotalSuffices ==
  ASSUME NEW p, PoolInv(p), NEW ids \in SUBSET DOMAIN p.block, NEW total,
         total = SumFunction([i \in Sparse(p, ids) |-> InUse(p.block[i])])
  PROVE  LET W == [i \in Sparse(p, ids) |-> Words(p, i)]
         IN  /\ total \in Nat
             /\ IsFiniteSet(Tagged(Sparse(p, ids), W))
             /\ Cardinality(Tagged(Sparse(p, ids), W)) <= total
             /\ total = 0 => \A h \in Stored(p) : p.buf[h].block \notin Sparse(p, ids)
<1>. DEFINE S == Sparse(p, ids)
            f == [i \in S |-> InUse(p.block[i])]
            W == [i \in S |-> Words(p, i)]
<1>1. p \in Pool /\ S \in SUBSET DOMAIN p.block /\ IsFiniteSet(S)
  <2>1. p \in Pool
    BY DEF PoolInv, Types
  <2>2. S \in SUBSET DOMAIN p.block
    BY DEF Sparse
  <2>. QED BY <2>1, <2>2, NumbersFinite, FS_Subset
<1>. HIDE DEF S
<1>2. \A i \in S : InUse(p.block[i]) \in Nat
  BY <1>1, BlockRoom
<1>3. f \in [S -> Nat]
  BY <1>2
<1>4. \A i \in S : IsFiniteSet(W[i]) /\ Cardinality(W[i]) <= f[i]
  BY <1>1 DEF PoolInv, WordsCounted
<1>5. total = SumFunction(f)
  BY DEF S
<1>6. \A i \in S : f[i] = InUse(p.block[i]) /\ W[i] = Words(p, i)
  OBVIOUS
<1>. HIDE DEF f, W
<1>7. /\ total \in Nat /\ IsFiniteSet(Tagged(S, W)) /\ Cardinality(Tagged(S, W)) <= total
      /\ total = 0 => \A i \in S : f[i] = 0
  BY <1>1, <1>3, <1>4, <1>5, SumBounds
<1>8. ASSUME total = 0, NEW h \in Stored(p) PROVE p.buf[h].block \notin S
  <2>. SUFFICES ASSUME p.buf[h].block \in S PROVE FALSE
    OBVIOUS
  <2>. DEFINE i == p.buf[h].block
  <2>1. IsFiniteSet(Words(p, i)) /\ Cardinality(Words(p, i)) <= 0
    BY <1>4, <1>6, <1>7, <1>8
  <2>2. Cardinality(Words(p, i)) \in Nat
    BY <2>1, FS_CardinalityType
  <2>3. Words(p, i) = {}
    BY <2>1, <2>2, FS_EmptySet
  <2>4. Span(p.buf[h]) # {} /\ Span(p.buf[h]) \subseteq Words(p, i)
    BY <1>1, StoredIs, SpanSize DEF Words
  <2>. QED BY <2>3, <2>4
<1>. QED BY <1>7, <1>8 DEF S, W

LEMMA CompactKeeps ==
  ASSUME NEW p, PoolInv(p), Few(p, Blocks), NEW q, q = Compact(p)
  PROVE  PoolInv(q) /\ Follows(p, q) /\ Stored(q) = Stored(p) /\ Few(q, Blocks + 1)
<1>. DEFINE total(ids) == SumFunction([i \in Sparse(p, ids) |-> InUse(p.block[i])])
            D == DOMAIN p.block
            T == total(D)
            s == NewBlock(p, T)
            m == Moved(s)
            r == Filled(m.pool, s.block[s.top].size - m.used)
<1>1. p \in Pool /\ IsFiniteSet(D) /\ Cardinality(D) \in Nat /\ Blocks \in Nat
  BY NumbersFinite, FS_CardinalityType, StringGcAssumption DEF PoolInv, Types
<1>2. CASE total(D \ {p.top}) = 0
  <2>1. q = FreeOldBlocks(p)
    BY <1>2 DEF Compact
  <2>2. \A h \in Stored(p) : p.buf[h].block \notin Sparse(p, D \ {p.top})
    BY <1>2, TotalSuffices
  <2>3. PoolInv(q) /\ Follows(p, q) /\ Stored(q) = Stored(p) /\ DOMAIN q.block \in SUBSET D
    BY <2>1, <2>2, FreeOldKeeps
  <2>4. Cardinality(DOMAIN q.block) <= Cardinality(D) /\ Cardinality(DOMAIN q.block) \in Nat
    BY <1>1, <2>3, FS_Subset, FS_CardinalityType
  <2>. QED BY <1>1, <2>3, <2>4 DEF Few
<1>3. CASE total(D \ {p.top}) # 0
  <2>. DEFINE S == Sparse(p, D)
              W == [i \in S |-> Words(p, i)]
  <2>1. /\ T \in Nat /\ IsFiniteSet(Tagged(S, W)) /\ Cardinality(Tagged(S, W)) <= T
        /\ S \subseteq D /\ \A i \in D : ~AlmostFull(p.block[i]) => i \in S
    BY TotalSuffices DEF Sparse
  <2>2. /\ Few(p, Blocks + 1) /\ Few(p, Blocks)
    BY <1>1 DEF Few
  <2>. HIDE DEF T
  <2>3. /\ PoolInv(s) /\ Follows(p, s) /\ Stored(s) = Stored(p) /\ Few(s, Blocks + 1)
    BY <1>1, <2>1, <2>2, NewBlockKeeps
  <2>4. /\ s.top \in BlockId \ D /\ s.buf = p.buf /\ DOMAIN s.block = D \cup {s.top}
        /\ \A i \in D : s.block[i] = p.block[i]
        /\ s.block[s.top].size \in Nat /\ s.block[s.top].size >= T
        /\ s.block[s.top].free = s.block[s.top].size /\ s.block[s.top].freed = 0
    BY <2>1, <2>2, NewBlockIs
  <2>. HIDE DEF s
  <2>5. \A h \in Stored(s) : s.buf[h].block \in D /\ s.buf[h].block # s.top
    BY <2>3, <2>4 DEF PoolInv, AllWithin, Within
  <2>6. Empty(s)
    <3>1. ~AlmostFull(s.block[s.top])
      BY <2>4 DEF AlmostFull
    <3>. QED BY <2>3, <2>5, <3>1 DEF Empty
  <2>7. MoveInv(s, Headers, m) /\ m.pool.top = s.top /\ m.used \in Nat
    BY <2>6, MoveKeeps DEF MoveInv, MoveTypes
  <2>8. q = FreeOldBlocks(r)
    BY <1>3, <2>7 DEF Compact, Filled, s, T
  <2>. HIDE DEF m
  <2>9. m.used <= s.block[s.top].size
    <3>1. OldWords(s, Headers) \in SUBSET Tagged(S, W)
      <4>1. ASSUME NEW h \in Movers(s, Headers)
            PROVE  {s.buf[h].block} \X Span(s.buf[h]) \subseteq Tagged(S, W)
        <5>. DEFINE i == s.buf[h].block
        <5>1. h \in Stored(p) /\ s.buf[h] = p.buf[h] /\ i \in S
          BY <2>1, <2>3, <2>4, <2>5 DEF Movers
        <5>2. Span(s.buf[h]) \subseteq W[i]
          BY <5>1 DEF Words
        <5>. HIDE DEF W, S
        <5>. QED BY <5>1, <5>2 DEF Tagged
      <4>. QED BY <4>1 DEF OldWords
    <3>2. Cardinality(OldWords(s, Headers)) <= Cardinality(Tagged(S, W))
      BY <2>1, <3>1, FS_Subset
    <3>3. m.used = Cardinality(OldWords(s, Headers)) /\ Cardinality(Tagged(S, W)) \in Nat
      BY <2>1, <2>7, FS_CardinalityType DEF MoveInv, UsedCounts
    <3>. HIDE DEF S, W
    <3>. QED BY <2>1, <2>4, <2>7, <3>2, <3>3
  <2>10. /\ PoolInv(r) /\ Follows(s, r) /\ Stored(r) = Stored(s)
         /\ DOMAIN r.block = DOMAIN s.block /\ r.top = s.top
         /\ \A h \in Stored(r) : r.buf[h].block # r.top => AlmostFull(r.block[r.buf[h].block])
    BY <2>4, <2>6, <2>7, <2>9, FilledKeeps
  <2>. HIDE DEF r
  <2>11. \A h \in Stored(r) : r.buf[h].block \notin Sparse(r, DOMAIN r.block \ {r.top})
    BY <2>10 DEF Sparse
  <2>12. PoolInv(q) /\ Follows(r, q) /\ Stored(q) = Stored(r) /\ DOMAIN q.block \in SUBSET DOMAIN r.block
    BY <2>8, <2>10, <2>11, FreeOldKeeps
  <2>13. Few(q, Blocks + 1)
    <3>1. IsFiniteSet(DOMAIN r.block) /\ DOMAIN r.block = DOMAIN s.block
      BY <2>10, NumbersFinite DEF PoolInv, Types
    <3>2. /\ Cardinality(DOMAIN q.block) <= Cardinality(DOMAIN r.block)
          /\ Cardinality(DOMAIN q.block) \in Nat /\ Cardinality(DOMAIN r.block) \in Nat
      BY <2>12, <3>1, FS_Subset, FS_CardinalityType
    <3>3. Cardinality(DOMAIN r.block) <= Blocks + 1
      BY <2>3, <3>1 DEF Few
    <3>. QED BY <1>1, <3>2, <3>3 DEF Few
  <2>14. Follows(p, q)
    BY <2>3, <2>10, <2>12, FollowsTransitive
  <2>. QED BY <2>3, <2>10, <2>12, <2>13, <2>14
<1>. QED BY <1>2, <1>3

(* Whatever a collection frees and moves. *)
LEMMA CollectedKeeps ==
  ASSUME NEW p, PoolInv(p), Few(p, Blocks), NEW dead \in SUBSET Stored(p), NEW compacts,
         NEW q, q = Collected(p, dead, compacts)
  PROVE  PoolInv(q) /\ Follows(p, q) /\ Stored(q) = Stored(p) \ dead /\ Few(q, Blocks + 1)
<1>. DEFINE s == Swept(p, dead)
<1>1. PoolInv(s) /\ Follows(p, s) /\ Stored(s) = Stored(p) \ dead /\ DOMAIN s.block = DOMAIN p.block
  BY SweepKeeps
<1>2. Few(s, Blocks) /\ Few(s, Blocks + 1)
  <2>1. p \in Pool
    BY DEF PoolInv, Types
  <2>2. Cardinality(DOMAIN p.block) \in Nat /\ Blocks \in Nat
    BY <2>1, NumbersFinite, FS_CardinalityType, StringGcAssumption
  <2>. QED BY <1>1, <2>2 DEF Few
<1>. HIDE DEF s
<1>3. CASE compacts
  <2>1. q = Compact(s)
    BY <1>3 DEF Collected, s
  <2>. QED BY <1>1, <1>2, <2>1, CompactKeeps, FollowsTransitive
<1>4. CASE ~compacts
  <2>1. q = s
    BY <1>4 DEF Collected, s
  <2>. QED BY <1>1, <1>2, <2>1
<1>. QED BY <1>3, <1>4

(* What carving storage for header h starts from. *)
LEMMA BeforeCarvingKeeps ==
  ASSUME SgInv, NEW h, NEW size \in StorageSizes, NEW p \in BeforeCarving(h, size)
  PROVE  /\ PoolInv(p) /\ Follows(pool, p) /\ size <= p.block[p.top].free /\ size \in Nat \ {0}
         /\ h \in Stored(pool) <=> h \in Stored(p)
<1>1. /\ PoolInv(pool) /\ Few(pool, Blocks) /\ size \in Nat \ {0}
      /\ pool.top \in DOMAIN pool.block /\ pool \in Pool
  BY StringGcAssumption DEF SgInv, Bounded, Few, PoolInv, Types
<1>2. pool.block[pool.top].free \in Nat
  BY <1>1, BlocksAre
<1>3. CASE pool.block[pool.top].free >= size
  <2>1. p = pool
    BY <1>3 DEF BeforeCarving
  <2>. QED BY <1>1, <1>2, <1>3, <2>1, FollowsItself
<1>4. CASE p = Room(pool, size)
  <2>1. Cardinality(DOMAIN pool.block) \in Nat /\ Blocks \in Nat
    BY <1>1, NumbersFinite, FS_CardinalityType, StringGcAssumption
  <2>2. Few(pool, Blocks + 1)
    BY <1>1, <2>1 DEF Few
  <2>3. size \in Nat
    BY <1>1
  <2>. QED BY <1>1, <1>4, <2>2, <2>3, RoomKeeps
<1>5. ASSUME NEW dead \in SUBSET (Stored(pool) \ {h}), NEW compacts \in BOOLEAN,
             p = Room(Collected(pool, dead, compacts), size)
      PROVE  /\ PoolInv(p) /\ Follows(pool, p) /\ size <= p.block[p.top].free
             /\ h \in Stored(pool) <=> h \in Stored(p)
  <2>. DEFINE c == Collected(pool, dead, compacts)
  <2>1. PoolInv(c) /\ Follows(pool, c) /\ Stored(c) = Stored(pool) \ dead /\ Few(c, Blocks + 1)
    <3>1. dead \in SUBSET Stored(pool)
      OBVIOUS
    <3>. QED BY <1>1, <3>1, CollectedKeeps
  <2>2. p = Room(c, size) /\ size \in Nat
    BY <1>1, <1>5
  <2>. HIDE DEF c
  <2>3. PoolInv(p) /\ Follows(c, p) /\ Stored(p) = Stored(c) /\ size <= p.block[p.top].free
    BY <2>1, <2>2, RoomKeeps
  <2>4. Follows(pool, p)
    BY <2>1, <2>3, FollowsTransitive
  <2>. QED BY <2>1, <2>3, <2>4
<1>. QED BY <1>1, <1>3, <1>4, <1>5 DEF BeforeCarving

(* Storage is carved for a header no matter what it had. *)
LEMMA CarveAnyway ==
  ASSUME NEW p, p \in Pool, NEW h \in Header, NEW size,
         p.buf[h].block \in DOMAIN p.block, p.buf[h].size \in Nat, GiveUp(p, h) \in Pool
  PROVE  Carve(Freed(p, p.buf[h].block, p.buf[h].size), h, size) = Carve(GiveUp(p, h), h, size)
<1>. DEFINE k == p.buf[h].block
            n == p.buf[h].size
            a == Freed(p, k, n)
            q == GiveUp(p, h)
            at(r) == r.block[r.top].size - r.block[r.top].free
            b(r) == [block |-> r.top, at |-> at(r), size |-> size]
            c(r) == [block |-> [r.block EXCEPT ![r.top].free = @ - size],
                     top |-> r.top, minimum |-> r.minimum, buf |-> [r.buf EXCEPT ![h] = b(r)],
                     shared |-> r.shared \ {<<r.top, at(r)>>}]
<1>1. ASSUME NEW r \in Pool PROVE Carve(r, h, size) = c(r)
  <2>1. r = [block |-> r.block, top |-> r.top, minimum |-> r.minimum, buf |-> r.buf, shared |-> r.shared]
    BY DEF Pool
  <2>2. Carve(r, h, size) =
          [r EXCEPT !.buf[h] = b(r), !.shared = @ \ {<<r.top, at(r)>>}, !.block[r.top].free = @ - size]
    BY DEF Carve
  <2>. HIDE DEF b, at
  <2>. QED BY <2>1, <2>2
<1>2. a \in Pool
  BY FreedIs
<1>3. /\ q.block = a.block /\ q.top = a.top /\ q.minimum = a.minimum /\ q.shared = a.shared
      /\ a.buf = p.buf /\ q.buf = [p.buf EXCEPT ![h] = NoStorage]
  BY DEF Freed, GiveUp, Pool
<1>4. \A x : [a.buf EXCEPT ![h] = x] = [q.buf EXCEPT ![h] = x]
  <2>1. p.buf \in [Header -> {NoStorage} \cup Storage]
    BY DEF Pool
  <2>. QED BY <1>3, <2>1
<1>. HIDE DEF a, q
<1>5. c(a) = c(q)
  BY <1>3, <1>4
<1>6. Carve(a, h, size) = Carve(q, h, size)
  <2>1. q \in Pool
    BY DEF q
  <2>. HIDE DEF c
  <2>. QED BY <1>1, <1>2, <1>5, <2>1
<1>. QED BY <1>6 DEF a, q
-----------------------------------------------------------------------------
(* Sharing as a relation of two pools, whichever headers they have in use. *)
Kept(p, q) ==
  \A g, h \in Stored(p) \cap Stored(q) : p.buf[g] = p.buf[h] <=> q.buf[g] = q.buf[h]

LEMMA SgStep ==
  ASSUME SgInv, SgNext
  PROVE  SgInv' /\ Kept(pool, pool')
<1>1. /\ PoolInv(pool) /\ Bounded(pool) /\ pool \in Pool /\ Few(pool, Blocks)
      /\ Stored(pool) \subseteq Header
  BY StoredIs DEF SgInv, PoolInv, Types, Bounded, Few
<1>2. ASSUME NEW p, PoolInv(p), Follows(pool, p), NEW h \in Header, h \notin Stored(p), NEW size \in Nat \ {0},
             size <= p.block[p.top].free, pool' = Carve(p, h, size),
             h \in Stored(pool) => \A g \in Stored(p) : pool.buf[g] # pool.buf[h]
      PROVE  PoolInv(pool') /\ Kept(pool, pool')
  <2>1. /\ PoolInv(pool') /\ Stored(pool') = Stored(p) \cup {h}
        /\ \A g \in Stored(p) : pool'.buf[g] = p.buf[g] /\ pool'.buf[g] # pool'.buf[h]
    BY <1>2, CarveKeeps
  <2>2. Kept(pool, pool')
    BY <1>2, <2>1 DEF Kept, Follows
  <2>. QED BY <2>1, <2>2
<1>3. ASSUME NEW h \in Header, NEW size \in StorageSizes, SgAllocate(h, size)
      PROVE  PoolInv(pool') /\ Kept(pool, pool') /\ Bounded(pool')
  <2>1. PICK p \in BeforeCarving(h, size) : pool' = Carve(p, h, size)
    BY <1>3 DEF SgAllocate
  <2>2. h \notin Stored(pool) /\ Bounded(pool')
    BY <1>3 DEF SgAllocate
  <2>3. /\ PoolInv(p) /\ Follows(pool, p) /\ size <= p.block[p.top].free /\ size \in Nat \ {0}
        /\ h \notin Stored(p)
    BY <2>2, BeforeCarvingKeeps
  <2>. QED BY <1>2, <2>1, <2>2, <2>3
<1>4. ASSUME NEW h \in Stored(pool), PlaceOf(pool.buf[h]) \notin pool.shared, NEW p, Follows(pool, p)
      PROVE  \A g \in Stored(p) : g # h => pool.buf[g] # pool.buf[h]
  BY <1>1, <1>4 DEF PoolInv, SharedNoted, Follows
<1>5. ASSUME NEW h \in Header, NEW size \in StorageSizes, SgReallocate(h, size)
      PROVE  PoolInv(pool') /\ Kept(pool, pool') /\ Bounded(pool')
  <2>1. PICK p \in BeforeCarving(h, size) :
          pool' = Carve([p EXCEPT !.block[p.buf[h].block].freed = @ + p.buf[h].size], h, size)
    BY <1>5 DEF SgReallocate
  <2>2. h \in Stored(pool) /\ Bounded(pool') /\ PlaceOf(pool.buf[h]) \notin pool.shared
    BY <1>5 DEF SgReallocate
  <2>3. /\ PoolInv(p) /\ Follows(pool, p) /\ size <= p.block[p.top].free /\ size \in Nat \ {0}
        /\ h \in Stored(p)
    BY <2>2, BeforeCarvingKeeps
  <2>. DEFINE q == GiveUp(p, h)
  <2>4. \A g \in Stored(p) : g # h => pool.buf[g] # pool.buf[h] /\ p.buf[g] # p.buf[h]
    BY <1>4, <2>2, <2>3 DEF Follows
  <2>5. /\ PoolInv(q) /\ Follows(p, q) /\ Stored(q) = Stored(p) \ {h}
        /\ q.top = p.top /\ \A i \in DOMAIN p.block : q.block[i].free = p.block[i].free
    BY <2>3, <2>4, GiveUpKeeps
  <2>6. pool' = Carve(q, h, size)
    <3>1. p \in Pool /\ p.buf[h].block \in DOMAIN p.block /\ p.buf[h].size \in Nat
      BY <2>3, StoredIs DEF PoolInv, Types, AllWithin, Within
    <3>2. pool' = Carve(Freed(p, p.buf[h].block, p.buf[h].size), h, size)
      BY <2>1 DEF Freed
    <3>3. q \in Pool
      BY <2>5 DEF PoolInv, Types
    <3>. QED BY <3>1, <3>2, <3>3, CarveAnyway
  <2>. HIDE DEF q
  <2>7. size <= q.block[q.top].free /\ Follows(pool, q) /\ h \notin Stored(q)
        /\ \A g \in Stored(q) : pool.buf[g] # pool.buf[h]
    BY <2>3, <2>4, <2>5, FollowsTransitive DEF PoolInv, Types
  <2>. QED BY <1>2, <2>2, <2>3, <2>5, <2>6, <2>7
<1>6. ASSUME NEW h \in Header, NEW size \in StorageSizes, SgReallocateBuffer(h, size)
      PROVE  PoolInv(pool') /\ Kept(pool, pool') /\ Bounded(pool')
  <2>1. PICK p \in BeforeCarving(h, size) : pool' = Carve(p, h, size)
    BY <1>6 DEF SgReallocateBuffer
  <2>2. h \in Stored(pool) /\ Bounded(pool') /\ PlaceOf(pool.buf[h]) \notin pool.shared
    BY <1>6 DEF SgReallocateBuffer
  <2>3. /\ PoolInv(p) /\ Follows(pool, p) /\ size <= p.block[p.top].free /\ size \in Nat \ {0}
        /\ p \in Pool
    BY <2>2, BeforeCarvingKeeps DEF PoolInv, Types
  <2>. DEFINE q == DropFrom(p, h)
  <2>4. PoolInv(q) /\ Follows(p, q) /\ Stored(q) = Stored(p) \ {h} /\ q.top = p.top /\ q.block = p.block
    BY <2>3, DropKeeps, DropIs
  <2>5. pool' = Carve(q, h, size)
    BY <2>1, <2>3 DEF Carve, DropFrom, Pool
  <2>. HIDE DEF q
  <2>6. size <= q.block[q.top].free /\ Follows(pool, q) /\ h \notin Stored(q)
    BY <2>3, <2>4, FollowsTransitive
  <2>7. \A g \in Stored(q) : pool.buf[g] # pool.buf[h]
    BY <1>4, <2>2, <2>6
  <2>. QED BY <1>2, <2>2, <2>3, <2>4, <2>5, <2>6, <2>7
<1>7. ASSUME NEW h \in Header, NEW new \in Header, SgCopy(h, new)
      PROVE  PoolInv(pool') /\ Kept(pool, pool') /\ Bounded(pool')
  <2>. DEFINE b == pool.buf[h]
              x == {PlaceOf(b)}
  <2>1. h \in Stored(pool) /\ new \notin Stored(pool) /\ pool' = Rehoused(pool, new, b, x)
    BY <1>7 DEF SgCopy, Rehoused
  <2>2. b \in Storage /\ b.block \in DOMAIN pool.block
    BY <1>1, <2>1, StoredIs DEF PoolInv, AllWithin, Within
  <2>3. x \in SUBSET (BlockId \X Nat) /\ PlaceOf(b) = <<b.block, b.at>>
    BY <2>2 DEF PlaceOf, Storage
  <2>. HIDE DEF b, x
  <2>4. /\ pool' \in Pool /\ pool'.block = pool.block /\ pool'.top = pool.top /\ pool'.shared = pool.shared \cup x
        /\ pool'.buf[new] = b /\ \A g \in Header : g # new => pool'.buf[g] = pool.buf[g]
    BY <1>1, <2>1, <2>2, <2>3, RehousedIs
  <2>5. /\ Stored(pool') = Stored(pool) \cup {new}
        /\ \A g \in Stored(pool) : pool'.buf[g] = pool.buf[g]
    BY <1>1, <2>1, <2>2, <2>4, StoredIs DEF Stored
  <2>6. Types(pool')
    BY <1>1, <2>2, <2>3, <2>4 DEF PoolInv, Types, x
  <2>11. \A g \in Stored(pool') : \E f \in Stored(pool) : pool'.buf[g] = pool.buf[f]
    BY <2>1, <2>4, <2>5 DEF b
  <2>12. \A c : Within(pool, c) => Within(pool', c)
    BY <2>4 DEF Within
  <2>7. AllWithin(pool') /\ AllApart(pool')
    BY <1>1, <2>11, <2>12 DEF PoolInv, AllWithin, AllApart
  <2>8. SharedNoted(pool')
    BY <1>1, <2>1, <2>4, <2>5 DEF PoolInv, SharedNoted, x
  <2>9. \A i : Words(pool', i) = Words(pool, i)
    BY <2>1, <2>4, <2>5 DEF Words, b
  <2>10. PoolInv(pool') /\ Bounded(pool')
    BY <1>1, <2>4, <2>6, <2>7, <2>8, <2>9 DEF PoolInv, WordsCounted, Bounded
  <2>. QED BY <2>1, <2>5, <2>10 DEF Kept
<1>8. ASSUME NEW h \in Header, SgFree(h)
      PROVE  PoolInv(pool') /\ Kept(pool, pool') /\ Bounded(pool')
  <2>1. /\ PoolInv(pool') /\ Follows(pool, pool') /\ Stored(pool') = Stored(pool) \ {h}
        /\ DOMAIN pool'.block = DOMAIN pool.block
    BY <1>1, <1>8, ReleaseKeeps DEF SgFree
  <2>. QED BY <1>1, <2>1 DEF Kept, Follows, Bounded
<1>9. ASSUME NEW dead \in SUBSET Stored(pool), SgCollect(dead)
      PROVE  PoolInv(pool') /\ Kept(pool, pool') /\ Bounded(pool')
  <2>1. pool' = Collected(pool, dead, TRUE) /\ Bounded(pool')
    BY <1>9 DEF SgCollect
  <2>2. PoolInv(pool') /\ Follows(pool, pool')
    BY <1>1, <2>1, CollectedKeeps
  <2>. QED BY <2>1, <2>2 DEF Kept, Follows
<1>. QED BY <1>3, <1>5, <1>6, <1>7, <1>8, <1>9 DEF SgNext, SgInv, PoolInv, Bounded,
        Types, AllWithin, Within, AllApart, SharedNoted, WordsCounted, Words, Stored

LEMMA SgStart == SgInit => SgInv
<1>. SUFFICES ASSUME SgInit PROVE SgInv
  OBVIOUS
<1>. DEFINE new == [size |-> MinimumBlock, free |-> MinimumBlock, freed |-> 0]
            f == [i \in {1} |-> new]
<1>1. MinimumBlock \in Nat /\ Blocks \in Nat /\ Blocks >= 1 /\ 1 \in BlockId
  BY StringGcAssumption DEF BlockId
<1>2. new \in MemoryBlock /\ InUse(new) = 0
  BY <1>1 DEF MemoryBlock, InUse
<1>3. pool.block = f /\ pool.top = 1 /\ pool.shared = {} /\ pool.minimum = MinimumBlock
      /\ pool.buf = [h \in Header |-> NoStorage]
      /\ pool = [block |-> f, top |-> 1, minimum |-> MinimumBlock,
                 buf |-> [h \in Header |-> NoStorage], shared |-> {}]
  BY DEF SgInit
<1>. HIDE DEF new
<1>4. f \in BlockMap
  BY <1>1, <1>2, BlockMapIs
<1>5. pool \in Pool
  BY <1>1, <1>3, <1>4 DEF Pool
<1>6. Stored(pool) = {} /\ \A i : Words(pool, i) = {}
  BY <1>3 DEF Stored, Words
<1>7. DOMAIN pool.block = {1} /\ pool.block[1] = new
  BY <1>3
<1>8. Cardinality({1}) = 1 /\ IsFiniteSet({}) /\ Cardinality({}) = 0
  BY FS_Singleton, FS_EmptySet
<1>. QED BY <1>1, <1>2, <1>3, <1>5, <1>6, <1>7, <1>8
     DEF SgInv, PoolInv, Types, AllWithin, AllApart, SharedNoted, WordsCounted, Bounded

LEMMA SgInductive == SgInv /\ [SgNext]_pool => SgInv'
<1>1. CASE SgNext
  BY <1>1, SgStep
<1>2. CASE UNCHANGED pool
  BY <1>2 DEF SgInv, PoolInv, Bounded,
     Types, AllWithin, Within, AllApart, SharedNoted, WordsCounted, Words, Stored
<1>. QED BY <1>1, <1>2

(* The sizes of different storages in a block are their words together. *)
LEMMA LiveCounted ==
  ASSUME NEW p, PoolInv(p), NEW i \in DOMAIN p.block
  PROVE  LET living == {p.buf[h] : h \in {g \in Stored(p) : p.buf[g].block = i}}
         IN  SumFunction([b \in living |-> b.size]) <= InUse(p.block[i])
<1>. DEFINE L == {g \in Stored(p) : p.buf[g].block = i}
            living == {p.buf[h] : h \in L}
            W == [b \in living |-> Span(b)]
            f == [b \in living |-> b.size]
<1>1. /\ p \in Pool /\ \A b \in living : b \in Storage /\ b.block = i
      /\ L \in SUBSET Header
  BY StoredIs DEF PoolInv, Types
<1>2. IsFiniteSet(living)
  <2>1. IsFiniteSet(Header)
    BY StringGcAssumption, FS_Interval DEF Header
  <2>2. IsFiniteSet(L)
    BY <1>1, <2>1, FS_Subset
  <2>. DEFINE e == [h \in L |-> p.buf[h]]
  <2>. HIDE DEF L
  <2>3. e \in Surjection(L, living)
    BY DEF Surjection
  <2>. HIDE DEF e, living
  <2>. QED BY <2>2, <2>3, FS_Surjection
<1>3. \A b \in living : IsFiniteSet(W[b]) /\ Cardinality(W[b]) = f[b] /\ W[b] = Span(b)
  <2>. HIDE DEF living
  <2>1. \A b \in living : IsFiniteSet(Span(b)) /\ Cardinality(Span(b)) = b.size
    BY <1>1, SpanSize
  <2>. QED BY <2>1
<1>4. f = [b \in living |-> Cardinality(W[b])]
  BY <1>3
<1>5. \A b \in living : Span(b) \subseteq Words(p, i)
  BY DEF Words
<1>6. \A b, c \in living : b # c => Span(b) \cap Span(c) = {}
  <2>1. \A b, c \in living : Apart(b, c)
    BY DEF PoolInv, AllApart
  <2>. HIDE DEF living
  <2>. QED BY <1>1, <2>1, SpansApart
<1>7. IsFiniteSet(Words(p, i)) /\ Cardinality(Words(p, i)) <= InUse(p.block[i]) /\ InUse(p.block[i]) \in Int
  BY <1>1, BlocksAre DEF PoolInv, WordsCounted
<1>. HIDE DEF living, f, W
<1>8. SumFunction(f) = Cardinality(Tagged(living, W)) /\ IsFiniteSet(Tagged(living, W))
  BY <1>2, <1>3, <1>4, SumOfSizes, TaggedFinite
<1>. DEFINE e == [x \in Tagged(living, W) |-> x[2]]
<1>9. e \in Injection(Tagged(living, W), Words(p, i))
  <2>1. \A x \in Tagged(living, W) : x = <<x[1], x[2]>> /\ x[1] \in living /\ x[2] \in Span(x[1])
    BY <1>3 DEF Tagged
  <2>2. e \in [Tagged(living, W) -> Words(p, i)]
    BY <1>5, <2>1
  <2>3. ASSUME NEW x \in Tagged(living, W), NEW y \in Tagged(living, W), e[x] = e[y] PROVE x = y
    <3>1. x[2] = y[2]
      BY <2>3
    <3>2. x[1] = y[1]
      BY <1>6, <2>1, <3>1
    <3>. QED BY <2>1, <3>1, <3>2
  <2>. HIDE DEF e
  <2>. QED BY <2>2, <2>3 DEF Injection, IsInjective
<1>. HIDE DEF e
<1>10. Cardinality(Tagged(living, W)) <= Cardinality(Words(p, i))
  BY <1>7, <1>9, FS_Injection
<1>11. Cardinality(Tagged(living, W)) \in Nat /\ Cardinality(Words(p, i)) \in Nat
  BY <1>7, <1>8, FS_CardinalityType
<1>12. SumFunction(f) <= InUse(p.block[i])
  BY <1>7, <1>8, <1>10, <1>11
<1>. QED BY <1>12 DEF f, living

(* No string loses its bytes to another: the storages of the live headers lie
   where they were handed out, and apart, whatever alloc, realloc, copy, free
   and compact_pool do and in whatever order. *)
THEOREM SgStoragesApartAlways == SgSpec => []SgStoragesApart
<1>1. SgInv => SgStoragesApart
  BY DEF SgInv, PoolInv, AllWithin, Within, AllApart, Apart, SgStoragesApart
<1>. QED BY <1>1, SgStart, SgInductive, PTL DEF SgSpec

(* The sizes, free and freed counts of the blocks never say less than what is
   live in them, so that the block a compaction asks for suffices. *)
THEOREM SgCountsCoverAlways == SgSpec => []SgCountsCover
<1>1. SgInv => SgCountsCover
  BY LiveCounted DEF SgInv, SgCountsCover
<1>. QED BY <1>1, SgStart, SgInductive, PTL DEF SgSpec

(* move_one_buffer keeps headers together that share storage, and no others. *)
THEOREM SgSharingKeptAlways == SgSpec => SgSharingKept
<1>1. SgInv /\ [SgNext]_pool =>
        [\A g, h \in Stored(pool) \cap {x \in Header : pool'.buf[x] # NoStorage} :
           (pool.buf[g] = pool.buf[h]) <=> (pool'.buf[g] = pool'.buf[h])]_pool
  <2>1. SgInv /\ SgNext => Kept(pool, pool')
    BY SgStep
  <2>. QED BY <2>1 DEF Kept, Stored
<1>. QED BY <1>1, SgStart, SgInductive, PTL DEF SgSpec, SgSharingKept
=============================================================================
