-------------------------------- MODULE Heap --------------------------------
(***************************************************************************)
(* What a garbage collected heap promises to the interpreter that uses it, *)
(* with no generations, lists, marks or barriers: objects appear, are      *)
(* linked and unlinked, and vanish only when no root leads to them.  The   *)
(* collector of src/gc/gc_gms.c is shown to implement this module.         *)
(***************************************************************************)
EXTENDS Naturals

CONSTANT Obj                  \* the headers (PMCs and strings) of the heap

VARIABLES
  allocated,                  \* the headers that are in use
  refs,                       \* refs[o]: what o points to
  roots                       \* what the interpreter and the C stack point to

heapVars == <<allocated, refs, roots>>

(***************************************************************************)
(* An object is reachable when it belongs to every set that contains the   *)
(* roots and is closed under references.                                   *)
(***************************************************************************)
Closed(S) == \A o \in S : refs[o] \subseteq S

Reachable ==
  {o \in Obj : \A S \in SUBSET Obj : roots \subseteq S /\ Closed(S) => o \in S}

Init ==
  /\ allocated = {}
  /\ refs = [o \in Obj |-> {}]
  /\ roots = {}

\* A new header starts empty and in the hands of its creator.
New(o) ==
  /\ o \notin allocated
  /\ allocated' = allocated \cup {o}
  /\ roots' = roots \cup {o}
  /\ UNCHANGED refs

\* The interpreter picks up and lets go of objects it can reach.
Hold ==
  /\ roots' \in SUBSET Reachable
  /\ UNCHANGED <<allocated, refs>>

\* A reachable object is changed: it points to reachable objects afterwards.
Update(o) ==
  /\ o \in Reachable
  /\ \E S \in SUBSET Reachable : refs' = [refs EXCEPT ![o] = S]
  /\ UNCHANGED <<allocated, roots>>

\* The owner of a header that nothing else refers to gives it back.
Release(o) ==
  /\ o \in roots
  /\ \A p \in Obj \ {o} : o \notin refs[p]
  /\ allocated' = allocated \ {o}
  /\ roots' = roots \ {o}
  /\ refs' = [refs EXCEPT ![o] = {}]

\* The collector takes back headers, and only ones that are not reachable.
Reclaim ==
  \E D \in SUBSET (allocated \ Reachable) :
    /\ allocated' = allocated \ D
    /\ refs' = [o \in Obj |-> IF o \in D THEN {} ELSE refs[o]]
    /\ UNCHANGED roots

Next ==
  \/ \E o \in Obj : New(o) \/ Update(o) \/ Release(o)
  \/ Hold
  \/ Reclaim

Spec == Init /\ [][Next]_heapVars
=============================================================================
