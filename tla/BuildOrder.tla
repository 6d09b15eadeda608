------------------------------ MODULE BuildOrder ------------------------------
(***************************************************************************)
(* The order in which panda compiles the modules of a project              *)
(* (modules/panda/lib/Panda/Builder.pm): a depth first search over what    *)
(* their files use, which may be modules of other projects and may be      *)
(* circular.                                                               *)
(***************************************************************************)
EXTENDS Integers, Sequences, FiniteSets, SequencesExt

CONSTANTS
  Module,                \* the modules of the project
  Elsewhere,             \* modules of others
  Uses                   \* bound: the relations of a module to what it uses

ASSUME BuildOrderAssumption ==
  Module \cap Elsewhere = {} /\ Uses \subseteq [Module -> SUBSET (Module \cup Elsewhere)]

VARIABLES
  usages_of,
  color_of,      \* of the modules and of others that were met
  visits,        \* the calls of dfs-visit: a module and what is left of its uses
  order

boVars == <<usages_of, color_of, visits, order>>

Fresh == "not yet visited"

BoInit ==
  /\ usages_of \in Uses
  /\ color_of = [m \in Module |-> Fresh]
  /\ visits = <<>>
  /\ order = <<>>

Visited(m) == color_of[m] # Fresh

Visit(m) == [module |-> m, left |-> usages_of[m]]

(* topo-sort takes up the next module that is not yet visited. *)
BoNextModule(m) ==
  /\ visits = <<>> /\ ~Visited(m)
  /\ color_of' = [color_of EXCEPT ![m] = "visited"]
  /\ visits' = <<Visit(m)>>
  /\ UNCHANGED <<usages_of, order>>

(* dfs-visit looks at the next use; of what is not of the project it knows no
   color. *)
BoUse(used) ==
  /\ visits # <<>> /\ used \in Last(visits).left
  /\ LET rest == [visits EXCEPT ![Len(visits)].left = @ \ {used}]
     IN  IF used \in Module /\ color_of[used] = Fresh
         THEN visits' = Append(rest, Visit(used)) /\ color_of' = [color_of EXCEPT ![used] = "visited"]
         ELSE visits' = rest /\ UNCHANGED color_of
  /\ UNCHANGED <<usages_of, order>>

(* Variant: at the front. *)
BoDoneFirst ==
  /\ visits # <<>> /\ Last(visits).left = {}
  /\ order' = <<Last(visits).module>> \o order
  /\ visits' = Front(visits)
  /\ UNCHANGED <<usages_of, color_of>>

BoDone ==
  /\ visits # <<>> /\ Last(visits).left = {}
  /\ order' = Append(order, Last(visits).module)
  /\ visits' = Front(visits)
  /\ UNCHANGED <<usages_of, color_of>>

BoNext == BoDone \/ (\E m \in Module : BoNextModule(m)) \/ \E u \in Module \cup Elsewhere : BoUse(u)

BoSpec == BoInit /\ [][BoNext]_boVars
-----------------------------------------------------------------------------
(* The modules that m uses, by way of however many others of the project: the
   least set with its uses that is closed under use. *)
UseOf(usages, m) == usages[m] \cap Module

Reaches(usages, m) ==
  {x \in Module : \A S \in SUBSET Module :
                    UseOf(usages, m) \subseteq S /\ (\A y \in S : UseOf(usages, y) \subseteq S) => x \in S}

(* Each module is compiled once, all of them at the end, and after each one
   that it uses unless that one comes to use it in turn. *)
BuildOrderSorted ==
  /\ \A i, j \in DOMAIN order : order[i] = order[j] => i = j
  /\ (visits = <<>> /\ \A m \in Module : Visited(m)) => ToSet(order) = Module
  /\ \A j \in DOMAIN order :
       \A used \in UseOf(usages_of, order[j]) :
         order[j] \in Reaches(usages_of, used) \/ \E i \in 1..j - 1 : order[i] = used
=============================================================================
