---------------------------- MODULE MultiDispatch ----------------------------
(***************************************************************************)
(* Multiple dispatch of NQP (nqp/src/guts/multi_dispatch.c) and the        *)
(* dispatchers it serves (nqp/src/core/NQPRoutine.pm): candidates are      *)
(* sorted into groups by how narrow their types are, the first group with  *)
(* a candidate that takes the arguments decides, and what was decided is   *)
(* cached by the types of the arguments.                                   *)
(*                                                                         *)
(* Dispatchers are objects: they share lists of candidates and caches, by  *)
(* reference, with those they were cloned or derived from.                 *)
(***************************************************************************)
EXTENDS Integers, Sequences, FiniteSets

CONSTANTS
  Type, NoType,          \* types; PMCNULL, which constrains nothing
  TypeChecks,            \* the pairs of which the first is a kind of the second
  TypeNumber,            \* the order in which the types were made
  Candidate,             \* [types, definednesses] of the candidates
  Captures,              \* bound: the sequences of arguments
  Routine, First,        \* bound: the dispatchers; the one that is there first
  MaxCandidates,         \* bound: the length of a list of candidates
  MD_CACHE_MAX_ENTRIES

Definedness == {"any", "defined only", "undefined only"}

Object == [kind : {"object"}, type : Type, concrete : BOOLEAN]
Native == [kind : {"native"}, register : {1, 2, 3}]    \* integer, number, string
Foreign == [kind : {"foreign"}, defined : BOOLEAN]     \* PMCs without 6model type
Argument == Object \cup Native \cup Foreign

ASSUME MultiDispatchAssumption ==
  /\ NoType \notin Type
  /\ TypeChecks \subseteq Type \X Type
  /\ TypeNumber \in [Type -> Nat \ {0}]
  /\ \A s, t \in Type : TypeNumber[s] = TypeNumber[t] => s = t
  /\ \A c \in Candidate :
       /\ c.types \in Seq(Type \cup {NoType}) /\ c.definednesses \in Seq(Definedness)
       /\ Len(c.types) = Len(c.definednesses)
  /\ Captures \subseteq Seq(Argument)
  /\ First \in Routine /\ "no cache" \notin Routine
  /\ MaxCandidates \in Nat /\ MD_CACHE_MAX_ENTRIES \in Nat

VARIABLES
  dispatchees,   \* of the dispatchers there are: the name of a list
  candidates,    \* the lists
  dispatch_cache,\* of the dispatchers there are: the name of a cache, or none
  entries,       \* the caches: sequences of [ids, result]
  chosen,        \* what the last dispatch came to
  aliased        \* has a list been extended that another dispatcher uses, too?

mdVars == <<dispatchees, candidates, dispatch_cache, entries, chosen, aliased>>

NoCache == "no cache"

Known == DOMAIN dispatchees
List(r) == candidates[dispatchees[r]]
-----------------------------------------------------------------------------
(* is_narrower_type *)
NarrowerType(a, b) == IF b = NoType \/ a = NoType THEN b = NoType /\ a # NoType ELSE <<a, b>> \in TypeChecks

(* is_narrower: no parameter is wider and one is narrower; types neither of
   which is narrower count as tied. *)
Narrower(a, b) ==
  /\ Len(a.types) = Len(b.types)
  /\ \A i \in DOMAIN a.types :
       \/ a.types[i] = b.types[i]
       \/ NarrowerType(a.types[i], b.types[i])
       \/ ~NarrowerType(b.types[i], a.types[i])
  /\ \E i \in DOMAIN a.types :
       a.types[i] # b.types[i] /\ NarrowerType(a.types[i], b.types[i])

(* Variant: the widest first. *)
GroupsReversed(cands) ==
  LET unbeaten(rest) == {i \in rest : \A j \in rest : j # i => ~Narrower(cands[i], cands[j])}
      groups[rest \in SUBSET DOMAIN cands] ==
        IF rest = {} THEN <<>>
        ELSE IF unbeaten(rest) = {} THEN <<{}>>
        ELSE <<unbeaten(rest)>> \o groups[rest \ unbeaten(rest)]
  IN  groups[DOMAIN cands]

(* sort_candidates: again and again, those that none of the rest is narrower
   than are taken as a group; an empty group says that there are none. *)
Groups(cands) ==
  LET unbeaten(rest) == {i \in rest : \A j \in rest : j # i => ~Narrower(cands[j], cands[i])}
      groups[rest \in SUBSET DOMAIN cands] ==
        IF rest = {} THEN <<>>
        ELSE IF unbeaten(rest) = {} THEN <<{}>>
        ELSE <<unbeaten(rest)>> \o groups[rest \ unbeaten(rest)]
  IN  groups[DOMAIN cands]

TypeOf(arg) == IF arg.kind = "object" THEN arg.type ELSE NoType

Defined(arg) ==
  CASE arg.kind = "object" -> arg.concrete
    [] arg.kind = "native" -> TRUE
    [] OTHER -> arg.defined

(* Admissable by arity, by type and by definedness. *)
Takes(cand, args) ==
  /\ Len(args) = Len(cand.types)
  /\ \A i \in DOMAIN args :
       /\ TypeOf(args[i]) = cand.types[i] \/ NarrowerType(TypeOf(args[i]), cand.types[i])
       /\ cand.definednesses[i] = "defined only" => Defined(args[i])
       /\ cand.definednesses[i] = "undefined only" => ~Defined(args[i])

Error(what) == [outcome |-> what]
Sub(cand) == [outcome |-> "chosen", sub |-> cand]

(* nqp_multi_dispatch without a cached result *)
Dispatch(cands, args) ==
  LET groups == Groups(cands)
      possibles(g) == {i \in groups[g] : Takes(cands[i], args)}
      deciding == {g \in DOMAIN groups : possibles(g) # {} /\ \A h \in 1..g - 1 : possibles(h) = {}}
  IN  IF \E g \in DOMAIN groups : groups[g] = {} THEN Error("circular")
      ELSE IF deciding = {} THEN Error("no candidate")
      ELSE LET best == possibles(CHOOSE g \in deciding : TRUE)
           IN  IF Cardinality(best) = 1 THEN Sub(cands[CHOOSE i \in best : TRUE]) ELSE Error("ambiguous")
-----------------------------------------------------------------------------
(* The arguments as a cache knows them: the number of the type, whose low
   bits are left to tell concrete objects from type objects, and objects from
   native values. *)
type_cache_id(t) == 8 * TypeNumber[t]

ArgId(arg) ==
  IF arg.kind = "object" THEN type_cache_id(arg.type) + (IF arg.concrete THEN 1 ELSE 0)
  ELSE 2 * arg.register + 1

ArgTuple(args) == [i \in DOMAIN args |-> ArgId(args[i])]

(* Foreign arguments are neither looked up nor stored. *)
Cacheable(args) == \A i \in DOMAIN args : args[i].kind # "foreign"

Hits(cache, args) == {i \in DOMAIN cache : cache[i].ids = ArgTuple(args)}

OfArity(cache, n) == {i \in DOMAIN cache : Len(cache[i].ids) = n}

(* add_to_cache: one result without arguments, and so many of each arity. *)
AddToCache(cache, args, sub) ==
  IF ~Cacheable(args) \/ (args # <<>> /\ Cardinality(OfArity(cache, Len(args))) >= MD_CACHE_MAX_ENTRIES)
  THEN cache
  ELSE Append(cache, [ids |-> ArgTuple(args), result |-> sub])
-----------------------------------------------------------------------------
MdInit ==
  /\ dispatchees = [r \in {First} |-> First]
  /\ candidates = [r \in {First} |-> <<>>]
  /\ dispatch_cache = [r \in {First} |-> NoCache]
  /\ entries = [c \in Routine |-> <<>>]
  /\ chosen = Error("nothing")
  /\ aliased = FALSE

(* Variant: the cache is kept. *)
MdAddDispatcheeCached(r, cand) ==
  /\ Len(List(r)) < MaxCandidates
  /\ candidates' = [candidates EXCEPT ![dispatchees[r]] = Append(@, cand)]
  /\ aliased' = (aliased \/ \E q \in Known \ {r} : dispatchees[q] = dispatchees[r])
  /\ chosen' = Error("nothing")
  /\ UNCHANGED <<dispatchees, dispatch_cache, entries>>

(* add_dispatchee; a cache that no dispatcher refers to any more is collected. *)
MdAddDispatchee(r, cand) ==
  /\ Len(List(r)) < MaxCandidates
  /\ candidates' = [candidates EXCEPT ![dispatchees[r]] = Append(@, cand)]
  /\ dispatch_cache' = [dispatch_cache EXCEPT ![r] = NoCache]
  /\ entries' = [c \in Routine |-> IF \E q \in Known : dispatch_cache'[q] = c THEN entries[c] ELSE <<>>]
  /\ aliased' = (aliased \/ \E q \in Known \ {r} : dispatchees[q] = dispatchees[r])
  /\ chosen' = Error("nothing")
  /\ UNCHANGED dispatchees

(* f with one more value, at x. *)
With(f, x, v) == [y \in DOMAIN f \cup {x} |-> IF y = x THEN v ELSE f[y]]

(* derive_dispatcher copies the list and shares the cache. *)
MdDerive(r, new) ==
  /\ dispatchees' = With(dispatchees, new, new)
  /\ candidates' = With(candidates, new, List(r))
  /\ dispatch_cache' = With(dispatch_cache, new, dispatch_cache[r])
  /\ chosen' = Error("nothing")
  /\ UNCHANGED <<entries, aliased>>

(* clone shares both. *)
MdClone(r, new) ==
  /\ dispatchees' = With(dispatchees, new, dispatchees[r])
  /\ dispatch_cache' = With(dispatch_cache, new, dispatch_cache[r])
  /\ chosen' = Error("nothing")
  /\ UNCHANGED <<candidates, entries, aliased>>

(* get_dispatch_cache: an empty cache is made for a dispatcher without one. *)
CacheOf(r, c) ==
  IF dispatch_cache[r] # NoCache THEN c = dispatch_cache[r]
  ELSE c \in Routine /\ \A q \in Known : dispatch_cache[q] # c

MdDispatch(r, args) ==
  \E c \in Routine :
    LET cache == entries[c]
        hits == Hits(cache, args)
        hit == Cacheable(args) /\ hits # {}
        answer == Dispatch(List(r), args)
    IN  /\ CacheOf(r, c)
        /\ dispatch_cache' = [dispatch_cache EXCEPT ![r] = c]
        /\ chosen' = IF hit THEN Sub(cache[CHOOSE i \in hits : TRUE].result) ELSE answer
        /\ entries' = [entries EXCEPT ![c] =
                         IF hit \/ answer.outcome # "chosen" THEN cache ELSE AddToCache(cache, args, answer.sub)]
        /\ UNCHANGED <<dispatchees, candidates, aliased>>

MdNext ==
  \/ \E r \in Known :
       \/ \E cand \in Candidate : MdAddDispatchee(r, cand)
       \/ \E new \in Routine \ Known : MdDerive(r, new) \/ MdClone(r, new)
       \/ \E args \in Captures : MdDispatch(r, args)

MdSpec == MdInit /\ [][MdNext]_mdVars
-----------------------------------------------------------------------------
(* Caches are shared between dispatchers, outlive changes to the lists and
   drop nothing; still whatever they hold is what a dispatch over the list of
   each dispatcher that uses them would come to, if no list was extended
   behind the back of a clone. *)
MdCacheFresh ==
  ~aliased =>
    \A r \in Known : dispatch_cache[r] # NoCache =>
      \A i \in DOMAIN entries[dispatch_cache[r]] :
        LET e == entries[dispatch_cache[r]][i]
        IN  \A args \in Captures :
              Cacheable(args) /\ ArgTuple(args) = e.ids => Dispatch(List(r), args) = Sub(e.result)

(* The answer of a dispatch, said without groups: the candidate chosen takes
   the arguments and none that takes them, too, is narrower (there may be others
   like it, which the sorting has put behind it on account of candidates that do
   not take the arguments); an ambiguity is between several candidates of that
   kind; and the types are circular only if some candidates can be put in no
   order. *)
Right(cands, args, answer) ==
  LET able == {i \in DOMAIN cands : Takes(cands[i], args)}
      beaten(i) == \E j \in able : Narrower(cands[j], cands[i])
  IN  CASE answer.outcome = "chosen" -> \E i \in able : cands[i] = answer.sub /\ ~beaten(i)
        [] answer.outcome = "no candidate" -> able = {}
        [] answer.outcome = "ambiguous" -> \E i, j \in able : i # j /\ ~beaten(i) /\ ~beaten(j)
        [] OTHER -> \E ring \in SUBSET DOMAIN cands \ {{}} :
                      \A i \in ring : \E j \in ring : Narrower(cands[j], cands[i])

MdAnswerRight ==
  [][(~aliased /\ chosen' # Error("nothing")) =>
       \A r \in Known, args \in Captures : MdDispatch(r, args) => Right(List(r), args, chosen')]_mdVars
=============================================================================
