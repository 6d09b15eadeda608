------------------------ MODULE MultiDispatch_proofs ------------------------
(***************************************************************************)
(* The cache of NQP's multiple dispatch never answers for a list of        *)
(* candidates that has changed, for any types, candidates, arguments and   *)
(* number of dispatchers: for that it plays no part which candidate a      *)
(* dispatch comes to.  Which one that is, and that it is right, comes      *)
(* after.                                                                  *)
(***************************************************************************)
EXTENDS MultiDispatch, Induction_proofs, SequenceTheorems

Id == {ArgTuple(args) : args \in Captures}
Outcome == {Dispatch(list, args).sub : list \in Seq(Candidate), args \in Captures}
CacheEntry == [ids : Id, result : Outcome]

MdTypes ==
  /\ DOMAIN dispatchees \subseteq Routine
  /\ DOMAIN candidates \subseteq Known
  /\ \A l \in DOMAIN candidates : candidates[l] \in Seq(Candidate)
  /\ DOMAIN dispatch_cache = Known
  /\ \A r \in Known : dispatchees[r] \in DOMAIN candidates
  /\ \A r \in Known : dispatch_cache[r] \in Routine \cup {NoCache}
  /\ entries \in [Routine -> Seq(CacheEntry)]

(* Dispatchers with one cache have equal lists. *)
SharedAlike ==
  ~aliased => \A r, q \in Known :
                dispatch_cache[r] = dispatch_cache[q] /\ dispatch_cache[r] # NoCache => List(r) = List(q)

(* Only caches that some dispatcher uses hold anything. *)
UnusedEmpty == \A c \in Routine : (\A r \in Known : dispatch_cache[r] # c) => entries[c] = <<>>

MdInv == MdTypes /\ SharedAlike /\ UnusedEmpty /\ MdCacheFresh
-----------------------------------------------------------------------------
(* The number of an argument tells its kind, its type and whether it is
   concrete, because type_cache_id leaves the low bits alone. *)
LEMMA ArgIdTells ==
  ASSUME NEW a \in Object \cup Native, NEW b \in Object \cup Native, ArgId(a) = ArgId(b)
  PROVE  a = b
<1>1. CASE a \in Object /\ b \in Object
  <2>1. /\ a.kind = "object" /\ a.type \in Type /\ a.concrete \in BOOLEAN
        /\ b.kind = "object" /\ b.type \in Type /\ b.concrete \in BOOLEAN
    BY <1>1 DEF Object
  <2>2. TypeNumber[a.type] \in Nat /\ TypeNumber[b.type] \in Nat
    BY <2>1, MultiDispatchAssumption
  <2>3. TypeNumber[a.type] = TypeNumber[b.type] /\ a.concrete = b.concrete
    BY <2>1, <2>2, SMT DEF ArgId, type_cache_id
  <2>4. a.type = b.type
    BY <2>1, <2>3, MultiDispatchAssumption
  <2>. QED BY <1>1, <2>3, <2>4 DEF Object
<1>2. CASE a \in Native /\ b \in Native
  BY <1>2 DEF Native, ArgId
<1>3. ASSUME NEW x \in Object, NEW y \in Native PROVE ArgId(x) # ArgId(y)
  <2>1. x.kind = "object" /\ x.type \in Type /\ x.concrete \in BOOLEAN
    BY DEF Object
  <2>2. TypeNumber[x.type] \in Nat \ {0}
    BY <2>1, MultiDispatchAssumption
  <2>3. y.kind = "native" /\ y.register \in {1, 2, 3}
    BY DEF Native
  <2>. QED BY <2>1, <2>2, <2>3, SMT DEF ArgId, type_cache_id
<1>. QED BY <1>1, <1>2, <1>3

(* An entry answers for one sequence of arguments only. *)
LEMMA ArgTupleTells ==
  ASSUME NEW args \in Captures, NEW other \in Captures,
         Cacheable(args), Cacheable(other), ArgTuple(args) = ArgTuple(other)
  PROVE  args = other
<1>1. args \in Seq(Argument) /\ other \in Seq(Argument)
  BY MultiDispatchAssumption
<1>2. DOMAIN args = DOMAIN other
  BY DEF ArgTuple
<1>3. ASSUME NEW i \in DOMAIN args PROVE args[i] = other[i]
  <2>1. args[i] \in Argument /\ other[i] \in Argument
    BY <1>1, <1>2
  <2>2. args[i].kind # "foreign" /\ other[i].kind # "foreign"
    BY <1>2 DEF Cacheable
  <2>3. args[i] \in Object \cup Native /\ other[i] \in Object \cup Native
    BY <2>1, <2>2 DEF Argument, Foreign
  <2>4. ArgId(args[i]) = ArgId(other[i])
    BY <1>2 DEF ArgTuple
  <2>. QED BY <2>3, <2>4, ArgIdTells
<1>. QED BY <1>1, <1>2, <1>3
-----------------------------------------------------------------------------
LEMMA MdInitial == MdInit => MdInv
<1>. SUFFICES ASSUME MdInit PROVE MdInv
  OBVIOUS
<1>1. MdTypes
  <2>1. \A S : <<>> \in Seq(S)
    OBVIOUS
  <2>2. entries \in [Routine -> Seq(CacheEntry)]
    BY <2>1 DEF MdInit
  <2>3. DOMAIN candidates = {First} /\ candidates[First] \in Seq(Candidate)
    BY <2>1 DEF MdInit
  <2>4. DOMAIN dispatchees = {First} /\ dispatchees[First] = First
    BY DEF MdInit
  <2>5. DOMAIN dispatch_cache = {First} /\ dispatch_cache[First] = NoCache
    BY DEF MdInit
  <2>. QED BY <2>2, <2>3, <2>4, <2>5, MultiDispatchAssumption DEF MdTypes, Known
<1>2. SharedAlike
  BY DEF MdInit, SharedAlike, Known
<1>3. UnusedEmpty
  BY DEF MdInit, UnusedEmpty
<1>4. MdCacheFresh
  BY DEF MdInit, MdCacheFresh, Known
<1>. QED BY <1>1, <1>2, <1>3, <1>4 DEF MdInv

(* A list that is extended has lost its cache, and nobody else reads it. *)
LEMMA AddDispatcheeKeeps ==
  ASSUME MdInv, NEW r \in Known, NEW cand \in Candidate, MdAddDispatchee(r, cand)
  PROVE  MdInv'
<1>. USE DEF MdAddDispatchee, Known
<1>0. NoCache \notin Routine
  BY MultiDispatchAssumption DEF NoCache
<1>1. MdTypes'
  BY DEF MdInv, MdTypes, List
<1>2. ASSUME ~aliased', NEW q \in Known, q # r PROVE List(q)' = List(q) /\ ~aliased
  BY <1>2 DEF MdInv, MdTypes, List
<1>3. dispatch_cache'[r] = NoCache /\ \A q \in Known : q # r => dispatch_cache'[q] = dispatch_cache[q]
  BY DEF MdInv, MdTypes
<1>4. SharedAlike'
  BY <1>2, <1>3 DEF MdInv, SharedAlike
<1>5. UnusedEmpty'
  BY DEF UnusedEmpty
<1>6. MdCacheFresh'
  <2>. SUFFICES ASSUME ~aliased', NEW q \in Known, dispatch_cache'[q] # NoCache
                PROVE  \A i \in DOMAIN entries'[dispatch_cache'[q]] : \A args \in Captures :
                          Cacheable(args) /\ ArgTuple(args) = entries'[dispatch_cache'[q]][i].ids
                             => Dispatch(List(q)', args) = Sub(entries'[dispatch_cache'[q]][i].result)
    BY DEF MdCacheFresh
  <2>1. q # r
    BY <1>3
  <2>2. dispatch_cache[q] \in Routine
    BY <1>3, <2>1 DEF MdInv, MdTypes
  <2>3. /\ List(q)' = List(q) /\ ~aliased
        /\ dispatch_cache'[q] = dispatch_cache[q]
        /\ entries'[dispatch_cache[q]] = entries[dispatch_cache[q]]
    BY <1>2, <1>3, <2>1, <2>2
  <2>. QED BY <2>3 DEF MdInv, MdCacheFresh
<1>. QED BY <1>1, <1>4, <1>5, <1>6 DEF MdInv

(* A dispatcher that is derived or cloned has the list and the cache of one
   there was. *)
LEMMA NewDispatcherKeeps ==
  ASSUME MdInv, NEW r \in Known, NEW new \in Routine \ Known, MdDerive(r, new) \/ MdClone(r, new)
  PROVE  MdInv'
<1>. USE DEF MdDerive, MdClone, With, Known
<1>1. MdTypes'
  BY DEF MdInv, MdTypes, List
<1>2. Known' = Known \cup {new} /\ aliased' = aliased /\ entries' = entries
  OBVIOUS
<1>types. /\ \A q \in Known : dispatchees[q] \in DOMAIN candidates /\ q # new
          /\ new \notin DOMAIN candidates /\ DOMAIN dispatch_cache = Known
  BY DEF MdInv, MdTypes
<1>caches. /\ \A q \in Known : dispatch_cache'[q] = dispatch_cache[q]
           /\ dispatch_cache'[new] = dispatch_cache[r]
  BY <1>types
<1>lists. /\ \A q \in Known : dispatchees'[q] = dispatchees[q]
          /\ \A l \in DOMAIN candidates : candidates'[l] = candidates[l]
  BY <1>types
<1>3. \A q \in Known : List(q)' = List(q) /\ dispatch_cache'[q] = dispatch_cache[q]
  BY <1>types, <1>caches, <1>lists DEF List
<1>4. List(new)' = List(r) /\ dispatch_cache'[new] = dispatch_cache[r]
  <2>1. CASE MdDerive(r, new)
    BY <2>1, <1>types, <1>caches DEF List
  <2>2. CASE MdClone(r, new)
    BY <2>2, <1>types, <1>caches, <1>lists DEF List
  <2>. QED BY <2>1, <2>2
<1>5. SharedAlike'
  BY <1>2, <1>3, <1>4 DEF MdInv, SharedAlike
<1>6. UnusedEmpty'
  BY <1>2, <1>3 DEF MdInv, UnusedEmpty
<1>7. MdCacheFresh'
  BY <1>2, <1>3, <1>4 DEF MdInv, MdCacheFresh
<1>. QED BY <1>1, <1>5, <1>6, <1>7 DEF MdInv

(* What is added to a cache is what the dispatch came to, for the lists of all
   that use it. *)
LEMMA DispatchKeeps ==
  ASSUME MdInv, NEW r \in Known, NEW args \in Captures, MdDispatch(r, args)
  PROVE  MdInv'
<1>. USE DEF Known
<1>. DEFINE answer == Dispatch(List(r), args)
            hit(c) == Cacheable(args) /\ Hits(entries[c], args) # {}
            add == [ids |-> ArgTuple(args), result |-> answer.sub]
<1>0. NoCache \notin Routine
  BY MultiDispatchAssumption DEF NoCache
<1>1. PICK c \in Routine :
        /\ CacheOf(r, c)
        /\ dispatch_cache' = [dispatch_cache EXCEPT ![r] = c]
        /\ \/ entries' = entries
           \/ /\ Cacheable(args) /\ answer.outcome = "chosen"
              /\ entries' = [entries EXCEPT ![c] = Append(@, add)]
        /\ UNCHANGED <<dispatchees, candidates, aliased>>
  <2>. HIDE DEF answer, hit, add
  <2>1. ASSUME NEW c \in Routine,
               entries' = [entries EXCEPT ![c] =
                             IF hit(c) \/ answer.outcome # "chosen" THEN entries[c]
                             ELSE AddToCache(entries[c], args, answer.sub)]
        PROVE  \/ entries' = entries
               \/ /\ Cacheable(args) /\ answer.outcome = "chosen"
                  /\ entries' = [entries EXCEPT ![c] = Append(@, add)]
    BY <2>1 DEF AddToCache, add, MdInv, MdTypes
  <2>2. PICK c \in Routine :
          /\ CacheOf(r, c)
          /\ dispatch_cache' = [dispatch_cache EXCEPT ![r] = c]
          /\ entries' = [entries EXCEPT ![c] =
                           IF hit(c) \/ answer.outcome # "chosen" THEN entries[c]
                           ELSE AddToCache(entries[c], args, answer.sub)]
          /\ UNCHANGED <<dispatchees, candidates, aliased>>
    BY DEF MdDispatch, hit, answer
  <2>. QED BY <2>1, <2>2
<1>2. List(r) \in Seq(Candidate)
  BY DEF MdInv, MdTypes, List
<1>3. add \in CacheEntry
  BY <1>2 DEF CacheEntry, Id, Outcome
<1>. HIDE DEF answer, add
<1>4. \A q \in Known : List(q)' = List(q)
  BY <1>1 DEF List
<1>5. \A q \in Known : dispatch_cache'[q] = IF q = r THEN c ELSE dispatch_cache[q]
  BY <1>1 DEF MdInv, MdTypes
<1>6. \/ dispatch_cache[r] = c
      \/ dispatch_cache[r] = NoCache /\ \A q \in Known : dispatch_cache[q] # c
  BY <1>1 DEF CacheOf
<1>7. MdTypes'
  <2>1. entries' \in [Routine -> Seq(CacheEntry)]
    <3>1. entries \in [Routine -> Seq(CacheEntry)]
      BY DEF MdInv, MdTypes
    <3>2. Append(entries[c], add) \in Seq(CacheEntry)
      BY <1>3, <3>1
    <3>. QED BY <1>1, <3>1, <3>2
  <2>. QED BY <1>1, <1>5, <2>1 DEF MdInv, MdTypes
<1>8. SharedAlike'
  BY <1>0, <1>1, <1>4, <1>5, <1>6 DEF MdInv, SharedAlike
<1>9. UnusedEmpty'
  BY <1>0, <1>1, <1>5, <1>6 DEF MdInv, MdTypes, UnusedEmpty
<1>10. MdCacheFresh'
  <2>. SUFFICES ASSUME ~aliased', NEW q \in Known, dispatch_cache'[q] # NoCache,
                       NEW i \in DOMAIN entries'[dispatch_cache'[q]],
                       NEW other \in Captures, Cacheable(other),
                       ArgTuple(other) = entries'[dispatch_cache'[q]][i].ids
                PROVE  Dispatch(List(q), other) = Sub(entries'[dispatch_cache'[q]][i].result)
    BY <1>1, <1>4 DEF MdCacheFresh
  <2>1. dispatch_cache'[q] \in Routine /\ entries[dispatch_cache'[q]] \in Seq(CacheEntry)
    BY <1>1, <1>5, <1>7 DEF MdInv, MdTypes
  <2>2. CASE i \in DOMAIN entries[dispatch_cache'[q]] /\ entries'[dispatch_cache'[q]][i] = entries[dispatch_cache'[q]][i]
    <3>1. dispatch_cache[q] = dispatch_cache'[q]
      <4>1. CASE q # r
        BY <4>1, <1>5
      <4>2. CASE q = r
        <5>1. dispatch_cache[r] # c => entries[c] = <<>>
          BY <1>6 DEF MdInv, UnusedEmpty
        <5>. QED BY <1>5, <2>2, <4>2, <5>1
      <4>. QED BY <4>1, <4>2
    <3>. QED BY <2>2, <3>1, <1>1 DEF MdInv, MdCacheFresh
  <2>3. CASE /\ dispatch_cache'[q] = c /\ Cacheable(args) /\ answer.outcome = "chosen"
             /\ entries'[c][i] = add
    <3>1. List(q) = List(r)
      <4>1. SharedAlike' /\ Known' = Known
        BY <1>8, <1>1
      <4>2. c # NoCache /\ dispatch_cache'[r] = c
        BY <1>0, <1>5
      <4>3. List(q)' = List(r)'
        BY <2>3, <4>1, <4>2 DEF SharedAlike
      <4>. QED BY <1>4, <4>3
    <3>2. other = args
      BY <2>3, ArgTupleTells DEF add
    <3>3. Dispatch(List(r), args) = Sub(answer.sub)
      <4>1. answer.outcome = "chosen"
        BY <2>3
      <4>. QED BY <4>1 DEF answer, Dispatch, Sub, Error
    <3>. QED BY <2>3, <3>1, <3>2, <3>3 DEF add
  <2>4. \/ entries'[dispatch_cache'[q]] = entries[dispatch_cache'[q]]
        \/ /\ dispatch_cache'[q] = c /\ Cacheable(args) /\ answer.outcome = "chosen"
           /\ entries'[c] = Append(entries[c], add)
    BY <1>1, <2>1 DEF MdInv, MdTypes
  <2>5. CASE /\ dispatch_cache'[q] = c /\ Cacheable(args) /\ answer.outcome = "chosen"
             /\ entries'[c] = Append(entries[c], add)
    <3>1. entries[c] \in Seq(CacheEntry)
      BY <2>1, <2>5
    <3>2. \/ i \in DOMAIN entries[c] /\ entries'[c][i] = entries[c][i]
          \/ entries'[c][i] = add
      BY <2>5, <3>1, <1>3
    <3>. QED BY <2>2, <2>3, <2>5, <3>2
  <2>. QED BY <2>2, <2>4, <2>5
<1>. QED BY <1>7, <1>8, <1>9, <1>10 DEF MdInv
-----------------------------------------------------------------------------
LEMMA MdStep == MdInv /\ [MdNext]_mdVars => MdInv'
<1>. SUFFICES ASSUME MdInv, [MdNext]_mdVars PROVE MdInv'
  OBVIOUS
<1>1. CASE UNCHANGED mdVars
  BY <1>1 DEF mdVars, MdInv, MdTypes, SharedAlike, UnusedEmpty, MdCacheFresh, List, Known
<1>2. CASE MdNext
  BY <1>2, AddDispatcheeKeeps, NewDispatcherKeeps, DispatchKeeps DEF MdNext
<1>. QED BY <1>1, <1>2

(* What a cache holds is what a dispatch over the present list of each of its
   dispatchers would come to, as long as no list was extended behind the back
   of a clone: add_dispatchee, derive_dispatcher, clone and the dispatches of
   NQPRoutine and multi_dispatch.c in any order. *)
THEOREM MdCacheFreshAlways == MdSpec => []MdCacheFresh
<1>1. MdInv => MdCacheFresh
  BY DEF MdInv
<1>. QED BY <1>1, MdInitial, MdStep, PTL DEF MdSpec
-----------------------------------------------------------------------------
(* What sort_candidates takes as one group, and how it goes on. *)
Unbeaten(cands, rest) == {i \in rest : \A j \in rest : j # i => ~Narrower(cands[j], cands[i])}
Sizes(S, n) == {rest \in SUBSET S : Cardinality(rest) <= n}
Next1(cands, f, rest) ==
  IF rest = {} THEN <<>>
  ELSE IF Unbeaten(cands, rest) = {} THEN <<{}>>
  ELSE <<Unbeaten(cands, rest)>> \o f[rest \ Unbeaten(cands, rest)]
Grouping(f, cands) == f = [rest \in SUBSET DOMAIN cands |-> Next1(cands, f, rest)]
GroupingUpTo(f, cands, n) == f = [rest \in Sizes(DOMAIN cands, n) |-> Next1(cands, f, rest)]

(* A group is never empty unless the sort stops: what is left is smaller. *)
LEMMA LessLeft ==
  ASSUME NEW S, IsFiniteSet(S), NEW rest \in SUBSET S, NEW cands, Unbeaten(cands, rest) # {}
  PROVE  /\ rest \ Unbeaten(cands, rest) \in SUBSET S
         /\ \A n \in Nat : Cardinality(rest) <= n + 1 => Cardinality(rest \ Unbeaten(cands, rest)) <= n
<1>. DEFINE left == rest \ Unbeaten(cands, rest)
<1>1. PICK i : i \in Unbeaten(cands, rest)
  OBVIOUS
<1>2. i \in rest /\ i \notin left /\ left \in SUBSET rest
  BY <1>1 DEF Unbeaten
<1>. HIDE DEF left
<1>3. IsFiniteSet(rest)
  BY FS_Subset
<1>4. IsFiniteSet(left) /\ Cardinality(left) <= Cardinality(rest) /\ Cardinality(left) # Cardinality(rest)
  BY <1>2, <1>3, FS_Subset
<1>5. Cardinality(left) \in Nat /\ Cardinality(rest) \in Nat
  BY <1>3, <1>4, FS_CardinalityType
<1>6. \A n \in Nat : Cardinality(rest) <= n + 1 => Cardinality(left) <= n
  BY <1>4, <1>5
<1>7. left \in SUBSET S
  BY <1>2
<1>. QED BY <1>6, <1>7 DEF left

LEMMA GroupingUpToExists ==
  ASSUME NEW cands, IsFiniteSet(DOMAIN cands)
  PROVE  \A n \in Nat : \E f : GroupingUpTo(f, cands, n)
<1>. DEFINE D == DOMAIN cands
            T == {n \in Nat : \E f : GroupingUpTo(f, cands, n)}
<1>1. 0 \in T
  <2>. DEFINE f == [rest \in Sizes(D, 0) |-> <<>>]
  <2>1. ASSUME NEW rest \in Sizes(D, 0) PROVE rest = {}
    <3>1. IsFiniteSet(rest) /\ Cardinality(rest) <= 0
      BY FS_Subset DEF Sizes
    <3>2. Cardinality(rest) \in Nat
      BY <3>1, FS_CardinalityType
    <3>3. Cardinality(rest) = 0
      BY <3>1, <3>2
    <3>. QED BY <3>1, <3>3, FS_EmptySet
  <2>2. ASSUME NEW rest \in Sizes(D, 0) PROVE f[rest] = Next1(cands, f, rest)
    BY <2>1 DEF Next1
  <2>3. f = [rest \in Sizes(D, 0) |-> f[rest]]
    OBVIOUS
  <2>. HIDE DEF f
  <2>4. GroupingUpTo(f, cands, 0)
    BY <2>2, <2>3 DEF GroupingUpTo
  <2>. QED BY <2>4
<1>2. ASSUME NEW n \in Nat, n \in T PROVE n + 1 \in T
  <2>1. PICK f : GroupingUpTo(f, cands, n)
    BY <1>2
  <2>. DEFINE g == [rest \in Sizes(D, n + 1) |-> Next1(cands, f, rest)]
  <2>2. ASSUME NEW rest \in Sizes(D, n) PROVE rest \in Sizes(D, n + 1) /\ g[rest] = f[rest]
    <3>1. rest \in SUBSET D /\ Cardinality(rest) <= n
      BY DEF Sizes
    <3>2. Cardinality(rest) \in Nat
      BY <3>1, FS_Subset, FS_CardinalityType
    <3>3. rest \in Sizes(D, n + 1)
      BY <3>1, <3>2 DEF Sizes
    <3>4. f[rest] = Next1(cands, f, rest)
      BY <2>1 DEF GroupingUpTo
    <3>. QED BY <3>3, <3>4
  <2>3. ASSUME NEW rest \in Sizes(D, n + 1) PROVE g[rest] = Next1(cands, g, rest)
    <3>0. g[rest] = Next1(cands, f, rest)
      OBVIOUS
    <3>1. CASE rest = {} \/ Unbeaten(cands, rest) = {}
      <4>. HIDE DEF g
      <4>. QED BY <3>0, <3>1 DEF Next1
    <3>2. CASE rest # {} /\ Unbeaten(cands, rest) # {}
      <4>1. rest \ Unbeaten(cands, rest) \in Sizes(D, n)
        <5>1. rest \in SUBSET D /\ Cardinality(rest) <= n + 1
          BY DEF Sizes
        <5>. QED BY <3>2, <5>1, LessLeft DEF Sizes
      <4>2. g[rest \ Unbeaten(cands, rest)] = f[rest \ Unbeaten(cands, rest)]
        BY <2>2, <4>1
      <4>. HIDE DEF g
      <4>. QED BY <3>0, <3>2, <4>2 DEF Next1
    <3>. QED BY <3>1, <3>2
  <2>4. g = [rest \in Sizes(D, n + 1) |-> g[rest]]
    OBVIOUS
  <2>. HIDE DEF g
  <2>5. GroupingUpTo(g, cands, n + 1)
    BY <2>3, <2>4 DEF GroupingUpTo
  <2>. QED BY <2>5
<1>3. Nat \subseteq T
  <2>. HIDE DEF T
  <2>. QED BY <1>1, <1>2, NaturalInduction
<1>. QED BY <1>3

LEMMA GroupsIs ==
  ASSUME NEW cands, IsFiniteSet(DOMAIN cands)
  PROVE  \E f : Grouping(f, cands) /\ Groups(cands) = f[DOMAIN cands]
<1>. DEFINE c == CHOOSE f : Grouping(f, cands)
            D == DOMAIN cands
<1>1. Groups(cands) = c[DOMAIN cands]
  BY Zenon DEF Groups, Grouping, Next1, Unbeaten
<1>2. \E f : Grouping(f, cands)
  <2>1. Cardinality(D) \in Nat
    BY FS_CardinalityType
  <2>2. PICK f : GroupingUpTo(f, cands, Cardinality(D))
    BY <2>1, GroupingUpToExists
  <2>3. Sizes(D, Cardinality(D)) = SUBSET D
    BY FS_Subset DEF Sizes
  <2>. QED BY <2>2, <2>3 DEF Grouping, GroupingUpTo
<1>3. Grouping(c, cands)
  BY <1>2
<1>. QED BY <1>1, <1>3

(* Groups g of the candidates rest: none in a group is beaten by one in it or in a later one; all are
   in a group, unless the sort has stopped at some that cannot be put in order. *)
Ring(cands, rest) ==
  \E ring \in SUBSET rest \ {{}} : \A i \in ring : \E j \in ring : Narrower(cands[j], cands[i])
InOrder(cands, g) ==
  \A k, l \in DOMAIN g : k <= l => \A i \in g[k], j \in g[l] : ~Narrower(cands[j], cands[i])
Complete(g, rest) == (\A k \in DOMAIN g : g[k] # {}) => \A i \in rest : \E k \in DOMAIN g : i \in g[k]
Circular(cands, g, rest) == (\E k \in DOMAIN g : g[k] = {}) => Ring(cands, rest)
Grouped(cands, g, rest) ==
  /\ g \in Seq(SUBSET rest)
  /\ InOrder(cands, g) /\ Complete(g, rest) /\ Circular(cands, g, rest)

LEMMA NotNarrowerThanItself == \A c : ~Narrower(c, c)
BY DEF Narrower

LEMMA PutInFront ==
  ASSUME NEW S, NEW u \in S, NEW tail \in Seq(S), NEW g, g = <<u>> \o tail
  PROVE  /\ g \in Seq(S) /\ DOMAIN g = 1..Len(tail) + 1 /\ DOMAIN tail = 1..Len(tail) /\ Len(tail) \in Nat
         /\ g[1] = u /\ \A k \in 1..Len(tail) : g[k + 1] = tail[k]
<1>1. <<u>> \in Seq(S) /\ Len(<<u>>) = 1 /\ <<u>>[1] = u
  OBVIOUS
<1>. DEFINE s == <<u>>
<1>. HIDE DEF s
<1>2. /\ s \o tail \in Seq(S) /\ Len(s \o tail) = Len(s) + Len(tail)
      /\ \A i \in 1..Len(s) + Len(tail) : (s \o tail)[i] = IF i <= Len(s) THEN s[i] ELSE tail[i - Len(s)]
  BY <1>1, ConcatProperties DEF s
<1>3. s \in Seq(S) /\ Len(s) = 1 /\ s[1] = u /\ g = s \o tail
  BY <1>1 DEF s
<1>4. Len(tail) \in Nat /\ DOMAIN tail = 1..Len(tail)
  BY LenProperties
<1>5. g \in Seq(S) /\ Len(g) = 1 + Len(tail) /\ \A i \in 1..1 + Len(tail) : g[i] = IF i <= 1 THEN u ELSE tail[i - 1]
  BY <1>2, <1>3
<1>6. DOMAIN g = 1..1 + Len(tail)
  BY <1>5, LenProperties
<1>7. g[1] = u
  BY <1>4, <1>5
<1>8. ASSUME NEW k \in 1..Len(tail) PROVE g[k + 1] = tail[k]
  <2>1. k + 1 \in 1..1 + Len(tail) /\ ~(k + 1 <= 1) /\ (k + 1) - 1 = k
    BY <1>4
  <2>. QED BY <1>5, <2>1
<1>9. 1 + Len(tail) = Len(tail) + 1
  BY <1>4
<1>. QED BY <1>4, <1>5, <1>6, <1>7, <1>8, <1>9

LEMMA GroupInFront ==
  ASSUME NEW cands, NEW rest, NEW u, u = Unbeaten(cands, rest), u # {},
         NEW tail, Grouped(cands, tail, rest \ u), NEW g, g = <<u>> \o tail
  PROVE  Grouped(cands, g, rest)
<1>. DEFINE left == rest \ u
<1>1. u \in SUBSET rest /\ \A i \in u : \A j \in rest : ~Narrower(cands[j], cands[i])
  BY NotNarrowerThanItself DEF Unbeaten
<1>2. tail \in Seq(SUBSET rest)
  <2>1. tail \in Seq(SUBSET left) /\ SUBSET left \subseteq SUBSET rest
    BY DEF Grouped
  <2>. QED BY <2>1, SeqMonotonic
<1>3. /\ g \in Seq(SUBSET rest) /\ DOMAIN g = 1..Len(tail) + 1 /\ DOMAIN tail = 1..Len(tail) /\ Len(tail) \in Nat
      /\ g[1] = u /\ \A k \in 1..Len(tail) : g[k + 1] = tail[k]
  BY <1>1, <1>2, PutInFront
<1>4. ASSUME NEW k \in DOMAIN g, k # 1 PROVE k - 1 \in DOMAIN tail /\ g[k] = tail[k - 1] /\ k - 1 \in 1..Len(tail)
  <2>1. k - 1 \in 1..Len(tail) /\ (k - 1) + 1 = k
    BY <1>3, <1>4
  <2>. QED BY <1>3, <2>1
<1>5. ASSUME NEW k \in DOMAIN g PROVE g[k] \in SUBSET rest /\ k \in Nat /\ 1 <= k
  BY <1>3
<1>6. InOrder(cands, g)
  <2>. SUFFICES ASSUME NEW k \in DOMAIN g, NEW l \in DOMAIN g, k <= l, NEW i \in g[k], NEW j \in g[l]
                PROVE  ~Narrower(cands[j], cands[i])
    BY DEF InOrder
  <2>1. CASE k = 1
    BY <1>1, <1>3, <1>5, <2>1
  <2>2. CASE k # 1
    <3>1. l # 1 /\ k - 1 <= l - 1
      BY <1>5, <2>2
    <3>2. i \in tail[k - 1] /\ j \in tail[l - 1] /\ k - 1 \in DOMAIN tail /\ l - 1 \in DOMAIN tail
      BY <1>4, <2>2, <3>1
    <3>3. InOrder(cands, tail)
      BY DEF Grouped
    <3>. QED BY <3>1, <3>2, <3>3 DEF InOrder
  <2>. QED BY <2>1, <2>2
<1>7. Complete(g, rest)
  <2>. SUFFICES ASSUME \A k \in DOMAIN g : g[k] # {}, NEW i \in rest
                PROVE  \E k \in DOMAIN g : i \in g[k]
    BY DEF Complete
  <2>1. CASE i \in u
    <3>1. 1 \in DOMAIN g
      BY <1>3
    <3>. QED BY <1>3, <2>1, <3>1
  <2>2. CASE i \notin u
    <3>1. \A k \in DOMAIN tail : tail[k] # {}
      <4>. SUFFICES ASSUME NEW k \in DOMAIN tail PROVE tail[k] # {}
        OBVIOUS
      <4>1. k \in 1..Len(tail) /\ k + 1 \in DOMAIN g
        BY <1>3
      <4>. QED BY <1>3, <4>1
    <3>2. PICK k \in DOMAIN tail : i \in tail[k]
      BY <2>2, <3>1 DEF Grouped, Complete
    <3>3. k \in 1..Len(tail) /\ k + 1 \in DOMAIN g
      BY <1>3
    <3>. QED BY <1>3, <3>2, <3>3
  <2>. QED BY <2>1, <2>2
<1>8. Circular(cands, g, rest)
  <2>. SUFFICES ASSUME NEW k \in DOMAIN g, g[k] = {} PROVE Ring(cands, rest)
    BY DEF Circular
  <2>1. k # 1
    BY <1>3
  <2>2. Ring(cands, left)
    BY <1>4, <2>1 DEF Grouped, Circular
  <2>. QED BY <2>2 DEF Ring
<1>. QED BY <1>3, <1>6, <1>7, <1>8 DEF Grouped

LEMMA GroupsAreInOrder ==
  ASSUME NEW cands, IsFiniteSet(DOMAIN cands)
  PROVE  Grouped(cands, Groups(cands), DOMAIN cands)
<1>. DEFINE D == DOMAIN cands
<1>1. PICK f : Grouping(f, cands) /\ Groups(cands) = f[D]
  BY GroupsIs
<1>. DEFINE T == {n \in Nat : \A rest \in SUBSET D : Cardinality(rest) <= n => Grouped(cands, f[rest], rest)}
<1>2. ASSUME NEW rest \in SUBSET D PROVE f[rest] = Next1(cands, f, rest) /\ IsFiniteSet(rest) /\ Cardinality(rest) \in Nat
  BY <1>1, FS_Subset, FS_CardinalityType DEF Grouping
<1>3. ASSUME NEW rest \in SUBSET D, rest = {} PROVE Grouped(cands, f[rest], rest)
  <2>1. f[rest] = <<>>
    BY <1>2, <1>3 DEF Next1
  <2>. DEFINE g == f[rest]
  <2>2. g \in Seq(SUBSET rest) /\ DOMAIN g = {}
    BY <2>1
  <2>. HIDE DEF g
  <2>. QED BY <1>3, <2>2 DEF g, Grouped, InOrder, Complete, Circular
<1>4. ASSUME NEW rest \in SUBSET D, rest # {}, Unbeaten(cands, rest) = {} PROVE Grouped(cands, f[rest], rest)
  <2>. DEFINE g == f[rest]
  <2>1. g = <<{}>>
    BY <1>2, <1>4 DEF Next1
  <2>2. g \in Seq(SUBSET rest) /\ DOMAIN g = {1} /\ g[1] = {}
    BY <2>1
  <2>3. Ring(cands, rest)
    BY <1>4 DEF Ring, Unbeaten
  <2>. HIDE DEF g
  <2>. QED BY <2>2, <2>3 DEF g, Grouped, InOrder, Complete, Circular
<1>5. 0 \in T
  <2>1. ASSUME NEW rest \in SUBSET D, Cardinality(rest) <= 0 PROVE rest = {}
    BY <1>2, <2>1, FS_EmptySet
  <2>. QED BY <1>3, <2>1
<1>6. ASSUME NEW n \in Nat, n \in T PROVE n + 1 \in T
  <2>1. ASSUME NEW rest \in SUBSET D, Cardinality(rest) <= n + 1, rest # {}, Unbeaten(cands, rest) # {}
        PROVE  Grouped(cands, f[rest], rest)
    <3>. DEFINE u == Unbeaten(cands, rest)
    <3>1. rest \ u \in SUBSET D /\ Cardinality(rest \ u) <= n
      BY <2>1, LessLeft
    <3>2. Grouped(cands, f[rest \ u], rest \ u)
      BY <1>6, <3>1
    <3>3. f[rest] = <<u>> \o f[rest \ u]
      BY <1>2, <2>1 DEF Next1
    <3>. HIDE DEF u
    <3>4. u = Unbeaten(cands, rest) /\ u # {}
      BY <2>1 DEF u
    <3>. QED BY <3>2, <3>3, <3>4, GroupInFront
  <2>. QED BY <1>3, <1>4, <2>1
<1>7. Nat \subseteq T
  <2>. HIDE DEF T
  <2>. QED BY <1>5, <1>6, NaturalInduction
<1>8. Cardinality(D) \in Nat /\ D \in SUBSET D
  BY FS_CardinalityType
<1>. QED BY <1>1, <1>7, <1>8

(* The first group with a candidate that takes the arguments decides. *)
Possibles(cands, args, g) == {i \in Groups(cands)[g] : Takes(cands[i], args)}
Deciding(cands, args) ==
  {g \in DOMAIN Groups(cands) :
     Possibles(cands, args, g) # {} /\ \A h \in 1..g - 1 : Possibles(cands, args, h) = {}}

LEMMA DispatchRight ==
  ASSUME NEW cands \in Seq(Candidate), NEW args
  PROVE  Right(cands, args, Dispatch(cands, args))
<1>. DEFINE D == DOMAIN cands
            groups == Groups(cands)
            able == {i \in D : Takes(cands[i], args)}
            beaten(i) == \E j \in able : Narrower(cands[j], cands[i])
            answer == Dispatch(cands, args)
            best == Possibles(cands, args, CHOOSE g \in Deciding(cands, args) : TRUE)
<1>1. IsFiniteSet(D)
  <2>1. D = 1..Len(cands) /\ Len(cands) \in Nat
    BY LenProperties
  <2>. QED BY <2>1, FS_Interval
<1>2. Grouped(cands, groups, D)
  BY <1>1, GroupsAreInOrder
<1>3. answer = IF \E g \in DOMAIN groups : groups[g] = {} THEN Error("circular")
               ELSE IF Deciding(cands, args) = {} THEN Error("no candidate")
               ELSE IF Cardinality(best) = 1 THEN Sub(cands[CHOOSE i \in best : TRUE]) ELSE Error("ambiguous")
  BY Zenon DEF Dispatch, Deciding, Possibles
<1>4. /\ \A what : Error(what).outcome = what
      /\ \A c : Sub(c).outcome = "chosen" /\ Sub(c).sub = c
  BY DEF Error, Sub
<1>5. DOMAIN groups = 1..Len(groups) /\ Len(groups) \in Nat /\ \A g \in DOMAIN groups : groups[g] \in SUBSET D
  BY <1>2, LenProperties DEF Grouped
<1>. HIDE DEF groups
<1>6. ASSUME NEW g \in DOMAIN groups, \A h \in 1..g - 1 : Possibles(cands, args, h) = {}, Complete(groups, D),
             \A k \in DOMAIN groups : groups[k] # {}, NEW i \in Possibles(cands, args, g)
      PROVE  i \in able /\ ~beaten(i)
  <2>1. i \in groups[g] /\ Takes(cands[i], args) /\ i \in D
    BY <1>5 DEF Possibles, groups
  <2>2. ASSUME NEW j \in able PROVE ~Narrower(cands[j], cands[i])
    <3>1. PICK k \in DOMAIN groups : j \in groups[k]
      BY <1>6 DEF Complete
    <3>2. j \in Possibles(cands, args, k)
      BY <3>1 DEF Possibles, groups
    <3>3. g <= k
      <4>1. g \in Nat /\ k \in Nat /\ 1 <= k
        BY <1>5
      <4>2. k \notin 1..g - 1
        BY <1>6, <3>2
      <4>. QED BY <4>1, <4>2
    <3>4. InOrder(cands, groups)
      BY <1>2 DEF Grouped, groups
    <3>. QED BY <2>1, <3>1, <3>3, <3>4 DEF InOrder
  <2>. QED BY <2>1, <2>2
<1>7. CASE \E g \in DOMAIN groups : groups[g] = {}
  <2>1. answer = Error("circular")
    BY <1>3, <1>7 DEF groups
  <2>2. Ring(cands, D)
    BY <1>2, <1>7 DEF Grouped, Circular, groups
  <2>. HIDE DEF answer
  <2>3. answer.outcome = "circular"
    BY <1>4, <2>1
  <2>4. Right(cands, args, answer)
    BY <2>2, <2>3 DEF Right, Ring
  <2>. QED BY <2>4 DEF answer
<1>8. ASSUME \A g \in DOMAIN groups : groups[g] # {} PROVE Right(cands, args, answer)
  <2>1. Complete(groups, D) /\ \A i \in D : \E k \in DOMAIN groups : i \in groups[k]
    BY <1>2, <1>8 DEF Grouped, Complete, groups
  <2>2. CASE Deciding(cands, args) = {}
    <3>1. answer = Error("no candidate")
      BY <1>3, <1>8, <2>2 DEF groups
    <3>2. able = {}
      <4>. SUFFICES ASSUME NEW i \in able PROVE FALSE
        OBVIOUS
      <4>. DEFINE T == {k \in DOMAIN groups : Possibles(cands, args, k) # {}}
      <4>1. T # {}
        BY <2>1 DEF Possibles, groups
      <4>2. T \in SUBSET Nat
        BY <1>5
      <4>3. PICK g \in T : \A k \in T : g <= k
        BY <4>1, <4>2, LeastNatural
      <4>4. ASSUME NEW h \in 1..g - 1 PROVE Possibles(cands, args, h) = {}
        <5>1. g \in 1..Len(groups) /\ h \in Nat /\ 1 <= h /\ h < g
          BY <1>5, <4>4
        <5>2. h \in DOMAIN groups /\ ~(g <= h)
          BY <1>5, <5>1
        <5>. QED BY <4>3, <5>2
      <4>. QED BY <2>2, <4>3, <4>4 DEF Deciding, groups
    <3>. HIDE DEF answer
    <3>3. answer.outcome = "no candidate"
      BY <1>4, <3>1
    <3>4. Right(cands, args, answer)
      BY <3>2, <3>3 DEF Right
    <3>. QED BY <3>4 DEF answer
  <2>3. CASE Deciding(cands, args) # {}
    <3>. DEFINE g == CHOOSE g \in Deciding(cands, args) : TRUE
    <3>1. /\ g \in DOMAIN groups /\ best # {}
          /\ \A h \in 1..g - 1 : Possibles(cands, args, h) = {}
      BY <2>3 DEF Deciding, groups
    <3>2. \A i \in best : i \in able /\ ~beaten(i)
      BY <1>6, <1>8, <2>1, <3>1
    <3>3. best \in SUBSET D
      BY <3>2
    <3>4. answer = IF Cardinality(best) = 1 THEN Sub(cands[CHOOSE i \in best : TRUE]) ELSE Error("ambiguous")
      BY <1>3, <1>8, <2>3 DEF groups
    <3>5. IsFiniteSet(best) /\ (\A x : best = {x} => Cardinality(best) = 1)
      BY <1>1, <3>3, FS_Subset, FS_Singleton
    <3>. HIDE DEF best, answer
    <3>6. CASE Cardinality(best) = 1
      <4>. DEFINE i == CHOOSE i \in best : TRUE
      <4>1. i \in best
        BY <3>1
      <4>. HIDE DEF i
      <4>2. answer = Sub(cands[i])
        BY <3>4, <3>6 DEF i
      <4>3. answer.outcome = "chosen" /\ answer.sub = cands[i]
        BY <1>4, <4>2
      <4>. QED BY <3>2, <4>1, <4>3 DEF Right
    <3>7. CASE Cardinality(best) # 1
      <4>1. answer.outcome = "ambiguous"
        BY <1>4, <3>4, <3>7
      <4>2. PICK i \in best, j \in best : i # j
        <5>1. PICK x : x \in best
          BY <3>1
        <5>2. best # {x}
          BY <3>5, <3>7
        <5>. QED BY <5>1, <5>2
      <4>3. \E x, y \in able : x # y /\ ~beaten(x) /\ ~beaten(y)
        BY <3>2, <4>2
      <4>. QED BY <4>1, <4>3 DEF Right
    <3>. QED BY <3>6, <3>7
  <2>. QED BY <2>2, <2>3
<1>. QED BY <1>7, <1>8

(* Whatever nqp_multi_dispatch answers, from its cache or from the sorted
   candidates, is right for the present list, as long as no list was extended
   behind the back of a clone. *)
THEOREM MdAnswerRightAlways == MdSpec => MdAnswerRight
<1>. DEFINE Body == (~aliased /\ chosen' # Error("nothing")) =>
                      \A r \in Known, args \in Captures : MdDispatch(r, args) => Right(List(r), args, chosen')
<1>1. MdInv /\ [MdNext]_mdVars => [Body]_mdVars
  <2>. SUFFICES ASSUME MdInv, ~aliased, NEW r \in Known, NEW args \in Captures, MdDispatch(r, args)
                PROVE  Right(List(r), args, chosen')
    OBVIOUS
  <2>1. PICK c \in Routine :
          LET cache == entries[c]
              hits == Hits(cache, args)
              hit == Cacheable(args) /\ hits # {}
          IN  /\ CacheOf(r, c)
              /\ chosen' = IF hit THEN Sub(cache[CHOOSE i \in hits : TRUE].result) ELSE Dispatch(List(r), args)
    BY Zenon DEF MdDispatch
  <2>2. List(r) \in Seq(Candidate)
    BY DEF MdInv, MdTypes, List
  <2>3. Right(List(r), args, Dispatch(List(r), args))
    BY <2>2, DispatchRight
  <2>4. CASE Cacheable(args) /\ Hits(entries[c], args) # {}
    <3>. DEFINE i == CHOOSE i \in Hits(entries[c], args) : TRUE
    <3>1. i \in Hits(entries[c], args)
      BY <2>4
    <3>. HIDE DEF i
    <3>2. chosen' = Sub(entries[c][i].result)
      BY <2>1, <2>4 DEF i
    <3>3. i \in DOMAIN entries[c] /\ entries[c][i].ids = ArgTuple(args)
      BY <3>1 DEF Hits
    <3>4. c = dispatch_cache[r] /\ c # NoCache
      <4>1. NoCache \notin Routine
        BY MultiDispatchAssumption DEF NoCache
      <4>2. CASE dispatch_cache[r] # NoCache
        BY <2>1, <4>1, <4>2 DEF CacheOf
      <4>3. CASE dispatch_cache[r] = NoCache
        <5>1. \A q \in Known : dispatch_cache[q] # c
          BY <2>1, <4>3 DEF CacheOf
        <5>2. entries[c] = <<>>
          BY <5>1 DEF MdInv, UnusedEmpty
        <5>. QED BY <3>3, <5>2
      <4>. QED BY <4>2, <4>3
    <3>5. Dispatch(List(r), args) = Sub(entries[c][i].result)
      BY <2>4, <3>3, <3>4 DEF MdInv, MdCacheFresh
    <3>. QED BY <2>3, <3>2, <3>5
  <2>5. CASE ~(Cacheable(args) /\ Hits(entries[c], args) # {})
    <3>1. chosen' = Dispatch(List(r), args)
      BY <2>1, <2>5
    <3>. QED BY <2>3, <3>1
  <2>. QED BY <2>4, <2>5
<1>. QED BY <1>1, MdInitial, MdStep, PTL DEF MdSpec, MdAnswerRight
=============================================================================
