------------------------------- MODULE LazyList -------------------------------
(***************************************************************************)
(* The lazy lists of Rakudo (rakudo/src/core: List.pm, ListIter.pm,        *)
(* GatherIter.pm) over the values one gather block takes.  A list has the  *)
(* elements reified so far and an iterator for the others; an iterator is  *)
(* reified once, keeps what that gave and tells the list it belongs to.    *)
(* Lists made from others share their iterators.                           *)
(*                                                                         *)
(* An element is a value or an iterator, the latter by number.             *)
(***************************************************************************)
EXTENDS Integers, Sequences

CONSTANTS
  Source,                \* bound: how many values the gather block takes
  MaxLists, MaxGimme     \* bounds: the lists, what is asked for at once

ASSUME LazyListAssumption == Source \in Nat /\ MaxLists \in Nat \ {0} /\ MaxGimme \in Nat

VARIABLES
  lazy,      \* the objects, and how far the coroutine has got
  shifted,   \* the values shifted from each list
  origin,    \* ghost: how many values come before the first of each list
  asked      \* ghost: the values that had to be taken, at least

llVars == <<lazy, shifted, origin, asked>>

None == 0                \* no iterator
Whatever == -1

Value(v) == [kind |-> "value", ref |-> v]
Iter(i) == [kind |-> "iter", ref |-> i]

NotReified == [done |-> FALSE, parcel |-> <<>>]
Parcel(p) == [done |-> TRUE, parcel |-> p]

Element == [kind : {"value", "iter"}, ref : Nat]
ListRecord == [items : Seq(Element), next : Nat]
IterRecord == [gather : BOOLEAN, rest : Seq(Element), list : Nat,
               reified : [done : BOOLEAN, parcel : Seq(Element)]]
Objects == [lists : Seq(ListRecord), iters : Seq(IterRecord), coro : Nat, endless : BOOLEAN]

GatherIter == [gather |-> TRUE, rest |-> <<>>, list |-> None, reified |-> NotReified]
ListIter(rest, l) == [gather |-> FALSE, rest |-> rest, list |-> l, reified |-> NotReified]

NextItem(i) == IF i = None THEN <<>> ELSE <<Iter(i)>>

(* Parcel of a list: the elements it has, and the iterator for the others. *)
ListParcel(h, l) == h.lists[l].items \o NextItem(h.lists[l].next)

(* f applied n times *)
Iterate(f, x, n) == LET result[k \in 0..n] == IF k = 0 THEN x ELSE f[result[k - 1]] IN result[n]

(* More rounds than a loop over iterators can have: each goes past one of them
   or takes a value. *)
Rounds(h) == (Len(h.lists) + 1) * (Len(h.iters) + Source + 2)

(* infinite: that of the iterator in front of its rest, up to the gather block. *)
InFront(h, i) ==
  LET rest == h.iters[i].rest
  IN  IF ~h.iters[i].gather /\ rest # <<>> /\ Head(rest).kind = "iter" THEN Head(rest).ref ELSE i
Infinite(h, i) ==
  h.endless /\ h.iters[Iterate([j \in DOMAIN h.iters |-> InFront(h, j)], i, Len(h.iters))].gather

(* Variant: one value more, to know whether the end is met. *)
ReifyGatherAhead(h, i, n) ==
  LET count == IF n = Whatever THEN 1 ELSE n
      left == IF h.endless THEN count + 1 ELSE Source - h.coro
      got == IF count < left THEN count + 1 ELSE left
      ended == left < count
      parcel == [k \in 1..got |-> Value(h.coro + k)] \o
                (IF ended THEN <<>> ELSE <<Iter(Len(h.iters) + 1)>>)
      it == [h.iters EXCEPT ![i].reified = Parcel(parcel)]
  IN  [h EXCEPT !.coro = @ + got, !.iters = IF ended THEN it ELSE Append(it, GatherIter)]

(* GatherIter.reify: the coroutine is resumed for each value, or once. *)
ReifyGather(h, i, n) ==
  LET count == IF n = Whatever THEN 1 ELSE n
      left == IF h.endless THEN count ELSE Source - h.coro
      got == IF count < left THEN count ELSE left
      ended == left < count
      parcel == [k \in 1..got |-> Value(h.coro + k)] \o
                (IF ended THEN <<>> ELSE <<Iter(Len(h.iters) + 1)>>)
      it == [h.iters EXCEPT ![i].reified = Parcel(parcel)]
  IN  [h EXCEPT !.coro = @ + got, !.iters = IF ended THEN it ELSE Append(it, GatherIter)]

(* perl6_rpa_find_type: how many elements before the first Iterable, at most n. *)
Leading(rest, n) ==
  LET stops == {i \in 1..Len(rest) + 1 : i = Len(rest) + 1 \/ rest[i].kind # "value"}
      first == CHOOSE i \in stops : \A j \in stops : i <= j
  IN  IF first - 1 < n THEN first - 1 ELSE n

(* Variant: what is left of the rest when a list stops is dropped. *)
ReifyByDroppingRest(pull, h, i, n) ==
  LET it == h.iters[i]
      got == pull[[heap |-> h, taken |-> <<>>, rest |-> it.rest,
                   count |-> IF n = Whatever THEN 100000 ELSE n, eager |-> n = Whatever]]
      own == [got.heap.iters EXCEPT ![i] =
                [@ EXCEPT !.reified = Parcel(got.taken), !.rest = <<>>, !.list = None]]
  IN  IF it.reified.done THEN h
      ELSE IF it.gather THEN ReifyGather(h, i, n)
      ELSE [got.heap EXCEPT !.iters = own,
              !.lists[it.list].items = @ \o got.taken, !.lists[it.list].next = None]

(* reify of iterator i, pull being the loop of ListIter.reify; List.REIFY appends
   the new elements to the list that the iterator belongs to and gives it the
   next one. *)
ReifyBy(pull, h, i, n) ==
  LET it == h.iters[i]
      got == pull[[heap |-> h, taken |-> <<>>, rest |-> it.rest,
                   count |-> IF n = Whatever THEN 100000 ELSE n, eager |-> n = Whatever]]
      new == IF got.rest = <<>> THEN None ELSE Len(got.heap.iters) + 1
      own == [got.heap.iters EXCEPT ![i] =
                [@ EXCEPT !.reified = Parcel(got.taken \o NextItem(new)), !.rest = <<>>, !.list = None]]
  IN  IF it.reified.done THEN h
      ELSE IF it.gather THEN ReifyGather(h, i, n)
      ELSE [got.heap EXCEPT
              !.iters = IF new = None THEN own ELSE Append(own, ListIter(got.rest, it.list)),
              !.lists[it.list].items = @ \o got.taken,
              !.lists[it.list].next = new]

(* The loop of ListIter.reify: elements are taken from the rest until there
   are enough; an iterator is replaced by what it reifies to. *)
Loop == [heap : Objects, taken : Seq(Element), rest : Seq(Element), count : Nat, eager : BOOLEAN]

PullRound(pull, c) ==
  LET k == Leading(c.rest, c.count)
      taken == c.taken \o SubSeq(c.rest, 1, k)
      rest == SubSeq(c.rest, k + 1, Len(c.rest))
      x == Head(rest).ref
      h == ReifyBy(pull, c.heap, x, IF c.eager THEN Whatever ELSE c.count - Len(taken))
  IN  IF c.rest = <<>> \/ Len(c.taken) >= c.count THEN c
      ELSE IF rest = <<>> \/ Len(taken) >= c.count \/ (c.eager /\ Infinite(c.heap, x))
        THEN [c EXCEPT !.taken = taken, !.rest = rest]
      ELSE pull[[c EXCEPT !.heap = h, !.taken = taken, !.rest = h.iters[x].reified.parcel \o Tail(rest)]]

Pull(n) ==
  LET pull[d \in 0..n] == [c \in Loop |-> IF d = 0 THEN c ELSE PullRound(pull[d - 1], c)]
  IN  pull[n]

Reify(h, i, n) == ReifyBy(Pull(Rounds(h)), h, i, n)

(* List.gimme: iterators of list l are reified until it has n elements. *)
GimmeMore(h, l, n) ==
  LET list == h.lists[l]
      enough == IF n = Whatever THEN Infinite(h, list.next) ELSE Len(list.items) >= n
  IN  IF list.next = None \/ enough THEN h
      ELSE Reify(h, list.next, IF n = Whatever THEN Whatever ELSE n - Len(list.items))
Gimme(h, l, n) == Iterate([g \in Objects |-> GimmeMore(g, l, n)], h, Rounds(h))

(* p6list: a list with nothing reified. *)
NewList(h, rest) ==
  LET l == Len(h.lists) + 1
  IN  IF rest = <<>> THEN [h EXCEPT !.lists = Append(@, [items |-> <<>>, next |-> None])]
      ELSE [h EXCEPT !.lists = Append(@, [items |-> <<>>, next |-> Len(h.iters) + 1]),
                     !.iters = Append(@, ListIter(rest, l))]
-----------------------------------------------------------------------------
ListNumbers == DOMAIN lazy.lists

(* GATHER: a list over the iterator of a gather block. *)
LlInit ==
  /\ \E endless \in BOOLEAN :
       lazy = NewList([lists |-> <<>>, iters |-> <<GatherIter>>, coro |-> 0, endless |-> endless],
                      <<Iter(1)>>)
  /\ shifted = <<<<>>>> /\ origin = <<0>> /\ asked = 0

Before(l) == origin[l] + Len(shifted[l])

Needs(n) == asked' = IF n > asked THEN n ELSE asked

LlGimme(l, n) ==
  /\ lazy' = Gimme(lazy, l, n)
  /\ Needs(Before(l) + n)
  /\ UNCHANGED <<shifted, origin>>

(* elems, eager: everything, if there is an end. *)
LlElems(l) ==
  /\ lazy' = Gimme(lazy, l, Whatever)
  /\ Needs(IF lazy.endless THEN 0 ELSE Source)
  /\ UNCHANGED <<shifted, origin>>

LlShift(l) ==
  LET h == IF lazy.lists[l].items # <<>> THEN lazy ELSE Gimme(lazy, l, 1)
  IN  /\ Before(l) < Source
      /\ IF h.lists[l].items = <<>> THEN lazy' = h /\ UNCHANGED shifted
         ELSE /\ lazy' = [h EXCEPT !.lists[l].items = Tail(@)]
              /\ shifted' = [shifted EXCEPT ![l] = Append(@, Head(h.lists[l].items))]
      /\ Needs(Before(l) + 1)
      /\ UNCHANGED origin

Derived(l, rest) ==
  /\ Len(lazy.lists) < MaxLists
  /\ lazy' = NewList(lazy, rest)
  /\ shifted' = Append(shifted, <<>>)
  /\ origin' = Append(origin, Before(l))
  /\ UNCHANGED asked

(* values: a list over the elements and the iterator of another. *)
LlValues(l) == Derived(l, ListParcel(lazy, l))

LlNext ==
  \E l \in ListNumbers :
    \/ \E n \in 0..MaxGimme : Before(l) + n <= Source /\ LlGimme(l, n)
    \/ LlElems(l) \/ LlShift(l) \/ LlValues(l)

LlSpec == LlInit /\ [][LlNext]_llVars
-----------------------------------------------------------------------------
(* What an iterator in last place stands for, as far as the bound of the source,
   in its place: all that elements will yet come to. *)
Contents(i) ==
  LET it == lazy.iters[i]
  IN  CASE it.reified.done -> it.reified.parcel
        [] ~it.reified.done /\ it.gather -> [k \in 1..Source - lazy.coro |-> Value(lazy.coro + k)]
        [] OTHER -> it.rest
ExpandLast(e) ==
  IF e = <<>> \/ e[Len(e)].kind = "value" THEN e
  ELSE SubSeq(e, 1, Len(e) - 1) \o Contents(e[Len(e)].ref)
Expand(elements) ==
  Iterate([e \in Seq(Element) |-> ExpandLast(e)], elements, (Len(lazy.lists) + 1) * Len(lazy.iters))

(* Whichever list reified an iterator that several share, and how much of it
   at a time, each of them gives every value of the source once and in order,
   from where it began. *)
LazyListsComplete ==
  \A l \in ListNumbers :
    Expand(shifted[l] \o ListParcel(lazy, l)) = [k \in 1..Source - origin[l] |-> Value(origin[l] + k)]

(* The gather block runs no further than what was asked for. *)
LazyNoFurther == lazy.coro <= asked
=============================================================================
