-------------------------------- MODULE Qrpa --------------------------------
(***************************************************************************)
(* The array PMC of NQP (nqp/src/pmc/qrpa.pmc): the items are the slots    *)
(* from start on, so that shifting moves nothing; slots are kept when the  *)
(* array shrinks.  Slots are numbered from 1; sizes that the code fixes    *)
(* are constants, so that small arrays meet every way of growing.          *)
(***************************************************************************)
EXTENDS Integers, Sequences

CONSTANTS
  Item, Null,
  Lists,                 \* bound: the arrays that are spliced in
  MaxElems,              \* bound: the number of elements
  MinSlots,              \* the least number of slots, 8
  FrontRoom,             \* the slots unshift makes room for at once, 8
  Big, Page              \* from 8192 slots on, growth is by pages of 4096

ASSUME QrpaAssumption ==
  /\ Null \in Item
  /\ Lists \subseteq Seq(Item)
  /\ MaxElems \in Nat
  /\ MinSlots \in Nat /\ Big \in Nat
  /\ FrontRoom \in Nat \ {0} /\ Page \in Nat \ {0}

VARIABLES
  qrpa,     \* the attributes of the array
  call,     \* the operation called last, with its arguments
  result    \* what it returned

qrpaVars == <<qrpa, call, result>>

Qrpas == [elems : Nat, start : Nat, slots : Seq(Item)]

Empty == [elems |-> 0, start |-> 0, slots |-> <<>>]

(* memmove of n slots: slots[to+1..to+n] become slots[from+1..from+n]. *)
Memmove(s, to, from, n) ==
  [i \in DOMAIN s |-> IF i \in to + 1 .. to + n THEN s[i - to + from] ELSE s[i]]

(* The number of slots to allocate for n elements. *)
SlotsFor(ssize, n) ==
  IF ssize < Big
  THEN CHOOSE m \in {2 * ssize, n, MinSlots} : m >= 2 * ssize /\ m >= n /\ m >= MinSlots
  ELSE (n + Page) - ((n + Page) % Page)

(* set_integer_native: the elements are moved to the front of the slots if
   that helps; more slots are allocated if they do not suffice even then. *)
ToFront(q) ==
  [q EXCEPT !.start = 0,
            !.slots = [i \in DOMAIN q.slots |-> IF i <= q.elems THEN q.slots[q.start + i] ELSE Null]]

Grown(q, n) ==
  [q EXCEPT !.slots = [i \in 1..SlotsFor(Len(q.slots), n) |-> IF i <= q.elems THEN q.slots[i] ELSE Null]]

(* Variant: the slots before start are not reckoned with. *)
ResizeFromFront(q, n) ==
  LET moved == IF q.start > 0 /\ n > Len(q.slots) THEN ToFront(q) ELSE q
      ready == IF n > Len(moved.slots) THEN Grown(moved, n) ELSE moved
  IN  IF n = q.elems THEN q ELSE [ready EXCEPT !.elems = n]

Resize(q, n) ==
  LET moved == IF q.start > 0 /\ n + q.start > Len(q.slots) THEN ToFront(q) ELSE q
      ready == IF n > Len(moved.slots) THEN Grown(moved, n) ELSE moved
  IN  IF n = q.elems THEN q ELSE [ready EXCEPT !.elems = n]

(* Variant: the elements replaced are counted a second time. *)
SlideOnly(q, count, n1) ==
  LET n == IF n1 - count > q.start THEN q.start ELSE n1 - count
  IN  IF n <= -q.elems
      THEN [array |-> [q EXCEPT !.start = 0, !.elems = 0], count |-> 0]
      ELSE [array |-> [q EXCEPT !.start = @ - n, !.elems = @ + n], count |-> count]

(* splice at the beginning moves start, forwards or backwards, so that as many
   elements are replaced as there are new ones; it yields the array and the
   number of elements still to be replaced. *)
Slide(q, count, n1) ==
  LET n == IF n1 - count > q.start THEN q.start ELSE n1 - count
  IN  IF n <= -q.elems
      THEN [array |-> [q EXCEPT !.start = 0, !.elems = 0], count |-> 0]
      ELSE [array |-> [q EXCEPT !.start = @ - n, !.elems = @ + n], count |-> count + n]

(* The elements behind those that are replaced are moved down before the array
   shrinks, or up after it has grown. *)
Replace(q, list, offset, count) ==
  LET n1 == Len(list)
      tail == IF offset + count < q.elems THEN q.elems - offset - count ELSE 0
      shut == IF tail > 0 /\ count > n1
              THEN [q EXCEPT !.slots = Memmove(@, q.start + offset + n1, q.start + offset + count, tail)]
              ELSE q
      sized == Resize(shut, offset + n1 + tail)
      at == sized.start + offset
      open == IF tail > 0 /\ count < n1 THEN Memmove(sized.slots, at + n1, at + count, tail)
              ELSE sized.slots
      put == [i \in DOMAIN open |-> IF i \in at + 1 .. at + n1 THEN list[i - at] ELSE open[i]]
  IN  [sized EXCEPT !.slots = put]

Splice(q, list, offset, count) ==
  LET slid == IF offset = 0 THEN Slide(q, count, Len(list)) ELSE [array |-> q, count |-> count]
  IN  IF slid.count = 0 /\ list = <<>> THEN slid.array
      ELSE Replace(slid.array, list, offset, slid.count)
-----------------------------------------------------------------------------
QrpaInit == qrpa = Empty /\ call = [op |-> "new"] /\ result = Null

(* An index counts from the end if it is negative; below the first element an
   exception is thrown. *)
Place(pos) == IF pos < 0 THEN pos + qrpa.elems ELSE pos

Becomes(q) == q.elems <= MaxElems /\ qrpa' = q

QrpaResize(n) ==
  /\ call' = [op |-> "resize", elems |-> n]
  /\ Becomes(Resize(qrpa, n))
  /\ result' = Null

QrpaGet(pos) ==
  /\ call' = [op |-> "get", pos |-> pos]
  /\ Place(pos) >= 0
  /\ result' = IF Place(pos) >= qrpa.elems THEN Null ELSE qrpa.slots[qrpa.start + Place(pos) + 1]
  /\ UNCHANGED qrpa

QrpaSet(pos, v) ==
  /\ call' = [op |-> "set", pos |-> pos, item |-> v]
  /\ Place(pos) >= 0
  /\ LET q == IF Place(pos) >= qrpa.elems THEN Resize(qrpa, Place(pos) + 1) ELSE qrpa
     IN  Becomes([q EXCEPT !.slots[q.start + Place(pos) + 1] = v])
  /\ result' = Null

QrpaPush(v) ==
  /\ call' = [op |-> "push", item |-> v]
  /\ LET q == Resize(qrpa, qrpa.elems + 1)
     IN  Becomes([q EXCEPT !.slots[q.start + q.elems] = v])
  /\ result' = Null

QrpaPop ==
  /\ call' = [op |-> "pop"]
  /\ qrpa.elems > 0
  /\ qrpa' = [qrpa EXCEPT !.elems = @ - 1]
  /\ result' = qrpa.slots[qrpa.start + qrpa.elems]

QrpaShift ==
  /\ call' = [op |-> "shift"]
  /\ qrpa.elems > 0
  /\ qrpa' = [qrpa EXCEPT !.start = @ + 1, !.elems = @ - 1]
  /\ result' = qrpa.slots[qrpa.start + 1]

(* Room is made in front of the elements if there is none. *)
Roomy(q) ==
  IF q.start > 0 THEN q
  ELSE LET s == Memmove(Resize(q, q.elems + FrontRoom).slots, FrontRoom, 0, q.elems)
       IN  [elems |-> q.elems, start |-> FrontRoom,
            slots |-> [i \in DOMAIN s |-> IF i <= FrontRoom THEN Null ELSE s[i]]]

QrpaUnshift(v) ==
  /\ call' = [op |-> "unshift", item |-> v]
  /\ LET q == Roomy(qrpa)
     IN  Becomes([elems |-> q.elems + 1, start |-> q.start - 1,
                  slots |-> [q.slots EXCEPT ![q.start] = v]])
  /\ result' = Null

QrpaSplice(list, offset, count) ==
  /\ call' = [op |-> "splice", list |-> list, offset |-> offset, count |-> count]
  /\ Place(offset) >= 0
  /\ Becomes(Splice(qrpa, list, Place(offset), count))
  /\ result' = Null

(* clone copies the elements and no other slot. *)
QrpaClone ==
  /\ call' = [op |-> "clone"]
  /\ qrpa' = [elems |-> qrpa.elems, start |-> 0,
              slots |-> [i \in 1..qrpa.elems |-> qrpa.slots[qrpa.start + i]]]
  /\ result' = Null

QrpaNext ==
  \/ QrpaPop \/ QrpaShift \/ QrpaClone
  \/ \E n \in 0..MaxElems : QrpaResize(n)
  \/ \E pos \in -MaxElems .. MaxElems : QrpaGet(pos)
  \/ \E pos \in -MaxElems .. MaxElems, v \in Item : QrpaSet(pos, v)
  \/ \E v \in Item : QrpaPush(v) \/ QrpaUnshift(v)
  \/ \E list \in Lists, offset \in -1 .. MaxElems, count \in 0..MaxElems + 1 :
       QrpaSplice(list, offset, count)

QrpaSpec == QrpaInit /\ [][QrpaNext]_qrpaVars
-----------------------------------------------------------------------------
(* The items of the array, and the array as its user sees it. *)
Items == [i \in 1..qrpa.elems |-> qrpa.slots[qrpa.start + i]]

User == INSTANCE Array WITH asked <- call, items <- Items, got <- result

(* However start moves, elements are slid to the front, room is made or slots
   are reused, each operation leaves exactly the items, in order, that it is
   asked for and returns the right one; only what appears in a place that
   nobody has given an item is left open. *)
QrpaRefinesArray == User!ArraySpec

(* The elements lie within the slots that are allocated: no operation reads or
   writes outside. *)
QrpaWithinSlots ==
  /\ qrpa \in Qrpas
  /\ qrpa.start + qrpa.elems <= Len(qrpa.slots)
=============================================================================
