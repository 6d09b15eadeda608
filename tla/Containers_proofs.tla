-------------------------- MODULE Containers_proofs --------------------------
(***************************************************************************)
(* The array of NQP stays within its slots and is the array it promises,   *)
(* for any items, sizes, numbers of slots and arrays spliced in.           *)
(*                                                                         *)
(* The hash tables of Parrot find what was stored and account for every    *)
(* bucket, for any keys, hash values and sizes of slabs, as long as no     *)
(* bucket of a freed slab was used.                                        *)
(*                                                                         *)
(* The lazy lists of Rakudo give every value of the source once and in     *)
(* order, and take no more of them than were asked for, for any source,    *)
(* numbers of lists and of elements asked for.                             *)
(***************************************************************************)
EXTENDS Qrpa, Hash, LazyList, Induction_proofs, SequenceTheorems

Within(q) == q \in Qrpas /\ q.start + q.elems <= Len(q.slots)

(* Element i of an array, counted from 1. *)
At(q, i) == q.slots[q.start + i]

ItemsOf(q) == [i \in 1..q.elems |-> At(q, i)]
-----------------------------------------------------------------------------
LEMMA SequenceOf ==
  ASSUME NEW n \in Nat, NEW f, f \in [1..n -> Item]
  PROVE  f \in Seq(Item) /\ Len(f) = n /\ DOMAIN f = 1..n
OBVIOUS

LEMMA WithinFields ==
  ASSUME NEW q, Within(q)
  PROVE  /\ q.elems \in Nat /\ q.start \in Nat /\ q.slots \in Seq(Item) /\ Len(q.slots) \in Nat
         /\ DOMAIN q.slots = 1..Len(q.slots)
         /\ q.start + q.elems <= Len(q.slots)
         /\ q = [elems |-> q.elems, start |-> q.start, slots |-> q.slots]
         /\ \A i \in 1..q.elems : At(q, i) \in Item
<1>1. q.elems \in Nat /\ q.start \in Nat /\ q.slots \in Seq(Item) /\ q.start + q.elems <= Len(q.slots)
  BY DEF Within, Qrpas
<1>2. Len(q.slots) \in Nat /\ DOMAIN q.slots = 1..Len(q.slots)
  BY <1>1
<1>3. \A i \in 1..q.elems : q.start + i \in 1..Len(q.slots)
  BY <1>1, <1>2
<1>4. q = [elems |-> q.elems, start |-> q.start, slots |-> q.slots]
  BY DEF Within, Qrpas
<1>. QED BY <1>1, <1>2, <1>3, <1>4 DEF At

LEMMA ItemsTyped ==
  ASSUME NEW q, Within(q)
  PROVE  /\ ItemsOf(q) \in Seq(Item) /\ Len(ItemsOf(q)) = q.elems /\ DOMAIN ItemsOf(q) = 1..q.elems
         /\ \A i \in 1..q.elems : ItemsOf(q)[i] = At(q, i)
<1>1. ItemsOf(q) \in [1..q.elems -> Item] /\ q.elems \in Nat
  BY WithinFields DEF ItemsOf
<1>. QED BY <1>1, SequenceOf DEF ItemsOf

(* There are always enough slots. *)
LEMMA SlotsForEnough ==
  ASSUME NEW ssize \in Nat, NEW n \in Nat
  PROVE  SlotsFor(ssize, n) \in Nat /\ SlotsFor(ssize, n) >= n
<1>1. CASE ssize < Big
  <2>. DEFINE good(m) == m >= 2 * ssize /\ m >= n /\ m >= MinSlots
              sizes == {2 * ssize, n, MinSlots}
  <2>1. sizes \subseteq Nat
    BY QrpaAssumption
  <2>2. \E m \in sizes : good(m)
    BY QrpaAssumption
  <2>3. SlotsFor(ssize, n) = CHOOSE m \in sizes : good(m)
    BY <1>1 DEF SlotsFor
  <2>. HIDE DEF sizes
  <2>. QED BY <2>1, <2>2, <2>3
<1>2. CASE ~(ssize < Big)
  <2>. DEFINE r == (n + Page) % Page
  <2>1. r \in Nat /\ r < Page /\ Page \in Nat
    BY QrpaAssumption
  <2>2. SlotsFor(ssize, n) = (n + Page) - r
    BY <1>2 DEF SlotsFor
  <2>. HIDE DEF r
  <2>. QED BY <2>1, <2>2
<1>. QED BY <1>1, <1>2

IsMoved(m, s, to, from, n) ==
  /\ m \in Seq(Item) /\ Len(m) = Len(s)
  /\ \A i \in 1..Len(s) : i \notin to + 1 .. to + n => m[i] = s[i]
  /\ \A i \in 1..n : m[to + i] = s[from + i]

LEMMA MemmoveRight ==
  ASSUME NEW s \in Seq(Item), NEW to \in Nat, NEW from \in Nat, NEW n \in Nat,
         from + n <= Len(s), to + n <= Len(s)
  PROVE  IsMoved(Memmove(s, to, from, n), s, to, from, n)
<1>. DEFINE m == Memmove(s, to, from, n)
<1>1. Len(s) \in Nat /\ DOMAIN s = 1..Len(s)
  OBVIOUS
<1>2. /\ DOMAIN m = 1..Len(s)
      /\ \A i \in 1..Len(s) : m[i] = IF i \in to + 1 .. to + n THEN s[i - to + from] ELSE s[i]
      /\ m = [i \in 1..Len(s) |-> m[i]]
  BY <1>1 DEF Memmove
<1>. HIDE DEF m
<1>3. \A i \in 1..n : to + i \in 1..Len(s) /\ m[to + i] = s[from + i]
  <2>1. \A i \in 1..n : to + i \in 1..Len(s) /\ to + i \in to + 1 .. to + n /\ (to + i) - to + from = from + i
    BY <1>1
  <2>. QED BY <1>2, <2>1
<1>4. \A i \in 1..Len(s) : m[i] \in Item
  <2>1. \A i \in 1..Len(s) : s[i] \in Item
    BY <1>1
  <2>2. \A i \in to + 1 .. to + n : i - to + from \in 1..Len(s)
    BY <1>1
  <2>. QED BY <1>2, <2>1, <2>2
<1>5. m \in Seq(Item) /\ Len(m) = Len(s)
  BY <1>1, <1>2, <1>4, SequenceOf
<1>. QED BY <1>2, <1>3, <1>5 DEF m, IsMoved

(* Resizing keeps the elements there are, wherever they end up. *)
LEMMA ResizeRight ==
  ASSUME NEW q, Within(q), NEW n \in Nat
  PROVE  /\ Within(Resize(q, n)) /\ Resize(q, n).elems = n
         /\ q.start = 0 => Resize(q, n).start = 0
         /\ \A i \in 1..n : i <= q.elems => At(Resize(q, n), i) = At(q, i)
<1>. DEFINE moved == IF q.start > 0 /\ n + q.start > Len(q.slots) THEN ToFront(q) ELSE q
            ready == IF n > Len(moved.slots) THEN Grown(moved, n) ELSE moved
<1>1. /\ q.elems \in Nat /\ q.start \in Nat /\ q.slots \in Seq(Item) /\ Len(q.slots) \in Nat
      /\ DOMAIN q.slots = 1..Len(q.slots)
      /\ q.start + q.elems <= Len(q.slots)
      /\ \A i \in 1..q.elems : At(q, i) \in Item
  BY WithinFields
<1>2. /\ Within(moved) /\ moved.elems = q.elems /\ Len(moved.slots) = Len(q.slots)
      /\ \A i \in 1..q.elems : At(moved, i) = At(q, i)
      /\ moved.start = 0 \/ n + moved.start <= Len(q.slots)
      /\ q.start = 0 => moved.start = 0
  <2>1. CASE q.start > 0 /\ n + q.start > Len(q.slots)
    <3>. DEFINE s == [i \in DOMAIN q.slots |-> IF i <= q.elems THEN q.slots[q.start + i] ELSE Null]
    <3>1. s \in [1..Len(q.slots) -> Item]
      BY <1>1, QrpaAssumption DEF At
    <3>2. s \in Seq(Item) /\ Len(s) = Len(q.slots)
      BY <1>1, <3>1, SequenceOf
    <3>3. \A i \in 1..q.elems : s[i] = At(q, i)
      BY <1>1 DEF At
    <3>4. moved = [elems |-> q.elems, start |-> 0, slots |-> s]
      <4>1. moved = [q EXCEPT !.start = 0, !.slots = s]
        BY <2>1 DEF ToFront
      <4>2. q = [elems |-> q.elems, start |-> q.start, slots |-> q.slots]
        BY WithinFields
      <4>. HIDE DEF moved, s
      <4>. QED BY <4>1, <4>2
    <3>. HIDE DEF s, moved
    <3>. QED BY <1>1, <3>2, <3>3, <3>4 DEF Within, Qrpas, At
  <2>2. CASE ~(q.start > 0 /\ n + q.start > Len(q.slots))
    <3>1. moved = q
      BY <2>2
    <3>. HIDE DEF moved
    <3>2. q.start = 0 \/ n + q.start <= Len(q.slots)
      BY <1>1, <2>2
    <3>. QED BY <3>1, <3>2
  <2>. QED BY <2>1, <2>2
<1>. HIDE DEF moved
<1>3. /\ Within(ready) /\ ready.elems = q.elems
      /\ \A i \in 1..q.elems : At(ready, i) = At(q, i)
      /\ ready.start + n <= Len(ready.slots)
      /\ q.start = 0 => ready.start = 0
  <2>0. moved.slots \in Seq(Item) /\ moved.start \in Nat /\ moved.start + moved.elems <= Len(moved.slots)
    BY <1>2, WithinFields
  <2>1. CASE n > Len(moved.slots)
    <3>. DEFINE size == SlotsFor(Len(moved.slots), n)
                s == [i \in 1..size |-> IF i <= moved.elems THEN moved.slots[i] ELSE Null]
    <3>1. size \in Nat /\ size >= n
      BY <1>1, <1>2, SlotsForEnough
    <3>2. moved.start = 0
      BY <1>1, <1>2, <2>0, <2>1
    <3>3. ready = [elems |-> q.elems, start |-> 0, slots |-> s]
      <4>1. moved = [elems |-> moved.elems, start |-> moved.start, slots |-> moved.slots]
        BY <1>2, WithinFields
      <4>. QED BY <1>2, <2>1, <3>2, <4>1 DEF Grown
    <3>. HIDE DEF size
    <3>4. \A i \in 1..q.elems : i \in 1..size /\ moved.slots[i] = At(q, i) /\ moved.slots[i] \in Item
      <4>. SUFFICES ASSUME NEW i \in 1..q.elems
                    PROVE  i \in 1..size /\ moved.slots[i] = At(q, i) /\ moved.slots[i] \in Item
        OBVIOUS
      <4>1. i \in 1..size
        BY <1>1, <1>2, <2>0, <2>1, <3>1, <3>2
      <4>2. At(moved, i) = At(q, i) /\ At(q, i) \in Item
        BY <1>1, <1>2
      <4>3. moved.slots[moved.start + i] = At(moved, i)
        BY DEF At
      <4>4. moved.start + i = i
        BY <3>2
      <4>. QED BY <4>1, <4>2, <4>3, <4>4
    <3>5. s \in [1..size -> Item]
      BY <1>1, <1>2, <3>1, <3>4, QrpaAssumption
    <3>6. s \in Seq(Item) /\ Len(s) = size
      BY <3>1, <3>5, SequenceOf
    <3>7. \A i \in 1..q.elems : s[i] = At(q, i)
      BY <1>1, <1>2, <3>4
    <3>8. q.elems <= size
      BY <1>1, <1>2, <2>1, <3>1
    <3>. HIDE DEF s, ready
    <3>. QED BY <1>1, <3>1, <3>3, <3>6, <3>7, <3>8 DEF Within, Qrpas, At
  <2>2. CASE ~(n > Len(moved.slots))
    BY <1>1, <1>2, <2>0, <2>2
  <2>. QED BY <2>1, <2>2
<1>4. Resize(q, n) = IF n = q.elems THEN q ELSE [ready EXCEPT !.elems = n]
  BY DEF Resize, moved
<1>. HIDE DEF ready
<1>5. CASE n = q.elems
  BY <1>1, <1>4, <1>5
<1>6. CASE n # q.elems
  <2>1. Resize(q, n) = [elems |-> n, start |-> ready.start, slots |-> ready.slots]
    BY <1>3, <1>4, <1>6, WithinFields
  <2>2. ready.start \in Nat /\ ready.slots \in Seq(Item)
    BY <1>3, WithinFields
  <2>. QED BY <1>1, <1>3, <2>1, <2>2 DEF Within, Qrpas, At
<1>. QED BY <1>5, <1>6

(* The elements that a splice at the beginning leaves alone keep their
   distance from the end. *)
IsSlid(s, q, count) ==
  /\ Within(s.array) /\ s.count \in Nat
  /\ count < q.elems => q.elems - count = s.array.elems - s.count
  /\ count >= q.elems => s.count >= s.array.elems
  /\ \A i \in 1..q.elems - count : At(s.array, s.count + i) = At(q, count + i)

LEMMA SlideRight ==
  ASSUME NEW q, Within(q), NEW count \in Nat, NEW n1 \in Nat
  PROVE  IsSlid(Slide(q, count, n1), q, count)
<1>. DEFINE n == IF n1 - count > q.start THEN q.start ELSE n1 - count
            s == Slide(q, count, n1)
<1>1. /\ q.elems \in Nat /\ q.start \in Nat /\ q.slots \in Seq(Item) /\ Len(q.slots) \in Nat
      /\ q.start + q.elems <= Len(q.slots)
      /\ q = [elems |-> q.elems, start |-> q.start, slots |-> q.slots]
  BY WithinFields
<1>2. n \in Int /\ n <= q.start /\ n <= n1 - count /\ (n = q.start \/ n = n1 - count)
  BY <1>1
<1>. HIDE DEF n
<1>3. CASE n <= -q.elems
  <2>1. s = [array |-> [elems |-> 0, start |-> 0, slots |-> q.slots], count |-> 0]
    BY <1>1, <1>3 DEF Slide, n
  <2>. HIDE DEF s
  <2>2. Within(s.array)
    BY <1>1, <2>1 DEF Within, Qrpas
  <2>3. count >= q.elems
    BY <1>1, <1>2, <1>3
  <2>. QED BY <1>1, <2>1, <2>2, <2>3 DEF s, IsSlid
<1>4. CASE ~(n <= -q.elems)
  <2>1. s = [array |-> [elems |-> q.elems + n, start |-> q.start - n, slots |-> q.slots], count |-> count + n]
    BY <1>1, <1>4 DEF Slide, n
  <2>. HIDE DEF s
  <2>2. Within(s.array)
    BY <1>1, <1>2, <1>4, <2>1 DEF Within, Qrpas
  <2>3. s.count \in Nat
    BY <1>1, <1>2, <2>1
  <2>4. \A i \in 1..q.elems - count : At(s.array, s.count + i) = At(q, count + i)
    <3>. SUFFICES ASSUME NEW i \in 1..q.elems - count PROVE At(s.array, s.count + i) = At(q, count + i)
      OBVIOUS
    <3>1. (q.start - n) + (count + n + i) = q.start + (count + i)
      BY <1>1, <1>2
    <3>2. s.array.slots = q.slots /\ s.array.start = q.start - n /\ s.count = count + n
      BY <2>1
    <3>. QED BY <3>1, <3>2 DEF At
  <2>5. /\ count < q.elems => q.elems - count = s.array.elems - s.count
        /\ count >= q.elems => s.count >= s.array.elems
    BY <1>1, <1>2, <2>1
  <2>. QED BY <2>2, <2>3, <2>4, <2>5 DEF s, IsSlid
<1>. QED BY <1>3, <1>4

(* Where the elements before the offset, those of a list and those behind are. *)
Places(start, offset, n1, tail, slots, at) ==
  /\ \A i \in 1..offset :
       /\ at - offset + i = start + i /\ start + i \in 1..slots /\ i \in 1..offset + n1 + tail
       /\ start + i \notin at + 1 .. at + n1 /\ start + i \notin at + n1 + 1 .. at + n1 + tail
  /\ \A i \in 1..n1 :
       /\ start + (offset + i) = at + i /\ at + i \in 1..slots
       /\ at + i \in at + 1 .. at + n1 /\ (at + i) - at = i
  /\ \A i \in 1..tail :
       /\ start + (offset + n1 + i) = at + n1 + i /\ at + n1 + i \in 1..slots
       /\ at + n1 + i \notin at + 1 .. at + n1

LEMMA BeforeOffset ==
  ASSUME NEW start \in Nat, NEW elems \in Nat, NEW slots \in Nat, start + elems <= slots,
         NEW offset \in Nat, NEW n \in Nat
  PROVE  \A i \in 1..offset : i <= elems => start + i \in 1..slots /\ start + i < start + offset + n + 1
OBVIOUS

LEMMA PlacesApart ==
  ASSUME NEW start \in Nat, NEW offset \in Nat, NEW n1 \in Nat, NEW tail \in Nat, NEW slots \in Nat,
         NEW at, at = start + offset, at + n1 + tail <= slots
  PROVE  Places(start, offset, n1, tail, slots, at)
BY DEF Places

(* Replacing count elements from an offset on by those of a list. *)
IsReplaced(new, q, list, offset, count, tail) ==
  /\ Within(new) /\ new.elems = offset + Len(list) + tail
  /\ \A i \in 1..offset : i <= q.elems => At(new, i) = At(q, i)
  /\ \A i \in 1..Len(list) : At(new, offset + i) = list[i]
  /\ \A i \in 1..tail : At(new, offset + Len(list) + i) = At(q, offset + count + i)

Behind(q, offset, count) == IF offset + count < q.elems THEN q.elems - offset - count ELSE 0

LEMMA ReplaceRight ==
  ASSUME NEW q, Within(q), NEW list \in Seq(Item), NEW offset \in Nat, NEW count \in Nat
  PROVE  IsReplaced(Replace(q, list, offset, count), q, list, offset, count, Behind(q, offset, count))
<1>. DEFINE n1 == Len(list)
            tail == IF offset + count < q.elems THEN q.elems - offset - count ELSE 0
            shut == IF tail > 0 /\ count > n1
                    THEN [q EXCEPT !.slots = Memmove(@, q.start + offset + n1, q.start + offset + count, tail)]
                    ELSE q
            sized == Resize(shut, offset + n1 + tail)
            at == sized.start + offset
            open == IF tail > 0 /\ count < n1 THEN Memmove(sized.slots, at + n1, at + count, tail)
                    ELSE sized.slots
            put == [i \in DOMAIN open |-> IF i \in at + 1 .. at + n1 THEN list[i - at] ELSE open[i]]
            new == [sized EXCEPT !.slots = put]
<1>1. /\ q.elems \in Nat /\ q.start \in Nat /\ q.slots \in Seq(Item) /\ Len(q.slots) \in Nat
      /\ q.start + q.elems <= Len(q.slots)
      /\ q = [elems |-> q.elems, start |-> q.start, slots |-> q.slots]
  BY WithinFields
<1>. HIDE DEF n1, tail, shut, sized, at, open, put, new
<1>2. n1 \in Nat /\ tail \in Nat /\ (tail > 0 => offset + count + tail = q.elems)
      /\ (tail = 0 => q.elems <= offset + count)
  <2>1. n1 \in Nat
    BY DEF n1
  <2>2. q.elems \in Nat
    BY <1>1
  <2>3. tail = IF offset + count < q.elems THEN q.elems - offset - count ELSE 0
    BY DEF tail
  <2>. QED BY <2>1, <2>2, <2>3
(* The elements behind are moved down before the array shrinks. *)
<1>3. /\ Within(shut) /\ shut.elems = q.elems
      /\ \A i \in 1..offset : i <= q.elems => At(shut, i) = At(q, i)
      /\ count > n1 => \A i \in 1..tail : At(shut, offset + n1 + i) = At(q, offset + count + i)
      /\ count <= n1 => shut = q
  <2>1. CASE tail > 0 /\ count > n1
    <3>. DEFINE to == q.start + offset + n1
                from == q.start + offset + count
                m == Memmove(q.slots, to, from, tail)
    <3>1. to \in Nat /\ from \in Nat /\ from + tail <= Len(q.slots) /\ to + tail <= Len(q.slots)
      BY <1>1, <1>2, <2>1
    <3>. HIDE DEF to, from
    <3>2. /\ m \in Seq(Item) /\ Len(m) = Len(q.slots)
          /\ \A i \in 1..Len(q.slots) : i \notin to + 1 .. to + tail => m[i] = q.slots[i]
          /\ \A i \in 1..tail : m[to + i] = q.slots[from + i]
      <4>1. q.slots \in Seq(Item) /\ tail \in Nat
        BY <1>1, <1>2
      <4>2. IsMoved(m, q.slots, to, from, tail)
        BY <3>1, <4>1, MemmoveRight
      <4>. QED BY <4>2 DEF IsMoved
    <3>3. shut = [elems |-> q.elems, start |-> q.start, slots |-> m]
      <4>1. shut = [q EXCEPT !.slots = m]
        BY <2>1 DEF shut, to, from
      <4>. HIDE DEF m
      <4>. QED BY <1>1, <4>1
    <3>. HIDE DEF m
    <3>4. Within(shut)
      BY <1>1, <3>2, <3>3 DEF Within, Qrpas
    <3>5. \A i \in 1..offset : i <= q.elems => At(shut, i) = At(q, i)
      <4>1. \A i \in 1..offset : i <= q.elems => q.start + i \in 1..Len(q.slots) /\ q.start + i \notin to + 1 .. to + tail
        <5>1. /\ q.start \in Nat /\ q.elems \in Nat /\ n1 \in Nat /\ Len(q.slots) \in Nat
              /\ q.start + q.elems <= Len(q.slots) /\ to = q.start + offset + n1
          BY <1>1, <1>2 DEF to
        <5>2. \A i \in 1..offset : i <= q.elems => q.start + i \in 1..Len(q.slots) /\ q.start + i < to + 1
          BY <5>1, BeforeOffset
        <5>. QED BY <3>1, <5>1, <5>2
      <4>. QED BY <3>2, <3>3, <4>1 DEF At
    <3>6. \A i \in 1..tail : At(shut, offset + n1 + i) = At(q, offset + count + i)
      <4>1. \A i \in 1..tail : /\ q.start + (offset + n1 + i) = to + i
                               /\ q.start + (offset + count + i) = from + i
        BY <1>1, <1>2 DEF to, from
      <4>. QED BY <3>2, <3>3, <4>1 DEF At
    <3>7. ~(count <= n1)
      BY <1>2, <2>1
    <3>8. shut.elems = q.elems
      BY <3>3
    <3>. QED BY <3>4, <3>5, <3>6, <3>7, <3>8
  <2>2. CASE ~(tail > 0 /\ count > n1)
    <3>1. shut = q
      BY <2>2 DEF shut
    <3>. QED BY <1>2, <2>2, <3>1
  <2>. QED BY <2>1, <2>2
<1>4. /\ Within(sized) /\ sized.elems = offset + n1 + tail
      /\ \A i \in 1..offset + n1 + tail : i <= q.elems => At(sized, i) = At(shut, i)
  <2>. DEFINE n == offset + n1 + tail
  <2>1. n \in Nat /\ sized = Resize(shut, n)
    BY <1>2 DEF sized
  <2>. HIDE DEF n
  <2>2. /\ Within(sized) /\ sized.elems = n
        /\ \A i \in 1..n : i <= shut.elems => At(sized, i) = At(shut, i)
    BY <1>3, <2>1, ResizeRight
  <2>. QED BY <1>3, <2>2 DEF n
<1>5. /\ sized.start \in Nat /\ sized.slots \in Seq(Item) /\ Len(sized.slots) \in Nat
      /\ sized.start + offset + n1 + tail <= Len(sized.slots)
      /\ sized = [elems |-> sized.elems, start |-> sized.start, slots |-> sized.slots]
      /\ at = sized.start + offset /\ at \in Nat
  <2>1. /\ sized.elems \in Nat /\ sized.start \in Nat /\ sized.slots \in Seq(Item) /\ Len(sized.slots) \in Nat
        /\ sized.start + sized.elems <= Len(sized.slots)
        /\ sized = [elems |-> sized.elems, start |-> sized.start, slots |-> sized.slots]
    BY <1>4, WithinFields
  <2>2. at = sized.start + offset
    BY DEF at
  <2>3. sized.elems = offset + n1 + tail /\ offset \in Nat /\ n1 \in Nat /\ tail \in Nat
    BY <1>2, <1>4
  <2>4. at \in Nat /\ sized.start + offset + n1 + tail <= Len(sized.slots)
    BY <2>1, <2>2, <2>3
  <2>. QED BY <2>1, <2>2, <2>4
<1>numbers. /\ at \in Nat /\ sized.start \in Nat /\ Len(sized.slots) \in Nat
            /\ n1 \in Nat /\ tail \in Nat
            /\ at = sized.start + offset /\ at + n1 + tail <= Len(sized.slots)
  BY <1>2, <1>5
<1>places. Places(sized.start, offset, n1, tail, Len(sized.slots), at)
  BY <1>numbers, PlacesApart
(* They are moved up after it has grown. *)
<1>6. /\ open \in Seq(Item) /\ Len(open) = Len(sized.slots)
      /\ \A i \in 1..offset : open[at - offset + i] = sized.slots[at - offset + i]
      /\ \A i \in 1..tail : open[at + n1 + i] = At(q, offset + count + i)
  <2>1. CASE tail > 0 /\ count < n1
    <3>. DEFINE m == Memmove(sized.slots, at + n1, at + count, tail)
    <3>1. at + n1 \in Nat /\ at + count \in Nat /\ at + n1 + tail <= Len(sized.slots) /\ at + count + tail <= Len(sized.slots)
      <4>. /\ at \in Nat /\ n1 \in Nat /\ tail \in Nat /\ Len(sized.slots) \in Nat /\ count < n1
           /\ at + n1 + tail <= Len(sized.slots)
        BY <1>numbers, <2>1
      <4>. QED OBVIOUS
    <3>2. /\ m \in Seq(Item) /\ Len(m) = Len(sized.slots)
          /\ \A i \in 1..Len(sized.slots) : i \notin at + n1 + 1 .. at + n1 + tail => m[i] = sized.slots[i]
          /\ \A i \in 1..tail : m[at + n1 + i] = sized.slots[at + count + i]
      <4>1. sized.slots \in Seq(Item) /\ tail \in Nat
        BY <1>2, <1>5
      <4>2. IsMoved(m, sized.slots, at + n1, at + count, tail)
        BY <3>1, <4>1, MemmoveRight
      <4>. QED BY <4>2 DEF IsMoved
    <3>3. open = m
      BY <2>1 DEF open
    <3>. HIDE DEF m
    <3>4. \A i \in 1..offset : /\ at - offset + i \in 1..Len(sized.slots)
                              /\ at - offset + i \notin at + n1 + 1 .. at + n1 + tail
      BY <1>places DEF Places
    <3>5. \A i \in 1..tail : sized.slots[at + count + i] = At(q, offset + count + i)
      <4>. SUFFICES ASSUME NEW i \in 1..tail PROVE sized.slots[at + count + i] = At(q, offset + count + i)
        OBVIOUS
      <4>1. /\ offset + count + i \in 1..offset + n1 + tail /\ offset + count + i <= q.elems
            /\ sized.start + (offset + count + i) = at + count + i
        <5>1. at = sized.start + offset /\ sized.start \in Nat /\ q.elems \in Nat /\ i \in Nat /\ i >= 1 /\ i <= tail
          BY <1>1, <1>numbers
        <5>. QED BY <1>2, <2>1, <5>1
      <4>2. shut = q
        BY <1>2, <1>3, <2>1
      <4>. QED BY <1>4, <4>1, <4>2 DEF At
    <3>. QED BY <3>2, <3>3, <3>4, <3>5
  <2>2. CASE ~(tail > 0 /\ count < n1)
    <3>1. open = sized.slots
      BY <2>2 DEF open
    <3>2. ASSUME NEW i \in 1..tail PROVE sized.slots[at + n1 + i] = At(q, offset + count + i)
      <4>1. /\ offset + n1 + i \in 1..offset + n1 + tail /\ offset + n1 + i <= q.elems
            /\ sized.start + (offset + n1 + i) = at + n1 + i /\ n1 <= count
        <5>1. at = sized.start + offset /\ sized.start \in Nat /\ q.elems \in Nat /\ i \in Nat /\ i >= 1 /\ i <= tail
          BY <1>1, <1>numbers
        <5>. QED BY <1>2, <2>2, <5>1
      <4>2. At(shut, offset + n1 + i) = At(q, offset + count + i)
        <5>1. CASE count > n1
          BY <1>3, <5>1
        <5>2. CASE count = n1
          BY <1>2, <1>3, <5>2
        <5>. QED BY <1>2, <4>1, <5>1, <5>2
      <4>. QED BY <1>4, <4>1, <4>2 DEF At
    <3>. QED BY <1>5, <3>1, <3>2
  <2>. QED BY <2>1, <2>2
<1>7. /\ put \in Seq(Item) /\ Len(put) = Len(sized.slots)
      /\ \A i \in 1..Len(sized.slots) : put[i] = IF i \in at + 1 .. at + n1 THEN list[i - at] ELSE open[i]
  <2>1. DOMAIN open = 1..Len(sized.slots) /\ \A i \in 1..Len(sized.slots) : open[i] \in Item
    BY <1>5, <1>6
  <2>2. \A i \in at + 1 .. at + n1 : i - at \in 1..n1
    <3>. at \in Nat /\ n1 \in Nat
      BY <1>numbers
    <3>. QED OBVIOUS
  <2>3. \A i \in 1..n1 : list[i] \in Item
    BY DEF n1
  <2>4. put = [i \in 1..Len(sized.slots) |-> IF i \in at + 1 .. at + n1 THEN list[i - at] ELSE open[i]]
    BY <2>1 DEF put
  <2>5. put \in [1..Len(sized.slots) -> Item]
    BY <2>1, <2>2, <2>3, <2>4
  <2>. QED BY <1>5, <2>4, <2>5, SequenceOf
<1>8. new = [elems |-> offset + n1 + tail, start |-> sized.start, slots |-> put]
  BY <1>4, <1>5 DEF new
<1>9. Within(new) /\ new.elems = offset + n1 + tail
  <2>1. sized.start + (offset + n1 + tail) <= Len(put) /\ offset + n1 + tail \in Nat /\ sized.start \in Nat
    <3>1. /\ sized.start \in Nat /\ offset \in Nat /\ n1 \in Nat /\ tail \in Nat
          /\ sized.start + offset + n1 + tail <= Len(sized.slots)
      BY <1>numbers
    <3>2. \A a, b, c, d, e \in Nat : a + b + c + d <= e => a + (b + c + d) <= e /\ b + c + d \in Nat
      OBVIOUS
    <3>3. Len(sized.slots) \in Nat /\ Len(put) = Len(sized.slots)
      BY <1>numbers, <1>7
    <3>4. sized.start + (offset + n1 + tail) <= Len(sized.slots) /\ offset + n1 + tail \in Nat
      BY <3>1, <3>2, <3>3, Zenon
    <3>. QED BY <3>1, <3>3, <3>4, Zenon
  <2>. QED BY <1>7, <1>8, <2>1 DEF Within, Qrpas
<1>10. ASSUME NEW i \in 1..offset, i <= q.elems PROVE At(new, i) = At(q, i)
  <2>1. /\ sized.start + i = at - offset + i /\ sized.start + i \in 1..Len(sized.slots)
        /\ sized.start + i \notin at + 1 .. at + n1 /\ i \in 1..offset + n1 + tail
    BY <1>places DEF Places
  <2>2. put[sized.start + i] = sized.slots[sized.start + i]
    BY <1>6, <1>7, <2>1
  <2>3. At(sized, i) = At(q, i)
    BY <1>3, <1>4, <1>10, <2>1
  <2>. QED BY <1>8, <2>2, <2>3 DEF At
<1>11. ASSUME NEW i \in 1..n1 PROVE At(new, offset + i) = list[i]
  <2>1. /\ sized.start + (offset + i) = at + i /\ at + i \in 1..Len(sized.slots)
        /\ at + i \in at + 1 .. at + n1 /\ (at + i) - at = i
    BY <1>places DEF Places
  <2>. QED BY <1>7, <1>8, <2>1 DEF At
<1>12. ASSUME NEW i \in 1..tail PROVE At(new, offset + n1 + i) = At(q, offset + count + i)
  <2>1. /\ sized.start + (offset + n1 + i) = at + n1 + i /\ at + n1 + i \in 1..Len(sized.slots)
        /\ at + n1 + i \notin at + 1 .. at + n1
    BY <1>places DEF Places
  <2>2. put[at + n1 + i] = open[at + n1 + i]
    BY <1>7, <2>1
  <2>. QED BY <1>6, <1>8, <2>1, <2>2 DEF At
<1>13. new = Replace(q, list, offset, count)
  BY DEF Replace, new, put, open, at, sized, shut, tail, n1
<1>14. tail = Behind(q, offset, count) /\ n1 = Len(list)
  BY DEF Behind, tail, n1
<1>. QED BY <1>9, <1>10, <1>11, <1>12, <1>13, <1>14 DEF IsReplaced
-----------------------------------------------------------------------------
(* The array its user sees, before and after a step. *)
Seen ==
  /\ Items \in Seq(Item) /\ Len(Items) = qrpa.elems /\ DOMAIN Items = 1..qrpa.elems
  /\ \A i \in 1..qrpa.elems : Items[i] = At(qrpa, i)

LEMMA ItemsSeen ==
  ASSUME Within(qrpa)
  PROVE  Seen
<1>1. Items = ItemsOf(qrpa)
  BY DEF Items, ItemsOf, At
<1>. QED BY <1>1, ItemsTyped DEF Seen

LEMMA ItemsSeenNext ==
  ASSUME Within(qrpa')
  PROVE  Seen'
<1>1. Items' = ItemsOf(qrpa')
  BY DEF Items, ItemsOf, At
<1>2. /\ ItemsOf(qrpa') \in Seq(Item) /\ Len(ItemsOf(qrpa')) = qrpa'.elems /\ DOMAIN ItemsOf(qrpa') = 1..qrpa'.elems
      /\ \A i \in 1..qrpa'.elems : ItemsOf(qrpa')[i] = At(qrpa', i)
  BY ItemsTyped
<1>. QED BY <1>1, <1>2 DEF Seen, At

LEMMA ResizedIs ==
  ASSUME NEW t \in Seq(Item), NEW new \in Seq(Item), NEW n \in Nat, Len(new) = n,
         \A i \in 1..n : i <= Len(t) => new[i] = t[i]
  PROVE  User!Resized(new, t, n)
<1>1. Len(t) \in Nat
  OBVIOUS
<1>2. \A i \in 1..User!ArrayMin(n, Len(t)) : i \in 1..n /\ i <= Len(t)
  BY <1>1 DEF User!ArrayMin
<1>. QED BY <1>2 DEF User!Resized

LEMMA PlaceIs ==
  ASSUME Seen, NEW pos \in Int
  PROVE  User!Index(pos) = Place(pos)
BY DEF Seen, Place, User!Index

(* Some of the items. *)
LEMMA PartIs ==
  ASSUME NEW t \in Seq(Item), NEW p \in Nat, NEW n \in Nat, p + n <= Len(t)
  PROVE  /\ SubSeq(t, p + 1, p + n) \in Seq(Item) /\ Len(SubSeq(t, p + 1, p + n)) = n
         /\ \A i \in 1..n : SubSeq(t, p + 1, p + n)[i] = t[p + i]
<1>1. Len(t) \in Nat /\ \A i \in p + 1 .. p + n : t[i] \in Item
  OBVIOUS
<1>2. p + 1 \in Int /\ p + n \in Int
  OBVIOUS
<1>3. /\ SubSeq(t, p + 1, p + n) \in Seq(Item)
      /\ Len(SubSeq(t, p + 1, p + n)) = IF p + 1 <= p + n THEN (p + n) - (p + 1) + 1 ELSE 0
      /\ \A i \in 1 .. (p + n) - (p + 1) + 1 : SubSeq(t, p + 1, p + n)[i] = t[(p + 1) + i - 1]
  BY <1>1, <1>2, SubSeqProperties
<1>4. /\ (IF p + 1 <= p + n THEN (p + n) - (p + 1) + 1 ELSE 0) = n /\ (p + n) - (p + 1) + 1 = n
      /\ \A i \in 1..n : (p + 1) + i - 1 = p + i
  OBVIOUS
<1>. QED BY <1>3, <1>4

(* Writing one element. *)
LEMMA WriteRight ==
  ASSUME NEW q, Within(q), NEW i \in 1..q.elems, NEW v \in Item
  PROVE  LET w == [q EXCEPT !.slots[q.start + i] = v]
         IN  /\ Within(w) /\ w.elems = q.elems /\ At(w, i) = v
             /\ \A j \in 1..q.elems : j # i => At(w, j) = At(q, j)
<1>. DEFINE s == [q.slots EXCEPT ![q.start + i] = v]
            w == [q EXCEPT !.slots[q.start + i] = v]
<1>1. /\ q.elems \in Nat /\ q.start \in Nat /\ q.slots \in Seq(Item) /\ Len(q.slots) \in Nat
      /\ DOMAIN q.slots = 1..Len(q.slots) /\ q.start + q.elems <= Len(q.slots)
      /\ q = [elems |-> q.elems, start |-> q.start, slots |-> q.slots]
  BY WithinFields
<1>2. \A j \in 1..q.elems : q.start + j \in 1..Len(q.slots) /\ (j # i => q.start + j # q.start + i)
  BY <1>1
<1>3. /\ s \in Seq(Item) /\ Len(s) = Len(q.slots) /\ s[q.start + i] = v
      /\ \A j \in 1..q.elems : j # i => s[q.start + j] = q.slots[q.start + j]
  BY <1>1, <1>2
<1>4. w = [elems |-> q.elems, start |-> q.start, slots |-> s]
  <2>1. w = [q EXCEPT !.slots = s]
    OBVIOUS
  <2>. HIDE DEF w, s
  <2>. QED BY <1>1, <2>1
<1>. HIDE DEF s, w
<1>5. Within(w)
  BY <1>1, <1>3, <1>4 DEF Within, Qrpas
<1>. QED BY <1>3, <1>4, <1>5 DEF At, w
-----------------------------------------------------------------------------
LEMMA ResizeStep ==
  ASSUME Within(qrpa), NEW n \in Nat, QrpaResize(n)
  PROVE  Within(qrpa') /\ User!ArrayResize
<1>1. /\ Within(qrpa') /\ qrpa'.elems = n
      /\ \A i \in 1..n : i <= qrpa.elems => At(qrpa', i) = At(qrpa, i)
  BY ResizeRight DEF QrpaResize, Becomes
<1>2. qrpa.elems \in Nat
  BY WithinFields
<1>3. Seen /\ Seen'
  BY <1>1, ItemsSeen, ItemsSeenNext
<1>4. /\ Items \in Seq(Item) /\ Items' \in Seq(Item) /\ Len(Items') = n
      /\ \A i \in 1..n : i <= Len(Items) => Items'[i] = Items[i]
  BY <1>1, <1>2, <1>3 DEF Seen
<1>5. User!Resized(Items', Items, n)
  BY <1>4, ResizedIs
<1>6. call'.op = "resize" /\ call'.elems = n /\ result' = Null
  BY DEF QrpaResize
<1>. QED BY <1>1, <1>5, <1>6 DEF User!ArrayResize

LEMMA GetStep ==
  ASSUME Within(qrpa), NEW pos \in Int, QrpaGet(pos)
  PROVE  Within(qrpa') /\ User!ArrayGet
<1>1. Items' = Items /\ qrpa' = qrpa /\ call'.op = "get" /\ call'.pos = pos /\ Seen
  BY ItemsSeen DEF QrpaGet, Items
<1>2. qrpa.elems \in Nat /\ qrpa.start \in Nat /\ Place(pos) \in Nat /\ Len(Items) = qrpa.elems
  BY <1>1, WithinFields DEF Place, QrpaGet, Seen
<1>3. User!Index(pos) = Place(pos)
  BY <1>1, PlaceIs
<1>4. CASE Place(pos) >= qrpa.elems
  <2>1. result' = Null /\ ~(Place(pos) < Len(Items))
    BY <1>2, <1>4 DEF QrpaGet
  <2>. QED BY <1>1, <1>2, <1>3, <2>1 DEF User!ArrayGet
<1>5. CASE ~(Place(pos) >= qrpa.elems)
  <2>1. /\ Place(pos) + 1 \in 1..qrpa.elems /\ qrpa.start + Place(pos) + 1 = qrpa.start + (Place(pos) + 1)
        /\ Place(pos) < Len(Items)
    BY <1>2, <1>5
  <2>2. result' = Items[Place(pos) + 1]
    BY <1>1, <1>5, <2>1 DEF QrpaGet, Seen, At
  <2>. QED BY <1>1, <1>2, <1>3, <2>1, <2>2 DEF User!ArrayGet
<1>. QED BY <1>4, <1>5

LEMMA SetStep ==
  ASSUME Within(qrpa), NEW pos \in Int, NEW v \in Item, QrpaSet(pos, v)
  PROVE  Within(qrpa') /\ User!ArraySet
<1>. DEFINE i == Place(pos) + 1
            q == IF Place(pos) >= qrpa.elems THEN Resize(qrpa, Place(pos) + 1) ELSE qrpa
<1>1. qrpa.elems \in Nat /\ Place(pos) \in Nat /\ result' = Null
  BY WithinFields DEF Place, QrpaSet
<1>2. i \in Nat \ {0} /\ (Place(pos) >= qrpa.elems <=> i > qrpa.elems)
  BY <1>1
<1>3. /\ Within(q) /\ q.elems = IF i > qrpa.elems THEN i ELSE qrpa.elems
      /\ \A j \in 1..qrpa.elems : At(q, j) = At(qrpa, j)
  <2>1. CASE i > qrpa.elems
    <3>1. q = Resize(qrpa, i)
      BY <1>2, <2>1
    <3>. HIDE DEF q, i
    <3>2. /\ Within(Resize(qrpa, i)) /\ Resize(qrpa, i).elems = i
          /\ \A j \in 1..i : j <= qrpa.elems => At(Resize(qrpa, i), j) = At(qrpa, j)
      BY <1>2, ResizeRight
    <3>. QED BY <1>1, <1>2, <2>1, <3>1, <3>2
  <2>2. CASE ~(i > qrpa.elems)
    BY <1>2, <2>2
  <2>. QED BY <2>1, <2>2
<1>4. i \in 1..q.elems
  BY <1>1, <1>2, <1>3
<1>5. qrpa' = [q EXCEPT !.slots[q.start + i] = v]
  <2>1. qrpa' = [q EXCEPT !.slots[q.start + Place(pos) + 1] = v]
    BY DEF QrpaSet, Becomes
  <2>2. q.start + Place(pos) + 1 = q.start + i
    <3>. HIDE DEF q
    <3>1. q.start \in Nat
      BY <1>3, WithinFields
    <3>. QED BY <1>1, <3>1
  <2>. QED BY <2>1, <2>2
<1>. HIDE DEF q, i
<1>6. /\ Within(qrpa') /\ qrpa'.elems = q.elems /\ At(qrpa', i) = v
      /\ \A j \in 1..q.elems : j # i => At(qrpa', j) = At(q, j)
  BY <1>3, <1>4, <1>5, WriteRight
<1>7. Seen /\ Seen'
  BY <1>6, ItemsSeen, ItemsSeenNext
<1>8. /\ Items \in Seq(Item) /\ Len(Items) = qrpa.elems /\ DOMAIN Items = 1..qrpa.elems
      /\ Items' \in Seq(Item) /\ Len(Items') = q.elems /\ Items'[i] = v
  BY <1>4, <1>6, <1>7 DEF Seen
<1>9. Len(Items') = User!ArrayMax(Len(Items), i)
  BY <1>1, <1>2, <1>3, <1>8 DEF User!ArrayMax
<1>10. \A j \in DOMAIN Items : j # i => Items'[j] = Items[j]
  <2>. SUFFICES ASSUME NEW j \in 1..qrpa.elems, j # i PROVE Items'[j] = Items[j]
    BY <1>8
  <2>1. j \in 1..q.elems
    BY <1>1, <1>2, <1>3
  <2>. QED BY <1>3, <1>6, <1>7, <2>1 DEF Seen
<1>11. call'.op = "set" /\ call'.pos = pos /\ call'.item = v
  BY DEF QrpaSet
<1>12. User!Index(pos) = Place(pos)
  BY <1>7, PlaceIs
<1>13. User!Index(pos) >= 0 /\ User!Index(pos) + 1 = i
  BY <1>1, <1>12 DEF i
<1>. QED BY <1>1, <1>6, <1>8, <1>9, <1>10, <1>11, <1>13 DEF User!ArraySet

LEMMA PushStep ==
  ASSUME Within(qrpa), NEW v \in Item, QrpaPush(v)
  PROVE  Within(qrpa') /\ User!ArrayPush
<1>. DEFINE n == qrpa.elems + 1
            q == Resize(qrpa, n)
<1>1. qrpa.elems \in Nat /\ n \in Nat /\ n \in 1..n
  BY WithinFields
<1>. HIDE DEF n
<1>2. /\ Within(q) /\ q.elems = n
      /\ \A j \in 1..n : j <= qrpa.elems => At(q, j) = At(qrpa, j)
  BY <1>1, ResizeRight
<1>3. qrpa' = [q EXCEPT !.slots[q.start + n] = v] /\ result' = Null
  BY <1>2 DEF QrpaPush, Becomes, n
<1>. HIDE DEF q
<1>4. /\ Within(qrpa') /\ qrpa'.elems = n /\ At(qrpa', n) = v
      /\ \A j \in 1..n : j # n => At(qrpa', j) = At(q, j)
  BY <1>1, <1>2, <1>3, WriteRight
<1>5. Seen /\ Seen'
  BY <1>4, ItemsSeen, ItemsSeenNext
<1>6. Items' = Append(Items, v)
  <2>1. /\ Items \in Seq(Item) /\ Len(Items) = qrpa.elems /\ DOMAIN Items = 1..qrpa.elems
        /\ Items' \in Seq(Item) /\ Len(Items') = n /\ DOMAIN Items' = 1..n
    BY <1>4, <1>5 DEF Seen
  <2>2. Items'[n] = v /\ \A j \in 1..qrpa.elems : Items'[j] = Items[j]
    BY <1>1, <1>2, <1>4, <1>5 DEF Seen, n
  <2>. QED BY <1>1, <2>1, <2>2 DEF n
<1>7. call'.op = "push" /\ call'.item = v
  BY DEF QrpaPush
<1>. QED BY <1>3, <1>4, <1>6, <1>7 DEF User!ArrayPush

LEMMA PopStep ==
  ASSUME Within(qrpa), QrpaPop
  PROVE  Within(qrpa') /\ User!ArrayPop
<1>1. /\ qrpa.elems \in Nat \ {0} /\ qrpa.start \in Nat /\ qrpa.slots \in Seq(Item) /\ Len(qrpa.slots) \in Nat
      /\ qrpa.start + qrpa.elems <= Len(qrpa.slots)
      /\ qrpa = [elems |-> qrpa.elems, start |-> qrpa.start, slots |-> qrpa.slots]
  BY WithinFields DEF QrpaPop
<1>2. qrpa' = [elems |-> qrpa.elems - 1, start |-> qrpa.start, slots |-> qrpa.slots]
  BY <1>1 DEF QrpaPop
<1>3. Within(qrpa')
  BY <1>1, <1>2 DEF Within, Qrpas
<1>4. Seen /\ Seen'
  BY <1>3, ItemsSeen, ItemsSeenNext
<1>5. /\ Items \in Seq(Item) /\ Len(Items) = qrpa.elems /\ DOMAIN Items = 1..qrpa.elems
      /\ Items' \in Seq(Item) /\ Len(Items') = qrpa.elems - 1 /\ DOMAIN Items' = 1..qrpa.elems - 1
  BY <1>2, <1>4 DEF Seen
<1>6. \A j \in 1..qrpa.elems - 1 : Items'[j] = Items[j]
  BY <1>1, <1>2, <1>4 DEF Seen, At
<1>7. Items' = SubSeq(Items, 1, Len(Items) - 1)
  <2>1. PICK n \in Nat : n = qrpa.elems - 1
    BY <1>1
  <2>2. Items \in Seq(Item) /\ Len(Items) - 1 = n /\ \A j \in 1..n : j \in 1..Len(Items)
    BY <1>1, <1>5, <2>1
  <2>3. \A j \in 1..n : Items[j] \in Item
    BY <2>2, ElementOfSeq
  <2>4. PICK t : t = SubSeq(Items, 1, n)
    OBVIOUS
  <2>5. t \in Seq(Item) /\ Len(t) = n /\ \A j \in 1..n : t[j] = Items[j]
    BY <2>2, <2>3, <2>4
  <2>6. Items' \in Seq(Item) /\ Len(Items') = n /\ \A j \in 1..n : Items'[j] = Items[j]
    BY <1>5, <1>6, <2>1
  <2>7. Items' = t
    BY <2>5, <2>6, SeqEqual
  <2>. QED BY <2>2, <2>4, <2>7
<1>8. result' = Items[Len(Items)] /\ Items # <<>>
  <2>1. result' = At(qrpa, qrpa.elems) /\ qrpa.elems \in 1..qrpa.elems
    BY <1>1 DEF QrpaPop, At
  <2>. QED BY <1>1, <1>4, <1>5, <2>1 DEF Seen
<1>9. call'.op = "pop"
  BY DEF QrpaPop
<1>. QED BY <1>3, <1>7, <1>8, <1>9 DEF User!ArrayPop

LEMMA ShiftStep ==
  ASSUME Within(qrpa), QrpaShift
  PROVE  Within(qrpa') /\ User!ArrayShift
<1>1. /\ qrpa.elems \in Nat \ {0} /\ qrpa.start \in Nat /\ qrpa.slots \in Seq(Item) /\ Len(qrpa.slots) \in Nat
      /\ qrpa.start + qrpa.elems <= Len(qrpa.slots)
      /\ qrpa = [elems |-> qrpa.elems, start |-> qrpa.start, slots |-> qrpa.slots]
  BY WithinFields DEF QrpaShift
<1>2. qrpa' = [elems |-> qrpa.elems - 1, start |-> qrpa.start + 1, slots |-> qrpa.slots]
  BY <1>1 DEF QrpaShift
<1>3. Within(qrpa')
  BY <1>1, <1>2 DEF Within, Qrpas
<1>4. Seen /\ Seen'
  BY <1>3, ItemsSeen, ItemsSeenNext
<1>5. /\ Items \in Seq(Item) /\ Len(Items) = qrpa.elems /\ DOMAIN Items = 1..qrpa.elems
      /\ Items' \in Seq(Item) /\ Len(Items') = qrpa.elems - 1 /\ DOMAIN Items' = 1..qrpa.elems - 1
  BY <1>2, <1>4 DEF Seen
<1>6. ASSUME NEW j \in 1..qrpa.elems - 1 PROVE Items'[j] = Items[j + 1]
  <2>. /\ qrpa'.elems = qrpa.elems - 1 /\ qrpa'.start = qrpa.start + 1 /\ qrpa'.slots = qrpa.slots
       /\ qrpa.elems \in Nat /\ qrpa.start \in Nat
    BY <1>1, <1>2
  <2>1. j \in 1..qrpa'.elems /\ j + 1 \in 1..qrpa.elems /\ (qrpa.start + 1) + j = qrpa.start + (j + 1)
    OBVIOUS
  <2>2. At(qrpa', j) = At(qrpa, j + 1)
    BY <2>1 DEF At
  <2>. QED BY <1>4, <2>1, <2>2 DEF Seen
<1>7. Items' = Tail(Items) /\ Items # <<>>
  BY <1>1, <1>5, <1>6
<1>8. result' = Head(Items)
  <2>1. result' = At(qrpa, 1) /\ 1 \in 1..qrpa.elems
    BY <1>1 DEF QrpaShift, At
  <2>. QED BY <1>1, <1>4, <1>5, <1>7, <2>1 DEF Seen
<1>9. call'.op = "shift"
  BY DEF QrpaShift
<1>. QED BY <1>3, <1>7, <1>8, <1>9 DEF User!ArrayShift

LEMMA CloneStep ==
  ASSUME Within(qrpa), QrpaClone
  PROVE  Within(qrpa') /\ User!ArrayClone
<1>. DEFINE s == [i \in 1..qrpa.elems |-> qrpa.slots[qrpa.start + i]]
<1>1. qrpa.elems \in Nat /\ \A i \in 1..qrpa.elems : At(qrpa, i) \in Item
  BY WithinFields
<1>2. s \in [1..qrpa.elems -> Item] /\ \A i \in 1..qrpa.elems : s[i] = At(qrpa, i)
  BY <1>1 DEF At
<1>. HIDE DEF s
<1>3. s \in Seq(Item) /\ Len(s) = qrpa.elems
  BY <1>1, <1>2, SequenceOf
<1>4. qrpa' = [elems |-> qrpa.elems, start |-> 0, slots |-> s] /\ result' = Null
  BY DEF QrpaClone, s
<1>5. Within(qrpa')
  BY <1>1, <1>3, <1>4 DEF Within, Qrpas
<1>6. Seen /\ Seen'
  BY <1>5, ItemsSeen, ItemsSeenNext
<1>7. \A i \in 1..qrpa.elems : At(qrpa', i) = At(qrpa, i)
  BY <1>1, <1>2, <1>4 DEF At
<1>8. Items' = Items
  <2>1. /\ Items \in Seq(Item) /\ Len(Items) = qrpa.elems /\ Items' \in Seq(Item) /\ Len(Items') = qrpa.elems
        /\ \A i \in 1..qrpa.elems : Items'[i] = Items[i]
    BY <1>4, <1>6, <1>7 DEF Seen
  <2>. QED BY <2>1, SeqEqual
<1>9. call'.op = "clone"
  BY DEF QrpaClone
<1>. QED BY <1>4, <1>5, <1>8, <1>9 DEF User!ArrayClone

(* Room is made in front of the elements. *)
LEMMA RoomyRight ==
  ASSUME NEW q, Within(q)
  PROVE  /\ Within(Roomy(q)) /\ Roomy(q).start > 0 /\ Roomy(q).elems = q.elems
         /\ \A i \in 1..q.elems : At(Roomy(q), i) = At(q, i)
<1>1. q.elems \in Nat /\ q.start \in Nat
  BY WithinFields
<1>2. CASE q.start > 0
  BY <1>1, <1>2 DEF Roomy
<1>3. CASE q.start = 0
  <2>. DEFINE n == q.elems + FrontRoom
              z == Resize(q, n)
              m == Memmove(z.slots, FrontRoom, 0, q.elems)
              s == [i \in DOMAIN m |-> IF i <= FrontRoom THEN Null ELSE m[i]]
  <2>0. n \in Nat /\ FrontRoom \in Nat \ {0} /\ q.elems <= n
    BY <1>1, QrpaAssumption
  <2>. HIDE DEF n
  <2>1. /\ Within(z) /\ z.elems = n
        /\ \A i \in 1..n : i <= q.elems => At(z, i) = At(q, i)
    BY <2>0, ResizeRight
  <2>2. z.start = 0 /\ z.slots \in Seq(Item) /\ Len(z.slots) \in Nat /\ n <= Len(z.slots)
    <3>1. z.start = 0
      BY <1>3, <2>0, ResizeRight
    <3>. HIDE DEF z
    <3>2. z.slots \in Seq(Item) /\ Len(z.slots) \in Nat /\ z.start + z.elems <= Len(z.slots)
      BY <2>1, WithinFields
    <3>. QED BY <2>0, <2>1, <3>1, <3>2
  <2>3. Roomy(q) = [elems |-> q.elems, start |-> FrontRoom, slots |-> s]
    BY <1>1, <1>3 DEF Roomy, n
  <2>. HIDE DEF z
  <2>4. IsMoved(m, z.slots, FrontRoom, 0, q.elems)
    BY <1>1, <2>0, <2>2, MemmoveRight DEF n
  <2>. HIDE DEF m
  <2>5. /\ m \in Seq(Item) /\ Len(m) = Len(z.slots) /\ DOMAIN m = 1..Len(z.slots)
        /\ \A i \in 1..q.elems : m[FrontRoom + i] = z.slots[i]
    BY <2>2, <2>4 DEF IsMoved
  <2>6. s \in [1..Len(z.slots) -> Item]
    BY <2>5, QrpaAssumption
  <2>7. ASSUME NEW i \in 1..q.elems
        PROVE  FrontRoom + i \in 1..Len(z.slots) /\ ~(FrontRoom + i <= FrontRoom) /\ i \in 1..n /\ i <= q.elems
    BY <1>1, <2>0, <2>2 DEF n
  <2>8. \A i \in 1..q.elems : s[FrontRoom + i] = At(q, i)
    BY <2>1, <2>2, <2>5, <2>7 DEF At
  <2>. HIDE DEF s
  <2>9. s \in Seq(Item) /\ Len(s) = Len(z.slots)
    BY <2>2, <2>6, SequenceOf
  <2>10. FrontRoom + q.elems <= Len(s)
    BY <1>1, <2>0, <2>2, <2>9 DEF n
  <2>. QED BY <1>1, <2>0, <2>3, <2>8, <2>9, <2>10 DEF Within, Qrpas, At
<1>. QED BY <1>1, <1>2, <1>3

LEMMA UnshiftStep ==
  ASSUME Within(qrpa), NEW v \in Item, QrpaUnshift(v)
  PROVE  Within(qrpa') /\ User!ArrayUnshift
<1>. DEFINE q == Roomy(qrpa)
            s == [q.slots EXCEPT ![q.start] = v]
<1>1. /\ Within(q) /\ q.start > 0 /\ q.elems = qrpa.elems
      /\ \A i \in 1..qrpa.elems : At(q, i) = At(qrpa, i)
  BY RoomyRight
<1>2. qrpa' = [elems |-> q.elems + 1, start |-> q.start - 1, slots |-> s] /\ result' = Null
  BY DEF QrpaUnshift, Becomes
<1>. HIDE DEF q
<1>3. /\ q.elems \in Nat /\ q.start \in Nat \ {0} /\ q.slots \in Seq(Item) /\ Len(q.slots) \in Nat
      /\ DOMAIN q.slots = 1..Len(q.slots) /\ q.start + q.elems <= Len(q.slots)
  BY <1>1, WithinFields
<1>4. /\ s \in Seq(Item) /\ Len(s) = Len(q.slots) /\ s[q.start] = v
      /\ \A i \in 1..Len(q.slots) : i # q.start => s[i] = q.slots[i]
  <2>1. q.start \in 1..Len(q.slots)
    BY <1>3
  <2>. QED BY <1>3, <2>1
<1>. HIDE DEF s
<1>5. Within(qrpa')
  <2>1. (q.start - 1) + (q.elems + 1) <= Len(s) /\ q.start - 1 \in Nat /\ q.elems + 1 \in Nat
    BY <1>3, <1>4
  <2>. QED BY <1>2, <1>4, <2>1 DEF Within, Qrpas
<1>6. Seen /\ Seen'
  BY <1>5, ItemsSeen, ItemsSeenNext
<1>7. /\ Items \in Seq(Item) /\ Len(Items) = q.elems /\ DOMAIN Items = 1..q.elems
      /\ Items' \in Seq(Item) /\ Len(Items') = q.elems + 1 /\ DOMAIN Items' = 1..q.elems + 1
  BY <1>1, <1>2, <1>6 DEF Seen
<1>8. Items'[1] = v
  <2>1. 1 \in 1..qrpa'.elems /\ (q.start - 1) + 1 = q.start
    BY <1>2, <1>3
  <2>2. At(qrpa', 1) = v
    BY <1>2, <1>4, <2>1 DEF At
  <2>. QED BY <1>6, <2>1, <2>2 DEF Seen
<1>9. ASSUME NEW i \in 1..q.elems PROVE Items'[i + 1] = Items[i]
  <2>1. /\ i + 1 \in 1..qrpa'.elems /\ (q.start - 1) + (i + 1) = q.start + i
        /\ q.start + i \in 1..Len(q.slots) /\ q.start + i # q.start
    <3>1. PICK e \in Nat, b \in Nat, n \in Nat : e = q.elems /\ b = q.start /\ n = Len(q.slots) /\ b + e <= n
      BY <1>3
    <3>2. qrpa'.elems = e + 1
      BY <1>2, <3>1
    <3>3. i + 1 \in 1..e + 1 /\ (b - 1) + (i + 1) = b + i /\ b + i \in 1..n /\ b + i # b
      BY <3>1
    <3>. QED BY <3>1, <3>2, <3>3
  <2>2. At(qrpa', i + 1) = At(q, i)
    BY <1>2, <1>4, <2>1 DEF At
  <2>. QED BY <1>1, <1>6, <2>1, <2>2 DEF Seen
<1>10. Items' = <<v>> \o Items
  <2>. DEFINE t == <<v>> \o Items
  <2>1. t \in Seq(Item) /\ Len(t) = q.elems + 1 /\ t[1] = v
    BY <1>3, <1>7
  <2>2. \A i \in 1..q.elems : t[i + 1] = Items[i]
    BY <1>3, <1>7
  <2>. HIDE DEF t
  <2>3. \A i \in 1..q.elems + 1 : i = 1 \/ (i - 1 \in 1..q.elems /\ i = (i - 1) + 1)
    BY <1>3
  <2>4. \A i \in 1..q.elems + 1 : t[i] = Items'[i]
    BY <1>8, <1>9, <2>1, <2>2, <2>3
  <2>5. Items' = t
    BY <1>7, <2>1, <2>4
  <2>. QED BY <2>5 DEF t
<1>11. call'.op = "unshift" /\ call'.item = v
  BY DEF QrpaUnshift
<1>. QED BY <1>2, <1>5, <1>10, <1>11 DEF User!ArrayUnshift

LEMMA SlideNothing ==
  ASSUME Within(qrpa)
  PROVE  Slide(qrpa, 0, 0).array.elems = qrpa.elems /\ Slide(qrpa, 0, 0).count = 0
<1>1. /\ qrpa.elems \in Nat /\ qrpa.start \in Nat
      /\ qrpa = [elems |-> qrpa.elems, start |-> qrpa.start, slots |-> qrpa.slots]
  BY WithinFields
<1>2. (IF 0 - 0 > qrpa.start THEN qrpa.start ELSE 0 - 0) = 0
  BY <1>1
<1>3. CASE 0 <= -qrpa.elems
  <2>1. qrpa.elems = 0
    BY <1>1, <1>3
  <2>. QED BY <1>1, <1>2, <1>3, <2>1 DEF Slide
<1>4. CASE ~(0 <= -qrpa.elems)
  BY <1>1, <1>2, <1>4 DEF Slide
<1>. QED BY <1>3, <1>4

(* The items from behind place p on. *)
LEMMA RestIs ==
  ASSUME NEW t \in Seq(Item), NEW p \in Nat, NEW n \in Nat,
         n = 0 => Len(t) <= p, n > 0 => p + n = Len(t)
  PROVE  /\ SubSeq(t, p + 1, Len(t)) \in Seq(Item) /\ Len(SubSeq(t, p + 1, Len(t))) = n
         /\ \A i \in 1..n : SubSeq(t, p + 1, Len(t))[i] = t[p + i]
<1>1. CASE n = 0
  <2>1. Len(t) \in Nat /\ ~(p + 1 <= Len(t))
    BY <1>1
  <2>. QED BY <1>1, <2>1
<1>2. CASE n > 0
  BY <1>2, PartIs
<1>. QED BY <1>1, <1>2

LEMMA SpliceStep ==
  ASSUME Within(qrpa), NEW list \in Lists, NEW offset \in Int, NEW count \in Nat, QrpaSplice(list, offset, count)
  PROVE  Within(qrpa') /\ User!ArraySplice
<1>. DEFINE o == Place(offset)
            n1 == Len(list)
            slid == IF o = 0 THEN Slide(qrpa, count, n1) ELSE [array |-> qrpa, count |-> count]
            q == slid.array
            c == slid.count
            tail == Behind(q, o, c)
<1>1. /\ o \in Nat /\ qrpa.elems \in Nat /\ list \in Seq(Item) /\ n1 \in Nat
      /\ qrpa' = Splice(qrpa, list, o, count) /\ result' = Null
  BY WithinFields, QrpaAssumption DEF QrpaSplice, Becomes, Place
<1>. HIDE DEF o, n1, slid, q, c, tail
<1>2. q = IF o = 0 THEN Slide(qrpa, count, n1).array ELSE qrpa
  BY DEF q, slid
<1>3. c = IF o = 0 THEN Slide(qrpa, count, n1).count ELSE count
  BY DEF c, slid
<1>4. o = 0 => IsSlid(Slide(qrpa, count, n1), qrpa, count)
  BY <1>1, SlideRight
<1>5. Within(q) /\ c \in Nat /\ q.elems \in Nat
  <2>1. Within(q) /\ c \in Nat
    BY <1>2, <1>3, <1>4 DEF IsSlid
  <2>. QED BY <2>1, WithinFields
<1>6. tail = IF o + c < q.elems THEN q.elems - o - c ELSE 0
  BY DEF tail, Behind
(* The elements behind are those that were behind the ones replaced. *)
<1>7. /\ tail = IF o + count < qrpa.elems THEN qrpa.elems - o - count ELSE 0
      /\ \A i \in 1..tail : At(q, o + c + i) = At(qrpa, o + count + i)
  <2>1. CASE o = 0
    <3>1. /\ count < qrpa.elems => qrpa.elems - count = q.elems - c
          /\ count >= qrpa.elems => c >= q.elems
          /\ \A i \in 1..qrpa.elems - count : At(q, c + i) = At(qrpa, count + i)
      BY <1>2, <1>3, <1>4, <2>1 DEF IsSlid
    <3>2. tail = IF count < qrpa.elems THEN qrpa.elems - count ELSE 0
      BY <1>1, <1>5, <1>6, <2>1, <3>1
    <3>3. tail = IF o + count < qrpa.elems THEN qrpa.elems - o - count ELSE 0
      BY <1>1, <2>1, <3>2
    <3>4. ASSUME NEW i \in 1..tail PROVE At(q, o + c + i) = At(qrpa, o + count + i)
      <4>1. i \in 1..qrpa.elems - count /\ o + count + i = count + i /\ o + c + i = c + i
        BY <1>1, <1>5, <2>1, <3>2
      <4>. QED BY <3>1, <4>1
    <3>. QED BY <3>3, <3>4
  <2>2. CASE o # 0
    <3>1. q = qrpa /\ c = count
      BY <1>2, <1>3, <2>2
    <3>. QED BY <1>6, <3>1
  <2>. QED BY <2>1, <2>2
<1>8. \A i \in 1..o : i <= qrpa.elems => i <= q.elems /\ At(q, i) = At(qrpa, i)
  BY <1>1, <1>2
<1>asked. /\ call'.op = "splice" /\ call'.list = list /\ call'.offset = offset /\ call'.count = count
          /\ User!Index(offset) = o
  BY ItemsSeen, PlaceIs DEF QrpaSplice, o
<1>9. CASE count = 0 /\ list = <<>>
  <2>1. Within(qrpa') /\ qrpa'.elems = qrpa.elems /\ \A i \in 1..qrpa.elems : At(qrpa', i) = At(qrpa, i)
    <3>1. n1 = 0
      BY <1>9 DEF n1
    <3>2. CASE o = 0
      <4>1. PICK z : z = Slide(qrpa, 0, 0)
        OBVIOUS
      <4>2. IsSlid(z, qrpa, 0) /\ z.array.elems = qrpa.elems /\ z.count = 0
        BY <4>1, SlideNothing, SlideRight
      <4>3. qrpa' = z.array
        BY <1>1, <1>9, <3>1, <3>2, <4>1, <4>2 DEF Splice, n1
      <4>4. /\ Within(z.array) /\ z.array.elems = qrpa.elems
            /\ \A i \in 1..qrpa.elems - 0 : At(z.array, 0 + i) = At(qrpa, 0 + i)
        BY <4>2 DEF IsSlid
      <4>. QED BY <1>1, <4>3, <4>4
    <3>3. CASE o # 0
      BY <1>1, <1>9, <3>3 DEF Splice
    <3>. QED BY <3>2, <3>3
  <2>2. Items' = Items
    <3>1. Seen /\ Seen'
      BY <2>1, ItemsSeen, ItemsSeenNext
    <3>2. /\ Items \in Seq(Item) /\ Len(Items) = qrpa.elems /\ Items' \in Seq(Item) /\ Len(Items') = qrpa.elems
          /\ \A i \in 1..qrpa.elems : Items'[i] = Items[i]
      BY <2>1, <3>1 DEF Seen
    <3>. QED BY <3>2, SeqEqual
  <2>. QED BY <1>1, <1>9, <1>asked, <2>1, <2>2 DEF User!ArraySplice
<1>10. CASE ~(count = 0 /\ list = <<>>)
  <2>1. /\ Within(qrpa') /\ qrpa'.elems = o + n1 + tail
        /\ \A i \in 1..o : i <= q.elems => At(qrpa', i) = At(q, i)
        /\ \A i \in 1..n1 : At(qrpa', o + i) = list[i]
        /\ \A i \in 1..tail : At(qrpa', o + n1 + i) = At(q, o + c + i)
    <3>1. qrpa' = IF c = 0 /\ list = <<>> THEN q ELSE Replace(q, list, o, c)
      BY <1>1 DEF Splice, q, c, slid, n1
    <3>2. CASE c = 0 /\ list = <<>>
      <4>1. qrpa' = q /\ n1 = 0
        BY <3>1, <3>2 DEF n1
      <4>2. o = 0
        BY <1>3, <1>10, <3>2
      <4>3. tail = q.elems
        BY <1>5, <1>6, <3>2, <4>2
      <4>. QED BY <1>5, <3>2, <4>1, <4>2, <4>3
    <3>3. CASE ~(c = 0 /\ list = <<>>)
      <4>1. IsReplaced(Replace(q, list, o, c), q, list, o, c, tail)
        BY <1>1, <1>5, ReplaceRight DEF tail
      <4>. QED BY <3>1, <3>3, <4>1 DEF IsReplaced, n1
    <3>. QED BY <3>2, <3>3
  <2>2. Seen /\ Seen'
    BY <2>1, ItemsSeen, ItemsSeenNext
  <2>3. /\ Items \in Seq(Item) /\ Len(Items) = qrpa.elems /\ DOMAIN Items = 1..qrpa.elems
        /\ Items' \in Seq(Item) /\ Len(Items') = o + n1 + tail
        /\ \A i \in 1..o + n1 + tail : Items'[i] = At(qrpa', i)
        /\ \A i \in 1..qrpa.elems : Items[i] = At(qrpa, i)
    BY <2>1, <2>2 DEF Seen
  <2>4. tail \in Nat /\ (tail = 0 => qrpa.elems <= o + count) /\ (tail > 0 => o + count + tail = qrpa.elems)
    <3>1. tail = IF o + count < qrpa.elems THEN qrpa.elems - o - count ELSE 0
      BY <1>7
    <3>2. o \in Nat /\ qrpa.elems \in Nat
      BY <1>1
    <3>3. CASE o + count < qrpa.elems
      BY <3>1, <3>2, <3>3
    <3>4. CASE ~(o + count < qrpa.elems)
      BY <3>1, <3>2, <3>4
    <3>. QED BY <3>3, <3>4
  <2>5. ASSUME NEW i \in 1..o, i <= Len(Items) PROVE Items'[i] = Items[i]
    <3>1. i \in 1..o + n1 + tail /\ i \in 1..qrpa.elems /\ i <= qrpa.elems
      BY <1>1, <2>3, <2>4, <2>5
    <3>. QED BY <1>8, <2>1, <2>3, <3>1
  <2>6. ASSUME NEW i \in 1..n1 PROVE Items'[o + i] = list[i]
    <3>1. o + i \in 1..o + n1 + tail
      BY <1>1, <2>4
    <3>. QED BY <2>1, <2>3, <3>1
  <2>7. ASSUME NEW i \in 1..tail PROVE Items'[o + n1 + i] = Items[o + count + i]
    <3>1. o + n1 + i \in 1..o + n1 + tail /\ o + count + i \in 1..qrpa.elems
      BY <1>1, <2>4
    <3>. QED BY <1>7, <2>1, <2>3, <3>1
  <2>8. PICK K : K = SubSeq(Items, o + count + 1, Len(Items))
    OBVIOUS
  <2>9. K \in Seq(Item) /\ Len(K) = tail /\ \A i \in 1..tail : K[i] = Items[o + count + i]
    BY <1>1, <2>3, <2>4, <2>8, RestIs
  <2>10. Len(Items') = o + Len(list) + Len(K)
    BY <1>1, <2>3, <2>9 DEF n1
  <2>11. SubSeq(Items', o + 1, Len(Items')) = list \o K
    <3>1. PICK m \in Nat : m = n1 + tail /\ Len(Items') = o + m
      BY <1>1, <2>3, <2>4
    <3>2. PICK z : z = SubSeq(Items', o + 1, o + m)
      OBVIOUS
    <3>3. z \in Seq(Item) /\ Len(z) = m /\ \A i \in 1..m : z[i] = Items'[o + i]
      <4>1. PICK u \in Seq(Item) : u = Items'
        BY <2>3
      <4>2. z = SubSeq(u, o + 1, o + m) /\ o + m <= Len(u) /\ o \in Nat
        BY <1>1, <3>1, <3>2, <4>1
      <4>3. z \in Seq(Item) /\ Len(z) = m /\ \A i \in 1..m : z[i] = u[o + i]
        BY <4>2, PartIs
      <4>. QED BY <4>1, <4>3
    <3>4. PICK y : y = list \o K
      OBVIOUS
    <3>5. y \in Seq(Item) /\ Len(y) = m /\ \A i \in 1..m : y[i] = IF i <= n1 THEN list[i] ELSE K[i - n1]
      <4>1. /\ y \in Seq(Item) /\ Len(y) = Len(list) + Len(K)
            /\ \A i \in 1..Len(list) + Len(K) : y[i] = IF i <= Len(list) THEN list[i] ELSE K[i - Len(list)]
        BY <1>1, <2>9, <3>4, ConcatProperties
      <4>2. Len(list) = n1 /\ Len(list) + Len(K) = m
        BY <1>1, <2>9, <3>1 DEF n1
      <4>. QED BY <4>1, <4>2
    <3>6. ASSUME NEW i \in 1..m PROVE z[i] = y[i]
      <4>1. CASE i <= n1
        <5>1. i \in 1..n1
          BY <1>1, <4>1
        <5>. QED BY <2>6, <3>3, <3>5, <4>1, <5>1
      <4>2. CASE ~(i <= n1)
        <5>1. i - n1 \in 1..tail /\ o + n1 + (i - n1) = o + i
          BY <1>1, <2>4, <3>1, <4>2
        <5>. QED BY <2>7, <2>9, <3>3, <3>5, <4>2, <5>1
      <4>. QED BY <4>1, <4>2
    <3>7. z = y
      BY <3>3, <3>5, <3>6, SeqEqual
    <3>. QED BY <3>1, <3>2, <3>4, <3>7
  <2>12. User!Resized(Items', SubSeq(Items, 1, User!ArrayMin(o, Len(Items))), o + Len(list) + Len(K))
    <3>1. PICK n : n = User!ArrayMin(o, Len(Items))
      OBVIOUS
    <3>2. n \in Nat /\ n <= o /\ n <= Len(Items)
      BY <1>1, <2>3, <3>1 DEF User!ArrayMin
    <3>3. PICK t : t = SubSeq(Items, 1, n)
      OBVIOUS
    <3>4. t \in Seq(Item) /\ Len(t) = n /\ \A i \in 1..n : t[i] = Items[i]
      <4>1. \A i \in 1..n : i \in 1..Len(Items)
        BY <1>1, <2>3, <3>2
      <4>2. \A i \in 1..n : Items[i] \in Item
        BY <2>3, <4>1, ElementOfSeq
      <4>. QED BY <2>3, <3>2, <3>3, <4>2
    <3>5. \A i \in 1..o + Len(list) + Len(K) : i <= Len(t) => Items'[i] = t[i]
      <4>. SUFFICES ASSUME NEW i \in 1..o + Len(list) + Len(K), i <= n PROVE Items'[i] = t[i]
        BY <3>4
      <4>1. i \in 1..n /\ i \in 1..o /\ i <= Len(Items)
        BY <1>1, <2>3, <3>2
      <4>. QED BY <2>5, <3>4, <4>1
    <3>6. o + Len(list) + Len(K) \in Nat
      BY <1>1, <2>9
    <3>7. User!Resized(Items', t, o + Len(list) + Len(K))
      BY <2>3, <2>10, <3>4, <3>5, <3>6, ResizedIs
    <3>. QED BY <3>1, <3>3, <3>7
  <2>13. o >= 0 /\ result' = Null
    BY <1>1
  <2>14. User!ArraySplice
    BY <1>10, <1>asked, <2>8, <2>11, <2>12, <2>13, Zenon DEF User!ArraySplice
  <2>. QED BY <2>1, <2>14
<1>. QED BY <1>9, <1>10
-----------------------------------------------------------------------------
LEMMA QrpaStep ==
  ASSUME Within(qrpa), QrpaNext
  PROVE  Within(qrpa') /\ User!ArrayNext
<1>. USE DEF User!ArrayNext
<1>0. MaxElems \in Nat
  BY QrpaAssumption
<1>1. CASE QrpaPop \/ QrpaShift \/ QrpaClone
  BY <1>1, PopStep, ShiftStep, CloneStep
<1>2. CASE \E n \in 0..MaxElems : QrpaResize(n)
  BY <1>0, <1>2, ResizeStep
<1>3. CASE \E pos \in -MaxElems .. MaxElems : QrpaGet(pos)
  BY <1>0, <1>3, GetStep
<1>4. CASE \E pos \in -MaxElems .. MaxElems, v \in Item : QrpaSet(pos, v)
  BY <1>0, <1>4, SetStep
<1>5. CASE \E v \in Item : QrpaPush(v) \/ QrpaUnshift(v)
  BY <1>5, PushStep, UnshiftStep
<1>6. CASE \E list \in Lists, offset \in -1 .. MaxElems, count \in 0..MaxElems + 1 :
             QrpaSplice(list, offset, count)
  <2>1. PICK list \in Lists, offset \in -1 .. MaxElems, count \in 0..MaxElems + 1 :
          QrpaSplice(list, offset, count)
    BY <1>6
  <2>2. offset \in Int /\ count \in Nat
    BY <1>0
  <2>. QED BY <2>1, <2>2, SpliceStep
<1>. QED BY <1>1, <1>2, <1>3, <1>4, <1>5, <1>6 DEF QrpaNext

LEMMA QrpaStart == QrpaInit => Within(qrpa) /\ User!ArrayInit
<1>. SUFFICES ASSUME QrpaInit PROVE Within(qrpa) /\ User!ArrayInit
  OBVIOUS
<1>1. qrpa = [elems |-> 0, start |-> 0, slots |-> <<>>] /\ result = Null
  BY DEF QrpaInit, Empty
<1>2. Within(qrpa)
  BY <1>1 DEF Within, Qrpas
<1>3. Items = <<>>
  BY <1>1, <1>2, ItemsSeen DEF Seen
<1>. QED BY <1>1, <1>2, <1>3 DEF User!ArrayInit

LEMMA QrpaKeeps == Within(qrpa) /\ [QrpaNext]_qrpaVars => Within(qrpa')
<1>. SUFFICES ASSUME Within(qrpa), [QrpaNext]_qrpaVars PROVE Within(qrpa')
  OBVIOUS
<1>1. CASE UNCHANGED qrpaVars
  BY <1>1 DEF qrpaVars
<1>. QED BY <1>1, QrpaStep

(* set_integer_native, push, unshift, splice and the others allocate as many
   slots as they go on to use. *)
THEOREM QrpaWithinSlotsAlways == QrpaSpec => []QrpaWithinSlots
<1>1. QrpaWithinSlots <=> Within(qrpa)
  BY DEF QrpaWithinSlots, Within
<1>2. QrpaInit => QrpaWithinSlots
  BY <1>1, QrpaStart
<1>3. QrpaWithinSlots /\ [QrpaNext]_qrpaVars => QrpaWithinSlots'
  BY <1>1, QrpaKeeps DEF QrpaWithinSlots, Within
<1>. QED BY <1>2, <1>3, PTL DEF QrpaSpec

(* Whatever is moved, reused or allocated, each operation does to the items
   what an array promises. *)
THEOREM QrpaIsArray == QrpaSpec => QrpaRefinesArray
<1>1. QrpaWithinSlots <=> Within(qrpa)
  BY DEF QrpaWithinSlots, Within
<1>2. QrpaInit => User!ArrayInit
  BY QrpaStart
<1>3. QrpaWithinSlots /\ [QrpaNext]_qrpaVars => [User!ArrayNext]_(User!arrayVars)
  <2>1. UNCHANGED qrpaVars => UNCHANGED User!arrayVars
    BY DEF qrpaVars, User!arrayVars, Items
  <2>. QED BY <1>1, <2>1, QrpaStep
<1>. QED BY <1>2, <1>3, QrpaWithinSlotsAlways, PTL DEF QrpaSpec, QrpaRefinesArray, User!ArraySpec

-----------------------------------------------------------------------------
(* Hash tables: a list names a bucket of the slab at most once. *)
Distinct(s) == \A p, q \in DOMAIN s : s[p] = s[q] /\ s[p] # Gone => p = q

-----------------------------------------------------------------------------
(* Lists of buckets: a bucket put in front, appended, taken off. *)
LEMMA HeldIs ==
  ASSUME NEW T, NEW s \in Seq(T)
  PROVE  /\ Len(s) \in Nat /\ DOMAIN s = 1..Len(s) /\ ToSet(s) \subseteq T
         /\ \A b : b \in ToSet(s) <=> \E p \in 1..Len(s) : s[p] = b
         /\ \A p \in 1..Len(s) : s[p] \in ToSet(s)
<1>1. Len(s) \in Nat /\ DOMAIN s = 1..Len(s) /\ \A p \in 1..Len(s) : s[p] \in T
  BY LenProperties, ElementOfSeq
<1>. QED BY <1>1 DEF ToSet

LEMMA PushedIs ==
  ASSUME NEW T, NEW s \in Seq(T), NEW b \in T
  PROVE  /\ <<b>> \o s \in Seq(T) /\ ToSet(<<b>> \o s) = ToSet(s) \cup {b}
         /\ Distinct(s) /\ (b \in ToSet(s) => b = Gone) => Distinct(<<b>> \o s)
<1>1. PICK t : t = <<b>> \o s
  OBVIOUS
<1>2. <<b>> \in Seq(T) /\ Len(<<b>>) = 1 /\ <<b>>[1] = b
  OBVIOUS
<1>3. PICK n \in Nat : n = Len(s)
  BY LenProperties
<1>4. t \in Seq(T) /\ Len(t) = 1 + n /\ \A i \in 1..1 + n : t[i] = IF i <= 1 THEN <<b>>[i] ELSE s[i - 1]
  BY <1>1, <1>2, <1>3, ConcatProperties
<1>5. 1 \in 1..1 + n /\ t[1] = b
  BY <1>2, <1>4
<1>6. ASSUME NEW i \in 1..n PROVE i + 1 \in 1..1 + n /\ t[i + 1] = s[i]
  <2>1. i + 1 \in 1..1 + n /\ ~(i + 1 <= 1) /\ i + 1 - 1 = i
    OBVIOUS
  <2>2. t[i + 1] = s[i + 1 - 1]
    BY <1>4, <2>1
  <2>. QED BY <2>1, <2>2
<1>7. ASSUME NEW i \in 1..1 + n PROVE i = 1 \/ \E j \in 1..n : i = j + 1
  <2>1. CASE i # 1
    <3>1. i - 1 \in 1..n /\ i = (i - 1) + 1
      BY <2>1
    <3>. QED BY <3>1
  <2>. QED BY <2>1
<1>8. DOMAIN s = 1..n /\ DOMAIN t = 1..1 + n
  BY <1>3, <1>4, HeldIs
<1>9. ToSet(t) = ToSet(s) \cup {b}
  <2>1. ASSUME NEW x \in ToSet(t) PROVE x \in ToSet(s) \cup {b}
    <3>1. PICK i \in 1..1 + n : t[i] = x
      BY <1>8 DEF ToSet
    <3>2. CASE i = 1
      BY <1>5, <3>1, <3>2
    <3>3. CASE i # 1
      <4>1. PICK j \in 1..n : i = j + 1
        BY <1>7, <3>3
      <4>2. s[j] = x
        BY <1>6, <3>1, <4>1
      <4>. QED BY <1>8, <4>2 DEF ToSet
    <3>. QED BY <3>2, <3>3
  <2>2. ASSUME NEW x \in ToSet(s) \cup {b} PROVE x \in ToSet(t)
    <3>1. CASE x = b
      BY <1>5, <1>8, <3>1 DEF ToSet
    <3>2. CASE x \in ToSet(s)
      <4>1. PICK i \in 1..n : s[i] = x
        BY <1>8, <3>2 DEF ToSet
      <4>. QED BY <1>6, <1>8, <4>1 DEF ToSet
    <3>. QED BY <2>2, <3>1, <3>2
  <2>. QED BY <2>1, <2>2
<1>10. ASSUME Distinct(s), b \in ToSet(s) => b = Gone PROVE Distinct(t)
  <2>1. ASSUME NEW p \in 1..1 + n, NEW q \in 1..1 + n, t[p] = t[q], t[p] # Gone PROVE p = q
    <3>1. ASSUME NEW i \in 1..n PROVE s[i] # b \/ s[i] = Gone
      BY <1>8, <1>10 DEF ToSet
    <3>2. CASE p = 1 /\ q = 1
      BY <3>2
    <3>3. CASE p = 1 /\ q # 1
      <4>1. PICK j \in 1..n : q = j + 1
        BY <1>7, <3>3
      <4>2. s[j] = b /\ b # Gone
        BY <1>5, <1>6, <2>1, <3>3, <4>1
      <4>. QED BY <3>1, <4>2
    <3>4. CASE p # 1 /\ q = 1
      <4>1. PICK j \in 1..n : p = j + 1
        BY <1>7, <3>4
      <4>2. s[j] = b /\ b # Gone
        BY <1>5, <1>6, <2>1, <3>4, <4>1
      <4>. QED BY <3>1, <4>2
    <3>5. CASE p # 1 /\ q # 1
      <4>1. PICK i \in 1..n, j \in 1..n : p = i + 1 /\ q = j + 1
        BY <1>7, <3>5
      <4>2. t[p] = s[i] /\ t[q] = s[j]
        BY <1>6, <4>1
      <4>3. i = j
        BY <1>8, <1>10, <2>1, <4>2 DEF Distinct
      <4>. QED BY <4>1, <4>3
    <3>. QED BY <3>2, <3>3, <3>4, <3>5
  <2>. QED BY <1>8, <2>1 DEF Distinct
<1>. QED BY <1>1, <1>4, <1>9, <1>10

LEMMA PoppedIs ==
  ASSUME NEW T, NEW s \in Seq(T), s # <<>>
  PROVE  /\ Head(s) \in ToSet(s) /\ Tail(s) \in Seq(T)
         /\ ToSet(Tail(s)) \subseteq ToSet(s) /\ ToSet(s) \subseteq ToSet(Tail(s)) \cup {Head(s)}
         /\ Distinct(s) => Distinct(Tail(s)) /\ (Head(s) # Gone => Head(s) \notin ToSet(Tail(s)))
<1>1. PICK n \in Nat : n = Len(s) /\ n >= 1
  BY EmptySeq
<1>2. PICK t : t = Tail(s)
  OBVIOUS
<1>3. t \in Seq(T) /\ Len(t) = n - 1 /\ \A i \in 1..n - 1 : t[i] = s[i + 1]
  BY <1>1, <1>2, HeadTailProperties
<1>4. DOMAIN s = 1..n /\ DOMAIN t = 1..n - 1
  BY <1>1, <1>3, HeldIs
<1>5. Head(s) = s[1] /\ 1 \in 1..n
  BY <1>1
<1>6. ASSUME NEW i \in 1..n - 1 PROVE i + 1 \in 1..n /\ t[i] = s[i + 1] /\ i + 1 # 1
  BY <1>3
<1>7. ASSUME NEW i \in 1..n PROVE i = 1 \/ \E j \in 1..n - 1 : i = j + 1
  <2>1. CASE i # 1
    <3>1. i - 1 \in 1..n - 1 /\ i = (i - 1) + 1
      BY <2>1
    <3>. QED BY <3>1
  <2>. QED BY <2>1
<1>8. ToSet(t) \subseteq ToSet(s)
  BY <1>4, <1>6 DEF ToSet
<1>9. ToSet(s) \subseteq ToSet(t) \cup {Head(s)}
  <2>1. ASSUME NEW i \in 1..n PROVE s[i] \in ToSet(t) \cup {Head(s)}
    <3>1. CASE i = 1
      BY <1>5, <3>1
    <3>2. CASE i # 1
      <4>1. PICK j \in 1..n - 1 : i = j + 1
        BY <1>7, <3>2
      <4>2. t[j] = s[i]
        BY <1>6, <4>1
      <4>. QED BY <1>4, <4>2 DEF ToSet
    <3>. QED BY <3>1, <3>2
  <2>. QED BY <1>4, <2>1 DEF ToSet
<1>10. ASSUME Distinct(s) PROVE Distinct(t) /\ (Head(s) # Gone => Head(s) \notin ToSet(t))
  <2>1. ASSUME NEW p \in 1..n - 1, NEW q \in 1..n - 1, t[p] = t[q], t[p] # Gone PROVE p = q
    <3>1. p + 1 = q + 1
      BY <1>4, <1>6, <1>10, <2>1 DEF Distinct
    <3>. QED BY <3>1
  <2>2. ASSUME NEW p \in 1..n - 1, t[p] = s[1], s[1] # Gone PROVE FALSE
    <3>1. p + 1 = 1
      BY <1>4, <1>5, <1>6, <1>10, <2>2 DEF Distinct
    <3>. QED BY <1>6, <3>1
  <2>. QED BY <1>4, <1>5, <2>1, <2>2 DEF Distinct, ToSet
<1>11. Head(s) \in ToSet(s)
  BY <1>4, <1>5 DEF ToSet
<1>. QED BY <1>2, <1>3, <1>8, <1>9, <1>10, <1>11

LEMMA AppendedIs ==
  ASSUME NEW T, NEW s \in Seq(T), NEW b \in T
  PROVE  /\ Append(s, b) \in Seq(T) /\ ToSet(Append(s, b)) = ToSet(s) \cup {b}
         /\ Distinct(s) /\ (b \in ToSet(s) => b = Gone) => Distinct(Append(s, b))
<1>1. PICK t : t = Append(s, b)
  OBVIOUS
<1>2. PICK n \in Nat : n = Len(s)
  BY LenProperties
<1>3. t \in Seq(T) /\ Len(t) = n + 1 /\ (\A i \in 1..n : t[i] = s[i]) /\ t[n + 1] = b
  BY <1>1, <1>2, AppendProperties
<1>4. DOMAIN s = 1..n /\ DOMAIN t = 1..n + 1 /\ \A i \in 1..n + 1 : i = n + 1 \/ i \in 1..n
  BY <1>2, <1>3, HeldIs
<1>5. n + 1 \in 1..n + 1 /\ \A i \in 1..n : i \in 1..n + 1 /\ i # n + 1
  OBVIOUS
<1>6. ToSet(t) = ToSet(s) \cup {b}
  BY <1>3, <1>4, <1>5 DEF ToSet
<1>7. ASSUME Distinct(s), b \in ToSet(s) => b = Gone PROVE Distinct(t)
  BY <1>3, <1>4, <1>5, <1>7 DEF Distinct, ToSet
<1>. QED BY <1>1, <1>3, <1>6, <1>7

LEMMA TurnedIs ==
  ASSUME NEW T, NEW s \in Seq(T)
  PROVE  Reverse(s) \in Seq(T) /\ ToSet(Reverse(s)) = ToSet(s) /\ (Distinct(s) => Distinct(Reverse(s)))
<1>1. PICK t : t = Reverse(s)
  OBVIOUS
<1>2. PICK n \in Nat : n = Len(s)
  BY LenProperties
<1>3. t = [i \in 1..n |-> s[(n - i) + 1]]
  BY <1>1, <1>2 DEF Reverse
<1>4. ASSUME NEW i \in 1..n PROVE (n - i) + 1 \in 1..n /\ t[i] = s[(n - i) + 1] /\ s[(n - i) + 1] \in T
  <2>1. (n - i) + 1 \in 1..n
    OBVIOUS
  <2>2. t[i] = s[(n - i) + 1]
    BY <1>3
  <2>. QED BY <1>2, <2>1, <2>2, ElementOfSeq
<1>5. t \in Seq(T)
  <2>1. t \in [1..n -> T]
    BY <1>3, <1>4
  <2>. QED BY <2>1, SeqDef
<1>6. DOMAIN s = 1..n /\ DOMAIN t = 1..n
  BY <1>2, <1>3, HeldIs
<1>7. ASSUME NEW i \in 1..n PROVE (n - i) + 1 \in 1..n /\ t[(n - i) + 1] = s[i]
  <2>1. (n - i) + 1 \in 1..n /\ (n - ((n - i) + 1)) + 1 = i
    OBVIOUS
  <2>2. t[(n - i) + 1] = s[(n - ((n - i) + 1)) + 1]
    BY <1>4, <2>1
  <2>. QED BY <2>1, <2>2
<1>8. ToSet(t) = ToSet(s)
  BY <1>4, <1>6, <1>7 DEF ToSet
<1>9. ASSUME Distinct(s) PROVE Distinct(t)
  <2>1. ASSUME NEW p \in 1..n, NEW q \in 1..n, t[p] = t[q], t[p] # Gone PROVE p = q
    <3>1. (n - p) + 1 = (n - q) + 1
      BY <1>4, <1>6, <1>9, <2>1 DEF Distinct
    <3>. QED BY <3>1
  <2>. QED BY <1>6, <2>1 DEF Distinct
<1>. QED BY <1>1, <1>5, <1>8, <1>9
-----------------------------------------------------------------------------
(* What is kept of a list, bucket by bucket. *)
KeepStep(f, s, S, n) ==
  IF n = 0 THEN <<>> ELSE IF s[n] \in S THEN Append(f[n - 1], s[n]) ELSE f[n - 1]
Keeping(f, s, S, k) == f = [n \in 0..k |-> KeepStep(f, s, S, n)]

LEMMA KeepingExists == \A s, S : \A k \in Nat : \E f : Keeping(f, s, S, k)
<1>. SUFFICES ASSUME NEW s, NEW S PROVE \A k \in Nat : \E f : Keeping(f, s, S, k)
  OBVIOUS
<1>. DEFINE T == {k \in Nat : \E f : Keeping(f, s, S, k)}
<1>1. 0 \in T
  <2>. DEFINE f == [n \in 0..0 |-> <<>>]
  <2>1. ASSUME NEW n \in 0..0 PROVE f[n] = KeepStep(f, s, S, n)
    BY DEF KeepStep
  <2>2. f = [n \in 0..0 |-> KeepStep(f, s, S, n)]
    BY <2>1
  <2>. QED BY <2>2 DEF Keeping
<1>2. ASSUME NEW k \in Nat, k \in T PROVE k + 1 \in T
  <2>1. PICK f : Keeping(f, s, S, k)
    BY <1>2
  <2>. DEFINE g == [n \in 0..k + 1 |-> KeepStep(f, s, S, n)]
  <2>2. ASSUME NEW n \in 0..k PROVE n \in 0..k + 1 /\ g[n] = f[n]
    BY <2>1 DEF Keeping
  <2>3. ASSUME NEW n \in 0..k + 1 PROVE g[n] = KeepStep(g, s, S, n)
    <3>1. g[n] = KeepStep(f, s, S, n)
      OBVIOUS
    <3>2. CASE n # 0
      <4>1. PICK m \in 0..k : m = n - 1
        BY <3>2
      <4>2. g[m] = f[m]
        BY <2>2
      <4>. HIDE DEF g
      <4>. QED BY <3>1, <4>1, <4>2 DEF KeepStep
    <3>. HIDE DEF g
    <3>. QED BY <3>1, <3>2 DEF KeepStep
  <2>4. g = [n \in 0..k + 1 |-> KeepStep(g, s, S, n)]
    BY <2>3
  <2>. HIDE DEF g
  <2>5. Keeping(g, s, S, k + 1)
    BY <2>4 DEF Keeping
  <2>. QED BY <2>5
<1>3. Nat \subseteq T
  <2>. HIDE DEF T
  <2>. QED BY <1>1, <1>2, NaturalInduction
<1>. QED BY <1>3

(* Exactly the buckets of the set are kept, and as often as they occur. *)
LEMMA KeptIs ==
  ASSUME NEW T, NEW s \in Seq(T), NEW S
  PROVE  /\ Kept(s, S) \in Seq(T) /\ ToSet(Kept(s, S)) = ToSet(s) \cap S
         /\ Distinct(s) => Distinct(Kept(s, S))
<1>. DEFINE c == CHOOSE f : Keeping(f, s, S, Len(s))
<1>1. Kept(s, S) = c[Len(s)]
  BY Zenon DEF Kept, Keeping, KeepStep
<1>2. Len(s) \in Nat /\ DOMAIN s = 1..Len(s) /\ \A p \in 1..Len(s) : s[p] \in T
  BY LenProperties, ElementOfSeq
<1>3. PICK kept : kept = c /\ Keeping(kept, s, S, Len(s))
  BY <1>2, KeepingExists
<1>. HIDE DEF c
<1>. DEFINE upto(n) == {s[i] : i \in 1..n}
            K == {n \in Nat : n <= Len(s) =>
                    /\ kept[n] \in Seq(T) /\ ToSet(kept[n]) = upto(n) \cap S
                    /\ Distinct(s) => Distinct(kept[n])}
<1>4. 0 \in K
  <2>1. kept[0] = <<>>
    <3>1. kept[0] = KeepStep(kept, s, S, 0)
      BY <1>2, <1>3 DEF Keeping
    <3>. QED BY <3>1 DEF KeepStep
  <2>2. upto(0) = {}
    OBVIOUS
  <2>3. ToSet(<<>>) = {} /\ Distinct(<<>>) /\ <<>> \in Seq(T)
    BY DEF ToSet, Distinct
  <2>. QED BY <2>1, <2>2, <2>3
<1>5. ASSUME NEW n \in Nat, n \in K PROVE n + 1 \in K
  <2>. SUFFICES ASSUME n + 1 <= Len(s)
                PROVE  /\ kept[n + 1] \in Seq(T) /\ ToSet(kept[n + 1]) = upto(n + 1) \cap S
                       /\ Distinct(s) => Distinct(kept[n + 1])
    OBVIOUS
  <2>1. n <= Len(s) /\ n + 1 \in 0..Len(s) /\ n + 1 # 0 /\ n + 1 - 1 = n /\ n + 1 \in 1..Len(s)
    BY <1>2
  <2>2. PICK e : e = s[n + 1] /\ e \in T
    BY <1>2, <2>1
  <2>3. kept[n + 1] = IF e \in S THEN Append(kept[n], e) ELSE kept[n]
    <3>1. kept[n + 1] = KeepStep(kept, s, S, n + 1)
      BY <1>3, <2>1 DEF Keeping
    <3>. QED BY <2>1, <2>2, <3>1 DEF KeepStep
  <2>4. upto(n + 1) = upto(n) \cup {e}
    <3>1. 1..n + 1 = (1..n) \cup {n + 1}
      OBVIOUS
    <3>. QED BY <2>2, <3>1, Zenon
  <2>5. /\ kept[n] \in Seq(T) /\ ToSet(kept[n]) = upto(n) \cap S
        /\ Distinct(s) => Distinct(kept[n])
    BY <1>5, <2>1
  <2>6. Distinct(s) /\ e \in upto(n) => e = Gone
    <3>. SUFFICES ASSUME Distinct(s), e # Gone, NEW i \in 1..n, s[i] = e PROVE FALSE
      OBVIOUS
    <3>1. i \in 1..Len(s) /\ i # n + 1
      BY <1>2, <2>1
    <3>. QED BY <1>2, <2>1, <2>2, <3>1 DEF Distinct
  <2>. HIDE DEF upto
  <2>7. CASE e \in S
    BY <2>2, <2>3, <2>4, <2>5, <2>6, <2>7, AppendedIs
  <2>8. CASE e \notin S
    BY <2>3, <2>4, <2>5, <2>8
  <2>. QED BY <2>7, <2>8
<1>6. Len(s) \in K
  <2>1. Nat \subseteq K
    <3>. HIDE DEF K
    <3>. QED BY <1>4, <1>5, NaturalInduction
  <2>. QED BY <1>2, <2>1
<1>7. upto(Len(s)) = ToSet(s)
  BY <1>2 DEF ToSet
<1>8. Len(s) <= Len(s)
  BY <1>2
<1>. QED BY <1>1, <1>3, <1>6, <1>7, <1>8
-----------------------------------------------------------------------------
(* The sound hashes: chains and free list name each bucket of the slab once, a
   bucket with a key is in the chain of its hash value, one without is free,
   no key is in two buckets, and entries counts those with a key. *)
Slab(h) == 0..h.size - 1
Cell(h) == Slab(h) \cup {Gone}
Bucket == [key : HashKey, value : HashValue] \cup [key : {NoKey}, value : HashValue \cup {NoKey}]
Used(h) == {b \in Slab(h) : h.bucket[b].key # NoKey}
Homed(h, i) == {b \in Used(h) : HashOf[h.bucket[b].key] % h.size = i}

Fields(h) == h \in [size : {h.size}, bucket : {h.bucket}, index : {h.index}, free : {h.free}, entries : {h.entries}]
Shape(h) ==
  /\ Fields(h)
  /\ h.size \in Nat /\ h.size >= 2 /\ h.entries \in Nat
  /\ h.bucket \in [Slab(h) -> Bucket]
  /\ DOMAIN h.index = Slab(h) /\ \A i \in Slab(h) : h.index[i] \in Seq(Cell(h))
  /\ h.free \in Seq(Cell(h))
ChainsRight(h) == \A i \in Slab(h) : Distinct(h.index[i]) /\ ToSet(h.index[i]) = Homed(h, i)
FreeRight(h) == Distinct(h.free) /\ ToSet(h.free) \ {Gone} = Slab(h) \ Used(h)
KeysApart(h) == \A b, c \in Used(h) : h.bucket[b].key = h.bucket[c].key => b = c
Counted(h) == h.entries = Cardinality(Used(h))
Good(h) == Shape(h) /\ ChainsRight(h) /\ FreeRight(h) /\ KeysApart(h) /\ Counted(h)

(* A bucket of a slab that was freed is in a chain. *)
Tainted(h) == Shape(h) /\ \E i \in Slab(h) : Gone \in ToSet(h.index[i])

(* The hash holds exactly the entries of st. *)
Agrees(h, st) ==
  /\ DOMAIN st = {h.bucket[b].key : b \in Used(h)}
  /\ \A b \in Used(h) : st[h.bucket[b].key] = h.bucket[b].value

LEMMA HashOfType ==
  /\ NoKey \notin HashKey /\ \A k \in HashKey : HashOf[k] \in Nat
  /\ \A pairs \in OtherHashes : pairs \in Seq([key : HashKey, value : HashValue])
BY HashAssumption DEF HashAssumption

LEMMA Remainder ==
  ASSUME NEW x \in Nat, NEW s \in Nat, s >= 1
  PROVE  x % s \in 0..s - 1
OBVIOUS

(* The next bit of a hash value: a chain is split in two. *)
LEMMA NextBit ==
  ASSUME NEW x \in Nat, NEW s \in Nat, s >= 1
  PROVE  x % (2 * s) = x % s \/ x % (2 * s) = (x % s) + s
<1>. DEFINE q == x \div s
            r == x % s
            q2 == x \div (2 * s)
            r2 == x % (2 * s)
<1>1. x = s * q + r /\ r \in 0..s - 1 /\ q \in Int
  OBVIOUS
<1>2. x = (2 * s) * q2 + r2 /\ r2 \in 0..(2 * s) - 1 /\ q2 \in Int
  OBVIOUS
<1>. HIDE DEF q, r, q2, r2
<1>3. s * (q - 2 * q2) = r2 - r
  BY <1>1, <1>2
<1>4. PICK d \in Int : d = q - 2 * q2 /\ s * d = r2 - r
  BY <1>1, <1>2, <1>3
<1>5. s * d < 2 * s /\ s * d > -s
  BY <1>1, <1>2, <1>4
<1>6. d < 2 /\ d > -1
  <2>1. CASE d >= 2
    <3>1. s * d >= s * 2
      BY <2>1
    <3>. QED BY <1>5, <3>1
  <2>2. CASE d <= -1
    <3>1. s * d <= s * (-1)
      BY <2>2
    <3>. QED BY <1>5, <3>1
  <2>. QED BY <2>1, <2>2
<1>7. d = 0 \/ d = 1
  BY <1>6
<1>8. r2 - r = 0 \/ r2 - r = s
  BY <1>4, <1>7
<1>9. r2 = r \/ r2 = r + s
  BY <1>1, <1>2, <1>8
<1>. QED BY <1>9 DEF r, r2

(* There is a power of two that is large enough. *)
LEMMA PowerIs ==
  ASSUME NEW k \in Nat
  PROVE  2 ^ k \in Nat /\ 2 ^ k >= k + 1
<1>. DEFINE S == 1..k
            f == [i \in 0..k |-> 1..i]
<1>1. IsFiniteSet(S) /\ Cardinality(S) = k
  BY FS_Interval
<1>2. IsFiniteSet(SUBSET S) /\ Cardinality(SUBSET S) = 2 ^ k /\ Cardinality(SUBSET S) \in Nat
  <2>1. IsFiniteSet(SUBSET S) /\ Cardinality(SUBSET S) = 2 ^ Cardinality(S)
    BY <1>1, FS_SUBSET, Zenon
  <2>. QED BY <1>1, <2>1, FS_CardinalityType, Zenon
<1>3. f \in Injection(0..k, SUBSET S)
  <2>1. \A i \in 0..k : 1..i \in SUBSET S
    OBVIOUS
  <2>2. ASSUME NEW i \in 0..k, NEW j \in 0..k, 1..i = 1..j PROVE i = j
    <3>1. i < j => j \in 1..j /\ j \notin 1..i
      OBVIOUS
    <3>2. j < i => i \in 1..i /\ i \notin 1..j
      OBVIOUS
    <3>. QED BY <2>2, <3>1, <3>2
  <2>. HIDE DEF S
  <2>3. f \in [0..k -> SUBSET S]
    BY <2>1
  <2>4. \A i, j \in 0..k : f[i] = f[j] => i = j
    BY <2>2
  <2>. HIDE DEF f
  <2>. QED BY <2>3, <2>4 DEF Injection, IsInjective
<1>4. Cardinality(0..k) <= Cardinality(SUBSET S) /\ Cardinality(0..k) = k + 1
  <2>1. Cardinality(0..k) <= Cardinality(SUBSET S)
    BY <1>2, <1>3, FS_Injection
  <2>2. Cardinality(0..k) = k + 1
    BY FS_Interval
  <2>. QED BY <2>1, <2>2
<1>. QED BY <1>2, <1>4

LEMMA RoundUpIs ==
  ASSUME NEW n \in Nat, n >= 1
  PROVE  RoundUp(n) \in Nat /\ RoundUp(n) >= 2
<1>. DEFINE sizes == {2 ^ k : k \in 1..n}
            large == {s \in sizes : s >= n}
<1>1. \A s \in sizes : s \in Nat /\ s >= 2
  <2>1. ASSUME NEW k \in 1..n PROVE 2 ^ k \in Nat /\ 2 ^ k >= 2
    <3>1. k \in Nat /\ k >= 1
      OBVIOUS
    <3>2. 2 ^ k \in Nat /\ 2 ^ k >= k + 1
      BY <3>1, PowerIs
    <3>. QED BY <3>1, <3>2
  <2>. QED BY <2>1
<1>2. 2 ^ n \in large
  <2>1. 2 ^ n \in Nat /\ 2 ^ n >= n + 1
    BY PowerIs
  <2>2. n \in 1..n
    OBVIOUS
  <2>3. 2 ^ n >= n
    BY <2>1
  <2>. QED BY <2>2, <2>3
<1>. HIDE DEF sizes
<1>3. PICK s \in large : \A t \in large : s <= t
  BY <1>1, <1>2, LeastNatural
<1>4. s \in sizes /\ s >= n /\ \A t \in sizes : t >= n => s <= t
  BY <1>3
<1>5. RoundUp(n) \in sizes
  <2>1. RoundUp(n) = CHOOSE s_1 \in sizes : s_1 >= n /\ \A t \in sizes : t >= n => s_1 <= t
    BY DEF RoundUp, sizes
  <2>. QED BY <1>4, <2>1
<1>. QED BY <1>1, <1>5
-----------------------------------------------------------------------------
(* What a slab of a sound hash is, for the provers. *)
LEMMA UsedIs ==
  ASSUME NEW h, Shape(h)
  PROVE  /\ IsFiniteSet(Slab(h)) /\ IsFiniteSet(Used(h)) /\ Used(h) \subseteq Slab(h)
         /\ \A b \in Slab(h) : b # Gone /\ b \in Nat /\ h.bucket[b] \in Bucket
         /\ \A b \in Used(h) : h.bucket[b].key \in HashKey /\ HashOf[h.bucket[b].key] \in Nat
                            /\ h.bucket[b].value \in HashValue
         /\ \A b \in Slab(h) : b \in Used(h) <=> h.bucket[b].key # NoKey
         /\ Cardinality(Slab(h)) = h.size /\ Gone \notin Slab(h)
<1>1. h.size \in Nat /\ h.bucket \in [Slab(h) -> Bucket]
  BY DEF Shape
<1>2. IsFiniteSet(Slab(h)) /\ Cardinality(Slab(h)) = h.size
  <2>1. PICK n \in Nat : n = h.size
    BY <1>1
  <2>2. PICK e \in Int : e = n - 1
    OBVIOUS
  <2>3. IsFiniteSet(0..e) /\ Cardinality(0..e) = IF 0 > e THEN 0 ELSE e - 0 + 1
    BY FS_Interval
  <2>4. Slab(h) = 0..n - 1
    BY <2>1 DEF Slab
  <2>5. IsFiniteSet(Slab(h)) /\ Cardinality(Slab(h)) = n
    BY <2>2, <2>3, <2>4
  <2>. QED BY <2>1, <2>5
<1>3. \A b \in Slab(h) : b # Gone /\ b \in Nat /\ h.bucket[b] \in Bucket
  BY <1>1 DEF Slab, Gone
<1>4. Used(h) \subseteq Slab(h) /\ \A b \in Slab(h) : b \in Used(h) <=> h.bucket[b].key # NoKey
  BY DEF Used
<1>5. \A b \in Used(h) : h.bucket[b].key \in HashKey /\ h.bucket[b].value \in HashValue
  BY <1>3, <1>4 DEF Bucket
<1>6. \A b \in Used(h) : HashOf[h.bucket[b].key] \in Nat
  BY <1>5, HashOfType
<1>7. IsFiniteSet(Used(h))
  BY <1>2, <1>4, FS_Subset
<1>. QED BY <1>2, <1>3, <1>4, <1>5, <1>6, <1>7

LEMMA HomeIs ==
  ASSUME NEW h, Shape(h), NEW k \in HashKey
  PROVE  HashOf[k] % h.size \in Slab(h)
<1>1. PICK x \in Nat : x = HashOf[k]
  BY HashOfType
<1>2. PICK s \in Nat : s = h.size /\ s >= 1
  BY DEF Shape
<1>3. x % s \in 0..s - 1
  BY <1>2, Remainder
<1>. QED BY <1>1, <1>2, <1>3 DEF Slab

(* A row of buckets. *)
LEMMA RowIs ==
  ASSUME NEW a \in Nat, NEW n \in Nat, NEW s, s = [i \in 1..n |-> a + i - 1]
  PROVE  /\ s \in Seq(a..a + n - 1) /\ ToSet(s) = a..a + n - 1 /\ Distinct(s) /\ Len(s) = n
<1>1. ASSUME NEW i \in 1..n PROVE s[i] = a + i - 1 /\ a + i - 1 \in a..a + n - 1
  OBVIOUS
<1>2. s \in [1..n -> a..a + n - 1]
  BY <1>1
<1>3. s \in Seq(a..a + n - 1)
  BY <1>2, SeqDef
<1>4. DOMAIN s = 1..n /\ Len(s) = n
  BY <1>2, <1>3
<1>5. ASSUME NEW b \in a..a + n - 1 PROVE \E i \in 1..n : s[i] = b
  <2>1. b - a + 1 \in 1..n /\ a + (b - a + 1) - 1 = b
    OBVIOUS
  <2>2. s[b - a + 1] = a + (b - a + 1) - 1
    BY <1>1, <2>1
  <2>. QED BY <2>1, <2>2
<1>6. ToSet(s) = a..a + n - 1
  <2>1. \A b \in ToSet(s) : b \in a..a + n - 1
    BY <1>1, <1>4 DEF ToSet
  <2>2. \A b \in a..a + n - 1 : b \in ToSet(s)
    BY <1>4, <1>5 DEF ToSet
  <2>. QED BY <2>1, <2>2
<1>7. Distinct(s)
  <2>1. ASSUME NEW p \in 1..n, NEW q \in 1..n, s[p] = s[q] PROVE p = q
    <3>1. a + p - 1 = a + q - 1
      BY <1>1, <2>1
    <3>. QED BY <3>1
  <2>. QED BY <1>4, <2>1 DEF Distinct
<1>. QED BY <1>3, <1>4, <1>6, <1>7

(* A row of buckets with buckets of another slab behind it. *)
LEMMA RowAndGone ==
  ASSUME NEW n \in Nat, NEW m \in Nat, NEW T, 0..n - 1 \subseteq T, Gone \in T
  PROVE  LET s == [i \in 1..n |-> i - 1] \o [i \in 1..m |-> Gone]
         IN  s \in Seq(T) /\ Distinct(s) /\ ToSet(s) \ {Gone} = 0..n - 1
<1>. DEFINE r == [i \in 1..n |-> 0 + i - 1]
<1>1. PICK g : g = [i \in 1..m |-> Gone]
  OBVIOUS
<1>2. r \in Seq(T) /\ ToSet(r) = 0..n - 1 /\ Distinct(r) /\ Len(r) = n
  <2>1. r \in Seq(0..0 + n - 1) /\ ToSet(r) = 0..0 + n - 1 /\ Distinct(r) /\ Len(r) = n
    BY RowIs
  <2>2. 0..0 + n - 1 = 0..n - 1
    OBVIOUS
  <2>. HIDE DEF r
  <2>. QED BY <2>1, <2>2, SeqMonotonic
<1>3. [i \in 1..n |-> i - 1] = r
  OBVIOUS
<1>. HIDE DEF r
<1>4. g \in Seq(T) /\ Len(g) = m /\ \A i \in 1..m : g[i] = Gone
  <2>1. g \in [1..m -> T]
    BY <1>1
  <2>2. g \in Seq(T)
    BY <2>1, SeqDef
  <2>. QED BY <1>1, <2>1, <2>2
<1>5. PICK s : s = r \o g
  OBVIOUS
<1>6. s \in Seq(T) /\ Len(s) = n + m
      /\ \A i \in 1..n + m : s[i] = IF i <= n THEN r[i] ELSE g[i - n]
  <2>1. /\ r \o g \in Seq(T) /\ Len(r \o g) = Len(r) + Len(g)
        /\ \A i \in 1..Len(r) + Len(g) : (r \o g)[i] = IF i <= Len(r) THEN r[i] ELSE g[i - Len(r)]
    BY <1>2, <1>4, ConcatProperties
  <2>2. /\ s \in Seq(T) /\ Len(s) = Len(r) + Len(g)
        /\ \A i \in 1..Len(r) + Len(g) : s[i] = IF i <= Len(r) THEN r[i] ELSE g[i - Len(r)]
    BY <1>5, <2>1, Zenon
  <2>3. Len(r) = n /\ Len(g) = m
    BY <1>2, <1>4
  <2>. QED BY <2>2, <2>3
<1>7. DOMAIN s = 1..n + m /\ DOMAIN r = 1..n
  BY <1>2, <1>6, LenProperties
<1>8. ASSUME NEW i \in 1..n + m PROVE (i \in 1..n /\ s[i] = r[i]) \/ s[i] = Gone
  <2>1. CASE i <= n
    BY <1>6, <2>1
  <2>2. CASE ~(i <= n)
    <3>1. PICK j \in 1..m : j = i - n
      BY <2>2
    <3>2. s[i] = g[j]
      BY <1>6, <2>2, <3>1
    <3>. QED BY <1>4, <3>2
  <2>. QED BY <2>1, <2>2
<1>9. ASSUME NEW i \in 1..n PROVE i \in 1..n + m /\ s[i] = r[i] /\ r[i] # Gone
  <2>1. i \in 1..n + m /\ i <= n
    OBVIOUS
  <2>2. r[i] \in 0..n - 1
    BY <1>2, <1>7 DEF ToSet
  <2>. QED BY <1>6, <2>1, <2>2 DEF Gone
<1>10. Distinct(s)
  BY <1>2, <1>7, <1>8 DEF Distinct
<1>11. ToSet(s) \ {Gone} = ToSet(r)
  BY <1>7, <1>8, <1>9 DEF ToSet
<1>. QED BY <1>1, <1>2, <1>3, <1>5, <1>6, <1>10, <1>11

(* A new slab: all of it is free, in front of what the free list held. *)
LEMMA AllocateIs ==
  ASSUME NEW h, NEW n \in Nat, n >= 1, h.entries = 0, NEW T, h.free \in Seq(T)
  PROVE  Good(Allocate(h, n)) /\ Used(Allocate(h, n)) = {}
<1>1. PICK size : size = RoundUp(n) /\ size \in Nat /\ size >= 2
  BY RoundUpIs
<1>2. PICK m \in Nat : m = Len(h.free) /\ DOMAIN h.free = 1..m
  BY LenProperties
<1>3. PICK g : g = Allocate(h, n)
  OBVIOUS
<1>4. g = [size |-> size,
           bucket |-> [b \in 0..size - 1 |-> [key |-> NoKey, value |-> NoKey]],
           index |-> [i \in 0..size - 1 |-> <<>>],
           free |-> [i \in 1..size |-> i - 1] \o [i \in 1..m |-> Gone],
           entries |-> 0]
  BY <1>1, <1>2, <1>3 DEF Allocate
<1>5. /\ Fields(g) /\ g.size = size /\ g.entries = 0
      /\ g.bucket = [b \in 0..size - 1 |-> [key |-> NoKey, value |-> NoKey]]
      /\ g.index = [i \in 0..size - 1 |-> <<>>]
      /\ g.free = [i \in 1..size |-> i - 1] \o [i \in 1..m |-> Gone]
  BY <1>4 DEF Fields
<1>6. Slab(g) = 0..size - 1 /\ Cell(g) = 0..size - 1 \cup {Gone}
  BY <1>5 DEF Slab, Cell
<1>7. \A b \in Slab(g) : g.bucket[b] = [key |-> NoKey, value |-> NoKey]
  BY <1>5, <1>6
<1>8. Used(g) = {}
  BY <1>7 DEF Used
<1>9. g.free \in Seq(Cell(g)) /\ Distinct(g.free) /\ ToSet(g.free) \ {Gone} = 0..size - 1
  <2>1. 0..size - 1 \subseteq Cell(g) /\ Gone \in Cell(g)
    BY <1>6
  <2>. DEFINE s == [i \in 1..size |-> i - 1] \o [i \in 1..m |-> Gone]
  <2>2. s \in Seq(Cell(g)) /\ Distinct(s) /\ ToSet(s) \ {Gone} = 0..size - 1
    BY <1>1, <1>2, <2>1, RowAndGone
  <2>3. g.free = s
    BY <1>5
  <2>. HIDE DEF s
  <2>. QED BY <2>2, <2>3
<1>10. \A i \in Slab(g) : g.index[i] = <<>>
  BY <1>5, <1>6
<1>11. <<>> \in Seq(Cell(g)) /\ Distinct(<<>>) /\ ToSet(<<>>) = {}
  BY DEF Distinct, ToSet
<1>12. Shape(g)
  <2>1. g.bucket \in [Slab(g) -> Bucket]
    BY <1>5, <1>6 DEF Bucket
  <2>2. DOMAIN g.index = Slab(g)
    BY <1>5, <1>6
  <2>3. g.size \in Nat /\ g.size >= 2 /\ g.entries \in Nat
    BY <1>1, <1>5
  <2>4. \A i \in Slab(g) : g.index[i] \in Seq(Cell(g))
    BY <1>10, <1>11
  <2>5. Fields(g) /\ g.free \in Seq(Cell(g))
    BY <1>5, <1>9
  <2>. QED BY <2>1, <2>2, <2>3, <2>4, <2>5 DEF Shape
<1>13. ChainsRight(g)
  BY <1>8, <1>10, <1>11 DEF ChainsRight, Homed
<1>14. FreeRight(g) /\ KeysApart(g) /\ Counted(g)
  BY <1>5, <1>6, <1>8, <1>9, FS_EmptySet DEF FreeRight, KeysApart, Counted
<1>. QED BY <1>3, <1>8, <1>12, <1>13, <1>14 DEF Good
-----------------------------------------------------------------------------
(* expand_hash: the hash holds what it held, in twice as many chains. *)
LEMMA Halves ==
  ASSUME NEW s \in Nat, NEW size \in Nat, size = s + s
  PROVE  /\ \A i \in 0..size - 1 : i \in 0..s - 1 \/ (~(i < s) /\ \E j \in 0..s - 1 : i = j + s)
         /\ \A j \in 0..s - 1 : j \in 0..size - 1 /\ j < s /\ j \in Nat
         /\ \A j \in 0..s - 1 : j + s \in 0..size - 1 /\ ~(j + s < s) /\ (j + s) - s = j
<1>1. ASSUME NEW i \in 0..size - 1, ~(i < s) PROVE i - s \in 0..s - 1 /\ i = (i - s) + s
  BY <1>1
<1>. QED BY <1>1

Staying(h, size, j) ==
  {b \in ToSet(h.index[j]) : b = Gone \/ HashOf[h.bucket[b].key] % size = j}

Expanded(h, g, s, size) ==
  /\ Fields(g) /\ g.size = size /\ g.entries = h.entries
  /\ g.bucket = [b \in 0..size - 1 |->
                   IF b < s THEN h.bucket[b] ELSE [key |-> NoKey, value |-> NoKey]]
  /\ DOMAIN g.index = 0..size - 1
  /\ \A i \in 0..size - 1 :
       g.index[i] = IF i < s THEN Kept(h.index[i], Staying(h, size, i))
                    ELSE Reverse(Kept(h.index[i - s],
                                      ToSet(h.index[i - s]) \ Staying(h, size, i - s)))
  /\ g.free = [i \in 1..s |-> s + i - 1]

LEMMA ExpandFields ==
  ASSUME NEW h, Shape(h), NEW g, g = ExpandHash(h), NEW s, s = h.size, NEW size, size = 2 * s
  PROVE  Expanded(h, g, s, size)
BY DEF Expanded, ExpandHash, Shape, Fields, Staying

LEMMA ExpandIs ==
  ASSUME NEW h, Shape(h), NEW g, g = ExpandHash(h)
  PROVE  /\ Shape(g) /\ g.free # <<>> /\ Gone \notin ToSet(g.free)
         /\ Tainted(h) => Tainted(g)
         /\ Good(h) /\ h.free = <<>> => Good(g)
         /\ \A st : Good(h) /\ h.free = <<>> /\ Agrees(h, st) => Agrees(g, st)
<1>1. PICK s \in Nat : s = h.size /\ s >= 2
  BY DEF Shape
<1>2. PICK size \in Nat : size = 2 * s /\ size = s + s
  BY <1>1
<1>. DEFINE stay(j) == Staying(h, size, j)
            none == [key |-> NoKey, value |-> NoKey]
<1>3. /\ Fields(g) /\ g.size = size /\ g.entries = h.entries
      /\ g.bucket = [b \in 0..size - 1 |-> IF b < s THEN h.bucket[b] ELSE none]
      /\ DOMAIN g.index = 0..size - 1
      /\ \A i \in 0..size - 1 :
           g.index[i] = IF i < s THEN Kept(h.index[i], stay(i))
                        ELSE Reverse(Kept(h.index[i - s], ToSet(h.index[i - s]) \ stay(i - s)))
      /\ g.free = [i \in 1..s |-> s + i - 1]
  <2>1. Expanded(h, g, s, size)
    BY <1>1, <1>2, ExpandFields
  <2>. QED BY <2>1 DEF Expanded
<1>4. Slab(h) = 0..s - 1 /\ Slab(g) = 0..size - 1
  BY <1>1, <1>2, <1>3 DEF Slab
<1>6. /\ \A i \in Slab(g) : i \in Slab(h) \/ (~(i < s) /\ \E j \in Slab(h) : i = j + s)
      /\ \A j \in Slab(h) : j \in Slab(g) /\ j < s /\ j \in Nat
      /\ \A j \in Slab(h) : j + s \in Slab(g) /\ ~(j + s < s) /\ (j + s) - s = j
  <2>1. /\ \A i \in 0..size - 1 : i \in 0..s - 1 \/ (~(i < s) /\ \E j \in 0..s - 1 : i = j + s)
        /\ \A j \in 0..s - 1 : j \in 0..size - 1 /\ j < s /\ j \in Nat
        /\ \A j \in 0..s - 1 : j + s \in 0..size - 1 /\ ~(j + s < s) /\ (j + s) - s = j
    BY <1>2, Halves
  <2>. QED BY <1>4, <2>1, Zenon
<1>5. Slab(h) \subseteq Slab(g) /\ Cell(h) \subseteq Cell(g)
  BY <1>6 DEF Cell
<1>7. ASSUME NEW j \in Slab(h)
      PROVE  /\ j \in Slab(g) /\ j < s
             /\ g.index[j] = Kept(h.index[j], stay(j))
  <2>1. j \in 0..size - 1 /\ j < s
    BY <1>4, <1>6
  <2>2. g.index[j] = IF j < s THEN Kept(h.index[j], stay(j))
                     ELSE Reverse(Kept(h.index[j - s], ToSet(h.index[j - s]) \ stay(j - s)))
    BY <1>3, <2>1, Zenon
  <2>. HIDE DEF stay
  <2>. QED BY <1>6, <2>1, <2>2, Zenon
<1>8. ASSUME NEW j \in Slab(h), NEW i, i = j + s
      PROVE  /\ i \in Slab(g) /\ ~(i < s) /\ i - s = j
             /\ g.index[i] = Reverse(Kept(h.index[j], ToSet(h.index[j]) \ stay(j)))
  <2>1. i \in Slab(g) /\ ~(i < s) /\ i - s = j
    BY <1>6, <1>8
  <2>2. g.index[i] = IF i < s THEN Kept(h.index[i], stay(i))
                     ELSE Reverse(Kept(h.index[i - s], ToSet(h.index[i - s]) \ stay(i - s)))
    BY <1>3, <1>4, <2>1, Zenon
  <2>. HIDE DEF stay
  <2>. QED BY <2>1, <2>2, Zenon
<1>. HIDE DEF stay
<1>9. ASSUME NEW j \in Slab(h)
      PROVE  /\ g.index[j] \in Seq(Cell(h)) /\ ToSet(g.index[j]) = stay(j)
             /\ Distinct(h.index[j]) => Distinct(g.index[j])
  <2>1. h.index[j] \in Seq(Cell(h))
    BY DEF Shape
  <2>2. stay(j) \subseteq ToSet(h.index[j])
    BY DEF stay, Staying
  <2>3. PICK t : t = Kept(h.index[j], stay(j))
    OBVIOUS
  <2>4. /\ t \in Seq(Cell(h)) /\ ToSet(t) = ToSet(h.index[j]) \cap stay(j)
        /\ Distinct(h.index[j]) => Distinct(t)
    BY <2>1, <2>3, KeptIs
  <2>5. g.index[j] = t
    BY <1>7, <2>3
  <2>. QED BY <2>2, <2>4, <2>5
<1>10. ASSUME NEW j \in Slab(h), NEW i, i = j + s
       PROVE  /\ g.index[i] \in Seq(Cell(h)) /\ ToSet(g.index[i]) = ToSet(h.index[j]) \ stay(j)
              /\ Distinct(h.index[j]) => Distinct(g.index[i])
  <2>1. h.index[j] \in Seq(Cell(h))
    BY DEF Shape
  <2>2. PICK t : t = Kept(h.index[j], ToSet(h.index[j]) \ stay(j))
    OBVIOUS
  <2>3. /\ t \in Seq(Cell(h)) /\ ToSet(t) = ToSet(h.index[j]) \cap (ToSet(h.index[j]) \ stay(j))
        /\ Distinct(h.index[j]) => Distinct(t)
    BY <2>1, <2>2, KeptIs
  <2>4. Reverse(t) \in Seq(Cell(h)) /\ ToSet(Reverse(t)) = ToSet(t) /\ (Distinct(t) => Distinct(Reverse(t)))
    BY <2>3, TurnedIs
  <2>5. g.index[i] = Reverse(t)
    BY <1>8, <1>10, <2>2
  <2>. QED BY <2>3, <2>4, <2>5
<1>11. \A i \in Slab(g) : i \in Slab(h) \/ \E j \in Slab(h) : i = j + s
  BY <1>6
<1>12. g.free \in Seq(s..size - 1) /\ ToSet(g.free) = s..size - 1 /\ Distinct(g.free) /\ Len(g.free) = s
  <2>1. s + s - 1 = size - 1
    BY <1>2
  <2>2. /\ g.free \in Seq(s..s + s - 1) /\ ToSet(g.free) = s..s + s - 1 /\ Distinct(g.free)
        /\ Len(g.free) = s
    <3>1. PICK f : f = g.free
      OBVIOUS
    <3>2. f = [i \in 1..s |-> s + i - 1]
      BY <1>3, <3>1
    <3>3. f \in Seq(s..s + s - 1) /\ ToSet(f) = s..s + s - 1 /\ Distinct(f) /\ Len(f) = s
      BY <3>2, RowIs
    <3>. QED BY <3>1, <3>3
  <2>. QED BY <2>1, <2>2
<1>13. Gone \notin s..size - 1 /\ s..size - 1 \subseteq Slab(g) /\ s..size - 1 \subseteq Cell(g)
  <2>1. s..size - 1 \subseteq 0..size - 1 /\ -1 \notin s..size - 1
    BY <1>2
  <2>. QED BY <1>4, <2>1 DEF Gone, Cell
<1>14. g.free # <<>>
  BY <1>1, <1>12
<1>15. /\ \A b \in Slab(h) : g.bucket[b] = h.bucket[b]
       /\ \A b \in s..size - 1 : g.bucket[b] = none
  <2>1. \A b \in 0..s - 1 : b \in 0..size - 1 /\ b < s
    BY <1>2
  <2>2. \A b \in s..size - 1 : b \in 0..size - 1 /\ ~(b < s)
    BY <1>2
  <2>3. \A b \in 0..size - 1 : g.bucket[b] = IF b < s THEN h.bucket[b] ELSE none
    BY <1>3
  <2>. QED BY <1>4, <2>1, <2>2, <2>3, Zenon
<1>16. Shape(g)
  <2>1. ASSUME NEW b \in 0..size - 1 PROVE (IF b < s THEN h.bucket[b] ELSE none) \in Bucket
    <3>1. b < s => h.bucket[b] \in Bucket
      BY <1>4 DEF Shape
    <3>. QED BY <3>1 DEF Bucket
  <2>2. g.bucket \in [Slab(g) -> Bucket]
    BY <1>3, <1>4, <2>1
  <2>3. DOMAIN g.index = Slab(g)
    BY <1>3, <1>4
  <2>4. ASSUME NEW i \in Slab(g) PROVE g.index[i] \in Seq(Cell(g))
    <3>1. g.index[i] \in Seq(Cell(h))
      BY <1>9, <1>10, <1>11
    <3>. QED BY <1>5, <3>1, SeqMonotonic
  <2>5. g.free \in Seq(Cell(g))
    BY <1>12, <1>13, SeqMonotonic
  <2>6. g.size \in Nat /\ g.size >= 2 /\ g.entries \in Nat
    BY <1>1, <1>2, <1>3 DEF Shape
  <2>. QED BY <1>3, <2>2, <2>3, <2>4, <2>5, <2>6 DEF Shape
<1>17. ASSUME Tainted(h) PROVE Tainted(g)
  <2>1. PICK j \in Slab(h) : Gone \in ToSet(h.index[j])
    BY <1>17 DEF Tainted
  <2>2. Gone \in stay(j)
    BY <2>1 DEF stay, Staying
  <2>3. j \in Slab(g) /\ Gone \in ToSet(g.index[j])
    BY <1>7, <1>9, <2>2
  <2>. QED BY <1>16, <2>3 DEF Tainted
<1>18. Used(g) = Used(h)
  <2>1. ASSUME NEW b \in Used(g) PROVE b \in Used(h)
    <3>1. b \in Slab(g) /\ g.bucket[b].key # NoKey
      BY DEF Used
    <3>2. b \notin s..size - 1
      BY <1>15, <3>1
    <3>3. b \in Slab(h)
      BY <1>1, <1>2, <1>4, <3>1, <3>2
    <3>. QED BY <1>15, <3>1, <3>3 DEF Used
  <2>2. ASSUME NEW b \in Used(h) PROVE b \in Used(g)
    BY <1>5, <1>15 DEF Used
  <2>. QED BY <2>1, <2>2
<1>19. \A b \in Used(h) : b \in Slab(h) /\ g.bucket[b] = h.bucket[b] /\ b # Gone /\ HashOf[h.bucket[b].key] \in Nat
  BY <1>15, UsedIs
<1>20. ASSUME Good(h), h.free = <<>> PROVE Good(g)
  <2>1. ASSUME NEW b \in Used(h), NEW x, x = HashOf[h.bucket[b].key]
        PROVE  x \in Nat /\ x % s \in Slab(h) /\ (x % size = x % s \/ x % size = (x % s) + s)
    <3>1. x \in Nat
      BY <1>19, <2>1
    <3>2. x % s \in 0..s - 1
      <4>1. s >= 1
        BY <1>1
      <4>. QED BY <3>1, <4>1, Remainder
    <3>3. x % (2 * s) = x % s \/ x % (2 * s) = (x % s) + s
      <4>1. s >= 1
        BY <1>1
      <4>. QED BY <3>1, <4>1, NextBit
    <3>. QED BY <1>2, <1>4, <3>1, <3>2, <3>3
  <2>2. ASSUME NEW j \in Slab(h)
        PROVE  Distinct(h.index[j]) /\ \A b : b \in ToSet(h.index[j]) <=>
                                              b \in Used(h) /\ HashOf[h.bucket[b].key] % s = j
    BY <1>1, <1>20 DEF Good, ChainsRight, Homed
  <2>3. ASSUME NEW i \in Slab(g)
        PROVE \A b : b \in Homed(g, i) <=> b \in Used(h) /\ HashOf[h.bucket[b].key] % size = i
    BY <1>3, <1>18, <1>19 DEF Homed
  <2>4. ASSUME NEW j \in Slab(h) PROVE stay(j) = Homed(g, j)
    <3>0. j \in Slab(g) /\ j < s /\ j \in Nat
      BY <1>4, <1>7
    <3>1. ASSUME NEW b, b \in stay(j) PROVE b \in Homed(g, j)
      <4>1. b \in Used(h) /\ b # Gone
        BY <1>19, <2>2, <3>1 DEF stay, Staying
      <4>2. HashOf[h.bucket[b].key] % size = j
        BY <3>1, <4>1 DEF stay, Staying
      <4>. QED BY <2>3, <3>0, <4>1, <4>2
    <3>2. ASSUME NEW b, b \in Homed(g, j) PROVE b \in stay(j)
      <4>1. b \in Used(h) /\ HashOf[h.bucket[b].key] % size = j
        BY <2>3, <3>0, <3>2
      <4>2. PICK x : x = HashOf[h.bucket[b].key]
        OBVIOUS
      <4>3. x % s \in Nat /\ (x % size = x % s \/ x % size = (x % s) + s)
        BY <1>4, <2>1, <4>1, <4>2
      <4>4. x % s = j
        BY <1>1, <3>0, <4>1, <4>2, <4>3
      <4>5. b \in ToSet(h.index[j])
        BY <2>2, <4>1, <4>2, <4>4
      <4>. QED BY <4>1, <4>5 DEF stay, Staying
    <3>. QED BY <3>1, <3>2
  <2>5. ASSUME NEW j \in Slab(h), NEW i, i = j + s PROVE ToSet(h.index[j]) \ stay(j) = Homed(g, i)
    <3>0. i \in Slab(g) /\ ~(i < s) /\ j \in Nat /\ j < s
      BY <1>6, <1>8, <2>5
    <3>1. ASSUME NEW b, b \in ToSet(h.index[j]), b \notin stay(j) PROVE b \in Homed(g, i)
      <4>1. b \in Used(h) /\ HashOf[h.bucket[b].key] % s = j
        BY <2>2, <3>1
      <4>2. PICK x : x = HashOf[h.bucket[b].key]
        OBVIOUS
      <4>3. x % size # j
        BY <3>1, <4>2 DEF stay, Staying
      <4>4. x % size = x % s \/ x % size = (x % s) + s
        BY <2>1, <4>1, <4>2
      <4>5. x % size = i
        BY <2>5, <4>1, <4>2, <4>3, <4>4
      <4>. QED BY <2>3, <3>0, <4>1, <4>2, <4>5
    <3>2. ASSUME NEW b, b \in Homed(g, i) PROVE b \in ToSet(h.index[j]) /\ b \notin stay(j)
      <4>1. b \in Used(h) /\ HashOf[h.bucket[b].key] % size = i
        BY <2>3, <3>0, <3>2
      <4>2. PICK x : x = HashOf[h.bucket[b].key]
        OBVIOUS
      <4>3. x % s \in Nat /\ x % s < s /\ (x % size = x % s \/ x % size = (x % s) + s)
        BY <1>4, <2>1, <4>1, <4>2
      <4>4. x % s = j
        BY <1>1, <2>5, <3>0, <4>1, <4>2, <4>3
      <4>5. b \in ToSet(h.index[j])
        BY <2>2, <4>1, <4>2, <4>4
      <4>6. b # Gone /\ i # j
        BY <1>1, <1>19, <2>5, <3>0, <4>1
      <4>. QED BY <4>1, <4>5, <4>6 DEF stay, Staying
    <3>. QED BY <3>1, <3>2
  <2>6. ChainsRight(g)
    <3>1. ASSUME NEW i \in Slab(g) PROVE Distinct(g.index[i]) /\ ToSet(g.index[i]) = Homed(g, i)
      <4>1. CASE i \in Slab(h)
        BY <1>9, <2>2, <2>4, <4>1
      <4>2. CASE \E j \in Slab(h) : i = j + s
        BY <1>10, <2>2, <2>5, <4>2
      <4>. QED BY <1>11, <4>1, <4>2
    <3>. QED BY <3>1 DEF ChainsRight
  <2>7. FreeRight(g)
    <3>1. ToSet(h.free) = {}
      BY <1>20 DEF ToSet
    <3>2. Slab(h) = Used(h)
      BY <1>20, <3>1 DEF Good, FreeRight, Used
    <3>3. Slab(g) \ Used(g) = s..size - 1
      BY <1>1, <1>2, <1>4, <1>18, <3>2
    <3>. QED BY <1>12, <1>13, <3>3 DEF FreeRight
  <2>8. KeysApart(g) /\ Counted(g)
    BY <1>3, <1>18, <1>19, <1>20 DEF Good, KeysApart, Counted
  <2>. QED BY <1>16, <2>6, <2>7, <2>8 DEF Good
<1>21. ASSUME NEW st, Agrees(h, st) PROVE Agrees(g, st)
  BY <1>18, <1>19, <1>21 DEF Agrees
<1>. QED BY <1>12, <1>13, <1>14, <1>16, <1>17, <1>20, <1>21
-----------------------------------------------------------------------------
(* A new entry goes into the first free bucket and to the front of its chain. *)
With(st, k, v) == [x \in DOMAIN st \cup {k} |-> IF x = k THEN v ELSE st[x]]
Holds(h, st) == Good(h) /\ Agrees(h, st)

Filled(h, g, b, i, k, v) ==
  /\ Fields(g) /\ g.size = h.size /\ g.entries = h.entries + 1 /\ g.free = Tail(h.free)
  /\ g.bucket = IF b = Gone THEN h.bucket ELSE [h.bucket EXCEPT ![b] = [key |-> k, value |-> v]]
  /\ g.index = [h.index EXCEPT ![i] = <<b>> \o @]

LEMMA StoreFields ==
  ASSUME NEW h, Shape(h), h.free # <<>>, NEW k, NEW v
  PROVE  Filled(h, StoreNew(h, k, v), Head(h.free), HashOf[k] % h.size, k, v)
BY DEF Filled, StoreNew, Shape, Fields

LEMMA FilledIs ==
  ASSUME NEW h, Shape(h), h.free # <<>>, NEW k \in HashKey, NEW v \in HashValue,
         NEW g, g = StoreNew(h, k, v)
  PROVE  /\ Shape(g)
         /\ Tainted(h) \/ Head(h.free) = Gone => Tainted(g)
         /\ \A st : Holds(h, st) /\ k \notin DOMAIN st /\ Head(h.free) # Gone => Holds(g, With(st, k, v))
<1>1. PICK b : b = Head(h.free)
  OBVIOUS
<1>2. PICK i : i = HashOf[k] % h.size /\ i \in Slab(h)
  BY HomeIs
<1>3. Filled(h, g, b, i, k, v)
  BY <1>1, <1>2, StoreFields
<1>4. /\ Fields(g) /\ g.size = h.size /\ g.entries = h.entries + 1 /\ g.free = Tail(h.free)
      /\ g.bucket = IF b = Gone THEN h.bucket ELSE [h.bucket EXCEPT ![b] = [key |-> k, value |-> v]]
      /\ g.index = [h.index EXCEPT ![i] = <<b>> \o @]
  BY <1>3 DEF Filled
<1>5. Slab(g) = Slab(h) /\ Cell(g) = Cell(h)
  BY <1>4 DEF Slab, Cell
<1>6. /\ h.free \in Seq(Cell(h)) /\ h.size \in Nat /\ h.size >= 2 /\ h.entries \in Nat
      /\ h.bucket \in [Slab(h) -> Bucket]
      /\ DOMAIN h.index = Slab(h) /\ \A j \in Slab(h) : h.index[j] \in Seq(Cell(h))
  BY DEF Shape
<1>7. /\ b \in ToSet(h.free) /\ Tail(h.free) \in Seq(Cell(h))
      /\ ToSet(Tail(h.free)) \subseteq ToSet(h.free)
      /\ ToSet(h.free) \subseteq ToSet(Tail(h.free)) \cup {b}
      /\ Distinct(h.free) => Distinct(Tail(h.free)) /\ (b # Gone => b \notin ToSet(Tail(h.free)))
  BY <1>1, <1>6, PoppedIs
<1>8. b \in Cell(h)
  <2>1. ToSet(h.free) \subseteq Cell(h)
    BY <1>6, HeldIs
  <2>. QED BY <1>7, <2>1
<1>9. /\ g.index[i] = <<b>> \o h.index[i]
      /\ \A j \in Slab(h) : j # i => g.index[j] = h.index[j]
      /\ DOMAIN g.index = Slab(h)
  BY <1>2, <1>4, <1>6
<1>10. /\ g.index[i] \in Seq(Cell(h)) /\ ToSet(g.index[i]) = ToSet(h.index[i]) \cup {b}
       /\ Distinct(h.index[i]) /\ (b \in ToSet(h.index[i]) => b = Gone) => Distinct(g.index[i])
  <2>1. h.index[i] \in Seq(Cell(h))
    BY <1>2, <1>6
  <2>2. PICK t : t = h.index[i] /\ t \in Seq(Cell(h))
    BY <2>1
  <2>3. /\ <<b>> \o t \in Seq(Cell(h)) /\ ToSet(<<b>> \o t) = ToSet(t) \cup {b}
        /\ Distinct(t) /\ (b \in ToSet(t) => b = Gone) => Distinct(<<b>> \o t)
    BY <1>8, <2>2, PushedIs
  <2>4. g.index[i] = <<b>> \o t
    BY <1>9, <2>2
  <2>. QED BY <2>2, <2>3, <2>4
<1>11. Shape(g)
  <2>1. [key |-> k, value |-> v] \in Bucket
    BY DEF Bucket
  <2>2. g.bucket \in [Slab(h) -> Bucket]
    <3>1. CASE b = Gone
      BY <1>4, <1>6, <3>1
    <3>2. CASE b # Gone
      <4>1. g.bucket = [h.bucket EXCEPT ![b] = [key |-> k, value |-> v]]
        BY <1>4, <3>2
      <4>. QED BY <1>6, <2>1, <4>1
    <3>. QED BY <3>1, <3>2
  <2>3. \A j \in Slab(h) : g.index[j] \in Seq(Cell(h))
    BY <1>6, <1>9, <1>10
  <2>4. g.size \in Nat /\ g.size >= 2 /\ g.entries \in Nat
    BY <1>4, <1>6
  <2>5. g.free \in Seq(Cell(h))
    BY <1>4, <1>7
  <2>. QED BY <1>4, <1>5, <1>9, <2>2, <2>3, <2>4, <2>5 DEF Shape
<1>12. ASSUME Tainted(h) \/ b = Gone PROVE Tainted(g)
  <2>1. CASE b = Gone
    <3>1. Gone \in ToSet(g.index[i])
      BY <1>10, <2>1
    <3>. QED BY <1>2, <1>5, <1>11, <3>1 DEF Tainted
  <2>2. CASE Tainted(h)
    <3>1. PICK j \in Slab(h) : Gone \in ToSet(h.index[j])
      BY <2>2 DEF Tainted
    <3>2. Gone \in ToSet(g.index[j])
      BY <1>9, <1>10, <3>1
    <3>. QED BY <1>5, <1>11, <3>1, <3>2 DEF Tainted
  <2>. QED BY <1>12, <2>1, <2>2
<1>13. ASSUME NEW st, Holds(h, st), k \notin DOMAIN st, b # Gone PROVE Holds(g, With(st, k, v))
  <2>1. /\ ChainsRight(h) /\ FreeRight(h) /\ KeysApart(h) /\ Counted(h) /\ Agrees(h, st)
    BY <1>13 DEF Holds, Good
  <2>2. b \in Slab(h) /\ b \notin Used(h)
    BY <1>7, <1>13, <2>1 DEF FreeRight
  <2>3. /\ g.bucket[b] = [key |-> k, value |-> v]
        /\ \A c \in Slab(h) : c # b => g.bucket[c] = h.bucket[c]
    BY <1>4, <1>6, <1>13, <2>2
  <2>4. k # NoKey
    BY HashOfType
  <2>5. Used(g) = Used(h) \cup {b}
    <3>1. g.bucket[b].key = k
      BY <2>3
    <3>. QED BY <1>5, <2>2, <2>3, <2>4, <3>1 DEF Used
  <2>6. \A c \in Used(h) : c \in Slab(h) /\ c # b /\ g.bucket[c] = h.bucket[c]
    BY <2>2, <2>3 DEF Used
  <2>7. \A c \in Used(h) : h.bucket[c].key # k
    BY <1>13, <2>1 DEF Agrees
  <2>8. g.bucket[b].key = k /\ g.bucket[b].value = v
    BY <2>3
  <2>9. ChainsRight(g)
    <3>1. Homed(g, i) = Homed(h, i) \cup {b}
      BY <1>2, <1>4, <2>5, <2>6, <2>8 DEF Homed
    <3>2. ASSUME NEW j \in Slab(h), j # i PROVE Homed(g, j) = Homed(h, j)
      BY <1>2, <1>4, <2>5, <2>6, <2>8, <3>2 DEF Homed
    <3>3. \A j \in Slab(h) : Distinct(h.index[j]) /\ ToSet(h.index[j]) = Homed(h, j)
      BY <2>1 DEF ChainsRight
    <3>4. b \notin Homed(h, i)
      BY <2>2 DEF Homed
    <3>5. Distinct(g.index[i]) /\ ToSet(g.index[i]) = Homed(g, i)
      BY <1>2, <1>10, <3>1, <3>3, <3>4
    <3>6. ASSUME NEW j \in Slab(h), j # i PROVE Distinct(g.index[j]) /\ ToSet(g.index[j]) = Homed(g, j)
      BY <1>9, <3>2, <3>3, <3>6
    <3>. QED BY <1>5, <3>5, <3>6 DEF ChainsRight
  <2>10. FreeRight(g)
    <3>1. Distinct(h.free) /\ ToSet(h.free) \ {Gone} = Slab(h) \ Used(h)
      BY <2>1 DEF FreeRight
    <3>2. Distinct(g.free) /\ ToSet(g.free) \ {Gone} = Slab(g) \ Used(g)
      BY <1>4, <1>5, <1>7, <1>13, <2>2, <2>5, <3>1
    <3>. QED BY <3>2 DEF FreeRight
  <2>11. KeysApart(g)
    BY <2>1, <2>5, <2>6, <2>7, <2>8 DEF KeysApart
  <2>12. Counted(g)
    <3>1. IsFiniteSet(Used(h))
      BY UsedIs
    <3>2. Cardinality(Used(h) \cup {b}) = Cardinality(Used(h)) + 1
      BY <2>2, <3>1, FS_AddElement
    <3>. QED BY <1>4, <2>1, <2>5, <3>2 DEF Counted
  <2>13. Agrees(g, With(st, k, v))
    <3>1. PICK w : w = With(st, k, v)
      OBVIOUS
    <3>2. DOMAIN w = DOMAIN st \cup {k} /\ w[k] = v /\ \A x \in DOMAIN st : x # k => w[x] = st[x]
      BY <3>1 DEF With
    <3>3. DOMAIN st = {h.bucket[c].key : c \in Used(h)} /\ \A c \in Used(h) : st[h.bucket[c].key] = h.bucket[c].value
      BY <2>1 DEF Agrees
    <3>4. DOMAIN w = {g.bucket[c].key : c \in Used(g)}
      <4>1. {g.bucket[c].key : c \in Used(g)} = {g.bucket[c].key : c \in Used(h)} \cup {g.bucket[b].key}
        BY <2>5
      <4>2. {g.bucket[c].key : c \in Used(h)} = {h.bucket[c].key : c \in Used(h)}
        BY <2>6
      <4>. QED BY <2>8, <3>2, <3>3, <4>1, <4>2
    <3>5. ASSUME NEW c \in Used(g) PROVE w[g.bucket[c].key] = g.bucket[c].value
      <4>1. CASE c = b
        BY <2>8, <3>2, <4>1
      <4>2. CASE c \in Used(h)
        <5>1. g.bucket[c] = h.bucket[c] /\ h.bucket[c].key \in DOMAIN st /\ h.bucket[c].key # k
          BY <2>6, <2>7, <3>3, <4>2
        <5>. QED BY <3>2, <3>3, <4>2, <5>1
      <4>. QED BY <2>5, <4>1, <4>2
    <3>. QED BY <3>1, <3>4, <3>5 DEF Agrees
  <2>. QED BY <1>11, <2>9, <2>10, <2>11, <2>12, <2>13 DEF Holds, Good
<1>. QED BY <1>1, <1>11, <1>12, <1>13

LEMMA StoreNewIs ==
  ASSUME NEW h, Shape(h), NEW k \in HashKey, NEW v \in HashValue, NEW g, g = StoreNew(h, k, v)
  PROVE  /\ Tainted(h) => Tainted(g)
         /\ \A st : Holds(h, st) /\ k \notin DOMAIN st => Tainted(g) \/ Holds(g, With(st, k, v))
<1>1. CASE h.free # <<>>
  BY <1>1, FilledIs
<1>2. CASE h.free = <<>>
  <2>1. PICK e : e = ExpandHash(h)
    OBVIOUS
  <2>2. /\ Shape(e) /\ e.free # <<>> /\ Gone \notin ToSet(e.free)
        /\ Tainted(h) => Tainted(e)
        /\ Good(h) => Good(e)
        /\ \A st : Good(h) /\ Agrees(h, st) => Agrees(e, st)
    BY <1>2, <2>1, ExpandIs
  <2>3. g = StoreNew(e, k, v)
    <3>1. StoreNew(h, k, v) = StoreNew(e, k, v)
      BY <1>2, <2>1, <2>2 DEF StoreNew
    <3>. QED BY <3>1
  <2>4. Head(e.free) # Gone
    <3>1. e.free \in Seq(Cell(e))
      BY <2>2 DEF Shape
    <3>2. Head(e.free) \in ToSet(e.free)
      BY <2>2, <3>1, PoppedIs
    <3>. QED BY <2>2, <3>2
  <2>5. /\ Tainted(e) => Tainted(g)
        /\ \A st : Holds(e, st) /\ k \notin DOMAIN st => Holds(g, With(st, k, v))
    BY <2>2, <2>3, <2>4, FilledIs
  <2>6. \A st : Holds(h, st) => Holds(e, st)
    BY <2>2 DEF Holds
  <2>. QED BY <2>2, <2>5, <2>6
<1>. QED BY <1>1, <1>2
-----------------------------------------------------------------------------
(* The bucket that a lookup comes to. *)
LEMMA FindIs ==
  ASSUME NEW h, Shape(h), NEW k \in HashKey, NEW b, b = Find(h, k)
  PROVE  /\ b # Gone => b \in Slab(h) /\ h.bucket[b].key = k
         /\ ChainsRight(h) => (b = Gone <=> \A c \in Used(h) : h.bucket[c].key # k)
<1>1. PICK i : i = HashOf[k] % h.size /\ i \in Slab(h)
  BY HomeIs
<1>. DEFINE holders == {c \in ToSet(h.index[i]) \ {Gone} : h.bucket[c].key = k}
<1>2. b = IF holders = {} THEN Gone ELSE CHOOSE c \in holders : TRUE
  <2>1. h.size # 0
    BY DEF Shape
  <2>2. PICK c : c = h.index[i]
    OBVIOUS
  <2>3. Chain(h, k) = c
    BY <1>1, <2>2 DEF Chain
  <2>4. \A t : t = Chain(h, k) => Find(h, k) =
          IF {d \in ToSet(t) \ {Gone} : h.bucket[d].key = k} = {} THEN Gone
          ELSE CHOOSE d \in {d \in ToSet(t) \ {Gone} : h.bucket[d].key = k} : TRUE
    BY <2>1 DEF Find
  <2>. QED BY <2>2, <2>3, <2>4
<1>3. \A c \in holders : c \in Slab(h) /\ c # Gone /\ h.bucket[c].key = k /\ c \in ToSet(h.index[i])
  <2>1. h.index[i] \in Seq(Cell(h))
    BY <1>1 DEF Shape
  <2>2. ToSet(h.index[i]) \subseteq Cell(h)
    BY <2>1, HeldIs
  <2>. QED BY <2>2 DEF Cell
<1>4. ASSUME ChainsRight(h), NEW c \in Used(h), h.bucket[c].key = k PROVE c \in holders
  <2>1. c \in Homed(h, i)
    BY <1>1, <1>4 DEF Homed
  <2>2. c # Gone
    BY UsedIs
  <2>. QED BY <1>1, <1>4, <2>1, <2>2 DEF ChainsRight
<1>5. ASSUME ChainsRight(h) PROVE \A c \in holders : c \in Used(h)
  BY <1>1, <1>3, <1>5 DEF ChainsRight, Homed
<1>. HIDE DEF holders
<1>6. CASE holders = {}
  <2>1. b = Gone
    BY <1>2, <1>6
  <2>. QED BY <1>4, <1>6, <2>1
<1>7. CASE holders # {}
  <2>1. b \in holders
    BY <1>2, <1>7
  <2>2. b \in Slab(h) /\ b # Gone /\ h.bucket[b].key = k
    BY <1>3, <2>1
  <2>. QED BY <1>5, <2>1, <2>2
<1>. QED BY <1>6, <1>7

(* Another value in a bucket that has a key. *)
LEMMA ReplaceIs ==
  ASSUME NEW h, Shape(h), NEW k \in HashKey, NEW v \in HashValue,
         NEW b \in Slab(h), h.bucket[b].key = k, NEW g, g = [h EXCEPT !.bucket[b].value = v]
  PROVE  /\ Shape(g) /\ (Tainted(h) => Tainted(g))
         /\ \A st : Holds(h, st) => Holds(g, With(st, k, v))
<1>1. /\ Fields(g) /\ g.size = h.size /\ g.index = h.index /\ g.free = h.free /\ g.entries = h.entries
      /\ g.bucket = [h.bucket EXCEPT ![b].value = v]
  BY DEF Shape, Fields
<1>2. Slab(g) = Slab(h) /\ Cell(g) = Cell(h)
  BY <1>1 DEF Slab, Cell
<1>3. h.bucket \in [Slab(h) -> Bucket]
  BY DEF Shape
<1>4. /\ \A c \in Slab(h) : c # b => g.bucket[c] = h.bucket[c]
      /\ g.bucket[b] = [key |-> k, value |-> v] /\ [key |-> k, value |-> v] \in Bucket
  <2>1. h.bucket[b] \in Bucket
    BY <1>3
  <2>2. [h.bucket[b] EXCEPT !.value = v] = [key |-> k, value |-> v]
    BY <2>1 DEF Bucket
  <2>3. g.bucket[b] = [h.bucket[b] EXCEPT !.value = v]
    BY <1>1, <1>3
  <2>. QED BY <1>1, <1>3, <2>2, <2>3 DEF Bucket
<1>5. DOMAIN g.bucket = Slab(h)
  BY <1>1, <1>3
<1>6. g.bucket \in [Slab(h) -> Bucket]
  <2>1. g.bucket = [c \in Slab(h) |-> g.bucket[c]]
    BY <1>1, <1>3, <1>5
  <2>2. \A c \in Slab(h) : g.bucket[c] \in Bucket
    BY <1>3, <1>4
  <2>. QED BY <2>1, <2>2
<1>7. Shape(g)
  BY <1>1, <1>2, <1>6 DEF Shape
<1>8. ASSUME Tainted(h) PROVE Tainted(g)
  BY <1>1, <1>2, <1>7, <1>8 DEF Tainted
<1>9. g.bucket[b].key = k /\ g.bucket[b].value = v /\ \A c \in Slab(h) : g.bucket[c].key = h.bucket[c].key
  BY <1>4
<1>10. Used(g) = Used(h) /\ b \in Used(h) /\ Used(h) \subseteq Slab(h)
  BY <1>2, <1>9, HashOfType DEF Used
<1>11. \A i : Homed(g, i) = Homed(h, i)
  BY <1>1, <1>9, <1>10 DEF Homed
<1>12. ASSUME NEW st, Holds(h, st) PROVE Holds(g, With(st, k, v))
  <2>1. /\ ChainsRight(h) /\ FreeRight(h) /\ KeysApart(h) /\ Counted(h) /\ Agrees(h, st)
    BY <1>12 DEF Holds, Good
  <2>2. ChainsRight(g)
    BY <1>1, <1>2, <1>11, <2>1 DEF ChainsRight
  <2>3. FreeRight(g) /\ Counted(g)
    BY <1>1, <1>2, <1>10, <2>1 DEF FreeRight, Counted
  <2>4. KeysApart(g)
    BY <1>9, <1>10, <2>1 DEF KeysApart
  <2>5. PICK w : w = With(st, k, v)
    OBVIOUS
  <2>6. DOMAIN w = DOMAIN st \cup {k} /\ w[k] = v /\ \A x \in DOMAIN st : x # k => w[x] = st[x]
    BY <2>5 DEF With
  <2>7. DOMAIN st = {h.bucket[c].key : c \in Used(h)} /\ \A c \in Used(h) : st[h.bucket[c].key] = h.bucket[c].value
    BY <2>1 DEF Agrees
  <2>8. DOMAIN w = {g.bucket[c].key : c \in Used(g)}
    BY <1>9, <1>10, <2>6, <2>7
  <2>9. ASSUME NEW c \in Used(h) PROVE w[g.bucket[c].key] = g.bucket[c].value
    <3>1. CASE c = b
      BY <1>9, <2>6, <3>1
    <3>2. CASE c # b
      <4>1. h.bucket[c].key # k /\ c \in Slab(h)
        BY <1>10, <2>1, <3>2 DEF KeysApart
      <4>2. g.bucket[c] = h.bucket[c] /\ h.bucket[c].key \in DOMAIN st
        BY <1>4, <2>7, <3>2, <4>1
      <4>. QED BY <2>6, <2>7, <4>1, <4>2
    <3>. QED BY <3>1, <3>2
  <2>10. Agrees(g, w)
    BY <1>10, <2>8, <2>9 DEF Agrees
  <2>. QED BY <1>7, <2>2, <2>3, <2>4, <2>5, <2>10 DEF Holds, Good
<1>. QED BY <1>7, <1>8, <1>12

(* What a hash may be between two operations: new, or sound. *)
Sound(h, st) == (h = NoBuckets /\ DOMAIN st = {}) \/ Holds(h, st)

LEMMA PutIs ==
  ASSUME NEW h, NEW k \in HashKey, NEW v \in HashValue, NEW g, g = Put(h, k, v)
  PROVE  /\ Tainted(h) => Tainted(g)
         /\ \A st : Sound(h, st) => Tainted(g) \/ Holds(g, With(st, k, v))
<1>1. ASSUME Shape(h)
      PROVE  /\ Tainted(h) => Tainted(g)
             /\ \A st : Holds(h, st) => Tainted(g) \/ Holds(g, With(st, k, v))
  <2>1. h.size # 0
    BY <1>1 DEF Shape
  <2>2. PICK b : b = Find(h, k)
    OBVIOUS
  <2>3. g = IF b # Gone THEN [h EXCEPT !.bucket[b].value = v] ELSE StoreNew(h, k, v)
    BY <2>1, <2>2 DEF Put
  <2>4. CASE b # Gone
    <3>1. b \in Slab(h) /\ h.bucket[b].key = k
      BY <1>1, <2>2, <2>4, FindIs
    <3>2. g = [h EXCEPT !.bucket[b].value = v]
      BY <2>3, <2>4
    <3>. QED BY <1>1, <3>1, <3>2, ReplaceIs
  <2>5. CASE b = Gone
    <3>1. g = StoreNew(h, k, v)
      BY <2>3, <2>5
    <3>2. ASSUME NEW st, Holds(h, st) PROVE k \notin DOMAIN st
      <4>1. ChainsRight(h) /\ Agrees(h, st)
        BY <3>2 DEF Holds, Good
      <4>2. \A c \in Used(h) : h.bucket[c].key # k
        BY <1>1, <2>2, <2>5, <4>1, FindIs
      <4>. QED BY <4>1, <4>2 DEF Agrees
    <3>3. /\ Tainted(h) => Tainted(g)
          /\ \A st : Holds(h, st) /\ k \notin DOMAIN st => Tainted(g) \/ Holds(g, With(st, k, v))
      BY <1>1, <3>1, StoreNewIs
    <3>. QED BY <3>2, <3>3
  <2>. QED BY <2>4, <2>5
<1>2. Tainted(h) => Shape(h)
  BY DEF Tainted
<1>3. \A st : Holds(h, st) => Shape(h)
  BY DEF Holds, Good
<1>4. ASSUME NEW st, h = NoBuckets, DOMAIN st = {} PROVE Tainted(g) \/ Holds(g, With(st, k, v))
  <2>1. PICK a : a = Allocate(h, InitialSize)
    OBVIOUS
  <2>2. Good(a) /\ Used(a) = {}
    <3>1. h.entries = 0 /\ h.free \in Seq({}) /\ InitialSize \in Nat /\ InitialSize >= 1
      BY <1>4 DEF NoBuckets, InitialSize
    <3>. QED BY <2>1, <3>1, AllocateIs
  <2>3. Holds(a, st) /\ Shape(a)
    BY <1>4, <2>2 DEF Holds, Agrees, Good
  <2>4. a.size # 0 /\ h.size = 0
    BY <1>4, <2>3 DEF Shape, NoBuckets
  <2>5. Find(a, k) = Gone
    <3>1. ChainsRight(a)
      BY <2>2 DEF Good
    <3>. QED BY <2>2, <2>3, <3>1, FindIs
  <2>6. g = StoreNew(a, k, v)
    BY <2>1, <2>4, <2>5 DEF Put
  <2>7. k \notin DOMAIN st
    BY <1>4
  <2>. QED BY <2>3, <2>6, <2>7, StoreNewIs
<1>. QED BY <1>1, <1>2, <1>3, <1>4 DEF Sound
-----------------------------------------------------------------------------
(* A deleted entry: its bucket leaves its chain for the free list. *)
Without(st, k) == [x \in DOMAIN st \ {k} |-> st[x]]

Unlinked(h, g, b, i) ==
  /\ Fields(g) /\ g.size = h.size /\ g.entries = h.entries - 1 /\ g.free = <<b>> \o h.free
  /\ g.bucket = [h.bucket EXCEPT ![b].key = NoKey]
  /\ g.index = [h.index EXCEPT ![i] = Kept(@, ToSet(@) \ {b})]

LEMMA DeleteFields ==
  ASSUME NEW h, Shape(h), NEW k, NEW b, b = Find(h, k), b # Gone
  PROVE  Unlinked(h, Delete(h, k), b, HashOf[k] % h.size)
BY DEF Unlinked, Delete, Shape, Fields

LEMMA DeleteIs ==
  ASSUME NEW h, NEW k \in HashKey, NEW st, Sound(h, st), NEW g, g = Delete(h, k)
  PROVE  Sound(g, Without(st, k))
<1>1. PICK w : w = Without(st, k)
  OBVIOUS
<1>2. DOMAIN w = DOMAIN st \ {k} /\ \A x \in DOMAIN w : w[x] = st[x]
  BY <1>1 DEF Without
<1>3. PICK b : b = Find(h, k)
  OBVIOUS
<1>4. CASE b = Gone
  <2>1. g = h
    BY <1>3, <1>4 DEF Delete
  <2>2. CASE h = NoBuckets /\ DOMAIN st = {}
    BY <1>1, <1>2, <2>1, <2>2 DEF Sound
  <2>3. CASE Holds(h, st)
    <3>1. Shape(h) /\ ChainsRight(h) /\ Agrees(h, st)
      BY <2>3 DEF Holds, Good
    <3>2. \A c \in Used(h) : h.bucket[c].key # k
      BY <1>3, <1>4, <3>1, FindIs
    <3>3. k \notin DOMAIN st
      BY <3>1, <3>2 DEF Agrees
    <3>4. Agrees(h, w)
      BY <1>2, <3>1, <3>3 DEF Agrees
    <3>. QED BY <1>1, <2>1, <2>3, <3>4 DEF Holds, Sound
  <2>. QED BY <2>2, <2>3 DEF Sound
<1>5. CASE b # Gone
  <2>1. Holds(h, st)
    <3>1. h = NoBuckets => b = Gone
      BY <1>3 DEF Find, NoBuckets
    <3>. QED BY <1>5, <3>1 DEF Sound
  <2>2. Shape(h) /\ ChainsRight(h) /\ FreeRight(h) /\ KeysApart(h) /\ Counted(h) /\ Agrees(h, st)
    BY <2>1 DEF Holds, Good
  <2>3. b \in Slab(h) /\ h.bucket[b].key = k /\ k # NoKey
    BY <1>3, <1>5, <2>2, FindIs, HashOfType
  <2>4. PICK i : i = HashOf[k] % h.size /\ i \in Slab(h)
    BY <2>2, HomeIs
  <2>5. Unlinked(h, g, b, i)
    BY <1>3, <1>5, <2>2, <2>4, DeleteFields
  <2>6. /\ Fields(g) /\ g.size = h.size /\ g.entries = h.entries - 1 /\ g.free = <<b>> \o h.free
        /\ g.bucket = [h.bucket EXCEPT ![b].key = NoKey]
        /\ g.index = [h.index EXCEPT ![i] = Kept(@, ToSet(@) \ {b})]
    BY <2>5 DEF Unlinked
  <2>7. Slab(g) = Slab(h) /\ Cell(g) = Cell(h) /\ b \in Cell(h)
    BY <2>3, <2>6 DEF Slab, Cell
  <2>8. /\ h.free \in Seq(Cell(h)) /\ h.size \in Nat /\ h.size >= 2 /\ h.entries \in Nat
        /\ h.bucket \in [Slab(h) -> Bucket]
        /\ DOMAIN h.index = Slab(h) /\ \A j \in Slab(h) : h.index[j] \in Seq(Cell(h))
    BY <2>2 DEF Shape
  <2>9. /\ \A c \in Slab(h) : c # b => g.bucket[c] = h.bucket[c]
        /\ g.bucket[b].key = NoKey /\ g.bucket[b] \in Bucket
    <3>1. h.bucket[b] \in Bucket
      BY <2>3, <2>8
    <3>2. g.bucket[b] = [h.bucket[b] EXCEPT !.key = NoKey]
      BY <2>3, <2>6, <2>8
    <3>3. g.bucket[b].key = NoKey /\ g.bucket[b] \in Bucket
      BY <3>1, <3>2 DEF Bucket
    <3>. QED BY <2>3, <2>6, <2>8, <3>3
  <2>10. b \in Used(h) /\ Used(h) \subseteq Slab(h) /\ IsFiniteSet(Used(h)) /\ b # Gone
    BY <1>5, <2>2, <2>3, UsedIs
  <2>11. Used(g) = Used(h) \ {b}
    BY <2>3, <2>7, <2>9 DEF Used
  <2>12. /\ g.index[i] \in Seq(Cell(h)) /\ ToSet(g.index[i]) = ToSet(h.index[i]) \ {b}
         /\ Distinct(h.index[i]) => Distinct(g.index[i])
    <3>1. PICK t : t = h.index[i] /\ t \in Seq(Cell(h))
      BY <2>4, <2>8
    <3>2. g.index[i] = Kept(t, ToSet(t) \ {b})
      BY <2>4, <2>6, <2>8, <3>1
    <3>3. PICK u : u = Kept(t, ToSet(t) \ {b})
      OBVIOUS
    <3>4. u \in Seq(Cell(h)) /\ ToSet(u) = ToSet(t) \cap (ToSet(t) \ {b}) /\ (Distinct(t) => Distinct(u))
      BY <3>1, <3>3, KeptIs
    <3>. QED BY <3>1, <3>2, <3>3, <3>4
  <2>13. (\A j \in Slab(h) : j # i => g.index[j] = h.index[j]) /\ DOMAIN g.index = Slab(h)
    BY <2>4, <2>6, <2>8
  <2>14. /\ g.free \in Seq(Cell(h)) /\ ToSet(g.free) = ToSet(h.free) \cup {b}
         /\ Distinct(h.free) /\ (b \in ToSet(h.free) => b = Gone) => Distinct(g.free)
    BY <2>6, <2>7, <2>8, PushedIs
  <2>15. h.entries = Cardinality(Used(h)) /\ Cardinality(Used(h) \ {b}) = Cardinality(Used(h)) - 1
    BY <2>2, <2>10, FS_RemoveElement DEF Counted
  <2>16. g.entries \in Nat /\ g.entries = Cardinality(Used(g))
    <3>1. Cardinality(Used(g)) \in Nat
      BY <2>10, <2>11, FS_RemoveElement, FS_CardinalityType
    <3>. QED BY <2>6, <2>11, <2>15, <3>1
  <2>17. Shape(g)
    <3>1. g.bucket \in [Slab(h) -> Bucket]
      <4>1. DOMAIN g.bucket = Slab(h) /\ g.bucket = [c \in Slab(h) |-> g.bucket[c]]
        BY <2>6, <2>8
      <4>2. \A c \in Slab(h) : g.bucket[c] \in Bucket
        BY <2>8, <2>9
      <4>. QED BY <4>1, <4>2
    <3>2. \A j \in Slab(h) : g.index[j] \in Seq(Cell(h))
      BY <2>8, <2>12, <2>13
    <3>3. g.size \in Nat /\ g.size >= 2
      BY <2>6, <2>8
    <3>. QED BY <2>6, <2>7, <2>13, <2>14, <2>16, <3>1, <3>2, <3>3 DEF Shape
  <2>18. \A c \in Used(g) : c \in Used(h) /\ c # b /\ g.bucket[c] = h.bucket[c]
    BY <2>9, <2>10, <2>11
  <2>19. ChainsRight(g)
    <3>1. \A j \in Slab(h) : Distinct(h.index[j]) /\ ToSet(h.index[j]) = Homed(h, j)
      BY <2>2 DEF ChainsRight
    <3>2. Homed(g, i) = Homed(h, i) \ {b}
      BY <2>6, <2>11, <2>18 DEF Homed
    <3>3. ASSUME NEW j \in Slab(h), j # i PROVE Homed(g, j) = Homed(h, j)
      <4>1. b \notin Homed(h, j)
        BY <2>3, <2>4, <3>3 DEF Homed
      <4>. QED BY <2>6, <2>11, <2>18, <4>1 DEF Homed
    <3>4. Distinct(g.index[i]) /\ ToSet(g.index[i]) = Homed(g, i)
      BY <2>4, <2>12, <3>1, <3>2
    <3>5. ASSUME NEW j \in Slab(h), j # i PROVE Distinct(g.index[j]) /\ ToSet(g.index[j]) = Homed(g, j)
      BY <2>13, <3>1, <3>3, <3>5
    <3>. QED BY <2>7, <3>4, <3>5 DEF ChainsRight
  <2>20. FreeRight(g)
    <3>1. Distinct(h.free) /\ ToSet(h.free) \ {Gone} = Slab(h) \ Used(h)
      BY <2>2 DEF FreeRight
    <3>2. Distinct(g.free) /\ ToSet(g.free) \ {Gone} = Slab(g) \ Used(g)
      BY <2>3, <2>7, <2>10, <2>11, <2>14, <3>1
    <3>. QED BY <3>2 DEF FreeRight
  <2>21. KeysApart(g)
    BY <2>2, <2>18 DEF KeysApart
  <2>22. Agrees(g, w)
    <3>1. DOMAIN st = {h.bucket[c].key : c \in Used(h)} /\ \A c \in Used(h) : st[h.bucket[c].key] = h.bucket[c].value
      BY <2>2 DEF Agrees
    <3>2. \A c \in Used(g) : h.bucket[c].key # k /\ h.bucket[c].key \in DOMAIN st
      BY <2>2, <2>3, <2>10, <2>18, <3>1 DEF KeysApart
    <3>3. DOMAIN w = {g.bucket[c].key : c \in Used(g)}
      <4>1. ASSUME NEW x \in DOMAIN w PROVE \E c \in Used(g) : g.bucket[c].key = x
        <5>1. PICK c \in Used(h) : h.bucket[c].key = x /\ x # k
          BY <1>2, <3>1
        <5>2. c \in Used(g)
          BY <2>3, <2>11, <5>1
        <5>. QED BY <2>18, <5>1, <5>2
      <4>2. ASSUME NEW c \in Used(g) PROVE g.bucket[c].key \in DOMAIN w
        BY <1>2, <2>18, <3>2
      <4>. QED BY <4>1, <4>2
    <3>4. ASSUME NEW c \in Used(g) PROVE w[g.bucket[c].key] = g.bucket[c].value
      <4>1. c \in Used(h) /\ g.bucket[c] = h.bucket[c] /\ g.bucket[c].key \in DOMAIN w
        BY <2>18, <3>3
      <4>. QED BY <1>2, <3>1, <4>1
    <3>. QED BY <3>3, <3>4 DEF Agrees
  <2>. QED BY <1>1, <2>16, <2>17, <2>19, <2>20, <2>21, <2>22 DEF Sound, Holds, Good, Counted
<1>. QED BY <1>4, <1>5

-----------------------------------------------------------------------------
(* Entries copied from one hash to another, one after the other. *)
CopyStep(f, h, n) ==
  IF n = 0 THEN Allocate(NoBuckets, h.size - 1)
  ELSE IF h.bucket[n - 1].key = NoKey THEN f[n - 1]
  ELSE StoreNew(f[n - 1], h.bucket[n - 1].key, h.bucket[n - 1].value)
Copying(f, h, k) == f = [n \in 0..k |-> CopyStep(f, h, n)]

PutStep(f, h, pairs, n) == IF n = 0 THEN h ELSE Put(f[n - 1], pairs[n].key, pairs[n].value)
Putting(f, h, pairs, k) == f = [n \in 0..k |-> PutStep(f, h, pairs, n)]

LEMMA CopyingExists == \A h : \A k \in Nat : \E f : Copying(f, h, k)
<1>. SUFFICES ASSUME NEW h PROVE \A k \in Nat : \E f : Copying(f, h, k)
  OBVIOUS
<1>. DEFINE T == {k \in Nat : \E f : Copying(f, h, k)}
<1>1. 0 \in T
  <2>. DEFINE f == [n \in 0..0 |-> CopyStep(<<>>, h, 0)]
  <2>1. ASSUME NEW n \in 0..0 PROVE f[n] = CopyStep(f, h, n)
    BY DEF CopyStep
  <2>2. f = [n \in 0..0 |-> CopyStep(f, h, n)]
    BY <2>1
  <2>. QED BY <2>2 DEF Copying
<1>2. ASSUME NEW k \in Nat, k \in T PROVE k + 1 \in T
  <2>1. PICK f : Copying(f, h, k)
    BY <1>2
  <2>. DEFINE g == [n \in 0..k + 1 |-> CopyStep(f, h, n)]
  <2>2. ASSUME NEW n \in 0..k PROVE n \in 0..k + 1 /\ g[n] = f[n]
    BY <2>1 DEF Copying
  <2>3. ASSUME NEW n \in 0..k + 1 PROVE g[n] = CopyStep(g, h, n)
    <3>1. g[n] = CopyStep(f, h, n)
      OBVIOUS
    <3>2. CASE n # 0
      <4>1. PICK m \in 0..k : m = n - 1
        BY <3>2
      <4>2. g[m] = f[m]
        BY <2>2
      <4>. HIDE DEF g
      <4>. QED BY <3>1, <4>1, <4>2 DEF CopyStep
    <3>. HIDE DEF g
    <3>. QED BY <3>1, <3>2 DEF CopyStep
  <2>4. g = [n \in 0..k + 1 |-> CopyStep(g, h, n)]
    BY <2>3
  <2>. HIDE DEF g
  <2>5. Copying(g, h, k + 1)
    BY <2>4 DEF Copying
  <2>. QED BY <2>5
<1>3. Nat \subseteq T
  <2>. HIDE DEF T
  <2>. QED BY <1>1, <1>2, NaturalInduction
<1>. QED BY <1>3

LEMMA PuttingExists == \A h, pairs : \A k \in Nat : \E f : Putting(f, h, pairs, k)
<1>. SUFFICES ASSUME NEW h, NEW pairs PROVE \A k \in Nat : \E f : Putting(f, h, pairs, k)
  OBVIOUS
<1>. DEFINE T == {k \in Nat : \E f : Putting(f, h, pairs, k)}
<1>1. 0 \in T
  <2>. DEFINE f == [n \in 0..0 |-> PutStep(<<>>, h, pairs, 0)]
  <2>1. ASSUME NEW n \in 0..0 PROVE f[n] = PutStep(f, h, pairs, n)
    BY DEF PutStep
  <2>2. f = [n \in 0..0 |-> PutStep(f, h, pairs, n)]
    BY <2>1
  <2>. QED BY <2>2 DEF Putting
<1>2. ASSUME NEW k \in Nat, k \in T PROVE k + 1 \in T
  <2>1. PICK f : Putting(f, h, pairs, k)
    BY <1>2
  <2>. DEFINE g == [n \in 0..k + 1 |-> PutStep(f, h, pairs, n)]
  <2>2. ASSUME NEW n \in 0..k PROVE n \in 0..k + 1 /\ g[n] = f[n]
    BY <2>1 DEF Putting
  <2>3. ASSUME NEW n \in 0..k + 1 PROVE g[n] = PutStep(g, h, pairs, n)
    <3>1. g[n] = PutStep(f, h, pairs, n)
      OBVIOUS
    <3>2. CASE n # 0
      <4>1. PICK m \in 0..k : m = n - 1
        BY <3>2
      <4>2. g[m] = f[m]
        BY <2>2
      <4>. HIDE DEF g
      <4>. QED BY <3>1, <4>1, <4>2 DEF PutStep
    <3>. HIDE DEF g
    <3>. QED BY <3>1, <3>2 DEF PutStep
  <2>4. g = [n \in 0..k + 1 |-> PutStep(g, h, pairs, n)]
    BY <2>3
  <2>. HIDE DEF g
  <2>5. Putting(g, h, pairs, k + 1)
    BY <2>4 DEF Putting
  <2>. QED BY <2>5
<1>3. Nat \subseteq T
  <2>. HIDE DEF T
  <2>. QED BY <1>1, <1>2, NaturalInduction
<1>. QED BY <1>3

LEMMA AgreesAlike ==
  ASSUME NEW h, NEW w, NEW st, DOMAIN w = DOMAIN st, \A x \in DOMAIN st : w[x] = st[x], Agrees(h, w)
  PROVE  Agrees(h, st)
BY DEF Agrees

(* A clone holds what the hash holds. *)
LEMMA CloneIs ==
  ASSUME NEW h, NEW st, Holds(h, st), NEW g, g = Clone(h)
  PROVE  Tainted(g) \/ Holds(g, st)
<1>. DEFINE c == CHOOSE f : Copying(f, h, h.size)
<1>1. Clone(h) = c[h.size]
  BY Zenon DEF Clone, Copying, CopyStep
<1>2. Good(h) /\ Shape(h) /\ Agrees(h, st) /\ h.size \in Nat /\ h.size >= 2
  BY DEF Holds, Good, Shape
<1>3. PICK copied : copied = c /\ Copying(copied, h, h.size)
  BY <1>2, CopyingExists
<1>. HIDE DEF c
<1>. DEFINE below(n) == {h.bucket[b].key : b \in {d \in Used(h) : d < n}}
            claim(n) == \/ Tainted(copied[n])
                        \/ \E w : /\ DOMAIN w = below(n) /\ (\A x \in below(n) : w[x] = st[x])
                                  /\ Holds(copied[n], w)
            K == {n \in Nat : n <= h.size => claim(n)}
<1>4. 0 \in K
  <2>1. copied[0] = Allocate(NoBuckets, h.size - 1)
    <3>1. copied[0] = CopyStep(copied, h, 0)
      BY <1>2, <1>3 DEF Copying
    <3>. QED BY <3>1 DEF CopyStep
  <2>2. Good(copied[0]) /\ Used(copied[0]) = {}
    <3>1. NoBuckets.entries = 0 /\ NoBuckets.free \in Seq({})
      BY DEF NoBuckets
    <3>2. PICK n : n = h.size - 1 /\ n \in Nat /\ n >= 1
      BY <1>2
    <3>. QED BY <2>1, <3>1, <3>2, AllocateIs
  <2>3. below(0) = {}
    <3>1. \A d \in Used(h) : ~(d < 0)
      BY <1>2, UsedIs
    <3>. QED BY <3>1
  <2>4. PICK w : w = [x \in {} |-> x]
    OBVIOUS
  <2>5. Holds(copied[0], w)
    BY <2>2, <2>4 DEF Holds, Agrees
  <2>. HIDE DEF below
  <2>. QED BY <2>3, <2>4, <2>5
<1>5. ASSUME NEW n \in Nat, n \in K PROVE n + 1 \in K
  <2>. HIDE DEF claim
  <2>. SUFFICES ASSUME n + 1 <= h.size PROVE claim(n + 1)
    OBVIOUS
  <2>. USE DEF claim
  <2>1. n <= h.size /\ n + 1 \in 0..h.size /\ n + 1 # 0 /\ n + 1 - 1 = n /\ n \in Slab(h)
    BY <1>2 DEF Slab
  <2>2. copied[n + 1] = CopyStep(copied, h, n + 1)
    BY <1>3, <2>1 DEF Copying
  <2>3. claim(n)
    BY <1>5, <2>1
  <2>4. \A d \in Used(h) : d < n + 1 <=> d < n \/ d = n
    BY <1>2, UsedIs
  <2>5. CASE h.bucket[n].key = NoKey
    <3>1. copied[n + 1] = copied[n]
      BY <2>1, <2>2, <2>5 DEF CopyStep
    <3>2. n \notin Used(h)
      BY <2>5 DEF Used
    <3>3. below(n + 1) = below(n)
      BY <2>4, <3>2
    <3>. HIDE DEF below
    <3>. QED BY <2>3, <3>1, <3>3
  <2>6. CASE h.bucket[n].key # NoKey
    <3>1. PICK k, v : k = h.bucket[n].key /\ v = h.bucket[n].value
      OBVIOUS
    <3>2. copied[n + 1] = StoreNew(copied[n], k, v)
      BY <2>1, <2>2, <2>6, <3>1 DEF CopyStep
    <3>3. n \in Used(h)
      BY <2>1, <2>6 DEF Used
    <3>4. k \in HashKey /\ st[k] = v
      BY <1>2, <3>1, <3>3, UsedIs DEF Agrees
    <3>5. v \in HashValue
      BY <1>2, <3>1, <3>3, UsedIs
    <3>6. below(n + 1) = below(n) \cup {k}
      BY <2>4, <3>1, <3>3
    <3>7. k \notin below(n)
      <4>1. ASSUME NEW d \in Used(h), d < n PROVE h.bucket[d].key # k
        <5>1. d # n
          BY <4>1
        <5>. QED BY <1>2, <3>1, <3>3, <5>1 DEF Good, KeysApart
      <4>. QED BY <4>1
    <3>. HIDE DEF below
    <3>8. CASE Tainted(copied[n])
      <4>1. Shape(copied[n])
        BY <3>8 DEF Tainted
      <4>. QED BY <3>2, <3>4, <3>5, <3>8, <4>1, StoreNewIs
    <3>9. ASSUME NEW w, DOMAIN w = below(n), \A x \in below(n) : w[x] = st[x], Holds(copied[n], w)
          PROVE  claim(n + 1)
      <4>1. PICK w2 : w2 = With(w, k, v)
        OBVIOUS
      <4>2. Shape(copied[n])
        BY <3>9 DEF Holds, Good
      <4>3. Tainted(copied[n + 1]) \/ Holds(copied[n + 1], w2)
        BY <3>2, <3>4, <3>5, <3>7, <3>9, <4>1, <4>2, StoreNewIs
      <4>4. DOMAIN w2 = below(n + 1) /\ \A x \in below(n + 1) : w2[x] = st[x]
        BY <3>4, <3>6, <3>9, <4>1 DEF With
      <4>. QED BY <4>3, <4>4
    <3>. QED BY <2>3, <3>8, <3>9
  <2>. QED BY <2>5, <2>6
<1>6. h.size \in K
  <2>1. Nat \subseteq K
    <3>. HIDE DEF K
    <3>. QED BY <1>4, <1>5, NaturalInduction
  <2>. QED BY <1>2, <2>1
<1>7. below(h.size) = DOMAIN st
  <2>1. \A d \in Used(h) : d < h.size
    BY <1>2, UsedIs DEF Slab
  <2>. QED BY <1>2, <2>1 DEF Agrees
<1>8. h.size <= h.size
  BY <1>2
<1>. HIDE DEF below
<1>9. \/ Tainted(copied[h.size])
      \/ \E w : DOMAIN w = DOMAIN st /\ (\A x \in DOMAIN st : w[x] = st[x]) /\ Holds(copied[h.size], w)
  BY <1>6, <1>7, <1>8
<1>. QED BY <1>1, <1>3, <1>9, AgreesAlike DEF Holds

(* st after the first n pairs were put: theirs, and otherwise what was there. *)
IsAfter(w, st, pairs, n) ==
  /\ DOMAIN w = DOMAIN st \cup {pairs[i].key : i \in 1..n}
  /\ \A i \in 1..n : w[pairs[i].key] = pairs[i].value
  /\ \A x \in DOMAIN st : (\A i \in 1..n : pairs[i].key # x) => w[x] = st[x]

LEMMA PutAllIs ==
  ASSUME NEW h, NEW st, Sound(h, st), NEW pairs \in OtherHashes, NEW g, g = PutAll(h, pairs)
  PROVE  Tainted(g) \/ \E w : IsAfter(w, st, pairs, Len(pairs)) /\ Sound(g, w)
<1>. DEFINE c == CHOOSE f : Putting(f, h, pairs, Len(pairs))
<1>1. PutAll(h, pairs) = c[Len(pairs)]
  BY Zenon DEF PutAll, Putting, PutStep
<1>2. Len(pairs) \in Nat /\ \A i \in 1..Len(pairs) : pairs[i].key \in HashKey /\ pairs[i].value \in HashValue
  <2>1. pairs \in Seq([key : HashKey, value : HashValue])
    BY HashOfType
  <2>2. Len(pairs) \in Nat /\ \A i \in 1..Len(pairs) : pairs[i] \in [key : HashKey, value : HashValue]
    BY <2>1, LenProperties, ElementOfSeq
  <2>. QED BY <2>2
<1>3. PICK put : put = c /\ Putting(put, h, pairs, Len(pairs))
  BY <1>2, PuttingExists
<1>. HIDE DEF c
<1>4. \A i, j \in 1..Len(pairs) : pairs[i].key = pairs[j].key => i = j
  <2>1. pairs \in Seq([key : HashKey, value : HashValue])
    BY HashOfType
  <2>2. DOMAIN pairs = 1..Len(pairs)
    BY <2>1, LenProperties
  <2>3. \A i, j \in DOMAIN pairs : pairs[i].key = pairs[j].key => i = j
    BY HashAssumption DEF HashAssumption
  <2>. QED BY <2>2, <2>3
<1>. DEFINE claim(n) == Tainted(put[n]) \/ \E w : IsAfter(w, st, pairs, n) /\ Sound(put[n], w)
            K == {n \in Nat : n <= Len(pairs) => claim(n)}
<1>5. 0 \in K
  <2>1. put[0] = h
    <3>1. put[0] = PutStep(put, h, pairs, 0)
      BY <1>2, <1>3 DEF Putting
    <3>. QED BY <3>1 DEF PutStep
  <2>2. IsAfter(st, st, pairs, 0)
    BY DEF IsAfter
  <2>. QED BY <2>1, <2>2
<1>6. ASSUME NEW n \in Nat, n \in K PROVE n + 1 \in K
  <2>. SUFFICES ASSUME n + 1 <= Len(pairs) PROVE claim(n + 1)
    OBVIOUS
  <2>1. n <= Len(pairs) /\ n + 1 \in 0..Len(pairs) /\ n + 1 # 0 /\ n + 1 - 1 = n /\ n + 1 \in 1..Len(pairs)
    BY <1>2
  <2>2. PICK k \in HashKey, v \in HashValue : k = pairs[n + 1].key /\ v = pairs[n + 1].value
    BY <1>2, <2>1
  <2>3. put[n + 1] = Put(put[n], k, v)
    <3>1. put[n + 1] = PutStep(put, h, pairs, n + 1)
      BY <1>3, <2>1 DEF Putting
    <3>. QED BY <2>1, <2>2, <3>1 DEF PutStep
  <2>4. claim(n)
    BY <1>6, <2>1
  <2>5. CASE Tainted(put[n])
    BY <2>3, <2>5, PutIs
  <2>6. ASSUME NEW w, IsAfter(w, st, pairs, n), Sound(put[n], w) PROVE claim(n + 1)
    <3>1. PICK w2 : w2 = With(w, k, v)
      OBVIOUS
    <3>2. Tainted(put[n + 1]) \/ Holds(put[n + 1], w2)
      BY <2>3, <2>6, <3>1, PutIs
    <3>3. IsAfter(w2, st, pairs, n + 1)
      <4>1. 1..n + 1 = 1..n \cup {n + 1}
        OBVIOUS
      <4>2. \A i \in 1..n : pairs[i].key # k
        <5>1. ASSUME NEW i \in 1..n PROVE i \in 1..Len(pairs) /\ i # n + 1
          BY <1>2, <2>1
        <5>. QED BY <1>4, <2>1, <2>2, <5>1
      <4>3. /\ DOMAIN w = DOMAIN st \cup {pairs[i].key : i \in 1..n}
            /\ \A i \in 1..n : w[pairs[i].key] = pairs[i].value
            /\ \A x \in DOMAIN st : (\A i \in 1..n : pairs[i].key # x) => w[x] = st[x]
        BY <2>6 DEF IsAfter
      <4>4. DOMAIN w2 = DOMAIN w \cup {k} /\ w2[k] = v /\ \A x \in DOMAIN w : x # k => w2[x] = w[x]
        BY <3>1 DEF With
      <4>5. {pairs[i].key : i \in 1..n + 1} = {pairs[i].key : i \in 1..n} \cup {k}
        BY <2>2, <4>1, Zenon
      <4>6. DOMAIN w2 = DOMAIN st \cup {pairs[i].key : i \in 1..n + 1}
        BY <4>3, <4>4, <4>5
      <4>7. ASSUME NEW i \in 1..n + 1 PROVE w2[pairs[i].key] = pairs[i].value
        <5>1. CASE i = n + 1
          BY <2>2, <4>4, <5>1
        <5>2. CASE i \in 1..n
          BY <4>2, <4>3, <4>4, <5>2
        <5>. QED BY <4>1, <5>1, <5>2
      <4>8. ASSUME NEW x \in DOMAIN st, \A i \in 1..n + 1 : pairs[i].key # x PROVE w2[x] = st[x]
        <5>1. x # k /\ \A i \in 1..n : pairs[i].key # x
          BY <2>2, <4>1, <4>8
        <5>. QED BY <4>3, <4>4, <5>1
      <4>. QED BY <4>6, <4>7, <4>8 DEF IsAfter
    <3>. QED BY <3>2, <3>3 DEF Sound
  <2>. QED BY <2>4, <2>5, <2>6
<1>7. Len(pairs) \in K
  <2>1. Nat \subseteq K
    <3>. HIDE DEF K
    <3>. QED BY <1>5, <1>6, NaturalInduction
  <2>. QED BY <1>2, <2>1
<1>8. Len(pairs) <= Len(pairs)
  BY <1>2
<1>. QED BY <1>1, <1>3, <1>7, <1>8
-----------------------------------------------------------------------------
(* An update starts from the hash as it is, or from new buckets. *)
LEMMA PresizeIs ==
  ASSUME NEW h, NEW st, Sound(h, st), NEW size \in {2, 4}
  PROVE  Sound(Presize(h, size), st)
<1>1. CASE h.entries # 0
  BY <1>1 DEF Presize
<1>2. CASE h.entries = 0
  <2>1. PICK g : g = Allocate(h, size - 1)
    OBVIOUS
  <2>2. Presize(h, size) = g
    BY <1>2, <2>1 DEF Presize
  <2>3. PICK n \in Nat : n = size - 1 /\ n >= 1
    OBVIOUS
  <2>4. CASE h = NoBuckets
    <3>1. h.free \in Seq({}) /\ DOMAIN st = {}
      BY <2>4 DEF NoBuckets, Sound, Holds, Good, Shape
    <3>2. Good(g) /\ Used(g) = {}
      BY <1>2, <2>1, <2>3, <3>1, AllocateIs
    <3>. QED BY <2>2, <3>1, <3>2 DEF Sound, Holds, Agrees
  <2>5. CASE Holds(h, st)
    <3>1. Shape(h) /\ Counted(h) /\ Agrees(h, st)
      BY <2>5 DEF Holds, Good
    <3>2. h.free \in Seq(Cell(h)) /\ IsFiniteSet(Used(h)) /\ Cardinality(Used(h)) = 0
      BY <1>2, <3>1, UsedIs DEF Shape, Counted
    <3>3. Used(h) = {}
      BY <3>2, FS_EmptySet
    <3>4. DOMAIN st = {}
      BY <3>1, <3>3 DEF Agrees
    <3>5. Good(g) /\ Used(g) = {}
      BY <1>2, <2>1, <2>3, <3>2, AllocateIs
    <3>. QED BY <2>2, <3>4, <3>5 DEF Sound, Holds, Agrees
  <2>. QED BY <2>4, <2>5 DEF Sound
<1>. QED BY <1>1, <1>2

(* As long as no bucket of a slab that was freed was used, the hash is sound
   and holds what was stored. *)
HashInv == ~used_freed => Sound(hash, stored)

LEMMA HashStart == HashInit => HashInv
<1>. SUFFICES ASSUME HashInit PROVE HashInv
  OBVIOUS
<1>1. DOMAIN stored = {}
  BY DEF HashInit
<1>. QED BY <1>1 DEF HashInit, HashInv, Sound

(* What a bucket of a freed slab has been written into is noticed. *)
LEMMA BecomesIs ==
  ASSUME NEW h, HashBecomes(h), NEW st, Tainted(h) \/ Sound(h, st)
  PROVE  hash' = h /\ (~used_freed' => Sound(h, st))
<1>1. hash' = h /\ used_freed' = \E i \in DOMAIN h.index : Gone \in ToSet(h.index[i])
  BY DEF HashBecomes
<1>2. Tainted(h) => used_freed'
  BY <1>1 DEF Tainted, Shape
<1>. QED BY <1>1, <1>2

LEMMA SoundAlike ==
  ASSUME NEW h, NEW w, NEW st, Sound(h, w), DOMAIN w = DOMAIN st, \A x \in DOMAIN st : w[x] = st[x]
  PROVE  Sound(h, st)
BY AgreesAlike DEF Sound, Holds

LEMMA HashStep == HashInv /\ [HashNext]_hashVars => HashInv'
<1>. SUFFICES ASSUME HashInv, [HashNext]_hashVars PROVE HashInv'
  OBVIOUS
<1>1. ASSUME NEW k \in HashKey, HashDelete(k) PROVE HashInv'
  <2>1. PICK g : g = Delete(hash, k)
    OBVIOUS
  <2>2. Sound(hash, stored) /\ HashBecomes(g) /\ stored' = Without(stored, k)
    BY <1>1, <2>1 DEF HashInv, HashDelete, Without
  <2>3. Sound(g, Without(stored, k))
    BY <2>1, <2>2, DeleteIs
  <2>4. hash' = g
    BY <2>2 DEF HashBecomes
  <2>. QED BY <2>2, <2>3, <2>4 DEF HashInv
<1>2. ASSUME NEW k \in HashKey, NEW v \in HashValue, HashPut(k, v) PROVE HashInv'
  <2>1. PICK g : g = Put(hash, k, v)
    OBVIOUS
  <2>2. Sound(hash, stored) /\ HashBecomes(g) /\ stored' = With(stored, k, v)
    BY <1>2, <2>1 DEF HashInv, HashPut, With
  <2>3. Tainted(g) \/ Sound(g, With(stored, k, v))
    BY <2>1, <2>2, PutIs DEF Sound
  <2>4. hash' = g /\ (~used_freed' => Sound(g, With(stored, k, v)))
    BY <2>2, <2>3, BecomesIs
  <2>. QED BY <2>2, <2>4 DEF HashInv
<1>3. ASSUME NEW pairs \in OtherHashes, NEW size \in {2, 4}, HashUpdate(pairs, size) PROVE HashInv'
  <2>1. PICK h : h = Presize(hash, size)
    OBVIOUS
  <2>2. PICK g : g = PutAll(h, pairs)
    OBVIOUS
  <2>3. Sound(hash, stored) /\ HashBecomes(g)
    BY <1>3, <2>1, <2>2 DEF HashInv, HashUpdate
  <2>4. Sound(h, stored)
    BY <2>1, <2>3, PresizeIs
  <2>5. Tainted(g) \/ \E w : IsAfter(w, stored, pairs, Len(pairs)) /\ Sound(g, w)
    BY <2>2, <2>4, PutAllIs
  <2>6. ASSUME NEW w, IsAfter(w, stored, pairs, Len(pairs))
        PROVE  DOMAIN w = DOMAIN stored' /\ \A x \in DOMAIN stored' : w[x] = stored'[x]
    <3>1. pairs \in Seq([key : HashKey, value : HashValue])
      BY HashOfType
    <3>2. DOMAIN pairs = 1..Len(pairs)
      BY <3>1, LenProperties
    <3>3. ToSet(pairs) = {pairs[i] : i \in 1..Len(pairs)}
      BY <3>2 DEF ToSet
    <3>4. PICK ps : ps = ToSet(pairs)
      OBVIOUS
    <3>5. stored' = [x \in DOMAIN stored \cup {p.key : p \in ps} |->
                      IF \E p \in ps : p.key = x THEN (CHOOSE p \in ps : p.key = x).value ELSE stored[x]]
      BY <1>3, <3>4 DEF HashUpdate
    <3>6. \A p \in ps : w[p.key] = p.value
      BY <2>6, <3>3, <3>4 DEF IsAfter
    <3>7. {p.key : p \in ps} = {pairs[i].key : i \in 1..Len(pairs)}
      BY <3>3, <3>4
    <3>8. DOMAIN w = DOMAIN stored \cup {p.key : p \in ps}
      BY <2>6, <3>7 DEF IsAfter
    <3>9. ASSUME NEW x \in DOMAIN w PROVE w[x] = stored'[x]
      <4>1. stored'[x] = IF \E p \in ps : p.key = x THEN (CHOOSE p \in ps : p.key = x).value ELSE stored[x]
        BY <3>5, <3>8
      <4>2. CASE \E p \in ps : p.key = x
        <5>1. PICK q : q = CHOOSE p \in ps : p.key = x
          OBVIOUS
        <5>2. q \in ps /\ q.key = x
          BY <4>2, <5>1
        <5>3. stored'[x] = q.value
          BY <4>1, <4>2, <5>1
        <5>. QED BY <3>6, <5>2, <5>3
      <4>3. CASE ~ \E p \in ps : p.key = x
        <5>1. x \in DOMAIN stored /\ stored'[x] = stored[x]
          BY <3>8, <4>1, <4>3
        <5>2. \A i \in 1..Len(pairs) : pairs[i].key # x
          BY <3>3, <3>4, <4>3
        <5>. QED BY <2>6, <5>1, <5>2 DEF IsAfter
      <4>. QED BY <4>2, <4>3
    <3>. QED BY <3>5, <3>8, <3>9
  <2>7. Tainted(g) \/ Sound(g, stored')
    BY <2>5, <2>6, SoundAlike
  <2>8. hash' = g /\ (~used_freed' => Sound(g, stored'))
    BY <2>3, <2>7, BecomesIs
  <2>. QED BY <2>8 DEF HashInv
<1>4. CASE HashClone
  <2>1. PICK g : g = Clone(hash)
    OBVIOUS
  <2>2. Sound(hash, stored) /\ HashBecomes(g) /\ stored' = stored /\ hash.size > 0
    BY <1>4, <2>1 DEF HashInv, HashClone
  <2>3. Holds(hash, stored)
    BY <2>2 DEF Sound, NoBuckets
  <2>4. Tainted(g) \/ Sound(g, stored)
    BY <2>1, <2>3, CloneIs DEF Sound
  <2>5. hash' = g /\ (~used_freed' => Sound(g, stored))
    BY <2>2, <2>4, BecomesIs
  <2>. QED BY <2>2, <2>5 DEF HashInv
<1>5. CASE UNCHANGED hashVars
  BY <1>5 DEF hashVars, HashInv
<1>. QED BY <1>1, <1>2, <1>3, <1>4, <1>5 DEF HashNext

(* A lookup in a sound hash finds what was stored. *)
LEMMA SoundFinds == HashInv => HashFindsStored
<1>. SUFFICES ASSUME Sound(hash, stored), NEW k \in HashKey
              PROVE  IF k \in DOMAIN stored
                     THEN Find(hash, k) # Gone /\ hash.bucket[Find(hash, k)].value = stored[k]
                     ELSE Find(hash, k) = Gone
  BY DEF HashInv, HashFindsStored
<1>1. PICK b : b = Find(hash, k)
  OBVIOUS
<1>2. CASE hash = NoBuckets /\ DOMAIN stored = {}
  BY <1>2 DEF Find, NoBuckets
<1>3. CASE Holds(hash, stored)
  <2>1. Shape(hash) /\ ChainsRight(hash) /\ Agrees(hash, stored)
    BY <1>3 DEF Holds, Good
  <2>2. /\ b # Gone => b \in Slab(hash) /\ hash.bucket[b].key = k
        /\ b = Gone <=> \A c \in Used(hash) : hash.bucket[c].key # k
    BY <1>1, <2>1, FindIs
  <2>3. k \in DOMAIN stored <=> \E c \in Used(hash) : hash.bucket[c].key = k
    BY <2>1 DEF Agrees
  <2>4. b # Gone => b \in Used(hash)
    BY <2>2, HashOfType DEF Used
  <2>5. b # Gone => hash.bucket[b].value = stored[k]
    BY <2>1, <2>2, <2>4 DEF Agrees
  <2>. QED BY <1>1, <2>2, <2>3, <2>5
<1>. QED BY <1>2, <1>3 DEF Sound

(* The lists of a sound hash hold each bucket of the slab once. *)
LEMMA SoundAccounts == HashInv => HashBucketsAccounted
<1>. SUFFICES ASSUME Sound(hash, stored), hash.size > 0, HashInv PROVE HashBucketsAccounted
  BY DEF HashInv, HashBucketsAccounted
<1>. DEFINE h == hash
            lists == [i \in Slab(h) \cup {h.size} |-> IF i = h.size THEN h.free ELSE h.index[i]]
<1>1. Shape(h) /\ ChainsRight(h) /\ FreeRight(h) /\ Counted(h)
  BY DEF Sound, NoBuckets, Holds, Good
<1>2. /\ IsFiniteSet(Slab(h)) /\ IsFiniteSet(Used(h)) /\ Used(h) \subseteq Slab(h)
      /\ \A b \in Used(h) : h.bucket[b].key \in HashKey
      /\ Cardinality(Slab(h)) = h.size /\ Gone \notin Slab(h)
  BY <1>1, UsedIs
<1>3. h.size \in Nat /\ h.size \notin Slab(h)
  BY <1>1 DEF Shape, Slab
<1>4. DOMAIN lists = Slab(h) \cup {h.size} /\ lists[h.size] = h.free /\ \A i \in Slab(h) : lists[i] = h.index[i]
  BY <1>3
<1>. HIDE DEF lists
<1>5. /\ Distinct(h.free) /\ ToSet(h.free) \ {Gone} = Slab(h) \ Used(h)
      /\ \A i \in Slab(h) : Distinct(h.index[i]) /\ ToSet(h.index[i]) = Homed(h, i)
  BY <1>1 DEF FreeRight, ChainsRight
<1>6. \A i \in DOMAIN lists : ToSet(lists[i]) \subseteq Slab(h) \cup {Gone}
  BY <1>2, <1>4, <1>5 DEF Homed
<1>7. ASSUME NEW b \in Slab(h), NEW i \in DOMAIN lists, b \in ToSet(lists[i]),
             \A j \in DOMAIN lists : b \in ToSet(lists[j]) => j = i
      PROVE  \E i_1 \in DOMAIN lists : \E p \in DOMAIN lists[i_1] :
               /\ lists[i_1][p] = b
               /\ \A j \in DOMAIN lists : \A q \in DOMAIN lists[j] : lists[j][q] = b => j = i_1 /\ q = p
  <2>1. PICK p \in DOMAIN lists[i] : lists[i][p] = b
    BY <1>7 DEF ToSet
  <2>2. ASSUME NEW j \in DOMAIN lists, NEW q \in DOMAIN lists[j], lists[j][q] = b PROVE j = i /\ q = p
    <3>1. b \in ToSet(lists[j])
      BY <2>2 DEF ToSet
    <3>2. j = i
      BY <1>7, <3>1
    <3>3. Distinct(lists[i])
      BY <1>4, <1>5
    <3>4. q \in DOMAIN lists[i] /\ lists[i][q] = lists[i][p] /\ lists[i][q] # Gone
      BY <1>2, <2>1, <2>2, <3>2
    <3>. QED BY <2>1, <3>2, <3>3, <3>4 DEF Distinct
  <2>. QED BY <2>1, <2>2
<1>8. ASSUME NEW b \in Slab(h)
      PROVE  \E i \in DOMAIN lists : \E p \in DOMAIN lists[i] :
               /\ lists[i][p] = b
               /\ \A j \in DOMAIN lists : \A q \in DOMAIN lists[j] : lists[j][q] = b => j = i /\ q = p
  <2>1. CASE b \in Used(h)
    <3>1. PICK i : i = HashOf[h.bucket[b].key] % h.size
      OBVIOUS
    <3>2. i \in Slab(h)
      BY <1>1, <1>2, <2>1, <3>1, HomeIs
    <3>3. b \in ToSet(lists[i])
      BY <1>4, <1>5, <2>1, <3>1, <3>2 DEF Homed
    <3>4. b \notin ToSet(h.free)
      BY <1>2, <1>5, <2>1
    <3>5. \A j \in Slab(h) : b \in ToSet(h.index[j]) => j = i
      BY <1>5, <3>1 DEF Homed
    <3>6. \A j \in DOMAIN lists : b \in ToSet(lists[j]) => j = i
      BY <1>4, <3>4, <3>5
    <3>. QED BY <1>4, <1>7, <3>2, <3>3, <3>6
  <2>2. CASE b \notin Used(h)
    <3>1. b \in ToSet(lists[h.size])
      BY <1>4, <1>5, <2>2
    <3>2. \A j \in Slab(h) : b \notin ToSet(lists[j])
      BY <1>4, <1>5, <2>2 DEF Homed
    <3>3. \A j \in DOMAIN lists : b \in ToSet(lists[j]) => j = h.size
      BY <1>4, <3>2
    <3>. QED BY <1>4, <1>7, <3>1, <3>3
  <2>. QED BY <2>1, <2>2
<1>9. h.entries = Cardinality({b \in Slab(h) : h.bucket[b].key # NoKey})
  BY <1>1 DEF Counted, Used
<1>10. h.entries = h.size - Cardinality(ToSet(h.free) \ {Gone})
  <2>1. Cardinality(Slab(h) \ Used(h)) = Cardinality(Slab(h)) - Cardinality(Slab(h) \cap Used(h))
    BY <1>2, FS_Difference
  <2>2. Slab(h) \cap Used(h) = Used(h)
    BY <1>2
  <2>3. Cardinality(Used(h)) = h.entries /\ h.entries \in Nat
    BY <1>1 DEF Counted, Shape
  <2>4. Cardinality(ToSet(h.free) \ {Gone}) = h.size - h.entries
    BY <1>2, <1>5, <2>1, <2>2, <2>3
  <2>. QED BY <1>3, <2>3, <2>4
<1>. QED BY <1>6, <1>8, <1>9, <1>10 DEF HashBucketsAccounted, lists, Slab

(* A lookup finds what was stored last, whatever collided, was deleted, moved
   by an expansion (expand_hash), or copied by an update or a clone. *)
THEOREM HashFindsStoredAlways == HashSpec => []HashFindsStored
BY HashStart, HashStep, SoundFinds, PTL DEF HashSpec

(* Each bucket is free or in one chain, and entries counts those with a key. *)
THEOREM HashBucketsAccountedAlways == HashSpec => []HashBucketsAccounted
BY HashStart, HashStep, SoundAccounts, PTL DEF HashSpec
-----------------------------------------------------------------------------
(* A run of values: those after the first p of the source. *)
ValuesFrom(e, p) == e \in Seq(Element) /\ \A k \in 1..Len(e) : e[k] = Value(p + k)

(* Elements that come to all values after the first p: a run of values, and
   behind it one of the iterators B that goes on, or the end of the source. *)
GoesOn(x, p, at, B) == x.kind = "iter" /\ x.ref \in B /\ at[x.ref] = p
Ends(e) == e = <<>> \/ e[Len(e)].kind = "value"
Continued(e, p, at, B) ==
  /\ e \in Seq(Element)
  /\ \A k \in 1..Len(e) : e[k] = Value(p + k) \/ (k = Len(e) /\ GoesOn(e[k], p + Len(e) - 1, at, B))
  /\ Ends(e) => p + Len(e) = Source

LEMMA Elements ==
  /\ \A v \in Nat : Value(v) \in Element /\ Value(v).kind = "value" /\ Value(v).kind # "iter"
  /\ \A i \in Nat : Iter(i) \in Element /\ Iter(i).kind = "iter" /\ Iter(i).kind # "value" /\ Iter(i).ref = i
  /\ \A x \in Element : x.ref \in Nat /\ (x.kind = "iter" <=> x.kind # "value")
BY DEF Element, Value, Iter

LEMMA SeqFacts ==
  ASSUME NEW e \in Seq(Element)
  PROVE  /\ Len(e) \in Nat /\ DOMAIN e = 1..Len(e) /\ \A k \in 1..Len(e) : e[k] \in Element
         /\ e = <<>> <=> Len(e) = 0
OBVIOUS

(* The first part of elements, and what is behind it. *)
LEMMA PartsOf ==
  ASSUME NEW e, NEW p \in Nat, NEW at, NEW B, Continued(e, p, at, B), NEW k \in 0..Len(e),
         \A j \in 1..k : e[j].kind = "value"
  PROVE  /\ ValuesFrom(SubSeq(e, 1, k), p) /\ Len(SubSeq(e, 1, k)) = k
         /\ Continued(SubSeq(e, k + 1, Len(e)), p + k, at, B) /\ Len(SubSeq(e, k + 1, Len(e))) = Len(e) - k
         /\ \A j \in 1..Len(e) - k : SubSeq(e, k + 1, Len(e))[j] = e[k + j]
<1>0. e \in Seq(Element) /\ Len(e) \in Nat /\ (\A j \in 1..Len(e) : e[j] \in Element) /\ k \in Nat /\ k <= Len(e)
      /\ (Ends(e) => p + Len(e) = Source)
  <2>1. e \in Seq(Element) /\ (Ends(e) => p + Len(e) = Source)
    BY DEF Continued
  <2>. QED BY <2>1, SeqFacts
<1>1. \A j \in 1..k : j \in 1..Len(e) /\ e[j] = Value(p + j)
  <2>. SUFFICES ASSUME NEW j \in 1..k PROVE j \in 1..Len(e) /\ e[j] = Value(p + j)
    OBVIOUS
  <2>1. j \in 1..Len(e)
    BY <1>0
  <2>2. e[j].kind # "iter"
    BY <1>0, <2>1, Elements
  <2>. QED BY <2>1, <2>2 DEF Continued, GoesOn
<1>. DEFINE a == SubSeq(e, 1, k)
            b == SubSeq(e, k + 1, Len(e))
<1>2. a \in Seq(Element) /\ Len(a) = k /\ \A j \in 1..k : a[j] = e[j]
  BY <1>0, <1>1
<1>3. b \in Seq(Element) /\ Len(b) = Len(e) - k /\ \A j \in 1..Len(e) - k : b[j] = e[k + j]
  <2>1. /\ b \in Seq(Element) /\ Len(b) = IF k + 1 <= Len(e) THEN Len(e) - (k + 1) + 1 ELSE 0
        /\ \A j \in 1 .. Len(e) - (k + 1) + 1 : b[j] = e[(k + 1) + j - 1]
    <3>1. \A j \in k + 1 .. Len(e) : e[j] \in Element
      BY <1>0
    <3>2. k + 1 \in Int /\ Len(e) \in Int
      BY <1>0
    <3>. QED BY <3>1, <3>2, SubSeqProperties
  <2>. HIDE DEF b
  <2>2. Len(b) = Len(e) - k /\ Len(e) - (k + 1) + 1 = Len(e) - k /\ \A j \in 1..Len(e) - k : (k + 1) + j - 1 = k + j
    BY <1>0, <2>1
  <2>. QED BY <2>1, <2>2
<1>. HIDE DEF a, b
<1>4. ValuesFrom(a, p)
  BY <1>1, <1>2 DEF ValuesFrom
<1>5. \A j \in 1..Len(b) : b[j] = Value(p + k + j) \/ (j = Len(b) /\ GoesOn(b[j], p + k + Len(b) - 1, at, B))
  <2>. SUFFICES ASSUME NEW j \in 1..Len(b)
                PROVE  b[j] = Value(p + k + j) \/ (j = Len(b) /\ GoesOn(b[j], p + k + Len(b) - 1, at, B))
    OBVIOUS
  <2>1. /\ k + j \in 1..Len(e) /\ b[j] = e[k + j] /\ p + (k + j) = p + k + j
        /\ (k + j = Len(e) => j = Len(b)) /\ p + Len(e) - 1 = p + k + Len(b) - 1
    BY <1>0, <1>3
  <2>2. e[k + j] = Value(p + (k + j)) \/ (k + j = Len(e) /\ GoesOn(e[k + j], p + Len(e) - 1, at, B))
    BY <2>1 DEF Continued
  <2>. QED BY <2>1, <2>2
<1>6. Ends(b) => Ends(e)
  <2>1. CASE k = Len(e)
    <3>1. e = <<>> \/ (Len(e) \in 1..k /\ Len(e) \in 1..Len(e))
      BY <1>0, <2>1, SeqFacts
    <3>. QED BY <3>1 DEF Ends
  <2>2. CASE k # Len(e)
    <3>1. Len(b) \in 1..Len(e) - k /\ k + Len(b) = Len(e) /\ b # <<>>
      BY <1>0, <1>3, <2>2, SeqFacts
    <3>. QED BY <1>3, <3>1 DEF Ends
  <2>. QED BY <2>1, <2>2
<1>7. Ends(b) => p + k + Len(b) = Source
  BY <1>0, <1>3, <1>6
<1>8. Continued(b, p + k, at, B)
  BY <1>3, <1>5, <1>7 DEF Continued
<1>. QED BY <1>2, <1>3, <1>4, <1>8 DEF a, b

(* Values and what goes on behind them. *)
LEMMA Joined ==
  ASSUME NEW s, NEW p \in Nat, ValuesFrom(s, p), NEW e, NEW at, NEW B, Continued(e, p + Len(s), at, B)
  PROVE  Continued(s \o e, p, at, B)
<1>0. s \in Seq(Element) /\ e \in Seq(Element) /\ Len(s) \in Nat /\ Len(e) \in Nat
  BY SeqFacts DEF ValuesFrom, Continued
<1>. DEFINE t == s \o e
<1>1. /\ t \in Seq(Element) /\ Len(t) = Len(s) + Len(e)
      /\ \A k \in 1..Len(t) : t[k] = IF k <= Len(s) THEN s[k] ELSE e[k - Len(s)]
  <2>1. /\ t \in Seq(Element) /\ Len(t) = Len(s) + Len(e)
        /\ \A k \in 1..Len(s) + Len(e) : t[k] = IF k <= Len(s) THEN s[k] ELSE e[k - Len(s)]
    BY <1>0, ConcatProperties
  <2>. QED BY <2>1
<1>. HIDE DEF t
<1>2. ASSUME NEW k \in 1..Len(t)
      PROVE  t[k] = Value(p + k) \/ (k = Len(t) /\ GoesOn(t[k], p + Len(t) - 1, at, B))
  <2>1. CASE k <= Len(s)
    <3>1. k \in 1..Len(s)
      BY <1>0, <1>1, <2>1
    <3>. QED BY <1>1, <2>1, <3>1 DEF ValuesFrom
  <2>2. CASE ~(k <= Len(s))
    <3>. DEFINE j == k - Len(s)
    <3>1. /\ j \in 1..Len(e) /\ t[k] = e[j] /\ p + Len(s) + j = p + k
          /\ (j = Len(e) => k = Len(t)) /\ p + Len(s) + Len(e) - 1 = p + Len(t) - 1
      BY <1>0, <1>1, <2>2
    <3>2. e[j] = Value(p + Len(s) + j) \/ (j = Len(e) /\ GoesOn(e[j], p + Len(s) + Len(e) - 1, at, B))
      BY <3>1 DEF Continued
    <3>. QED BY <3>1, <3>2
  <2>. QED BY <2>1, <2>2
<1>3. Ends(t) => p + Len(t) = Source
  <2>. SUFFICES ASSUME Ends(t) PROVE Ends(e)
    BY <1>0, <1>1 DEF Continued
  <2>1. CASE e = <<>>
    BY <2>1 DEF Ends
  <2>2. CASE e # <<>>
    <3>1. Len(t) \in 1..Len(t) /\ ~(Len(t) <= Len(s)) /\ Len(t) - Len(s) = Len(e) /\ t # <<>>
      BY <1>0, <1>1, <2>2, SeqFacts
    <3>. QED BY <1>1, <3>1 DEF Ends
  <2>. QED BY <2>1, <2>2
<1>4. Continued(t, p, at, B)
  BY <1>1, <1>2, <1>3 DEF Continued
<1>. QED BY <1>4 DEF t

LEMMA JoinedValues ==
  ASSUME NEW s, NEW p \in Nat, ValuesFrom(s, p), NEW e, ValuesFrom(e, p + Len(s))
  PROVE  ValuesFrom(s \o e, p) /\ Len(s \o e) = Len(s) + Len(e)
<1>0. s \in Seq(Element) /\ e \in Seq(Element) /\ Len(s) \in Nat /\ Len(e) \in Nat
  BY SeqFacts DEF ValuesFrom
<1>. DEFINE t == s \o e
<1>1. /\ t \in Seq(Element) /\ Len(t) = Len(s) + Len(e)
      /\ \A k \in 1..Len(s) + Len(e) : t[k] = IF k <= Len(s) THEN s[k] ELSE e[k - Len(s)]
  BY <1>0, ConcatProperties
<1>. HIDE DEF t
<1>2. ASSUME NEW k \in 1..Len(t) PROVE t[k] = Value(p + k)
  <2>0. k \in 1..Len(s) + Len(e)
    BY <1>1
  <2>1. CASE k <= Len(s)
    <3>1. k \in 1..Len(s)
      BY <1>0, <1>1, <2>1
    <3>. QED BY <1>1, <2>0, <2>1, <3>1 DEF ValuesFrom
  <2>2. CASE ~(k <= Len(s))
    <3>1. k - Len(s) \in 1..Len(e) /\ p + Len(s) + (k - Len(s)) = p + k
      BY <1>0, <1>1, <2>2
    <3>. QED BY <1>1, <2>0, <2>2, <3>1 DEF ValuesFrom
  <2>. QED BY <2>1, <2>2
<1>3. ValuesFrom(t, p)
  BY <1>1, <1>2 DEF ValuesFrom
<1>. QED BY <1>1, <1>3 DEF t

(* An iterator that is first is also last. *)
LEMMA AloneInFront ==
  ASSUME NEW e, NEW p \in Nat, NEW at, NEW B, Continued(e, p, at, B), e # <<>>, Head(e).kind # "value"
  PROVE  /\ Len(e) = 1 /\ Tail(e) = <<>> /\ Head(e) = e[1] /\ Head(e).ref \in Nat
         /\ Head(e).ref \in B /\ at[Head(e).ref] = p
<1>1. e \in Seq(Element) /\ Len(e) \in Nat /\ Len(e) # 0 /\ 1 \in 1..Len(e) /\ e[1] \in Element
  BY SeqFacts DEF Continued
<1>2. Head(e) = e[1] /\ Head(e).ref \in Nat
  BY <1>1, Elements
<1>3. e[1] # Value(p + 1)
  BY <1>2, Elements
<1>4. 1 = Len(e) /\ GoesOn(e[1], p + Len(e) - 1, at, B)
  BY <1>1, <1>3 DEF Continued
<1>5. Tail(e) = <<>>
  <2>1. Tail(e) \in Seq(Element) /\ Len(Tail(e)) = 0
    BY <1>1, <1>4, HeadTailProperties
  <2>. QED BY <2>1, SeqFacts
<1>6. p + Len(e) - 1 = p
  <2>1. p + 1 - 1 = p
    OBVIOUS
  <2>. QED BY <1>4, <2>1, Zenon
<1>. QED BY <1>2, <1>4, <1>5, <1>6 DEF GoesOn

LEMMA ContinuedToo ==
  ASSUME NEW e, NEW p, NEW at, NEW B, Continued(e, p, at, B),
         NEW at2, NEW B2, \A j \in B : j \in B2 /\ at2[j] = at[j]
  PROVE  Continued(e, p, at2, B2)
<1>1. \A k \in 1..Len(e) : e[k] = Value(p + k) \/ (k = Len(e) /\ GoesOn(e[k], p + Len(e) - 1, at2, B2))
  BY DEF Continued, GoesOn
<1>. QED BY <1>1 DEF Continued

LEMMA ToTheEnd ==
  ASSUME NEW s, NEW p \in Nat, ValuesFrom(s, p), p + Len(s) = Source, NEW at, NEW B
  PROVE  Continued(s, p, at, B)
BY DEF Continued, ValuesFrom

LEMMA ToTheNext ==
  ASSUME NEW i \in Nat, NEW p, NEW at, NEW B, i # None, i \in B, at[i] = p, p \in Nat
  PROVE  Continued(<<Iter(i)>>, p, at, B)
<1>. DEFINE e == <<Iter(i)>>
<1>1. e \in Seq(Element) /\ Len(e) = 1 /\ e[1] = Iter(i) /\ e # <<>>
  BY Elements
<1>. HIDE DEF e
<1>2. GoesOn(Iter(i), p, at, B) /\ Iter(i).kind # "value"
  BY Elements DEF GoesOn
<1>3. p + Len(e) - 1 = p
  BY <1>1
<1>4. Continued(e, p, at, B)
  BY <1>1, <1>2, <1>3 DEF Continued, Ends
<1>. QED BY <1>4 DEF e

LEMMA NothingYet == \A p : ValuesFrom(<<>>, p) /\ Len(<<>>) = 0
BY DEF ValuesFrom

(* What a loop, or a list, has, and what it goes on with. *)
LEMMA WithNext ==
  ASSUME NEW s, NEW p \in Nat, ValuesFrom(s, p), NEW i \in Nat, NEW at, NEW B,
         i = None => p + Len(s) = Source, i # None => i \in B /\ at[i] = p + Len(s)
  PROVE  Continued(s \o NextItem(i), p, at, B)
<1>0. s \in Seq(Element) /\ Len(s) \in Nat
  BY SeqFacts DEF ValuesFrom
<1>1. CASE i = None
  <2>1. s \o NextItem(i) = s
    BY <1>0, <1>1, ConcatEmptySeq DEF NextItem
  <2>. QED BY <1>1, <2>1, ToTheEnd
<1>2. CASE i # None
  <2>1. p + Len(s) \in Nat
    BY <1>0
  <2>2. Continued(<<Iter(i)>>, p + Len(s), at, B)
    BY <1>2, <2>1, ToTheNext
  <2>3. Continued(s \o <<Iter(i)>>, p, at, B)
    BY <2>2, Joined
  <2>. QED BY <1>2, <2>3 DEF NextItem
<1>. QED BY <1>1, <1>2

(* perl6_rpa_find_type stops at the first iterator, or after n elements. *)
LEMMA LeadingIs ==
  ASSUME NEW e \in Seq(Element), NEW n \in Nat
  PROVE  /\ Leading(e, n) \in 0..Len(e) /\ Leading(e, n) <= n
         /\ \A j \in 1..Leading(e, n) : e[j].kind = "value"
         /\ Leading(e, n) < n /\ Leading(e, n) < Len(e) => e[Leading(e, n) + 1].kind # "value"
<1>. DEFINE stops == {i \in 1..Len(e) + 1 : i = Len(e) + 1 \/ e[i].kind # "value"}
            first == CHOOSE i \in stops : \A j \in stops : i <= j
<1>0. Len(e) \in Nat
  OBVIOUS
<1>1. \E i \in stops : \A j \in stops : i <= j
  <2>1. stops \in SUBSET Nat /\ Len(e) + 1 \in stops
    BY <1>0
  <2>. HIDE DEF stops
  <2>. QED BY <2>1, LeastNatural
<1>2. first \in stops /\ \A j \in stops : first <= j
  <2>. HIDE DEF stops
  <2>. QED BY <1>1
<1>3. Leading(e, n) = IF first - 1 < n THEN first - 1 ELSE n
  BY DEF Leading
<1>. HIDE DEF first
<1>4. first \in 1..Len(e) + 1 /\ (first = Len(e) + 1 \/ e[first].kind # "value")
  BY <1>2
<1>5. ASSUME NEW j \in 1..Len(e), j < first PROVE e[j].kind = "value"
  <2>1. j \in 1..Len(e) + 1 /\ ~(first <= j)
    BY <1>0, <1>4, <1>5
  <2>2. j \notin stops
    BY <1>2, <2>1
  <2>. QED BY <2>1, <2>2
<1>. HIDE DEF stops
<1>6. first \in Nat /\ first >= 1 /\ first <= Len(e) + 1
  BY <1>0, <1>4
<1>7. Leading(e, n) \in 0..Len(e) /\ Leading(e, n) <= n /\ Leading(e, n) < first
  BY <1>0, <1>3, <1>6
<1>8. \A j \in 1..Leading(e, n) : j \in 1..Len(e) /\ j < first
  BY <1>0, <1>6, <1>7
<1>9. ASSUME Leading(e, n) < n, Leading(e, n) < Len(e) PROVE e[Leading(e, n) + 1].kind # "value"
  <2>1. Leading(e, n) + 1 = first /\ first # Len(e) + 1
    BY <1>0, <1>3, <1>6, <1>9
  <2>. QED BY <1>4, <2>1
<1>. QED BY <1>5, <1>7, <1>8, <1>9
-----------------------------------------------------------------------------
IterateStep(r, f, x, k) == IF k = 0 THEN x ELSE f[r[k - 1]]
Iterating(r, f, x, n) == r = [k \in 0..n |-> IterateStep(r, f, x, k)]

LEMMA IteratingExists == \A f, x : \A n \in Nat : \E r : Iterating(r, f, x, n)
<1>. SUFFICES ASSUME NEW f, NEW x PROVE \A n \in Nat : \E r : Iterating(r, f, x, n)
  OBVIOUS
<1>. DEFINE T == {n \in Nat : \E r : Iterating(r, f, x, n)}
<1>1. 0 \in T
  <2>. DEFINE r == [k \in 0..0 |-> x]
  <2>1. r = [k \in 0..0 |-> IterateStep(r, f, x, k)]
    BY DEF IterateStep
  <2>. HIDE DEF r
  <2>. QED BY <2>1 DEF Iterating
<1>2. ASSUME NEW n \in Nat, n \in T PROVE n + 1 \in T
  <2>1. PICK r : Iterating(r, f, x, n)
    BY <1>2
  <2>. DEFINE g == [k \in 0..n + 1 |-> IterateStep(r, f, x, k)]
  <2>2. ASSUME NEW k \in 0..n PROVE k \in 0..n + 1 /\ g[k] = r[k]
    <3>1. k \in 0..n + 1
      OBVIOUS
    <3>2. r[k] = IterateStep(r, f, x, k)
      BY <2>1 DEF Iterating
    <3>. QED BY <3>1, <3>2
  <2>3. ASSUME NEW k \in 0..n + 1 PROVE g[k] = IterateStep(g, f, x, k)
    <3>1. g[k] = IterateStep(r, f, x, k)
      OBVIOUS
    <3>2. k # 0 => k - 1 \in 0..n
      OBVIOUS
    <3>3. k # 0 => g[k - 1] = r[k - 1]
      BY <2>2, <3>2
    <3>. HIDE DEF g
    <3>. QED BY <3>1, <3>3 DEF IterateStep
  <2>4. g = [k \in 0..n + 1 |-> g[k]]
    OBVIOUS
  <2>. HIDE DEF g
  <2>5. g = [k \in 0..n + 1 |-> IterateStep(g, f, x, k)]
    BY <2>3, <2>4
  <2>6. n + 1 \in Nat
    OBVIOUS
  <2>. QED BY <2>5, <2>6 DEF Iterating
<1>3. Nat \subseteq T
  <2>. HIDE DEF T
  <2>. QED BY <1>1, <1>2, NaturalInduction
<1>. QED BY <1>3

(* What holds of x and is kept by f holds after any number of rounds. *)
LEMMA IterateKeeps ==
  ASSUME NEW f, NEW x, NEW n \in Nat, NEW S, x \in S[0],
         \A k \in 0..n : k < n => \A y \in S[k] : f[y] \in S[k + 1]
  PROVE  Iterate(f, x, n) \in S[n]
<1>. DEFINE rounds[k \in 0..n] == IF k = 0 THEN x ELSE f[rounds[k - 1]]
<1>1. PICK r : Iterating(r, f, x, n)
  BY IteratingExists
<1>2. r = [k \in 0..n |-> IF k = 0 THEN x ELSE f[r[k - 1]]]
  BY <1>1 DEF Iterating, IterateStep
<1>3. rounds = [k \in 0..n |-> IF k = 0 THEN x ELSE f[rounds[k - 1]]]
  <2>1. rounds = CHOOSE r2 : r2 = [k \in 0..n |-> IF k = 0 THEN x ELSE f[r2[k - 1]]]
    BY Zenon
  <2>. HIDE DEF rounds
  <2>. QED BY <1>2, <2>1, Zenon
<1>4. Iterate(f, x, n) = rounds[n]
  BY DEF Iterate
<1>. HIDE DEF rounds
<1>5. rounds[0] = x /\ \A k \in 1..n : rounds[k] = f[rounds[k - 1]]
  BY <1>3
<1>. DEFINE T == {k \in Nat : k <= n => rounds[k] \in S[k]}
<1>6. 0 \in T
  BY <1>5
<1>7. ASSUME NEW k \in Nat, k \in T PROVE k + 1 \in T
  <2>. SUFFICES ASSUME k + 1 <= n PROVE rounds[k + 1] \in S[k + 1]
    OBVIOUS
  <2>1. k + 1 \in 1..n /\ k + 1 - 1 = k /\ k <= n /\ k \in 0..n /\ k < n
    OBVIOUS
  <2>2. rounds[k] \in S[k]
    BY <1>7, <2>1
  <2>3. rounds[k + 1] = f[rounds[k]]
    BY <1>5, <2>1
  <2>. QED BY <2>1, <2>2, <2>3
<1>8. Nat \subseteq T
  <2>. HIDE DEF T
  <2>. QED BY <1>6, <1>7, NaturalInduction
<1>9. n \in T /\ n <= n
  BY <1>8
<1>. QED BY <1>4, <1>9
-----------------------------------------------------------------------------
(* Where iterators stand: how many values come before what each gives, and
   the list each was made for, 0 for gather blocks. *)
Lower(g, l) == {j \in DOMAIN g.of : g.of[j] < l}
Onward(g, i) == {j \in DOMAIN g.of : g.of[j] = g.of[i] /\ i < j}

Standing(h, g) == g.at \in [1..Len(h.iters) -> Nat] /\ g.of \in [1..Len(h.iters) -> 0..Len(h.lists)]

(* What an iterator was reified to goes on with a later one of the same list;
   what it has yet to reify, with one of a list that was made earlier. *)
IterRight(h, g, i) ==
  LET it == h.iters[i]
  IN  /\ it.gather <=> g.of[i] = 0
      /\ it.reified.done => Continued(it.reified.parcel, g.at[i], g.at, Onward(g, i))
      /\ ~it.reified.done /\ it.gather => g.at[i] = h.coro
      /\ ~it.reified.done /\ ~it.gather =>
           it.list = g.of[i] /\ h.lists[g.of[i]].next = i /\ Continued(it.rest, g.at[i], g.at, Lower(g, g.of[i]))

ListRight(h, g, start, l) ==
  LET list == h.lists[l]
  IN  /\ ValuesFrom(list.items, start[l])
      /\ list.next = None => start[l] + Len(list.items) = Source
      /\ list.next # None => /\ list.next \in 1..Len(h.iters) /\ ~h.iters[list.next].reified.done
                             /\ g.of[list.next] = l /\ g.at[list.next] = start[l] + Len(list.items)

OneGather(h) ==
  \A i, j \in 1..Len(h.iters) :
    h.iters[i].gather /\ ~h.iters[i].reified.done /\ h.iters[j].gather /\ ~h.iters[j].reified.done => i = j

Consistent(h, g, start) ==
  /\ h \in Objects /\ Standing(h, g) /\ start \in [1..Len(h.lists) -> Nat] /\ h.coro <= Source
  /\ \A i \in 1..Len(h.iters) : IterRight(h, g, i)
  /\ \A l \in 1..Len(h.lists) : ListRight(h, g, start, l)
  /\ OneGather(h)

(* Iterators stay where they stand, and lists beyond o, and theirs, as they are. *)
Extends(h, g, h2, g2) ==
  /\ Len(h.iters) <= Len(h2.iters)
  /\ \A j \in 1..Len(h.iters) : g2.at[j] = g.at[j] /\ g2.of[j] = g.of[j]
Carried(h, g, h2, g2, o) ==
  /\ Extends(h, g, h2, g2) /\ Len(h2.lists) = Len(h.lists) /\ h2.endless = h.endless
  /\ \A j \in 1..Len(h.iters) : g.of[j] > o => h2.iters[j] = h.iters[j]
  /\ \A l \in 1..Len(h.lists) : l > o => h2.lists[l] = h.lists[l]

(* What is asked of elements from place p on is within the goal. *)
Wants(h, p, n, goal) ==
  /\ goal \in 0..Source /\ h.coro <= goal
  /\ \/ n = Whatever /\ (h.endless \/ goal = Source)
     \/ n \in Nat /\ n > 0 /\ p + n <= goal

LEMMA ObjectsFields ==
  ASSUME NEW h \in Objects
  PROVE  /\ h.lists \in Seq(ListRecord) /\ h.iters \in Seq(IterRecord) /\ h.coro \in Nat /\ h.endless \in BOOLEAN
         /\ Len(h.lists) \in Nat /\ DOMAIN h.lists = 1..Len(h.lists)
         /\ Len(h.iters) \in Nat /\ DOMAIN h.iters = 1..Len(h.iters)
         /\ \A i \in 1..Len(h.iters) : h.iters[i] \in IterRecord
         /\ \A l \in 1..Len(h.lists) : h.lists[l] \in ListRecord
<1>1. h.lists \in Seq(ListRecord) /\ h.iters \in Seq(IterRecord) /\ h.coro \in Nat /\ h.endless \in BOOLEAN
  BY DEF Objects
<1>2. /\ Len(h.lists) \in Nat /\ DOMAIN h.lists = 1..Len(h.lists)
      /\ \A l \in 1..Len(h.lists) : h.lists[l] \in ListRecord
  BY <1>1, LenProperties, ElementOfSeq
<1>3. /\ Len(h.iters) \in Nat /\ DOMAIN h.iters = 1..Len(h.iters)
      /\ \A i \in 1..Len(h.iters) : h.iters[i] \in IterRecord
  BY <1>1, LenProperties, ElementOfSeq
<1>. QED BY <1>1, <1>2, <1>3

LEMMA IterFields ==
  ASSUME NEW it \in IterRecord
  PROVE  /\ it.gather \in BOOLEAN /\ it.rest \in Seq(Element) /\ it.list \in Nat
         /\ it.reified.done \in BOOLEAN /\ it.reified.parcel \in Seq(Element)
BY DEF IterRecord

LEMMA SetsGrow ==
  ASSUME NEW h, NEW g, NEW h2, NEW g2, Standing(h, g), Standing(h2, g2), Extends(h, g, h2, g2),
         Len(h.iters) \in Nat, Len(h2.iters) \in Nat
  PROVE  /\ \A l : \A j \in Lower(g, l) : j \in Lower(g2, l) /\ g2.at[j] = g.at[j]
         /\ \A i \in 1..Len(h.iters) : \A j \in Onward(g, i) : j \in Onward(g2, i) /\ g2.at[j] = g.at[j]
<1>1. DOMAIN g.of = 1..Len(h.iters) /\ DOMAIN g2.of = 1..Len(h2.iters)
  BY DEF Standing
<1>2. \A j \in 1..Len(h.iters) : j \in 1..Len(h2.iters) /\ g2.at[j] = g.at[j] /\ g2.of[j] = g.of[j]
  BY DEF Extends
<1>. QED BY <1>1, <1>2 DEF Lower, Onward

(* An iterator that stays as it is stays right. *)
LEMMA StaysRight ==
  ASSUME NEW h, NEW g, NEW h2, NEW g2, Standing(h, g), Standing(h2, g2), Extends(h, g, h2, g2),
         Len(h.iters) \in Nat, Len(h2.iters) \in Nat,
         NEW i \in 1..Len(h.iters), IterRight(h, g, i), h2.iters[i] = h.iters[i],
         ~h.iters[i].reified.done /\ h.iters[i].gather => h2.coro = h.coro,
         ~h.iters[i].reified.done /\ ~h.iters[i].gather => h2.lists[g.of[i]].next = i
  PROVE  IterRight(h2, g2, i)
<1>1. g2.at[i] = g.at[i] /\ g2.of[i] = g.of[i]
  BY DEF Extends
<1>2. \A e, p : Continued(e, p, g.at, Onward(g, i)) => Continued(e, p, g2.at, Onward(g2, i))
  <2>1. \A j \in Onward(g, i) : j \in Onward(g2, i) /\ g2.at[j] = g.at[j]
    BY SetsGrow
  <2>. QED BY <2>1, ContinuedToo, Zenon
<1>3. \A e, p, l : Continued(e, p, g.at, Lower(g, l)) => Continued(e, p, g2.at, Lower(g2, l))
  <2>1. \A l : \A j \in Lower(g, l) : j \in Lower(g2, l) /\ g2.at[j] = g.at[j]
    BY SetsGrow
  <2>2. ASSUME NEW l PROVE \A e, p : Continued(e, p, g.at, Lower(g, l)) => Continued(e, p, g2.at, Lower(g2, l))
    <3>1. \A j \in Lower(g, l) : j \in Lower(g2, l) /\ g2.at[j] = g.at[j]
      BY <2>1, Zenon
    <3>. QED BY <3>1, ContinuedToo, Zenon
  <2>. QED BY <2>2, Zenon
<1>. QED BY <1>1, <1>2, <1>3 DEF IterRight

(* Iterator i is done, and perhaps there is a new one. *)
NextIters(s, i, x, new, it) == IF new = None THEN [s EXCEPT ![i] = x] ELSE Append([s EXCEPT ![i] = x], it)
NextStanding(g, n, new, p, l) ==
  IF new = None THEN g
  ELSE [at |-> [j \in 1..n + 1 |-> IF j = n + 1 THEN p ELSE g.at[j]],
        of |-> [j \in 1..n + 1 |-> IF j = n + 1 THEN l ELSE g.of[j]]]

LEMMA NextItersAre ==
  ASSUME NEW s \in Seq(IterRecord), NEW i \in 1..Len(s), NEW x \in IterRecord, NEW it \in IterRecord,
         NEW new, new = None \/ new = Len(s) + 1
  PROVE  LET t == NextIters(s, i, x, new, it)
         IN  /\ t \in Seq(IterRecord) /\ Len(t) = (IF new = None THEN Len(s) ELSE Len(s) + 1)
             /\ t[i] = x /\ \A j \in 1..Len(s) : j # i => t[j] = s[j]
             /\ new # None => t[new] = it
<1>. DEFINE t == NextIters(s, i, x, new, it)
            u == [s EXCEPT ![i] = x]
<1>1. u \in Seq(IterRecord) /\ Len(u) = Len(s) /\ u[i] = x /\ \A j \in 1..Len(s) : j # i => u[j] = s[j]
  BY ExceptSeq
<1>2. t = IF new = None THEN u ELSE Append(u, it)
  BY DEF NextIters
<1>. HIDE DEF t, u
<1>3. /\ t \in Seq(IterRecord) /\ Len(t) = (IF new = None THEN Len(s) ELSE Len(s) + 1)
      /\ t[i] = x /\ (\A j \in 1..Len(s) : j # i => t[j] = s[j])
      /\ new # None => t[new] = it
  <2>1. CASE new = None
    BY <1>1, <1>2, <2>1
  <2>2. CASE new # None
    <3>1. /\ t \in Seq(IterRecord) /\ Len(t) = Len(u) + 1 /\ (\A j \in 1..Len(u) : t[j] = u[j])
          /\ t[Len(u) + 1] = it
      BY <1>1, <1>2, <2>2, AppendProperties
    <3>2. /\ Len(t) = Len(s) + 1 /\ (\A j \in 1..Len(s) : t[j] = u[j]) /\ t[Len(s) + 1] = it
      BY <1>1, <3>1
    <3>. QED BY <1>1, <2>2, <3>1, <3>2
  <2>. QED BY <2>1, <2>2
<1>. QED BY <1>3 DEF t

StandingOn(g, g2, n, k, m, new, p, l) ==
  /\ g2.at \in [1..k -> Nat] /\ g2.of \in [1..k -> 0..m]
  /\ \A j \in 1..n : g2.at[j] = g.at[j] /\ g2.of[j] = g.of[j]
  /\ new # None => g2.at[new] = p /\ g2.of[new] = l

LEMMA NextStandingIs ==
  ASSUME NEW n \in Nat, NEW m \in Nat, NEW g, g.at \in [1..n -> Nat], g.of \in [1..n -> 0..m],
         NEW new, new = None \/ new = n + 1, NEW p \in Nat, NEW l \in 0..m,
         NEW k, k = IF new = None THEN n ELSE n + 1,
         NEW g2, g2 = NextStanding(g, n, new, p, l)
  PROVE  StandingOn(g, g2, n, k, m, new, p, l)
<1>1. CASE new = None
  BY <1>1 DEF NextStanding, StandingOn
<1>2. CASE new # None
  <2>1. /\ \A j \in 1..n : j \in 1..n + 1 /\ j # n + 1
        /\ \A j \in 1..n + 1 : j # n + 1 => j \in 1..n
        /\ n + 1 \in 1..n + 1
    OBVIOUS
  <2>. DEFINE at2 == [j \in 1..n + 1 |-> IF j = n + 1 THEN p ELSE g.at[j]]
              of2 == [j \in 1..n + 1 |-> IF j = n + 1 THEN l ELSE g.of[j]]
  <2>2. at2 \in [1..n + 1 -> Nat] /\ (\A j \in 1..n : at2[j] = g.at[j]) /\ at2[n + 1] = p
    BY <2>1
  <2>3. of2 \in [1..n + 1 -> 0..m] /\ (\A j \in 1..n : of2[j] = g.of[j]) /\ of2[n + 1] = l
    BY <2>1
  <2>4. NextStanding(g, n, new, p, l) = [at |-> at2, of |-> of2]
    BY <1>2 DEF NextStanding
  <2>. HIDE DEF at2, of2
  <2>. QED BY <1>2, <2>2, <2>3, <2>4 DEF StandingOn
<1>. QED BY <1>1, <1>2

(* Iterator i has been reified to the values s, and goes on with new, if there
   is more. *)
Turned(h, h2, i, x, new, it, s) ==
  /\ h2 \in Objects /\ Len(h2.lists) = Len(h.lists) /\ h2.endless = h.endless
  /\ h2.iters = NextIters(h.iters, i, x, new, it) /\ (new = None \/ new = Len(h.iters) + 1)
  /\ x \in IterRecord /\ x.reified = Parcel(s \o NextItem(new)) /\ x.gather = h.iters[i].gather
  /\ it \in IterRecord /\ ~it.reified.done /\ it.gather = h.iters[i].gather

ItersAfter(h, h2, i, x, new, it) ==
  /\ Len(h2.iters) \in Nat /\ Len(h2.iters) = (IF new = None THEN Len(h.iters) ELSE Len(h.iters) + 1)
  /\ h2.iters[i] = x /\ (\A j \in 1..Len(h.iters) : j # i => h2.iters[j] = h.iters[j])
  /\ new # None => h2.iters[new] = it
  /\ i \in 1..Len(h2.iters) /\ new \in Nat
  /\ \A j \in 1..Len(h2.iters) : j \in 1..Len(h.iters) \/ (j = new /\ new # None)
  /\ \A j \in 1..Len(h.iters) : j # new

LEMMA TurnedIters ==
  ASSUME NEW h \in Objects, NEW h2, NEW i \in 1..Len(h.iters), NEW x, NEW new, NEW it, NEW s,
         Turned(h, h2, i, x, new, it, s)
  PROVE  ItersAfter(h, h2, i, x, new, it)
<1>1. h.iters \in Seq(IterRecord) /\ Len(h.iters) \in Nat
  BY ObjectsFields
<1>2. /\ h2.iters = NextIters(h.iters, i, x, new, it) /\ (new = None \/ new = Len(h.iters) + 1)
      /\ x \in IterRecord /\ it \in IterRecord
  BY DEF Turned
<1>3. /\ Len(h2.iters) = (IF new = None THEN Len(h.iters) ELSE Len(h.iters) + 1)
      /\ h2.iters[i] = x /\ (\A j \in 1..Len(h.iters) : j # i => h2.iters[j] = h.iters[j])
      /\ new # None => h2.iters[new] = it
  BY <1>1, <1>2, NextItersAre
<1>4. ASSUME NEW n \in Nat, NEW m, new = None \/ new = n + 1, m = (IF new = None THEN n ELSE n + 1), i \in 1..n
      PROVE  /\ m \in Nat /\ i \in 1..m /\ new \in Nat
             /\ \A j \in 1..m : j \in 1..n \/ (j = new /\ new # None)
             /\ \A j \in 1..n : j # new
  <2>1. CASE new = None
    <3>1. m = n /\ new = 0 /\ \A j \in 1..n : j # 0
      BY <1>4, <2>1 DEF None
    <3>. QED BY <1>4, <3>1
  <2>2. CASE new = n + 1
    <3>1. new # None
      BY <2>2 DEF None
    <3>2. m = n + 1
      BY <1>4, <3>1
    <3>3. n + 1 \in Nat /\ i \in 1..n + 1 /\ (\A j \in 1..n + 1 : j \in 1..n \/ j = n + 1) /\ \A j \in 1..n : j # n + 1
      BY <1>4
    <3>. QED BY <2>2, <3>1, <3>2, <3>3
  <2>. QED BY <1>4, <2>1, <2>2
<1>5. /\ Len(h2.iters) \in Nat /\ i \in 1..Len(h2.iters) /\ new \in Nat
      /\ \A j \in 1..Len(h2.iters) : j \in 1..Len(h.iters) \/ (j = new /\ new # None)
      /\ \A j \in 1..Len(h.iters) : j # new
  BY <1>1, <1>2, <1>3, <1>4, Zenon
<1>. QED BY <1>3, <1>5 DEF ItersAfter

(* What is left to show of the objects afterwards: the elements before the new
   iterator are n in all. *)
Remaining(h, g, h2, g2, start, i, new, it, n) ==
  /\ new = None => n = Source
  /\ h2.coro <= Source /\ (h.iters[i].gather \/ h2.coro = h.coro)
  /\ \A j \in 1..Len(h.iters) : j # i /\ ~h.iters[j].reified.done /\ ~h.iters[j].gather =>
                                    h2.lists[g.of[j]].next = j
  /\ new # None => IF it.gather THEN h2.coro = n
                   ELSE /\ it.list = g.of[i] /\ h2.lists[g.of[i]].next = new
                        /\ Continued(it.rest, n, g.at, Lower(g, g.of[i]))
  /\ \A l \in 1..Len(h.lists) : Extends(h, g, h2, g2) => ListRight(h2, g2, start, l)

LEMMA TurnedRight ==
  ASSUME NEW h, NEW g, NEW start, Consistent(h, g, start), NEW i \in 1..Len(h.iters), ~h.iters[i].reified.done,
         NEW h2, NEW x, NEW new, NEW it, NEW s, Turned(h, h2, i, x, new, it, s), ValuesFrom(s, g.at[i]),
         NEW g2, g2 = NextStanding(g, Len(h.iters), new, g.at[i] + Len(s), g.of[i]),
         Remaining(h, g, h2, g2, start, i, new, it, g.at[i] + Len(s))
  PROVE  Consistent(h2, g2, start) /\ Extends(h, g, h2, g2)
<1>0. /\ h \in Objects /\ Standing(h, g) /\ start \in [1..Len(h.lists) -> Nat]
      /\ (\A j \in 1..Len(h.iters) : IterRight(h, g, j)) /\ OneGather(h)
  BY DEF Consistent
<1>1. /\ Len(h.iters) \in Nat /\ Len(h.lists) \in Nat
      /\ \A j \in 1..Len(h.iters) : h.iters[j] \in IterRecord
  BY <1>0, ObjectsFields
<1>2. /\ h2 \in Objects /\ Len(h2.lists) = Len(h.lists) /\ (new = None \/ new = Len(h.iters) + 1)
      /\ x.reified = Parcel(s \o NextItem(new)) /\ x.gather = h.iters[i].gather
      /\ ~it.reified.done /\ it.gather = h.iters[i].gather
  BY DEF Turned
<1>3. /\ Len(h2.iters) \in Nat /\ Len(h2.iters) = (IF new = None THEN Len(h.iters) ELSE Len(h.iters) + 1)
      /\ h2.iters[i] = x /\ (\A j \in 1..Len(h.iters) : j # i => h2.iters[j] = h.iters[j])
      /\ new # None => h2.iters[new] = it
      /\ i \in 1..Len(h2.iters) /\ new \in Nat
      /\ \A j \in 1..Len(h2.iters) : j \in 1..Len(h.iters) \/ (j = new /\ new # None)
      /\ \A j \in 1..Len(h.iters) : j # new
  <2>1. h \in Objects
    BY <1>0
  <2>2. ItersAfter(h, h2, i, x, new, it)
    BY <2>1, TurnedIters, Zenon
  <2>. QED BY <2>2 DEF ItersAfter
<1>4. g.at[i] \in Nat /\ g.of[i] \in 0..Len(h.lists) /\ s \in Seq(Element) /\ Len(s) \in Nat
  BY <1>0, SeqFacts DEF Standing, ValuesFrom
<1>5. /\ Standing(h2, g2) /\ Extends(h, g, h2, g2)
      /\ new # None => g2.at[new] = g.at[i] + Len(s) /\ g2.of[new] = g.of[i]
  <2>1. g.at[i] + Len(s) \in Nat
    BY <1>4
  <2>2. /\ g2.at \in [1..Len(h2.iters) -> Nat] /\ g2.of \in [1..Len(h2.iters) -> 0..Len(h.lists)]
        /\ \A j \in 1..Len(h.iters) : g2.at[j] = g.at[j] /\ g2.of[j] = g.of[j]
        /\ new # None => g2.at[new] = g.at[i] + Len(s) /\ g2.of[new] = g.of[i]
    <3>1. g.at \in [1..Len(h.iters) -> Nat] /\ g.of \in [1..Len(h.iters) -> 0..Len(h.lists)]
      BY <1>0 DEF Standing
    <3>2. new = None \/ new = Len(h.iters) + 1
      BY <1>2
    <3>3. Len(h2.iters) = IF new = None THEN Len(h.iters) ELSE Len(h.iters) + 1
      BY <1>3
    <3>4. StandingOn(g, g2, Len(h.iters), Len(h2.iters), Len(h.lists), new, g.at[i] + Len(s), g.of[i])
      BY <1>1, <1>4, <2>1, <3>1, <3>2, <3>3, NextStandingIs, Zenon
    <3>. QED BY <3>4 DEF StandingOn
  <2>3. /\ g2.at \in [1..Len(h2.iters) -> Nat] /\ g2.of \in [1..Len(h2.iters) -> 0..Len(h2.lists)]
        /\ \A j \in 1..Len(h.iters) : g2.at[j] = g.at[j] /\ g2.of[j] = g.of[j]
        /\ new # None => g2.at[new] = g.at[i] + Len(s) /\ g2.of[new] = g.of[i]
    BY <1>2, <1>3, <2>2
  <2>4. Len(h.iters) <= Len(h2.iters)
    BY <1>1, <1>3
  <2>. QED BY <2>3, <2>4 DEF Standing, Extends
<1>6. ASSUME NEW j \in 1..Len(h.iters), j # i PROVE IterRight(h2, g2, j)
  <2>1. h2.iters[j] = h.iters[j] /\ IterRight(h, g, j)
    BY <1>0, <1>3, <1>6
  <2>2. ~h.iters[j].reified.done /\ h.iters[j].gather => h2.coro = h.coro
    BY <1>0, <1>6 DEF OneGather, Remaining
  <2>3. ~h.iters[j].reified.done /\ ~h.iters[j].gather => h2.lists[g.of[j]].next = j
    BY <1>6 DEF Remaining
  <2>. QED BY <1>0, <1>1, <1>3, <1>5, <2>1, <2>2, <2>3, StaysRight
<1>7. IterRight(h2, g2, i)
  <2>1. g2.at[i] = g.at[i] /\ g2.of[i] = g.of[i] /\ (x.gather <=> g.of[i] = 0)
    BY <1>0, <1>2, <1>5 DEF IterRight, Extends
  <2>2. x.reified.done /\ x.reified.parcel = s \o NextItem(new)
    BY <1>2 DEF Parcel
  <2>3. new # None => new \in Onward(g2, i)
    <3>1. new # None => new \in 1..Len(h2.iters) /\ i < new
      BY <1>1, <1>2, <1>3
    <3>2. DOMAIN g2.of = 1..Len(h2.iters)
      BY <1>5 DEF Standing
    <3>. QED BY <1>5, <2>1, <3>1, <3>2 DEF Onward
  <2>4. Continued(s \o NextItem(new), g.at[i], g2.at, Onward(g2, i))
    <3>1. (new = None => g.at[i] + Len(s) = Source) /\ (new # None => new \in Onward(g2, i) /\ g2.at[new] = g.at[i] + Len(s))
      BY <1>5, <2>3 DEF Remaining
    <3>. QED BY <1>3, <1>4, <3>1, WithNext
  <2>. QED BY <1>3, <2>1, <2>2, <2>4 DEF IterRight
<1>8. ASSUME new # None PROVE IterRight(h2, g2, new)
  <2>1. it.gather <=> g.of[i] = 0
    BY <1>0, <1>2 DEF IterRight
  <2>2. Continued(it.rest, g.at[i] + Len(s), g.at, Lower(g, g.of[i])) =>
          Continued(it.rest, g.at[i] + Len(s), g2.at, Lower(g2, g.of[i]))
    <3>1. \A l : \A j \in Lower(g, l) : j \in Lower(g2, l) /\ g2.at[j] = g.at[j]
      BY <1>0, <1>1, <1>3, <1>5, SetsGrow
    <3>2. \A l, e, p : Continued(e, p, g.at, Lower(g, l)) => Continued(e, p, g2.at, Lower(g2, l))
      BY <3>1, ContinuedToo, Zenon
    <3>. QED BY <3>2, Zenon
  <2>3. IF it.gather THEN h2.coro = g.at[i] + Len(s)
        ELSE /\ it.list = g.of[i] /\ h2.lists[g.of[i]].next = new
             /\ Continued(it.rest, g.at[i] + Len(s), g.at, Lower(g, g.of[i]))
    BY <1>8 DEF Remaining
  <2>. QED BY <1>2, <1>3, <1>5, <1>8, <2>1, <2>2, <2>3 DEF IterRight
<1>9. \A j \in 1..Len(h2.iters) : IterRight(h2, g2, j)
  BY <1>3, <1>6, <1>7, <1>8
<1>10. OneGather(h2)
  <2>. SUFFICES ASSUME NEW a \in 1..Len(h2.iters), NEW b \in 1..Len(h2.iters),
                       h2.iters[a].gather, ~h2.iters[a].reified.done, h2.iters[b].gather, ~h2.iters[b].reified.done
                PROVE  a = b
    BY DEF OneGather
  <2>1. a # i /\ b # i
    BY <1>2, <1>3 DEF Parcel
  <2>2. CASE h.iters[i].gather
    <3>1. ASSUME NEW c \in 1..Len(h2.iters), c # i, h2.iters[c].gather, ~h2.iters[c].reified.done PROVE c = new
      <4>. SUFFICES ASSUME c \in 1..Len(h.iters) PROVE FALSE
        BY <1>3
      <4>1. h2.iters[c] = h.iters[c]
        BY <1>3, <3>1
      <4>. QED BY <1>0, <2>2, <3>1, <4>1 DEF OneGather
    <3>. QED BY <2>1, <3>1
  <2>3. CASE ~h.iters[i].gather
    <3>1. ASSUME NEW c \in 1..Len(h2.iters), c # i, h2.iters[c].gather
          PROVE  c \in 1..Len(h.iters) /\ h2.iters[c] = h.iters[c]
      BY <1>2, <1>3, <2>3, <3>1
    <3>. QED BY <1>0, <2>1, <3>1 DEF OneGather
  <2>. QED BY <2>2, <2>3
<1>11. \A l \in 1..Len(h2.lists) : ListRight(h2, g2, start, l)
  BY <1>2, <1>5 DEF Remaining
<1>12. h2.coro <= Source
  BY DEF Remaining
<1>. QED BY <1>0, <1>2, <1>5, <1>12, <1>9, <1>10, <1>11 DEF Consistent

LEMMA ListStays ==
  ASSUME NEW h, NEW g, NEW start, NEW l, ListRight(h, g, start, l), NEW h2, NEW g2, Extends(h, g, h2, g2),
         Len(h.iters) \in Nat, Len(h2.iters) \in Nat, h2.lists[l] = h.lists[l],
         h.lists[l].next # None => h2.iters[h.lists[l].next] = h.iters[h.lists[l].next]
  PROVE  ListRight(h2, g2, start, l)
<1>1. \A j \in 1..Len(h.iters) : j \in 1..Len(h2.iters) /\ g2.at[j] = g.at[j] /\ g2.of[j] = g.of[j]
  BY DEF Extends
<1>. QED BY <1>1 DEF ListRight

(* The objects after iterator i has been reified. *)
Reached(h, g, h2, g2, start, i, goal) ==
  /\ Consistent(h2, g2, start) /\ Carried(h, g, h2, g2, g.of[i])
  /\ h2.coro <= goal /\ h2.iters[i].reified.done

LEMMA WithNextTyped == \A s \in Seq(Element), new \in Nat : s \o NextItem(new) \in Seq(Element)
<1>1. \A new \in Nat : NextItem(new) \in Seq(Element)
  BY Elements DEF NextItem
<1>. QED BY <1>1, ConcatProperties

DoneWith(x, it, p) == x \in IterRecord /\ x.reified = Parcel(p) /\ x.gather = it.gather
NewOver(x, r, l) == x \in IterRecord /\ ~x.gather /\ ~x.reified.done /\ x.rest = r /\ x.list = l

LEMMA DoneFields ==
  \A it \in IterRecord, p \in Seq(Element) :
    /\ DoneWith([it EXCEPT !.reified = Parcel(p)], it, p)
    /\ DoneWith([it EXCEPT !.reified = Parcel(p), !.rest = <<>>, !.list = None], it, p)
<1>. \A p \in Seq(Element) : Parcel(p) \in [done : BOOLEAN, parcel : Seq(Element)]
  BY DEF Parcel
<1>. <<>> \in Seq(Element) /\ None \in Nat
  BY DEF None
<1>. QED BY DEF IterRecord, DoneWith

LEMMA NewFields ==
  /\ GatherIter \in IterRecord /\ GatherIter.gather /\ ~GatherIter.reified.done
  /\ \A r \in Seq(Element), l \in Nat : NewOver(ListIter(r, l), r, l)
<1>. <<>> \in Seq(Element) /\ None \in Nat
  BY DEF None
<1>. QED BY DEF IterRecord, NewOver, GatherIter, ListIter, NotReified

(* The coroutine is resumed for each value that is asked for. *)
LEMMA GatherRight ==
  ASSUME NEW h, NEW g, NEW start, Consistent(h, g, start),
         NEW i \in 1..Len(h.iters), h.iters[i].gather, ~h.iters[i].reified.done,
         NEW n, NEW goal, Wants(h, g.at[i], n, goal), n = Whatever => ~h.endless
  PROVE  \E g2 : Reached(h, g, ReifyGather(h, i, n), g2, start, i, goal)
<1>0. /\ h \in Objects /\ Standing(h, g) /\ h.coro <= Source
      /\ (\A j \in 1..Len(h.iters) : IterRight(h, g, j))
      /\ (\A l \in 1..Len(h.lists) : ListRight(h, g, start, l)) /\ OneGather(h)
  BY DEF Consistent
<1>1. /\ h.lists \in Seq(ListRecord) /\ h.iters \in Seq(IterRecord) /\ h.coro \in Nat /\ h.endless \in BOOLEAN
      /\ Len(h.iters) \in Nat /\ Len(h.lists) \in Nat /\ h.iters[i] \in IterRecord
  BY <1>0, ObjectsFields
<1>2. g.at[i] = h.coro /\ g.of[i] = 0
  BY <1>0 DEF IterRight
<1>. DEFINE count == IF n = Whatever THEN 1 ELSE n
            left == IF h.endless THEN count ELSE Source - h.coro
            got == IF count < left THEN count ELSE left
            ended == left < count
            new == IF ended THEN None ELSE Len(h.iters) + 1
            s == [k \in 1..got |-> Value(h.coro + k)]
            x == [h.iters[i] EXCEPT !.reified = Parcel(s \o NextItem(new))]
            h2 == [h EXCEPT !.coro = @ + got, !.iters = NextIters(h.iters, i, x, new, GatherIter)]
<1>3. ReifyGather(h, i, n) = h2
  <2>1. Len(h.iters) + 1 # 0
    BY <1>1
  <2>2. NextItem(new) = IF ended THEN <<>> ELSE <<Iter(Len(h.iters) + 1)>>
    <3>. HIDE DEF ended
    <3>. QED BY <2>1 DEF NextItem, None
  <2>. DEFINE it == [h.iters EXCEPT ![i].reified = Parcel(s \o (IF ended THEN <<>> ELSE <<Iter(Len(h.iters) + 1)>>))]
  <2>3. ReifyGather(h, i, n) = [h EXCEPT !.coro = @ + got, !.iters = IF ended THEN it ELSE Append(it, GatherIter)]
    BY DEF ReifyGather
  <2>4. it = [h.iters EXCEPT ![i] = x]
    <3>. HIDE DEF ended, new, s
    <3>. QED BY <2>2
  <2>5. NextIters(h.iters, i, x, new, GatherIter) = IF ended THEN it ELSE Append(it, GatherIter)
    <3>1. new = None <=> ended
      <4>. HIDE DEF ended
      <4>. QED BY <2>1 DEF None
    <3>. HIDE DEF ended, it, x, new
    <3>. QED BY <2>4, <3>1 DEF NextIters
  <2>. HIDE DEF ended, it, x, new
  <2>. QED BY <2>3, <2>5
<1>4. /\ got \in Nat /\ h.coro + got <= goal /\ h.coro + got <= Source /\ h.coro + got \in Nat
      /\ (new = None => h.coro + got = Source) /\ new \in Nat /\ (new = None \/ new = Len(h.iters) + 1)
  <2>1. goal \in 0..Source /\ h.coro <= goal /\ Source \in Nat
    BY LazyListAssumption DEF Wants
  <2>2. count \in Nat /\ count > 0 /\ (n = Whatever => goal = Source /\ ~h.endless) /\ (n # Whatever => h.coro + count <= goal)
    BY <1>2 DEF Wants, Whatever
  <2>. HIDE DEF count
  <2>3. left \in Nat /\ (h.endless => left = count) /\ (~h.endless => h.coro + left = Source)
    BY <1>0, <1>1, <2>1, <2>2
  <2>. HIDE DEF left
  <2>4. got \in Nat /\ h.coro + got <= goal /\ (ended => ~h.endless /\ got = left)
    BY <1>1, <2>1, <2>2, <2>3
  <2>. HIDE DEF got, ended
  <2>5. h.coro + got <= Source /\ h.coro + got \in Nat /\ (ended => h.coro + got = Source)
    BY <1>1, <2>1, <2>3, <2>4
  <2>6. new \in Nat /\ (new = None \/ new = Len(h.iters) + 1) /\ (new = None => ended)
    BY <1>1 DEF None
  <2>. QED BY <2>4, <2>5, <2>6
<1>. HIDE DEF got, new
<1>5. ValuesFrom(s, g.at[i]) /\ Len(s) = got
  <2>1. s \in Seq(Element) /\ Len(s) = got /\ \A k \in 1..got : s[k] = Value(h.coro + k)
    <3>1. \A k \in 1..got : Value(h.coro + k) \in Element
      BY <1>1, <1>4, Elements
    <3>. QED BY <1>4, <3>1
  <2>. HIDE DEF s
  <2>. QED BY <1>2, <2>1 DEF ValuesFrom
<1>. HIDE DEF s
<1>6. s \in Seq(Element)
  BY <1>5 DEF ValuesFrom
<1>7. s \o NextItem(new) \in Seq(Element)
  BY <1>4, <1>6, WithNextTyped, Zenon
<1>8. x \in IterRecord /\ x.reified = Parcel(s \o NextItem(new)) /\ x.gather = h.iters[i].gather
  <2>1. DoneWith(x, h.iters[i], s \o NextItem(new))
    BY <1>1, <1>7, DoneFields, Zenon
  <2>. QED BY <2>1 DEF DoneWith
<1>9. GatherIter \in IterRecord /\ GatherIter.gather /\ ~GatherIter.reified.done
  BY NewFields, Zenon
<1>. HIDE DEF x
<1>10. NextIters(h.iters, i, x, new, GatherIter) \in Seq(IterRecord)
  BY <1>1, <1>4, <1>8, <1>9, NextItersAre
<1>11. /\ h2 \in Objects /\ h2.lists = h.lists /\ h2.endless = h.endless /\ h2.coro = h.coro + got
       /\ h2.iters = NextIters(h.iters, i, x, new, GatherIter)
  BY <1>0, <1>1, <1>4, <1>10 DEF Objects
<1>. HIDE DEF h2
<1>12. Turned(h, h2, i, x, new, GatherIter, s)
  BY <1>4, <1>8, <1>9, <1>11 DEF Turned
<1>13. ItersAfter(h, h2, i, x, new, GatherIter)
  BY <1>0, <1>12, TurnedIters
<1>14. /\ Len(h2.iters) \in Nat /\ h2.iters[i] = x
       /\ \A j \in 1..Len(h.iters) : j # i => h2.iters[j] = h.iters[j]
  BY <1>13 DEF ItersAfter
<1>. DEFINE g2 == NextStanding(g, Len(h.iters), new, g.at[i] + Len(s), g.of[i])
<1>. HIDE DEF g2
<1>15. ASSUME NEW l \in 1..Len(h.lists), Extends(h, g, h2, g2) PROVE ListRight(h2, g2, start, l)
  <2>1. ListRight(h, g, start, l)
    BY <1>0
  <2>2. h.lists[l].next # None => h2.iters[h.lists[l].next] = h.iters[h.lists[l].next]
    <3>1. h.lists[l].next # None => h.lists[l].next \in 1..Len(h.iters) /\ g.of[h.lists[l].next] = l
      BY <2>1 DEF ListRight
    <3>2. l # 0
      BY <1>1
    <3>. QED BY <1>2, <1>14, <3>1, <3>2
  <2>3. h2.lists[l] = h.lists[l]
    BY <1>11
  <2>. QED BY <1>1, <1>14, <1>15, <2>1, <2>2, <2>3, ListStays
<1>16. Remaining(h, g, h2, g2, start, i, new, GatherIter, g.at[i] + Len(s))
  <2>1. \A j \in 1..Len(h.iters) : j # i /\ ~h.iters[j].reified.done /\ ~h.iters[j].gather =>
                                      h2.lists[g.of[j]].next = j
    BY <1>0, <1>11 DEF IterRight
  <2>2. g.at[i] + Len(s) = h.coro + got
    BY <1>2, <1>5
  <2>. QED BY <1>4, <1>9, <1>11, <1>15, <2>1, <2>2 DEF Remaining
<1>17. Consistent(h2, g2, start) /\ Extends(h, g, h2, g2)
  BY <1>5, <1>12, <1>16, TurnedRight DEF g2
<1>18. Carried(h, g, h2, g2, g.of[i])
  <2>1. \A j \in 1..Len(h.iters) : g.of[j] > g.of[i] => h2.iters[j] = h.iters[j]
    <3>1. \A j \in 1..Len(h.iters) : g.of[j] > g.of[i] => j # i
      BY <1>2
    <3>. QED BY <1>14, <3>1
  <2>. QED BY <1>11, <1>17, <2>1 DEF Carried
<1>19. h2.coro <= goal /\ h2.iters[i].reified.done
  BY <1>4, <1>8, <1>11, <1>14 DEF Parcel
<1>20. Reached(h, g, h2, g2, start, i, goal)
  BY <1>17, <1>18, <1>19 DEF Reached
<1>. QED BY <1>3, <1>20

(* An iterator over a list, done with what its loop has taken. *)
Finished(h1, i, l, taken, rest) ==
  LET new == IF rest = <<>> THEN None ELSE Len(h1.iters) + 1
      own == [h1.iters EXCEPT ![i] =
                [@ EXCEPT !.reified = Parcel(taken \o NextItem(new)), !.rest = <<>>, !.list = None]]
  IN  [h1 EXCEPT !.iters = IF new = None THEN own ELSE Append(own, ListIter(rest, l)),
                 !.lists[l].items = @ \o taken, !.lists[l].next = new]

FinishedAs(h1, h2, i, l, x, new, taken, rest) ==
  /\ Turned(h1, h2, i, x, new, ListIter(rest, l), taken)
  /\ h2.coro = h1.coro /\ h2.lists[l].items = h1.lists[l].items \o taken /\ h2.lists[l].next = new
  /\ \A m \in 1..Len(h1.lists) : m # l => h2.lists[m] = h1.lists[m]
  /\ ~ListIter(rest, l).gather /\ ListIter(rest, l).rest = rest /\ ListIter(rest, l).list = l

LEMMA FinishedFields ==
  ASSUME NEW h1 \in Objects, NEW i \in 1..Len(h1.iters), ~h1.iters[i].gather, NEW l \in 1..Len(h1.lists),
         NEW taken \in Seq(Element), NEW rest \in Seq(Element),
         NEW new, new = IF rest = <<>> THEN None ELSE Len(h1.iters) + 1,
         NEW x, x = [h1.iters[i] EXCEPT !.reified = Parcel(taken \o NextItem(new)), !.rest = <<>>, !.list = None],
         NEW h2, h2 = Finished(h1, i, l, taken, rest)
  PROVE  FinishedAs(h1, h2, i, l, x, new, taken, rest)
<1>1. /\ h1.lists \in Seq(ListRecord) /\ h1.iters \in Seq(IterRecord) /\ h1.coro \in Nat /\ h1.endless \in BOOLEAN
      /\ Len(h1.iters) \in Nat /\ Len(h1.lists) \in Nat /\ h1.iters[i] \in IterRecord
      /\ h1.lists[l] \in ListRecord
  BY ObjectsFields
<1>2. new \in Nat /\ (new = None \/ new = Len(h1.iters) + 1)
  BY <1>1 DEF None
<1>3. taken \o NextItem(new) \in Seq(Element) /\ l \in Nat
  <2>1. taken \o NextItem(new) \in Seq(Element)
    BY <1>2, WithNextTyped, Zenon
  <2>. QED BY <1>1, <2>1
<1>4. x \in IterRecord /\ x.reified = Parcel(taken \o NextItem(new)) /\ x.gather = h1.iters[i].gather
  <2>1. DoneWith(x, h1.iters[i], taken \o NextItem(new))
    BY <1>1, <1>3, DoneFields, Zenon
  <2>. QED BY <2>1 DEF DoneWith
<1>. DEFINE it == ListIter(rest, l)
<1>5. it \in IterRecord /\ ~it.gather /\ ~it.reified.done /\ it.rest = rest /\ it.list = l
  <2>1. NewOver(it, rest, l)
    BY <1>3, NewFields, Zenon
  <2>. QED BY <2>1 DEF NewOver
<1>. DEFINE items == h1.lists[l].items \o taken
            list == [h1.lists[l] EXCEPT !.items = items, !.next = new]
            lists == [h1.lists EXCEPT ![l] = list]
            iters == NextIters(h1.iters, i, x, new, it)
<1>6. h2 = [h1 EXCEPT !.iters = iters, !.lists = lists]
  <2>1. h2 = [h1 EXCEPT !.iters = IF new = None THEN [h1.iters EXCEPT ![i] = x]
                                  ELSE Append([h1.iters EXCEPT ![i] = x], it),
                        !.lists[l].items = @ \o taken, !.lists[l].next = new]
    BY DEF Finished
  <2>2. iters = IF new = None THEN [h1.iters EXCEPT ![i] = x] ELSE Append([h1.iters EXCEPT ![i] = x], it)
    BY DEF NextIters
  <2>. DEFINE first == [h1.lists EXCEPT ![l].items = @ \o taken]
  <2>3. [first EXCEPT ![l].next = new] = lists
    BY <1>1 DEF ListRecord
  <2>4. h2 = [h1 EXCEPT !.iters = iters, !.lists = [first EXCEPT ![l].next = new]]
    <3>. HIDE DEF it, iters
    <3>. QED BY <1>1, <2>1, <2>2 DEF Objects
  <2>. QED BY <2>3, <2>4
<1>. HIDE DEF it
<1>7. iters \in Seq(IterRecord)
  BY <1>1, <1>2, <1>4, <1>5, NextItersAre
<1>8. items \in Seq(Element)
  BY <1>1, ConcatProperties DEF ListRecord
<1>. HIDE DEF items, iters
<1>9. list \in ListRecord /\ list.items = items /\ list.next = new
  BY <1>1, <1>2, <1>8 DEF ListRecord
<1>. HIDE DEF list
<1>10. /\ lists \in Seq(ListRecord) /\ Len(lists) = Len(h1.lists) /\ lists[l] = list
       /\ \A m \in 1..Len(h1.lists) : m # l => lists[m] = h1.lists[m]
  BY <1>1, <1>9, ExceptSeq
<1>. HIDE DEF lists
<1>11. /\ h2 \in Objects /\ h2.lists = lists /\ h2.iters = iters /\ h2.coro = h1.coro /\ h2.endless = h1.endless
  BY <1>1, <1>6, <1>7, <1>10 DEF Objects
<1>12. Turned(h1, h2, i, x, new, it, taken)
  BY <1>2, <1>4, <1>5, <1>10, <1>11, IterFields DEF Turned, iters
<1>13. /\ h2.coro = h1.coro /\ h2.lists[l].items = h1.lists[l].items \o taken /\ h2.lists[l].next = new
       /\ \A m \in 1..Len(h1.lists) : m # l => h2.lists[m] = h1.lists[m]
  BY <1>9, <1>10, <1>11 DEF items
<1>. QED BY <1>5, <1>12, <1>13 DEF it, FinishedAs

(* An iterator over a list gives what the loop has taken from its rest to the
   list that it belongs to. *)
LEMMA FinishedRight ==
  ASSUME NEW h, NEW g, NEW start, Consistent(h, g, start),
         NEW i \in 1..Len(h.iters), ~h.iters[i].gather, ~h.iters[i].reified.done,
         NEW l, l = g.of[i], NEW taken, NEW rest, NEW goal,
         ValuesFrom(taken, g.at[i]), Continued(rest, g.at[i] + Len(taken), g.at, Lower(g, l))
  PROVE  \E g2 : /\ Consistent(Finished(h, i, l, taken, rest), g2, start)
                 /\ Carried(h, g, Finished(h, i, l, taken, rest), g2, l)
                 /\ Finished(h, i, l, taken, rest).coro = h.coro
                 /\ Finished(h, i, l, taken, rest).iters[i].reified.done
<1>0. /\ h \in Objects /\ Standing(h, g) /\ h.coro <= Source /\ start \in [1..Len(h.lists) -> Nat]
      /\ (\A j \in 1..Len(h.iters) : IterRight(h, g, j))
      /\ (\A m \in 1..Len(h.lists) : ListRight(h, g, start, m)) /\ OneGather(h)
  BY DEF Consistent
<1>1. /\ Len(h.iters) \in Nat /\ Len(h.lists) \in Nat /\ h.iters[i] \in IterRecord
  BY <1>0, ObjectsFields
<1>2. /\ g.of[i] # 0 /\ h.iters[i].list = l /\ h.lists[l].next = i
      /\ g.at[i] \in Nat /\ g.of[i] \in 0..Len(h.lists)
  BY <1>0 DEF IterRight, Standing
<1>3. l \in 1..Len(h.lists)
  BY <1>1, <1>2
<1>4. taken \in Seq(Element) /\ rest \in Seq(Element) /\ Len(taken) \in Nat
  BY SeqFacts DEF ValuesFrom, Continued
<1>. DEFINE new == IF rest = <<>> THEN None ELSE Len(h.iters) + 1
            x == [h.iters[i] EXCEPT !.reified = Parcel(taken \o NextItem(new)), !.rest = <<>>, !.list = None]
            h2 == Finished(h, i, l, taken, rest)
            it == ListIter(rest, l)
            g2 == NextStanding(g, Len(h.iters), new, g.at[i] + Len(taken), g.of[i])
<1>5. /\ Turned(h, h2, i, x, new, it, taken)
      /\ h2.coro = h.coro /\ h2.lists[l].items = h.lists[l].items \o taken /\ h2.lists[l].next = new
      /\ \A m \in 1..Len(h.lists) : m # l => h2.lists[m] = h.lists[m]
      /\ ~it.gather /\ it.rest = rest /\ it.list = l
  <2>1. FinishedAs(h, h2, i, l, x, new, taken, rest)
    BY <1>0, <1>3, <1>4, FinishedFields, Zenon
  <2>. HIDE DEF h2, x, new
  <2>. QED BY <2>1 DEF FinishedAs
<1>6. Turned(h, h2, i, x, new, it, taken)
  BY <1>5
<1>7. new \in Nat /\ (new = None \/ new = Len(h.iters) + 1) /\ (new = None => rest = <<>>)
  BY <1>1 DEF None
<1>8. x.reified.done
  BY DEF Parcel
<1>. HIDE DEF new, x, h2, it, g2
<1>9. ItersAfter(h, h2, i, x, new, it)
  BY <1>0, <1>6, TurnedIters
<1>10. /\ Len(h2.iters) \in Nat /\ h2.iters[i] = x /\ Len(h2.iters) = IF new = None THEN Len(h.iters) ELSE Len(h.iters) + 1
       /\ \A j \in 1..Len(h.iters) : j # i => h2.iters[j] = h.iters[j]
       /\ new # None => h2.iters[new] = it
  BY <1>9 DEF ItersAfter
<1>11. StandingOn(g, g2, Len(h.iters), Len(h2.iters), Len(h.lists), new, g.at[i] + Len(taken), g.of[i])
  <2>1. g.at \in [1..Len(h.iters) -> Nat] /\ g.of \in [1..Len(h.iters) -> 0..Len(h.lists)]
    BY <1>0 DEF Standing
  <2>2. g.at[i] + Len(taken) \in Nat /\ Len(h2.iters) = IF new = None THEN Len(h.iters) ELSE Len(h.iters) + 1
    BY <1>2, <1>4, <1>10
  <2>. QED BY <1>1, <1>2, <1>7, <2>1, <2>2, NextStandingIs, Zenon DEF g2
<1>12. new # None => g2.at[new] = g.at[i] + Len(taken) /\ g2.of[new] = l
  BY <1>11 DEF StandingOn
<1>13. new = None => g.at[i] + Len(taken) = Source
  <2>1. rest = <<>> => Ends(rest) /\ Len(rest) = 0
    BY DEF Ends
  <2>2. rest = <<>> => g.at[i] + Len(taken) + 0 = Source
    BY <2>1 DEF Continued
  <2>3. g.at[i] + Len(taken) + 0 = g.at[i] + Len(taken)
    BY <1>2, <1>4
  <2>. QED BY <1>7, <2>2, <2>3
<1>14. ASSUME NEW m \in 1..Len(h.lists), Extends(h, g, h2, g2) PROVE ListRight(h2, g2, start, m)
  <2>1. ListRight(h, g, start, m)
    BY <1>0
  <2>2. CASE m # l
    <3>1. h.lists[m].next # None => h2.iters[h.lists[m].next] = h.iters[h.lists[m].next]
      <4>1. h.lists[m].next # None => h.lists[m].next \in 1..Len(h.iters) /\ g.of[h.lists[m].next] = m
        BY <2>1 DEF ListRight
      <4>. QED BY <1>10, <2>2, <4>1
    <3>. QED BY <1>1, <1>5, <1>10, <1>14, <2>1, <2>2, <3>1, ListStays
  <2>3. CASE m = l
    <3>1. /\ ValuesFrom(h.lists[l].items, start[l]) /\ h.lists[l].next # None
          /\ g.at[i] = start[l] + Len(h.lists[l].items)
      <4>1. i # None
        BY <1>1 DEF None
      <4>. QED BY <1>2, <2>1, <2>3, <4>1 DEF ListRight
    <3>2. start[l] \in Nat /\ Len(h.lists[l].items) \in Nat
      BY <1>0, <1>3, <3>1, SeqFacts DEF ValuesFrom
    <3>3. /\ ValuesFrom(h.lists[l].items \o taken, start[l])
          /\ Len(h.lists[l].items \o taken) = Len(h.lists[l].items) + Len(taken)
      BY <3>1, <3>2, JoinedValues
    <3>4. start[l] + Len(h.lists[l].items \o taken) = g.at[i] + Len(taken)
      <4>. DEFINE a == start[l]
                  b == Len(h.lists[l].items)
                  c == Len(taken)
      <4>1. a \in Nat /\ b \in Nat /\ c \in Nat
        BY <1>4, <3>2
      <4>. HIDE DEF a, b, c
      <4>2. a + (b + c) = a + b + c
        BY <4>1
      <4>. QED BY <3>1, <3>3, <4>2, Zenon DEF a, b, c
    <3>5. new # None => new \in 1..Len(h2.iters) /\ ~h2.iters[new].reified.done
      BY <1>1, <1>6, <1>7, <1>10 DEF Turned
    <3>. QED BY <1>5, <1>12, <1>13, <2>3, <3>3, <3>4, <3>5 DEF ListRight
  <2>. QED BY <2>2, <2>3
<1>15. Remaining(h, g, h2, g2, start, i, new, it, g.at[i] + Len(taken))
  <2>1. ASSUME NEW j \in 1..Len(h.iters), j # i, ~h.iters[j].reified.done, ~h.iters[j].gather
        PROVE  h2.lists[g.of[j]].next = j
    <3>1. h.lists[g.of[j]].next = j /\ g.of[j] # 0 /\ g.of[j] \in 0..Len(h.lists)
      BY <1>0, <2>1 DEF IterRight, Standing
    <3>2. g.of[j] # l /\ g.of[j] \in 1..Len(h.lists)
      BY <1>1, <1>2, <2>1, <3>1
    <3>. QED BY <1>5, <3>1, <3>2
  <2>2. new # None => /\ ~it.gather /\ it.list = g.of[i] /\ h2.lists[g.of[i]].next = new
                      /\ Continued(it.rest, g.at[i] + Len(taken), g.at, Lower(g, g.of[i]))
    BY <1>5
  <2>. QED BY <1>0, <1>5, <1>13, <1>14, <2>1, <2>2 DEF Remaining
<1>16. Consistent(h2, g2, start) /\ Extends(h, g, h2, g2)
  BY <1>6, <1>15, TurnedRight DEF g2
<1>17. Carried(h, g, h2, g2, l)
  <2>1. \A j \in 1..Len(h.iters) : g.of[j] > l => h2.iters[j] = h.iters[j]
    <3>1. \A j \in 1..Len(h.iters) : g.of[j] > l => j # i
      BY <1>3
    <3>. QED BY <1>10, <3>1
  <2>2. \A m \in 1..Len(h.lists) : m > l => h2.lists[m] = h.lists[m]
    <3>1. \A m \in 1..Len(h.lists) : m > l => m # l
      BY <1>1, <1>3
    <3>. QED BY <1>5, <3>1
  <2>. QED BY <1>6, <1>16, <2>1, <2>2 DEF Carried, Turned
<1>18. h2.iters[i].reified.done
  BY <1>8, <1>10
<1>. QED BY <1>5, <1>16, <1>17, <1>18 DEF h2
-----------------------------------------------------------------------------
(* An endless gather block is known to be. *)
LEMMA GatherInfinite ==
  ASSUME NEW h \in Objects, NEW i \in 1..Len(h.iters), h.iters[i].gather
  PROVE  Infinite(h, i) <=> h.endless
<1>. DEFINE f == [j \in DOMAIN h.iters |-> InFront(h, j)]
            S == [k \in Nat |-> {i}]
<1>1. Len(h.iters) \in Nat /\ DOMAIN h.iters = 1..Len(h.iters)
  BY ObjectsFields
<1>2. f[i] = i
  BY <1>1 DEF InFront
<1>. HIDE DEF f
<1>3. \A k \in 0..Len(h.iters) : k < Len(h.iters) => \A y \in S[k] : f[y] \in S[k + 1]
  BY <1>1, <1>2
<1>4. i \in S[0] /\ S[Len(h.iters)] = {i}
  BY <1>1
<1>. HIDE DEF S
<1>5. Iterate(f, i, Len(h.iters)) \in S[Len(h.iters)]
  BY <1>1, <1>3, <1>4, IterateKeeps
<1>6. Iterate(f, i, Len(h.iters)) = i
  BY <1>4, <1>5
<1>. QED BY <1>6 DEF Infinite, f

LEMMA CarriedTwice ==
  ASSUME NEW h, NEW g, NEW h1, NEW g1, NEW o1 \in Nat, Carried(h, g, h1, g1, o1), Standing(h, g),
         NEW h2, NEW g2, NEW o2 \in Nat, Carried(h1, g1, h2, g2, o2), NEW o \in Nat, o1 <= o, o2 <= o,
         Len(h.iters) \in Nat, Len(h1.iters) \in Nat, Len(h2.iters) \in Nat, Len(h.lists) \in Nat
  PROVE  Carried(h, g, h2, g2, o)
<1>1. \A j \in 1..Len(h.iters) : j \in 1..Len(h1.iters) /\ g1.at[j] = g.at[j] /\ g1.of[j] = g.of[j]
  BY DEF Carried, Extends
<1>2. Extends(h, g, h2, g2)
  <2>1. Len(h.iters) <= Len(h2.iters)
    BY DEF Carried, Extends
  <2>. QED BY <1>1, <2>1 DEF Carried, Extends
<1>3. ASSUME NEW j \in 1..Len(h.iters), g.of[j] > o PROVE h2.iters[j] = h.iters[j]
  <2>1. g.of[j] \in Nat /\ g.of[j] > o1 /\ g.of[j] > o2
    <3>1. g.of[j] \in 0..Len(h.lists)
      BY DEF Standing
    <3>. QED BY <1>3, <3>1
  <2>2. h1.iters[j] = h.iters[j]
    BY <2>1 DEF Carried
  <2>3. h2.iters[j] = h1.iters[j]
    BY <1>1, <2>1 DEF Carried
  <2>. QED BY <2>2, <2>3
<1>4. ASSUME NEW m \in 1..Len(h.lists), m > o PROVE h2.lists[m] = h.lists[m]
  <2>1. m > o1 /\ m > o2 /\ m \in 1..Len(h1.lists)
    BY <1>4 DEF Carried
  <2>. QED BY <2>1 DEF Carried
<1>5. Len(h2.lists) = Len(h.lists) /\ h2.endless = h.endless
  BY DEF Carried
<1>. QED BY <1>2, <1>3, <1>4, <1>5 DEF Carried

(* The loop of an iterator of list l, whose values begin at place p. *)
Pulling(c, g, start, l, p, goal) ==
  /\ c \in Loop /\ Consistent(c.heap, g, start)
  /\ ValuesFrom(c.taken, p) /\ Continued(c.rest, p + Len(c.taken), g.at, Lower(g, l))
  /\ Wants(c.heap, p, IF c.eager THEN Whatever ELSE c.count, goal)
Pulled(c, g, c2, g2, start, l, p, goal) ==
  Pulling(c2, g2, start, l, p, goal) /\ Carried(c.heap, g, c2.heap, g2, l - 1)
PullsRight(pull) ==
  \A c, g, start, goal : \A l \in Nat \ {0}, p \in Nat :
    Pulling(c, g, start, l, p, goal) => \E g2 : Pulled(c, g, pull[c], g2, start, l, p, goal)

LEMMA CarriedSame == \A h, g, o : Len(h.iters) \in Nat => Carried(h, g, h, g, o)
BY DEF Carried, Extends

LEMMA LoopFields ==
  ASSUME NEW h, NEW r, NEW n, NEW k, NEW c,
         c = [heap |-> h, taken |-> <<>>, rest |-> r, count |-> k, eager |-> n = Whatever],
         n # Whatever => k = n
  PROVE  c.heap = h /\ c.taken = <<>> /\ c.rest = r /\ (IF c.eager THEN Whatever ELSE c.count) = n
<1>1. n = Whatever => c.eager
  BY Zenon
<1>2. c.eager => n = Whatever
  BY Zenon
<1>3. c.heap = h /\ c.taken = <<>> /\ c.rest = r /\ c.count = k
  BY Zenon
<1>. QED BY <1>1, <1>2, <1>3, Zenon

LEMMA ReifyByIs ==
  ASSUME NEW pull, NEW h, NEW i, NEW n, ~h.iters[i].reified.done, ~h.iters[i].gather
  PROVE  LET got == pull[[heap |-> h, taken |-> <<>>, rest |-> h.iters[i].rest,
                          count |-> IF n = Whatever THEN 100000 ELSE n, eager |-> n = Whatever]]
         IN  ReifyBy(pull, h, i, n) = Finished(got.heap, i, h.iters[i].list, got.taken, got.rest)
<1>. DEFINE got == pull[[heap |-> h, taken |-> <<>>, rest |-> h.iters[i].rest,
                         count |-> IF n = Whatever THEN 100000 ELSE n, eager |-> n = Whatever]]
            x == Finished(got.heap, i, h.iters[i].list, got.taken, got.rest)
<1>1. ReifyBy(pull, h, i, n) = IF h.iters[i].reified.done THEN h
                               ELSE IF h.iters[i].gather THEN ReifyGather(h, i, n) ELSE x
  BY DEF ReifyBy, Finished
<1>2. ReifyBy(pull, h, i, n) = x
  <2>. HIDE DEF x
  <2>. QED BY <1>1
<1>. QED BY <1>2

LEMMA ReifyByRight ==
  ASSUME NEW pull, PullsRight(pull), NEW h, NEW g, NEW start, Consistent(h, g, start),
         NEW i \in 1..Len(h.iters), NEW n, NEW goal, Wants(h, g.at[i], n, goal),
         n = Whatever /\ h.iters[i].gather => ~h.endless
  PROVE  \E g2 : Reached(h, g, ReifyBy(pull, h, i, n), g2, start, i, goal)
<1>0. h \in Objects /\ Standing(h, g) /\ IterRight(h, g, i)
  BY DEF Consistent
<1>1. Len(h.iters) \in Nat /\ Len(h.lists) \in Nat /\ h.iters[i] \in IterRecord
  BY <1>0, ObjectsFields
<1>2. CASE h.iters[i].reified.done
  <2>1. ReifyBy(pull, h, i, n) = h
    BY <1>2 DEF ReifyBy
  <2>2. Carried(h, g, h, g, g.of[i])
    BY <1>1, CarriedSame
  <2>3. Reached(h, g, h, g, start, i, goal)
    BY <1>2, <2>2 DEF Reached, Wants
  <2>. QED BY <2>1, <2>3
<1>3. CASE ~h.iters[i].reified.done /\ h.iters[i].gather
  <2>1. ReifyBy(pull, h, i, n) = ReifyGather(h, i, n)
    BY <1>3 DEF ReifyBy
  <2>. QED BY <1>3, <2>1, GatherRight
<1>4. CASE ~h.iters[i].reified.done /\ ~h.iters[i].gather
  <2>. DEFINE l == g.of[i]
              c == [heap |-> h, taken |-> <<>>, rest |-> h.iters[i].rest,
                    count |-> IF n = Whatever THEN 100000 ELSE n, eager |-> n = Whatever]
              got == pull[c]
  <2>1. /\ h.iters[i].list = l /\ Continued(h.iters[i].rest, g.at[i], g.at, Lower(g, l))
        /\ l \in Nat \ {0} /\ g.at[i] \in Nat /\ l - 1 \in Nat /\ l - 1 <= l /\ l > l - 1
    BY <1>0, <1>1, <1>4 DEF IterRight, Standing
  <2>2. ReifyBy(pull, h, i, n) = Finished(got.heap, i, l, got.taken, got.rest)
    <3>1. h.iters[i].list = l
      BY <2>1
    <3>2. ReifyBy(pull, h, i, n) = Finished(got.heap, i, h.iters[i].list, got.taken, got.rest)
      BY <1>4, ReifyByIs
    <3>. HIDE DEF l, got
    <3>. QED BY <3>1, <3>2
  <2>3. c \in Loop
    <3>1. h.iters[i].rest \in Seq(Element) /\ <<>> \in Seq(Element)
      BY <1>1, IterFields
    <3>2. (IF n = Whatever THEN 100000 ELSE n) \in Nat
      BY DEF Wants
    <3>. HIDE DEF l
    <3>. QED BY <1>0, <3>1, <3>2 DEF Loop
  <2>4. Pulling(c, g, start, l, g.at[i], goal)
    <3>1. ValuesFrom(<<>>, g.at[i]) /\ g.at[i] + Len(<<>>) = g.at[i]
      BY <2>1, NothingYet
    <3>2. /\ c.heap = h /\ c.taken = <<>> /\ c.rest = h.iters[i].rest
          /\ (IF c.eager THEN Whatever ELSE c.count) = n
      <4>. DEFINE k == IF n = Whatever THEN 100000 ELSE n
      <4>1. n # Whatever => k = n
        OBVIOUS
      <4>2. c = [heap |-> h, taken |-> <<>>, rest |-> h.iters[i].rest, count |-> k, eager |-> n = Whatever]
        OBVIOUS
      <4>. HIDE DEF k, c
      <4>. QED BY <4>1, <4>2, LoopFields, Zenon
    <3>. HIDE DEF l, c
    <3>3. Wants(c.heap, g.at[i], IF c.eager THEN Whatever ELSE c.count, goal)
      BY <3>2, Zenon
    <3>4. ValuesFrom(c.taken, g.at[i]) /\ Continued(c.rest, g.at[i] + Len(c.taken), g.at, Lower(g, l))
      BY <2>1, <3>1, <3>2, Zenon
    <3>. QED BY <2>3, <3>2, <3>3, <3>4, Zenon DEF Pulling
  <2>. HIDE DEF c
  <2>5. PICK g1 : Pulled(c, g, got, g1, start, l, g.at[i], goal)
    BY <2>1, <2>4 DEF PullsRight
  <2>. HIDE DEF got
  <2>6. /\ Consistent(got.heap, g1, start) /\ Carried(h, g, got.heap, g1, l - 1)
        /\ ValuesFrom(got.taken, g.at[i]) /\ Continued(got.rest, g.at[i] + Len(got.taken), g1.at, Lower(g1, l))
        /\ got.heap.coro <= goal
    <3>1. c.heap = h
      BY DEF c
    <3>. QED BY <2>5, <3>1 DEF Pulled, Pulling, Wants
  <2>. DEFINE h1 == got.heap
              h2 == Finished(got.heap, i, l, got.taken, got.rest)
  <2>7. h1 \in Objects /\ Standing(h1, g1) /\ Len(h1.iters) \in Nat
    BY <2>6, ObjectsFields DEF Consistent
  <2>8. i \in 1..Len(h1.iters) /\ g1.at[i] = g.at[i] /\ g1.of[i] = l /\ h1.iters[i] = h.iters[i]
    <3>1. i \in 1..Len(h1.iters) /\ g1.at[i] = g.at[i] /\ g1.of[i] = l
      BY <1>1, <2>6, <2>7 DEF Carried, Extends
    <3>2. h1.iters[i] = h.iters[i]
      BY <2>1, <2>6 DEF Carried
    <3>. QED BY <3>1, <3>2
  <2>9. PICK g2 : Consistent(h2, g2, start) /\ Carried(h1, g1, h2, g2, l) /\ h2.coro = h1.coro /\ h2.iters[i].reified.done
    <3>1. /\ Consistent(h1, g1, start) /\ i \in 1..Len(h1.iters) /\ ~h1.iters[i].gather /\ ~h1.iters[i].reified.done
          /\ l = g1.of[i] /\ ValuesFrom(got.taken, g1.at[i])
          /\ Continued(got.rest, g1.at[i] + Len(got.taken), g1.at, Lower(g1, l))
      BY <1>4, <2>6, <2>8
    <3>2. \E g2 : /\ Consistent(Finished(h1, i, l, got.taken, got.rest), g2, start)
                  /\ Carried(h1, g1, Finished(h1, i, l, got.taken, got.rest), g2, l)
                  /\ Finished(h1, i, l, got.taken, got.rest).coro = h1.coro
                  /\ Finished(h1, i, l, got.taken, got.rest).iters[i].reified.done
      <4>. DEFINE taken == got.taken
                  rest == got.rest
      <4>1. ValuesFrom(taken, g1.at[i]) /\ Continued(rest, g1.at[i] + Len(taken), g1.at, Lower(g1, l))
        BY <3>1
      <4>. HIDE DEF l, h1, taken, rest
      <4>2. \E g2 : /\ Consistent(Finished(h1, i, l, taken, rest), g2, start)
                    /\ Carried(h1, g1, Finished(h1, i, l, taken, rest), g2, l)
                    /\ Finished(h1, i, l, taken, rest).coro = h1.coro
                    /\ Finished(h1, i, l, taken, rest).iters[i].reified.done
        BY <3>1, <4>1, FinishedRight
      <4>. QED BY <4>2 DEF taken, rest
    <3>. HIDE DEF l
    <3>. QED BY <3>2
  <2>10. Len(h2.iters) \in Nat
    BY <2>9, ObjectsFields DEF Consistent
  <2>11. Carried(h, g, h2, g2, l)
    <3>. HIDE DEF l, h2, h1
    <3>1. Carried(h, g, h1, g1, l - 1)
      BY <2>6 DEF h1
    <3>. QED BY <1>0, <1>1, <2>1, <2>7, <2>9, <2>10, <3>1, CarriedTwice
  <2>12. Reached(h, g, h2, g2, start, i, goal)
    BY <2>6, <2>9, <2>11 DEF Reached
  <2>. QED BY <2>2, <2>12
<1>. QED BY <1>2, <1>3, <1>4

(* One round: elements are taken up to an iterator, which is replaced by what
   it reifies to. *)
LoopIs(c, h, t, r, n, e) == c.heap = h /\ c.taken = t /\ c.rest = r /\ c.count = n /\ c.eager = e

LEMMA LoopAgain ==
  ASSUME NEW c \in Loop, NEW h, NEW t, NEW r
  PROVE  LoopIs([c EXCEPT !.heap = h, !.taken = t, !.rest = r], h, t, r, c.count, c.eager)
BY DEF Loop, LoopIs

LEMMA LoopTaken ==
  ASSUME NEW c \in Loop, NEW t, NEW r
  PROVE  LoopIs([c EXCEPT !.taken = t, !.rest = r], c.heap, t, r, c.count, c.eager)
BY DEF Loop, LoopIs

LEMMA LoopTyped ==
  ASSUME NEW c \in Loop, NEW h \in Objects, NEW t \in Seq(Element), NEW r \in Seq(Element)
  PROVE  /\ [c EXCEPT !.heap = h, !.taken = t, !.rest = r] \in Loop
         /\ [c EXCEPT !.taken = t, !.rest = r] \in Loop
BY DEF Loop

(* What the loop has got to is right, when its parts are. *)
LEMMA PullingOf ==
  ASSUME NEW c, NEW h, NEW t, NEW r, NEW n, NEW e, LoopIs(c, h, t, r, n, e), c \in Loop, NEW g, NEW start,
         NEW l, NEW p, NEW goal, Consistent(h, g, start), ValuesFrom(t, p),
         Continued(r, p + Len(t), g.at, Lower(g, l)), Wants(h, p, IF e THEN Whatever ELSE n, goal)
  PROVE  Pulling(c, g, start, l, p, goal)
BY Zenon DEF Pulling, LoopIs

LEMMA PullingIs ==
  ASSUME NEW c, NEW g, NEW start, NEW l, NEW p, NEW goal, Pulling(c, g, start, l, p, goal)
  PROVE  /\ c \in Loop /\ c.heap \in Objects /\ Standing(c.heap, g) /\ Consistent(c.heap, g, start)
         /\ c.taken \in Seq(Element) /\ c.rest \in Seq(Element) /\ c.count \in Nat /\ c.eager \in BOOLEAN
         /\ Len(c.heap.iters) \in Nat /\ Len(c.heap.lists) \in Nat
         /\ ValuesFrom(c.taken, p) /\ Continued(c.rest, p + Len(c.taken), g.at, Lower(g, l))
         /\ Wants(c.heap, p, IF c.eager THEN Whatever ELSE c.count, goal)
<1>1. /\ c \in Loop /\ Consistent(c.heap, g, start)
      /\ ValuesFrom(c.taken, p) /\ Continued(c.rest, p + Len(c.taken), g.at, Lower(g, l))
      /\ Wants(c.heap, p, IF c.eager THEN Whatever ELSE c.count, goal)
  BY DEF Pulling
<1>2. c.heap \in Objects /\ c.taken \in Seq(Element) /\ c.rest \in Seq(Element) /\ c.count \in Nat /\ c.eager \in BOOLEAN
  BY <1>1 DEF Loop
<1>3. Standing(c.heap, g) /\ Len(c.heap.iters) \in Nat /\ Len(c.heap.lists) \in Nat
  BY <1>1, <1>2, ObjectsFields DEF Consistent
<1>. QED BY <1>1, <1>2, <1>3

LEMMA WantsOn ==
  ASSUME NEW h, NEW p \in Nat, NEW n, NEW goal, Wants(h, p, n, goal), NEW h2, h2.endless = h.endless, h2.coro <= goal
  PROVE  Wants(h2, p, n, goal)
BY DEF Wants

LEMMA WantsRest ==
  ASSUME NEW h, NEW p \in Nat, NEW e \in BOOLEAN, NEW n \in Nat, NEW goal, Wants(h, p, IF e THEN Whatever ELSE n, goal),
         NEW k \in Nat, k < n, NEW m, m = IF e THEN Whatever ELSE n - k
  PROVE  Wants(h, p + k, m, goal) /\ (m = Whatever => e)
<1>0. goal \in Nat
  BY LazyListAssumption DEF Wants
<1>1. CASE e
  <2>1. m = Whatever /\ Wants(h, p, Whatever, goal)
    BY <1>1
  <2>. QED BY <1>1, <2>1 DEF Wants, Whatever
<1>2. CASE ~e
  <2>1. m = n - k /\ m \in Nat /\ m > 0 /\ m # Whatever
    BY <1>2 DEF Whatever
  <2>2. p + n <= goal
    BY <1>2 DEF Wants, Whatever
  <2>3. p + k + m <= goal
    BY <1>0, <2>1, <2>2
  <2>. QED BY <2>1, <2>3 DEF Wants
<1>. QED BY <1>1, <1>2

LEMMA RoundRight ==
  ASSUME NEW pull, PullsRight(pull), NEW c, NEW g, NEW start, NEW goal, NEW l \in Nat \ {0}, NEW p \in Nat,
         Pulling(c, g, start, l, p, goal)
  PROVE  \E g2 : Pulled(c, g, PullRound(pull, c), g2, start, l, p, goal)
<1>0. /\ c \in Loop /\ c.heap \in Objects /\ Standing(c.heap, g) /\ Consistent(c.heap, g, start)
      /\ c.taken \in Seq(Element) /\ c.rest \in Seq(Element) /\ c.count \in Nat /\ c.eager \in BOOLEAN
      /\ Len(c.heap.iters) \in Nat /\ Len(c.heap.lists) \in Nat
      /\ ValuesFrom(c.taken, p) /\ Continued(c.rest, p + Len(c.taken), g.at, Lower(g, l))
      /\ Wants(c.heap, p, IF c.eager THEN Whatever ELSE c.count, goal)
      /\ Len(c.rest) \in Nat /\ Len(c.taken) \in Nat
  <2>1. /\ c \in Loop /\ c.heap \in Objects /\ Standing(c.heap, g) /\ Consistent(c.heap, g, start)
        /\ c.taken \in Seq(Element) /\ c.rest \in Seq(Element) /\ c.count \in Nat /\ c.eager \in BOOLEAN
        /\ Len(c.heap.iters) \in Nat /\ Len(c.heap.lists) \in Nat
        /\ ValuesFrom(c.taken, p) /\ Continued(c.rest, p + Len(c.taken), g.at, Lower(g, l))
        /\ Wants(c.heap, p, IF c.eager THEN Whatever ELSE c.count, goal)
    BY PullingIs
  <2>2. Len(c.rest) \in Nat /\ Len(c.taken) \in Nat
    BY <2>1, SeqFacts
  <2>. QED BY <2>1, <2>2
<1>1. CASE c.rest = <<>> \/ Len(c.taken) >= c.count
  <2>1. PullRound(pull, c) = c
    BY <1>1 DEF PullRound
  <2>2. Carried(c.heap, g, c.heap, g, l - 1)
    BY <1>0, CarriedSame
  <2>3. Pulled(c, g, c, g, start, l, p, goal)
    BY <2>2 DEF Pulled
  <2>. QED BY <2>1, <2>3
<1>2. CASE ~(c.rest = <<>> \/ Len(c.taken) >= c.count)
  <2>. DEFINE k == Leading(c.rest, c.count)
              taken == c.taken \o SubSeq(c.rest, 1, k)
              rest == SubSeq(c.rest, k + 1, Len(c.rest))
              x == Head(rest).ref
              n == IF c.eager THEN Whatever ELSE c.count - Len(taken)
              h == ReifyBy(pull, c.heap, x, n)
              ends == rest = <<>> \/ Len(taken) >= c.count \/ (c.eager /\ Infinite(c.heap, x))
              cs == [c EXCEPT !.taken = taken, !.rest = rest]
              cn == [c EXCEPT !.heap = h, !.taken = taken, !.rest = h.iters[x].reified.parcel \o Tail(rest)]
  <2>1. PullRound(pull, c) = IF ends THEN cs ELSE pull[cn]
    BY <1>2 DEF PullRound
  <2>2. /\ k \in 0..Len(c.rest) /\ k <= c.count /\ \A j \in 1..k : c.rest[j].kind = "value"
        /\ k < c.count /\ k < Len(c.rest) => c.rest[k + 1].kind # "value"
    BY <1>0, LeadingIs
  <2>. HIDE DEF k
  <2>3. /\ ValuesFrom(SubSeq(c.rest, 1, k), p + Len(c.taken)) /\ Len(SubSeq(c.rest, 1, k)) = k
        /\ Continued(rest, p + Len(c.taken) + k, g.at, Lower(g, l)) /\ Len(rest) = Len(c.rest) - k
        /\ \A j \in 1..Len(c.rest) - k : rest[j] = c.rest[k + j]
    <3>1. /\ p + Len(c.taken) \in Nat /\ Continued(c.rest, p + Len(c.taken), g.at, Lower(g, l))
          /\ k \in 0..Len(c.rest) /\ \A j \in 1..k : c.rest[j].kind = "value"
      BY <1>0, <2>2
    <3>. DEFINE q == p + Len(c.taken)
                B == Lower(g, l)
    <3>. HIDE DEF q, B
    <3>2. /\ ValuesFrom(SubSeq(c.rest, 1, k), q) /\ Len(SubSeq(c.rest, 1, k)) = k
          /\ Continued(rest, q + k, g.at, B) /\ Len(rest) = Len(c.rest) - k
          /\ \A j \in 1..Len(c.rest) - k : rest[j] = c.rest[k + j]
      <4>1. q \in Nat /\ Continued(c.rest, q, g.at, B)
        BY <3>1 DEF q, B
      <4>2. k \in 0..Len(c.rest) /\ \A j \in 1..k : c.rest[j].kind = "value"
        BY <3>1
      <4>. QED BY <4>1, <4>2, PartsOf
    <3>. QED BY <3>2 DEF q, B
  <2>4. ValuesFrom(taken, p) /\ Len(taken) = Len(c.taken) + k
    <3>1. /\ ValuesFrom(c.taken, p) /\ ValuesFrom(SubSeq(c.rest, 1, k), p + Len(c.taken))
          /\ Len(SubSeq(c.rest, 1, k)) = k
      BY <1>0, <2>3
    <3>2. ValuesFrom(taken, p) /\ Len(taken) = Len(c.taken) + Len(SubSeq(c.rest, 1, k))
      BY <3>1, JoinedValues, Zenon
    <3>. QED BY <3>1, <3>2, Zenon
  <2>5. taken \in Seq(Element) /\ rest \in Seq(Element) /\ Len(taken) \in Nat /\ p + Len(taken) \in Nat
    <3>1. taken \in Seq(Element) /\ rest \in Seq(Element)
      BY <2>3, <2>4 DEF ValuesFrom, Continued
    <3>. HIDE DEF taken, rest
    <3>2. Len(taken) \in Nat
      BY <3>1, SeqFacts
    <3>. QED BY <3>1, <3>2
  <2>. HIDE DEF taken, rest
  <2>6. Continued(rest, p + Len(taken), g.at, Lower(g, l))
    <3>1. p + Len(taken) = p + Len(c.taken) + k
      BY <1>0, <2>2, <2>4
    <3>. QED BY <2>3, <3>1, Zenon
  <2>7. CASE ends
    <3>1. LoopIs(cs, c.heap, taken, rest, c.count, c.eager) /\ cs \in Loop
      <4>1. LoopIs(cs, c.heap, taken, rest, c.count, c.eager)
        BY <1>0, LoopTaken, Zenon
      <4>2. cs \in Loop
        BY <1>0, <2>5, LoopTyped
      <4>. QED BY <4>1, <4>2
    <3>. HIDE DEF cs
    <3>2. Pulling(cs, g, start, l, p, goal)
      BY <1>0, <2>4, <2>6, <3>1, PullingOf, Zenon
    <3>3. Carried(c.heap, g, cs.heap, g, l - 1)
      BY <1>0, <3>1, CarriedSame DEF LoopIs
    <3>4. Pulled(c, g, cs, g, start, l, p, goal)
      BY <3>2, <3>3 DEF Pulled
    <3>. HIDE DEF ends
    <3>. QED BY <2>1, <2>7, <3>4
  <2>8. CASE ~ends
    <3>1. rest # <<>> /\ Len(taken) < c.count /\ ~(c.eager /\ Infinite(c.heap, x))
      <4>. HIDE DEF x
      <4>. QED BY <1>0, <2>5, <2>8
    <3>2. Head(rest).kind # "value"
      <4>1. Len(rest) # 0 /\ Len(rest) \in Nat
        BY <2>5, <3>1, SeqFacts
      <4>2. k \in Nat /\ k < Len(c.rest) /\ k < c.count /\ 1 \in 1..Len(c.rest) - k
        <5>1. /\ Len(rest) = Len(c.rest) - k /\ Len(taken) = Len(c.taken) + k
              /\ k \in 0..Len(c.rest) /\ Len(c.rest) \in Nat /\ Len(c.taken) \in Nat /\ c.count \in Nat
          BY <1>0, <2>2, <2>3, <2>4
        <5>. QED BY <3>1, <4>1, <5>1
      <4>3. rest[1] = c.rest[k + 1]
        BY <2>3, <4>2
      <4>4. Head(rest) = rest[1]
        BY <2>5, <3>1
      <4>. QED BY <2>2, <4>2, <4>3, <4>4
    <3>3. Tail(rest) = <<>> /\ x \in Nat /\ x \in Lower(g, l) /\ g.at[x] = p + Len(taken)
      BY <2>5, <2>6, <3>1, <3>2, AloneInFront
    <3>. HIDE DEF x
    <3>4. x \in 1..Len(c.heap.iters) /\ g.of[x] < l /\ g.of[x] \in Nat
      <4>1. x \in DOMAIN g.of /\ g.of[x] < l
        BY <3>3 DEF Lower
      <4>2. g.of \in [1..Len(c.heap.iters) -> 0..Len(c.heap.lists)]
        BY <1>0 DEF Standing
      <4>3. x \in 1..Len(c.heap.iters) /\ g.of[x] \in 0..Len(c.heap.lists)
        BY <4>1, <4>2
      <4>. QED BY <1>0, <4>1, <4>3
    <3>5. Wants(c.heap, g.at[x], n, goal) /\ (n = Whatever => c.eager)
      <4>1. n = IF c.eager THEN Whatever ELSE c.count - Len(taken)
        OBVIOUS
      <4>. HIDE DEF n
      <4>2. Wants(c.heap, p + Len(taken), n, goal) /\ (n = Whatever => c.eager)
        BY <1>0, <2>5, <3>1, <4>1, WantsRest
      <4>. QED BY <3>3, <4>2
    <3>. HIDE DEF n
    <3>6. n = Whatever /\ c.heap.iters[x].gather => ~c.heap.endless
      BY <1>0, <3>1, <3>4, <3>5, GatherInfinite
    <3>7. PICK g1 : Reached(c.heap, g, h, g1, start, x, goal)
      BY <1>0, <3>4, <3>5, <3>6, ReifyByRight
    <3>. HIDE DEF h
    <3>8. /\ Consistent(h, g1, start) /\ Carried(c.heap, g, h, g1, g.of[x])
          /\ h.coro <= goal /\ h.iters[x].reified.done /\ h \in Objects /\ Standing(h, g1)
          /\ Len(h.iters) \in Nat /\ h.endless = c.heap.endless
          /\ x \in 1..Len(h.iters) /\ g1.at[x] = g.at[x] /\ g1.of[x] = g.of[x]
      <4>1. /\ Consistent(h, g1, start) /\ Carried(c.heap, g, h, g1, g.of[x])
            /\ h.coro <= goal /\ h.iters[x].reified.done
        BY <3>7 DEF Reached
      <4>2. h \in Objects /\ Standing(h, g1) /\ h.endless = c.heap.endless
        BY <4>1 DEF Consistent, Carried
      <4>3. Len(h.iters) \in Nat
        BY <4>2, ObjectsFields
      <4>4. x \in 1..Len(h.iters) /\ g1.at[x] = g.at[x] /\ g1.of[x] = g.of[x]
        BY <1>0, <3>4, <4>1, <4>3 DEF Carried, Extends
      <4>. QED BY <4>1, <4>2, <4>3, <4>4
    <3>9. /\ h.iters[x].reified.parcel \in Seq(Element)
          /\ Continued(h.iters[x].reified.parcel, p + Len(taken), g1.at, Lower(g1, l))
      <4>1. Continued(h.iters[x].reified.parcel, g1.at[x], g1.at, Onward(g1, x))
        BY <3>8 DEF Consistent, IterRight
      <4>2. \A j \in Onward(g1, x) : j \in Lower(g1, l) /\ g1.at[j] = g1.at[j]
        BY <3>4, <3>8 DEF Onward, Lower
      <4>3. Continued(h.iters[x].reified.parcel, g1.at[x], g1.at, Lower(g1, l))
        BY <4>1, <4>2, ContinuedToo, Zenon
      <4>4. h.iters[x].reified.parcel \in Seq(Element)
        BY <4>1 DEF Continued
      <4>. QED BY <3>3, <3>8, <4>3, <4>4
    <3>10. h.iters[x].reified.parcel \o Tail(rest) = h.iters[x].reified.parcel
      BY <3>3, <3>9, ConcatEmptySeq
    <3>11. cn = [c EXCEPT !.heap = h, !.taken = taken, !.rest = h.iters[x].reified.parcel]
      BY <3>10, Zenon
    <3>. HIDE DEF cn
    <3>12. LoopIs(cn, h, taken, h.iters[x].reified.parcel, c.count, c.eager)
      BY <1>0, <3>11, LoopAgain, Zenon
    <3>13. cn \in Loop
      BY <1>0, <2>5, <3>8, <3>9, <3>11, LoopTyped
    <3>14. Wants(h, p, IF c.eager THEN Whatever ELSE c.count, goal)
      BY <1>0, <3>8, WantsOn, Zenon
    <3>15. Pulling(cn, g1, start, l, p, goal)
      <4>1. /\ Consistent(h, g1, start) /\ ValuesFrom(taken, p)
            /\ Continued(h.iters[x].reified.parcel, p + Len(taken), g1.at, Lower(g1, l))
        BY <2>4, <3>8, <3>9
      <4>2. /\ cn.heap = h /\ cn.taken = taken /\ cn.rest = h.iters[x].reified.parcel
            /\ cn.count = c.count /\ cn.eager = c.eager
        BY <3>12 DEF LoopIs
      <4>3. Wants(cn.heap, p, IF cn.eager THEN Whatever ELSE cn.count, goal)
        BY <3>14, <4>2
      <4>. QED BY <3>13, <4>1, <4>2, <4>3 DEF Pulling
    <3>16. PICK g2 : Pulled(cn, g1, pull[cn], g2, start, l, p, goal)
      BY <3>15 DEF PullsRight
    <3>17. Pulling(pull[cn], g2, start, l, p, goal) /\ Carried(h, g1, pull[cn].heap, g2, l - 1)
      BY <3>12, <3>16 DEF Pulled, LoopIs
    <3>18. Len(pull[cn].heap.iters) \in Nat
      BY <3>17, PullingIs
    <3>19. Carried(c.heap, g, pull[cn].heap, g2, l - 1)
      <4>1. l - 1 \in Nat /\ g.of[x] <= l - 1 /\ l - 1 <= l - 1
        BY <3>4
      <4>2. /\ Carried(c.heap, g, h, g1, g.of[x]) /\ Standing(c.heap, g)
            /\ Carried(h, g1, pull[cn].heap, g2, l - 1) /\ g.of[x] \in Nat
            /\ Len(c.heap.iters) \in Nat /\ Len(h.iters) \in Nat
            /\ Len(pull[cn].heap.iters) \in Nat /\ Len(c.heap.lists) \in Nat
        BY <1>0, <3>4, <3>8, <3>17, <3>18
      <4>. QED BY <4>1, <4>2, CarriedTwice, Zenon
    <3>20. Pulled(c, g, pull[cn], g2, start, l, p, goal)
      BY <3>17, <3>19 DEF Pulled
    <3>. HIDE DEF ends
    <3>. QED BY <2>1, <2>8, <3>20
  <2>. QED BY <2>7, <2>8
<1>. QED BY <1>1, <1>2

PullStep(r, d) == [c \in Loop |-> IF d = 0 THEN c ELSE PullRound(r[d - 1], c)]
Pulls(r, n) == r = [d \in 0..n |-> PullStep(r, d)]

LEMMA PullsExist == \A n \in Nat : \E r : Pulls(r, n)
<1>. DEFINE T == {n \in Nat : \E r : Pulls(r, n)}
<1>1. 0 \in T
  <2>. DEFINE r == [d \in 0..0 |-> [c \in Loop |-> c]]
  <2>1. \A d \in 0..0 : PullStep(r, d) = [c \in Loop |-> c]
    BY DEF PullStep
  <2>2. r = [d \in 0..0 |-> PullStep(r, d)]
    BY <2>1
  <2>. HIDE DEF r
  <2>. QED BY <2>2 DEF Pulls
<1>2. ASSUME NEW n \in Nat, n \in T PROVE n + 1 \in T
  <2>1. PICK r : Pulls(r, n)
    BY <1>2
  <2>. DEFINE g == [d \in 0..n + 1 |-> PullStep(r, d)]
  <2>2. ASSUME NEW d \in 0..n PROVE d \in 0..n + 1 /\ g[d] = r[d]
    <3>1. d \in 0..n + 1
      OBVIOUS
    <3>2. r[d] = PullStep(r, d)
      BY <2>1 DEF Pulls
    <3>. QED BY <3>1, <3>2
  <2>3. ASSUME NEW d \in 0..n + 1 PROVE g[d] = PullStep(g, d)
    <3>1. g[d] = PullStep(r, d)
      OBVIOUS
    <3>2. d # 0 => d - 1 \in 0..n
      OBVIOUS
    <3>3. d # 0 => g[d - 1] = r[d - 1]
      BY <2>2, <3>2
    <3>. HIDE DEF g
    <3>4. CASE d = 0
      BY <3>1, <3>4 DEF PullStep
    <3>5. CASE d # 0
      BY <3>1, <3>3, <3>5 DEF PullStep
    <3>. QED BY <3>4, <3>5
  <2>4. g = [d \in 0..n + 1 |-> g[d]]
    OBVIOUS
  <2>. HIDE DEF g
  <2>5. g = [d \in 0..n + 1 |-> PullStep(g, d)]
    BY <2>3, <2>4
  <2>6. n + 1 \in Nat
    OBVIOUS
  <2>. QED BY <2>5, <2>6 DEF Pulls
<1>3. Nat \subseteq T
  <2>. HIDE DEF T
  <2>. QED BY <1>1, <1>2, NaturalInduction
<1>. QED BY <1>3

(* However many rounds, what the loop has taken is right. *)
LEMMA PullRight ==
  ASSUME NEW n \in Nat
  PROVE  PullsRight(Pull(n))
<1>. DEFINE pull[d \in 0..n] == [c \in Loop |-> IF d = 0 THEN c ELSE PullRound(pull[d - 1], c)]
<1>1. PICK r : Pulls(r, n)
  BY PullsExist
<1>2. r = [d \in 0..n |-> [c \in Loop |-> IF d = 0 THEN c ELSE PullRound(r[d - 1], c)]]
  BY <1>1 DEF Pulls, PullStep
<1>3. pull = [d \in 0..n |-> [c \in Loop |-> IF d = 0 THEN c ELSE PullRound(pull[d - 1], c)]]
  <2>1. pull = CHOOSE r2 : r2 = [d \in 0..n |-> [c \in Loop |-> IF d = 0 THEN c ELSE PullRound(r2[d - 1], c)]]
    BY Zenon
  <2>. HIDE DEF pull
  <2>. QED BY <1>2, <2>1, Zenon
<1>4. Pull(n) = pull[n]
  BY DEF Pull
<1>. HIDE DEF pull
<1>5. ASSUME NEW d \in 0..n, NEW c \in Loop
      PROVE  pull[d][c] = IF d = 0 THEN c ELSE PullRound(pull[d - 1], c)
  BY <1>3
<1>. DEFINE T == {d \in Nat : d <= n => PullsRight(pull[d])}
<1>6. 0 \in T
  <2>1. 0 \in 0..n
    OBVIOUS
  <2>2. ASSUME NEW c, NEW g, NEW start, NEW goal, NEW l \in Nat \ {0}, NEW p \in Nat, Pulling(c, g, start, l, p, goal)
        PROVE  \E g2 : Pulled(c, g, pull[0][c], g2, start, l, p, goal)
    <3>1. c \in Loop /\ Len(c.heap.iters) \in Nat
      BY <2>2, PullingIs
    <3>2. pull[0][c] = c
      BY <1>5, <2>1, <3>1
    <3>3. Carried(c.heap, g, c.heap, g, l - 1)
      BY <3>1, CarriedSame
    <3>4. Pulled(c, g, c, g, start, l, p, goal)
      BY <2>2, <3>3 DEF Pulled
    <3>. QED BY <3>2, <3>4
  <2>. QED BY <2>2 DEF PullsRight
<1>7. ASSUME NEW d \in Nat, d \in T PROVE d + 1 \in T
  <2>. SUFFICES ASSUME d + 1 <= n PROVE PullsRight(pull[d + 1])
    OBVIOUS
  <2>1. d + 1 \in 0..n /\ d + 1 # 0 /\ d + 1 - 1 = d /\ d <= n
    OBVIOUS
  <2>2. PullsRight(pull[d])
    BY <1>7, <2>1
  <2>3. ASSUME NEW c, NEW g, NEW start, NEW goal, NEW l \in Nat \ {0}, NEW p \in Nat, Pulling(c, g, start, l, p, goal)
        PROVE  \E g2 : Pulled(c, g, pull[d + 1][c], g2, start, l, p, goal)
    <3>1. c \in Loop
      BY <2>3 DEF Pulling
    <3>2. pull[d + 1][c] = PullRound(pull[d], c)
      BY <1>5, <2>1, <3>1
    <3>3. \E g2 : Pulled(c, g, PullRound(pull[d], c), g2, start, l, p, goal)
      BY <2>2, <2>3, RoundRight
    <3>. QED BY <3>2, <3>3
  <2>. QED BY <2>3 DEF PullsRight
<1>8. Nat \subseteq T
  <2>. HIDE DEF T
  <2>. QED BY <1>6, <1>7, NaturalInduction
<1>9. n \in T /\ n <= n
  BY <1>8
<1>. QED BY <1>4, <1>9

LEMMA RoundsOf == \A h \in Objects : Rounds(h) \in Nat
<1>. SUFFICES ASSUME NEW h \in Objects PROVE Rounds(h) \in Nat
  OBVIOUS
<1>1. Len(h.lists) \in Nat /\ Len(h.iters) \in Nat /\ Source \in Nat
  BY ObjectsFields, LazyListAssumption
<1>2. \A a, b, c \in Nat : (a + 1) * (b + c + 2) \in Nat
  OBVIOUS
<1>. QED BY <1>1, <1>2 DEF Rounds

LEMMA ReifyRight ==
  ASSUME NEW h, NEW g, NEW start, Consistent(h, g, start),
         NEW i \in 1..Len(h.iters), NEW n, NEW goal, Wants(h, g.at[i], n, goal),
         n = Whatever /\ h.iters[i].gather => ~h.endless
  PROVE  \E g2 : Reached(h, g, Reify(h, i, n), g2, start, i, goal)
<1>1. Rounds(h) \in Nat
  BY RoundsOf DEF Consistent
<1>2. PullsRight(Pull(Rounds(h)))
  BY <1>1, PullRight
<1>3. \E g2 : Reached(h, g, ReifyBy(Pull(Rounds(h)), h, i, n), g2, start, i, goal)
  BY <1>2, ReifyByRight
<1>. QED BY <1>3 DEF Reify

(* What is asked of a list whose elements begin at place p. *)
Asked(e, p, n, goal) ==
  goal \in 0..Source /\ ((n = Whatever /\ (e \/ goal = Source)) \/ (n \in Nat /\ p + n <= goal))

(* The objects stay consistent, and the coroutine within the goal. *)
NoFurther(h, e, m, start, goal) ==
  /\ h \in Objects /\ h.endless = e /\ Len(h.lists) = m /\ h.coro <= goal
  /\ \E g : Consistent(h, g, start)

LEMMA GimmeMoreRight ==
  ASSUME NEW e, NEW m, NEW start, NEW goal, NEW h, NoFurther(h, e, m, start, goal),
         NEW l \in 1..m, NEW n, Asked(e, start[l], n, goal)
  PROVE  NoFurther(GimmeMore(h, l, n), e, m, start, goal)
<1>0. h \in Objects /\ h.endless = e /\ Len(h.lists) = m /\ h.coro <= goal
  BY DEF NoFurther
<1>1. PICK g : Consistent(h, g, start)
  BY DEF NoFurther
<1>2. /\ Len(h.iters) \in Nat /\ h.coro \in Nat /\ ListRight(h, g, start, l) /\ start[l] \in Nat
      /\ \A i \in 1..Len(h.iters) : IterRight(h, g, i)
  BY <1>0, <1>1, ObjectsFields DEF Consistent
<1>. DEFINE list == h.lists[l]
            enough == IF n = Whatever THEN Infinite(h, list.next) ELSE Len(list.items) >= n
            k == IF n = Whatever THEN Whatever ELSE n - Len(list.items)
<1>3. CASE list.next = None \/ enough
  <2>1. GimmeMore(h, l, n) = h
    BY <1>3 DEF GimmeMore
  <2>. QED BY <2>1
<1>4. CASE ~(list.next = None \/ enough)
  <2>1. GimmeMore(h, l, n) = Reify(h, list.next, k)
    BY <1>4 DEF GimmeMore
  <2>2. /\ list.next \in 1..Len(h.iters) /\ g.of[list.next] = l
        /\ g.at[list.next] = start[l] + Len(list.items) /\ Len(list.items) \in Nat
    BY <1>2, <1>4, SeqFacts DEF ListRight, ValuesFrom
  <2>3. ~h.iters[list.next].gather
    <3>1. l # 0
      BY <1>0, ObjectsFields
    <3>. QED BY <1>2, <2>2, <3>1 DEF IterRight
  <2>4. Wants(h, start[l] + Len(list.items), k, goal)
    <3>1. CASE n = Whatever
      <4>1. k = Whatever
        BY <3>1
      <4>2. goal \in 0..Source /\ (h.endless \/ goal = Source)
        BY <1>0, <3>1 DEF Asked, Whatever
      <4>. HIDE DEF k, list
      <4>. QED BY <1>0, <4>1, <4>2 DEF Wants
    <3>2. CASE n # Whatever
      <4>1. n \in Nat /\ start[l] + n <= goal /\ goal \in 0..Source /\ ~(Len(list.items) >= n) /\ k = n - Len(list.items)
        BY <1>4, <3>2 DEF Asked
      <4>. HIDE DEF k, list
      <4>2. k \in Nat /\ k > 0 /\ start[l] + Len(list.items) + k <= goal
        BY <1>2, <2>2, <4>1, LazyListAssumption
      <4>. QED BY <1>0, <4>1, <4>2 DEF Wants
    <3>. QED BY <3>1, <3>2
  <2>. HIDE DEF k, list, enough
  <2>5. Wants(h, g.at[list.next], k, goal)
    BY <2>2, <2>4
  <2>6. PICK g2 : Reached(h, g, Reify(h, list.next, k), g2, start, list.next, goal)
    BY <1>1, <2>2, <2>3, <2>5, ReifyRight
  <2>7. NoFurther(Reify(h, list.next, k), e, m, start, goal)
    <3>1. Consistent(Reify(h, list.next, k), g2, start) /\ Reify(h, list.next, k).coro <= goal
      BY <2>6 DEF Reached
    <3>2. Len(Reify(h, list.next, k).lists) = m /\ Reify(h, list.next, k).endless = e
      BY <1>0, <2>6 DEF Reached, Carried
    <3>. QED BY <3>1, <3>2 DEF NoFurther, Consistent
  <2>. QED BY <2>1, <2>7
<1>. QED BY <1>3, <1>4

LEMMA GimmeRight ==
  ASSUME NEW e, NEW m, NEW start, NEW goal, NEW h, NoFurther(h, e, m, start, goal),
         NEW l \in 1..m, NEW n, Asked(e, start[l], n, goal)
  PROVE  NoFurther(Gimme(h, l, n), e, m, start, goal)
<1>. DEFINE f == [g \in Objects |-> GimmeMore(g, l, n)]
            W == {x \in Objects : NoFurther(x, e, m, start, goal)}
            S == [k \in Nat |-> W]
<1>1. h \in W /\ Rounds(h) \in Nat
  BY RoundsOf DEF NoFurther
<1>2. ASSUME NEW y \in W PROVE f[y] \in W
  <2>1. f[y] = GimmeMore(y, l, n)
    OBVIOUS
  <2>2. NoFurther(y, e, m, start, goal)
    OBVIOUS
  <2>3. NoFurther(GimmeMore(y, l, n), e, m, start, goal)
    BY <2>2, GimmeMoreRight
  <2>. QED BY <2>1, <2>3 DEF NoFurther
<1>3. \A x : x \in W => NoFurther(x, e, m, start, goal)
  OBVIOUS
<1>4. Gimme(h, l, n) = Iterate(f, h, Rounds(h))
  BY DEF Gimme
<1>. HIDE DEF f, W
<1>5. h \in S[0] /\ \A k \in 0..Rounds(h) : k < Rounds(h) => \A y \in S[k] : f[y] \in S[k + 1]
  BY <1>1, <1>2
<1>6. S[Rounds(h)] = W
  BY <1>1
<1>. HIDE DEF S
<1>7. Iterate(f, h, Rounds(h)) \in S[Rounds(h)]
  BY <1>1, <1>5, IterateKeeps
<1>. QED BY <1>3, <1>4, <1>6, <1>7

(* The places where the lists begin, and that of a new one. *)
StartWith(start, m, p) == [l \in 1..m + 1 |-> IF l = m + 1 THEN p ELSE start[l]]

NewListIs(h, h2, rest) ==
  LET l == Len(h.lists) + 1
      i == IF rest = <<>> THEN None ELSE Len(h.iters) + 1
  IN  /\ h2 \in Objects /\ h2.coro = h.coro /\ h2.endless = h.endless /\ Len(h2.lists) = l
      /\ \A m \in 1..Len(h.lists) : h2.lists[m] = h.lists[m]
      /\ h2.lists[l].items = <<>> /\ h2.lists[l].next = i
      /\ Len(h2.iters) = (IF i = None THEN Len(h.iters) ELSE Len(h.iters) + 1)
      /\ \A j \in 1..Len(h.iters) : h2.iters[j] = h.iters[j]
      /\ i # None => NewOver(h2.iters[i], rest, l)

LEMMA NewListFields ==
  ASSUME NEW h \in Objects, NEW rest \in Seq(Element)
  PROVE  NewListIs(h, NewList(h, rest), rest)
<1>. DEFINE l == Len(h.lists) + 1
            i == IF rest = <<>> THEN None ELSE Len(h.iters) + 1
            list == [items |-> <<>>, next |-> i]
            it == ListIter(rest, l)
            lists == Append(h.lists, list)
            iters == IF rest = <<>> THEN h.iters ELSE Append(h.iters, it)
            h2 == [h EXCEPT !.lists = lists, !.iters = iters]
<1>1. /\ h.lists \in Seq(ListRecord) /\ h.iters \in Seq(IterRecord) /\ h.coro \in Nat /\ h.endless \in BOOLEAN
      /\ Len(h.iters) \in Nat /\ Len(h.lists) \in Nat
  BY ObjectsFields
<1>2. NewList(h, rest) = h2
  <2>1. CASE rest = <<>>
    <3>1. i = None /\ iters = h.iters
      BY <2>1
    <3>2. NewList(h, rest) = [h EXCEPT !.lists = lists]
      BY <2>1, <3>1 DEF NewList
    <3>. HIDE DEF lists, iters
    <3>. QED BY <3>1, <3>2 DEF Objects
  <2>2. CASE rest # <<>>
    BY <2>2 DEF NewList
  <2>. QED BY <2>1, <2>2
<1>3. i \in Nat /\ l \in Nat /\ (i = None <=> rest = <<>>)
  BY <1>1 DEF None
<1>4. list \in ListRecord /\ list.items = <<>> /\ list.next = i
  <2>1. <<>> \in Seq(Element)
    OBVIOUS
  <2>. HIDE DEF i
  <2>. QED BY <1>3, <2>1 DEF ListRecord
<1>5. NewOver(it, rest, l)
  BY <1>3, NewFields, Zenon
<1>. HIDE DEF list, it
<1>6. it \in IterRecord
  BY <1>5 DEF NewOver
<1>7. /\ lists \in Seq(ListRecord) /\ Len(lists) = l /\ (\A m \in 1..Len(h.lists) : lists[m] = h.lists[m])
      /\ lists[l] = list
  BY <1>1, <1>4, AppendProperties
<1>8. /\ iters \in Seq(IterRecord) /\ Len(iters) = (IF i = None THEN Len(h.iters) ELSE Len(h.iters) + 1)
      /\ (\A j \in 1..Len(h.iters) : iters[j] = h.iters[j])
      /\ (i # None => iters[i] = it)
  <2>1. CASE rest = <<>>
    BY <1>1, <1>3, <2>1
  <2>2. CASE rest # <<>>
    <3>1. /\ Append(h.iters, it) \in Seq(IterRecord) /\ Len(Append(h.iters, it)) = Len(h.iters) + 1
          /\ (\A j \in 1..Len(h.iters) : Append(h.iters, it)[j] = h.iters[j])
          /\ Append(h.iters, it)[Len(h.iters) + 1] = it
      BY <1>1, <1>6, AppendProperties
    <3>2. iters = Append(h.iters, it) /\ i = Len(h.iters) + 1 /\ i # None
      BY <1>3, <2>2
    <3>. HIDE DEF iters, i
    <3>. QED BY <3>1, <3>2
  <2>. QED BY <2>1, <2>2
<1>. HIDE DEF lists, iters
<1>9. /\ h2 \in Objects /\ h2.lists = lists /\ h2.iters = iters /\ h2.coro = h.coro /\ h2.endless = h.endless
  BY <1>1, <1>7, <1>8 DEF Objects
<1>. HIDE DEF h2
<1>10. NewListIs(h, h2, rest)
  <2>1. i # None => NewOver(h2.iters[i], rest, l)
    BY <1>5, <1>8, <1>9
  <2>2. h2.lists[l].items = <<>> /\ h2.lists[l].next = i
    BY <1>4, <1>7, <1>9
  <2>. QED BY <1>7, <1>8, <1>9, <2>1, <2>2 DEF NewListIs
<1>. QED BY <1>2, <1>10

(* A new list over elements that come to all values after the first p. *)
LEMMA NewListRight ==
  ASSUME NEW h, NEW g, NEW start, Consistent(h, g, start), NEW p \in Nat,
         NEW rest, Continued(rest, p, g.at, Lower(g, Len(h.lists) + 1))
  PROVE  /\ \E g2 : Consistent(NewList(h, rest), g2, StartWith(start, Len(h.lists), p))
         /\ NewListIs(h, NewList(h, rest), rest)
<1>0. /\ h \in Objects /\ Standing(h, g) /\ h.coro <= Source /\ start \in [1..Len(h.lists) -> Nat]
      /\ (\A j \in 1..Len(h.iters) : IterRight(h, g, j))
      /\ (\A m \in 1..Len(h.lists) : ListRight(h, g, start, m)) /\ OneGather(h)
  BY DEF Consistent
<1>1. /\ Len(h.iters) \in Nat /\ Len(h.lists) \in Nat /\ rest \in Seq(Element)
  BY <1>0, ObjectsFields DEF Continued
<1>. DEFINE l == Len(h.lists) + 1
            i == IF rest = <<>> THEN None ELSE Len(h.iters) + 1
            h2 == NewList(h, rest)
            start2 == StartWith(start, Len(h.lists), p)
            g2 == IF i = None THEN g ELSE NextStanding(g, Len(h.iters), i, p, l)
<1>2. NewListIs(h, h2, rest)
  BY <1>0, <1>1, NewListFields
<1>. HIDE DEF h2
<1>3. /\ h2 \in Objects /\ h2.coro = h.coro /\ h2.endless = h.endless /\ Len(h2.lists) = l
      /\ (\A m \in 1..Len(h.lists) : h2.lists[m] = h.lists[m])
      /\ h2.lists[l].items = <<>> /\ h2.lists[l].next = i
      /\ Len(h2.iters) = (IF i = None THEN Len(h.iters) ELSE Len(h.iters) + 1)
      /\ (\A j \in 1..Len(h.iters) : h2.iters[j] = h.iters[j])
      /\ (i # None => NewOver(h2.iters[i], rest, l))
  BY <1>2 DEF NewListIs
<1>4. i \in Nat /\ (i = None \/ i = Len(h.iters) + 1) /\ (i = None <=> rest = <<>>) /\ l \in Nat /\ l # 0
  BY <1>1 DEF None
<1>5. /\ start2 \in [1..l -> Nat] /\ (\A m \in 1..Len(h.lists) : start2[m] = start[m]) /\ start2[l] = p
  <2>1. /\ \A m \in 1..Len(h.lists) : m \in 1..Len(h.lists) + 1 /\ m # Len(h.lists) + 1
        /\ \A m \in 1..Len(h.lists) + 1 : m # Len(h.lists) + 1 => m \in 1..Len(h.lists)
        /\ Len(h.lists) + 1 \in 1..Len(h.lists) + 1
    BY <1>1
  <2>. QED BY <1>0, <2>1 DEF StartWith
<1>. HIDE DEF start2
<1>6. /\ g2.at \in [1..Len(h2.iters) -> Nat] /\ g2.of \in [1..Len(h2.iters) -> 0..l]
      /\ (\A j \in 1..Len(h.iters) : g2.at[j] = g.at[j] /\ g2.of[j] = g.of[j])
      /\ (i # None => g2.at[i] = p /\ g2.of[i] = l)
  <2>1. g.at \in [1..Len(h.iters) -> Nat] /\ g.of \in [1..Len(h.iters) -> 0..Len(h.lists)]
    BY <1>0 DEF Standing
  <2>2. g.of \in [1..Len(h.iters) -> 0..l]
    <3>1. \A j \in 1..Len(h.iters) : g.of[j] \in 0..Len(h.lists)
      BY <2>1
    <3>2. \A j \in 1..Len(h.iters) : g.of[j] \in 0..Len(h.lists) + 1
      BY <1>1, <3>1
    <3>. QED BY <2>1, <3>2
  <2>. HIDE DEF i
  <2>3. CASE i = None
    BY <1>3, <2>1, <2>2, <2>3
  <2>4. CASE i # None
    <3>1. l \in 0..l /\ Len(h2.iters) = IF i = None THEN Len(h.iters) ELSE Len(h.iters) + 1
      BY <1>3, <1>4
    <3>2. g2 = NextStanding(g, Len(h.iters), i, p, l)
      BY <2>4
    <3>. HIDE DEF g2, l
    <3>3. StandingOn(g, g2, Len(h.iters), Len(h2.iters), l, i, p, l)
      BY <1>1, <1>4, <2>1, <2>2, <3>1, <3>2, NextStandingIs, Zenon
    <3>. QED BY <2>4, <3>3 DEF StandingOn
  <2>. QED BY <2>3, <2>4
<1>. HIDE DEF i, g2
<1>7. Standing(h2, g2) /\ Extends(h, g, h2, g2) /\ Len(h2.iters) \in Nat
  <2>1. Len(h2.iters) \in Nat /\ Len(h.iters) <= Len(h2.iters)
    BY <1>1, <1>3
  <2>. QED BY <1>3, <1>6, <2>1 DEF Standing, Extends
<1>8. ASSUME NEW j \in 1..Len(h.iters) PROVE IterRight(h2, g2, j)
  <2>1. h2.iters[j] = h.iters[j] /\ IterRight(h, g, j)
    BY <1>0, <1>3
  <2>2. ~h.iters[j].reified.done /\ ~h.iters[j].gather => h2.lists[g.of[j]].next = j
    <3>. SUFFICES ASSUME ~h.iters[j].reified.done, ~h.iters[j].gather PROVE h2.lists[g.of[j]].next = j
      OBVIOUS
    <3>1. h.lists[g.of[j]].next = j /\ g.of[j] # 0
      BY <2>1 DEF IterRight
    <3>2. g.of[j] \in 1..Len(h.lists)
      BY <1>0, <1>1, <3>1 DEF Standing
    <3>. QED BY <1>3, <3>1, <3>2
  <2>. QED BY <1>0, <1>1, <1>3, <1>7, <2>1, <2>2, StaysRight
<1>9. ASSUME i # None PROVE IterRight(h2, g2, i) /\ i \in 1..Len(h2.iters)
  <2>1. /\ ~h2.iters[i].gather /\ ~h2.iters[i].reified.done /\ h2.iters[i].rest = rest /\ h2.iters[i].list = l
    BY <1>3, <1>9 DEF NewOver
  <2>2. Continued(rest, p, g2.at, Lower(g2, l))
    <3>1. \A m : \A j \in Lower(g, m) : j \in Lower(g2, m) /\ g2.at[j] = g.at[j]
      BY <1>0, <1>1, <1>7, SetsGrow
    <3>2. \A j \in Lower(g, l) : j \in Lower(g2, l) /\ g2.at[j] = g.at[j]
      BY <3>1, Zenon
    <3>. QED BY <3>2, ContinuedToo, Zenon
  <2>3. i \in 1..Len(h2.iters)
    BY <1>1, <1>3, <1>4, <1>9
  <2>. QED BY <1>3, <1>4, <1>6, <1>9, <2>1, <2>2, <2>3 DEF IterRight
<1>10. \A j \in 1..Len(h2.iters) : j \in 1..Len(h.iters) \/ (i # None /\ j = i)
  BY <1>1, <1>3, <1>4
<1>11. \A j \in 1..Len(h2.iters) : IterRight(h2, g2, j)
  BY <1>8, <1>9, <1>10
<1>12. OneGather(h2)
  <2>1. \A j \in 1..Len(h2.iters) : h2.iters[j].gather => j \in 1..Len(h.iters) /\ h2.iters[j] = h.iters[j]
    BY <1>3, <1>10 DEF NewOver
  <2>. QED BY <1>0, <2>1 DEF OneGather
<1>13. ASSUME NEW m \in 1..Len(h.lists) PROVE ListRight(h2, g2, start2, m)
  <2>1. ListRight(h, g, start, m) /\ h2.lists[m] = h.lists[m] /\ start2[m] = start[m]
    BY <1>0, <1>3, <1>5
  <2>2. h.lists[m].next # None => h2.iters[h.lists[m].next] = h.iters[h.lists[m].next]
    BY <1>3, <2>1 DEF ListRight
  <2>3. ListRight(h2, g2, start, m)
    BY <1>1, <1>7, <2>1, <2>2, ListStays
  <2>. QED BY <2>1, <2>3 DEF ListRight
<1>14. ListRight(h2, g2, start2, l)
  <2>1. ValuesFrom(<<>>, start2[l]) /\ start2[l] + Len(<<>>) = p
    BY <1>5, NothingYet
  <2>2. i = None => p = Source
    <3>1. i = None => Ends(rest) /\ Len(rest) = 0
      BY <1>4 DEF Ends
    <3>. QED BY <3>1 DEF Continued
  <2>3. i # None => i \in 1..Len(h2.iters) /\ ~h2.iters[i].reified.done /\ g2.of[i] = l /\ g2.at[i] = p
    BY <1>3, <1>6, <1>9 DEF NewOver
  <2>. QED BY <1>3, <2>1, <2>2, <2>3 DEF ListRight
<1>15. \A m \in 1..Len(h2.lists) : ListRight(h2, g2, start2, m)
  <2>1. \A m \in 1..Len(h2.lists) : m \in 1..Len(h.lists) \/ m = l
    BY <1>1, <1>3
  <2>. QED BY <1>13, <1>14, <2>1
<1>16. Consistent(h2, g2, start2)
  BY <1>0, <1>3, <1>5, <1>7, <1>11, <1>12, <1>15 DEF Consistent
<1>. QED BY <1>2, <1>16 DEF h2, start2
-----------------------------------------------------------------------------
(* The place where each list begins now. *)
Starts(sh, o, m) == [l \in 1..m |-> o[l] + Len(sh[l])]

(* The lists, and what was shifted from them, stand in one order of places. *)
InPlace(h, sh, o, a) ==
  /\ sh \in Seq(Seq(Element)) /\ o \in Seq(Nat) /\ a \in 0..Source
  /\ Len(sh) = Len(h.lists) /\ Len(o) = Len(h.lists)
  /\ \A l \in 1..Len(h.lists) : ValuesFrom(sh[l], o[l])
  /\ h.coro <= a
  /\ \E g : Consistent(h, g, Starts(sh, o, Len(h.lists)))

LlInv == InPlace(lazy, shifted, origin, asked)

LEMMA InPlaceFields ==
  ASSUME NEW h, NEW sh, NEW o, NEW a, InPlace(h, sh, o, a)
  PROVE  /\ h \in Objects /\ Len(h.lists) \in Nat /\ h.endless \in BOOLEAN /\ DOMAIN h.lists = 1..Len(h.lists)
         /\ \A l \in 1..Len(h.lists) :
              /\ o[l] \in Nat /\ sh[l] \in Seq(Element) /\ Len(sh[l]) \in Nat
              /\ Starts(sh, o, Len(h.lists))[l] = o[l] + Len(sh[l])
<1>1. h \in Objects
  BY DEF InPlace, Consistent
<1>2. Len(h.lists) \in Nat /\ h.endless \in BOOLEAN /\ DOMAIN h.lists = 1..Len(h.lists)
  BY <1>1, ObjectsFields
<1>3. ASSUME NEW l \in 1..Len(h.lists)
      PROVE  o[l] \in Nat /\ sh[l] \in Seq(Element) /\ Len(sh[l]) \in Nat
  <2>1. o[l] \in Nat
    BY ElementOfSeq DEF InPlace
  <2>2. sh[l] \in Seq(Element)
    BY DEF InPlace, ValuesFrom
  <2>. QED BY <2>1, <2>2, SeqFacts
<1>. QED BY <1>1, <1>2, <1>3 DEF Starts

Gimmed(h, h2, sh, o, a2) == InPlace(h2, sh, o, a2) /\ Len(h2.lists) = Len(h.lists)

LEMMA GimmeInPlace ==
  ASSUME NEW h, NEW sh, NEW o, NEW a, InPlace(h, sh, o, a), NEW l \in 1..Len(h.lists), NEW n, NEW a2,
         a <= a2, Asked(h.endless, o[l] + Len(sh[l]), n, a2)
  PROVE  Gimmed(h, Gimme(h, l, n), sh, o, a2)
<1>. DEFINE start == Starts(sh, o, Len(h.lists))
            h2 == Gimme(h, l, n)
<1>1. h \in Objects /\ a2 \in 0..Source /\ h.coro <= a2
  <2>1. a \in 0..Source /\ h.coro <= a /\ h \in Objects /\ h.coro \in Nat
    BY InPlaceFields, ObjectsFields DEF InPlace
  <2>2. a2 \in 0..Source
    BY DEF Asked
  <2>. QED BY <2>1, <2>2, LazyListAssumption
<1>2. NoFurther(h, h.endless, Len(h.lists), start, a2)
  BY <1>1 DEF InPlace, NoFurther
<1>3. Asked(h.endless, start[l], n, a2)
  BY InPlaceFields
<1>. HIDE DEF start
<1>4. NoFurther(h2, h.endless, Len(h.lists), start, a2)
  BY <1>2, <1>3, GimmeRight
<1>5. /\ Len(h2.lists) = Len(h.lists) /\ h2.endless = h.endless /\ h2.coro <= a2
      /\ \E g : Consistent(h2, g, Starts(sh, o, Len(h2.lists)))
  BY <1>4 DEF NoFurther, start
<1>. HIDE DEF h2
<1>6. InPlace(h2, sh, o, a2)
  BY <1>1, <1>5 DEF InPlace
<1>. QED BY <1>5, <1>6 DEF h2, Gimmed

(* The first element of a list is shifted from it. *)
Shifted(h, l) == [h EXCEPT !.lists[l].items = Tail(@)]

ShiftedIs(h, h2, l) ==
  /\ h2 \in Objects /\ h2.iters = h.iters /\ h2.coro = h.coro /\ h2.endless = h.endless
  /\ Len(h2.lists) = Len(h.lists) /\ h2.lists[l].items = Tail(h.lists[l].items)
  /\ \A m \in 1..Len(h.lists) : h2.lists[m].next = h.lists[m].next /\ (m # l => h2.lists[m] = h.lists[m])

LEMMA ShiftedFields ==
  ASSUME NEW h \in Objects, NEW l \in 1..Len(h.lists), h.lists[l].items # <<>>
  PROVE  ShiftedIs(h, Shifted(h, l), l)
<1>. DEFINE list == [h.lists[l] EXCEPT !.items = Tail(@)]
            lists == [h.lists EXCEPT ![l] = list]
            h2 == [h EXCEPT !.lists = lists]
<1>1. /\ h.lists \in Seq(ListRecord) /\ h.iters \in Seq(IterRecord) /\ h.coro \in Nat /\ h.endless \in BOOLEAN
      /\ Len(h.lists) \in Nat /\ h.lists[l] \in ListRecord
  BY ObjectsFields
<1>2. Shifted(h, l) = h2
  BY DEF Shifted
<1>3. h.lists[l].items \in Seq(Element)
  BY <1>1 DEF ListRecord
<1>4. Tail(h.lists[l].items) \in Seq(Element)
  BY <1>3, HeadTailProperties
<1>5. list \in ListRecord /\ list.items = Tail(h.lists[l].items) /\ list.next = h.lists[l].next
  BY <1>1, <1>4 DEF ListRecord
<1>. HIDE DEF list
<1>6. /\ lists \in Seq(ListRecord) /\ Len(lists) = Len(h.lists) /\ lists[l] = list
      /\ \A m \in 1..Len(h.lists) : m # l => lists[m] = h.lists[m]
  BY <1>1, <1>5, ExceptSeq
<1>. HIDE DEF lists
<1>7. /\ h2 \in Objects /\ h2.lists = lists /\ h2.iters = h.iters /\ h2.coro = h.coro /\ h2.endless = h.endless
  BY <1>1, <1>6 DEF Objects
<1>. HIDE DEF h2
<1>8. ShiftedIs(h, h2, l)
  BY <1>5, <1>6, <1>7 DEF ShiftedIs
<1>. QED BY <1>2, <1>8

LEMMA FirstOf ==
  ASSUME NEW e, NEW p \in Nat, ValuesFrom(e, p), e # <<>>
  PROVE  ValuesFrom(Tail(e), p + 1) /\ Len(Tail(e)) = Len(e) - 1 /\ ValuesFrom(<<Head(e)>>, p)
<1>0. e \in Seq(Element) /\ Len(e) \in Nat /\ Len(e) # 0
  BY SeqFacts DEF ValuesFrom
<1>1. Tail(e) \in Seq(Element) /\ Len(Tail(e)) = Len(e) - 1 /\ \A k \in 1..Len(e) - 1 : Tail(e)[k] = e[k + 1]
  BY <1>0, HeadTailProperties
<1>2. \A k \in 1..Len(Tail(e)) : Tail(e)[k] = Value(p + 1 + k)
  <2>. SUFFICES ASSUME NEW k \in 1..Len(Tail(e)) PROVE Tail(e)[k] = Value(p + 1 + k)
    OBVIOUS
  <2>1. k \in 1..Len(e) - 1 /\ k + 1 \in 1..Len(e) /\ p + (k + 1) = p + 1 + k
    BY <1>0, <1>1
  <2>. QED BY <1>1, <2>1 DEF ValuesFrom
<1>3. ValuesFrom(<<Head(e)>>, p)
  <2>1. 1 \in 1..Len(e) /\ Head(e) = e[1]
    BY <1>0
  <2>2. Head(e) = Value(p + 1) /\ Head(e) \in Element
    BY <1>0, <2>1, SeqFacts DEF ValuesFrom
  <2>. QED BY <2>2 DEF ValuesFrom
<1>. QED BY <1>1, <1>2, <1>3 DEF ValuesFrom

LEMMA ShiftInPlace ==
  ASSUME NEW h, NEW sh, NEW o, NEW a, InPlace(h, sh, o, a), NEW l \in 1..Len(h.lists), h.lists[l].items # <<>>
  PROVE  InPlace(Shifted(h, l), [sh EXCEPT ![l] = Append(@, Head(h.lists[l].items))], o, a)
<1>. DEFINE m == Len(h.lists)
            items == h.lists[l].items
            s2 == Append(sh[l], Head(items))
            sh2 == [sh EXCEPT ![l] = s2]
            start == Starts(sh, o, m)
            start2 == Starts(sh2, o, m)
            h2 == Shifted(h, l)
<1>0. /\ sh \in Seq(Seq(Element)) /\ o \in Seq(Nat) /\ a \in 0..Source /\ Len(sh) = m /\ Len(o) = m
      /\ (\A k \in 1..m : ValuesFrom(sh[k], o[k])) /\ h.coro <= a /\ h \in Objects /\ m \in Nat
      /\ \A k \in 1..m : o[k] \in Nat /\ sh[k] \in Seq(Element) /\ Len(sh[k]) \in Nat
  BY InPlaceFields DEF InPlace
<1>1. PICK g : Consistent(h, g, start)
  BY DEF InPlace
<1>2. ShiftedIs(h, h2, l)
  BY <1>0, ShiftedFields
<1>. HIDE DEF h2
<1>3. /\ h2 \in Objects /\ h2.iters = h.iters /\ h2.coro = h.coro /\ Len(h2.lists) = m
      /\ h2.lists[l].items = Tail(items)
      /\ \A k \in 1..m : h2.lists[k].next = h.lists[k].next /\ (k # l => h2.lists[k] = h.lists[k])
  BY <1>2 DEF ShiftedIs
<1>4. start[l] = o[l] + Len(sh[l]) /\ start[l] \in Nat /\ ListRight(h, g, start, l)
  BY <1>0, <1>1 DEF Starts, Consistent
<1>5. /\ ValuesFrom(Tail(items), start[l] + 1) /\ Len(Tail(items)) = Len(items) - 1
      /\ ValuesFrom(<<Head(items)>>, start[l]) /\ Len(items) \in Nat
  <2>1. ValuesFrom(items, start[l])
    BY <1>4 DEF ListRight
  <2>2. Len(items) \in Nat
    BY <2>1, SeqFacts DEF ValuesFrom
  <2>. QED BY <1>4, <2>1, <2>2, FirstOf
<1>. HIDE DEF items
<1>6. ValuesFrom(s2, o[l]) /\ Len(s2) = Len(sh[l]) + 1 /\ s2 \in Seq(Element)
  <2>1. ValuesFrom(<<Head(items)>>, o[l] + Len(sh[l])) /\ ValuesFrom(sh[l], o[l]) /\ o[l] \in Nat
    BY <1>0, <1>4, <1>5
  <2>2. ValuesFrom(sh[l] \o <<Head(items)>>, o[l]) /\ Len(sh[l] \o <<Head(items)>>) = Len(sh[l]) + Len(<<Head(items)>>)
    BY <2>1, JoinedValues, Zenon
  <2>3. Head(items) \in Element
    BY <1>5 DEF ValuesFrom
  <2>4. s2 = sh[l] \o <<Head(items)>> /\ Len(<<Head(items)>>) = 1
    <3>. DEFINE x == Head(items)
    <3>1. x \in Element /\ sh[l] \in Seq(Element)
      BY <1>0, <2>3
    <3>. HIDE DEF x
    <3>2. Append(sh[l], x) = sh[l] \o <<x>> /\ Len(<<x>>) = 1
      BY <3>1
    <3>. QED BY <3>2 DEF x
  <2>. QED BY <2>2, <2>4 DEF ValuesFrom
<1>. HIDE DEF s2
<1>7. /\ sh2 \in Seq(Seq(Element)) /\ Len(sh2) = m /\ sh2[l] = s2
      /\ \A k \in 1..m : k # l => sh2[k] = sh[k]
  BY <1>0, <1>6, ExceptSeq
<1>. HIDE DEF sh2
<1>8. /\ start2 \in [1..m -> Nat] /\ start2[l] = start[l] + 1 /\ \A k \in 1..m : k # l => start2[k] = start[k]
  <2>1. \A k \in 1..m : sh2[k] \in Seq(Element) /\ Len(sh2[k]) \in Nat /\ o[k] \in Nat
    BY <1>0, <1>6, <1>7, SeqFacts
  <2>2. start2 \in [1..m -> Nat]
    BY <2>1 DEF Starts
  <2>3. start2[l] = o[l] + Len(s2)
    BY <1>7 DEF Starts
  <2>4. start2[l] = start[l] + 1
    <3>1. o[l] \in Nat /\ Len(sh[l]) \in Nat /\ start[l] = o[l] + Len(sh[l]) /\ Len(s2) = Len(sh[l]) + 1
      BY <1>0, <1>4, <1>6
    <3>2. \A x, y \in Nat : x + (y + 1) = x + y + 1
      OBVIOUS
    <3>. QED BY <2>3, <3>1, <3>2, Zenon
  <2>5. \A k \in 1..m : k # l => start2[k] = start[k]
    BY <1>7 DEF Starts
  <2>. QED BY <2>2, <2>4, <2>5
<1>. HIDE DEF start, start2
<1>9. ASSUME NEW k \in 1..m PROVE ListRight(h2, g, start2, k)
  <2>1. ListRight(h, g, start, k)
    BY <1>1 DEF Consistent
  <2>2. CASE k # l
    BY <1>3, <1>8, <2>1, <2>2 DEF ListRight
  <2>3. CASE k = l
    <3>1. start2[l] + Len(Tail(items)) = start[l] + Len(items)
      <4>1. \A x, y \in Nat : x + 1 + (y - 1) = x + y
        OBVIOUS
      <4>2. start2[l] = start[l] + 1 /\ Len(Tail(items)) = Len(items) - 1 /\ start[l] \in Nat /\ Len(items) \in Nat
        BY <1>4, <1>5, <1>8
      <4>. QED BY <4>1, <4>2, Zenon
    <3>2. /\ h.lists[l].next = None => start[l] + Len(items) = Source
          /\ h.lists[l].next # None => /\ h.lists[l].next \in 1..Len(h.iters) /\ ~h.iters[h.lists[l].next].reified.done
                             /\ g.of[h.lists[l].next] = l /\ g.at[h.lists[l].next] = start[l] + Len(items)
      BY <1>4 DEF ListRight, items
    <3>3. h2.lists[l].next = h.lists[l].next /\ ValuesFrom(h2.lists[l].items, start2[l])
      BY <1>3, <1>5, <1>8
    <3>. QED BY <1>3, <2>3, <3>1, <3>2, <3>3 DEF ListRight
  <2>. QED BY <2>2, <2>3
<1>10. ASSUME NEW i \in 1..Len(h2.iters) PROVE IterRight(h2, g, i)
  <2>1. IterRight(h, g, i) /\ h2.iters[i] = h.iters[i] /\ h2.coro = h.coro
    BY <1>1, <1>3 DEF Consistent
  <2>2. ~h.iters[i].reified.done /\ ~h.iters[i].gather => g.of[i] \in 1..m
    <3>1. g.of[i] \in 0..m
      BY <1>1, <1>3 DEF Consistent, Standing
    <3>2. h.iters[i].gather <=> g.of[i] = 0
      BY <2>1 DEF IterRight
    <3>3. m \in Nat
      BY <1>0
    <3>. QED BY <3>1, <3>2, <3>3
  <2>. QED BY <1>3, <2>1, <2>2 DEF IterRight
<1>11. Consistent(h2, g, start2)
  <2>1. Standing(h, g) /\ h.coro <= Source /\ OneGather(h)
    BY <1>1 DEF Consistent
  <2>2. Standing(h2, g) /\ OneGather(h2)
    BY <1>3, <2>1 DEF Standing, OneGather
  <2>. QED BY <1>3, <1>8, <1>9, <1>10, <2>1, <2>2 DEF Consistent
<1>12. \A k \in 1..m : ValuesFrom(sh2[k], o[k])
  BY <1>0, <1>6, <1>7
<1>13. InPlace(h2, sh2, o, a)
  BY <1>0, <1>3, <1>7, <1>11, <1>12 DEF InPlace, start2
<1>. QED BY <1>13 DEF h2, sh2, s2, items

(* Iterators of the lists made so far, which are all of them. *)
LEMMA AllLower ==
  ASSUME NEW h, NEW g, NEW start, Consistent(h, g, start)
  PROVE  Lower(g, Len(h.lists) + 1) = 1..Len(h.iters)
<1>1. Len(h.iters) \in Nat /\ Len(h.lists) \in Nat
  BY ObjectsFields DEF Consistent
<1>2. g.of \in [1..Len(h.iters) -> 0..Len(h.lists)]
  BY DEF Consistent, Standing
<1>3. \A j \in 1..Len(h.iters) : g.of[j] < Len(h.lists) + 1
  <2>1. \A j \in 1..Len(h.iters) : g.of[j] \in 0..Len(h.lists)
    BY <1>2
  <2>. QED BY <1>1, <2>1
<1>. QED BY <1>2, <1>3 DEF Lower

LEMMA ListParcelRight ==
  ASSUME NEW h, NEW g, NEW start, Consistent(h, g, start), NEW l \in 1..Len(h.lists)
  PROVE  Continued(ListParcel(h, l), start[l], g.at, 1..Len(h.iters))
<1>1. ListRight(h, g, start, l) /\ start[l] \in Nat
  BY DEF Consistent
<1>2. ValuesFrom(h.lists[l].items, start[l])
  BY <1>1 DEF ListRight
<1>3. /\ h.lists[l].next = None => start[l] + Len(h.lists[l].items) = Source
      /\ h.lists[l].next # None => h.lists[l].next \in 1..Len(h.iters)
                                   /\ g.at[h.lists[l].next] = start[l] + Len(h.lists[l].items)
  BY <1>1 DEF ListRight
<1>4. h.lists[l].next \in Nat
  BY <1>3, ObjectsFields DEF Consistent, None
<1>. DEFINE s == h.lists[l].items
            i == h.lists[l].next
<1>5. ListParcel(h, l) = s \o NextItem(i)
  BY DEF ListParcel
<1>. HIDE DEF s, i
<1>6. /\ ValuesFrom(s, start[l]) /\ i \in Nat /\ (i = None => start[l] + Len(s) = Source)
      /\ i # None => i \in 1..Len(h.iters) /\ g.at[i] = start[l] + Len(s)
  BY <1>2, <1>3, <1>4 DEF s, i
<1>7. Continued(s \o NextItem(i), start[l], g.at, 1..Len(h.iters))
  BY <1>1, <1>6, WithNext
<1>. QED BY <1>5, <1>7

LEMMA LongerBy ==
  ASSUME NEW S, NEW s \in Seq(S), NEW x \in S
  PROVE  /\ Append(s, x) \in Seq(S) /\ Len(Append(s, x)) = Len(s) + 1 /\ Append(s, x)[Len(s) + 1] = x
         /\ \A k \in 1..Len(s) : Append(s, x)[k] = s[k]
BY AppendProperties

(* A list over the elements and the iterator of another begins where that one
   has got to. *)
LEMMA DerivedInPlace ==
  ASSUME NEW h, NEW sh, NEW o, NEW a, InPlace(h, sh, o, a), NEW l \in 1..Len(h.lists)
  PROVE  InPlace(NewList(h, ListParcel(h, l)), Append(sh, <<>>), Append(o, o[l] + Len(sh[l])), a)
<1>. DEFINE m == Len(h.lists)
            p == o[l] + Len(sh[l])
            sh2 == Append(sh, <<>>)
            o2 == Append(o, p)
            start == Starts(sh, o, m)
            start2 == Starts(sh2, o2, m + 1)
            rest == ListParcel(h, l)
            h2 == NewList(h, rest)
<1>0. /\ sh \in Seq(Seq(Element)) /\ o \in Seq(Nat) /\ a \in 0..Source /\ Len(sh) = m /\ Len(o) = m
      /\ (\A k \in 1..m : ValuesFrom(sh[k], o[k])) /\ h.coro <= a /\ h \in Objects /\ m \in Nat
      /\ \A k \in 1..m : o[k] \in Nat /\ sh[k] \in Seq(Element) /\ Len(sh[k]) \in Nat
  BY InPlaceFields DEF InPlace
<1>1. PICK g : Consistent(h, g, start)
  BY DEF InPlace
<1>2. start[l] = p /\ p \in Nat
  BY <1>0 DEF Starts
<1>. HIDE DEF p
<1>3. Continued(rest, p, g.at, Lower(g, m + 1))
  BY <1>1, <1>2, ListParcelRight, AllLower
<1>. HIDE DEF rest
<1>4. (\E g2 : Consistent(h2, g2, StartWith(start, m, p))) /\ NewListIs(h, h2, rest)
  <2>. HIDE DEF start
  <2>. QED BY <1>1, <1>2, <1>3, NewListRight
<1>. HIDE DEF h2
<1>5. Len(h2.lists) = m + 1 /\ h2.coro = h.coro
  BY <1>4 DEF NewListIs
<1>6. /\ sh2 \in Seq(Seq(Element)) /\ Len(sh2) = m + 1 /\ sh2[m + 1] = <<>>
      /\ \A k \in 1..m : sh2[k] = sh[k]
  <2>1. <<>> \in Seq(Element)
    OBVIOUS
  <2>2. /\ sh2 \in Seq(Seq(Element)) /\ Len(sh2) = Len(sh) + 1 /\ sh2[Len(sh) + 1] = <<>>
        /\ \A k \in 1..Len(sh) : sh2[k] = sh[k]
    <3>1. sh \in Seq(Seq(Element))
      BY <1>0
    <3>. QED BY <2>1, <3>1, LongerBy
  <2>. HIDE DEF sh2
  <2>. QED BY <1>0, <2>2
<1>7. /\ o2 \in Seq(Nat) /\ Len(o2) = m + 1 /\ o2[m + 1] = p
      /\ \A k \in 1..m : o2[k] = o[k]
  <2>1. /\ o2 \in Seq(Nat) /\ Len(o2) = Len(o) + 1 /\ o2[Len(o) + 1] = p
        /\ \A k \in 1..Len(o) : o2[k] = o[k]
    <3>1. o \in Seq(Nat)
      BY <1>0
    <3>. QED BY <1>2, <3>1, LongerBy
  <2>. HIDE DEF o2
  <2>. QED BY <1>0, <2>1
<1>. HIDE DEF sh2, o2
<1>8. start2 = StartWith(start, m, p)
  <2>1. ASSUME NEW k \in 1..m + 1 PROVE o2[k] + Len(sh2[k]) = IF k = m + 1 THEN p ELSE start[k]
    <3>1. CASE k = m + 1
      <4>1. Len(<<>>) = 0 /\ p + 0 = p
        BY <1>2
      <4>. QED BY <1>6, <1>7, <3>1, <4>1
    <3>2. CASE k # m + 1
      <4>1. k \in 1..m
        BY <1>0, <3>2
      <4>. QED BY <1>6, <1>7, <3>2, <4>1 DEF Starts
    <3>. QED BY <3>1, <3>2
  <2>. HIDE DEF start
  <2>2. [k \in 1..m + 1 |-> o2[k] + Len(sh2[k])] = [k \in 1..m + 1 |-> IF k = m + 1 THEN p ELSE start[k]]
    BY <2>1
  <2>. QED BY <2>2 DEF Starts, StartWith
<1>9. ASSUME NEW k \in 1..m + 1 PROVE ValuesFrom(sh2[k], o2[k])
  <2>1. CASE k = m + 1
    BY <1>6, <1>7, <2>1, NothingYet
  <2>2. CASE k # m + 1
    <3>1. k \in 1..m
      BY <1>0, <2>2
    <3>. QED BY <1>0, <1>6, <1>7, <3>1
  <2>. QED BY <2>1, <2>2
<1>. HIDE DEF start
<1>10. \E g2 : Consistent(h2, g2, start2)
  BY <1>4, <1>8
<1>11. InPlace(h2, sh2, o2, a)
  BY <1>0, <1>5, <1>6, <1>7, <1>9, <1>10 DEF InPlace
<1>. QED BY <1>11 DEF h2, sh2, o2, p, rest

LEMMA OneInPlace ==
  ASSUME NEW h, NEW sh \in Seq(Seq(Element)), NEW o \in Seq(Nat), Len(sh) = 1, Len(o) = 1,
         Len(h.lists) = 1, h.coro = 0, \A l \in 1..1 : ValuesFrom(sh[l], o[l]),
         \E g : Consistent(h, g, Starts(sh, o, Len(h.lists)))
  PROVE  InPlace(h, sh, o, 0)
BY LazyListAssumption DEF InPlace

(* The iterator of the gather block, before anything is reified. *)
LEMMA InitInPlace ==
  ASSUME NEW endless \in BOOLEAN,
         NEW h, h = NewList([lists |-> <<>>, iters |-> <<GatherIter>>, coro |-> 0, endless |-> endless], <<Iter(1)>>)
  PROVE  InPlace(h, <<<<>>>>, <<0>>, 0)
<1>. DEFINE h0 == [lists |-> <<>>, iters |-> <<GatherIter>>, coro |-> 0, endless |-> endless]
            g0 == [at |-> <<0>>, of |-> <<0>>]
            start0 == [l \in 1..0 |-> 0]
<1>1. h0 \in Objects /\ Len(h0.lists) = 0 /\ Len(h0.iters) = 1 /\ h0.iters[1] = GatherIter /\ h0.coro = 0
  <2>1. <<>> \in Seq(ListRecord) /\ Len(<<>>) = 0
    OBVIOUS
  <2>2. GatherIter \in IterRecord
    BY NewFields
  <2>3. <<GatherIter>> \in Seq(IterRecord) /\ Len(<<GatherIter>>) = 1 /\ <<GatherIter>>[1] = GatherIter
    BY <2>2
  <2>. QED BY <2>1, <2>3 DEF Objects
<1>2. GatherIter.gather /\ ~GatherIter.reified.done
  BY NewFields
<1>3. g0.at \in [1..1 -> Nat] /\ g0.of \in [1..1 -> 0..0] /\ g0.at[1] = 0 /\ g0.of[1] = 0
  OBVIOUS
<1>. HIDE DEF h0, g0
<1>4. Consistent(h0, g0, start0)
  <2>1. \A j \in 1..1 : j = 1
    OBVIOUS
  <2>2. Standing(h0, g0)
    BY <1>1, <1>3 DEF Standing
  <2>3. IterRight(h0, g0, 1)
    BY <1>1, <1>2, <1>3 DEF IterRight
  <2>4. OneGather(h0)
    BY <1>1, <2>1 DEF OneGather
  <2>5. start0 \in [1..Len(h0.lists) -> Nat]
    BY <1>1
  <2>6. h0.coro <= Source
    BY <1>1, LazyListAssumption
  <2>7. \A l \in 1..Len(h0.lists) : ListRight(h0, g0, start0, l)
    <3>1. \A l \in 1..0 : FALSE
      OBVIOUS
    <3>. QED BY <1>1, <3>1
  <2>. QED BY <1>1, <2>1, <2>2, <2>3, <2>4, <2>5, <2>6, <2>7 DEF Consistent
<1>5. Continued(<<Iter(1)>>, 0, g0.at, Lower(g0, Len(h0.lists) + 1))
  <2>1. 1 \in Lower(g0, Len(h0.lists) + 1)
    BY <1>1, <1>3 DEF Lower
  <2>2. 1 # None
    BY DEF None
  <2>. QED BY <1>3, <2>1, <2>2, ToTheNext
<1>6. /\ \E g : Consistent(NewList(h0, <<Iter(1)>>), g, StartWith(start0, Len(h0.lists), 0))
      /\ NewListIs(h0, NewList(h0, <<Iter(1)>>), <<Iter(1)>>)
  <2>. HIDE DEF start0
  <2>. QED BY <1>4, <1>5, NewListRight
<1>7. h = NewList(h0, <<Iter(1)>>)
  BY DEF h0
<1>8. Len(h.lists) = 1 /\ h.coro = 0
  BY <1>1, <1>6, <1>7 DEF NewListIs
<1>9. Starts(<<<<>>>>, <<0>>, Len(h.lists)) = StartWith(start0, Len(h0.lists), 0)
  <2>. DEFINE S1 == Starts(<<<<>>>>, <<0>>, 1)
              S2 == StartWith(start0, 0, 0)
  <2>1. S1 = [l \in 1..1 |-> 0]
    BY DEF Starts
  <2>2. S2 = [l \in 1..1 |-> 0]
    BY DEF StartWith
  <2>. QED BY <1>1, <1>8, <2>1, <2>2
<1>. HIDE DEF start0
<1>10. \E g : Consistent(h, g, Starts(<<<<>>>>, <<0>>, Len(h.lists)))
  BY <1>6, <1>7, <1>9
<1>11. /\ <<<<>>>> \in Seq(Seq(Element)) /\ <<0>> \in Seq(Nat) /\ Len(<<<<>>>>) = 1 /\ Len(<<0>>) = 1
       /\ \A l \in 1..1 : <<<<>>>>[l] = <<>>
  OBVIOUS
<1>12. \A l \in 1..1 : ValuesFrom(<<<<>>>>[l], <<0>>[l])
  BY <1>11, NothingYet
<1>. DEFINE sh == <<<<>>>>
            o == <<0>>
<1>14. /\ sh \in Seq(Seq(Element)) /\ o \in Seq(Nat) /\ Len(sh) = 1 /\ Len(o) = 1
       /\ \A l \in 1..1 : ValuesFrom(sh[l], o[l])
  BY <1>11, <1>12
<1>15. \E g : Consistent(h, g, Starts(sh, o, Len(h.lists)))
  BY <1>10
<1>. HIDE DEF sh, o
<1>16. InPlace(h, sh, o, 0)
  BY <1>8, <1>14, <1>15, OneInPlace, Zenon
<1>. QED BY <1>16 DEF sh, o
-----------------------------------------------------------------------------
LEMMA LlInvInit == LlInit => LlInv
<1>. SUFFICES ASSUME LlInit PROVE LlInv
  OBVIOUS
<1>1. PICK endless \in BOOLEAN :
        lazy = NewList([lists |-> <<>>, iters |-> <<GatherIter>>, coro |-> 0, endless |-> endless], <<Iter(1)>>)
  BY DEF LlInit
<1>2. shifted = <<<<>>>> /\ origin = <<0>> /\ asked = 0
  BY DEF LlInit
<1>3. InPlace(lazy, <<<<>>>>, <<0>>, 0)
  BY <1>1, InitInPlace
<1>. QED BY <1>2, <1>3 DEF LlInv

LEMMA LlInvFields ==
  ASSUME LlInv
  PROVE  /\ asked \in Nat /\ asked <= Source /\ Source \in Nat /\ lazy.endless \in BOOLEAN
         /\ \A l \in ListNumbers : l \in 1..Len(lazy.lists) /\ Before(l) = origin[l] + Len(shifted[l]) /\ Before(l) \in Nat
<1>1. Source \in Nat /\ asked \in 0..Source
  BY LazyListAssumption DEF LlInv, InPlace
<1>2. /\ lazy.endless \in BOOLEAN /\ DOMAIN lazy.lists = 1..Len(lazy.lists)
      /\ \A l \in 1..Len(lazy.lists) : origin[l] \in Nat /\ Len(shifted[l]) \in Nat
  BY InPlaceFields DEF LlInv
<1>. QED BY <1>1, <1>2 DEF ListNumbers, Before

LEMMA LlGimmeKeeps ==
  ASSUME LlInv, NEW l \in ListNumbers, NEW n \in 0..MaxGimme, Before(l) + n <= Source, LlGimme(l, n)
  PROVE  LlInv'
<1>1. /\ asked \in Nat /\ asked <= Source /\ Source \in Nat /\ l \in 1..Len(lazy.lists)
      /\ Before(l) = origin[l] + Len(shifted[l]) /\ Before(l) \in Nat /\ n \in Nat
  BY LlInvFields, LazyListAssumption
<1>2. /\ lazy' = Gimme(lazy, l, n) /\ shifted' = shifted /\ origin' = origin
      /\ asked' = IF Before(l) + n > asked THEN Before(l) + n ELSE asked
  BY DEF LlGimme, Needs
<1>3. asked <= asked' /\ Asked(lazy.endless, origin[l] + Len(shifted[l]), n, asked')
  <2>1. asked' \in 0..Source /\ asked <= asked' /\ Before(l) + n <= asked'
    BY <1>1, <1>2
  <2>. QED BY <1>1, <2>1 DEF Asked
<1>4. InPlace(Gimme(lazy, l, n), shifted, origin, asked')
  <2>1. Gimmed(lazy, Gimme(lazy, l, n), shifted, origin, asked')
    BY <1>1, <1>3, GimmeInPlace DEF LlInv
  <2>. QED BY <2>1 DEF Gimmed
<1>. QED BY <1>2, <1>4 DEF LlInv

LEMMA LlElemsKeeps ==
  ASSUME LlInv, NEW l \in ListNumbers, LlElems(l)
  PROVE  LlInv'
<1>1. /\ asked \in Nat /\ asked <= Source /\ Source \in Nat /\ l \in 1..Len(lazy.lists) /\ lazy.endless \in BOOLEAN
      /\ Before(l) = origin[l] + Len(shifted[l]) /\ Before(l) \in Nat
  BY LlInvFields
<1>2. /\ lazy' = Gimme(lazy, l, Whatever) /\ shifted' = shifted /\ origin' = origin
      /\ \E n : n = (IF lazy.endless THEN 0 ELSE Source) /\ asked' = IF n > asked THEN n ELSE asked
  BY DEF LlElems, Needs
<1>3. asked <= asked' /\ Asked(lazy.endless, origin[l] + Len(shifted[l]), Whatever, asked')
  <2>1. asked' \in 0..Source /\ asked <= asked' /\ (lazy.endless \/ asked' = Source)
    BY <1>1, <1>2
  <2>. QED BY <2>1 DEF Asked
<1>4. InPlace(Gimme(lazy, l, Whatever), shifted, origin, asked')
  <2>1. Gimmed(lazy, Gimme(lazy, l, Whatever), shifted, origin, asked')
    BY <1>1, <1>3, GimmeInPlace DEF LlInv
  <2>. QED BY <2>1 DEF Gimmed
<1>. QED BY <1>2, <1>4 DEF LlInv

LEMMA LlShiftKeeps ==
  ASSUME LlInv, NEW l \in ListNumbers, LlShift(l)
  PROVE  LlInv'
<1>1. /\ asked \in Nat /\ asked <= Source /\ Source \in Nat /\ l \in 1..Len(lazy.lists)
      /\ Before(l) = origin[l] + Len(shifted[l]) /\ Before(l) \in Nat /\ InPlace(lazy, shifted, origin, asked)
  BY LlInvFields DEF LlInv
<1>. DEFINE h == IF lazy.lists[l].items # <<>> THEN lazy ELSE Gimme(lazy, l, 1)
<1>2. /\ Before(l) < Source /\ origin' = origin
      /\ asked' = IF Before(l) + 1 > asked THEN Before(l) + 1 ELSE asked
  BY DEF LlShift, Needs
<1>3. asked <= asked' /\ Asked(lazy.endless, origin[l] + Len(shifted[l]), 1, asked') /\ asked' \in 0..Source
  <2>1. asked' \in 0..Source /\ asked <= asked' /\ Before(l) + 1 <= asked'
    BY <1>1, <1>2
  <2>. QED BY <1>1, <2>1 DEF Asked
<1>4. /\ InPlace(Gimme(lazy, l, 1), shifted, origin, asked')
      /\ Len(Gimme(lazy, l, 1).lists) = Len(lazy.lists)
  <2>1. Gimmed(lazy, Gimme(lazy, l, 1), shifted, origin, asked')
    BY <1>1, <1>3, GimmeInPlace
  <2>. QED BY <2>1 DEF Gimmed
<1>5. InPlace(lazy, shifted, origin, asked')
  <2>1. lazy.coro \in Nat
    BY <1>1, InPlaceFields, ObjectsFields
  <2>2. lazy.coro <= asked'
    BY <1>1, <1>2, <2>1 DEF InPlace
  <2>. QED BY <1>1, <1>3, <2>2 DEF InPlace
<1>6. InPlace(h, shifted, origin, asked') /\ l \in 1..Len(h.lists)
  BY <1>1, <1>4, <1>5
<1>7. \/ lazy' = h /\ shifted' = shifted
      \/ /\ h.lists[l].items # <<>>
         /\ lazy' = Shifted(h, l) /\ shifted' = [shifted EXCEPT ![l] = Append(@, Head(h.lists[l].items))]
  BY DEF LlShift, Shifted
<1>. HIDE DEF h
<1>8. CASE lazy' = h /\ shifted' = shifted
  BY <1>2, <1>6, <1>8 DEF LlInv
<1>9. CASE /\ h.lists[l].items # <<>>
           /\ lazy' = Shifted(h, l) /\ shifted' = [shifted EXCEPT ![l] = Append(@, Head(h.lists[l].items))]
  <2>1. InPlace(Shifted(h, l), [shifted EXCEPT ![l] = Append(@, Head(h.lists[l].items))], origin, asked')
    BY <1>6, <1>9, ShiftInPlace
  <2>. QED BY <1>2, <1>9, <2>1 DEF LlInv
<1>. QED BY <1>7, <1>8, <1>9

LEMMA LlValuesKeeps ==
  ASSUME LlInv, NEW l \in ListNumbers, LlValues(l)
  PROVE  LlInv'
<1>1. l \in 1..Len(lazy.lists) /\ Before(l) = origin[l] + Len(shifted[l])
  BY LlInvFields
<1>2. /\ lazy' = NewList(lazy, ListParcel(lazy, l)) /\ shifted' = Append(shifted, <<>>)
      /\ origin' = Append(origin, origin[l] + Len(shifted[l])) /\ asked' = asked
  BY <1>1 DEF LlValues, Derived
<1>3. InPlace(lazy', shifted', origin', asked')
  BY <1>1, <1>2, DerivedInPlace DEF LlInv
<1>. QED BY <1>3 DEF LlInv

(* Iterators go on with later ones of their list, or with those of lists made
   earlier, and each list stands where its values do. *)
THEOREM LlInvAlways == LlSpec => []LlInv
<1>1. LlInv /\ [LlNext]_llVars => LlInv'
  <2>. SUFFICES ASSUME LlInv, [LlNext]_llVars PROVE LlInv'
    OBVIOUS
  <2>1. CASE UNCHANGED llVars
    BY <2>1 DEF llVars, LlInv
  <2>2. CASE LlNext
    BY <2>2, LlGimmeKeeps, LlElemsKeeps, LlShiftKeeps, LlValuesKeeps DEF LlNext
  <2>. QED BY <2>1, <2>2
<1>. QED BY LlInvInit, <1>1, PTL DEF LlSpec

(* Whatever lists are asked for, the coroutine of the gather block is resumed
   only for values that somebody has asked for (GatherIter.reify, List.gimme). *)
THEOREM LazyNoFurtherAlways == LlSpec => []LazyNoFurther
<1>1. LlInv => LazyNoFurther
  BY DEF LlInv, InPlace, LazyNoFurther
<1>. QED BY LlInvAlways, <1>1, PTL

(* An iterator's rank: what it goes on with has a lesser one.  Those whose rank
   may still be met after k steps. *)
Rank(g, n, i) == g.of[i] * n + (n - i)
StillMet(g, n, t, k) == {j \in 1..n : Rank(g, n, j) + k < t}

LEMMA RankFalls ==
  ASSUME NEW n \in Nat, NEW a \in Nat, NEW b \in Nat, NEW i \in 1..n, NEW j \in 1..n,
         (a = b /\ i < j) \/ b < a
  PROVE  b * n + (n - j) < a * n + (n - i)
<1>1. CASE a = b /\ i < j
  BY <1>1
<1>2. CASE b < a
  <2>1. (b + 1) * n <= a * n
    BY <1>2
  <2>2. (b + 1) * n = b * n + n
    OBVIOUS
  <2>3. b * n \in Nat /\ a * n \in Nat
    OBVIOUS
  <2>. QED BY <2>1, <2>2, <2>3
<1>. QED BY <1>1, <1>2

(* Elements that end do so at the end of the source. *)
LEMMA EndedIs ==
  ASSUME NEW e, NEW p \in Nat, NEW at, NEW B, Continued(e, p, at, B), Ends(e)
  PROVE  ValuesFrom(e, p) /\ p + Len(e) = Source
<1>0. e \in Seq(Element) /\ Len(e) \in Nat /\ p + Len(e) = Source
  BY SeqFacts DEF Continued
<1>1. ASSUME NEW k \in 1..Len(e) PROVE e[k] = Value(p + k)
  <2>1. e # <<>>
    BY <1>0, SeqFacts
  <2>2. e[Len(e)].kind = "value"
    BY <2>1 DEF Ends
  <2>3. k = Len(e) => ~GoesOn(e[k], p + Len(e) - 1, at, B)
    BY <2>2 DEF GoesOn
  <2>. QED BY <2>3 DEF Continued
<1>. QED BY <1>0, <1>1 DEF ValuesFrom

LEMMA AllValues ==
  ASSUME NEW e, NEW p \in Nat, ValuesFrom(e, p), p + Len(e) = Source
  PROVE  e = [k \in 1..Source - p |-> Value(p + k)]
<1>1. e \in Seq(Element) /\ Len(e) \in Nat /\ DOMAIN e = 1..Len(e)
  BY SeqFacts DEF ValuesFrom
<1>2. Len(e) = Source - p
  BY <1>1, LazyListAssumption
<1>3. e = [k \in 1..Len(e) |-> e[k]]
  BY <1>1
<1>4. [k \in 1..Len(e) |-> e[k]] = [k \in 1..Len(e) |-> Value(p + k)]
  BY DEF ValuesFrom
<1>. QED BY <1>2, <1>3, <1>4

(* What an iterator stands for comes to all values from its place on, by
   iterators of lesser rank. *)
LEMMA ContentsRight ==
  ASSUME NEW g, NEW start, Consistent(lazy, g, start), NEW n, n = Len(lazy.iters), NEW t \in Nat, NEW k \in Nat,
         NEW i \in StillMet(g, n, t, k)
  PROVE  Continued(Contents(i), g.at[i], g.at, StillMet(g, n, t, k + 1)) /\ g.at[i] \in Nat
<1>0. /\ lazy \in Objects /\ n \in Nat /\ Len(lazy.lists) \in Nat /\ lazy.coro \in Nat /\ lazy.coro <= Source
      /\ Source \in Nat
  BY ObjectsFields, LazyListAssumption DEF Consistent
<1>1. i \in 1..n /\ Rank(g, n, i) + k < t
  BY DEF StillMet
<1>2. /\ g.at \in [1..n -> Nat] /\ g.of \in [1..n -> 0..Len(lazy.lists)] /\ IterRight(lazy, g, i)
  BY <1>1 DEF Consistent, Standing
<1>3. DOMAIN g.of = 1..n /\ \A j \in 1..n : g.of[j] \in Nat
  <2>1. \A j \in 1..n : g.of[j] \in 0..Len(lazy.lists)
    BY <1>2
  <2>. QED BY <1>0, <1>2, <2>1
<1>4. ASSUME NEW j \in 1..n, (g.of[i] = g.of[j] /\ i < j) \/ g.of[j] < g.of[i]
      PROVE  j \in StillMet(g, n, t, k + 1)
  <2>1. Rank(g, n, j) < Rank(g, n, i)
    BY <1>0, <1>1, <1>3, <1>4, RankFalls DEF Rank
  <2>2. \A a, b \in Nat : a * b \in Nat
    OBVIOUS
  <2>3. Rank(g, n, j) \in Int /\ Rank(g, n, i) \in Int
    <3>1. g.of[i] * n \in Nat /\ g.of[j] * n \in Nat
      BY <1>0, <1>1, <1>3, <2>2
    <3>2. \A x \in Nat, j2 \in 1..n : x + (n - j2) \in Int
      BY <1>0
    <3>. QED BY <1>1, <3>1, <3>2 DEF Rank
  <2>. QED BY <1>1, <2>1, <2>3 DEF StillMet
<1>5. \A j \in Onward(g, i) : j \in StillMet(g, n, t, k + 1) /\ g.at[j] = g.at[j]
  BY <1>3, <1>4 DEF Onward
<1>6. \A j \in Lower(g, g.of[i]) : j \in StillMet(g, n, t, k + 1) /\ g.at[j] = g.at[j]
  BY <1>3, <1>4 DEF Lower
<1>. DEFINE it == lazy.iters[i]
            B == StillMet(g, n, t, k + 1)
<1>. HIDE DEF B
<1>7. CASE it.reified.done
  <2>1. Continued(it.reified.parcel, g.at[i], g.at, Onward(g, i))
    BY <1>2, <1>7 DEF IterRight
  <2>2. Continued(it.reified.parcel, g.at[i], g.at, B)
    BY <1>5, <2>1, ContinuedToo, Zenon DEF B
  <2>3. Contents(i) = it.reified.parcel
    BY <1>7 DEF Contents
  <2>. QED BY <1>1, <1>2, <2>2, <2>3 DEF B
<1>8. CASE ~it.reified.done /\ it.gather
  <2>. DEFINE e == [j \in 1..Source - lazy.coro |-> Value(lazy.coro + j)]
  <2>1. Contents(i) = e
    BY <1>8 DEF Contents
  <2>2. g.at[i] = lazy.coro
    BY <1>2, <1>8 DEF IterRight
  <2>3. e \in Seq(Element) /\ Len(e) = Source - lazy.coro /\ \A j \in 1..Len(e) : e[j] = Value(lazy.coro + j)
    <3>1. Source - lazy.coro \in Nat /\ \A j \in 1..Source - lazy.coro : Value(lazy.coro + j) \in Element
      BY <1>0, Elements
    <3>. DEFINE m == Source - lazy.coro
    <3>2. m \in Nat /\ e = [j \in 1..m |-> Value(lazy.coro + j)] /\ \A j \in 1..m : Value(lazy.coro + j) \in Element
      BY <3>1
    <3>. HIDE DEF m, e
    <3>3. e \in Seq(Element) /\ Len(e) = m /\ \A j \in 1..m : e[j] = Value(lazy.coro + j)
      BY <3>2
    <3>. QED BY <3>3 DEF m
  <2>. HIDE DEF e
  <2>4. ValuesFrom(e, lazy.coro) /\ lazy.coro + Len(e) = Source
    BY <1>0, <2>3 DEF ValuesFrom
  <2>5. Continued(e, lazy.coro, g.at, B)
    BY <1>0, <2>4, ToTheEnd
  <2>. QED BY <1>0, <2>1, <2>2, <2>5 DEF B
<1>9. CASE ~it.reified.done /\ ~it.gather
  <2>1. Continued(it.rest, g.at[i], g.at, Lower(g, g.of[i]))
    BY <1>2, <1>9 DEF IterRight
  <2>2. Continued(it.rest, g.at[i], g.at, B)
    BY <1>6, <2>1, ContinuedToo, Zenon DEF B
  <2>3. Contents(i) = it.rest
    BY <1>9 DEF Contents
  <2>. QED BY <1>1, <1>2, <2>2, <2>3 DEF B
<1>. QED BY <1>7, <1>8, <1>9

LEMMA ExpandLastRight ==
  ASSUME NEW g, NEW start, Consistent(lazy, g, start), NEW n, n = Len(lazy.iters), NEW t \in Nat, NEW k \in Nat,
         NEW p \in Nat, NEW e, Continued(e, p, g.at, StillMet(g, n, t, k))
  PROVE  Continued(ExpandLast(e), p, g.at, StillMet(g, n, t, k + 1))
<1>0. e \in Seq(Element) /\ Len(e) \in Nat
  BY SeqFacts DEF Continued
<1>1. CASE e = <<>> \/ e[Len(e)].kind = "value"
  <2>1. ExpandLast(e) = e
    BY <1>1 DEF ExpandLast
  <2>2. ValuesFrom(e, p) /\ p + Len(e) = Source
    BY <1>1, EndedIs DEF Ends
  <2>3. Continued(e, p, g.at, StillMet(g, n, t, k + 1))
    BY <2>2, ToTheEnd
  <2>. QED BY <2>1, <2>3
<1>2. CASE ~(e = <<>> \/ e[Len(e)].kind = "value")
  <2>. DEFINE i == e[Len(e)].ref
              m == Len(e) - 1
              s == SubSeq(e, 1, m)
  <2>1. ExpandLast(e) = s \o Contents(i)
    BY <1>2 DEF ExpandLast
  <2>2. Len(e) \in 1..Len(e) /\ m \in 0..Len(e) /\ m \in Nat
    BY <1>0, <1>2, SeqFacts
  <2>3. GoesOn(e[Len(e)], p + Len(e) - 1, g.at, StillMet(g, n, t, k))
    <3>1. e[Len(e)] # Value(p + Len(e))
      BY <1>0, <1>2, Elements
    <3>. QED BY <2>2, <3>1 DEF Continued
  <2>4. i \in StillMet(g, n, t, k) /\ g.at[i] = p + m
    <3>1. p + Len(e) - 1 = p + (Len(e) - 1)
      BY <1>0
    <3>. QED BY <2>3, <3>1 DEF GoesOn
  <2>5. \A j \in 1..m : e[j].kind = "value"
    <3>. SUFFICES ASSUME NEW j \in 1..m PROVE e[j].kind = "value"
      OBVIOUS
    <3>1. j \in 1..Len(e) /\ j # Len(e) /\ p + j \in Nat
      BY <1>0, <2>2
    <3>2. e[j] = Value(p + j)
      BY <3>1 DEF Continued
    <3>. QED BY <3>1, <3>2, Elements
  <2>. HIDE DEF m, i
  <2>6. ValuesFrom(s, p) /\ Len(s) = m
    BY <2>2, <2>5, PartsOf
  <2>. HIDE DEF s
  <2>7. Continued(Contents(i), g.at[i], g.at, StillMet(g, n, t, k + 1))
    BY <2>4, ContentsRight
  <2>8. Continued(Contents(i), p + Len(s), g.at, StillMet(g, n, t, k + 1))
    BY <2>4, <2>6, <2>7
  <2>9. Continued(s \o Contents(i), p, g.at, StillMet(g, n, t, k + 1))
    BY <2>6, <2>8, Joined
  <2>. QED BY <2>1, <2>9
<1>. QED BY <1>1, <1>2

LEMMA ExpandRight ==
  ASSUME NEW g, NEW start, Consistent(lazy, g, start), NEW p \in Nat,
         NEW e, Continued(e, p, g.at, 1..Len(lazy.iters))
  PROVE  Expand(e) = [k \in 1..Source - p |-> Value(p + k)]
<1>. DEFINE n == Len(lazy.iters)
            L == Len(lazy.lists)
            t == (L + 1) * n
            f == [x \in Seq(Element) |-> ExpandLast(x)]
            S == [k \in Nat |-> {x \in Seq(Element) : Continued(x, p, g.at, StillMet(g, n, t, k))}]
<1>1. n \in Nat /\ L \in Nat /\ g.of \in [1..n -> 0..L]
  BY ObjectsFields DEF Consistent, Standing
<1>2. t \in Nat /\ t = L * n + n /\ L * n \in Nat
  <2>. HIDE DEF n, L
  <2>1. \A a, b \in Nat : (a + 1) * b = a * b + b /\ (a + 1) * b \in Nat /\ a * b \in Nat
    OBVIOUS
  <2>. QED BY <1>1, <2>1
<1>3. Expand(e) = Iterate(f, e, t)
  BY DEF Expand
<1>. HIDE DEF n, L, t
<1>4. \A i \in 1..n : Rank(g, n, i) \in Nat /\ Rank(g, n, i) < t
  <2>. SUFFICES ASSUME NEW i \in 1..n PROVE Rank(g, n, i) \in Nat /\ Rank(g, n, i) < t
    OBVIOUS
  <2>1. g.of[i] \in Nat /\ g.of[i] <= L
    BY <1>1
  <2>2. g.of[i] * n \in Nat /\ g.of[i] * n <= L * n
    <3>1. \A a, b, c \in Nat : a <= b => a * c \in Nat /\ a * c <= b * c
      OBVIOUS
    <3>. QED BY <1>1, <2>1, <3>1
  <2>3. \A x, y \in Nat : x <= y => x + (n - i) \in Nat /\ x + (n - i) < y + n
    BY <1>1
  <2>4. g.of[i] * n + (n - i) \in Nat /\ g.of[i] * n + (n - i) < L * n + n
    BY <1>2, <2>2, <2>3
  <2>. QED BY <1>2, <2>4 DEF Rank
<1>5. e \in S[0]
  <2>1. StillMet(g, n, t, 0) = 1..n
    BY <1>4 DEF StillMet
  <2>2. e \in Seq(Element)
    BY DEF Continued
  <2>3. Continued(e, p, g.at, StillMet(g, n, t, 0))
    BY <2>1 DEF n
  <2>. QED BY <2>2, <2>3
<1>6. ASSUME NEW k \in Nat, NEW y \in S[k] PROVE f[y] \in S[k + 1]
  <2>1. y \in Seq(Element) /\ Continued(y, p, g.at, StillMet(g, n, t, k))
    OBVIOUS
  <2>2. Continued(ExpandLast(y), p, g.at, StillMet(g, n, t, k + 1))
    <3>1. n = Len(lazy.iters)
      BY DEF n
    <3>. HIDE DEF S, f
    <3>. QED BY <1>2, <2>1, <3>1, ExpandLastRight
  <2>3. ExpandLast(y) \in Seq(Element)
    BY <2>2 DEF Continued
  <2>4. f[y] = ExpandLast(y) /\ k + 1 \in Nat
    BY <2>1
  <2>. HIDE DEF f
  <2>. QED BY <2>2, <2>3, <2>4
<1>7. \A x \in S[t] : Continued(x, p, g.at, StillMet(g, n, t, t))
  BY <1>2
<1>. HIDE DEF S, f
<1>8. Iterate(f, e, t) \in S[t]
  <2>1. \A k \in 0..t : k < t => \A y \in S[k] : f[y] \in S[k + 1]
    BY <1>2, <1>6
  <2>. QED BY <1>2, <1>5, <2>1, IterateKeeps
<1>. DEFINE z == Iterate(f, e, t)
<1>9. Continued(z, p, g.at, StillMet(g, n, t, t))
  BY <1>7, <1>8
<1>. HIDE DEF z
<1>10. Ends(z)
  <2>1. StillMet(g, n, t, t) = {}
    BY <1>2, <1>4 DEF StillMet
  <2>2. z \in Seq(Element) /\ Len(z) \in Nat
    BY <1>9, SeqFacts DEF Continued
  <2>3. CASE z # <<>>
    <3>1. Len(z) \in 1..Len(z)
      BY <2>2, <2>3, SeqFacts
    <3>2. z[Len(z)] = Value(p + Len(z))
      BY <1>9, <2>1, <3>1 DEF Continued, GoesOn
    <3>3. z[Len(z)].kind = "value"
      BY <2>2, <3>2, Elements
    <3>. QED BY <3>3 DEF Ends
  <2>. QED BY <2>3 DEF Ends
<1>11. ValuesFrom(z, p) /\ p + Len(z) = Source
  BY <1>9, <1>10, EndedIs
<1>12. z = [k \in 1..Source - p |-> Value(p + k)]
  BY <1>11, AllValues
<1>. QED BY <1>3, <1>12 DEF z

(* Whichever list reified an iterator that several share, each list comes to
   every value of the source once and in order, from where it began
   (ListIter.reify, List.REIFY). *)
THEOREM LazyListsCompleteAlways == LlSpec => []LazyListsComplete
<1>1. LlInv => LazyListsComplete
  <2>. SUFFICES ASSUME LlInv, NEW l \in ListNumbers
                PROVE  Expand(shifted[l] \o ListParcel(lazy, l)) = [k \in 1..Source - origin[l] |-> Value(origin[l] + k)]
    BY DEF LazyListsComplete
  <2>1. l \in 1..Len(lazy.lists) /\ InPlace(lazy, shifted, origin, asked)
    BY LlInvFields DEF LlInv
  <2>2. /\ origin[l] \in Nat /\ ValuesFrom(shifted[l], origin[l])
        /\ Starts(shifted, origin, Len(lazy.lists))[l] = origin[l] + Len(shifted[l])
    <3>1. origin[l] \in Nat /\ Starts(shifted, origin, Len(lazy.lists))[l] = origin[l] + Len(shifted[l])
      BY <2>1, InPlaceFields
    <3>. QED BY <2>1, <3>1 DEF InPlace
  <2>. DEFINE start == Starts(shifted, origin, Len(lazy.lists))
  <2>. HIDE DEF start
  <2>3. PICK g : Consistent(lazy, g, start)
    BY <2>1 DEF InPlace, start
  <2>4. Continued(ListParcel(lazy, l), start[l], g.at, 1..Len(lazy.iters))
    BY <2>1, <2>3, ListParcelRight
  <2>5. start[l] = origin[l] + Len(shifted[l])
    BY <2>2 DEF start
  <2>6. Continued(ListParcel(lazy, l), origin[l] + Len(shifted[l]), g.at, 1..Len(lazy.iters))
    BY <2>4, <2>5
  <2>7. Continued(shifted[l] \o ListParcel(lazy, l), origin[l], g.at, 1..Len(lazy.iters))
    BY <2>2, <2>6, Joined
  <2>. QED BY <2>2, <2>3, <2>7, ExpandRight
<1>. QED BY LlInvAlways, <1>1, PTL
=============================================================================
