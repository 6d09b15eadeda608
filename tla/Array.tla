-------------------------------- MODULE Array --------------------------------
(***************************************************************************)
(* What an array PMC promises: a sequence of items that can be indexed,    *)
(* from either end, resized, pushed to, popped from and spliced.  Each     *)
(* step is the answer to one operation with its arguments, and is exact    *)
(* but for one thing: items that appear because the array was made longer, *)
(* and that nobody has given, may be anything.                             *)
(***************************************************************************)
EXTENDS Integers, Sequences

CONSTANTS
  Item,                  \* the items, null included
  Null

VARIABLES
  asked,                 \* the operation asked for, with its arguments
  items,
  got                    \* what the operation returned

arrayVars == <<asked, items, got>>

ArrayMin(a, b) == IF a < b THEN a ELSE b
ArrayMax(a, b) == IF a < b THEN b ELSE a

(* An index from the end, if it is negative. *)
Index(pos) == IF pos < 0 THEN pos + Len(items) ELSE pos

(* new is s as far as that goes, and n items long. *)
Resized(new, s, n) ==
  /\ new \in Seq(Item)
  /\ Len(new) = n
  /\ \A i \in 1..ArrayMin(n, Len(s)) : new[i] = s[i]

ArrayResize ==
  /\ asked'.op = "resize"
  /\ Resized(items', items, asked'.elems)
  /\ got' = Null

(* Null from behind the end. *)
ArrayGet ==
  /\ asked'.op = "get"
  /\ Index(asked'.pos) >= 0
  /\ got' = IF Index(asked'.pos) < Len(items) THEN items[Index(asked'.pos) + 1] ELSE Null
  /\ UNCHANGED items

(* Behind the end, the array is made long enough first. *)
ArraySet ==
  /\ asked'.op = "set"
  /\ LET i == Index(asked'.pos)
     IN  /\ i >= 0
         /\ items' \in Seq(Item)
         /\ Len(items') = ArrayMax(Len(items), i + 1)
         /\ items'[i + 1] = asked'.item
         /\ \A j \in DOMAIN items : j # i + 1 => items'[j] = items[j]
  /\ got' = Null

ArrayPush == asked'.op = "push" /\ items' = Append(items, asked'.item) /\ got' = Null

ArrayUnshift == asked'.op = "unshift" /\ items' = <<asked'.item>> \o items /\ got' = Null

ArrayPop ==
  /\ asked'.op = "pop" /\ items # <<>>
  /\ items' = SubSeq(items, 1, Len(items) - 1)
  /\ got' = items[Len(items)]

ArrayShift == asked'.op = "shift" /\ items # <<>> /\ items' = Tail(items) /\ got' = Head(items)

(* count items from offset on, or as many as there are, give place to those of
   the list; the array is made long enough first if it ends before offset,
   unless there is nothing to replace and nothing to put there. *)
ArraySplice ==
  /\ asked'.op = "splice"
  /\ LET offset == Index(asked'.offset)
         list == asked'.list
         kept == SubSeq(items, offset + asked'.count + 1, Len(items))
     IN  /\ offset >= 0
         /\ IF list = <<>> /\ asked'.count = 0 THEN UNCHANGED items
            ELSE /\ Resized(items', SubSeq(items, 1, ArrayMin(offset, Len(items))), offset + Len(list) + Len(kept))
                 /\ SubSeq(items', offset + 1, Len(items')) = list \o kept
  /\ got' = Null

ArrayClone == asked'.op = "clone" /\ got' = Null /\ UNCHANGED items

ArrayInit == items = <<>> /\ got = Null

ArrayNext ==
  \/ ArrayResize \/ ArrayGet \/ ArraySet \/ ArrayPush \/ ArrayUnshift \/ ArrayPop \/ ArrayShift
  \/ ArraySplice \/ ArrayClone

ArraySpec == ArrayInit /\ [][ArrayNext]_arrayVars
=============================================================================
