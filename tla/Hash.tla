-------------------------------- MODULE Hash --------------------------------
(***************************************************************************)
(* The hash tables of Parrot (parrot/src/hash.c): a slab of buckets, an    *)
(* index of chains and a list of free buckets, that double when the free   *)
(* list is exhausted.                                                      *)
(*                                                                         *)
(* Chains and the free list are sequences of buckets, numbered within the  *)
(* slab; Gone is a bucket of a slab that has been freed.                   *)
(***************************************************************************)
EXTENDS Integers, Sequences, FiniteSets, SequencesExt

CONSTANTS
  HashKey, HashValue,
  HashOf,                \* key_hash
  OtherHashes,           \* bound: the entries, in order, of hashes to update from
  MaxSlab                \* bound: the number of buckets

NoKey == "no key"      \* NULL

ASSUME HashAssumption ==
  /\ NoKey \notin HashKey /\ HashOf \in [HashKey -> Nat] /\ MaxSlab \in Nat /\ MaxSlab >= 2
  /\ OtherHashes \subseteq Seq([key : HashKey, value : HashValue])
  /\ \A s \in OtherHashes : s # <<>> /\ \A i, j \in DOMAIN s : s[i].key = s[j].key => i = j

VARIABLES
  hash,
  used_freed,  \* has a bucket of a freed slab been used?
  stored       \* what the program has stored and not deleted: key -> value

hashVars == <<hash, used_freed, stored>>

Gone == -1
InitialSize == 2       \* INITIAL_SIZE

NoBuckets == [size |-> 0, bucket |-> <<>>, index |-> <<>>, free |-> <<>>, entries |-> 0]

Chain(h, k) == h.index[HashOf[k] % h.size]

(* The bucket of a chain that holds key k, or Gone. *)
Find(h, k) ==
  IF h.size = 0 THEN Gone
  ELSE LET holders == {b \in ToSet(Chain(h, k)) \ {Gone} : h.bucket[b].key = k}
       IN  IF holders = {} THEN Gone ELSE CHOOSE b \in holders : TRUE

(* The smallest size of a slab for n buckets; sizes are powers of two. *)
RoundUp(n) ==
  LET sizes == {2 ^ k : k \in 1..n}
  IN  CHOOSE s \in sizes : s >= n /\ \A t \in sizes : t >= n => s <= t

(* The buckets of s that are in S, in their order. *)
Kept(s, S) ==
  LET kept[n \in 0..Len(s)] ==
        IF n = 0 THEN <<>>
        ELSE IF s[n] \in S THEN Append(kept[n - 1], s[n]) ELSE kept[n - 1]
  IN  kept[Len(s)]

(* allocate_buckets: the new buckets go in front of what the free list holds,
   which, if there was a slab, are buckets of the slab just freed. *)
Allocate(h, n) ==
  LET size == RoundUp(n)
  IN  [size |-> size,
       bucket |-> [b \in 0..size - 1 |-> [key |-> NoKey, value |-> NoKey]],
       index |-> [i \in 0..size - 1 |-> <<>>],
       free |-> [i \in 1..size |-> i - 1] \o [i \in DOMAIN h.free |-> Gone],
       entries |-> h.entries]

(* Variant: the chains are not split. *)
ExpandHashInPlace(h) ==
  LET size == 2 * h.size
  IN  [h EXCEPT
        !.size = size,
        !.bucket = [b \in 0..size - 1 |->
                      IF b < h.size THEN h.bucket[b] ELSE [key |-> NoKey, value |-> NoKey]],
        !.index = [i \in 0..size - 1 |-> IF i < h.size THEN h.index[i] ELSE <<>>],
        !.free = [i \in 1..h.size |-> h.size + i - 1]]

(* expand_hash: a bucket stays in its chain or goes to the front of the one
   that the next bit of its hash value names. *)
ExpandHash(h) ==
  LET size == 2 * h.size
      stay(i) == {b \in ToSet(h.index[i]) : b = Gone \/ HashOf[h.bucket[b].key] % size = i}
      stays(i) == Kept(h.index[i], stay(i))
      moves(i) == Reverse(Kept(h.index[i], ToSet(h.index[i]) \ stay(i)))
  IN  [h EXCEPT
        !.size = size,
        !.bucket = [b \in 0..size - 1 |->
                      IF b < h.size THEN h.bucket[b] ELSE [key |-> NoKey, value |-> NoKey]],
        !.index = [i \in 0..size - 1 |-> IF i < h.size THEN stays(i) ELSE moves(i - h.size)],
        !.free = [i \in 1..h.size |-> h.size + i - 1]]

(* parrot_hash_store_value_in_bucket without a bucket *)
StoreNew(h0, k, v) ==
  LET h == IF h0.free = <<>> THEN ExpandHash(h0) ELSE h0
      b == Head(h.free)
  IN  [h EXCEPT !.entries = @ + 1, !.free = Tail(@),
                !.bucket = IF b = Gone THEN @ ELSE [@ EXCEPT ![b] = [key |-> k, value |-> v]],
                !.index[HashOf[k] % h.size] = <<b>> \o @]

(* Parrot_hash_put *)
Put(h0, k, v) ==
  LET h == IF h0.size = 0 THEN Allocate(h0, InitialSize) ELSE h0
      b == Find(h, k)
  IN  IF b # Gone THEN [h EXCEPT !.bucket[b].value = v] ELSE StoreNew(h, k, v)

(* Variant: the bucket is not given back. *)
DeleteForGood(h, k) ==
  LET b == Find(h, k)
  IN  IF b = Gone THEN h
      ELSE [h EXCEPT !.index[HashOf[k] % h.size] = Kept(@, ToSet(@) \ {b}),
                     !.entries = @ - 1, !.bucket[b].key = NoKey]

(* Parrot_hash_delete *)
Delete(h, k) ==
  LET b == Find(h, k)
  IN  IF b = Gone THEN h
      ELSE [h EXCEPT !.index[HashOf[k] % h.size] = Kept(@, ToSet(@) \ {b}),
                     !.entries = @ - 1, !.bucket[b].key = NoKey, !.free = <<b>> \o @]

(* Parrot_hash_clone_prunable into a new hash: the buckets are copied in the
   order in which they are iterated. *)
Clone(h) ==
  LET copied[n \in 0..h.size] ==
        IF n = 0 THEN Allocate(NoBuckets, h.size - 1)
        ELSE IF h.bucket[n - 1].key = NoKey THEN copied[n - 1]
        ELSE StoreNew(copied[n - 1], h.bucket[n - 1].key, h.bucket[n - 1].value)
  IN  copied[h.size]

(* Parrot_hash_update: a hash without entries is given buckets as many as the
   other one has, whether it has buckets of its own or not. *)
Presize(h, size) == IF h.entries = 0 THEN Allocate(h, size - 1) ELSE h

PutAll(h, pairs) ==
  LET put[n \in 0..Len(pairs)] ==
        IF n = 0 THEN h ELSE Put(put[n - 1], pairs[n].key, pairs[n].value)
  IN  put[Len(pairs)]

-----------------------------------------------------------------------------
HashInit ==
  /\ hash = NoBuckets
  /\ used_freed = FALSE
  /\ stored = <<>>

(* A bucket of freed memory has been written: what follows is undefined. *)
HashBecomes(h) ==
  /\ h.size <= MaxSlab /\ Len(h.free) <= MaxSlab
  /\ hash' = h
  /\ used_freed' = \E i \in DOMAIN h.index : Gone \in ToSet(h.index[i])

HashPut(k, v) ==
  /\ ~used_freed
  /\ HashBecomes(Put(hash, k, v))
  /\ stored' = [x \in DOMAIN stored \cup {k} |-> IF x = k THEN v ELSE stored[x]]

HashDelete(k) ==
  /\ ~used_freed
  /\ HashBecomes(Delete(hash, k))
  /\ stored' = [x \in DOMAIN stored \ {k} |-> stored[x]]

HashUpdate(pairs, size) ==
  /\ ~used_freed
  /\ HashBecomes(PutAll(Presize(hash, size), pairs))
  /\ stored' = [x \in DOMAIN stored \cup {p.key : p \in ToSet(pairs)} |->
                  IF \E p \in ToSet(pairs) : p.key = x
                  THEN (CHOOSE p \in ToSet(pairs) : p.key = x).value ELSE stored[x]]

HashClone ==
  /\ ~used_freed /\ hash.size > 0
  /\ HashBecomes(Clone(hash))
  /\ UNCHANGED stored

HashNext ==
  \/ \E k \in HashKey : HashDelete(k) \/ \E v \in HashValue : HashPut(k, v)
  \/ \E pairs \in OtherHashes : \E size \in {2, 4} : Len(pairs) <= size /\ HashUpdate(pairs, size)
  \/ HashClone

HashSpec == HashInit /\ [][HashNext]_hashVars
-----------------------------------------------------------------------------
(* A lookup finds what was stored last and nothing else, whatever collided,
   was deleted, was moved by an expansion or copied by an update or a clone. *)
HashFindsStored ==
  ~used_freed =>
    \A k \in HashKey :
      IF k \in DOMAIN stored THEN Find(hash, k) # Gone /\ hash.bucket[Find(hash, k)].value = stored[k]
      ELSE Find(hash, k) = Gone

(* Every bucket of the slab is either free or in one chain, once, and those
   with a key are as many as entries says: iteration counts on it to end. *)
HashBucketsAccounted ==
  (~used_freed /\ hash.size > 0) =>
    LET slab == 0..hash.size - 1
        lists == [i \in slab \cup {hash.size} |-> IF i = hash.size THEN hash.free ELSE hash.index[i]]
    IN  /\ \A i \in DOMAIN lists : ToSet(lists[i]) \subseteq slab \cup {Gone}
        /\ \A b \in slab :
             \E i \in DOMAIN lists : \E p \in DOMAIN lists[i] :
               /\ lists[i][p] = b
               /\ \A j \in DOMAIN lists : \A q \in DOMAIN lists[j] : lists[j][q] = b => j = i /\ q = p
        /\ hash.entries = Cardinality({b \in slab : hash.bucket[b].key # NoKey})
        /\ hash.entries = hash.size - Cardinality(ToSet(hash.free) \ {Gone})
=============================================================================
