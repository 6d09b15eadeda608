------------------------------- MODULE StringGc -------------------------------
(***************************************************************************)
(* The memory of strings (parrot/src/gc/string_gc.c): storage is carved    *)
(* from the top block, several headers may share it, what is given up is   *)
(* only counted, and a collection moves the storages that are left in      *)
(* sparse blocks to a new one.                                             *)
(*                                                                         *)
(* A place is a block and an offset; sizes are in words, the word before   *)
(* each storage that names its block included.  The collector runs inside  *)
(* an allocation, so that the pool is a record its steps hand on.          *)
(***************************************************************************)
EXTENDS Integers, FiniteSets, Functions

CONSTANTS
  Headers,               \* bound: the number of headers
  Blocks,                \* bound: the number of blocks at a time
  StorageSizes,          \* bound: the sizes asked for
  MinimumBlock,          \* minimum_block_size at first
  BlockCap               \* up to this size it is doubled

Header == 1..Headers

ASSUME StringGcAssumption ==
  /\ Headers \in Nat \ {0} /\ Blocks \in Nat \ {0}
  /\ StorageSizes \subseteq Nat \ {0, 1}
  /\ MinimumBlock \in Nat \ {0} /\ BlockCap \in Nat

VARIABLE pool

NoStorage == [block |-> 0, at |-> 0, size |-> 0]

MemoryBlock == [size : Nat, free : Nat, freed : Nat]

Stored(p) == {h \in Header : p.buf[h] # NoStorage}
PlaceOf(b) == <<b.block, b.at>>

(* is_block_almost_full *)
AlmostFull(b) == 5 * (b.free + b.freed) < b.size

InUse(b) == b.size - b.freed - b.free

Sparse(p, ids) == {i \in ids : ~AlmostFull(p.block[i])}

(* alloc_new_block; a block has the least number that is not in use. *)
NewBlock(p, size) ==
  LET id == CHOOSE i \in 1..Blocks + 2 :
              i \notin DOMAIN p.block /\ \A j \in 1..i - 1 : j \in DOMAIN p.block
      n == IF size > p.minimum THEN size ELSE p.minimum
      new == [size |-> n, free |-> n, freed |-> 0]
  IN  [p EXCEPT !.block = [i \in DOMAIN @ \cup {id} |-> IF i = id THEN new ELSE @[i]], !.top = id]

(* Variant: shared storage is counted with each of its headers. *)
ReleaseEach(p, h) ==
  [p EXCEPT !.buf[h] = NoStorage, !.block[p.buf[h].block].freed = @ + p.buf[h].size]

(* Parrot_gc_str_free_buffer_storage: shared storage is not counted. *)
Release(p, h) ==
  LET b == p.buf[h]
      q == [p EXCEPT !.buf[h] = NoStorage]
  IN  IF PlaceOf(b) \in p.shared THEN q ELSE [q EXCEPT !.block[b.block].freed = @ + b.size]

(* Variant: no word is left of where a storage went. *)
MoveEach(m, h) ==
  LET b == m.pool.buf[h]
      to == [block |-> m.pool.top, at |-> m.used, size |-> b.size]
  IN  IF b = NoStorage \/ AlmostFull(m.pool.block[b.block]) THEN m
      ELSE [m EXCEPT !.pool.buf[h] = to, !.used = @ + b.size]

(* move_one_buffer: the first header of a shared storage moves it and leaves
   word of where it went; the others only follow. *)
MoveOne(m, h) ==
  LET b == m.pool.buf[h]
      from == PlaceOf(b)
      to == [block |-> m.pool.top, at |-> m.used, size |-> b.size]
  IN  IF b = NoStorage \/ AlmostFull(m.pool.block[b.block]) THEN m
      ELSE IF from \in DOMAIN m.moved
      THEN [m EXCEPT !.pool.buf[h] = m.moved[from],
                     !.pool.shared = @ \cup {PlaceOf(m.moved[from])}]
      ELSE [pool |-> [m.pool EXCEPT !.buf[h] = to],
            used |-> m.used + b.size,
            moved |-> IF from \notin m.pool.shared THEN m.moved
                      ELSE [x \in DOMAIN m.moved \cup {from} |-> IF x = from THEN to ELSE m.moved[x]]]

(* Variant: the blocks that were not sparse are freed, too. *)
FreeAllOldBlocks(p) ==
  [p EXCEPT !.block = [i \in {p.top} |-> @[i]], !.shared = {x \in @ : x[1] = p.top}]

(* free_old_mem_blocks: sparse blocks below the top are freed. *)
FreeOldBlocks(p) ==
  LET kept == DOMAIN p.block \ Sparse(p, DOMAIN p.block \ {p.top})
  IN  [p EXCEPT !.block = [i \in kept |-> @[i]], !.shared = {x \in @ : x[1] \in kept}]

(* The headers are looked at in order, to be moved to the top block. *)
Moved(p) ==
  LET after[n \in 0..Headers] ==
        IF n = 0 THEN [pool |-> p, used |-> 0, moved |-> <<>>] ELSE MoveOne(after[n - 1], n)
  IN  after[Headers]

(* compact_pool; pad_pool_size is the size of the new block, or none. *)
Compact(p) ==
  LET total(ids) == SumFunction([i \in Sparse(p, ids) |-> InUse(p.block[i])])
      start == NewBlock(p, total(DOMAIN p.block))
      end == Moved(start)
      filled == [end.pool EXCEPT !.block[start.top].free = start.block[start.top].size - end.used]
  IN  IF total(DOMAIN p.block \ {p.top}) = 0 THEN FreeOldBlocks(p) ELSE FreeOldBlocks(filled)

(* The sweep frees the storages of the dead headers. *)
Swept(p, dead) ==
  LET after[n \in 0..Headers] ==
        IF n = 0 THEN p ELSE IF n \in dead THEN Release(after[n - 1], n) ELSE after[n - 1]
  IN  after[Headers]

(* After the sweep, unless it was only for the youngest, the pool is compacted. *)
Collected(p, dead, compacts) == IF compacts THEN Compact(Swept(p, dead)) ELSE Swept(p, dead)

(* mem_allocate, the pool after a collection, or none, given: if it did not
   help, a block is added. *)
Room(p, size) ==
  IF p.block[p.top].free >= size THEN p
  ELSE NewBlock([p EXCEPT !.minimum = IF @ < BlockCap THEN 2 * @ ELSE @], size)

Carve(p, h, size) ==
  LET b == p.block[p.top]
  IN  [p EXCEPT !.buf[h] = [block |-> p.top, at |-> b.size - b.free, size |-> size],
                !.shared = @ \ {<<p.top, b.size - b.free>>},
                !.block[p.top].free = @ - size]

(* The pool before storage of some size is carved, while header h is in use. *)
BeforeCarving(h, size) ==
  IF pool.block[pool.top].free >= size THEN {pool}
  ELSE {Room(pool, size)} \cup
       {Room(Collected(pool, dead, compacts), size) : dead \in SUBSET (Stored(pool) \ {h}), compacts \in BOOLEAN}
-----------------------------------------------------------------------------
SgInit ==
  pool = [block |-> [i \in {1} |-> [size |-> MinimumBlock, free |-> MinimumBlock, freed |-> 0]],
          top |-> 1, minimum |-> MinimumBlock,
          buf |-> [h \in Header |-> NoStorage], shared |-> {}]

Bounded(p) == Cardinality(DOMAIN p.block) <= Blocks

(* Parrot_gc_str_allocate_string_storage *)
SgAllocate(h, size) ==
  /\ h \notin Stored(pool)
  /\ \E p \in BeforeCarving(h, size) : pool' = Carve(p, h, size)
  /\ Bounded(pool')

(* Parrot_gc_str_reallocate_string_storage of a string that is not shared: the
   old storage is given up, in the block where it is by then. *)
SgReallocate(h, size) ==
  /\ h \in Stored(pool) /\ size > pool.buf[h].size
  /\ PlaceOf(pool.buf[h]) \notin pool.shared
  /\ \E p \in BeforeCarving(h, size) :
       pool' = Carve([p EXCEPT !.block[p.buf[h].block].freed = @ + p.buf[h].size], h, size)
  /\ Bounded(pool')

(* Parrot_gc_str_reallocate_buffer_storage does not count it. *)
SgReallocateBuffer(h, size) ==
  /\ h \in Stored(pool) /\ size > pool.buf[h].size
  /\ PlaceOf(pool.buf[h]) \notin pool.shared
  /\ \E p \in BeforeCarving(h, size) : pool' = Carve(p, h, size)
  /\ Bounded(pool')

(* Parrot_str_copy: a header is copied and its storage shared. *)
SgCopy(h, new) ==
  /\ h \in Stored(pool) /\ new \notin Stored(pool)
  /\ pool' = [pool EXCEPT !.buf[new] = pool.buf[h], !.shared = @ \cup {PlaceOf(pool.buf[h])}]

(* gc_gms_free_string_header *)
SgFree(h) ==
  /\ h \in Stored(pool)
  /\ pool' = Release(pool, h)

(* gc_gms_mark_and_sweep for another reason *)
SgCollect(dead) == pool' = Collected(pool, dead, TRUE) /\ Bounded(pool')

SgNext ==
  \/ \E h \in Header, size \in StorageSizes :
       SgAllocate(h, size) \/ SgReallocate(h, size) \/ SgReallocateBuffer(h, size)
  \/ \E h, new \in Header : SgCopy(h, new)
  \/ \E h \in Header : SgFree(h)
  \/ \E dead \in SUBSET Stored(pool) : SgCollect(dead)

SgSpec == SgInit /\ [][SgNext]_pool
-----------------------------------------------------------------------------
(* The storage of every live header lies in a block that is still there, in
   its part handed out, and overlaps no other: whatever was moved, followed
   or freed, no string loses its bytes to another. *)
SgStoragesApart ==
  \A h \in Stored(pool) :
    LET b == pool.buf[h]
    IN  /\ b.block \in DOMAIN pool.block
        /\ b.at + b.size <= pool.block[b.block].size - pool.block[b.block].free
        /\ \A g \in Stored(pool) :
             LET c == pool.buf[g]
             IN  c.block # b.block \/ c = b \/ c.at + c.size <= b.at \/ b.at + b.size <= c.at

(* What is live in a block is no more than the counts of the block say: a new
   block of that size suffices for compaction, and a block is freed only if
   nothing is left in it. *)
SgCountsCover ==
  \A i \in DOMAIN pool.block :
    LET live == {pool.buf[h] : h \in {g \in Stored(pool) : pool.buf[g].block = i}}
    IN  SumFunction([b \in live |-> b.size]) <= InUse(pool.block[i])

(* Two headers share storage exactly as long as both live, through all moves. *)
SgSharingKept ==
  [][\A g, h \in Stored(pool) \cap {x \in Header : pool'.buf[x] # NoStorage} :
       (pool.buf[g] = pool.buf[h]) <=> (pool'.buf[g] = pool'.buf[h])]_pool
=============================================================================
