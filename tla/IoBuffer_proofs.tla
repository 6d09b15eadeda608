--------------------------- MODULE IoBuffer_proofs ---------------------------
(***************************************************************************)
(* The buffer of a FileHandle: eof() says so only at the end of the file,  *)
(* and each operation does exactly what File says of it, for any size of   *)
(* the buffer, any bytes and any sequence of operations.                   *)
(***************************************************************************)
EXTENDS IoBuffer, Induction_proofs, SequenceTheorems

LEMMA FunctionIsSequence ==
  ASSUME NEW S, NEW n \in Nat, NEW f \in [1..n -> S]
  PROVE  f \in Seq(S) /\ Len(f) = n
OBVIOUS

LEMMA BytesFit == Newline \in Byte /\ Hole \in Byte /\ BufferSize \in Nat /\ BufferSize >= 1
<1>1. Newline \in Byte /\ Hole \in Byte
  BY IoAssumption
<1>2. BufferSize \in Nat \ {0}
  BY IoAssumption
<1>. QED BY <1>1, <1>2

(* The bytes of a file from a position on. *)
LEMMA SliceIs ==
  ASSUME NEW f \in Seq(Byte), NEW p \in Nat, NEW n \in Nat
  PROVE  /\ Slice(f, p, n) \in Seq(Byte)
         /\ Len(Slice(f, p, n)) = IF Len(f) <= p THEN 0 ELSE IF Len(f) <= p + n THEN Len(f) - p ELSE n
         /\ Len(Slice(f, p, n)) \in Nat
         /\ \A i \in 1..Len(Slice(f, p, n)) : Slice(f, p, n)[i] = f[p + i]
<1>. DEFINE m == IF Len(f) < p + n THEN Len(f) ELSE p + n
            s == SubSeq(f, p + 1, m)
<1>1. Len(f) \in Nat /\ m \in Int /\ p + 1 \in Int
  BY LenProperties
<1>2. \A i \in p + 1 .. m : i \in 1..Len(f)
  BY <1>1
<1>3. \A i \in p + 1 .. m : f[i] \in Byte
  BY <1>2, ElementOfSeq
<1>4. Slice(f, p, n) = s
  BY DEF Slice, Logical!Slice, Logical!FileMin
<1>. HIDE DEF m
<1>5. /\ s \in Seq(Byte)
      /\ Len(s) = IF p + 1 <= m THEN m - (p + 1) + 1 ELSE 0
      /\ \A i \in 1 .. m - (p + 1) + 1 : s[i] = f[(p + 1) + i - 1]
  BY <1>1, <1>3, SubSeqProperties
<1>. HIDE DEF s
<1>6. Len(s) = IF Len(f) <= p THEN 0 ELSE IF Len(f) <= p + n THEN Len(f) - p ELSE n
  BY <1>1, <1>5 DEF m
<1>7. ASSUME NEW i \in 1..Len(s) PROVE s[i] = f[p + i]
  <2>1. i \in 1 .. m - (p + 1) + 1 /\ (p + 1) + i - 1 = p + i /\ p + i \in p + 1 .. m
    BY <1>1, <1>5
  <2>. QED BY <1>2, <1>5, <2>1
<1>8. Len(s) \in Nat
  BY <1>5, LenProperties
<1>. QED BY <1>4, <1>5, <1>6, <1>7, <1>8

(* A file with bytes written over it. *)
LEMMA OverlayIs ==
  ASSUME NEW f \in Seq(Byte), NEW p \in Nat, NEW s \in Seq(Byte)
  PROVE  /\ Overlay(f, p, s) \in Seq(Byte)
         /\ s = <<>> => Overlay(f, p, s) = f
         /\ s # <<>> =>
              /\ Len(Overlay(f, p, s)) = IF Len(f) < p + Len(s) THEN p + Len(s) ELSE Len(f)
              /\ \A i \in 1..Len(Overlay(f, p, s)) :
                   Overlay(f, p, s)[i] = IF i \in p + 1 .. p + Len(s) THEN s[i - p]
                                         ELSE IF i <= Len(f) THEN f[i] ELSE Hole
<1>. DEFINE m == IF Len(f) < p + Len(s) THEN p + Len(s) ELSE Len(f)
            o == [i \in 1..m |-> IF i \in p + 1 .. p + Len(s) THEN s[i - p]
                                 ELSE IF i <= Len(f) THEN f[i] ELSE Hole]
<1>1. Len(f) \in Nat /\ Len(s) \in Nat
  BY LenProperties
<1>2. Overlay(f, p, s) = IF s = <<>> THEN f ELSE o
  BY DEF Overlay, Logical!Overlay, Logical!FileMax
<1>3. ASSUME NEW i \in 1..m PROVE o[i] \in Byte
  <2>1. CASE i \in p + 1 .. p + Len(s)
    <3>1. i - p \in 1..Len(s)
      BY <1>1, <2>1
    <3>2. s[i - p] \in Byte
      BY <3>1, ElementOfSeq
    <3>. QED BY <2>1, <3>2
  <2>2. CASE i \notin p + 1 .. p + Len(s) /\ i <= Len(f)
    <3>1. i \in 1..Len(f)
      BY <1>1, <2>2
    <3>2. f[i] \in Byte
      BY <3>1, ElementOfSeq
    <3>. QED BY <2>2, <3>2
  <2>3. CASE i \notin p + 1 .. p + Len(s) /\ ~(i <= Len(f))
    BY <2>3, BytesFit
  <2>. QED BY <2>1, <2>2, <2>3
<1>4. m \in Nat
  BY <1>1
<1>5. o \in [1..m -> Byte]
  <2>1. o = [i \in 1..m |-> o[i]]
    OBVIOUS
  <2>. HIDE DEF o, m
  <2>. QED BY <1>3, <2>1
<1>6. o \in Seq(Byte) /\ Len(o) = m
  <2>. HIDE DEF o, m
  <2>. QED BY <1>4, <1>5, FunctionIsSequence
<1>7. \A i \in 1..Len(o) : o[i] = IF i \in p + 1 .. p + Len(s) THEN s[i - p]
                                  ELSE IF i <= Len(f) THEN f[i] ELSE Hole
  BY <1>6
<1>. HIDE DEF o
<1>. QED BY <1>2, <1>6, <1>7

(* To write one thing behind the other is to write both at once. *)
LEMMA OverlayTwice ==
  ASSUME NEW f \in Seq(Byte), NEW p \in Nat, NEW s \in Seq(Byte), NEW t \in Seq(Byte)
  PROVE  Overlay(Overlay(f, p, s), p + Len(s), t) = Overlay(f, p, s \o t)
<1>. DEFINE g == Overlay(f, p, s)
            a == Overlay(g, p + Len(s), t)
            b == Overlay(f, p, s \o t)
<1>1. Len(f) \in Nat /\ Len(s) \in Nat /\ Len(t) \in Nat /\ p + Len(s) \in Nat
  BY LenProperties
<1>2. /\ s \o t \in Seq(Byte) /\ Len(s \o t) = Len(s) + Len(t)
      /\ \A i \in 1 .. Len(s) + Len(t) : (s \o t)[i] = IF i <= Len(s) THEN s[i] ELSE t[i - Len(s)]
  BY ConcatProperties
<1>3. g \in Seq(Byte)
  BY OverlayIs
<1>4. CASE t = <<>>
  <2>1. s \o t = s /\ a = g
    BY <1>1, <1>3, <1>4, ConcatEmptySeq, OverlayIs
  <2>. QED BY <2>1
<1>5. CASE s = <<>>
  <2>1. s \o t = t /\ g = f /\ Len(s) = 0
    BY <1>5, ConcatEmptySeq, OverlayIs
  <2>2. p + Len(s) = p
    BY <2>1
  <2>. QED BY <2>1, <2>2
<1>6. CASE s # <<>> /\ t # <<>>
  <2>. DEFINE u == s \o t
  <2>1. PICK l, n, m, q : l = Len(f) /\ n = Len(s) /\ m = Len(t) /\ q = p + n
    OBVIOUS
  <2>2. l \in Nat /\ n \in Nat /\ m \in Nat /\ q \in Nat /\ n >= 1 /\ m >= 1 /\ q = p + n
    BY <1>1, <1>6, <2>1, EmptySeq
  <2>3. u \in Seq(Byte) /\ Len(u) = n + m /\ u # <<>> /\ p + Len(u) = q + m
    <3>1. u \in Seq(Byte) /\ Len(u) = n + m
      BY <1>2, <2>1
    <3>. HIDE DEF u
    <3>. QED BY <2>2, <3>1, EmptySeq
  <2>4. ASSUME NEW i \in Nat, 1 <= i, i <= n + m PROVE u[i] = IF i <= n THEN s[i] ELSE t[i - n]
    BY <1>2, <2>1, <2>2, <2>4
  <2>. HIDE DEF u
  <2>5. /\ Len(g) = IF l < q THEN q ELSE l
        /\ \A i \in 1..Len(g) : g[i] = IF i \in p + 1 .. q THEN s[i - p] ELSE IF i <= l THEN f[i] ELSE Hole
    BY <1>6, <2>1, OverlayIs
  <2>. HIDE DEF g
  <2>6. PICK k : k = Len(g) /\ k \in Nat
    BY <1>3, LenProperties
  <2>7. k = IF l < q THEN q ELSE l
    BY <2>5, <2>6
  <2>8. a = Overlay(g, q, t)
    BY <2>1
  <2>9. /\ a \in Seq(Byte) /\ Len(a) = IF k < q + m THEN q + m ELSE k
        /\ \A i \in 1..Len(a) : a[i] = IF i \in q + 1 .. q + m THEN t[i - q] ELSE IF i <= k THEN g[i] ELSE Hole
    <3>1. t \in Seq(Byte) /\ t # <<>>
      BY <1>6
    <3>2. /\ Overlay(g, q, t) \in Seq(Byte)
          /\ Len(Overlay(g, q, t)) = IF Len(g) < q + Len(t) THEN q + Len(t) ELSE Len(g)
          /\ \A i \in 1..Len(Overlay(g, q, t)) :
               Overlay(g, q, t)[i] = IF i \in q + 1 .. q + Len(t) THEN t[i - q]
                                     ELSE IF i <= Len(g) THEN g[i] ELSE Hole
      BY <1>3, <2>2, <3>1, OverlayIs
    <3>3. Len(g) = k /\ Len(t) = m
      BY <2>1, <2>6
    <3>. HIDE DEF a
    <3>. QED BY <2>8, <3>2, <3>3
  <2>10. /\ b \in Seq(Byte) /\ Len(b) = IF l < q + m THEN q + m ELSE l
         /\ \A i \in 1..Len(b) : b[i] = IF i \in p + 1 .. q + m THEN u[i - p] ELSE IF i <= l THEN f[i] ELSE Hole
    <3>1. b = Overlay(f, p, u)
      BY DEF u
    <3>2. /\ Overlay(f, p, u) \in Seq(Byte)
          /\ Len(Overlay(f, p, u)) = IF Len(f) < p + Len(u) THEN p + Len(u) ELSE Len(f)
          /\ \A i \in 1..Len(Overlay(f, p, u)) :
               Overlay(f, p, u)[i] = IF i \in p + 1 .. p + Len(u) THEN u[i - p]
                                     ELSE IF i <= Len(f) THEN f[i] ELSE Hole
      BY <2>3, OverlayIs
    <3>3. Len(f) = l /\ p + Len(u) = q + m
      BY <2>1, <2>3
    <3>. HIDE DEF b
    <3>. QED BY <3>1, <3>2, <3>3
  <2>. HIDE DEF a, b
  <2>11. Len(a) = Len(b)
    BY <2>2, <2>7, <2>9, <2>10
  <2>12. PICK z : z = Len(a) /\ z \in Nat
    BY <2>9, LenProperties
  <2>13. ASSUME NEW i \in 1..z PROVE a[i] = b[i]
    <3>1. i \in Nat /\ 1 <= i /\ i <= z
      BY <2>12
    <3>2. /\ a[i] = IF i \in q + 1 .. q + m THEN t[i - q] ELSE IF i <= k THEN g[i] ELSE Hole
          /\ b[i] = IF i \in p + 1 .. q + m THEN u[i - p] ELSE IF i <= l THEN f[i] ELSE Hole
      BY <2>9, <2>10, <2>11, <2>12
    <3>3. i <= k => g[i] = IF i \in p + 1 .. q THEN s[i - p] ELSE IF i <= l THEN f[i] ELSE Hole
      BY <2>5, <2>6, <3>1
    <3>4. CASE i <= p
      <4>1. i \notin q + 1 .. q + m /\ i \notin p + 1 .. q + m /\ i \notin p + 1 .. q /\ i <= k
        BY <2>2, <2>7, <3>1, <3>4
      <4>. QED BY <3>2, <3>3, <4>1
    <3>5. CASE p < i /\ i <= q
      <4>1. i \notin q + 1 .. q + m /\ i \in p + 1 .. q + m /\ i \in p + 1 .. q /\ i <= k
        BY <2>2, <2>7, <3>1, <3>5
      <4>2. i - p \in Nat /\ 1 <= i - p /\ i - p <= n + m /\ i - p <= n
        BY <2>2, <3>1, <3>5
      <4>. QED BY <2>4, <3>2, <3>3, <4>1, <4>2
    <3>6. CASE q < i /\ i <= q + m
      <4>1. i \in q + 1 .. q + m /\ i \in p + 1 .. q + m
        BY <2>2, <3>1, <3>6
      <4>2. i - p \in Nat /\ 1 <= i - p /\ i - p <= n + m /\ ~(i - p <= n) /\ (i - p) - n = i - q
        BY <2>2, <3>1, <3>6
      <4>. QED BY <2>4, <3>2, <4>1, <4>2
    <3>7. CASE q + m < i
      <4>1. /\ i \notin q + 1 .. q + m /\ i \notin p + 1 .. q + m /\ i \notin p + 1 .. q
            /\ i <= k <=> i <= l
        BY <2>2, <2>7, <3>1, <3>7
      <4>. QED BY <3>2, <3>3, <4>1
    <3>. QED BY <2>2, <3>1, <3>4, <3>5, <3>6, <3>7
  <2>14. a = b
    <3>1. \A i \in 1..Len(a) : a[i] = b[i]
      BY <2>12, <2>13
    <3>. QED BY <2>9, <2>10, <2>11, <3>1, SeqEqual
  <2>. QED BY <2>14 DEF a, b, g
<1>. QED BY <1>4, <1>5, <1>6

(* Two reads in a row are one read. *)
Joined(f, p, n, q, k, r) == Slice(f, p, n) \o Slice(f, q, k) = Slice(f, p, r)

LEMMA SliceJoin ==
  ASSUME NEW f \in Seq(Byte), NEW p \in Nat, NEW n \in Nat, NEW k \in Nat, n = 0 \/ p + n <= Len(f),
         NEW q, q = p + n, NEW r, r = n + k
  PROVE  /\ Joined(f, p, n, q, k, r)
         /\ Len(Slice(f, p, n)) = n
<1>1. PICK l : l \in Nat /\ l = Len(f)
  BY LenProperties
<1>2. q \in Nat /\ q = p + n
  OBVIOUS
<1>3. r \in Nat /\ r = n + k
  OBVIOUS
<1>4. PICK s : s = Slice(f, p, n)
  OBVIOUS
<1>5. PICK t : t = Slice(f, q, k)
  OBVIOUS
<1>6. PICK u : u = Slice(f, p, r)
  OBVIOUS
<1>7. /\ s \in Seq(Byte) /\ Len(s) = IF l <= p THEN 0 ELSE IF l <= p + n THEN l - p ELSE n
      /\ \A i \in 1..Len(s) : s[i] = f[p + i]
  <2>1. /\ Slice(f, p, n) \in Seq(Byte)
        /\ Len(Slice(f, p, n)) = IF Len(f) <= p THEN 0 ELSE IF Len(f) <= p + n THEN Len(f) - p ELSE n
        /\ \A i \in 1..Len(Slice(f, p, n)) : Slice(f, p, n)[i] = f[p + i]
    BY SliceIs
  <2>. QED BY <1>1, <1>4, <2>1
<1>8. /\ t \in Seq(Byte) /\ Len(t) = IF l <= q THEN 0 ELSE IF l <= q + k THEN l - q ELSE k
      /\ \A i \in 1..Len(t) : t[i] = f[q + i]
  <2>1. /\ Slice(f, q, k) \in Seq(Byte)
        /\ Len(Slice(f, q, k)) = IF Len(f) <= q THEN 0 ELSE IF Len(f) <= q + k THEN Len(f) - q ELSE k
        /\ \A i \in 1..Len(Slice(f, q, k)) : Slice(f, q, k)[i] = f[q + i]
    <3>1. q \in Nat
      BY <1>2
    <3>. QED BY <3>1, SliceIs
  <2>. QED BY <1>1, <1>5, <2>1
<1>9. /\ u \in Seq(Byte) /\ Len(u) = IF l <= p THEN 0 ELSE IF l <= p + r THEN l - p ELSE r
      /\ \A i \in 1..Len(u) : u[i] = f[p + i]
  <2>1. /\ Slice(f, p, r) \in Seq(Byte)
        /\ Len(Slice(f, p, r)) = IF Len(f) <= p THEN 0 ELSE IF Len(f) <= p + r THEN Len(f) - p ELSE r
        /\ \A i \in 1..Len(Slice(f, p, r)) : Slice(f, p, r)[i] = f[p + i]
    <3>1. r \in Nat
      BY <1>3
    <3>. QED BY <3>1, SliceIs
  <2>. QED BY <1>1, <1>6, <2>1
<1>10. n = 0 \/ q <= l
  BY <1>1, <1>2
<1>11. Len(s) = n /\ Len(u) = n + Len(t) /\ Len(t) \in Nat
  <2>1. PICK x, y, z : x = Len(s) /\ y = Len(t) /\ z = Len(u)
    OBVIOUS
  <2>2. /\ x = IF l <= p THEN 0 ELSE IF l <= p + n THEN l - p ELSE n
        /\ y = IF l <= q THEN 0 ELSE IF l <= q + k THEN l - q ELSE k
        /\ z = IF l <= p THEN 0 ELSE IF l <= p + r THEN l - p ELSE r
    BY <1>7, <1>8, <1>9, <2>1
  <2>3. x = n /\ z = n + y /\ y \in Nat
    BY <1>1, <1>2, <1>3, <1>10, <2>2
  <2>. QED BY <2>1, <2>3
<1>12. PICK m : m \in Nat /\ m = Len(t)
  BY <1>11
<1>13. /\ s \o t \in Seq(Byte) /\ Len(s \o t) = Len(s) + Len(t)
       /\ \A i \in 1 .. Len(s) + Len(t) : (s \o t)[i] = IF i <= Len(s) THEN s[i] ELSE t[i - Len(s)]
  BY <1>7, <1>8, ConcatProperties
<1>14. ASSUME NEW i \in 1 .. n + m PROVE (s \o t)[i] = u[i]
  <2>1. u[i] = f[p + i]
    BY <1>9, <1>11, <1>12
  <2>2. CASE i <= n
    <3>1. i \in 1..n
      BY <2>2
    <3>. QED BY <1>7, <1>11, <1>12, <1>13, <2>1, <3>1
  <2>3. CASE n < i
    <3>1. i - n \in 1..m /\ q + (i - n) = p + i /\ ~(i <= n)
      BY <1>2, <1>12, <2>3
    <3>. QED BY <1>8, <1>11, <1>12, <1>13, <2>1, <3>1
  <2>4. i <= n \/ n < i
    BY <1>12
  <2>. QED BY <2>2, <2>3, <2>4
<1>15. s \o t = u
  BY <1>7, <1>8, <1>9, <1>11, <1>12, <1>13, <1>14, SeqEqual
<1>. QED BY <1>4, <1>5, <1>6, <1>11, <1>15 DEF Joined

(* A read that asks for too much is a read to the end of the file. *)
LEMMA SliceCapped ==
  ASSUME NEW f \in Seq(Byte), NEW p \in Nat, NEW n \in Nat
  PROVE  \E k \in 0 .. Len(f) + 1 : Slice(f, p, n) = Slice(f, p, k)
<1>1. Len(f) \in Nat
  BY LenProperties
<1>2. CASE n <= Len(f)
  <2>1. n \in 0 .. Len(f) + 1
    BY <1>1, <1>2
  <2>. QED BY <2>1
<1>3. CASE Len(f) < n
  <2>1. Len(f) + 1 \in 0 .. Len(f) + 1
    BY <1>1
  <2>2. (IF Len(f) < p + n THEN Len(f) ELSE p + n) = Len(f)
    BY <1>1, <1>3
  <2>3. (IF Len(f) < p + (Len(f) + 1) THEN Len(f) ELSE p + (Len(f) + 1)) = Len(f)
    BY <1>1
  <2>4. Slice(f, p, n) = Slice(f, p, Len(f) + 1)
    BY <2>2, <2>3 DEF Slice, Logical!Slice, Logical!FileMin
  <2>. QED BY <2>1, <2>4
<1>. QED BY <1>1, <1>2, <1>3

(* Bytes put into the block of memory. *)
LEMMA StoreIs ==
  ASSUME NEW m \in [1..BufferSize -> Byte], NEW p \in Nat, NEW s \in Seq(Byte), p + Len(s) <= BufferSize
  PROVE  /\ Store(m, p, s) \in [1..BufferSize -> Byte]
         /\ \A i \in 1..Len(s) : Store(m, p, s)[p + i] = s[i]
         /\ \A i \in 1..p : Store(m, p, s)[i] = m[i]
<1>1. Len(s) \in Nat /\ BufferSize \in Nat
  BY LenProperties, BytesFit
<1>2. DOMAIN m = 1..BufferSize
  OBVIOUS
<1>3. Store(m, p, s) = [i \in 1..BufferSize |-> IF i \in p + 1 .. p + Len(s) THEN s[i - p] ELSE m[i]]
  BY <1>2 DEF Store
<1>4. ASSUME NEW i \in 1..BufferSize
      PROVE  (IF i \in p + 1 .. p + Len(s) THEN s[i - p] ELSE m[i]) \in Byte
  <2>1. i \in p + 1 .. p + Len(s) => i - p \in 1..Len(s)
    BY <1>1
  <2>2. i \in p + 1 .. p + Len(s) => s[i - p] \in Byte
    BY <2>1, ElementOfSeq
  <2>. QED BY <2>2
<1>5. ASSUME NEW i \in 1..Len(s) PROVE Store(m, p, s)[p + i] = s[i]
  <2>1. p + i \in 1..BufferSize /\ p + i \in p + 1 .. p + Len(s) /\ (p + i) - p = i
    BY <1>1
  <2>. QED BY <1>3, <2>1
<1>6. ASSUME NEW i \in 1..p PROVE Store(m, p, s)[i] = m[i]
  <2>1. i \in 1..BufferSize /\ i \notin p + 1 .. p + Len(s)
    BY <1>1
  <2>. QED BY <1>3, <2>1
<1>. QED BY <1>3, <1>4, <1>5, <1>6

(* The first bytes of the block of memory. *)
LEMMA FirstBytes ==
  ASSUME NEW m \in [1..BufferSize -> Byte], NEW n \in 0..BufferSize
  PROVE  /\ SubSeq(m, 1, n) \in Seq(Byte) /\ Len(SubSeq(m, 1, n)) = n
         /\ \A i \in 1..n : SubSeq(m, 1, n)[i] = m[i]
<1>1. BufferSize \in Nat
  BY BytesFit
<1>2. m \in Seq(Byte)
  BY <1>1, FunctionIsSequence
<1>3. \A i \in 1..n : m[i] \in Byte
  BY <1>1
<1>4. 1 \in Int /\ n \in Int /\ n - 1 + 1 = n /\ (~(1 <= n) => n = 0)
  BY <1>1
<1>5. /\ SubSeq(m, 1, n) \in Seq(Byte)
      /\ Len(SubSeq(m, 1, n)) = IF 1 <= n THEN n - 1 + 1 ELSE 0
      /\ \A i \in 1 .. n - 1 + 1 : SubSeq(m, 1, n)[i] = m[1 + i - 1]
  BY <1>2, <1>3, <1>4, SubSeqProperties
<1>6. \A i \in 1..n : 1 + i - 1 = i
  BY <1>1
<1>. QED BY <1>4, <1>5, <1>6

(* What lies between two places of the memory. *)
LEMMA BytesBetween ==
  ASSUME NEW m \in [1..BufferSize -> Byte], NEW p \in Nat, NEW n \in Nat, p + n <= BufferSize
  PROVE  /\ SubSeq(m, p + 1, p + n) \in Seq(Byte) /\ Len(SubSeq(m, p + 1, p + n)) = n
         /\ \A i \in 1..n : SubSeq(m, p + 1, p + n)[i] = m[p + i]
<1>1. BufferSize \in Nat
  BY BytesFit
<1>2. m \in Seq(Byte)
  BY <1>1, FunctionIsSequence
<1>3. \A i \in p + 1 .. p + n : m[i] \in Byte
  BY <1>1
<1>4. p + 1 \in Int /\ p + n \in Int /\ (p + n) - (p + 1) + 1 = n /\ (~(p + 1 <= p + n) => n = 0)
  BY <1>1
<1>5. /\ SubSeq(m, p + 1, p + n) \in Seq(Byte)
      /\ Len(SubSeq(m, p + 1, p + n)) = IF p + 1 <= p + n THEN (p + n) - (p + 1) + 1 ELSE 0
      /\ \A i \in 1 .. (p + n) - (p + 1) + 1 : SubSeq(m, p + 1, p + n)[i] = m[(p + 1) + i - 1]
  BY <1>2, <1>3, <1>4, SubSeqProperties
<1>6. \A i \in 1..n : (p + 1) + i - 1 = p + i
  BY <1>1
<1>. QED BY <1>4, <1>5, <1>6
-----------------------------------------------------------------------------
(* Where the next byte of a handle is taken or put, and the file as the
   program sees it: IoAt and IoContent are those of io. *)
At(h) ==
  CASE h.holds = "read" -> h.offset - (h.end - h.next)
    [] h.holds = "write" -> h.offset + h.next
    [] OTHER -> h.offset

Content(h) ==
  IF h.holds = "write" THEN Overlay(h.file, h.offset, SubSeq(h.mem, 1, h.next)) ELSE h.file

(* The block of memory holds the bytes of the file before its offset. *)
ReadAhead(h) ==
  /\ h.end # NoEnd /\ h.next <= h.end /\ h.end <= h.offset /\ h.offset <= Len(h.file)
  /\ \A i \in 1..h.end : h.mem[i] = h.file[h.offset - h.end + i]

EofSound(h) == h.eof => h.holds # "read" /\ h.offset >= Len(h.file)

(* What is always so of a handle. *)
IsSound(h) ==
  /\ h.holds = "nothing" => h.next = 0
  /\ h.holds = "read" => ReadAhead(h)
  /\ h.holds = "write" => h.next # 0 /\ h.mode # "ra"
  /\ EofSound(h)
  /\ ~h.open => h.holds = "nothing"

(* How many bytes are held that have been read ahead and not yet consumed. *)
Held(h) == IF h.holds = "read" THEN h.end - h.next ELSE Logical!Nothing

LEMMA HandleFields ==
  ASSUME NEW h \in Handle
  PROVE  /\ h.open \in BOOLEAN /\ h.mode \in Modes /\ h.file \in Seq(Byte)
         /\ h.offset \in Nat /\ h.file_pos \in Nat /\ h.mem \in [1..BufferSize -> Byte]
         /\ h.next \in Nat /\ h.next <= BufferSize
         /\ h.end \in Int /\ (h.end = NoEnd \/ 1 <= h.end) /\ h.end <= BufferSize
         /\ h.holds \in {"nothing", "read", "write"} /\ h.eof \in BOOLEAN
         /\ Len(h.file) \in Nat /\ BufferSize \in Nat /\ BufferSize >= 1
<1>1. h.file \in Seq(Byte)
  BY DEF Handle
<1>2. Len(h.file) \in Nat
  BY <1>1, LenProperties
<1>. QED BY <1>1, <1>2, BytesFit DEF Handle, NoEnd

(* What has been read ahead is what follows in the file. *)
LEMMA ReadAheadIs ==
  ASSUME NEW h \in Handle, h.holds = "read", ReadAhead(h), NEW n \in Nat, n <= h.end - h.next
  PROVE  /\ SubSeq(h.mem, h.next + 1, h.next + n) = Slice(h.file, At(h), n)
         /\ At(h) \in Nat /\ At(h) + n <= Len(h.file) /\ h.offset = At(h) + (h.end - h.next)
         /\ Len(SubSeq(h.mem, h.next + 1, h.next + n)) = n
<1>1. PICK m, f, x, e, o : m = h.mem /\ f = h.file /\ x = h.next /\ e = h.end /\ o = h.offset
  OBVIOUS
<1>2. PICK l : l = Len(f)
  OBVIOUS
<1>3. /\ m \in [1..BufferSize -> Byte] /\ f \in Seq(Byte) /\ x \in Nat /\ e \in Int /\ o \in Nat
      /\ e <= BufferSize /\ BufferSize \in Nat /\ l \in Nat
  BY <1>1, <1>2, HandleFields
<1>4. x <= e /\ e <= o /\ o <= l /\ \A i \in 1..e : m[i] = f[(o - e) + i]
  BY <1>1, <1>2 DEF ReadAhead
<1>5. PICK p : p = o - (e - x)
  OBVIOUS
<1>6. At(h) = p
  BY <1>1, <1>5 DEF At
<1>7. p \in Nat /\ n <= e - x /\ p + n <= l /\ o = p + (e - x) /\ x + n <= BufferSize
  <2>1. n <= e - x /\ x <= e /\ e <= o /\ o <= l
    BY <1>1, <1>4
  <2>. QED BY <1>3, <1>5, <2>1
<1>8. PICK s, t : s = SubSeq(m, x + 1, x + n) /\ t = Slice(f, p, n)
  OBVIOUS
<1>9. s \in Seq(Byte) /\ Len(s) = n /\ \A i \in 1..n : s[i] = m[x + i]
  BY <1>3, <1>7, <1>8, BytesBetween
<1>10. /\ Slice(f, p, n) \in Seq(Byte)
       /\ Len(Slice(f, p, n)) = IF Len(f) <= p THEN 0 ELSE IF Len(f) <= p + n THEN Len(f) - p ELSE n
       /\ \A i \in 1..Len(Slice(f, p, n)) : Slice(f, p, n)[i] = f[p + i]
  <2>1. f \in Seq(Byte) /\ p \in Nat
    BY <1>3, <1>7
  <2>. QED BY <2>1, SliceIs
<1>11. Len(t) = n
  <2>1. Len(t) = IF l <= p THEN 0 ELSE IF l <= p + n THEN l - p ELSE n
    BY <1>2, <1>8, <1>10
  <2>. QED BY <1>3, <1>7, <2>1
<1>12. t \in Seq(Byte) /\ \A i \in 1..n : t[i] = f[p + i]
  BY <1>8, <1>10, <1>11
<1>13. ASSUME NEW i \in 1..n PROVE s[i] = t[i]
  <2>1. x + i \in 1..e /\ (o - e) + (x + i) = p + i
    BY <1>3, <1>4, <1>5, <1>7
  <2>2. m[x + i] = f[p + i]
    BY <1>4, <2>1
  <2>. QED BY <1>9, <1>12, <2>2
<1>14. s = t
  BY <1>9, <1>11, <1>12, <1>13, SeqEqual
<1>. QED BY <1>1, <1>2, <1>6, <1>7, <1>8, <1>9, <1>14

LEMMA HeldIs ==
  ASSUME NEW h \in Handle, IsSound(h)
  PROVE  /\ h.holds # "read" => Held(h) = Logical!Nothing
         /\ h.holds = "read" => /\ Held(h) = h.end - h.next /\ Held(h) \in 0..BufferSize
                                /\ Held(h) # Logical!Nothing /\ Logical!Nothing < Held(h)
                                /\ h.offset = At(h) + Held(h) /\ h.offset <= Len(Content(h))
<1>1. CASE h.holds # "read"
  BY <1>1 DEF Held
<1>2. CASE h.holds = "read"
  <2>1. PICK x, e, o, b : x = h.next /\ e = h.end /\ o = h.offset /\ b = BufferSize
    OBVIOUS
  <2>2. x \in Nat /\ e \in Int /\ o \in Nat /\ b \in Nat /\ e <= b
    BY <2>1, HandleFields
  <2>3. x <= e /\ e <= o /\ o <= Len(h.file)
    BY <1>2, <2>1 DEF IsSound, ReadAhead
  <2>4. Held(h) = e - x /\ At(h) = o - (e - x) /\ Content(h) = h.file
    BY <1>2, <2>1 DEF Held, At, Content
  <2>5. e - x \in 0..b /\ o = (o - (e - x)) + (e - x) /\ e - x # -1 /\ -1 < e - x
    BY <2>2, <2>3
  <2>. QED BY <1>2, <2>1, <2>3, <2>4, <2>5 DEF Logical!Nothing
<1>. QED BY <1>1, <1>2

LEMMA FillIs ==
  ASSUME NEW h \in Handle, NEW got, got = Slice(h.file, h.offset, BufferSize)
  PROVE  /\ got = <<>> => /\ Fill(h) = [h EXCEPT !.eof = TRUE] /\ Fill(h) \in Handle
                          /\ Len(h.file) <= h.offset
         /\ got # <<>> => /\ Fill(h) \in Handle /\ Fill(h).holds = "read" /\ ReadAhead(Fill(h))
                          /\ Fill(h).next = 0 /\ Fill(h).end = Len(got) /\ Len(got) >= 1
                          /\ Fill(h).offset = h.offset + Len(got)
                          /\ Fill(h).open = h.open /\ Fill(h).mode = h.mode /\ Fill(h).file = h.file
                          /\ Fill(h).file_pos = h.file_pos /\ Fill(h).eof = h.eof
                          /\ h.offset < Len(h.file)
<1>1. PICK m, f, o : m = h.mem /\ f = h.file /\ o = h.offset
  OBVIOUS
<1>2. PICK l, g, b : l = Len(f) /\ g = Len(got) /\ b = BufferSize
  OBVIOUS
<1>3. m \in [1..BufferSize -> Byte] /\ f \in Seq(Byte) /\ o \in Nat /\ b \in Nat /\ b >= 1 /\ l \in Nat
  BY <1>1, <1>2, HandleFields
<1>4. /\ Slice(f, o, b) \in Seq(Byte) /\ Len(Slice(f, o, b)) \in Nat
      /\ Len(Slice(f, o, b)) = IF Len(f) <= o THEN 0 ELSE IF Len(f) <= o + b THEN Len(f) - o ELSE b
      /\ \A i \in 1..Len(Slice(f, o, b)) : Slice(f, o, b)[i] = f[o + i]
  BY <1>3, SliceIs
<1>5. got = Slice(f, o, b)
  BY <1>1, <1>2
<1>6. got \in Seq(Byte) /\ \A i \in 1..g : got[i] = f[o + i]
  BY <1>2, <1>4, <1>5
<1>7. g \in Nat /\ g = IF l <= o THEN 0 ELSE IF l <= o + b THEN l - o ELSE b
  BY <1>2, <1>4, <1>5
<1>8. g = 0 <=> got = <<>>
  BY <1>2, <1>6, EmptySeq
<1>9. CASE got = <<>>
  <2>1. Fill(h) = [h EXCEPT !.eof = TRUE]
    BY <1>9 DEF Fill
  <2>2. l <= o
    BY <1>3, <1>7, <1>8, <1>9
  <2>3. [h EXCEPT !.eof = TRUE] \in Handle
    BY DEF Handle
  <2>. QED BY <1>1, <1>2, <1>9, <2>1, <2>2, <2>3
<1>10. CASE got # <<>>
  <2>1. PICK s : s = Store(m, 0, got)
    OBVIOUS
  <2>2. g <= b /\ 1 <= g /\ o < l /\ o + g <= l /\ o + g \in Nat
    BY <1>3, <1>7, <1>8, <1>10
  <2>3. 0 + Len(got) <= BufferSize /\ 0 \in Nat
    BY <1>2, <1>7, <2>2
  <2>4. /\ Store(m, 0, got) \in [1..BufferSize -> Byte]
        /\ \A i \in 1..Len(got) : Store(m, 0, got)[0 + i] = got[i]
    BY <1>3, <1>6, <2>3, StoreIs
  <2>5. s \in [1..BufferSize -> Byte] /\ \A i \in 1..g : s[i] = got[i]
    <3>1. ASSUME NEW i \in 1..g PROVE s[i] = got[i]
      <4>1. 0 + i = i
        BY <1>7
      <4>. QED BY <1>2, <2>1, <2>4, <4>1
    <3>. QED BY <2>1, <2>4, <3>1
  <2>6. Fill(h) = [h EXCEPT !.mem = s, !.offset = o + g, !.end = g, !.next = 0, !.holds = "read"]
    BY <1>1, <1>2, <1>10, <2>1 DEF Fill
  <2>7. PICK x : x = Fill(h)
    OBVIOUS
  <2>8. x = [h EXCEPT !.mem = s, !.offset = o + g, !.end = g, !.next = 0, !.holds = "read"]
    BY <2>6, <2>7
  <2>9. g \in {NoEnd} \cup 1..BufferSize /\ 0 \in 0..BufferSize
    BY <1>2, <1>3, <1>7, <2>2
  <2>10. x \in Handle
    BY <2>2, <2>5, <2>8, <2>9 DEF Handle
  <2>11. /\ x.holds = "read" /\ x.mem = s /\ x.offset = o + g /\ x.end = g /\ x.next = 0
         /\ x.open = h.open /\ x.mode = h.mode /\ x.file = f /\ x.file_pos = h.file_pos /\ x.eof = h.eof
    BY <1>1, <2>8 DEF Handle
  <2>12. ReadAhead(x)
    <3>1. x.end # NoEnd /\ x.next <= x.end /\ x.end <= x.offset /\ x.offset <= Len(x.file)
      BY <1>2, <1>3, <1>7, <2>2, <2>11 DEF NoEnd
    <3>2. ASSUME NEW i \in 1..g PROVE s[i] = f[(o + g) - g + i]
      <4>1. (o + g) - g + i = o + i
        BY <1>3, <1>7
      <4>. QED BY <1>6, <2>5, <4>1
    <3>. QED BY <2>11, <3>1, <3>2 DEF ReadAhead
  <2>. QED BY <1>1, <1>2, <1>10, <2>2, <2>7, <2>10, <2>11, <2>12
<1>. QED BY <1>9, <1>10

LEMMA ConsumeIs ==
  ASSUME NEW h \in Handle, h.holds = "read", ReadAhead(h), NEW n \in Nat, n <= h.end - h.next
  PROVE  /\ Consume(h, n) \in Handle /\ Consume(h, n).open = h.open /\ Consume(h, n).mode = h.mode
         /\ Consume(h, n).file = h.file /\ Consume(h, n).offset = h.offset
         /\ Consume(h, n).eof = h.eof /\ Consume(h, n).file_pos = h.file_pos + n
         /\ At(Consume(h, n)) = At(h) + n
         /\ n = h.end - h.next => Consume(h, n).holds = "nothing" /\ Consume(h, n).next = 0
         /\ n # h.end - h.next => Consume(h, n).holds = "read" /\ ReadAhead(Consume(h, n))
<1>1. PICK x, e, o, f : x = h.next /\ e = h.end /\ o = h.offset /\ f = h.file_pos
  OBVIOUS
<1>2. x \in Nat /\ e \in Int /\ o \in Nat /\ f \in Nat /\ e <= BufferSize /\ BufferSize \in Nat
  BY <1>1, HandleFields
<1>3. x <= e /\ e <= o /\ n <= e - x
  BY <1>1 DEF ReadAhead
<1>4. At(h) = o - (e - x)
  BY <1>1 DEF At
<1>5. PICK c : c = Consume(h, n)
  OBVIOUS
<1>6. f + n \in Nat /\ 0 \in 0..BufferSize /\ NoEnd \in {NoEnd} \cup 1..BufferSize
  BY <1>2
<1>7. CASE n = e - x
  <2>1. x + n = e
    BY <1>2, <1>7
  <2>2. c = [h EXCEPT !.holds = "nothing", !.end = NoEnd, !.next = 0, !.file_pos = f + n]
    BY <1>1, <1>5, <2>1 DEF Consume
  <2>3. c \in Handle
    BY <1>6, <2>2 DEF Handle
  <2>4. /\ c.open = h.open /\ c.mode = h.mode /\ c.file = h.file /\ c.offset = o /\ c.eof = h.eof
        /\ c.file_pos = f + n /\ c.holds = "nothing" /\ c.next = 0
    BY <1>1, <2>2 DEF Handle
  <2>5. At(c) = o
    BY <2>4 DEF At
  <2>6. At(c) = At(h) + n
    BY <1>2, <1>4, <1>7, <2>5
  <2>. QED BY <1>1, <1>5, <1>7, <2>3, <2>4, <2>6
<1>8. CASE n # e - x
  <2>1. x + n # e /\ x + n \in 0..BufferSize /\ x + n <= e
    BY <1>2, <1>3, <1>8
  <2>2. c = [h EXCEPT !.next = x + n, !.file_pos = f + n]
    BY <1>1, <1>5, <2>1 DEF Consume
  <2>3. c \in Handle
    BY <1>6, <2>1, <2>2 DEF Handle
  <2>4. /\ c.open = h.open /\ c.mode = h.mode /\ c.file = h.file /\ c.offset = o /\ c.eof = h.eof
        /\ c.file_pos = f + n /\ c.holds = "read" /\ c.next = x + n /\ c.end = e /\ c.mem = h.mem
    BY <1>1, <2>2 DEF Handle
  <2>5. ReadAhead(c)
    BY <1>1, <2>1, <2>4 DEF ReadAhead
  <2>6. At(c) = o - (e - (x + n))
    BY <2>4 DEF At
  <2>7. At(c) = At(h) + n
    BY <1>2, <1>4, <2>6
  <2>. QED BY <1>1, <1>5, <1>8, <2>3, <2>4, <2>5, <2>7
<1>. QED BY <1>7, <1>8

(* Where the operating system puts what is written. *)
WritePlace(h) == IF h.mode = "ra" THEN Len(h.file) ELSE h.offset

LEMMA PioWriteIs ==
  ASSUME NEW h \in Handle, NEW s \in Seq(Byte)
  PROVE  /\ PIO_WRITE(h, s) \in Handle
         /\ PIO_WRITE(h, s).file = Overlay(h.file, WritePlace(h), s)
         /\ PIO_WRITE(h, s).offset = WritePlace(h) + Len(s) /\ WritePlace(h) \in Nat
         /\ PIO_WRITE(h, s).open = h.open /\ PIO_WRITE(h, s).mode = h.mode
         /\ PIO_WRITE(h, s).file_pos = h.file_pos /\ PIO_WRITE(h, s).mem = h.mem
         /\ PIO_WRITE(h, s).next = h.next /\ PIO_WRITE(h, s).end = h.end
         /\ PIO_WRITE(h, s).holds = h.holds /\ PIO_WRITE(h, s).eof = h.eof
         /\ h.offset >= Len(h.file) => PIO_WRITE(h, s).offset >= Len(PIO_WRITE(h, s).file)
<1>1. PICK f, o, p : f = h.file /\ o = h.offset /\ p = WritePlace(h)
  OBVIOUS
<1>2. PICK l, n : l = Len(f) /\ n = Len(s)
  OBVIOUS
<1>3. f \in Seq(Byte) /\ o \in Nat /\ l \in Nat /\ n \in Nat
  BY <1>1, <1>2, HandleFields, LenProperties
<1>4. p \in Nat /\ (l <= o => l <= p)
  BY <1>1, <1>2, <1>3 DEF WritePlace
<1>5. PICK w, g : w = PIO_WRITE(h, s) /\ g = Overlay(f, p, s)
  OBVIOUS
<1>6. w = [h EXCEPT !.file = g, !.offset = p + n]
  BY <1>1, <1>2, <1>5 DEF PIO_WRITE, WritePlace
<1>7. /\ Overlay(f, p, s) \in Seq(Byte)
      /\ s = <<>> => Overlay(f, p, s) = f
      /\ s # <<>> => Len(Overlay(f, p, s)) = IF Len(f) < p + Len(s) THEN p + Len(s) ELSE Len(f)
  <2>1. f \in Seq(Byte) /\ p \in Nat
    BY <1>3, <1>4
  <2>. QED BY <2>1, OverlayIs
<1>8. g \in Seq(Byte) /\ p + n \in Nat
  BY <1>3, <1>4, <1>5, <1>7
<1>9. w \in Handle
  BY <1>6, <1>8 DEF Handle
<1>10. /\ w.file = g /\ w.offset = p + n /\ w.open = h.open /\ w.mode = h.mode
       /\ w.file_pos = h.file_pos /\ w.mem = h.mem /\ w.next = h.next /\ w.end = h.end
       /\ w.holds = h.holds /\ w.eof = h.eof
  BY <1>6 DEF Handle
<1>11. ASSUME l <= o PROVE Len(g) <= p + n
  <2>1. CASE s = <<>>
    <3>1. Len(g) = l
      BY <1>2, <1>5, <1>7, <2>1
    <3>. QED BY <1>3, <1>4, <1>11, <3>1
  <2>2. CASE s # <<>>
    <3>1. Len(g) = IF l < p + n THEN p + n ELSE l
      BY <1>2, <1>5, <1>7, <2>2
    <3>. QED BY <1>3, <1>4, <1>11, <3>1
  <2>. QED BY <2>1, <2>2
<1>12. h.offset >= Len(h.file) => w.offset >= Len(w.file)
  <2>1. PICK k : k = Len(g) /\ k \in Nat
    BY <1>8, LenProperties
  <2>2. l <= o => k <= p + n
    BY <1>11, <2>1
  <2>. QED BY <1>1, <1>2, <1>3, <1>4, <1>10, <2>1, <2>2
<1>. QED BY <1>1, <1>2, <1>4, <1>5, <1>9, <1>10, <1>12

(* What g and h have in common after an operation that only reads or flushes. *)
SameFile(g, h) == g \in Handle /\ g.open = h.open /\ g.mode = h.mode

LEMMA FlushIs ==
  ASSUME NEW h \in Handle, IsSound(h)
  PROVE  /\ SameFile(Flush(h), h) /\ Flush(h).file_pos = h.file_pos
         /\ IsSound(Flush(h)) /\ Flush(h).holds = "nothing" /\ Flush(h).file = Content(h)
         /\ h.holds # "read" => Flush(h).offset = At(h)
         /\ h.holds = "read" => Flush(h).offset = h.offset
         /\ Flush(h).eof = h.eof
<1>1. PICK g : g = Flush(h)
  OBVIOUS
<1>2. 0 \in 0..BufferSize /\ h.holds \in {"nothing", "read", "write"}
  BY HandleFields
<1>3. CASE h.holds = "nothing"
  <2>1. g = h
    BY <1>1, <1>3 DEF Flush
  <2>. QED BY <1>1, <1>3, <2>1 DEF SameFile, Content, At
<1>4. CASE h.holds = "read"
  <2>1. g = [h EXCEPT !.next = 0, !.holds = "nothing"]
    BY <1>1, <1>4 DEF Flush
  <2>2. g \in Handle
    BY <1>2, <2>1 DEF Handle
  <2>3. /\ g.open = h.open /\ g.mode = h.mode /\ g.file = h.file /\ g.file_pos = h.file_pos /\ g.eof = h.eof
        /\ g.next = 0 /\ g.holds = "nothing" /\ g.offset = h.offset
    BY <2>1 DEF Handle
  <2>4. IsSound(g)
    <3>1. ~h.eof
      BY <1>4 DEF IsSound, EofSound
    <3>. QED BY <2>3, <3>1 DEF IsSound, EofSound
  <2>. QED BY <1>1, <1>4, <2>2, <2>3, <2>4 DEF SameFile, Content
<1>5. CASE h.holds = "write"
  <2>1. PICK s : s = SubSeq(h.mem, 1, h.next)
    OBVIOUS
  <2>2. h.mem \in [1..BufferSize -> Byte] /\ h.next \in 0..BufferSize
    BY DEF Handle
  <2>3. s \in Seq(Byte) /\ Len(s) = h.next
    BY <2>1, <2>2, FirstBytes
  <2>4. PICK w : w = PIO_WRITE(h, s)
    OBVIOUS
  <2>5. /\ w \in Handle /\ w.file = Overlay(h.file, WritePlace(h), s) /\ w.offset = WritePlace(h) + Len(s)
        /\ w.open = h.open /\ w.mode = h.mode /\ w.file_pos = h.file_pos /\ w.eof = h.eof
        /\ h.offset >= Len(h.file) => w.offset >= Len(w.file)
    BY <2>3, <2>4, PioWriteIs
  <2>6. WritePlace(h) = h.offset
    BY <1>5 DEF IsSound, WritePlace
  <2>7. g = [w EXCEPT !.next = 0, !.holds = "nothing"]
    BY <1>1, <1>5, <2>1, <2>4 DEF Flush
  <2>8. g \in Handle
    BY <1>2, <2>5, <2>7 DEF Handle
  <2>9. /\ g.open = w.open /\ g.mode = w.mode /\ g.file = w.file /\ g.file_pos = w.file_pos /\ g.eof = w.eof
        /\ g.next = 0 /\ g.holds = "nothing" /\ g.offset = w.offset
    BY <2>5, <2>7 DEF Handle
  <2>10. IsSound(g)
    <3>1. h.eof => h.offset >= Len(h.file)
      BY DEF IsSound, EofSound
    <3>2. EofSound(g)
      BY <2>5, <2>9, <3>1 DEF EofSound
    <3>. QED BY <2>9, <3>2 DEF IsSound
  <2>11. g.file = Content(h) /\ g.offset = At(h)
    BY <1>5, <2>1, <2>3, <2>5, <2>6, <2>9 DEF Content, At
  <2>. QED BY <1>1, <1>5, <2>5, <2>8, <2>9, <2>10, <2>11 DEF SameFile
<1>. QED BY <1>2, <1>3, <1>4, <1>5

LEMMA FlushWritesIs ==
  ASSUME NEW h \in Handle, IsSound(h)
  PROVE  /\ SameFile(FlushWrites(h), h) /\ FlushWrites(h).file_pos = h.file_pos
         /\ IsSound(FlushWrites(h)) /\ FlushWrites(h).holds \in {"nothing", "read"}
         /\ Content(FlushWrites(h)) = Content(h) /\ FlushWrites(h).file = Content(h)
         /\ At(FlushWrites(h)) = At(h)
<1>1. CASE h.holds = "write"
  <2>1. FlushWrites(h) = Flush(h)
    BY <1>1 DEF FlushWrites
  <2>2. /\ SameFile(Flush(h), h) /\ Flush(h).file_pos = h.file_pos /\ IsSound(Flush(h))
        /\ Flush(h).holds = "nothing" /\ Flush(h).file = Content(h) /\ Flush(h).offset = At(h)
    BY <1>1, FlushIs
  <2>3. Content(Flush(h)) = Flush(h).file /\ At(Flush(h)) = Flush(h).offset
    BY <2>2 DEF Content, At
  <2>. QED BY <2>1, <2>2, <2>3
<1>2. CASE h.holds # "write"
  <2>1. FlushWrites(h) = h /\ Content(h) = h.file
    BY <1>2 DEF FlushWrites, Content
  <2>2. h.holds \in {"nothing", "read"}
    BY <1>2, HandleFields
  <2>. QED BY <2>1, <2>2 DEF SameFile
<1>. QED BY <1>1, <1>2

LEMMA SplitAt ==
  ASSUME NEW s \in Seq(Byte), NEW k \in Nat, k <= Len(s)
  PROVE  /\ SubSeq(s, 1, k) \in Seq(Byte) /\ Len(SubSeq(s, 1, k)) = k
         /\ SubSeq(s, k + 1, Len(s)) \in Seq(Byte) /\ Len(SubSeq(s, k + 1, Len(s))) = Len(s) - k
         /\ SubSeq(s, 1, k) \o SubSeq(s, k + 1, Len(s)) = s
<1>1. PICK l : l = Len(s) /\ l \in Nat
  BY LenProperties
<1>2. k <= l
  BY <1>1
<1>3. \A i \in 1..l : s[i] \in Byte
  BY <1>1, ElementOfSeq
<1>4. /\ SubSeq(s, 1, k) \in Seq(Byte)
      /\ Len(SubSeq(s, 1, k)) = IF 1 <= k THEN k - 1 + 1 ELSE 0
  <2>1. \A i \in 1..k : s[i] \in Byte
    BY <1>1, <1>2, <1>3
  <2>. QED BY <2>1, SubSeqProperties
<1>5. /\ SubSeq(s, k + 1, l) \in Seq(Byte)
      /\ Len(SubSeq(s, k + 1, l)) = IF k + 1 <= l THEN l - (k + 1) + 1 ELSE 0
  <2>1. \A i \in k + 1 .. l : s[i] \in Byte
    BY <1>1, <1>3
  <2>2. k + 1 \in Int /\ l \in Int
    BY <1>1
  <2>. QED BY <2>1, <2>2, SubSeqProperties
<1>6. SubSeq(s, 1, k) \o SubSeq(s, k + 1, l) = SubSeq(s, 1, l)
  <2>1. 1 \in 1 .. Len(s) + 1 /\ k \in 1 - 1 .. Len(s) /\ l \in k .. Len(s)
    BY <1>1, <1>2
  <2>. QED BY <2>1, ConcatAdjacentSubSeq
<1>7. SubSeq(s, 1, l) = s
  BY <1>1, SubSeqFull
<1>8. (IF 1 <= k THEN k - 1 + 1 ELSE 0) = k /\ (IF k + 1 <= l THEN l - (k + 1) + 1 ELSE 0) = l - k
  BY <1>1, <1>2
<1>9. PICK a, c : a = SubSeq(s, 1, k) /\ c = SubSeq(s, k + 1, l)
  OBVIOUS
<1>10. /\ a \in Seq(Byte) /\ Len(a) = k
       /\ c \in Seq(Byte) /\ Len(c) = l - k
       /\ a \o c = s
  BY <1>4, <1>5, <1>6, <1>7, <1>8, <1>9
<1>. QED BY <1>1, <1>9, <1>10

(* What is put behind the first bytes of the memory follows them. *)
LEMMA StoredBehind ==
  ASSUME NEW m \in [1..BufferSize -> Byte], NEW p \in Nat, NEW s \in Seq(Byte), p + Len(s) <= BufferSize
  PROVE  SubSeq(Store(m, p, s), 1, p + Len(s)) = SubSeq(m, 1, p) \o s
<1>1. PICK n : n = Len(s) /\ n \in Nat
  BY LenProperties
<1>2. PICK b : b = BufferSize /\ b \in Nat
  BY BytesFit
<1>3. p + n <= b
  BY <1>1, <1>2
<1>4. PICK w : w = Store(m, p, s)
  OBVIOUS
<1>5. w \in [1..BufferSize -> Byte] /\ (\A i \in 1..n : w[p + i] = s[i]) /\ (\A i \in 1..p : w[i] = m[i])
  BY <1>1, <1>4, StoreIs
<1>6. PICK u, d : u = SubSeq(w, 1, p + n) /\ d = SubSeq(m, 1, p)
  OBVIOUS
<1>7. u \in Seq(Byte) /\ Len(u) = p + n /\ \A i \in 1 .. p + n : u[i] = w[i]
  <2>1. p + n \in 0..BufferSize
    BY <1>1, <1>2, <1>3
  <2>. QED BY <1>5, <1>6, <2>1, FirstBytes
<1>8. d \in Seq(Byte) /\ Len(d) = p /\ \A i \in 1..p : d[i] = m[i]
  <2>1. p \in 0..BufferSize
    BY <1>1, <1>2, <1>3
  <2>. QED BY <1>6, <2>1, FirstBytes
<1>9. /\ d \o s \in Seq(Byte) /\ Len(d \o s) = Len(d) + Len(s)
      /\ \A i \in 1 .. Len(d) + Len(s) : (d \o s)[i] = IF i <= Len(d) THEN d[i] ELSE s[i - Len(d)]
  BY <1>8, ConcatProperties
<1>10. /\ Len(d \o s) = p + n
       /\ \A i \in 1 .. p + n : (d \o s)[i] = IF i <= p THEN d[i] ELSE s[i - p]
  BY <1>1, <1>8, <1>9
<1>11. ASSUME NEW i \in 1 .. p + n PROVE u[i] = (d \o s)[i]
  <2>1. i <= p \/ p < i
    BY <1>1
  <2>2. CASE i <= p
    <3>1. i \in 1..p
      BY <1>1, <2>2
    <3>. QED BY <1>5, <1>7, <1>8, <1>10, <2>2, <3>1
  <2>3. CASE p < i
    <3>1. i - p \in 1..n /\ p + (i - p) = i /\ ~(i <= p)
      BY <1>1, <2>3
    <3>2. w[p + (i - p)] = s[i - p]
      BY <1>5, <3>1
    <3>. QED BY <1>7, <1>10, <3>1, <3>2
  <2>. QED BY <2>1, <2>2, <2>3
<1>12. u = d \o s
  BY <1>7, <1>9, <1>10, <1>11, SeqEqual
<1>. QED BY <1>1, <1>4, <1>6, <1>12

(* A handle that has read nothing ahead: what it holds is to be written. *)
LEMMA WriterIs ==
  ASSUME NEW h \in Handle, IsSound(h), h.holds # "read"
  PROVE  /\ Content(h) = Overlay(h.file, h.offset, SubSeq(h.mem, 1, h.next))
         /\ At(h) = h.offset + h.next
         /\ SubSeq(h.mem, 1, h.next) \in Seq(Byte) /\ Len(SubSeq(h.mem, 1, h.next)) = h.next
         /\ Content(h) \in Seq(Byte) /\ At(h) \in Nat
<1>1. /\ h.mem \in [1..BufferSize -> Byte] /\ h.next \in 0..BufferSize /\ h.file \in Seq(Byte) /\ h.offset \in Nat
      /\ h.next \in Nat /\ h.holds \in {"nothing", "read", "write"}
  BY HandleFields DEF Handle
<1>2. PICK d : d = SubSeq(h.mem, 1, h.next)
  OBVIOUS
<1>3. d \in Seq(Byte) /\ Len(d) = h.next
  BY <1>1, <1>2, FirstBytes
<1>4. Overlay(h.file, h.offset, d) \in Seq(Byte) /\ (d = <<>> => Overlay(h.file, h.offset, d) = h.file)
  BY <1>1, <1>3, OverlayIs
<1>5. CASE h.holds = "write"
  <2>1. Content(h) = Overlay(h.file, h.offset, d) /\ At(h) = h.offset + h.next
    BY <1>2, <1>5 DEF Content, At
  <2>. QED BY <1>1, <1>2, <1>3, <1>4, <2>1
<1>6. CASE h.holds = "nothing"
  <2>1. h.next = 0
    BY <1>6 DEF IsSound
  <2>2. d = <<>>
    BY <1>3, <2>1, EmptySeq
  <2>3. Content(h) = h.file /\ At(h) = h.offset
    BY <1>6 DEF Content, At
  <2>4. h.offset = h.offset + h.next
    BY <1>1, <2>1
  <2>. QED BY <1>1, <1>2, <1>3, <1>4, <2>2, <2>3, <2>4
<1>. QED BY <1>1, <1>5, <1>6

LEMMA DropReadAheadIs ==
  ASSUME NEW h \in Handle, IsSound(h)
  PROVE  /\ SameFile(DropReadAhead(h), h) /\ DropReadAhead(h).file_pos = h.file_pos
         /\ IsSound(DropReadAhead(h)) /\ DropReadAhead(h).holds # "read"
         /\ Content(DropReadAhead(h)) = Content(h)
         /\ h.mode # "ra" => At(DropReadAhead(h)) = IF h.holds = "read" THEN h.file_pos ELSE At(h)
<1>1. PICK g : g = DropReadAhead(h)
  OBVIOUS
<1>2. CASE h.holds # "read"
  <2>1. g = h
    BY <1>1, <1>2 DEF DropReadAhead
  <2>. QED BY <1>1, <1>2, <2>1 DEF SameFile
<1>3. CASE h.holds = "read"
  <2>1. PICK o : o = IF h.mode = "ra" THEN h.offset ELSE h.file_pos
    OBVIOUS
  <2>2. g = [h EXCEPT !.holds = "nothing", !.next = 0, !.offset = o]
    BY <1>1, <1>3, <2>1 DEF DropReadAhead
  <2>3. o \in Nat /\ 0 \in 0..BufferSize
    BY <2>1, HandleFields
  <2>4. g \in Handle
    BY <2>2, <2>3 DEF Handle
  <2>5. /\ g.open = h.open /\ g.mode = h.mode /\ g.file = h.file /\ g.file_pos = h.file_pos /\ g.eof = h.eof
        /\ g.next = 0 /\ g.holds = "nothing" /\ g.offset = o
    BY <2>2 DEF Handle
  <2>6. ~h.eof
    BY <1>3 DEF IsSound, EofSound
  <2>7. IsSound(g)
    BY <2>5, <2>6 DEF IsSound, EofSound
  <2>8. Content(g) = Content(h) /\ At(g) = o
    BY <1>3, <2>5 DEF Content, At
  <2>. QED BY <1>1, <1>3, <2>1, <2>4, <2>5, <2>7, <2>8 DEF SameFile
<1>. QED BY <1>2, <1>3

(* A small write goes into the memory; what the memory has no room for goes
   there after what it held has been written. *)
LEMMA BufferedIs ==
  ASSUME NEW h \in Handle, IsSound(h), h.open, h.holds # "read", h.mode # "ra",
         NEW s \in Seq(Byte), s # <<>>, Len(s) < BufferSize
  PROVE  /\ SameFile(Buffered(h, s), h) /\ Buffered(h, s).file_pos = h.file_pos
         /\ IsSound(Buffered(h, s))
         /\ Content(Buffered(h, s)) = Overlay(Content(h), At(h), s)
         /\ At(Buffered(h, s)) = At(h) + Len(s) /\ Buffered(h, s).holds # "read"
<1>1. PICK m, x, f, o : m = h.mem /\ x = h.next /\ f = h.file /\ o = h.offset
  OBVIOUS
<1>2. PICK n, b, z : n = Len(s) /\ b = BufferSize /\ z = b - x
  OBVIOUS
<1>3. PICK d, c : d = SubSeq(m, 1, x) /\ c = Content(h)
  OBVIOUS
<1>4. /\ m \in [1..BufferSize -> Byte] /\ x \in Nat /\ x <= b /\ f \in Seq(Byte) /\ o \in Nat
      /\ b \in Nat /\ h.holds \in {"nothing", "write"} /\ h.eof \in BOOLEAN
  BY <1>1, <1>2, HandleFields
<1>5. n \in Nat /\ 1 <= n /\ n < b
  <2>1. n \in Nat /\ n # 0
    BY <1>2, EmptySeq, LenProperties
  <2>. QED BY <1>2, <2>1
<1>6. /\ c = Overlay(f, o, d) /\ At(h) = o + x /\ d \in Seq(Byte) /\ Len(d) = x
      /\ c \in Seq(Byte)
  BY <1>1, <1>3, WriterIs
<1>7. (IF h.holds = "write" THEN h.next ELSE 0) = x
  BY <1>1, <1>4 DEF IsSound
<1>8. z \in Nat /\ x + z = b
  BY <1>2, <1>4
<1>9. EofSound(h)
  BY DEF IsSound
<1>10. PICK g : g = Buffered(h, s)
  OBVIOUS
<1>11. CASE n < z
  <2>1. x + n \in 0..BufferSize /\ x + n # 0 /\ x + Len(s) <= BufferSize
    BY <1>2, <1>4, <1>5, <1>8, <1>11
  <2>2. PICK t : t = Store(m, x, s)
    OBVIOUS
  <2>3. t \in [1..BufferSize -> Byte]
    BY <1>4, <2>1, <2>2, StoreIs
  <2>4. SubSeq(t, 1, x + n) = d \o s
    BY <1>2, <1>3, <1>4, <2>1, <2>2, StoredBehind
  <2>5. g = [h EXCEPT !.holds = "write", !.mem = t, !.next = x + n]
    BY <1>1, <1>2, <1>7, <1>10, <1>11, <2>2 DEF Buffered
  <2>6. g \in Handle
    BY <2>1, <2>3, <2>5 DEF Handle
  <2>7. /\ g.open = h.open /\ g.mode = h.mode /\ g.file = f /\ g.file_pos = h.file_pos /\ g.eof = h.eof
        /\ g.next = x + n /\ g.holds = "write" /\ g.offset = o /\ g.mem = t
    BY <1>1, <2>5 DEF Handle
  <2>8. IsSound(g)
    <3>1. EofSound(g)
      BY <1>1, <1>9, <2>7 DEF EofSound
    <3>. QED BY <2>1, <2>7, <3>1 DEF IsSound
  <2>9. Content(g) = Overlay(f, o, d \o s) /\ At(g) = o + (x + n)
    BY <2>4, <2>7 DEF Content, At
  <2>10. Overlay(f, o, d \o s) = Overlay(c, o + x, s)
    <3>1. Overlay(Overlay(f, o, d), o + Len(d), s) = Overlay(f, o, d \o s)
      <4>1. f \in Seq(Byte) /\ o \in Nat /\ d \in Seq(Byte)
        BY <1>4, <1>6
      <4>. QED BY <4>1, OverlayTwice
    <3>. QED BY <1>6, <3>1
  <2>11. o + (x + n) = (o + x) + n
    BY <1>4, <1>5
  <2>. QED BY <1>2, <1>3, <1>6, <1>10, <2>6, <2>7, <2>8, <2>9, <2>10, <2>11 DEF SameFile
<1>12. CASE ~(n < z)
  <2>1. h.holds = "write" /\ x # 0
    <3>1. x # 0
      BY <1>4, <1>5, <1>8, <1>12
    <3>. QED BY <1>1, <1>4, <3>1 DEF IsSound
  <2>2. PICK a, r : a = SubSeq(s, 1, z) /\ r = SubSeq(s, z + 1, n)
    OBVIOUS
  <2>3. z <= Len(s)
    BY <1>2, <1>5, <1>8, <1>12
  <2>4. a \in Seq(Byte) /\ Len(a) = z /\ r \in Seq(Byte) /\ Len(r) = n - z /\ a \o r = s
    BY <1>2, <1>8, <2>2, <2>3, SplitAt
  <2>5. PICK t : t = Store(m, x, a)
    OBVIOUS
  <2>6. x + Len(a) <= BufferSize
    BY <1>2, <1>4, <1>8, <2>4
  <2>7. t \in [1..BufferSize -> Byte] /\ SubSeq(t, 1, x + Len(a)) = d \o a
    BY <1>3, <1>4, <2>4, <2>5, <2>6, StoreIs, StoredBehind
  <2>8. SubSeq(t, 1, b) = d \o a
    BY <1>8, <2>4, <2>7
  <2>9. PICK w : w = [h EXCEPT !.mem = t, !.next = x + z]
    OBVIOUS
  <2>10. x + z = b /\ b \in 0..BufferSize /\ b # 0
    BY <1>2, <1>4, <1>5, <1>8
  <2>11. w \in Handle
    BY <2>7, <2>9, <2>10 DEF Handle
  <2>12. /\ w.open = h.open /\ w.mode = h.mode /\ w.file = f /\ w.file_pos = h.file_pos /\ w.eof = h.eof
         /\ w.next = b /\ w.holds = "write" /\ w.offset = o /\ w.mem = t
    BY <1>1, <2>1, <2>9, <2>10 DEF Handle
  <2>13. IsSound(w)
    <3>1. EofSound(w)
      BY <1>1, <1>9, <2>12 DEF EofSound
    <3>. QED BY <2>10, <2>12, <3>1 DEF IsSound
  <2>14. PICK v : v = Flush(w)
    OBVIOUS
  <2>15. /\ v \in Handle /\ v.open = h.open /\ v.mode = h.mode /\ v.file_pos = h.file_pos
         /\ IsSound(v) /\ v.holds = "nothing" /\ v.file = Content(w) /\ v.offset = At(w)
    <3>1. /\ SameFile(v, w) /\ v.file_pos = w.file_pos /\ IsSound(v) /\ v.holds = "nothing"
          /\ v.file = Content(w) /\ v.offset = At(w)
      BY <2>11, <2>12, <2>13, <2>14, FlushIs
    <3>. QED BY <2>12, <3>1 DEF SameFile
  <2>16. Content(w) = Overlay(f, o, d \o a) /\ At(w) = o + b
    BY <2>8, <2>12 DEF Content, At
  <2>17. Overlay(f, o, d \o a) = Overlay(c, o + x, a)
    <3>1. Overlay(Overlay(f, o, d), o + Len(d), a) = Overlay(f, o, d \o a)
      <4>1. f \in Seq(Byte) /\ o \in Nat /\ d \in Seq(Byte) /\ a \in Seq(Byte)
        BY <1>4, <1>6, <2>4
      <4>. QED BY <4>1, OverlayTwice
    <3>. QED BY <1>6, <3>1
  <2>18. CASE r = <<>>
    <3>1. g = v
      <4>1. g = Flush([h EXCEPT !.mem = Store(h.mem, h.next, SubSeq(s, 1, z)), !.next = h.next + z])
        BY <1>1, <1>2, <1>7, <1>10, <1>12, <2>2, <2>18 DEF Buffered
      <4>. QED BY <1>1, <2>2, <2>5, <2>9, <2>14, <4>1
    <3>2. a = s /\ n = z
      <4>1. n - z = 0
        BY <2>4, <2>18, EmptySeq
      <4>2. a \o <<>> = a
        BY <2>4, ConcatEmptySeq
      <4>. QED BY <1>5, <1>8, <2>4, <2>18, <4>1, <4>2
    <3>3. Content(g) = Overlay(c, o + x, s) /\ At(g) = o + b
      BY <2>15, <2>16, <2>17, <3>1, <3>2 DEF Content, At
    <3>4. o + b = (o + x) + n
      BY <1>4, <1>8, <3>2
    <3>. QED BY <1>2, <1>3, <1>6, <1>10, <2>15, <3>1, <3>3, <3>4 DEF SameFile
  <2>19. CASE r # <<>>
    <3>1. PICK u, k : u = Store(v.mem, 0, r) /\ k = Len(r)
      OBVIOUS
    <3>2. k = n - z /\ k # 0 /\ k \in Nat /\ k \in 0..BufferSize /\ 0 + Len(r) <= BufferSize
      <4>1. k # 0
        BY <2>4, <2>19, <3>1, EmptySeq
      <4>2. k = n - z
        BY <2>4, <3>1
      <4>3. k \in Nat /\ k <= b /\ 0 + k <= b
        BY <1>5, <1>8, <1>12, <4>2, <1>4
      <4>. QED BY <1>2, <3>1, <4>1, <4>2, <4>3
    <3>3. v.mem \in [1..BufferSize -> Byte]
      BY <2>15, HandleFields
    <3>4. u \in [1..BufferSize -> Byte] /\ SubSeq(u, 1, 0 + Len(r)) = SubSeq(v.mem, 1, 0) \o r
      <4>1. r \in Seq(Byte) /\ 0 \in Nat
        BY <2>4
      <4>2. Store(v.mem, 0, r) \in [1..BufferSize -> Byte]
        BY <3>2, <3>3, <4>1, StoreIs
      <4>3. SubSeq(Store(v.mem, 0, r), 1, 0 + Len(r)) = SubSeq(v.mem, 1, 0) \o r
        BY <3>2, <3>3, <4>1, StoredBehind
      <4>. QED BY <3>1, <4>2, <4>3
    <3>5. SubSeq(u, 1, k) = r
      <4>1. SubSeq(v.mem, 1, 0) = <<>>
        BY SubSeqEmpty
      <4>2. 0 + Len(r) = k
        BY <3>1, <3>2
      <4>. QED BY <2>4, <3>4, <4>1, <4>2, ConcatEmptySeq
    <3>6. g = [v EXCEPT !.holds = "write", !.mem = u, !.next = k]
      <4>1. v = Flush([h EXCEPT !.mem = Store(h.mem, h.next, SubSeq(s, 1, z)), !.next = h.next + z])
        BY <1>1, <2>2, <2>5, <2>9, <2>14
      <4>. QED BY <1>1, <1>2, <1>7, <1>10, <1>12, <2>2, <2>19, <3>1, <4>1 DEF Buffered
    <3>7. g \in Handle
      BY <2>15, <3>2, <3>4, <3>6 DEF Handle
    <3>8. /\ g.open = v.open /\ g.mode = v.mode /\ g.file = v.file /\ g.file_pos = v.file_pos /\ g.eof = v.eof
          /\ g.next = k /\ g.holds = "write" /\ g.offset = v.offset /\ g.mem = u
      BY <2>15, <3>6 DEF Handle
    <3>9. IsSound(g)
      <4>1. EofSound(v)
        BY <2>15 DEF IsSound
      <4>2. EofSound(g)
        BY <3>8, <4>1 DEF EofSound
      <4>. QED BY <2>15, <3>2, <3>8, <4>2 DEF IsSound
    <3>10. Content(g) = Overlay(v.file, o + b, r) /\ At(g) = (o + b) + k
      BY <2>15, <2>16, <3>5, <3>8 DEF Content, At
    <3>11. Overlay(v.file, o + b, r) = Overlay(c, o + x, s)
      <4>1. o + x \in Nat
        BY <1>4
      <4>2. Overlay(Overlay(c, o + x, a), (o + x) + Len(a), r) = Overlay(c, o + x, a \o r)
        <5>1. c \in Seq(Byte) /\ a \in Seq(Byte) /\ r \in Seq(Byte)
          BY <1>6, <2>4
        <5>. QED BY <4>1, <5>1, OverlayTwice
      <4>3. (o + x) + Len(a) = o + b
        BY <1>4, <1>8, <2>4
      <4>. QED BY <2>4, <2>15, <2>16, <2>17, <4>2, <4>3
    <3>12. (o + b) + k = (o + x) + n
      BY <1>4, <1>5, <1>8, <3>2
    <3>. QED BY <1>2, <1>3, <1>6, <1>10, <2>15, <3>7, <3>8, <3>9, <3>10, <3>11, <3>12 DEF SameFile
  <2>. QED BY <2>18, <2>19
<1>. QED BY <1>11, <1>12

(* The position the program is told is no part of the buffer. *)
LEMMA TellKeeps ==
  ASSUME NEW h \in Handle, NEW p \in Nat, NEW g, g = [h EXCEPT !.file_pos = p]
  PROVE  /\ SameFile(g, h) /\ g.file_pos = p /\ Content(g) = Content(h) /\ At(g) = At(h)
         /\ IsSound(h) => IsSound(g)
         /\ g.file = h.file /\ g.offset = h.offset /\ g.mem = h.mem /\ g.next = h.next /\ g.end = h.end
         /\ g.holds = h.holds /\ g.eof = h.eof
         /\ ReadAhead(h) => ReadAhead(g)
<1>1. g \in Handle
  BY DEF Handle
<1>2. /\ g.open = h.open /\ g.mode = h.mode /\ g.file = h.file /\ g.file_pos = p /\ g.eof = h.eof
      /\ g.next = h.next /\ g.holds = h.holds /\ g.offset = h.offset /\ g.mem = h.mem /\ g.end = h.end
  BY DEF Handle
<1>3. Content(g) = Content(h) /\ At(g) = At(h)
  BY <1>2 DEF Content, At
<1>4. ReadAhead(h) => ReadAhead(g)
  BY <1>2 DEF ReadAhead
<1>5. IsSound(h) => IsSound(g)
  <2>1. EofSound(h) => EofSound(g)
    BY <1>2 DEF EofSound
  <2>. QED BY <1>2, <1>4, <2>1 DEF IsSound
<1>. QED BY <1>1, <1>2, <1>3, <1>4, <1>5 DEF SameFile

(* Where a write begins: at the end of a file open for appending, else where
   the program was told, if bytes were read ahead, or where the next byte is. *)
Base(h) == IF h.mode = "ra" THEN Len(Content(h)) ELSE IF h.holds = "read" THEN h.file_pos ELSE At(h)

LEMMA WriteIs ==
  ASSUME NEW h \in Handle, IsSound(h), h.open, NEW s \in Seq(Byte), s # <<>>
  PROVE  /\ SameFile(WriteBuffer(h, s), h) /\ IsSound(WriteBuffer(h, s))
         /\ Content(WriteBuffer(h, s)) = Overlay(Content(h), Base(h), s)
         /\ At(WriteBuffer(h, s)) = Base(h) + Len(s) /\ WriteBuffer(h, s).holds # "read"
         /\ WriteBuffer(h, s).file_pos = IF h.mode = "ra" THEN At(WriteBuffer(h, s))
                                         ELSE h.file_pos + Len(s)
<1>1. PICK g : g = DropReadAhead(h)
  OBVIOUS
<1>2. /\ SameFile(g, h) /\ g.file_pos = h.file_pos /\ IsSound(g) /\ g.holds # "read"
      /\ Content(g) = Content(h) /\ (h.mode # "ra" => At(g) = IF h.holds = "read" THEN h.file_pos ELSE At(h))
  BY <1>1, DropReadAheadIs
<1>3. g \in Handle /\ g.open = h.open /\ g.mode = h.mode
  BY <1>2 DEF SameFile
<1>4. PICK n : n = Len(s) /\ n \in Nat
  BY LenProperties
<1>5. PICK w : w = IF NeedFlush(g, s) \/ Len(s) >= BufferSize THEN PIO_WRITE(Flush(g), s) ELSE Buffered(g, s)
  OBVIOUS
<1>6. PICK p : p = IF g.mode = "ra" THEN w.offset ELSE w.file_pos + n
  OBVIOUS
<1>7. PICK r : r = WriteBuffer(h, s)
  OBVIOUS
<1>8. r = [w EXCEPT !.file_pos = p]
  BY <1>1, <1>4, <1>5, <1>6, <1>7 DEF WriteBuffer
<1>9. /\ SameFile(w, h) /\ IsSound(w) /\ w.file_pos = h.file_pos
      /\ h.mode = "ra" => At(w) = w.offset
      /\ Content(w) = Overlay(Content(h), Base(h), s) /\ At(w) = Base(h) + n /\ w.holds # "read"
  <2>1. CASE NeedFlush(g, s) \/ Len(s) >= BufferSize
    <3>1. PICK v : v = Flush(g)
      OBVIOUS
    <3>2. /\ v \in Handle /\ v.open = h.open /\ v.mode = h.mode /\ v.file_pos = h.file_pos /\ IsSound(v)
          /\ v.holds = "nothing" /\ v.file = Content(h) /\ v.offset = At(g)
      BY <1>2, <1>3, <3>1, FlushIs DEF SameFile
    <3>3. PICK b : b = WritePlace(v)
      OBVIOUS
    <3>4. w = PIO_WRITE(v, s)
      BY <1>5, <2>1, <3>1
    <3>5. /\ w \in Handle /\ w.open = h.open /\ w.mode = h.mode /\ w.file_pos = h.file_pos
          /\ w.file = Overlay(Content(h), b, s) /\ w.offset = b + n
          /\ w.next = v.next /\ w.holds = "nothing" /\ w.eof = v.eof
          /\ v.offset >= Len(v.file) => w.offset >= Len(w.file)
      <4>1. /\ w \in Handle /\ w.open = v.open /\ w.mode = v.mode /\ w.file_pos = v.file_pos
            /\ w.file = Overlay(v.file, b, s) /\ w.offset = b + Len(s)
            /\ w.next = v.next /\ w.holds = v.holds /\ w.eof = v.eof
            /\ v.offset >= Len(v.file) => w.offset >= Len(w.file)
        <5>1. v \in Handle
          BY <3>2
        <5>. QED BY <3>3, <3>4, <5>1, PioWriteIs
      <4>. QED BY <1>4, <3>2, <4>1
    <3>6. IsSound(w)
      <4>1. v.next = 0 /\ EofSound(v)
        BY <3>2 DEF IsSound
      <4>2. EofSound(w)
        BY <3>5, <4>1 DEF EofSound
      <4>. QED BY <3>5, <4>1, <4>2 DEF IsSound
    <3>7. Content(w) = w.file /\ At(w) = w.offset
      BY <3>5 DEF Content, At
    <3>8. b = Base(h)
      BY <1>2, <3>2, <3>3 DEF WritePlace, Base
    <3>. QED BY <3>5, <3>6, <3>7, <3>8 DEF SameFile
  <2>2. CASE ~(NeedFlush(g, s) \/ Len(s) >= BufferSize)
    <3>1. g.mode # "ra"
      BY <2>2 DEF NeedFlush
    <3>2. Len(s) < BufferSize
      BY <1>4, <2>2, BytesFit
    <3>3. w = Buffered(g, s)
      BY <1>5, <2>2
    <3>4. /\ SameFile(w, g) /\ w.file_pos = g.file_pos /\ IsSound(w)
          /\ Content(w) = Overlay(Content(g), At(g), s) /\ At(w) = At(g) + Len(s) /\ w.holds # "read"
      BY <1>2, <1>3, <3>1, <3>2, <3>3, BufferedIs
    <3>5. At(g) = Base(h)
      BY <1>2, <1>3, <3>1 DEF Base
    <3>. QED BY <1>2, <1>3, <1>4, <3>1, <3>4, <3>5 DEF SameFile
  <2>. QED BY <2>1, <2>2
<1>10. p \in Nat
  BY <1>4, <1>6, <1>9, HandleFields DEF SameFile
<1>11. w \in Handle
  BY <1>9 DEF SameFile
<1>12. /\ SameFile(r, w) /\ r.file_pos = p /\ Content(r) = Content(w) /\ At(r) = At(w) /\ IsSound(r)
       /\ r.holds = w.holds
  BY <1>8, <1>9, <1>10, <1>11, TellKeeps
<1>13. r.file_pos = IF h.mode = "ra" THEN At(r) ELSE h.file_pos + n
  BY <1>3, <1>6, <1>9, <1>12
<1>14. SameFile(r, h)
  BY <1>9, <1>12 DEF SameFile
<1>. QED BY <1>4, <1>7, <1>9, <1>12, <1>13, <1>14

LEMMA SeekOutsideIs ==
  ASSUME NEW h \in Handle, IsSound(h), NEW to \in Nat
  PROVE  LET g == SeekOutside(Flush(h), to)
         IN  /\ SameFile(g, h) /\ IsSound(g) /\ g.file_pos = to /\ At(g) = to
             /\ Content(g) = Content(h) /\ g.holds = "nothing"
<1>1. PICK v : v = Flush(h)
  OBVIOUS
<1>2. /\ v \in Handle /\ v.open = h.open /\ v.mode = h.mode /\ IsSound(v)
      /\ v.holds = "nothing" /\ v.file = Content(h)
  BY <1>1, FlushIs DEF SameFile
<1>3. PICK g : g = SeekOutside(v, to)
  OBVIOUS
<1>4. g = [v EXCEPT !.offset = to, !.eof = FALSE, !.file_pos = to]
  BY <1>3 DEF SeekOutside
<1>5. g \in Handle
  BY <1>2, <1>4 DEF Handle
<1>6. /\ g.open = h.open /\ g.mode = h.mode /\ g.file = v.file /\ g.file_pos = to /\ g.offset = to
      /\ g.holds = "nothing" /\ g.next = v.next /\ g.eof = FALSE
  BY <1>2, <1>4 DEF Handle
<1>7. IsSound(g)
  <2>1. v.next = 0
    BY <1>2 DEF IsSound
  <2>. QED BY <1>6, <2>1 DEF IsSound, EofSound
<1>8. At(g) = to /\ Content(g) = Content(h)
  BY <1>2, <1>6 DEF At, Content
<1>. QED BY <1>1, <1>3, <1>5, <1>6, <1>7, <1>8 DEF SameFile

(* A seek that stays within the bytes that are held. *)
Stays(g, h, to) ==
  /\ Held(h) # Logical!Nothing /\ to < h.file_pos + Held(h)
  /\ At(g) = At(h) + (to - h.file_pos) /\ Held(g) = Held(h) - (to - h.file_pos)

LEMMA SeekIs ==
  ASSUME NEW h \in Handle, IsSound(h), NEW to \in Nat
  PROVE  /\ SameFile(SeekBuffer(h, to), h) /\ IsSound(SeekBuffer(h, to))
         /\ SeekBuffer(h, to).file_pos = to
         /\ \/ At(SeekBuffer(h, to)) = to /\ Held(SeekBuffer(h, to)) = Logical!Nothing
            \/ Stays(SeekBuffer(h, to), h, to)
         /\ Content(SeekBuffer(h, to)) = Content(h)
<1>1. PICK g : g = SeekBuffer(h, to)
  OBVIOUS
<1>2. CASE Inside(h, to)
  <2>1. PICK x, e, o, f : x = h.next /\ e = h.end /\ o = h.offset /\ f = h.file_pos
    OBVIOUS
  <2>2. x \in Nat /\ e \in Int /\ o \in Nat /\ f \in Nat /\ e <= BufferSize /\ BufferSize \in Nat
    BY <2>1, HandleFields
  <2>3. h.holds = "read" /\ to >= f - x /\ to < f + (e - x)
    BY <1>2, <2>1 DEF Inside
  <2>4. ReadAhead(h) /\ ~h.eof /\ h.open
    BY <2>3 DEF IsSound, EofSound
  <2>5. PICK y : y = x + (to - f)
    OBVIOUS
  <2>6. y \in 0..BufferSize /\ y <= e /\ x <= e
    <3>1. x <= e
      BY <2>1, <2>4 DEF ReadAhead
    <3>. QED BY <2>2, <2>3, <2>5, <3>1
  <2>7. g = [h EXCEPT !.next = y, !.file_pos = to]
    BY <1>1, <1>2, <2>1, <2>5 DEF SeekBuffer
  <2>8. g \in Handle
    BY <2>6, <2>7 DEF Handle
  <2>9. /\ g.open = h.open /\ g.mode = h.mode /\ g.file = h.file /\ g.file_pos = to /\ g.offset = o
        /\ g.holds = "read" /\ g.next = y /\ g.eof = h.eof /\ g.end = e /\ g.mem = h.mem
    BY <2>1, <2>3, <2>7 DEF Handle
  <2>10. ReadAhead(g)
    BY <2>1, <2>4, <2>6, <2>9 DEF ReadAhead
  <2>11. IsSound(g)
    BY <2>4, <2>9, <2>10 DEF IsSound, EofSound
  <2>12. At(g) = o - (e - y) /\ At(h) = o - (e - x)
    BY <2>1, <2>3, <2>9 DEF At
  <2>13. At(g) = At(h) + (to - f)
    BY <2>2, <2>5, <2>12
  <2>14. Content(g) = Content(h)
    BY <2>3, <2>9 DEF Content
  <2>15. Held(g) = e - y /\ Held(h) = e - x
    BY <2>1, <2>3, <2>9 DEF Held
  <2>16. e - y = (e - x) - (to - f) /\ e - x # -1
    BY <2>2, <2>3, <2>5, <2>6
  <2>17. Stays(g, h, to)
    BY <2>1, <2>3, <2>13, <2>15, <2>16 DEF Stays, Logical!Nothing
  <2>. QED BY <1>1, <2>1, <2>8, <2>9, <2>11, <2>14, <2>17 DEF SameFile
<1>3. CASE ~Inside(h, to)
  <2>1. g = SeekOutside(Flush(h), to)
    BY <1>1, <1>3 DEF SeekBuffer
  <2>2. /\ SameFile(g, h) /\ IsSound(g) /\ g.file_pos = to /\ At(g) = to
        /\ Content(g) = Content(h) /\ g.holds = "nothing"
    BY <2>1, SeekOutsideIs
  <2>3. Held(g) = Logical!Nothing
    BY <2>2 DEF Held
  <2>. QED BY <1>1, <2>2, <2>3
<1>. QED BY <1>2, <1>3
-----------------------------------------------------------------------------
(* The answer r of a read of n bytes with handle h: the bytes that follow,
   and the handle that stands behind them. *)
Takes(r, h, n) ==
  /\ r = [handle |-> r.handle, bytes |-> r.bytes]
  /\ SameFile(r.handle, h) /\ IsSound(r.handle) /\ Content(r.handle) = Content(h)
  /\ r.bytes = Slice(Content(h), At(h), n)
  /\ At(r.handle) = At(h) + Len(r.bytes)
  /\ r.handle.file_pos = h.file_pos + Len(r.bytes)

(* What is held after n of the a bytes that were held have been taken. *)
Leaves(g, a, n) ==
  /\ n < a => Held(g) = a - n
  /\ n = a => Held(g) = Logical!Nothing

LEMMA ConsumeLeaves ==
  ASSUME NEW h \in Handle, h.holds = "read", IsSound(h), NEW n \in Nat, n <= h.end - h.next
  PROVE  Leaves(Consume(h, n), Held(h), n)
<1>1. PICK x, e : x = h.next /\ e = h.end
  OBVIOUS
<1>2. x \in Nat /\ e \in Int /\ Held(h) = e - x
  BY <1>1, HandleFields DEF Held
<1>3. PICK c : c = Consume(h, n)
  OBVIOUS
<1>4. CASE n = e - x
  <2>1. c.holds = "nothing"
    BY <1>1, <1>3, <1>4, ConsumeIs DEF IsSound
  <2>2. Held(c) = Logical!Nothing
    BY <2>1 DEF Held
  <2>3. ~(n < e - x)
    BY <1>2, <1>4
  <2>. QED BY <1>2, <1>3, <2>2, <2>3 DEF Leaves
<1>5. CASE n # e - x
  <2>1. x + n # e
    BY <1>2, <1>5
  <2>2. c = [h EXCEPT !.next = x + n, !.file_pos = h.file_pos + n]
    BY <1>1, <1>3, <2>1 DEF Consume
  <2>3. c.holds = "read" /\ c.next = x + n /\ c.end = e
    BY <1>1, <2>2 DEF Handle
  <2>4. Held(c) = e - (x + n)
    BY <2>3 DEF Held
  <2>5. e - (x + n) = (e - x) - n
    BY <1>2
  <2>. QED BY <1>2, <1>3, <1>5, <2>4, <2>5 DEF Leaves
<1>. QED BY <1>4, <1>5

LEMMA ConsumeSound ==
  ASSUME NEW h \in Handle, h.holds = "read", IsSound(h), NEW n \in Nat, n <= h.end - h.next
  PROVE  Takes([handle |-> Consume(h, n), bytes |-> SubSeq(h.mem, h.next + 1, h.next + n)], h, n)
<1>1. ReadAhead(h) /\ ~h.eof /\ h.open
  BY DEF IsSound, EofSound
<1>2. PICK c, s : c = Consume(h, n) /\ s = SubSeq(h.mem, h.next + 1, h.next + n)
  OBVIOUS
<1>3. /\ c \in Handle /\ c.open = h.open /\ c.mode = h.mode /\ c.file = h.file /\ c.eof = h.eof
      /\ c.file_pos = h.file_pos + n /\ At(c) = At(h) + n
      /\ \/ c.holds = "nothing" /\ c.next = 0
         \/ c.holds = "read" /\ ReadAhead(c)
  BY <1>1, <1>2, ConsumeIs
<1>4. s = Slice(h.file, At(h), n) /\ Len(s) = n
  BY <1>1, <1>2, ReadAheadIs
<1>5. IsSound(c)
  BY <1>1, <1>3 DEF IsSound, EofSound
<1>6. Content(c) = Content(h) /\ Content(h) = h.file
  BY <1>3 DEF Content
<1>7. PICK r : r = [handle |-> c, bytes |-> s]
  OBVIOUS
<1>8. r.handle = c /\ r.bytes = s
  BY <1>7
<1>9. Takes(r, h, n)
  BY <1>3, <1>4, <1>5, <1>6, <1>7, <1>8 DEF Takes, SameFile
<1>. QED BY <1>2, <1>7, <1>9

(* What the buffer cannot answer: past it, or by filling it again. *)
LEMMA ReadRestIs ==
  ASSUME NEW h \in Handle, IsSound(h), h.open, h.holds = "nothing", NEW n \in Nat, NEW old, old # 0
  PROVE  Takes(ReadRest(h, old, n), h, n)
<1>1. PICK f, o, b : f = h.file /\ o = h.offset /\ b = BufferSize
  OBVIOUS
<1>2. PICK l : l = Len(f)
  OBVIOUS
<1>3. f \in Seq(Byte) /\ o \in Nat /\ b \in Nat /\ b >= 1 /\ l \in Nat /\ h.file_pos \in Nat /\ h.eof \in BOOLEAN
  BY <1>1, <1>2, HandleFields
<1>4. Content(h) = f /\ At(h) = o /\ h.next = 0 /\ EofSound(h)
  BY <1>1 DEF Content, At, IsSound
<1>5. PICK s, k : s = Slice(f, o, n) /\ k = Len(s)
  OBVIOUS
<1>6. /\ s \in Seq(Byte) /\ k \in Nat /\ k = IF l <= o THEN 0 ELSE IF l <= o + n THEN l - o ELSE n
  <2>1. f \in Seq(Byte) /\ o \in Nat
    BY <1>3
  <2>2. /\ Slice(f, o, n) \in Seq(Byte) /\ Len(Slice(f, o, n)) \in Nat
        /\ Len(Slice(f, o, n)) = IF Len(f) <= o THEN 0 ELSE IF Len(f) <= o + n THEN Len(f) - o ELSE n
    BY <2>1, SliceIs
  <2>. QED BY <1>2, <1>5, <2>2
<1>7. k = 0 <=> s = <<>>
  BY <1>5, <1>6, EmptySeq
<1>8. PICK r : r = ReadRest(h, old, n)
  OBVIOUS
<1>9. PICK p : p = h.file_pos
  OBVIOUS
<1>10. CASE n >= BufferSize
  <2>1. PICK g : g = [h EXCEPT !.offset = o + k, !.file_pos = p + k, !.eof = h.eof \/ s = <<>>]
    OBVIOUS
  <2>2. r = [handle |-> g, bytes |-> s]
    BY <1>1, <1>5, <1>8, <1>9, <1>10, <2>1 DEF ReadRest
  <2>3. o + k \in Nat /\ p + k \in Nat
    BY <1>3, <1>6, <1>9
  <2>4. g \in Handle
    BY <2>1, <2>3 DEF Handle
  <2>5. /\ g.open = h.open /\ g.mode = h.mode /\ g.file = f /\ g.file_pos = p + k /\ g.offset = o + k
        /\ g.holds = "nothing" /\ g.next = 0 /\ g.eof = (h.eof \/ s = <<>>)
    BY <1>1, <1>4, <2>1 DEF Handle
  <2>6. EofSound(g)
    <3>1. h.eof => l <= o
      BY <1>1, <1>2, <1>3, <1>4 DEF EofSound
    <3>2. s = <<>> => l <= o
      BY <1>1, <1>3, <1>6, <1>7, <1>10
    <3>3. l <= o => l <= o + k
      BY <1>3, <1>6
    <3>4. l <= o + k => o + k >= l
      BY <1>3, <1>6
    <3>. QED BY <1>2, <2>5, <3>1, <3>2, <3>3, <3>4 DEF EofSound
  <2>7. IsSound(g)
    BY <2>5, <2>6 DEF IsSound
  <2>8. Content(g) = f /\ At(g) = o + k
    BY <2>5 DEF Content, At
  <2>9. r.handle = g /\ r.bytes = s
    BY <2>2
  <2>10. Takes(r, h, n)
    BY <1>4, <1>5, <1>9, <2>2, <2>4, <2>5, <2>7, <2>8, <2>9 DEF Takes, SameFile
  <2>. QED BY <1>8, <2>10
<1>11. CASE ~(n >= BufferSize)
  <2>1. PICK got, g, c : got = Slice(f, o, b) /\ g = Fill(h) /\ c = Len(got)
    OBVIOUS
  <2>2. /\ got \in Seq(Byte) /\ c \in Nat /\ c = IF l <= o THEN 0 ELSE IF l <= o + b THEN l - o ELSE b
    <3>1. f \in Seq(Byte) /\ o \in Nat /\ b \in Nat
      BY <1>3
    <3>2. /\ Slice(f, o, b) \in Seq(Byte) /\ Len(Slice(f, o, b)) \in Nat
          /\ Len(Slice(f, o, b)) = IF Len(f) <= o THEN 0 ELSE IF Len(f) <= o + b THEN Len(f) - o ELSE b
      BY <3>1, SliceIs
    <3>. QED BY <1>2, <2>1, <3>2
  <2>3. PICK m : m = IoMin(n, c)
    OBVIOUS
  <2>4. m = k
    BY <1>1, <1>3, <1>6, <1>11, <2>2, <2>3 DEF IoMin
  <2>5. /\ got = <<>> => g = [h EXCEPT !.eof = TRUE] /\ g \in Handle /\ l <= o
        /\ got # <<>> => /\ g \in Handle /\ g.holds = "read" /\ ReadAhead(g) /\ g.next = 0 /\ g.end = c
                         /\ g.offset = o + c /\ g.open = h.open /\ g.mode = h.mode /\ g.file = f
                         /\ g.file_pos = p /\ g.eof = h.eof /\ o < l
    BY <1>1, <1>2, <1>9, <2>1, FillIs
  <2>6. g.next = 0 /\ g.file_pos = p
    BY <1>4, <1>9, <2>5 DEF Handle
  <2>7. g.next # old
    BY <2>6
  <2>8. PICK w : w = [g EXCEPT !.next = 0 + k, !.file_pos = p + k]
    OBVIOUS
  <2>9. r = [handle |-> w, bytes |-> SubSeq(g.mem, g.next + 1, g.next + k)]
    BY <1>1, <1>8, <1>11, <2>1, <2>3, <2>4, <2>6, <2>7, <2>8 DEF ReadRest
  <2>10. 0 + k \in 0..BufferSize /\ 0 + k = k /\ p + k \in Nat
    <3>1. n < b
      BY <1>1, <1>3, <1>11
    <3>2. k <= n
      BY <1>3, <1>6
    <3>3. k \in 0..b
      BY <1>3, <1>6, <3>1, <3>2
    <3>4. 0 + k = k /\ p + k \in Nat
      BY <1>3, <1>6, <1>9
    <3>. QED BY <1>1, <3>3, <3>4
  <2>11. g \in Handle
    BY <2>5
  <2>12. w \in Handle
    BY <2>8, <2>10, <2>11 DEF Handle
  <2>13. /\ w.open = g.open /\ w.mode = g.mode /\ w.file = g.file /\ w.file_pos = p + k /\ w.offset = g.offset
         /\ w.holds = g.holds /\ w.next = k /\ w.eof = g.eof /\ w.end = g.end /\ w.mem = g.mem
    BY <2>8, <2>10, <2>11 DEF Handle
  <2>14. CASE got = <<>>
    <3>1. k = 0 /\ s = <<>>
      BY <1>3, <1>6, <1>7, <2>5, <2>14
    <3>2. /\ g.open = h.open /\ g.mode = h.mode /\ g.file = f /\ g.offset = o /\ g.holds = "nothing" /\ g.eof = TRUE
      BY <1>1, <2>5, <2>14 DEF Handle
    <3>3. o >= l
      BY <1>3, <2>5, <2>14
    <3>4. IsSound(w)
      BY <1>2, <2>13, <3>1, <3>2, <3>3 DEF IsSound, EofSound
    <3>5. Content(w) = f /\ At(w) = o
      BY <2>13, <3>2 DEF Content, At
    <3>6. SubSeq(g.mem, g.next + 1, g.next + k) = s
      <4>1. SubSeq(g.mem, 1, 0) = <<>>
        BY SubSeqEmpty
      <4>2. g.next + 1 = 1 /\ g.next + k = 0
        BY <2>6, <3>1
      <4>. QED BY <3>1, <4>1, <4>2
    <3>7. r.handle = w /\ r.bytes = s
      BY <2>9, <3>6
    <3>8. o = o + k
      BY <1>3, <3>1
    <3>9. Takes(r, h, n)
      BY <1>4, <1>5, <1>9, <2>9, <2>12, <2>13, <3>2, <3>4, <3>5, <3>6, <3>7, <3>8 DEF Takes, SameFile
    <3>. QED BY <1>8, <3>9
  <2>15. CASE got # <<>>
    <3>1. k <= c /\ k \in Nat
      <4>1. n < b
        BY <1>1, <1>3, <1>11
      <4>. QED BY <1>3, <1>6, <2>2, <4>1
    <3>2. ReadAhead(w)
      BY <2>5, <2>13, <2>15, <3>1 DEF ReadAhead
    <3>3. ~h.eof
      BY <1>1, <1>2, <1>3, <1>4, <2>5, <2>15 DEF EofSound
    <3>4. IsSound(w)
      <4>1. w.eof = h.eof /\ w.holds = "read" /\ w.open = h.open
        BY <2>5, <2>13, <2>15
      <4>. QED BY <3>2, <3>3, <4>1 DEF IsSound, EofSound
    <3>5. At(g) = o
      <4>1. At(g) = (o + c) - (c - 0)
        BY <2>5, <2>15 DEF At
      <4>. QED BY <1>3, <2>2, <4>1
    <3>6. At(w) = o + k /\ Content(w) = f
      <4>1. At(w) = (o + c) - (c - k) /\ Content(w) = f
        BY <2>5, <2>13, <2>15 DEF At, Content
      <4>. QED BY <1>3, <2>2, <3>1, <4>1
    <3>7. SubSeq(g.mem, g.next + 1, g.next + k) = Slice(f, o, k)
      <4>1. k <= g.end - g.next
        BY <2>2, <2>5, <2>15, <3>1
      <4>2. SubSeq(g.mem, g.next + 1, g.next + k) = Slice(g.file, At(g), k)
        BY <2>5, <2>15, <3>1, <4>1, ReadAheadIs
      <4>. QED BY <2>5, <2>15, <3>5, <4>2
    <3>8. Slice(f, o, k) = s
      <4>1. (IF l < o + k THEN l ELSE o + k) = (IF l < o + n THEN l ELSE o + n)
        BY <1>3, <1>6, <2>5, <2>15
      <4>. QED BY <1>2, <1>5, <4>1 DEF Slice, Logical!Slice, Logical!FileMin
    <3>9. r.handle = w /\ r.bytes = s
      BY <2>9, <3>7, <3>8
    <3>10. Takes(r, h, n)
      BY <1>4, <1>5, <1>9, <2>5, <2>9, <2>12, <2>13, <2>15, <3>4, <3>6, <3>7, <3>8, <3>9 DEF Takes, SameFile
    <3>. QED BY <1>8, <3>10
  <2>. QED BY <2>14, <2>15
<1>. QED BY <1>10, <1>11

(* Whatever was asked for is what follows in the file. *)
LEMMA ReadIs ==
  ASSUME NEW h0 \in Handle, IsSound(h0), h0.open, NEW n \in Nat
  PROVE  Takes(ReadBuffer(h0, n), h0, n)
<1>1. PICK h : h = FlushWrites(h0)
  OBVIOUS
<1>2. /\ SameFile(h, h0) /\ h.file_pos = h0.file_pos /\ IsSound(h) /\ h.holds \in {"nothing", "read"}
      /\ Content(h) = Content(h0) /\ h.file = Content(h0) /\ At(h) = At(h0)
  BY <1>1, FlushWritesIs
<1>3. h \in Handle /\ h.open /\ h.mode = h0.mode
  BY <1>2 DEF SameFile
<1>4. PICK r : r = ReadBuffer(h0, n)
  OBVIOUS
<1>5. SUFFICES Takes(r, h, n)
  BY <1>2, <1>4 DEF Takes, SameFile
<1>6. PICK x, e : x = h.next /\ e = h.end
  OBVIOUS
<1>7. x \in Nat /\ e \in Int /\ (e = NoEnd \/ 1 <= e)
  BY <1>3, <1>6, HandleFields
<1>8. CASE h.holds = "nothing"
  <2>1. x = 0 /\ Available(h) = 0
    BY <1>2, <1>6, <1>8 DEF IsSound, Available
  <2>2. IoMin(Available(h), n) = 0 /\ n - 0 = n
    BY <2>1 DEF IoMin
  <2>3. SubSeq(h.mem, h.next + 1, h.next + 0) = <<>>
    <3>1. h.next + 1 = 1 /\ h.next + 0 = 0
      BY <1>6, <2>1
    <3>2. SubSeq(h.mem, 1, 0) = <<>>
      BY SubSeqEmpty
    <3>. QED BY <3>1, <3>2
  <2>4. PICK q : q = ReadRest(h, e, n)
    OBVIOUS
  <2>5. e # 0
    BY <1>7 DEF NoEnd
  <2>6. Takes(q, h, n)
    BY <1>2, <1>3, <1>8, <2>4, <2>5, ReadRestIs
  <2>7. r = [q EXCEPT !.bytes = <<>> \o q.bytes]
    BY <1>1, <1>4, <1>6, <1>8, <2>2, <2>3, <2>4 DEF ReadBuffer
  <2>8. <<>> \o q.bytes = q.bytes
    <3>1. h.file \in Seq(Byte)
      BY <1>3, HandleFields
    <3>2. At(h) \in Nat
      BY <1>2, <1>3, <1>8, WriterIs
    <3>3. Slice(h.file, At(h), n) \in Seq(Byte)
      BY <3>1, <3>2, SliceIs
    <3>4. q.bytes \in Seq(Byte)
      BY <1>2, <2>6, <3>3 DEF Takes
    <3>. QED BY <3>4, ConcatEmptySeq
  <2>9. q = [handle |-> q.handle, bytes |-> q.bytes]
    BY <2>6 DEF Takes
  <2>10. r = q
    BY <2>7, <2>8, <2>9
  <2>. QED BY <2>6, <2>10
<1>9. CASE h.holds = "read"
  <2>1. ReadAhead(h)
    BY <1>2, <1>9 DEF IsSound
  <2>2. x <= e /\ Available(h) = e - x
    BY <1>6, <1>9, <2>1 DEF ReadAhead, Available
  <2>3. PICK c : c = IoMin(Available(h), n)
    OBVIOUS
  <2>4. c \in Nat /\ c <= e - x /\ c <= n /\ (c # n => c = e - x)
    BY <1>7, <2>2, <2>3 DEF IoMin
  <2>5. PICK s, g : s = SubSeq(h.mem, h.next + 1, h.next + c) /\ g = Consume(h, c)
    OBVIOUS
  <2>6. c <= h.end - h.next
    BY <1>6, <2>4
  <2>7. Takes([handle |-> g, bytes |-> s], h, c)
    BY <1>2, <1>3, <1>9, <2>4, <2>5, <2>6, ConsumeSound
  <2>8. /\ SameFile(g, h) /\ IsSound(g) /\ Content(g) = Content(h) /\ s = Slice(Content(h), At(h), c)
        /\ g.file_pos = h.file_pos + Len(s) /\ At(g) = At(h) + Len(s)
    BY <2>7 DEF Takes
  <2>9. /\ Len(s) = c /\ At(h) \in Nat /\ At(h) + c <= Len(h.file) /\ h.offset = At(h) + (h.end - h.next)
    BY <1>3, <1>9, <2>1, <2>4, <2>5, <2>6, ReadAheadIs
  <2>10. CASE c = n
    <3>1. r = [handle |-> g, bytes |-> s]
      BY <1>1, <1>4, <1>9, <2>3, <2>5, <2>10 DEF ReadBuffer
    <3>. QED BY <2>7, <2>10, <3>1
  <2>11. CASE c # n
    <3>1. PICK q, d : d = n - c /\ q = ReadRest(g, e, d)
      OBVIOUS
    <3>2. d \in Nat /\ c + d = n /\ c = h.end - h.next
      BY <1>6, <2>4, <2>11, <3>1
    <3>3. g.holds = "nothing"
      BY <1>3, <1>9, <2>1, <2>4, <2>5, <2>6, <3>2, ConsumeIs
    <3>4. g \in Handle /\ g.open = h.open /\ g.mode = h.mode
      BY <2>8 DEF SameFile
    <3>5. e # 0
      BY <1>7 DEF NoEnd
    <3>6. Takes(q, g, d)
      BY <1>3, <2>8, <3>1, <3>2, <3>3, <3>4, <3>5, ReadRestIs
    <3>7. r = [q EXCEPT !.bytes = s \o q.bytes]
      BY <1>1, <1>4, <1>6, <1>9, <2>3, <2>5, <2>11, <3>1 DEF ReadBuffer
    <3>8. PICK f, a : f = Content(h) /\ a = At(h)
      OBVIOUS
    <3>9. f \in Seq(Byte) /\ a \in Nat /\ a + c <= Len(f)
      BY <1>2, <1>3, <2>9, <3>8, HandleFields
    <3>10. /\ q = [handle |-> q.handle, bytes |-> q.bytes]
           /\ q.handle \in Handle /\ q.handle.open = h.open /\ q.handle.mode = h.mode
           /\ IsSound(q.handle) /\ Content(q.handle) = f
           /\ q.bytes = Slice(f, a + c, d)
           /\ At(q.handle) = (a + c) + Len(q.bytes)
           /\ q.handle.file_pos = (h.file_pos + c) + Len(q.bytes)
      BY <2>8, <2>9, <3>4, <3>6, <3>8 DEF Takes, SameFile
    <3>11. s \o q.bytes = Slice(f, a, n)
      <4>1. Slice(f, a, c) \o Slice(f, a + c, d) = Slice(f, a, c + d)
        <5>1. c \in Nat /\ d \in Nat /\ (c = 0 \/ a + c <= Len(f)) /\ f \in Seq(Byte) /\ a \in Nat
          BY <2>4, <3>2, <3>9
        <5>2. PICK z : z = a + c
          OBVIOUS
        <5>3. Joined(f, a, c, z, d, n)
          BY <3>2, <5>1, <5>2, SliceJoin
        <5>. QED BY Zenon, <3>2, <5>2, <5>3 DEF Joined
      <4>. QED BY <2>8, <3>2, <3>8, <3>10, <4>1
    <3>12. PICK k, m : k = Len(q.bytes) /\ m = Len(s \o q.bytes)
      OBVIOUS
    <3>13. m = c + k /\ k \in Nat
      <4>1. s \in Seq(Byte) /\ q.bytes \in Seq(Byte)
        <5>1. a + c \in Nat
          BY <2>4, <3>9
        <5>2. Slice(f, a, c) \in Seq(Byte) /\ Slice(f, a + c, d) \in Seq(Byte)
          BY <2>4, <3>2, <3>9, <5>1, SliceIs
        <5>. QED BY <2>8, <3>8, <3>10, <5>2
      <4>2. Len(s \o q.bytes) = Len(s) + Len(q.bytes) /\ Len(q.bytes) \in Nat
        BY <4>1, ConcatProperties, LenProperties
      <4>. QED BY <2>9, <3>12, <4>2
    <3>14. h.file_pos \in Nat
      BY <1>3, HandleFields
    <3>15. (a + c) + k = a + m /\ (h.file_pos + c) + k = h.file_pos + m
      BY <2>4, <3>9, <3>13, <3>14
    <3>16. r = [handle |-> q.handle, bytes |-> s \o q.bytes]
      BY <3>7, <3>10
    <3>17. r.handle = q.handle /\ r.bytes = s \o q.bytes
      BY <3>16
    <3>. QED BY <3>8, <3>10, <3>11, <3>12, <3>15, <3>16, <3>17 DEF Takes, SameFile
  <2>. QED BY <2>10, <2>11
<1>. QED BY <1>2, <1>8, <1>9

LEMMA ReadLeaves ==
  ASSUME NEW h \in Handle, IsSound(h), NEW n \in Nat, n <= Held(h)
  PROVE  Leaves(ReadBuffer(h, n).handle, Held(h), n)
<1>1. h.holds = "read"
  <2>1. SUFFICES ASSUME h.holds # "read" PROVE FALSE
    OBVIOUS
  <2>2. Held(h) = -1
    BY <2>1 DEF Held, Logical!Nothing
  <2>. QED BY <2>2
<1>2. FlushWrites(h) = h /\ Available(h) = h.end - h.next /\ Held(h) = h.end - h.next
  BY <1>1 DEF FlushWrites, Available, Held
<1>3. h.end - h.next \in Int
  BY HandleFields
<1>4. IoMin(Available(h), n) = n
  BY <1>2, <1>3 DEF IoMin
<1>5. PICK t, g : t = SubSeq(h.mem, h.next + 1, h.next + n) /\ g = Consume(h, n)
  OBVIOUS
<1>6. ReadBuffer(h, n) = [handle |-> g, bytes |-> t]
  BY <1>1, <1>2, <1>4, <1>5 DEF ReadBuffer
<1>7. ReadBuffer(h, n).handle = g
  BY <1>6
<1>8. Leaves(Consume(h, n), Held(h), n)
  BY <1>1, <1>2, ConsumeLeaves
<1>. QED BY <1>5, <1>7, <1>8
-----------------------------------------------------------------------------
(* n bytes from position p of f on are a line: there is no newline before
   the last of them, and the last is one unless the file ends there. *)
IsLine(f, p, n) ==
  /\ n \in Nat /\ p + n <= Len(f)
  /\ \A i \in p + 1 .. p + n - 1 : f[i] # Newline
  /\ n = Len(f) - p \/ (n > 0 /\ f[p + n] = Newline)

NoNewline(f, p, o) == \A i \in p + 1 .. o : f[i] # Newline

LEMMA LineLengthIs ==
  ASSUME NEW f \in Seq(Byte), NEW p \in Nat
  PROVE  /\ Logical!LineLength(f, p) \in Nat
         /\ p <= Len(f) => IsLine(f, p, Logical!LineLength(f, p))
         /\ Len(f) <= p => Logical!LineLength(f, p) = 0
<1>1. PICK l : l = Len(f) /\ l \in Nat
  BY LenProperties
<1>2. PICK n : n = Logical!LineLength(f, p)
  OBVIOUS
<1>. DEFINE Ends == {i \in p + 1 .. l : f[i] = Newline}
<1>3. n = IF Ends # {} THEN (CHOOSE i \in Ends : \A j \in Ends : i <= j) - p
          ELSE IF 0 < l - p THEN l - p ELSE 0
  BY <1>1, <1>2 DEF Logical!LineLength, Logical!FileMax
<1>4. CASE Ends # {}
  <2>1. PICK i : i = CHOOSE k \in Ends : \A j \in Ends : k <= j
    OBVIOUS
  <2>2. Ends \in SUBSET Nat
    BY <1>1
  <2>3. \E k \in Ends : \A j \in Ends : k <= j
    <3>. HIDE DEF Ends
    <3>. QED BY <1>4, <2>2, LeastNatural
  <2>4. i \in Ends /\ \A j \in Ends : i <= j
    BY <2>1, <2>3
  <2>5. n = i - p
    BY <1>3, <1>4, <2>1
  <2>6. i \in Nat /\ p < i /\ i <= l /\ f[i] = Newline
    BY <1>1, <2>4
  <2>7. n \in Nat /\ p + n = i /\ n > 0 /\ p + n <= l /\ p < l /\ p + n - 1 = i - 1
    BY <1>1, <2>5, <2>6
  <2>8. ASSUME NEW j \in p + 1 .. i - 1 PROVE f[j] # Newline
    <3>1. j \in p + 1 .. l /\ ~(i <= j)
      BY <1>1, <2>6
    <3>. QED BY <2>4, <3>1
  <2>9. IsLine(f, p, n)
    BY <1>1, <2>6, <2>7, <2>8 DEF IsLine
  <2>10. ~(l <= p)
    BY <1>1, <2>7
  <2>. QED BY <1>1, <1>2, <2>7, <2>9, <2>10
<1>5. CASE Ends = {}
  <2>1. n = IF 0 < l - p THEN l - p ELSE 0
    BY <1>3, <1>5
  <2>2. n \in Nat /\ (p <= l => n = l - p /\ p + n = l) /\ (l <= p => n = 0)
    BY <1>1, <2>1
  <2>3. ASSUME p <= l PROVE IsLine(f, p, n)
    <3>1. ASSUME NEW j \in p + 1 .. p + n - 1 PROVE f[j] # Newline
      <4>1. j \in p + 1 .. l
        BY <1>1, <2>2, <2>3
      <4>. QED BY <1>5, <4>1
    <3>2. p + n <= l
      BY <1>1, <2>2, <2>3
    <3>. QED BY <1>1, <2>2, <2>3, <3>1, <3>2 DEF IsLine
  <2>. QED BY <1>1, <1>2, <2>2, <2>3
<1>. QED BY <1>4, <1>5

LEMMA LineUnique ==
  ASSUME NEW f \in Seq(Byte), NEW p \in Nat, NEW n, IsLine(f, p, n)
  PROVE  Logical!LineLength(f, p) = n
<1>1. PICK l : l = Len(f) /\ l \in Nat
  BY LenProperties
<1>2. PICK m : m = Logical!LineLength(f, p)
  OBVIOUS
<1>3. /\ n \in Nat /\ p + n <= l
      /\ \A i \in p + 1 .. p + n - 1 : f[i] # Newline
      /\ n = l - p \/ (n > 0 /\ f[p + n] = Newline)
  BY <1>1 DEF IsLine
<1>4. p <= l
  BY <1>1, <1>3
<1>5. IsLine(f, p, m)
  BY <1>1, <1>2, <1>4, LineLengthIs
<1>6. /\ m \in Nat /\ p + m <= l
      /\ \A i \in p + 1 .. p + m - 1 : f[i] # Newline
      /\ m = l - p \/ (m > 0 /\ f[p + m] = Newline)
  BY <1>1, <1>5 DEF IsLine
<1>7. ~(n < m)
  <2>1. SUFFICES ASSUME n < m PROVE FALSE
    OBVIOUS
  <2>2. n # l - p
    BY <1>1, <1>3, <1>6, <2>1
  <2>3. n > 0 /\ f[p + n] = Newline
    BY <1>3, <2>2
  <2>4. p + n \in p + 1 .. p + m - 1
    BY <1>3, <1>6, <2>1, <2>3
  <2>. QED BY <1>6, <2>3, <2>4
<1>8. ~(m < n)
  <2>1. SUFFICES ASSUME m < n PROVE FALSE
    OBVIOUS
  <2>2. m # l - p
    BY <1>1, <1>3, <1>6, <2>1
  <2>3. m > 0 /\ f[p + m] = Newline
    BY <1>6, <2>2
  <2>4. p + m \in p + 1 .. p + n - 1
    BY <1>3, <1>6, <2>1, <2>3
  <2>. QED BY <1>3, <2>3, <2>4
<1>9. m = n
  BY <1>3, <1>6, <1>7, <1>8
<1>. QED BY <1>2, <1>9

(* The length of what the scan of the memory takes, the bytes it takes, and
   whether the line ends there; the handle with which it goes on. *)
Scanned(g) == Logical!LineLength(SubSeq(g.mem, 1, g.end), g.next)
Begun(g) == SubSeq(g.mem, g.next + 1, g.next + Scanned(g))
LineEnds(g) == Scanned(g) > 0 /\ Begun(g)[Scanned(g)] = Newline
Onward(g) == [Fill(g) EXCEPT !.file_pos = @ + Scanned(g)]
Emptied(g) == Slice(g.file, g.offset, BufferSize) = <<>>

LineStep(f, g) ==
  IF LineEnds(g) THEN [handle |-> Consume(g, Scanned(g)), bytes |-> Begun(g)]
  ELSE IF Emptied(g) THEN [handle |-> Consume(Fill(g), Scanned(g)), bytes |-> Begun(g)]
  ELSE [f[Onward(g)] EXCEPT !.bytes = Begun(g) \o @]

LineAnswer == CHOOSE line : line = [g \in Handle |-> LineStep(line, g)]

LineStart(h0) == LET h == FlushWrites(h0) IN IF h.holds = "read" THEN h ELSE Fill(h)

LEMMA ReadLineUnfolds ==
  ASSUME NEW h0
  PROVE  ReadLineBuffer(h0) =
           IF LineStart(h0).holds # "read" THEN [handle |-> LineStart(h0), bytes |-> <<>>]
           ELSE LineAnswer[LineStart(h0)]
BY Zenon DEF ReadLineBuffer, LineStart, LineAnswer, LineStep, LineEnds, Begun, Scanned, Onward, Emptied

LEMMA OnwardIs ==
  ASSUME NEW g \in Handle
  PROVE  /\ Scanned(g) \in Nat
         /\ ~Emptied(g) => /\ Onward(g) \in Handle /\ Onward(g).file = g.file
                           /\ Onward(g).offset \in Nat /\ g.offset < Onward(g).offset
                           /\ g.offset < Len(g.file)
<1>1. g.mem \in [1..BufferSize -> Byte] /\ g.next \in Nat /\ g.end \in Int /\ g.end <= BufferSize
      /\ BufferSize \in Nat /\ g.file_pos \in Nat /\ g.offset \in Nat /\ Len(g.file) \in Nat
      /\ (g.end = NoEnd \/ 1 <= g.end)
  BY HandleFields
<1>2. SubSeq(g.mem, 1, g.end) \in Seq(Byte)
  <2>1. CASE g.end = NoEnd
    <3>1. g.end < 1 /\ g.end \in Int /\ 1 \in Int
      BY <2>1 DEF NoEnd
    <3>2. SubSeq(g.mem, 1, g.end) = <<>>
      BY <3>1, SubSeqEmpty
    <3>. QED BY <3>2, EmptySeq
  <2>2. CASE 1 <= g.end
    <3>1. g.end \in 0..BufferSize
      BY <1>1, <2>2
    <3>. QED BY <1>1, <3>1, FirstBytes
  <2>. QED BY <1>1, <2>1, <2>2
<1>3. Scanned(g) \in Nat
  BY <1>1, <1>2, LineLengthIs DEF Scanned
<1>4. ASSUME ~Emptied(g)
      PROVE  /\ Onward(g) \in Handle /\ Onward(g).file = g.file /\ Onward(g).offset \in Nat
             /\ g.offset < Onward(g).offset /\ g.offset < Len(g.file)
  <2>1. PICK got : got = Slice(g.file, g.offset, BufferSize)
    OBVIOUS
  <2>2. got # <<>>
    BY <1>4, <2>1 DEF Emptied
  <2>3. PICK w : w = Fill(g)
    OBVIOUS
  <2>4. /\ w \in Handle /\ w.offset = g.offset + Len(got) /\ w.file = g.file /\ w.file_pos = g.file_pos
        /\ g.offset < Len(g.file) /\ Len(got) >= 1 /\ w.end = Len(got)
    BY <2>1, <2>2, <2>3, FillIs
  <2>5. w.end \in Int /\ w.offset \in Nat
    BY <2>4, HandleFields
  <2>6. PICK p : p = g.file_pos + Scanned(g) /\ p \in Nat
    BY <1>1, <1>3
  <2>7. Onward(g) = [w EXCEPT !.file_pos = p]
    BY <2>3, <2>4, <2>6 DEF Onward
  <2>8. Onward(g) \in Handle /\ Onward(g).file = w.file /\ Onward(g).offset = w.offset
    BY <2>4, <2>6, <2>7, TellKeeps DEF SameFile
  <2>9. g.offset < w.offset
    BY <1>1, <2>4, <2>5
  <2>. QED BY <2>4, <2>5, <2>8, <2>9
<1>. QED BY <1>3, <1>4

(* The lines of the handles that have at most k bytes of the file to read. *)
Near(k) == {g \in Handle : Len(g.file) - g.offset <= k}
LinesUpTo(f, k) == f = [g \in Near(k) |-> LineStep(f, g)]

(* A step of the scan looks only at the handle it goes on with. *)
LEMMA LineStepAgrees ==
  ASSUME NEW f, NEW e, NEW g, ~Emptied(g) => f[Onward(g)] = e[Onward(g)]
  PROVE  LineStep(f, g) = LineStep(e, g)
BY DEF LineStep

LEMMA OnwardNearer ==
  ASSUME NEW k \in Nat, NEW g \in Near(k), ~Emptied(g)
  PROVE  /\ k # 0 /\ Onward(g) \in Near(k - 1)
         /\ \A j \in Nat : g \in Near(j) => Onward(g) \in Near(j)
<1>1. g \in Handle /\ Len(g.file) - g.offset <= k
  BY DEF Near
<1>2. /\ Onward(g) \in Handle /\ Onward(g).file = g.file
      /\ Onward(g).offset \in Nat /\ g.offset < Onward(g).offset /\ g.offset < Len(g.file)
  BY <1>1, OnwardIs
<1>3. Len(g.file) \in Nat /\ g.offset \in Nat
  BY <1>1, HandleFields
<1>4. PICK l, o, p : l = Len(g.file) /\ o = g.offset /\ p = Onward(g).offset
  OBVIOUS
<1>5. l \in Nat /\ o \in Nat /\ p \in Nat /\ o < p /\ o < l /\ l - o <= k
  BY <1>1, <1>2, <1>3, <1>4
<1>6. Len(Onward(g).file) - Onward(g).offset = l - p
  BY <1>2, <1>4
<1>7. k # 0 /\ l - p <= k - 1
  BY <1>5
<1>8. ASSUME NEW j \in Nat, g \in Near(j) PROVE Onward(g) \in Near(j)
  <2>1. l - o <= j
    BY <1>4, <1>8 DEF Near
  <2>2. l - p <= j
    BY <1>5, <2>1
  <2>. QED BY <1>2, <1>6, <2>2 DEF Near
<1>. QED BY <1>2, <1>6, <1>7, <1>8 DEF Near

LEMMA LinesAgree ==
  ASSUME NEW f, NEW j \in Nat, LinesUpTo(f, j), NEW e, NEW k \in Nat, LinesUpTo(e, k),
         NEW g \in Near(j) \cap Near(k)
  PROVE  f[g] = e[g]
<1>. DEFINE T == {i \in Nat : \A x \in Near(i) : x \in Near(j) \cap Near(k) => f[x] = e[x]}
<1>1. ASSUME NEW x \in Near(j) \cap Near(k), ~Emptied(x) => f[Onward(x)] = e[Onward(x)]
      PROVE  f[x] = e[x]
  <2>1. f[x] = LineStep(f, x) /\ e[x] = LineStep(e, x)
    BY DEF LinesUpTo
  <2>. QED BY <1>1, <2>1, LineStepAgrees
<1>2. 0 \in T
  <2>1. ASSUME NEW x \in Near(0), x \in Near(j) \cap Near(k) PROVE f[x] = e[x]
    <3>1. Emptied(x)
      BY OnwardNearer
    <3>. QED BY <1>1, <2>1, <3>1
  <2>. QED BY <2>1
<1>3. ASSUME NEW i \in Nat, i \in T PROVE i + 1 \in T
  <2>1. ASSUME NEW x \in Near(i + 1), x \in Near(j) \cap Near(k) PROVE f[x] = e[x]
    <3>1. i + 1 \in Nat /\ i + 1 - 1 = i
      OBVIOUS
    <3>2. ASSUME ~Emptied(x) PROVE f[Onward(x)] = e[Onward(x)]
      <4>1. Onward(x) \in Near(i)
        BY <3>1, <3>2, OnwardNearer
      <4>2. Onward(x) \in Near(j) \cap Near(k)
        BY <2>1, <3>2, OnwardNearer
      <4>. QED BY <1>3, <4>1, <4>2
    <3>. QED BY <1>1, <2>1, <3>2
  <2>2. i + 1 \in Nat
    OBVIOUS
  <2>. QED BY <2>1, <2>2
<1>4. Nat \subseteq T
  <2>. HIDE DEF T
  <2>. QED BY <1>2, <1>3, NaturalInduction
<1>. QED BY <1>4

LEMMA LinesExist ==
  ASSUME NEW k \in Nat
  PROVE  \E f : LinesUpTo(f, k)
<1>. DEFINE T == {i \in Nat : \E f : LinesUpTo(f, i)}
<1>1. 0 \in T
  <2>1. PICK f : f = [g \in Near(0) |-> LineStep(<<>>, g)]
    OBVIOUS
  <2>2. ASSUME NEW g \in Near(0) PROVE LineStep(<<>>, g) = LineStep(f, g)
    <3>1. Emptied(g)
      BY OnwardNearer
    <3>. QED BY <3>1, LineStepAgrees
  <2>3. f = [g \in Near(0) |-> LineStep(f, g)]
    BY <2>1, <2>2
  <2>. QED BY <2>3 DEF LinesUpTo
<1>2. ASSUME NEW i \in Nat, i \in T PROVE i + 1 \in T
  <2>1. PICK e : LinesUpTo(e, i)
    BY <1>2
  <2>2. PICK f : f = [g \in Near(i + 1) |-> LineStep(e, g)]
    OBVIOUS
  <2>3. i + 1 \in Nat /\ i + 1 - 1 = i
    OBVIOUS
  <2>4. ASSUME NEW g \in Near(i + 1) PROVE LineStep(e, g) = LineStep(f, g)
    <3>1. ASSUME ~Emptied(g) PROVE e[Onward(g)] = f[Onward(g)]
      <4>1. Onward(g) \in Near(i) /\ Onward(g) \in Near(i + 1)
        BY <2>3, <3>1, OnwardNearer
      <4>2. f[Onward(g)] = LineStep(e, Onward(g))
        BY <2>2, <4>1
      <4>3. e[Onward(g)] = LineStep(e, Onward(g))
        BY <2>1, <4>1 DEF LinesUpTo
      <4>. QED BY <4>2, <4>3
    <3>. QED BY <3>1, LineStepAgrees
  <2>5. f = [g \in Near(i + 1) |-> LineStep(f, g)]
    BY <2>2, <2>4
  <2>. QED BY <2>3, <2>5 DEF LinesUpTo
<1>3. Nat \subseteq T
  <2>. HIDE DEF T
  <2>. QED BY <1>1, <1>2, NaturalInduction
<1>. QED BY <1>3

(* The scan for a line is defined: each time it goes on, more of the file has
   been read. *)
LEMMA LineAnswerIs == LineAnswer = [g \in Handle |-> LineStep(LineAnswer, g)]
<1>. DEFINE Left(g) == IF Len(g.file) <= g.offset THEN 0 ELSE Len(g.file) - g.offset
            Answers(k) == CHOOSE f : LinesUpTo(f, k)
            line == [g \in Handle |-> Answers(Left(g))[g]]
<1>1. ASSUME NEW k \in Nat PROVE LinesUpTo(Answers(k), k)
  BY <1>1, LinesExist
<1>2. ASSUME NEW g \in Handle PROVE Left(g) \in Nat /\ g \in Near(Left(g))
  <2>1. Len(g.file) \in Nat /\ g.offset \in Nat
    BY HandleFields
  <2>2. Left(g) \in Nat /\ Len(g.file) - g.offset <= Left(g)
    BY <2>1
  <2>. QED BY <2>2 DEF Near
<1>. HIDE DEF Left, Answers
<1>3. ASSUME NEW g \in Handle PROVE line[g] = LineStep(line, g)
  <2>1. PICK k, f : k = Left(g) /\ f = Answers(k)
    OBVIOUS
  <2>2. k \in Nat /\ g \in Near(k) /\ LinesUpTo(f, k)
    BY <1>1, <1>2, <2>1
  <2>3. line[g] = LineStep(f, g)
    <3>1. line[g] = f[g]
      BY <2>1
    <3>. QED BY <2>2, <3>1 DEF LinesUpTo
  <2>4. ASSUME ~Emptied(g) PROVE f[Onward(g)] = line[Onward(g)]
    <3>1. Onward(g) \in Near(k) /\ Onward(g) \in Handle
      BY <2>2, <2>4, OnwardNearer, OnwardIs
    <3>2. PICK j, e : j = Left(Onward(g)) /\ e = Answers(j)
      OBVIOUS
    <3>3. j \in Nat /\ Onward(g) \in Near(j) /\ LinesUpTo(e, j)
      BY <1>1, <1>2, <3>1, <3>2
    <3>4. line[Onward(g)] = e[Onward(g)]
      BY <3>1, <3>2
    <3>. QED BY <2>2, <3>1, <3>3, <3>4, LinesAgree
  <2>. HIDE DEF line
  <2>. QED BY <2>3, <2>4, LineStepAgrees
<1>4. line = [g \in Handle |-> LineStep(line, g)]
  <2>1. line = [g \in Handle |-> line[g]]
    OBVIOUS
  <2>. HIDE DEF line
  <2>. QED BY <1>3, <2>1
<1>5. \E f : f = [g \in Handle |-> LineStep(f, g)]
  <2>. HIDE DEF line
  <2>. QED BY <1>4
<1>. QED BY Zenon, <1>5 DEF LineAnswer

(* A handle that the scan looks at. *)
Scanning(g) == g \in Handle /\ g.holds = "read" /\ IsSound(g) /\ g.open

(* What the scan finds in the memory is what is in the file: a line, or all
   that has been read ahead, without a newline. *)
LEMMA ScanIs ==
  ASSUME NEW g, Scanning(g)
  PROVE  /\ Scanned(g) \in Nat /\ Scanned(g) <= g.end - g.next
         /\ Begun(g) = Slice(g.file, At(g), Scanned(g)) /\ Len(Begun(g)) = Scanned(g)
         /\ At(g) \in Nat /\ At(g) + Scanned(g) <= Len(g.file)
         /\ LineEnds(g) => IsLine(g.file, At(g), Scanned(g))
         /\ ~LineEnds(g) => /\ Scanned(g) = g.end - g.next /\ g.offset = At(g) + Scanned(g)
                            /\ NoNewline(g.file, At(g), g.offset)
<1>1. g \in Handle /\ g.holds = "read" /\ ReadAhead(g)
  BY DEF Scanning, IsSound
<1>2. PICK m, f, x, e, o, n, p :
        m = g.mem /\ f = g.file /\ x = g.next /\ e = g.end /\ o = g.offset /\ n = Scanned(g) /\ p = At(g)
  OBVIOUS
<1>3. /\ m \in [1..BufferSize -> Byte] /\ f \in Seq(Byte) /\ x \in Nat /\ e \in Int /\ o \in Nat
      /\ e <= BufferSize /\ BufferSize \in Nat
  BY <1>1, <1>2, HandleFields
<1>4. x <= e /\ e <= o /\ o <= Len(f) /\ \A i \in 1..e : m[i] = f[(o - e) + i]
  BY <1>1, <1>2 DEF ReadAhead
<1>5. PICK s : s = SubSeq(m, 1, e)
  OBVIOUS
<1>6. s \in Seq(Byte) /\ Len(s) = e /\ \A i \in 1..e : s[i] = m[i]
  <2>1. e \in 0..BufferSize
    BY <1>3, <1>4
  <2>. QED BY <1>3, <1>5, <2>1, FirstBytes
<1>7. n = Logical!LineLength(s, x)
  BY <1>2, <1>5 DEF Scanned
<1>8. IsLine(s, x, n)
  <2>1. x <= Len(s)
    BY <1>4, <1>6
  <2>. QED BY <1>3, <1>6, <1>7, <2>1, LineLengthIs
<1>9. /\ n \in Nat /\ x + n <= e
      /\ \A i \in x + 1 .. x + n - 1 : s[i] # Newline
      /\ n = e - x \/ (n > 0 /\ s[x + n] = Newline)
  BY <1>6, <1>8 DEF IsLine
<1>10. n <= g.end - g.next /\ n <= e - x
  BY <1>2, <1>3, <1>9
<1>11. PICK t : t = Begun(g)
  OBVIOUS
<1>12. t = SubSeq(g.mem, g.next + 1, g.next + n)
  BY <1>2, <1>11 DEF Begun
<1>13. /\ t = Slice(f, p, n) /\ p \in Nat /\ p + n <= Len(f) /\ o = p + (e - x) /\ Len(t) = n
  BY <1>1, <1>2, <1>9, <1>10, <1>12, ReadAheadIs
<1>14. ASSUME NEW i \in 1..n PROVE t[i] = s[x + i]
  <2>1. x + n <= BufferSize
    BY <1>3, <1>9
  <2>2. t = SubSeq(m, x + 1, x + n)
    BY <1>2, <1>12
  <2>3. t[i] = m[x + i]
    BY <1>3, <1>9, <2>1, <2>2, BytesBetween
  <2>4. x + i \in 1..e
    BY <1>3, <1>9
  <2>. QED BY <1>6, <2>3, <2>4
<1>15. ASSUME NEW i \in Int, 1 <= i, i <= e - x PROVE s[x + i] = f[p + i]
  <2>1. x + i \in 1..e /\ (o - e) + (x + i) = p + i
    BY <1>3, <1>13, <1>15
  <2>. QED BY <1>4, <1>6, <2>1
<1>16. LineEnds(g) <=> n > 0 /\ s[x + n] = Newline
  <2>1. LineEnds(g) <=> n > 0 /\ t[n] = Newline
    BY <1>2, <1>11 DEF LineEnds
  <2>2. n > 0 => t[n] = s[x + n]
    BY <1>9, <1>14
  <2>. QED BY <2>1, <2>2
<1>17. ASSUME NEW i \in p + 1 .. p + n - 1 PROVE f[i] # Newline
  <2>1. PICK j : j = i - p
    OBVIOUS
  <2>2. j \in Int /\ 1 <= j /\ j <= e - x /\ p + j = i /\ x + j \in x + 1 .. x + n - 1
    BY <1>3, <1>9, <1>10, <1>13, <2>1
  <2>. QED BY <1>9, <1>15, <2>2
<1>18. ASSUME LineEnds(g) PROVE IsLine(f, p, n)
  <2>1. n > 0 /\ s[x + n] = Newline
    BY <1>16, <1>18
  <2>2. f[p + n] = Newline
    BY <1>9, <1>10, <1>15, <2>1
  <2>. QED BY <1>9, <1>13, <1>17, <2>1, <2>2 DEF IsLine
<1>19. ASSUME ~LineEnds(g)
       PROVE  n = e - x /\ o = p + n /\ \A i \in p + 1 .. o : f[i] # Newline
  <2>1. ~(n > 0 /\ s[x + n] = Newline)
    BY <1>16, <1>19
  <2>2. n = e - x /\ o = p + n
    BY <1>9, <1>13, <2>1
  <2>3. ASSUME NEW i \in p + 1 .. o PROVE f[i] # Newline
    <3>1. CASE i \in p + 1 .. p + n - 1
      BY <1>17, <3>1
    <3>2. CASE i \notin p + 1 .. p + n - 1
      <4>1. i = p + n /\ n > 0
        BY <1>9, <1>13, <2>2, <3>2
      <4>2. s[x + n] # Newline
        BY <2>1, <4>1
      <4>. QED BY <1>9, <1>10, <1>15, <4>1, <4>2
    <3>. QED BY <3>1, <3>2
  <2>. QED BY <2>2, <2>3
<1>. QED BY <1>2, <1>9, <1>10, <1>11, <1>13, <1>18, <1>19 DEF NoNewline

(* A line that goes on where the memory ends. *)
LEMMA LineGoesOn ==
  ASSUME NEW f \in Seq(Byte), NEW p \in Nat, NEW n \in Nat, NEW o, o = p + n, o <= Len(f), NoNewline(f, p, o),
         NEW k, k = Logical!LineLength(f, o), NEW m, m = n + k
  PROVE  Logical!LineLength(f, p) = m /\ k \in Nat
<1>1. PICK l : l = Len(f) /\ l \in Nat
  BY LenProperties
<1>2. o \in Nat /\ o <= l
  BY <1>1
<1>4. IsLine(f, o, k)
  BY <1>1, <1>2, LineLengthIs
<1>5. /\ k \in Nat /\ o + k <= l
      /\ \A i \in o + 1 .. o + k - 1 : f[i] # Newline
      /\ k = l - o \/ (k > 0 /\ f[o + k] = Newline)
  BY <1>1, <1>4 DEF IsLine
<1>7. m \in Nat /\ p + m = o + k /\ p + m <= l /\ (k > 0 => m > 0) /\ (k = l - o => m = l - p)
  <2>1. k \in Nat /\ o + k <= l /\ o = p + n /\ m = n + k
    BY <1>5
  <2>2. m \in Nat /\ p + m = o + k
    BY <1>2, <2>1
  <2>3. k > 0 => m > 0
    BY <2>1
  <2>4. ASSUME k = l - o PROVE m = l - p
    <3>1. m = n + (l - (p + n))
      BY <2>1, <2>4
    <3>. QED BY <1>1, <3>1
  <2>. QED BY <2>1, <2>2, <2>3, <2>4
<1>8. ASSUME NEW i \in p + 1 .. p + m - 1 PROVE f[i] # Newline
  <2>1. CASE i <= o
    <3>1. i \in p + 1 .. o
      BY <1>2, <1>7, <2>1
    <3>. QED BY <3>1 DEF NoNewline
  <2>2. CASE ~(i <= o)
    <3>1. i \in o + 1 .. o + k - 1
      BY <1>2, <1>5, <1>7, <2>2
    <3>. QED BY <1>5, <3>1
  <2>. QED BY <2>1, <2>2
<1>9. m = l - p \/ (m > 0 /\ f[p + m] = Newline)
  BY <1>5, <1>7
<1>10. IsLine(f, p, m)
  BY <1>1, <1>7, <1>8, <1>9 DEF IsLine
<1>11. Logical!LineLength(f, p) = m
  BY <1>10, LineUnique
<1>. QED BY <1>5, <1>11

Line(g) == Logical!LineLength(Content(g), At(g))

LEMMA LineStepTakes ==
  ASSUME NEW g, Scanning(g),
         ~LineEnds(g) /\ ~Emptied(g) /\ Scanning(Onward(g)) =>
            Takes(LineAnswer[Onward(g)], Onward(g), Line(Onward(g)))
  PROVE  Takes(LineAnswer[g], g, Line(g))
<1>1. g \in Handle /\ g.holds = "read" /\ ReadAhead(g) /\ IsSound(g) /\ g.open /\ ~g.eof
  BY DEF Scanning, IsSound, EofSound
<1>2. PICK f, p, n, o, s : f = g.file /\ p = At(g) /\ n = Scanned(g) /\ o = g.offset /\ s = Begun(g)
  OBVIOUS
<1>3. /\ n \in Nat /\ n <= g.end - g.next /\ s = Slice(f, p, n) /\ Len(s) = n
      /\ p \in Nat /\ p + n <= Len(f)
      /\ LineEnds(g) => IsLine(f, p, n)
      /\ ~LineEnds(g) => n = g.end - g.next /\ o = p + n /\ NoNewline(f, p, o)
  BY <1>2, ScanIs
<1>4. s = SubSeq(g.mem, g.next + 1, g.next + n)
  BY <1>2 DEF Begun
<1>5. f \in Seq(Byte) /\ Content(g) = f /\ g.file_pos \in Nat
  BY <1>1, <1>2, HandleFields DEF Content
<1>6. Line(g) = Logical!LineLength(f, p)
  BY <1>2, <1>5 DEF Line
<1>7. PICK r : r = LineAnswer[g]
  OBVIOUS
<1>8. r = LineStep(LineAnswer, g)
  BY <1>1, <1>7, LineAnswerIs
<1>9. CASE LineEnds(g)
  <2>1. r = [handle |-> Consume(g, n), bytes |-> s]
    BY <1>2, <1>8, <1>9 DEF LineStep
  <2>2. Line(g) = n
    BY <1>3, <1>5, <1>6, <1>9, LineUnique
  <2>3. Takes([handle |-> Consume(g, n), bytes |-> SubSeq(g.mem, g.next + 1, g.next + n)], g, n)
    BY <1>1, <1>3, ConsumeSound
  <2>. QED BY <1>4, <1>7, <2>1, <2>2, <2>3
<1>10. CASE ~LineEnds(g) /\ Emptied(g)
  <2>1. PICK w, c : w = Fill(g) /\ c = Consume(w, n)
    OBVIOUS
  <2>2. w = [g EXCEPT !.eof = TRUE] /\ w \in Handle /\ Len(f) <= o
    BY <1>1, <1>2, <1>10, <2>1, FillIs DEF Emptied
  <2>3. /\ w.open = g.open /\ w.mode = g.mode /\ w.file = f /\ w.file_pos = g.file_pos /\ w.offset = o
        /\ w.holds = "read" /\ w.next = g.next /\ w.end = g.end /\ w.mem = g.mem
    BY <1>1, <1>2, <2>2 DEF Handle
  <2>4. ReadAhead(w)
    BY <1>1, <1>2, <2>3 DEF ReadAhead
  <2>5. /\ c \in Handle /\ c.open = w.open /\ c.mode = w.mode /\ c.file = f /\ c.offset = o
        /\ c.file_pos = w.file_pos + n /\ At(c) = At(w) + n
        /\ c.holds = "nothing" /\ c.next = 0
    <3>1. n \in Nat /\ n = w.end - w.next /\ n <= w.end - w.next
      BY <1>3, <1>10, <2>3
    <3>2. /\ Consume(w, n) \in Handle /\ Consume(w, n).open = w.open /\ Consume(w, n).mode = w.mode
          /\ Consume(w, n).file = w.file /\ Consume(w, n).offset = w.offset
          /\ Consume(w, n).file_pos = w.file_pos + n /\ At(Consume(w, n)) = At(w) + n
          /\ Consume(w, n).holds = "nothing" /\ Consume(w, n).next = 0
      BY <2>2, <2>3, <2>4, <3>1, ConsumeIs
    <3>. QED BY <2>1, <2>3, <3>2
  <2>6. At(w) = p
    BY <1>1, <1>2, <2>3 DEF At
  <2>7. IsSound(c)
    <3>1. o >= Len(f)
      BY <1>2, <2>2, <1>1, HandleFields
    <3>2. EofSound(c)
      BY <2>5, <3>1 DEF EofSound
    <3>. QED BY <2>5, <3>2 DEF IsSound
  <2>8. r = [handle |-> c, bytes |-> s]
    BY <1>2, <1>8, <1>10, <2>1 DEF LineStep
  <2>9. Line(g) = n
    <3>1. o <= Len(f)
      BY <1>3, <1>10
    <3>2. o \in Nat /\ Len(f) \in Nat
      BY <1>1, <1>2, HandleFields
    <3>3. o = Len(f)
      BY <2>2, <3>1, <3>2
    <3>4. o = p + n /\ NoNewline(f, p, o)
      BY <1>3, <1>10
    <3>5. Logical!LineLength(f, p) = n
      <4>1. p \in Nat /\ n \in Nat /\ f \in Seq(Byte)
        BY <1>3, <1>5
      <4>2. PICK k : k = Logical!LineLength(f, o)
        OBVIOUS
      <4>3. k = 0
        BY <3>2, <3>3, <4>1, <4>2, LineLengthIs
      <4>4. n = n + k
        BY <4>1, <4>3
      <4>. QED BY <3>1, <3>4, <4>1, <4>2, <4>4, LineGoesOn
    <3>. QED BY <1>6, <3>5
  <2>10. Content(c) = f
    BY <2>5 DEF Content
  <2>11. r.handle = c /\ r.bytes = s
    BY <2>8
  <2>12. Takes(r, g, n)
    BY <1>2, <1>3, <1>5, <2>3, <2>5, <2>6, <2>7, <2>8, <2>10, <2>11 DEF Takes, SameFile
  <2>. QED BY <1>7, <2>9, <2>12
<1>11. CASE ~LineEnds(g) /\ ~Emptied(g)
  <2>1. PICK got, w, q : got = Slice(g.file, g.offset, BufferSize) /\ w = Fill(g) /\ q = Onward(g)
    OBVIOUS
  <2>2. got # <<>>
    BY <1>11, <2>1 DEF Emptied
  <2>3. /\ w \in Handle /\ w.holds = "read" /\ ReadAhead(w) /\ w.next = 0 /\ w.end = Len(got)
        /\ w.offset = o + Len(got) /\ w.open = g.open /\ w.mode = g.mode /\ w.file = f
        /\ w.file_pos = g.file_pos /\ w.eof = g.eof
    <3>1. /\ Fill(g) \in Handle /\ Fill(g).holds = "read" /\ ReadAhead(Fill(g)) /\ Fill(g).next = 0
          /\ Fill(g).end = Len(got) /\ Fill(g).offset = g.offset + Len(got)
          /\ Fill(g).open = g.open /\ Fill(g).mode = g.mode /\ Fill(g).file = g.file
          /\ Fill(g).file_pos = g.file_pos /\ Fill(g).eof = g.eof
      <4>1. g \in Handle /\ got = Slice(g.file, g.offset, BufferSize)
        BY <1>1, <2>1
      <4>. QED BY <2>2, <4>1, FillIs
    <3>. QED BY <1>2, <2>1, <3>1
  <2>4. IsSound(w)
    BY <1>1, <2>3 DEF IsSound, EofSound
  <2>5. At(w) = o
    <3>1. w.end \in Int /\ o \in Nat
      BY <1>1, <1>2, <2>3, HandleFields
    <3>2. At(w) = (o + w.end) - (w.end - 0)
      BY <2>3 DEF At
    <3>. QED BY <3>1, <3>2
  <2>6. PICK z : z = g.file_pos + n /\ z \in Nat
    BY <1>3, <1>5
  <2>7. q = [w EXCEPT !.file_pos = z]
    BY <1>2, <2>1, <2>3, <2>6 DEF Onward
  <2>8. /\ SameFile(q, w) /\ q.file_pos = z /\ Content(q) = Content(w) /\ At(q) = o /\ IsSound(q)
        /\ q.file = f /\ q.holds = "read"
    BY <2>3, <2>4, <2>5, <2>6, <2>7, TellKeeps
  <2>9. Content(q) = f
    BY <2>8 DEF Content
  <2>10. Scanning(q)
    BY <1>1, <2>3, <2>8 DEF Scanning, SameFile
  <2>11. PICK k, a : k = Logical!LineLength(f, o) /\ a = LineAnswer[q]
    OBVIOUS
  <2>12. Line(q) = k
    BY <2>8, <2>9, <2>11 DEF Line
  <2>13. Takes(a, q, k)
    BY <1>11, <2>1, <2>10, <2>11, <2>12
  <2>14. /\ a = [handle |-> a.handle, bytes |-> a.bytes]
         /\ a.handle \in Handle /\ a.handle.open = g.open /\ a.handle.mode = g.mode
         /\ IsSound(a.handle) /\ Content(a.handle) = f /\ a.bytes = Slice(f, o, k)
         /\ At(a.handle) = o + Len(a.bytes) /\ a.handle.file_pos = z + Len(a.bytes)
    BY <2>3, <2>8, <2>9, <2>13 DEF Takes, SameFile
  <2>15. r = [a EXCEPT !.bytes = s \o a.bytes]
    BY <1>2, <1>8, <1>11, <2>1, <2>11 DEF LineStep
  <2>16. o = p + n /\ o <= Len(f) /\ NoNewline(f, p, o)
    BY <1>3, <1>11
  <2>17. Line(g) = n + k /\ k \in Nat
    <3>1. PICK m : m = n + k
      OBVIOUS
    <3>2. f \in Seq(Byte) /\ p \in Nat /\ n \in Nat
      BY <1>3, <1>5
    <3>3. Logical!LineLength(f, p) = m /\ k \in Nat
      BY <2>11, <2>16, <3>1, <3>2, LineGoesOn
    <3>. QED BY <1>6, <3>1, <3>3
  <2>18. s \o a.bytes = Slice(f, p, n + k)
    <3>1. n \in Nat /\ k \in Nat /\ p \in Nat /\ p + n <= Len(f)
      BY <1>3, <2>17
    <3>2. PICK y : y = n + k
      OBVIOUS
    <3>3. Joined(f, p, n, o, k, y)
      BY <1>5, <2>16, <3>1, <3>2, SliceJoin
    <3>. QED BY <1>3, <2>14, <3>2, <3>3 DEF Joined
  <2>19. PICK j, m : j = Len(a.bytes) /\ m = Len(s \o a.bytes)
    OBVIOUS
  <2>20. m = n + j /\ j \in Nat
    <3>1. p \in Nat /\ o \in Nat
      BY <1>3, <2>16
    <3>2. s \in Seq(Byte) /\ a.bytes \in Seq(Byte)
      <4>1. n \in Nat /\ k \in Nat /\ f \in Seq(Byte)
        BY <1>3, <1>5, <2>17
      <4>2. Slice(f, p, n) \in Seq(Byte) /\ Slice(f, o, k) \in Seq(Byte)
        BY <3>1, <4>1, SliceIs
      <4>. QED BY <1>3, <2>14, <4>2
    <3>3. Len(s \o a.bytes) = Len(s) + Len(a.bytes) /\ Len(a.bytes) \in Nat
      BY <3>2, ConcatProperties, LenProperties
    <3>. QED BY <1>3, <2>19, <3>3
  <2>21. o + j = p + m /\ z + j = g.file_pos + m
    BY <1>3, <1>5, <2>6, <2>16, <2>20
  <2>22. r = [handle |-> a.handle, bytes |-> s \o a.bytes]
    BY <2>14, <2>15
  <2>23. r.handle = a.handle /\ r.bytes = s \o a.bytes
    BY <2>22
  <2>24. Takes(r, g, n + k)
    BY <1>2, <1>5, <2>14, <2>18, <2>19, <2>21, <2>22, <2>23 DEF Takes, SameFile
  <2>. QED BY <1>7, <2>17, <2>24
<1>. QED BY <1>9, <1>10, <1>11

(* However often the memory has to be filled again. *)
LEMMA LineAnswerTakes ==
  ASSUME NEW g, Scanning(g)
  PROVE  Takes(LineAnswer[g], g, Line(g))
<1>. DEFINE T == {k \in Nat : \A x \in Near(k) : Scanning(x) => Takes(LineAnswer[x], x, Line(x))}
<1>1. 0 \in T
  <2>1. ASSUME NEW x \in Near(0), Scanning(x) PROVE Takes(LineAnswer[x], x, Line(x))
    <3>1. Emptied(x)
      BY OnwardNearer
    <3>. QED BY <2>1, <3>1, LineStepTakes
  <2>. QED BY <2>1
<1>2. ASSUME NEW k \in Nat, k \in T PROVE k + 1 \in T
  <2>1. k + 1 \in Nat /\ k + 1 - 1 = k
    OBVIOUS
  <2>2. ASSUME NEW x \in Near(k + 1), Scanning(x) PROVE Takes(LineAnswer[x], x, Line(x))
    <3>1. ASSUME ~Emptied(x), Scanning(Onward(x))
          PROVE  Takes(LineAnswer[Onward(x)], Onward(x), Line(Onward(x)))
      <4>1. Onward(x) \in Near(k)
        BY <2>1, <3>1, OnwardNearer
      <4>. QED BY <1>2, <3>1, <4>1
    <3>. QED BY <2>2, <3>1, LineStepTakes
  <2>. QED BY <2>1, <2>2
<1>3. Nat \subseteq T
  <2>. HIDE DEF T
  <2>. QED BY <1>1, <1>2, NaturalInduction
<1>4. PICK k : k \in Nat /\ g \in Near(k)
  <2>1. g \in Handle
    BY DEF Scanning
  <2>2. Len(g.file) \in Nat /\ g.offset \in Nat
    BY <2>1, HandleFields
  <2>3. Len(g.file) - g.offset <= Len(g.file)
    BY <2>2
  <2>. QED BY <2>1, <2>2, <2>3 DEF Near
<1>. QED BY <1>3, <1>4

(* What a line or a peek begins with: bytes read ahead, or nothing if the
   file has ended. *)
LEMMA StartIs ==
  ASSUME NEW h0 \in Handle, IsSound(h0), h0.open
  PROVE  /\ SameFile(LineStart(h0), h0) /\ IsSound(LineStart(h0))
         /\ LineStart(h0).file_pos = h0.file_pos
         /\ Content(LineStart(h0)) = Content(h0) /\ At(LineStart(h0)) = At(h0)
         /\ At(h0) \in Nat /\ Content(h0) \in Seq(Byte)
         /\ LineStart(h0).holds # "read" => Len(Content(h0)) <= At(h0)
         /\ h0.holds = "read" => LineStart(h0) = h0
         /\ h0.holds # "read" /\ LineStart(h0).holds = "read" => LineStart(h0).next < LineStart(h0).end
<1>1. PICK h, s : h = FlushWrites(h0) /\ s = LineStart(h0)
  OBVIOUS
<1>2. /\ SameFile(h, h0) /\ h.file_pos = h0.file_pos /\ IsSound(h) /\ h.holds \in {"nothing", "read"}
      /\ Content(h) = Content(h0) /\ h.file = Content(h0) /\ At(h) = At(h0)
  BY <1>1, FlushWritesIs
<1>3. h \in Handle /\ h.open = h0.open /\ h.mode = h0.mode /\ h.open
  BY <1>2 DEF SameFile
<1>4. h.file \in Seq(Byte) /\ h.offset \in Nat /\ h.file_pos \in Nat
  BY <1>3, HandleFields
<1>7. h0.holds = "read" => h = h0
  BY <1>1 DEF FlushWrites
<1>8. h.holds = "read" => h0.holds = "read"
  <2>1. CASE h0.holds = "write"
    <3>1. h = Flush(h0)
      BY <1>1, <2>1 DEF FlushWrites
    <3>2. h.holds = "nothing"
      BY <3>1, FlushIs
    <3>. QED BY <3>2
  <2>2. CASE h0.holds # "write"
    BY <1>1, <2>2 DEF FlushWrites
  <2>. QED BY <2>1, <2>2
<1>5. CASE h.holds = "read"
  <2>1. s = h
    BY <1>1, <1>5 DEF LineStart
  <2>2. ReadAhead(h) /\ 0 \in Nat /\ 0 <= h.end - h.next
    <3>1. ReadAhead(h)
      BY <1>2, <1>5 DEF IsSound
    <3>2. h.next <= h.end /\ h.next \in Nat /\ h.end \in Int
      BY <1>3, <3>1, HandleFields DEF ReadAhead
    <3>. QED BY <3>1, <3>2
  <2>3. At(h) \in Nat
    BY <1>3, <1>5, <2>2, ReadAheadIs
  <2>. QED BY <1>1, <1>2, <1>4, <1>5, <1>7, <1>8, <2>1, <2>3
<1>6. CASE h.holds = "nothing"
  <2>6. h0.holds # "read"
    BY <1>6, <1>7
  <2>1. s = Fill(h)
    BY <1>1, <1>6 DEF LineStart
  <2>2. At(h) = h.offset
    BY <1>6 DEF At
  <2>3. PICK got : got = Slice(h.file, h.offset, BufferSize)
    OBVIOUS
  <2>4. CASE got = <<>>
    <3>1. s = [h EXCEPT !.eof = TRUE] /\ s \in Handle /\ Len(h.file) <= h.offset
      BY <1>3, <2>1, <2>3, <2>4, FillIs
    <3>2. /\ s.open = h.open /\ s.mode = h.mode /\ s.file = h.file /\ s.file_pos = h.file_pos
          /\ s.offset = h.offset /\ s.holds = "nothing" /\ s.next = h.next /\ s.end = h.end
      BY <1>3, <1>6, <3>1 DEF Handle
    <3>3. h.offset >= Len(h.file)
      BY <1>3, <3>1, HandleFields
    <3>4. IsSound(s)
      <4>1. h.next = 0
        BY <1>2, <1>6 DEF IsSound
      <4>2. EofSound(s)
        BY <3>2, <3>3 DEF EofSound
      <4>. QED BY <3>2, <4>1, <4>2 DEF IsSound
    <3>5. Content(s) = h.file /\ At(s) = h.offset
      BY <3>2 DEF Content, At
    <3>. QED BY <1>1, <1>2, <1>3, <1>4, <2>2, <2>6, <3>1, <3>2, <3>4, <3>5 DEF SameFile
  <2>5. CASE got # <<>>
    <3>1. /\ s \in Handle /\ s.holds = "read" /\ ReadAhead(s) /\ s.next = 0 /\ s.end = Len(got)
          /\ s.offset = h.offset + Len(got) /\ s.open = h.open /\ s.mode = h.mode /\ s.file = h.file
          /\ s.file_pos = h.file_pos /\ s.eof = h.eof /\ h.offset < Len(h.file) /\ s.next < s.end
      <4>1. h \in Handle
        BY <1>3
      <4>2. /\ Fill(h) \in Handle /\ Fill(h).holds = "read" /\ ReadAhead(Fill(h)) /\ Fill(h).next = 0
            /\ Fill(h).end = Len(got) /\ Fill(h).offset = h.offset + Len(got)
            /\ Fill(h).open = h.open /\ Fill(h).mode = h.mode /\ Fill(h).file = h.file
            /\ Fill(h).file_pos = h.file_pos /\ Fill(h).eof = h.eof /\ h.offset < Len(h.file)
            /\ Len(got) >= 1
        BY <2>3, <2>5, <4>1, FillIs
      <4>3. got \in Seq(Byte)
        BY <1>4, <2>3, BytesFit, SliceIs
      <4>4. Len(got) \in Nat
        BY <4>3, LenProperties
      <4>. QED BY <2>1, <4>2, <4>4
    <3>2. ~h.eof
      <4>1. h.eof => h.offset >= Len(h.file)
        BY <1>2 DEF IsSound, EofSound
      <4>2. Len(h.file) \in Nat
        BY <1>3, HandleFields
      <4>. QED BY <1>4, <3>1, <4>1, <4>2
    <3>3. IsSound(s)
      BY <1>3, <3>1, <3>2 DEF IsSound, EofSound
    <3>4. At(s) = h.offset
      <4>1. s.end \in Int
        BY <3>1, HandleFields
      <4>2. At(s) = (h.offset + s.end) - (s.end - 0)
        BY <3>1 DEF At
      <4>. QED BY <1>4, <4>1, <4>2
    <3>5. Content(s) = h.file
      BY <3>1 DEF Content
    <3>. QED BY <1>1, <1>2, <1>3, <1>4, <2>2, <2>6, <3>1, <3>3, <3>4, <3>5 DEF SameFile
  <2>. QED BY <2>4, <2>5
<1>. QED BY <1>2, <1>5, <1>6

LEMMA ReadLineIs ==
  ASSUME NEW h \in Handle, IsSound(h), h.open
  PROVE  Takes(ReadLineBuffer(h), h, Line(h))
<1>1. PICK s : s = LineStart(h)
  OBVIOUS
<1>2. PICK f, a : f = Content(h) /\ a = At(h)
  OBVIOUS
<1>3. /\ SameFile(s, h) /\ IsSound(s) /\ s.file_pos = h.file_pos /\ Content(s) = f /\ At(s) = a
      /\ a \in Nat /\ f \in Seq(Byte)
      /\ s.holds # "read" => Len(f) <= a
  BY <1>1, <1>2, StartIs
<1>4. s \in Handle /\ s.open = h.open /\ s.mode = h.mode
  BY <1>3 DEF SameFile
<1>5. Line(s) = Line(h) /\ Line(h) = Logical!LineLength(f, a)
  BY <1>2, <1>3 DEF Line
<1>6. PICK r : r = ReadLineBuffer(h)
  OBVIOUS
<1>7. CASE s.holds # "read"
  <2>1. r = [handle |-> s, bytes |-> <<>>]
    BY <1>1, <1>6, <1>7, ReadLineUnfolds
  <2>2. Line(h) = 0
    BY <1>3, <1>5, <1>7, LineLengthIs
  <2>3. 0 \in Nat /\ Len(f) \in Nat
    BY <1>3, LenProperties
  <2>4. Slice(f, a, 0) \in Seq(Byte) /\ Len(Slice(f, a, 0)) = 0
    <3>1. Slice(f, a, 0) \in Seq(Byte)
      BY <1>3, <2>3, SliceIs
    <3>2. Len(Slice(f, a, 0)) = IF Len(f) <= a THEN 0 ELSE IF Len(f) <= a + 0 THEN Len(f) - a ELSE 0
      BY <1>3, <2>3, SliceIs
    <3>. QED BY <1>3, <1>7, <3>1, <3>2
  <2>5. Slice(f, a, 0) = <<>> /\ Len(<<>>) = 0
    BY <2>4, EmptySeq
  <2>6. r.handle = s /\ r.bytes = <<>>
    BY <2>1
  <2>7. a = a + 0 /\ h.file_pos = h.file_pos + 0
    BY <1>3, HandleFields
  <2>8. Takes(r, h, 0)
    BY <1>2, <1>3, <1>4, <2>1, <2>5, <2>6, <2>7 DEF Takes, SameFile
  <2>. QED BY <1>6, <2>2, <2>8
<1>8. CASE s.holds = "read"
  <2>1. r = LineAnswer[s]
    BY <1>1, <1>6, <1>8, ReadLineUnfolds
  <2>2. Scanning(s)
    BY <1>3, <1>4, <1>8 DEF Scanning
  <2>3. Takes(r, s, Line(h))
    BY <1>5, <2>1, <2>2, LineAnswerTakes
  <2>. QED BY <1>2, <1>3, <1>4, <1>6, <2>3 DEF Takes, SameFile
<1>. QED BY <1>7, <1>8

(* A line that ends within the bytes held needs no others. *)
LEMMA LineLeaves ==
  ASSUME NEW h \in Handle, IsSound(h), h.open, Line(h) <= Held(h)
  PROVE  Leaves(ReadLineBuffer(h).handle, Held(h), Line(h))
<1>1. PICK f, p, n, o : f = h.file /\ p = At(h) /\ n = Scanned(h) /\ o = h.offset
  OBVIOUS
<1>2. f \in Seq(Byte) /\ o \in Nat /\ Len(f) \in Nat
  BY <1>1, HandleFields
<1>3. h.holds = "read"
  <2>1. SUFFICES ASSUME h.holds # "read" PROVE FALSE
    OBVIOUS
  <2>2. Held(h) = -1
    BY <2>1 DEF Held, Logical!Nothing
  <2>3. Content(h) \in Seq(Byte) /\ At(h) \in Nat
    BY StartIs
  <2>4. Line(h) \in Nat
    BY <2>3, LineLengthIs DEF Line, IsLine
  <2>. QED BY <2>2, <2>4
<1>4. Scanning(h) /\ ReadAhead(h) /\ ~h.eof
  BY <1>3 DEF Scanning, IsSound, EofSound
<1>5. /\ n \in Nat /\ n <= h.end - h.next /\ p \in Nat /\ p + n <= Len(f)
      /\ LineEnds(h) => IsLine(f, p, n)
      /\ ~LineEnds(h) => n = h.end - h.next /\ o = p + n /\ NoNewline(f, p, o)
  <2>1. PICK s : s = Begun(h)
    OBVIOUS
  <2>. QED BY <1>1, <1>4, <2>1, ScanIs
<1>6. Content(h) = f /\ Held(h) = h.end - h.next /\ Line(h) = Logical!LineLength(f, p)
  BY <1>1, <1>3 DEF Content, Held, Line
<1>7. LineStart(h) = h
  BY <1>3, StartIs
<1>8. PICK r : r = ReadLineBuffer(h)
  OBVIOUS
<1>9. r = LineStep(LineAnswer, h)
  BY <1>3, <1>7, <1>8, ReadLineUnfolds, LineAnswerIs
<1>10. CASE LineEnds(h)
  <2>1. PICK s : s = Begun(h)
    OBVIOUS
  <2>2. r = [handle |-> Consume(h, n), bytes |-> s]
    BY <1>1, <1>9, <1>10, <2>1 DEF LineStep
  <2>3. Line(h) = n
    BY <1>2, <1>5, <1>6, <1>10, LineUnique
  <2>4. Leaves(Consume(h, n), Held(h), n)
    BY <1>3, <1>5, ConsumeLeaves
  <2>5. r.handle = Consume(h, n)
    BY <2>2
  <2>. QED BY <1>8, <2>3, <2>4, <2>5
<1>11. ASSUME ~LineEnds(h), NEW k, k = Logical!LineLength(f, o)
       PROVE  k \in Nat /\ Line(h) = n + k /\ Held(h) = n
  <2>1. n = h.end - h.next /\ o = p + n /\ NoNewline(f, p, o) /\ o <= Len(f)
    BY <1>5, <1>11
  <2>2. PICK m : m = n + k
    OBVIOUS
  <2>3. f \in Seq(Byte) /\ p \in Nat /\ n \in Nat
    BY <1>2, <1>5
  <2>4. Logical!LineLength(f, p) = m /\ k \in Nat
    BY <1>11, <2>1, <2>2, <2>3, LineGoesOn
  <2>. QED BY <1>6, <2>1, <2>2, <2>4
<1>12. CASE ~LineEnds(h) /\ Emptied(h)
  <2>1. PICK w, s : w = Fill(h) /\ s = Begun(h)
    OBVIOUS
  <2>2. w = [h EXCEPT !.eof = TRUE] /\ w \in Handle
    BY <1>12, <2>1, FillIs DEF Emptied
  <2>3. /\ w.file = f /\ w.offset = o /\ w.holds = "read" /\ w.next = h.next /\ w.end = h.end /\ w.mem = h.mem
    BY <1>1, <1>3, <2>2 DEF Handle
  <2>4. ReadAhead(w)
    BY <1>1, <1>4, <2>3 DEF ReadAhead
  <2>5. r = [handle |-> Consume(w, n), bytes |-> s]
    BY <1>1, <1>9, <1>12, <2>1 DEF LineStep
  <2>6. n = w.end - w.next /\ n <= w.end - w.next
    BY <1>5, <1>12, <2>3
  <2>7. Consume(w, n).holds = "nothing"
    BY <1>5, <2>2, <2>3, <2>4, <2>6, ConsumeIs
  <2>8. r.handle = Consume(w, n)
    BY <2>5
  <2>9. Held(r.handle) = Logical!Nothing
    BY <2>7, <2>8 DEF Held
  <2>10. ~(Line(h) < Held(h))
    <3>1. PICK k : k = Logical!LineLength(f, o)
      OBVIOUS
    <3>2. k \in Nat /\ Line(h) = n + k /\ Held(h) = n
      BY <1>11, <1>12, <3>1
    <3>. QED BY <1>5, <3>2
  <2>. QED BY <1>8, <2>9, <2>10 DEF Leaves
<1>13. CASE ~LineEnds(h) /\ ~Emptied(h)
  <2>1. PICK k : k = Logical!LineLength(f, o)
    OBVIOUS
  <2>2. k \in Nat /\ Line(h) = n + k /\ Held(h) = n
    BY <1>11, <1>13, <2>1
  <2>3. k = 0
    BY <1>5, <2>2
  <2>4. o < Len(f)
    <3>1. PICK got : got = Slice(h.file, h.offset, BufferSize)
      OBVIOUS
    <3>2. got # <<>>
      BY <1>13, <3>1 DEF Emptied
    <3>3. h.offset < Len(h.file)
      BY <3>1, <3>2, FillIs
    <3>. QED BY <1>1, <3>3
  <2>5. IsLine(f, o, k)
    BY <1>2, <2>1, <2>4, LineLengthIs
  <2>6. k = Len(f) - o \/ k > 0
    BY <2>5 DEF IsLine
  <2>. QED BY <1>2, <2>3, <2>4, <2>6
<1>. QED BY <1>10, <1>12, <1>13
-----------------------------------------------------------------------------
IoInv == io \in Handle /\ IsSound(io)

LEMMA Mapping ==
  /\ IoAt = At(io) /\ IoContent = Content(io) /\ IoAhead = Held(io)
  /\ (IoAt = At(io))' /\ (IoContent = Content(io))' /\ (IoAhead = Held(io))'
  /\ \A f, p, n : Promised!Slice(f, p, n) = Slice(f, p, n)
  /\ \A f, p, s : Promised!Overlay(f, p, s) = Overlay(f, p, s)
  /\ \A f, p : Promised!LineLength(f, p) = Logical!LineLength(f, p)
  /\ Promised!Nothing = Logical!Nothing
<1>1. /\ IoAt = At(io) /\ IoContent = Content(io) /\ IoAhead = Held(io)
      /\ (IoAt = At(io))' /\ (IoContent = Content(io))' /\ (IoAhead = Held(io))'
  BY DEF IoAt, At, IoContent, Content, IoAhead, Held
<1>2. \A f, p, n : Promised!Slice(f, p, n) = Slice(f, p, n)
  BY DEF Slice, Logical!Slice, Promised!Slice, Logical!FileMin, Promised!FileMin
<1>3. \A f, p, s : Promised!Overlay(f, p, s) = Overlay(f, p, s)
  BY DEF Overlay, Logical!Overlay, Promised!Overlay, Logical!FileMax, Promised!FileMax
<1>4. \A f, p : Promised!LineLength(f, p) = Logical!LineLength(f, p)
  BY DEF Logical!LineLength, Promised!LineLength, Logical!FileMax, Promised!FileMax
<1>5. Promised!Nothing = Logical!Nothing
  BY DEF Promised!Nothing, Logical!Nothing
<1>. QED BY <1>1, <1>2, <1>3, <1>4, <1>5

(* Whatever a sound handle holds is a block of the file. *)
LEMMA FetchedIs ==
  ASSUME io' \in Handle, IsSound(io')
  PROVE  Promised!Fetched
<1>1. CASE io'.holds # "read"
  <2>1. Held(io') = Logical!Nothing
    BY <1>1, HeldIs
  <2>. QED BY <2>1, Mapping DEF Promised!Fetched
<1>2. CASE io'.holds = "read"
  <2>1. Held(io') \in 0..BufferSize /\ At(io') + Held(io') <= Len(Content(io'))
    BY <1>2, HeldIs
  <2>. QED BY <2>1, Mapping DEF Promised!Fetched
<1>. QED BY <1>1, <1>2

LEMMA TakeStep ==
  ASSUME IoInv, NEW r, NEW n, Takes(r, io, n), n <= Held(io) => Leaves(r.handle, Held(io), n),
         io' = r.handle, answer' = r.bytes, n \in Nat
  PROVE  IoInv' /\ Promised!Take(n)
<1>1. /\ answer' = Slice(Content(io), At(io), n) /\ At(io') = At(io) + Len(answer')
      /\ io'.file_pos = io.file_pos + Len(answer')
      /\ io' \in Handle /\ io'.mode = io.mode /\ IsSound(io') /\ Content(io') = Content(io)
  BY DEF Takes, SameFile
<1>2. Held(io) \in Int
  <2>1. io \in Handle /\ IsSound(io)
    BY DEF IoInv
  <2>2. Held(io) = -1 \/ Held(io) \in 0..BufferSize
    BY <2>1, HeldIs DEF Logical!Nothing
  <2>. QED BY <2>2, BytesFit
<1>3. n < Held(io) => Held(io') = Held(io) - n
  BY <1>2 DEF Leaves
<1>4. n = Held(io) => Held(io') = Logical!Nothing
  BY <1>2 DEF Leaves
<1>5. Promised!Fetched
  BY <1>1, FetchedIs
<1>6. Promised!Take(n)
  BY <1>1, <1>3, <1>4, <1>5, Mapping DEF Promised!Take
<1>. QED BY <1>1, <1>6 DEF IoInv

LEMMA ReadStep ==
  ASSUME IoInv, NEW n \in Nat, IoRead(n)
  PROVE  IoInv' /\ Promised!FileRead
<1>1. PICK r : r = ReadBuffer(io, n)
  OBVIOUS
<1>2. io' = r.handle /\ answer' = r.bytes /\ io.open /\ io \in Handle /\ IsSound(io)
  BY <1>1 DEF IoRead, IoInv
<1>3. Takes(r, io, n)
  BY <1>1, <1>2, ReadIs
<1>4. n <= Held(io) => Leaves(r.handle, Held(io), n)
  BY <1>1, <1>2, ReadLeaves
<1>5. IoInv' /\ Promised!Take(n)
  BY <1>2, <1>3, <1>4, TakeStep
<1>6. operation'.op = "read" /\ operation'.bytes = n
  BY DEF IoRead
<1>. QED BY <1>5, <1>6 DEF Promised!FileRead

LEMMA ReadLineStep ==
  ASSUME IoInv, IoReadLine
  PROVE  IoInv' /\ Promised!FileReadLine
<1>1. PICK r, k : r = ReadLineBuffer(io) /\ k = Line(io)
  OBVIOUS
<1>2. io' = r.handle /\ answer' = r.bytes /\ io.open /\ io \in Handle /\ IsSound(io)
  BY <1>1 DEF IoReadLine, IoInv
<1>3. Takes(r, io, k)
  BY <1>1, <1>2, ReadLineIs
<1>4. k \in Nat
  <2>1. Content(io) \in Seq(Byte) /\ At(io) \in Nat
    BY <1>2, StartIs
  <2>. QED BY <1>1, <2>1, LineLengthIs DEF Line, IsLine
<1>5. k <= Held(io) => Leaves(r.handle, Held(io), k)
  BY <1>1, <1>2, LineLeaves
<1>6. IoInv' /\ Promised!Take(k)
  BY <1>2, <1>3, <1>4, <1>5, TakeStep
<1>7. k = Promised!LineLength(IoContent, IoAt)
  BY <1>1, Mapping DEF Line
<1>8. operation'.op = "readline"
  BY DEF IoReadLine
<1>. QED BY <1>6, <1>7, <1>8 DEF Promised!FileReadLine

LEMMA PeekStep ==
  ASSUME IoInv, IoPeek
  PROVE  IoInv' /\ Promised!FilePeek
<1>1. io \in Handle /\ IsSound(io) /\ io.open /\ operation'.op = "peek"
  BY DEF IoInv, IoPeek
<1>2. PICK s : s = LineStart(io)
  OBVIOUS
<1>3. /\ SameFile(s, io) /\ IsSound(s) /\ s.file_pos = io.file_pos
      /\ Content(s) = Content(io) /\ At(s) = At(io) /\ At(io) \in Nat /\ Content(io) \in Seq(Byte)
      /\ s.holds # "read" => Len(Content(io)) <= At(io)
      /\ io.holds = "read" => s = io
      /\ io.holds # "read" /\ s.holds = "read" => s.next < s.end
  BY <1>1, <1>2, StartIs
<1>4. io' = s /\ s \in Handle /\ s.mode = io.mode
  BY <1>2, <1>3 DEF IoPeek, LineStart, SameFile
<1>5. \/ s.holds # "read" /\ answer' = <<>>
      \/ s.holds = "read" /\ s.next < BufferSize /\ answer' = <<s.mem[s.next + 1]>>
      \/ s.holds = "read" /\ ~(s.next < BufferSize) /\ \E b \in Byte : answer' = <<b>>
  BY <1>2 DEF IoPeek, LineStart
<1>6. s.mem \in [1..BufferSize -> Byte] /\ s.next \in Nat /\ BufferSize \in Nat /\ s.end \in Int /\ s.end <= BufferSize
  BY <1>4, HandleFields
<1>7. s.holds = "read" => \E b \in Byte : answer' = <<b>>
  <2>1. CASE s.next < BufferSize /\ answer' = <<s.mem[s.next + 1]>>
    <3>1. s.next + 1 \in 1..BufferSize
      BY <1>6, <2>1
    <3>2. s.mem[s.next + 1] \in Byte
      BY <1>6, <3>1
    <3>. QED BY <2>1, <3>2
  <2>. QED BY <1>5, <2>1
<1>8. ASSUME s.holds # "read" PROVE answer' = Slice(Content(io), At(io), 1)
  <2>1. answer' = <<>> /\ Len(Content(io)) <= At(io)
    BY <1>3, <1>5, <1>8
  <2>2. Slice(Content(io), At(io), 1) \in Seq(Byte) /\ Len(Slice(Content(io), At(io), 1)) = 0
    BY <1>3, <2>1, SliceIs
  <2>. QED BY <2>1, <2>2, EmptySeq
<1>9. ASSUME s.holds = "read", s.next < s.end PROVE answer' = Slice(Content(io), At(io), 1)
  <2>1. s.next < BufferSize /\ 1 <= s.end - s.next /\ s.next + 1 \in 1..BufferSize
    BY <1>6, <1>9
  <2>2. ReadAhead(s) /\ Content(s) = s.file
    BY <1>3, <1>9 DEF IsSound, Content
  <2>3. SubSeq(s.mem, s.next + 1, s.next + 1) = Slice(s.file, At(s), 1)
    BY <1>4, <1>9, <2>1, <2>2, ReadAheadIs
  <2>4. SubSeq(s.mem, s.next + 1, s.next + 1) = <<s.mem[s.next + 1]>>
    <3>1. PICK x, m, t : x = s.next /\ m = s.mem /\ t = SubSeq(m, x + 1, x + 1)
      OBVIOUS
    <3>2. t \in Seq(Byte) /\ Len(t) = 1 /\ \A i \in 1..1 : t[i] = m[x + i]
      <4>1. PICK n : n = 1
        OBVIOUS
      <4>2. m \in [1..BufferSize -> Byte] /\ x \in Nat /\ n \in Nat /\ x + n <= BufferSize /\ t = SubSeq(m, x + 1, x + n)
        <5>1. m \in [1..BufferSize -> Byte] /\ x \in Nat /\ x < BufferSize
          BY <1>6, <2>1, <3>1
        <5>2. x + n = x + 1 /\ x + n <= BufferSize /\ n \in Nat
          BY <1>6, <4>1, <5>1
        <5>3. t = SubSeq(m, x + 1, x + n)
          BY <3>1, <5>2
        <5>. QED BY <5>1, <5>2, <5>3
      <4>3. t \in Seq(Byte) /\ Len(t) = n /\ \A i \in 1..n : t[i] = m[x + i]
        BY <4>2, BytesBetween
      <4>. QED BY <4>1, <4>3
    <3>3. t[1] = m[x + 1]
      BY <3>2
    <3>4. t = <<m[x + 1]>>
      BY <3>2, <3>3
    <3>. QED BY <3>1, <3>4
  <2>5. answer' = <<s.mem[s.next + 1]>>
    BY <1>5, <1>9, <2>1
  <2>. QED BY <1>3, <2>2, <2>3, <2>4, <2>5
<1>10. IF Held(io) = 0 THEN \E b \in Byte : answer' = <<b>> ELSE answer' = Slice(Content(io), At(io), 1)
  <2>1. CASE io.holds # "read"
    <3>1. Held(io) # 0
      BY <2>1 DEF Held, Logical!Nothing
    <3>. QED BY <1>3, <1>8, <1>9, <2>1, <3>1
  <2>2. CASE io.holds = "read"
    <3>1. s = io /\ Held(io) = s.end - s.next /\ Held(io) \in 0..BufferSize
      BY <1>1, <1>3, <2>2, HeldIs
    <3>2. Held(io) # 0 => s.next < s.end
      BY <1>6, <3>1
    <3>. QED BY <1>7, <1>9, <2>2, <3>1, <3>2
  <2>. QED BY <2>1, <2>2
<1>11. IF Held(io) = Logical!Nothing THEN Promised!Fetched ELSE Held(io') = Held(io)
  <2>1. CASE io.holds # "read"
    <3>1. Held(io) = Logical!Nothing
      BY <2>1 DEF Held
    <3>. QED BY <1>3, <1>4, <3>1, FetchedIs
  <2>2. CASE io.holds = "read"
    <3>1. s = io /\ Held(io) # Logical!Nothing
      BY <1>1, <1>3, <2>2, HeldIs
    <3>. QED BY <1>4, <3>1
  <2>. QED BY <2>1, <2>2
<1>12. Promised!FilePeek
  BY <1>1, <1>3, <1>4, <1>10, <1>11, Mapping DEF Promised!FilePeek
<1>. QED BY <1>3, <1>4, <1>12 DEF IoInv

LEMMA WriteStep ==
  ASSUME IoInv, NEW s \in Data, IoWrite(s)
  PROVE  IoInv' /\ Promised!FileWrite
<1>1. io \in Handle /\ IsSound(io) /\ io.open /\ answer' = <<>> /\ io' = WriteBuffer(io, s)
  BY DEF IoInv, IoWrite
<1>2. s \in Seq(Byte) /\ operation'.op = "write" /\ operation'.data = s
  BY IoAssumption DEF IoWrite
<1>3. CASE s = <<>>
  <2>1. io' = io
    BY <1>1, <1>3 DEF WriteBuffer
  <2>2. Promised!FileWrite
    BY <1>1, <1>2, <1>3, <2>1, Mapping DEF Promised!FileWrite
  <2>. QED BY <2>1, <2>2 DEF IoInv
<1>4. CASE s # <<>>
  <2>1. /\ SameFile(io', io) /\ IsSound(io')
        /\ Content(io') = Overlay(Content(io), Base(io), s) /\ At(io') = Base(io) + Len(s)
        /\ io'.file_pos = (IF io.mode = "ra" THEN At(io') ELSE io.file_pos + Len(s))
        /\ io'.holds # "read"
    BY <1>1, <1>2, <1>4, WriteIs
  <2>2. io' \in Handle /\ io'.mode = io.mode
    BY <2>1 DEF SameFile
  <2>3. Held(io') = Logical!Nothing
    BY <2>1 DEF Held
  <2>4. Held(io) # Logical!Nothing <=> io.holds = "read"
    BY <1>1, HeldIs
  <2>5. Base(io) = IF io.mode = "ra" THEN Len(Content(io))
                   ELSE IF Held(io) # Logical!Nothing THEN io.file_pos ELSE At(io)
    BY <2>4 DEF Base
  <2>6. Promised!FileWrite
    BY <1>1, <1>2, <1>4, <2>1, <2>2, <2>3, <2>5, Mapping DEF Promised!FileWrite, Promised!Appends
  <2>. QED BY <2>1, <2>2, <2>6 DEF IoInv
<1>. QED BY <1>3, <1>4

LEMMA SeekStep ==
  ASSUME IoInv, NEW to \in Nat, IoSeek(to)
  PROVE  IoInv' /\ Promised!FileSeek
<1>1. /\ io \in Handle /\ IsSound(io) /\ io' = SeekBuffer(io, to) /\ answer' = <<>>
      /\ operation'.op = "seek" /\ operation'.to = to
  BY DEF IoInv, IoSeek
<1>2. /\ SameFile(io', io) /\ IsSound(io') /\ io'.file_pos = to /\ Content(io') = Content(io)
      /\ \/ At(io') = to /\ Held(io') = Logical!Nothing
         \/ Stays(io', io, to)
  BY <1>1, SeekIs
<1>3. io' \in Handle /\ io'.mode = io.mode
  BY <1>2 DEF SameFile
<1>4. Promised!FileSeek
  BY <1>1, <1>2, <1>3, Mapping DEF Promised!FileSeek, Stays
<1>. QED BY <1>2, <1>3, <1>4 DEF IoInv

LEMMA SeekEndStep ==
  ASSUME IoInv, IoSeekEnd
  PROVE  IoInv' /\ Promised!FileSeekEnd
<1>1. PICK to : to = Len(Flush(io).file)
  OBVIOUS
<1>2. /\ io \in Handle /\ IsSound(io) /\ io' = SeekOutside(Flush(io), to) /\ answer' = <<>>
      /\ operation'.op = "seek to end"
  BY <1>1 DEF IoInv, IoSeekEnd
<1>3. to \in Nat /\ to = Len(Content(io))
  <2>1. Flush(io) \in Handle /\ Flush(io).file = Content(io)
    BY <1>2, FlushIs DEF SameFile
  <2>. QED BY <1>1, <2>1, HandleFields
<1>4. /\ SameFile(io', io) /\ IsSound(io') /\ io'.file_pos = to /\ Content(io') = Content(io)
      /\ At(io') = to /\ io'.holds = "nothing"
  BY <1>2, <1>3, SeekOutsideIs
<1>5. io' \in Handle /\ io'.mode = io.mode /\ Held(io') = Logical!Nothing
  BY <1>4 DEF SameFile, Held
<1>6. Promised!FileSeekEnd
  BY <1>2, <1>3, <1>4, <1>5, Mapping DEF Promised!FileSeekEnd
<1>. QED BY <1>4, <1>5, <1>6 DEF IoInv

(* A flush drops what was read ahead: the next byte is behind it. *)
LEMMA FlushMoves ==
  ASSUME IoInv
  PROVE  /\ Flush(io).offset = IF Held(io) = Logical!Nothing THEN At(io) ELSE At(io) + Held(io)
         /\ At(Flush(io)) = Flush(io).offset /\ Content(Flush(io)) = Content(io)
         /\ SameFile(Flush(io), io) /\ IsSound(Flush(io)) /\ Flush(io).file_pos = io.file_pos
         /\ Flush(io).holds = "nothing"
<1>1. io \in Handle /\ IsSound(io)
  BY DEF IoInv
<1>2. /\ SameFile(Flush(io), io) /\ Flush(io).file_pos = io.file_pos
      /\ IsSound(Flush(io)) /\ Flush(io).holds = "nothing" /\ Flush(io).file = Content(io)
      /\ io.holds # "read" => Flush(io).offset = At(io)
      /\ io.holds = "read" => Flush(io).offset = io.offset
  BY <1>1, FlushIs
<1>3. At(Flush(io)) = Flush(io).offset /\ Content(Flush(io)) = Content(io)
  BY <1>2 DEF At, Content
<1>4. /\ io.holds # "read" => Held(io) = Logical!Nothing
      /\ io.holds = "read" => Held(io) # Logical!Nothing /\ io.offset = At(io) + Held(io)
  BY <1>1, HeldIs
<1>. QED BY <1>2, <1>3, <1>4

LEMMA FlushStep ==
  ASSUME IoInv, IoFlush
  PROVE  IoInv' /\ Promised!FileFlush
<1>1. io' = Flush(io) /\ answer' = <<>> /\ operation'.op = "flush"
  BY DEF IoFlush
<1>2. /\ At(io') = (IF Held(io) = Logical!Nothing THEN At(io) ELSE At(io) + Held(io))
      /\ Content(io') = Content(io)
      /\ SameFile(io', io) /\ IsSound(io') /\ io'.file_pos = io.file_pos /\ io'.holds = "nothing"
  BY <1>1, FlushMoves
<1>3. io' \in Handle /\ io'.mode = io.mode /\ Held(io') = Logical!Nothing
  BY <1>2 DEF SameFile, Held
<1>4. Promised!FileFlush
  BY <1>1, <1>2, <1>3, Mapping DEF Promised!FileFlush
<1>. QED BY <1>2, <1>3, <1>4 DEF IoInv

LEMMA CloseStep ==
  ASSUME IoInv, IoClose
  PROVE  IoInv' /\ Promised!FileFlush
<1>1. PICK g : g = Flush(io)
  OBVIOUS
<1>2. io' = [g EXCEPT !.open = FALSE] /\ answer' = <<>> /\ operation'.op = "close"
  BY <1>1 DEF IoClose
<1>3. /\ g.offset = (IF Held(io) = Logical!Nothing THEN At(io) ELSE At(io) + Held(io))
      /\ At(g) = g.offset /\ Content(g) = Content(io)
      /\ g \in Handle /\ g.mode = io.mode /\ IsSound(g) /\ g.file_pos = io.file_pos /\ g.holds = "nothing"
  BY <1>1, FlushMoves DEF SameFile
<1>4. io' \in Handle
  BY <1>2, <1>3 DEF Handle
<1>5. /\ io'.mode = g.mode /\ io'.file = g.file /\ io'.file_pos = g.file_pos /\ io'.offset = g.offset
      /\ io'.holds = "nothing" /\ io'.next = g.next /\ io'.eof = g.eof
  BY <1>2, <1>3 DEF Handle
<1>6. IsSound(io')
  <2>1. EofSound(io')
    BY <1>3, <1>5 DEF IsSound, EofSound
  <2>. QED BY <1>3, <1>5, <2>1 DEF IsSound
<1>7. Content(io') = Content(g) /\ At(io') = g.offset /\ Held(io') = Logical!Nothing
  BY <1>3, <1>5 DEF Content, At, Held
<1>8. Promised!FileFlush
  BY <1>2, <1>3, <1>5, <1>7, Mapping DEF Promised!FileFlush
<1>. QED BY <1>4, <1>6, <1>8 DEF IoInv

(* A handle that holds nothing, once it has been opened. *)
LEMMA OpenedIs ==
  ASSUME NEW h \in Handle, IsSound(h), h.holds = "nothing", NEW m \in Modes
  PROVE  LET g == Opened(h, m)
         IN  /\ g \in Handle /\ IsSound(g) /\ g.mode = m /\ g.file_pos = h.file_pos
             /\ Content(g) = (IF Logical!Truncates(m) THEN <<>> ELSE h.file) /\ At(g) = 0
             /\ Held(g) = Logical!Nothing
<1>1. PICK f, b : /\ f = (IF Logical!Truncates(m) THEN <<>> ELSE h.file)
                  /\ b = [i \in 1..BufferSize |-> Hole]
  OBVIOUS
<1>2. PICK g : g = Opened(h, m)
  OBVIOUS
<1>3. g = [h EXCEPT !.open = TRUE, !.mode = m, !.eof = FALSE, !.offset = 0, !.file = f, !.mem = b, !.next = 0]
  BY <1>1, <1>2 DEF Opened
<1>4. f \in Seq(Byte)
  <2>1. h.file \in Seq(Byte) /\ <<>> \in Seq(Byte)
    BY HandleFields, EmptySeq
  <2>. QED BY <1>1, <2>1
<1>5. b \in [1..BufferSize -> Byte] /\ 0 \in 0..BufferSize
  BY <1>1, BytesFit
<1>6. g \in Handle
  BY <1>3, <1>4, <1>5 DEF Handle
<1>7. /\ g.open = TRUE /\ g.mode = m /\ g.file = f /\ g.file_pos = h.file_pos /\ g.offset = 0
      /\ g.holds = "nothing" /\ g.next = 0 /\ g.eof = FALSE
  BY <1>3, <1>4, <1>5 DEF Handle
<1>8. IsSound(g)
  BY <1>7 DEF IsSound, EofSound
<1>9. Content(g) = f /\ At(g) = 0 /\ Held(g) = Logical!Nothing
  BY <1>7 DEF Content, At, Held
<1>. QED BY <1>1, <1>2, <1>6, <1>7, <1>8, <1>9

LEMMA OpenStep ==
  ASSUME IoInv, NEW m \in Modes, IoOpen(m)
  PROVE  IoInv' /\ Promised!FileOpen
<1>1. /\ io \in Handle /\ IsSound(io) /\ ~io.open /\ io' = Opened(io, m) /\ answer' = <<>>
      /\ operation'.op = "open" /\ operation'.mode = m
  BY DEF IoInv, IoOpen
<1>2. io.holds = "nothing" /\ Content(io) = io.file
  BY <1>1 DEF IsSound, Content
<1>3. /\ io' \in Handle /\ IsSound(io') /\ io'.mode = m /\ io'.file_pos = io.file_pos
      /\ Content(io') = (IF Logical!Truncates(m) THEN <<>> ELSE io.file) /\ At(io') = 0
      /\ Held(io') = Logical!Nothing
  BY <1>1, <1>2, OpenedIs
<1>4. Promised!Truncates(m) = Logical!Truncates(m)
  BY DEF Promised!Truncates, Logical!Truncates
<1>5. Promised!FileOpen
  BY <1>1, <1>2, <1>3, <1>4, Mapping DEF Promised!FileOpen
<1>. QED BY <1>3, <1>5 DEF IoInv

LEMMA ClosedIs ==
  ASSUME Modes # {}
  PROVE  Closed \in Handle /\ IsSound(Closed) /\ Closed.holds = "nothing" /\ Closed.file_pos = 0 /\ Closed.file = <<>>
<1>1. PICK c, m, b : /\ c = Closed /\ m = (CHOOSE x \in Modes : TRUE)
                     /\ b = [i \in 1..BufferSize |-> Hole]
  OBVIOUS
<1>2. c = [open |-> FALSE, mode |-> m, file |-> <<>>, offset |-> 0, file_pos |-> 0,
           mem |-> b, next |-> 0, end |-> NoEnd, holds |-> "nothing", eof |-> FALSE]
  BY <1>1 DEF Closed
<1>3. /\ b \in [1..BufferSize -> Byte] /\ 0 \in 0..BufferSize /\ NoEnd \in {NoEnd} \cup 1..BufferSize
      /\ <<>> \in Seq(Byte)
  BY <1>1, BytesFit, EmptySeq
<1>4. m \in Modes
  BY <1>1
<1>5. c \in Handle
  BY <1>2, <1>3, <1>4 DEF Handle
<1>6. IsSound(c)
  BY <1>2 DEF IsSound, EofSound
<1>. QED BY <1>1, <1>2, <1>5, <1>6

LEMMA IoInitInv == IoInit => IoInv /\ Promised!FileInit
<1>. SUFFICES ASSUME IoInit PROVE IoInv /\ Promised!FileInit
  OBVIOUS
<1>1. PICK m \in Modes : io = Opened(Closed, m)
  BY DEF IoInit
<1>2. <<>> \in Seq(Byte) /\ answer = <<>>
  BY EmptySeq DEF IoInit
<1>3. Closed \in Handle /\ IsSound(Closed) /\ Closed.holds = "nothing" /\ Closed.file_pos = 0 /\ Closed.file = <<>>
  BY <1>1, ClosedIs
<1>4. /\ io \in Handle /\ IsSound(io) /\ io.file_pos = Closed.file_pos /\ At(io) = 0 /\ Held(io) = Logical!Nothing
      /\ Content(io) = (IF Logical!Truncates(m) THEN <<>> ELSE Closed.file)
  BY <1>1, <1>3, OpenedIs
<1>5. Content(io) = <<>>
  BY <1>3, <1>4
<1>. QED BY <1>2, <1>3, <1>4, <1>5, Mapping DEF IoInv, Promised!FileInit

(* Each operation on the handle is the same one on the file. *)
LEMMA IoStep == IoInv /\ [IoNext]_ioVars => IoInv' /\ [Promised!FileNext]_(Promised!fileVars)
<1>. SUFFICES ASSUME IoInv, [IoNext]_ioVars
              PROVE  IoInv' /\ [Promised!FileNext]_(Promised!fileVars)
  OBVIOUS
<1>1. MaxRead \in Nat /\ MaxFile \in Nat
  BY IoAssumption
<1>2. ASSUME NEW n \in 0..MaxRead, IoRead(n) PROVE IoInv' /\ Promised!FileNext
  <2>1. n \in Nat
    BY <1>1
  <2>. QED BY <1>2, <2>1, ReadStep DEF Promised!FileNext
<1>3. CASE IoReadLine
  BY <1>3, ReadLineStep DEF Promised!FileNext
<1>4. CASE IoPeek
  BY <1>4, PeekStep DEF Promised!FileNext
<1>5. ASSUME NEW s \in Data, IoWrite(s) PROVE IoInv' /\ Promised!FileNext
  BY <1>5, WriteStep DEF Promised!FileNext
<1>6. ASSUME NEW to \in 0..MaxFile, IoSeek(to) PROVE IoInv' /\ Promised!FileNext
  <2>1. to \in Nat
    BY <1>1
  <2>. QED BY <1>6, <2>1, SeekStep DEF Promised!FileNext
<1>7. CASE IoSeekEnd
  BY <1>7, SeekEndStep DEF Promised!FileNext
<1>8. CASE IoFlush
  BY <1>8, FlushStep DEF Promised!FileNext
<1>9. CASE IoClose
  BY <1>9, CloseStep DEF Promised!FileNext
<1>10. ASSUME NEW m \in Modes, IoOpen(m) PROVE IoInv' /\ Promised!FileNext
  BY <1>10, OpenStep DEF Promised!FileNext
<1>11. CASE UNCHANGED ioVars
  <2>1. io' = io /\ answer' = answer /\ operation' = operation
    BY <1>11 DEF ioVars
  <2>2. IoInv'
    BY <2>1 DEF IoInv
  <2>3. UNCHANGED Promised!fileVars
    BY <2>1, Mapping DEF Promised!fileVars
  <2>. QED BY <2>2, <2>3
<1>. QED BY <1>2, <1>3, <1>4, <1>5, <1>6, <1>7, <1>8, <1>9, <1>10, <1>11 DEF IoNext

(* eof() says so only where no byte of the file follows, neither one that is
   still in the memory nor one written after the end was met. *)
THEOREM IoEofAtEndAlways == IoSpec => []IoEofAtEnd
<1>1. IoInv => IoEofAtEnd
  <2>. SUFFICES ASSUME IoInv, io.eof PROVE IoAt >= Len(IoContent)
    BY DEF IoEofAtEnd
  <2>1. io \in Handle /\ io.holds # "read" /\ io.offset >= Len(io.file) /\ IsSound(io)
    BY DEF IoInv, IsSound, EofSound
  <2>2. PICK d, o, f, x : d = SubSeq(io.mem, 1, io.next) /\ o = io.offset /\ f = io.file /\ x = io.next
    OBVIOUS
  <2>3. /\ Content(io) = Overlay(f, o, d) /\ At(io) = o + x
        /\ d \in Seq(Byte) /\ Len(d) = x /\ Content(io) \in Seq(Byte)
    BY <2>1, <2>2, WriterIs
  <2>4. f \in Seq(Byte) /\ o \in Nat /\ x \in Nat /\ Len(f) \in Nat
    BY <2>1, <2>2, HandleFields
  <2>5. /\ d = <<>> => Overlay(f, o, d) = f
        /\ d # <<>> => Len(Overlay(f, o, d)) = IF Len(f) < o + Len(d) THEN o + Len(d) ELSE Len(f)
    BY <2>3, <2>4, OverlayIs
  <2>6. PICK l, k : l = Len(f) /\ k = Len(Content(io))
    OBVIOUS
  <2>7. k = l \/ k = IF l < o + x THEN o + x ELSE l
    BY <2>3, <2>5, <2>6
  <2>8. l <= o
    BY <2>1, <2>2, <2>4, <2>6
  <2>9. o + x >= k
    BY <2>4, <2>6, <2>7, <2>8
  <2>. QED BY <2>3, <2>6, <2>9, Mapping
<1>. QED BY <1>1, IoInitInv, IoStep, PTL DEF IoSpec

(* Each operation gives and leaves exactly what File says of it: the buffer is
   not seen, but for the exceptions that are named there. *)
THEOREM IoRefines == IoSpec => IoRefinesFile
BY IoInitInv, IoStep, PTL DEF IoSpec, IoRefinesFile, Promised!FileSpec
=============================================================================
