-------------------------- MODULE Exceptions_proofs --------------------------
(***************************************************************************)
(* No exception is ever delivered to a C function that has returned, for   *)
(* any number of calls, handlers, nested runloops and exceptions, however  *)
(* they are thrown, rethrown, resumed and finalized, by programs that keep *)
(* to the rules (Habits = {}).                                             *)
(*                                                                         *)
(* The state that control finds is never looked at alone: whoever handles  *)
(* an exception may resume it, unwind further, or leave C code, and comes  *)
(* back to a state of long ago.  The invariant speaks of all these points. *)
(*                                                                         *)
(* The last part proves that handlers have an exception in order, with an  *)
(* invariant of its own, which leaves the C stack out: it speaks of spots, *)
(* where control can come back to before an exception is resumed.          *)
(***************************************************************************)
EXTENDS Exceptions, Induction_proofs, SequenceTheorems, TLAPS

(* What the variables hold. *)
HandlerRecord == [n : Nat, takes : SUBSET Types, runloop_id : Nat, frame : Nat]
ContextRecord ==
  [caller : Nat, runloop : Nat, entry : BOOLEAN, handlers : Seq(HandlerRecord), pushed : Nat,
   exception : Nat, handling : BOOLEAN]
ExceptionRecord ==
  [type : Types, handled : {0, -1}, context : Nat, handlers_left : Int, handler : Nat, resume : Nat,
   origin : Nat, had : Seq(Nat \X Nat), before : Nat \X BOOLEAN]
RunopsFrame == [kind : {"runops"}, id : Nat]
CatchFrame == [kind : {"phasers", "ext"}, ctx : Nat, runloop_id : Nat, trying : BOOLEAN, caught : Seq(Nat)]
Frame == RunopsFrame \cup CatchFrame

(* Contexts are numbered in the order of the calls. *)
Calls(s) ==
  /\ s \in Seq(ContextRecord)
  /\ \A c \in DOMAIN s : s[c].caller < c /\ (c # 1 => s[c].caller # 0) /\ (s[c].entry => s[c].runloop # 1)
                         /\ s[c].runloop # 0

UpStep(f, s, d) == IF d = 0 THEN {} ELSE {d} \cup f[s[d].caller]
Ups(f, s, k) == f = [d \in 0..k |-> UpStep(f, s, d)]
Up(s, c) == LET up[d \in 0 .. Len(s)] == IF d = 0 THEN {} ELSE {d} \cup up[s[d].caller] IN up[c]

LEMMA UpsExist ==
  \A s : Calls(s) => \A k \in Nat : k <= Len(s) => \E f : Ups(f, s, k)
<1>. SUFFICES ASSUME NEW s, Calls(s) PROVE \A k \in Nat : k <= Len(s) => \E f : Ups(f, s, k)
  OBVIOUS
<1>. DEFINE T == {k \in Nat : k <= Len(s) => \E f : Ups(f, s, k)}
<1>1. 0 \in T
  <2>. DEFINE f == [d \in 0..0 |-> {}]
  <2>1. ASSUME NEW d \in 0..0 PROVE f[d] = UpStep(f, s, d)
    BY DEF UpStep
  <2>2. f = [d \in 0..0 |-> UpStep(f, s, d)]
    BY <2>1
  <2>. QED BY <2>2 DEF Ups
<1>2. ASSUME NEW k \in Nat, k \in T PROVE k + 1 \in T
  <2>. SUFFICES ASSUME k + 1 <= Len(s) PROVE \E f : Ups(f, s, k + 1)
    OBVIOUS
  <2>0. Len(s) \in Nat /\ DOMAIN s = 1..Len(s) /\ \A d \in 1..Len(s) : s[d].caller \in Nat /\ s[d].caller < d
    <3>1. s \in Seq(ContextRecord)
      BY DEF Calls
    <3>2. Len(s) \in Nat /\ DOMAIN s = 1..Len(s) /\ \A d \in 1..Len(s) : s[d] \in ContextRecord
      BY <3>1, LenProperties, ElementOfSeq
    <3>. QED BY <3>2 DEF Calls, ContextRecord
  <2>1. PICK f : Ups(f, s, k)
    BY <1>2, <2>0
  <2>. DEFINE g == [d \in 0..k + 1 |-> UpStep(f, s, d)]
  <2>2. ASSUME NEW d \in 0..k PROVE d \in 0..k + 1 /\ g[d] = f[d]
    BY <2>1 DEF Ups
  <2>3. ASSUME NEW d \in 0..k + 1 PROVE g[d] = UpStep(g, s, d)
    <3>1. g[d] = UpStep(f, s, d)
      OBVIOUS
    <3>. HIDE DEF g
    <3>2. CASE d # 0
      <4>1. d \in 1..Len(s)
        BY <2>0, <3>2
      <4>2. s[d].caller \in 0..k
        BY <2>0, <4>1
      <4>3. g[s[d].caller] = f[s[d].caller]
        BY <2>2, <4>2
      <4>. QED BY <3>1, <3>2, <4>3 DEF UpStep
    <3>. QED BY <3>1, <3>2 DEF UpStep
  <2>4. g = [d \in 0..k + 1 |-> UpStep(g, s, d)]
    BY <2>3
  <2>. HIDE DEF g
  <2>5. Ups(g, s, k + 1)
    BY <2>4 DEF Ups
  <2>. QED BY <2>5
<1>3. Nat \subseteq T
  <2>. HIDE DEF T
  <2>. QED BY <1>1, <1>2, NaturalInduction
<1>. QED BY <1>3

LEMMA CallsFields ==
  ASSUME NEW s, Calls(s)
  PROVE  /\ Len(s) \in Nat /\ DOMAIN s = 1..Len(s) /\ s \in Seq(ContextRecord)
         /\ \A c \in 1..Len(s) : /\ s[c] \in ContextRecord /\ s[c].caller \in Nat /\ s[c].caller < c
                                 /\ s[c].caller \in 0..Len(s)
                                 /\ c # 1 => s[c].caller \in 1..Len(s)
<1>1. s \in Seq(ContextRecord)
  BY DEF Calls
<1>2. Len(s) \in Nat /\ DOMAIN s = 1..Len(s) /\ \A d \in 1..Len(s) : s[d] \in ContextRecord
  BY <1>1, LenProperties, ElementOfSeq
<1>3. \A c \in 1..Len(s) : s[c].caller \in Nat /\ s[c].caller < c /\ (c # 1 => s[c].caller # 0)
  BY <1>2 DEF Calls, ContextRecord
<1>. QED BY <1>1, <1>2, <1>3

LEMMA UpIs ==
  ASSUME NEW s, Calls(s)
  PROVE  /\ Up(s, 0) = {}
         /\ \A c \in 1..Len(s) : Up(s, c) = {c} \cup Up(s, s[c].caller)
<1>. DEFINE u == CHOOSE f : Ups(f, s, Len(s))
<1>1. \A c : Up(s, c) = u[c]
  BY Zenon DEF Up, Ups, UpStep
<1>2. Len(s) \in Nat
  BY CallsFields
<1>3. PICK up : up = u /\ Ups(up, s, Len(s))
  <2>1. \E f : Ups(f, s, Len(s))
    BY <1>2, UpsExist
  <2>. QED BY <2>1
<1>. HIDE DEF u
<1>4. \A c \in 0..Len(s) : up[c] = UpStep(up, s, c)
  BY <1>3 DEF Ups
<1>5. Up(s, 0) = {}
  <2>1. 0 \in 0..Len(s)
    BY <1>2
  <2>2. Up(s, 0) = UpStep(up, s, 0)
    BY <1>1, <1>3, <1>4, <2>1
  <2>. QED BY <2>2 DEF UpStep
<1>6. ASSUME NEW c \in 1..Len(s) PROVE Up(s, c) = {c} \cup Up(s, s[c].caller)
  <2>1. c \in 0..Len(s) /\ c # 0
    BY <1>2
  <2>2. Up(s, c) = UpStep(up, s, c)
    BY <1>1, <1>3, <1>4, <2>1
  <2>. QED BY <1>1, <1>3, <2>1, <2>2 DEF UpStep
<1>. QED BY <1>5, <1>6

(* Callers are earlier calls, and those of a caller are callers. *)
LEMMA UpBelow ==
  ASSUME NEW s, Calls(s)
  PROVE  \A c \in 0..Len(s) : /\ Up(s, c) \subseteq 1..c
                              /\ \A d \in Up(s, c) : Up(s, d) \subseteq Up(s, c)
                              /\ \A a, b \in Up(s, c) : a <= b => a \in Up(s, b)
<1>. DEFINE Right(c) == /\ Up(s, c) \subseteq 1..c
                        /\ \A d \in Up(s, c) : Up(s, d) \subseteq Up(s, c)
                        /\ \A a, b \in Up(s, c) : a <= b => a \in Up(s, b)
            T == {n \in Nat : \A c \in 0..Len(s) : c <= n => Right(c)}
<1>0. Len(s) \in Nat /\ \A c \in 1..Len(s) : s[c].caller \in 0..Len(s) /\ s[c].caller < c
  BY CallsFields
<1>1. Up(s, 0) = {} /\ \A c \in 1..Len(s) : Up(s, c) = {c} \cup Up(s, s[c].caller)
  BY UpIs
<1>2. Right(0)
  BY <1>1
<1>3. 0 \in T
  <2>. HIDE DEF Right
  <2>. QED BY <1>0, <1>2
<1>4. ASSUME NEW n \in Nat, n \in T PROVE n + 1 \in T
  <2>. SUFFICES ASSUME NEW c \in 0..Len(s), c <= n + 1 PROVE Right(c)
    BY <1>0
  <2>1. CASE c <= n
    BY <1>4, <2>1
  <2>2. CASE c = n + 1
    <3>. DEFINE d == s[c].caller
    <3>1. c \in 1..Len(s) /\ d \in 0..Len(s) /\ d < c /\ d <= n
      BY <1>0, <2>2
    <3>2. Right(d)
      BY <1>4, <3>1
    <3>3. Up(s, c) = {c} \cup Up(s, d)
      BY <1>1, <3>1
    <3>. HIDE DEF d
    <3>4. \A a \in Up(s, d) : a < c /\ a \in 1..c
      BY <3>1, <3>2
    <3>5. \A a, b \in Up(s, c) : a <= b => a \in Up(s, b)
      <4>. SUFFICES ASSUME NEW a \in Up(s, c), NEW b \in Up(s, c), a <= b PROVE a \in Up(s, b)
        OBVIOUS
      <4>1. CASE b = c
        BY <4>1
      <4>2. CASE b # c
        <5>1. b \in Up(s, d) /\ a # c
          BY <3>3, <3>4, <4>2, <3>1
        <5>. QED BY <3>2, <3>3, <5>1
      <4>. QED BY <4>1, <4>2
    <3>. QED BY <3>1, <3>2, <3>3, <3>4, <3>5
  <2>. QED BY <2>1, <2>2
<1>5. Nat \subseteq T
  <2>. HIDE DEF T
  <2>. QED BY <1>3, <1>4, NaturalInduction
<1>. SUFFICES ASSUME NEW c \in 0..Len(s) PROVE Right(c)
  OBVIOUS
<1>6. c \in T /\ c <= c
  BY <1>0, <1>5
<1>. HIDE DEF Right
<1>. QED BY <1>6

(* What a program does to contexts that were made leaves the callers. *)
Same(s, t) ==
  /\ Calls(s) /\ Calls(t) /\ Len(s) <= Len(t)
  /\ \A c \in 1..Len(s) : t[c].caller = s[c].caller /\ t[c].entry = s[c].entry /\ t[c].runloop = s[c].runloop

LEMMA UpSame ==
  ASSUME NEW s, NEW t, Same(s, t)
  PROVE  \A c \in 0..Len(s) : Up(t, c) = Up(s, c)
<1>. DEFINE T == {n \in Nat : \A c \in 0..Len(s) : c <= n => Up(t, c) = Up(s, c)}
<1>0. /\ Len(s) \in Nat /\ \A c \in 1..Len(s) : s[c].caller \in 0..Len(s) /\ s[c].caller < c
      /\ Len(t) \in Nat /\ Len(s) <= Len(t) /\ \A c \in 1..Len(s) : t[c].caller = s[c].caller
  BY CallsFields DEF Same
<1>1. /\ Up(s, 0) = {} /\ \A c \in 1..Len(s) : Up(s, c) = {c} \cup Up(s, s[c].caller)
      /\ Up(t, 0) = {} /\ \A c \in 1..Len(t) : Up(t, c) = {c} \cup Up(t, t[c].caller)
  BY UpIs DEF Same
<1>2. 0 \in T
  <2>1. ASSUME NEW c \in 0..Len(s), c <= 0 PROVE Up(t, c) = Up(s, c)
    <3>1. c = 0
      BY <1>0, <2>1
    <3>. QED BY <1>1, <3>1
  <2>. QED BY <2>1
<1>3. ASSUME NEW n \in Nat, n \in T PROVE n + 1 \in T
  <2>. SUFFICES ASSUME NEW c \in 0..Len(s), c = n + 1 PROVE Up(t, c) = Up(s, c)
    <3>1. ASSUME NEW c \in 0..Len(s), c <= n + 1, c # n + 1 PROVE c <= n
      BY <1>0, <3>1
    <3>. QED BY <1>3, <3>1
  <2>1. c \in 1..Len(s) /\ c \in 1..Len(t) /\ s[c].caller \in 0..Len(s) /\ s[c].caller <= n
    BY <1>0
  <2>2. Up(t, s[c].caller) = Up(s, s[c].caller)
    BY <1>3, <2>1
  <2>3. t[c].caller = s[c].caller
    BY <1>0, <2>1
  <2>4. Up(t, c) = {c} \cup Up(t, s[c].caller)
    BY <1>1, <2>1, <2>3
  <2>. QED BY <1>1, <2>1, <2>2, <2>4
<1>4. Nat \subseteq T
  <2>. HIDE DEF T
  <2>. QED BY <1>2, <1>3, NaturalInduction
<1>. SUFFICES ASSUME NEW c \in 0..Len(s) PROVE Up(t, c) = Up(s, c)
  OBVIOUS
<1>5. c \in T /\ c <= c
  BY <1>0, <1>4
<1>. QED BY <1>5
-----------------------------------------------------------------------------
(* The points that control can come back to: by returning, by resuming, by
   leaving C code, by unwinding to a caller, and by jumping to a C handler.
   Each has its context, the exceptions that its callers handle, the depth of
   the C stack, and a number that no context it can come back to exceeds. *)
Points == [ctx : Nat, marks : [Nat -> Nat], depth : Nat, time : Nat]

Loop(st, i) == st[i].kind = "runops"
Back(x) == IF x.before[2] THEN x.before[1] ELSE 0
PendingIn(x, st) == \E i \in 1..Len(st) : st[i].kind = "phasers" /\ x \in ToSet(st[i].caught)

Agrees(q, m) == \A a \in 1..q.time : q.marks[a] = m[a]
Shows(q, u, m, d) == q.ctx = u /\ q.depth = d /\ Agrees(q, m)

Marked(x, a, s, e, st) ==
  x \in DOMAIN e /\ e[x].context = a /\ e[x].handler = s[a].runloop /\ ~PendingIn(x, st)

Placed(k, s, e, st) ==
  /\ k.ctx \in 1..Len(s) /\ k.ctx <= k.time /\ k.time <= Len(s) /\ k.depth \in 1..Len(st)
  /\ Loop(st, k.depth) => k.marks[k.ctx] # 0 \/ s[k.ctx].runloop = st[k.depth].id
  /\ ~Loop(st, k.depth) => st[k.depth].ctx = k.ctx
  /\ \A j \in 1..k.depth : ~Loop(st, j) => st[j].ctx \in Up(s, k.ctx) /\ (st[j].ctx < k.ctx \/ j = k.depth)
  /\ \A a \in Up(s, k.ctx) : k.marks[a] # 0 => Marked(k.marks[a], a, s, e, st)

Returns(k, K, s, st) ==
  Loop(st, k.depth) /\ k.ctx # 1 /\ (k.marks[k.ctx] = 0 \/ s[k.ctx].runloop = st[k.depth].id) =>
    \E q \in K : /\ Shows(q, s[k.ctx].caller, k.marks, IF s[k.ctx].entry THEN k.depth - 1 ELSE k.depth)
                 /\ q.time < k.ctx

Resumable(x) == x.handled = 0 /\ x.resume # 0
Resumes(k, K, s, e, st) ==
  k.marks[k.ctx] # 0 /\ Loop(st, k.depth) /\ Resumable(e[k.marks[k.ctx]]) =>
    \E q \in K : /\ Shows(q, e[k.marks[k.ctx]].resume,
                          [k.marks EXCEPT ![k.ctx] = Back(e[k.marks[k.ctx]])], k.depth)
                 /\ q.time <= k.time

Leaves(k, K, s, st) ==
  ~Loop(st, k.depth) => \E q \in K : Shows(q, k.ctx, k.marks, k.depth - 1) /\ q.time <= k.time

Catches(k, K, s, st) ==
  \A j \in 1..k.depth : ~Loop(st, j) =>
    \E q \in K : /\ Shows(q, st[j].ctx, k.marks, j) /\ q.time <= k.time
                 /\ \A b \in Up(s, k.ctx) : b > st[j].ctx => q.time < b

Unwound(q, c, k, s, st) ==
  /\ q.ctx = c /\ q.depth <= k.depth /\ q.time <= c
  /\ Loop(st, q.depth) /\ st[q.depth].id = s[c].runloop
  /\ Agrees(q, [k.marks EXCEPT ![c] = 0])
  /\ \A j \in 1..k.depth : ~Loop(st, j) /\ st[j].ctx < c => j < q.depth
Unwinds(k, K, s, st) == \A c \in Up(s, k.ctx) : \E q \in K : Unwound(q, c, k, s, st)

Sound(K, s, e, st) ==
  /\ K \subseteq Points
  /\ \A k \in K : /\ Placed(k, s, e, st) /\ Returns(k, K, s, st) /\ Resumes(k, K, s, e, st)
                  /\ Leaves(k, K, s, st) /\ Catches(k, K, s, st) /\ Unwinds(k, K, s, st)

(* Frames that mean the same to a point. *)
Alike(f, g) == /\ f.kind = "runops" <=> g.kind = "runops"
               /\ f.kind = "runops" => g.id = f.id
               /\ f.kind # "runops" => g.ctx = f.ctx

(* An exception that is handled stays as it is, or is not resumed any more. *)
StaysHandled(x, e, f, r) ==
  /\ x \in DOMAIN f /\ f[x].context = e[x].context /\ f[x].handler = e[x].handler /\ ~PendingIn(x, r)
  /\ Resumable(f[x]) => Resumable(e[x]) /\ f[x].resume = e[x].resume /\ f[x].before = e[x].before

(* Agreement is with what is handled up to a time. *)
LEMMA AgreesToo ==
  ASSUME NEW m \in [Nat -> Nat], NEW m2 \in [Nat -> Nat], NEW n \in Nat, \A a \in 1..n : m[a] = m2[a],
         NEW q, q.time \in Nat, q.time <= n
  PROVE  /\ Agrees(q, m) => Agrees(q, m2)
         /\ \A c, v : Agrees(q, [m EXCEPT ![c] = v]) => Agrees(q, [m2 EXCEPT ![c] = v])
<1>1. \A a \in 1..q.time : a \in 1..n /\ a \in Nat
  OBVIOUS
<1>2. \A a \in 1..q.time : m[a] = m2[a]
  BY <1>1
<1>3. \A c, v : \A a \in 1..q.time : [m EXCEPT ![c] = v][a] = [m2 EXCEPT ![c] = v][a]
  BY <1>1, <1>2
<1>. QED BY <1>2, <1>3 DEF Agrees

(* Points that are not too deep and not too late stay points. *)
Upto(K, d, n) == {k \in K : k.depth <= d /\ k.time <= n}

LEMMA PointsStay ==
  ASSUME NEW K, NEW s, NEW e, NEW st, Sound(K, s, e, st),
         NEW t, NEW f, NEW r, Same(s, t), NEW d \in Nat, NEW n \in Nat,
         Len(st) \in Nat, Len(r) \in Nat, d <= Len(r), \A i \in 1..d : Alike(st[i], r[i]),
         \A k \in Upto(K, d, n) : \A a \in Up(s, k.ctx) :
            k.marks[a] # 0 => StaysHandled(k.marks[a], e, f, r)
  PROVE  Sound(Upto(K, d, n), t, f, r)
<1>. DEFINE K2 == Upto(K, d, n)
<1>1. K2 \subseteq K /\ K \subseteq Points /\ \A k \in K2 : k.depth <= d /\ k.time <= n
  BY DEF Upto, Sound
<1>2. \A q \in K : q.depth <= d /\ q.time <= n => q \in K2
  BY DEF Upto
<1>. SUFFICES ASSUME NEW k \in K2
              PROVE  /\ Placed(k, t, f, r) /\ Returns(k, K2, t, r) /\ Resumes(k, K2, t, f, r)
                     /\ Leaves(k, K2, t, r) /\ Catches(k, K2, t, r) /\ Unwinds(k, K2, t, r)
  BY <1>1 DEF Sound
<1>. HIDE DEF K2
<1>3. /\ k.ctx \in Nat /\ k.depth \in Nat /\ k.time \in Nat
      /\ k.depth <= d /\ k.time <= n /\ \A q \in K : q.depth \in Nat /\ q.time \in Nat /\ q.ctx \in Nat
  BY <1>1 DEF Points
<1>earlier. ASSUME NEW q \in K, q.depth <= k.depth, q.time <= k.time PROVE q \in K2
  <2>1. q.depth <= d /\ q.time <= n
    <3>1. q.depth \in Nat /\ q.time \in Nat
      BY <1>3
    <3>. QED BY <1>3, <1>earlier, <3>1
  <2>. QED BY <1>2, <2>1
<1>4. /\ Placed(k, s, e, st) /\ Returns(k, K, s, st) /\ Resumes(k, K, s, e, st)
      /\ Leaves(k, K, s, st) /\ Catches(k, K, s, st) /\ Unwinds(k, K, s, st)
  BY <1>1 DEF Sound
<1>5. /\ k.ctx \in 1..Len(s) /\ k.ctx <= k.time /\ k.time <= Len(s) /\ k.depth \in 1..Len(st)
  BY <1>4 DEF Placed
<1>6. /\ Len(s) \in Nat /\ Len(t) \in Nat /\ Len(s) <= Len(t)
      /\ \A c \in 1..Len(s) : /\ t[c].caller = s[c].caller /\ t[c].entry = s[c].entry /\ t[c].runloop = s[c].runloop
                              /\ s[c].caller \in 0..Len(s)
  BY CallsFields DEF Same
<1>7. \A c \in 0..Len(s) : Up(t, c) = Up(s, c)
  BY UpSame
<1>8. \A c \in 0..Len(s) : Up(s, c) \subseteq 1..c
  BY UpBelow DEF Same
<1>9. \A i \in 1..d : /\ Loop(r, i) <=> Loop(st, i)
                      /\ Loop(st, i) => r[i].id = st[i].id
                      /\ ~Loop(st, i) => r[i].ctx = st[i].ctx
  BY DEF Alike, Loop
<1>10. k.ctx \in 0..Len(s) /\ Up(t, k.ctx) = Up(s, k.ctx) /\ k.depth \in 1..d
  <2>1. k.ctx \in 0..Len(s) /\ k.depth \in 1..d
    <3>1. Len(s) \in Nat /\ k.ctx \in Nat /\ k.depth \in Nat /\ k.depth <= d
      BY <1>3, <1>6
    <3>. QED BY <1>5, <3>1
  <2>. QED BY <1>7, <2>1
<1>11. \A a \in Up(s, k.ctx) : a \in 1..Len(s) /\ a <= k.ctx
  BY <1>5, <1>6, <1>8, <1>10
<1>12. k.ctx \in Up(s, k.ctx)
  <2>1. Up(s, k.ctx) = {k.ctx} \cup Up(s, s[k.ctx].caller)
    BY <1>5, UpIs DEF Same
  <2>. QED BY <2>1
<1>13. Placed(k, t, f, r)
  <2>1. \A a \in Up(s, k.ctx) : k.marks[a] # 0 => Marked(k.marks[a], a, t, f, r)
    <3>. SUFFICES ASSUME NEW a \in Up(s, k.ctx), k.marks[a] # 0 PROVE Marked(k.marks[a], a, t, f, r)
      OBVIOUS
    <3>1. Marked(k.marks[a], a, s, e, st)
      BY <1>4 DEF Placed
    <3>2. StaysHandled(k.marks[a], e, f, r)
      BY DEF K2
    <3>. QED BY <1>6, <1>11, <3>1, <3>2 DEF Marked, StaysHandled
  <2>2. \A j \in 1..k.depth : ~Loop(r, j) => r[j].ctx \in Up(s, k.ctx) /\ (r[j].ctx < k.ctx \/ j = k.depth)
    <3>1. \A j \in 1..k.depth : j \in 1..d
      BY <1>3
    <3>. QED BY <1>4, <1>9, <3>1 DEF Placed
  <2>3. k.ctx \in 1..Len(t) /\ k.time <= Len(t) /\ k.depth \in 1..Len(r)
    <3>1. Len(s) \in Nat /\ Len(t) \in Nat /\ Len(s) <= Len(t) /\ k.time \in Nat
      BY <1>3, <1>6
    <3>. QED BY <1>5, <1>10, <3>1
  <2>4. /\ Loop(r, k.depth) => k.marks[k.ctx] # 0 \/ t[k.ctx].runloop = r[k.depth].id
        /\ ~Loop(r, k.depth) => r[k.depth].ctx = k.ctx
    BY <1>4, <1>5, <1>6, <1>9, <1>10 DEF Placed
  <2>. QED BY <1>5, <1>10, <2>1, <2>2, <2>3, <2>4 DEF Placed
<1>14. Returns(k, K2, t, r)
  <2>. SUFFICES ASSUME Loop(r, k.depth), k.ctx # 1, k.marks[k.ctx] = 0 \/ t[k.ctx].runloop = r[k.depth].id
                PROVE  \E q \in K2 :
                         /\ Shows(q, t[k.ctx].caller, k.marks, IF t[k.ctx].entry THEN k.depth - 1 ELSE k.depth)
                         /\ q.time < k.ctx
    BY DEF Returns
  <2>1. PICK q \in K : /\ Shows(q, s[k.ctx].caller, k.marks, IF s[k.ctx].entry THEN k.depth - 1 ELSE k.depth)
                       /\ q.time < k.ctx
    BY <1>4, <1>5, <1>6, <1>9, <1>10 DEF Returns
  <2>2. q \in K2
    <3>1. q.depth <= k.depth
      BY <1>3, <2>1 DEF Shows
    <3>2. q.time <= k.time
      <4>1. q.time \in Nat /\ k.time \in Nat /\ k.ctx \in Nat
        BY <1>3
      <4>. QED BY <1>5, <2>1, <4>1
    <3>. QED BY <1>earlier, <3>1, <3>2
  <2>3. Up(t, s[k.ctx].caller) = Up(s, s[k.ctx].caller)
    BY <1>5, <1>6, <1>7
  <2>. QED BY <1>5, <1>6, <2>1, <2>2, <2>3 DEF Shows
<1>15. Resumes(k, K2, t, f, r)
  <2>. DEFINE x == k.marks[k.ctx]
  <2>. SUFFICES ASSUME x # 0, Loop(r, k.depth), Resumable(f[x])
                PROVE  \E q \in K2 :
                         /\ Shows(q, f[x].resume, [k.marks EXCEPT ![k.ctx] = Back(f[x])], k.depth)
                         /\ q.time <= k.time
    BY DEF Resumes
  <2>0. StaysHandled(x, e, f, r)
    BY <1>12 DEF K2
  <2>1. /\ Resumable(e[x]) /\ f[x].resume = e[x].resume /\ Back(f[x]) = Back(e[x])
    BY <2>0 DEF StaysHandled, Back
  <2>2. PICK q \in K : /\ Shows(q, e[x].resume, [k.marks EXCEPT ![k.ctx] = Back(e[x])], k.depth)
                       /\ q.time <= k.time
    BY <1>4, <1>9, <1>10, <2>1 DEF Resumes
  <2>3. q \in K2
    <3>1. q.depth <= k.depth
      BY <1>3, <2>2 DEF Shows
    <3>. QED BY <1>earlier, <2>2, <3>1
  <2>4. q.ctx = e[x].resume /\ q.ctx \in 0..Len(s)
    <3>1. q.ctx \in 1..Len(s)
      BY DEF Sound, Placed
    <3>. QED BY <1>6, <2>2, <3>1 DEF Shows
  <2>5. Up(t, f[x].resume) = Up(s, e[x].resume)
    BY <1>7, <2>1, <2>4
  <2>. HIDE DEF x
  <2>. QED BY <2>1, <2>2, <2>3, <2>5 DEF Shows
<1>16. Leaves(k, K2, t, r)
  <2>. SUFFICES ASSUME ~Loop(r, k.depth)
                PROVE  \E q \in K2 : Shows(q, k.ctx, k.marks, k.depth - 1) /\ q.time <= k.time
    BY DEF Leaves
  <2>1. PICK q \in K : Shows(q, k.ctx, k.marks, k.depth - 1) /\ q.time <= k.time
    BY <1>4, <1>9, <1>10 DEF Leaves
  <2>2. q \in K2
    <3>1. q.depth <= k.depth
      BY <1>3, <2>1 DEF Shows
    <3>. QED BY <1>earlier, <2>1, <3>1
  <2>. QED BY <1>10, <2>1, <2>2 DEF Shows
<1>17. Catches(k, K2, t, r)
  <2>. SUFFICES ASSUME NEW j \in 1..k.depth, ~Loop(r, j)
                PROVE  \E q \in K2 : /\ Shows(q, r[j].ctx, k.marks, j) /\ q.time <= k.time
                                     /\ \A b \in Up(t, k.ctx) : b > r[j].ctx => q.time < b
    BY DEF Catches
  <2>1. j \in 1..d /\ ~Loop(st, j) /\ r[j].ctx = st[j].ctx /\ j <= d
    BY <1>3, <1>9
  <2>2. PICK q \in K : /\ Shows(q, st[j].ctx, k.marks, j) /\ q.time <= k.time
                       /\ \A b \in Up(s, k.ctx) : b > st[j].ctx => q.time < b
    BY <1>4, <2>1 DEF Catches
  <2>3. q \in K2
    <3>1. q.depth <= k.depth
      BY <1>3, <2>2 DEF Shows
    <3>. QED BY <1>earlier, <2>2, <3>1
  <2>4. st[j].ctx \in Up(s, k.ctx)
    BY <1>4, <2>1 DEF Placed
  <2>5. Up(t, st[j].ctx) = Up(s, st[j].ctx)
    BY <1>6, <1>7, <1>11, <2>4
  <2>. QED BY <1>10, <2>1, <2>2, <2>3, <2>5 DEF Shows
<1>18. Unwinds(k, K2, t, r)
  <2>. SUFFICES ASSUME NEW c \in Up(s, k.ctx) PROVE \E q \in K2 : Unwound(q, c, k, t, r)
    BY <1>10 DEF Unwinds
  <2>1. PICK q \in K : Unwound(q, c, k, s, st)
    BY <1>4 DEF Unwinds
  <2>2. c \in 1..Len(s) /\ c <= k.ctx /\ Up(t, c) = Up(s, c) /\ t[c].runloop = s[c].runloop
    BY <1>6, <1>7, <1>11
  <2>3. q.depth <= k.depth /\ q.time <= c
    BY <2>1 DEF Unwound
  <2>4. q \in K2
    <3>1. q.time \in Nat /\ k.time \in Nat /\ k.ctx \in Nat
      BY <1>3
    <3>2. q.time <= k.time
      BY <1>5, <2>2, <2>3, <3>1
    <3>. QED BY <1>earlier, <2>3, <3>2
  <2>5. q.depth \in 1..d
    <3>1. q.depth >= 1
      BY <1>1, <2>1 DEF Sound, Placed
    <3>. QED BY <1>3, <2>3, <3>1
  <2>6. \A j \in 1..k.depth : ~Loop(r, j) /\ r[j].ctx < c => j < q.depth
    <3>1. \A j \in 1..k.depth : j \in 1..d
      BY <1>3
    <3>. QED BY <1>9, <2>1, <3>1 DEF Unwound
  <2>7. Loop(r, q.depth) /\ r[q.depth].id = t[c].runloop
    BY <1>9, <2>1, <2>2, <2>5 DEF Unwound
  <2>8. Unwound(q, c, k, t, r)
    BY <2>1, <2>2, <2>3, <2>6, <2>7 DEF Unwound
  <2>. QED BY <2>4, <2>8
<1>. QED BY <1>13, <1>14, <1>15, <1>16, <1>17, <1>18

(* A point is added to others that it comes back to. *)
LEMMA PointAdded ==
  ASSUME NEW K, NEW s, NEW e, NEW st, Sound(K, s, e, st),
         NEW k \in Points, Placed(k, s, e, st),
         Returns(k, K \cup {k}, s, st), Resumes(k, K \cup {k}, s, e, st), Leaves(k, K \cup {k}, s, st),
         Catches(k, K \cup {k}, s, st), Unwinds(k, K \cup {k}, s, st)
  PROVE  Sound(K \cup {k}, s, e, st)
<1>. DEFINE K2 == K \cup {k}
<1>. SUFFICES ASSUME NEW p \in K
              PROVE  /\ Placed(p, s, e, st) /\ Returns(p, K2, s, st) /\ Resumes(p, K2, s, e, st)
                     /\ Leaves(p, K2, s, st) /\ Catches(p, K2, s, st) /\ Unwinds(p, K2, s, st)
  BY DEF Sound
<1>1. /\ Placed(p, s, e, st) /\ Returns(p, K, s, st) /\ Resumes(p, K, s, e, st)
      /\ Leaves(p, K, s, st) /\ Catches(p, K, s, st) /\ Unwinds(p, K, s, st)
  BY DEF Sound
<1>2. K \subseteq K2
  OBVIOUS
<1>. HIDE DEF K2
<1>3. Returns(p, K2, s, st)
  BY <1>1, <1>2 DEF Returns
<1>4. Resumes(p, K2, s, e, st)
  BY <1>1, <1>2 DEF Resumes
<1>5. Leaves(p, K2, s, st)
  BY <1>1, <1>2 DEF Leaves
<1>6. Catches(p, K2, s, st)
  BY <1>1, <1>2 DEF Catches
<1>7. Unwinds(p, K2, s, st)
  BY <1>1, <1>2 DEF Unwinds
<1>. QED BY <1>1, <1>3, <1>4, <1>5, <1>6, <1>7

(* Points in which nothing is handled: those that control comes back to are
   of the same kind, whatever the exceptions are. *)
Unmarked(K, s) == {k \in K : \A a \in Up(s, k.ctx) : k.marks[a] = 0}

LEMMA UnmarkedStay ==
  ASSUME NEW K, NEW s, NEW e, NEW st, Sound(K, s, e, st), Calls(s), NEW f
  PROVE  Sound(Unmarked(K, s), s, f, st)
<1>. DEFINE K2 == Unmarked(K, s)
<1>1. K2 \subseteq K /\ K \subseteq Points /\ \A k \in K2 : \A a \in Up(s, k.ctx) : k.marks[a] = 0
  BY DEF Unmarked, Sound
<1>2. \A q \in K : (\A a \in Up(s, q.ctx) : q.marks[a] = 0) => q \in K2
  BY DEF Unmarked
<1>. SUFFICES ASSUME NEW k \in K2
              PROVE  /\ Placed(k, s, f, st) /\ Returns(k, K2, s, st) /\ Resumes(k, K2, s, f, st)
                     /\ Leaves(k, K2, s, st) /\ Catches(k, K2, s, st) /\ Unwinds(k, K2, s, st)
  BY <1>1 DEF Sound
<1>. HIDE DEF K2
<1>3. /\ Placed(k, s, e, st) /\ Returns(k, K, s, st)
      /\ Leaves(k, K, s, st) /\ Catches(k, K, s, st) /\ Unwinds(k, K, s, st)
  BY <1>1 DEF Sound
<1>4. k.ctx \in 1..Len(s) /\ k.ctx \in 0..Len(s) /\ Len(s) \in Nat /\ s[k.ctx].caller \in 0..Len(s)
  <2>1. k.ctx \in 1..Len(s) /\ Len(s) \in Nat
    BY <1>3, CallsFields DEF Placed
  <2>2. s[k.ctx].caller \in 0..Len(s)
    BY <2>1, CallsFields
  <2>. QED BY <2>1, <2>2
<1>5. Up(s, k.ctx) = {k.ctx} \cup Up(s, s[k.ctx].caller)
  BY <1>4, UpIs
<1>6. \A d \in Up(s, k.ctx) : Up(s, d) \subseteq Up(s, k.ctx)
  BY <1>4, UpBelow
<1>7. \A a \in Up(s, k.ctx) : k.marks[a] = 0
  BY <1>1
<1>8. Placed(k, s, f, st)
  BY <1>3, <1>7 DEF Placed
<1>early. ASSUME NEW q \in K, NEW m, Agrees(q, m), \A a \in Up(s, k.ctx) : m[a] = 0, q.ctx \in Up(s, k.ctx)
          PROVE  q \in K2
  <2>1. q.ctx \in 1..Len(s) /\ q.ctx <= q.time /\ q.time \in Nat
    BY DEF Sound, Placed, Points
  <2>2. q.ctx \in 0..Len(s) /\ q.ctx \in Nat
    BY <1>4, <2>1
  <2>3. Up(s, q.ctx) \subseteq 1..q.ctx /\ Up(s, q.ctx) \subseteq Up(s, k.ctx)
    BY <1>6, <1>early, <2>2, UpBelow
  <2>4. \A a \in Up(s, q.ctx) : a \in 1..q.time
    BY <2>1, <2>2, <2>3
  <2>5. \A a \in Up(s, q.ctx) : q.marks[a] = 0
    BY <1>early, <2>3, <2>4 DEF Agrees
  <2>. QED BY <1>2, <2>5
<1>here. k.ctx \in Up(s, k.ctx) /\ (k.ctx # 1 => s[k.ctx].caller \in Up(s, k.ctx))
  <2>1. ASSUME k.ctx # 1 PROVE s[k.ctx].caller \in Up(s, s[k.ctx].caller)
    <3>1. s[k.ctx].caller \in 1..Len(s)
      BY <1>4, <2>1, CallsFields
    <3>. QED BY <3>1, UpIs
  <2>. QED BY <1>5, <2>1
<1>9. Returns(k, K2, s, st)
  BY <1>3, <1>7, <1>early, <1>here DEF Returns, Shows
<1>10. Resumes(k, K2, s, f, st)
  BY <1>5, <1>7 DEF Resumes
<1>11. Leaves(k, K2, s, st)
  BY <1>3, <1>7, <1>early, <1>here DEF Leaves, Shows
<1>12. Catches(k, K2, s, st)
  <2>. SUFFICES ASSUME NEW j \in 1..k.depth, ~Loop(st, j)
                PROVE  \E q \in K2 : /\ Shows(q, st[j].ctx, k.marks, j) /\ q.time <= k.time
                                     /\ \A b \in Up(s, k.ctx) : b > st[j].ctx => q.time < b
    BY DEF Catches
  <2>1. PICK q \in K : /\ Shows(q, st[j].ctx, k.marks, j) /\ q.time <= k.time
                       /\ \A b \in Up(s, k.ctx) : b > st[j].ctx => q.time < b
    BY <1>3 DEF Catches
  <2>2. st[j].ctx \in Up(s, k.ctx)
    BY <1>3 DEF Placed
  <2>3. q \in K2
    BY <1>7, <1>early, <2>1, <2>2 DEF Shows
  <2>. QED BY <2>1, <2>3
<1>13. Unwinds(k, K2, s, st)
  <2>. SUFFICES ASSUME NEW c \in Up(s, k.ctx) PROVE \E q \in K2 : Unwound(q, c, k, s, st)
    BY DEF Unwinds
  <2>1. PICK q \in K : Unwound(q, c, k, s, st)
    BY <1>3 DEF Unwinds
  <2>2. q \in K2
    <3>1. Agrees(q, [k.marks EXCEPT ![c] = 0]) /\ q.ctx = c
      BY <2>1 DEF Unwound
    <3>2. \A a \in Up(s, k.ctx) : a \in Nat
      BY <1>4, UpBelow
    <3>3. k.marks \in [Nat -> Nat]
      BY <1>1 DEF Points
    <3>4. \A a \in Up(s, k.ctx) : [k.marks EXCEPT ![c] = 0][a] = 0
      BY <1>7, <3>2, <3>3
    <3>. QED BY <1>early, <3>1, <3>4
  <2>. QED BY <2>1, <2>2
<1>. QED BY <1>8, <1>9, <1>10, <1>11, <1>12, <1>13

(* A handler that control unwinds to, in the innermost runloop: the point at
   which the exception was thrown is one that it comes back to, if it may be
   resumed. *)
Invokes(k, c, x, K, s, e, st) ==
  /\ k \in Points /\ k.depth \in 1..Len(st) /\ Loop(st, k.depth) /\ c \in 1..Len(s)
  /\ c <= k.time /\ k.time <= Len(s)
  /\ x \in Nat /\ x # 0 /\ Marked(x, c, s, e, st)
  /\ \A j \in 1..k.depth : ~Loop(st, j) => st[j].ctx \in Up(s, c) /\ st[j].ctx < c
  /\ \A a \in Up(s, c) : a # c /\ k.marks[a] # 0 => Marked(k.marks[a], a, s, e, st)
  /\ \A a \in Up(s, c) : \E q \in K : Unwound(q, a, k, s, st)
  /\ \A j \in 1..k.depth : ~Loop(st, j) =>
       \E q \in K : Shows(q, st[j].ctx, k.marks, j) /\ \A b \in Up(s, c) : b > st[j].ctx => q.time < b
  /\ Resumable(e[x]) => k \in K /\ e[x].resume = k.ctx /\ Back(e[x]) = k.marks[c]

LoopsApart(st) ==
  /\ \A i \in 1..Len(st) : Loop(st, i) => st[i].id \in Nat
  /\ \A i, j \in 1..Len(st) : Loop(st, i) /\ Loop(st, j) /\ i < j => st[i].id < st[j].id

LEMMA HandlerRuns ==
  ASSUME NEW K, NEW s, NEW e, NEW st, Sound(K, s, e, st), Calls(s), Len(st) \in Nat, LoopsApart(st),
         NEW k, NEW c, NEW x, Invokes(k, c, x, K, s, e, st)
  PROVE  Sound(K \cup {[k EXCEPT !.ctx = c, !.marks = [@ EXCEPT ![c] = x]]}, s, e, st)
<1>. DEFINE p == [k EXCEPT !.ctx = c, !.marks = [@ EXCEPT ![c] = x]]
<1>1. /\ Len(s) \in Nat /\ k.depth \in 1..Len(st) /\ k.depth \in Nat /\ k.time \in Nat
      /\ c \in 1..Len(s) /\ c \in 0..Len(s) /\ c \in Nat /\ c <= k.time /\ k.time <= Len(s)
  <2>1. Len(s) \in Nat
    BY CallsFields
  <2>2. k.depth \in 1..Len(st) /\ c \in 1..Len(s) /\ c <= k.time /\ k.time <= Len(s)
    BY DEF Invokes
  <2>3. k.time \in Nat /\ k.depth \in Nat
    BY DEF Points, Invokes
  <2>. QED BY <2>1, <2>2, <2>3
<1>marks. k.marks \in [Nat -> Nat]
  BY DEF Points, Invokes
<1>3. /\ Up(s, c) \subseteq 1..c /\ Up(s, c) = {c} \cup Up(s, s[c].caller)
      /\ s[c].caller \in 0..Len(s) /\ s[c].caller < c
  <2>1. s[c].caller \in 0..Len(s) /\ s[c].caller < c
    BY <1>1, CallsFields
  <2>2. Up(s, c) \subseteq 1..c
    BY <1>1, UpBelow
  <2>. QED BY <1>1, <2>1, <2>2, UpIs
<1>4. /\ p \in Points /\ p.ctx = c /\ p.depth = k.depth /\ p.time = k.time /\ p.marks = [k.marks EXCEPT ![c] = x]
  BY <1>1, <1>marks DEF Points, Invokes
<1>. HIDE DEF p
<1>same. p.marks[c] = x /\ \A a \in Nat : a # c => p.marks[a] = k.marks[a]
  BY <1>1, <1>4, <1>marks
<1>here. \A a \in Nat : a # c => [k.marks EXCEPT ![c] = 0][a] = k.marks[a]
  BY <1>1, <1>marks
<1>5. Placed(p, s, e, st)
  <2>1. \A a \in Up(s, c) : p.marks[a] # 0 => Marked(p.marks[a], a, s, e, st)
    <3>. SUFFICES ASSUME NEW a \in Up(s, c), p.marks[a] # 0 PROVE Marked(p.marks[a], a, s, e, st)
      OBVIOUS
    <3>1. CASE a = c
      BY <1>same, <3>1 DEF Invokes
    <3>2. CASE a # c
      <4>1. p.marks[a] = k.marks[a]
        BY <1>3, <1>same, <3>2
      <4>. QED BY <3>2, <4>1 DEF Invokes
    <3>. QED BY <3>1, <3>2
  <2>4. Loop(st, p.depth) /\ p.marks[p.ctx] # 0
    BY <1>4, <1>same DEF Invokes
  <2>5. \A j \in 1..k.depth : ~Loop(st, j) => st[j].ctx \in Up(s, c) /\ st[j].ctx < c
    BY DEF Invokes
  <2>. QED BY <1>1, <1>4, <2>1, <2>4, <2>5 DEF Placed
<1>6. PICK home \in K : Unwound(home, c, k, s, st)
  <2>1. c \in Up(s, c)
    BY <1>3
  <2>. QED BY <2>1 DEF Invokes
<1>7. /\ Placed(home, s, e, st) /\ Returns(home, K, s, st)
      /\ home.ctx = c /\ home.depth <= k.depth /\ home.time <= c /\ home.time = c /\ Loop(st, home.depth)
      /\ st[home.depth].id = s[c].runloop /\ Agrees(home, [k.marks EXCEPT ![c] = 0])
  <2>1. /\ Placed(home, s, e, st) /\ Returns(home, K, s, st)
        /\ home.ctx = c /\ home.depth <= k.depth /\ home.time <= c /\ Loop(st, home.depth)
        /\ st[home.depth].id = s[c].runloop /\ Agrees(home, [k.marks EXCEPT ![c] = 0])
    BY <1>6 DEF Sound, Unwound
  <2>2. home.time \in Nat /\ home.ctx <= home.time
    BY <2>1 DEF Sound, Points, Placed
  <2>3. home.time = c
    BY <1>1, <2>1, <2>2
  <2>. QED BY <2>1, <2>3
<1>8. Returns(p, K \cup {p}, s, st)
  <2>. SUFFICES ASSUME c # 1, s[c].runloop = st[k.depth].id
                PROVE  \E q \in K : /\ Shows(q, s[c].caller, p.marks, IF s[c].entry THEN k.depth - 1 ELSE k.depth)
                                    /\ q.time < c
    <3>1. x # 0
      BY DEF Invokes
    <3>. QED BY <1>4, <1>same, <3>1 DEF Returns
  <2>1. home.depth = k.depth
    <3>1. home.depth \in 1..k.depth /\ k.depth \in 1..k.depth
      <4>1. home.depth \in 1..Len(st) /\ home.depth <= k.depth
        BY <1>7 DEF Placed
      <4>. QED BY <1>1, <4>1
    <3>2. Loop(st, home.depth) /\ Loop(st, k.depth) /\ st[home.depth].id = st[k.depth].id
      BY <1>7 DEF Invokes
    <3>3. home.depth \in 1..Len(st) /\ k.depth \in 1..Len(st)
      BY <1>1, <3>1
    <3>4. home.depth < k.depth => st[home.depth].id < st[k.depth].id
      BY <3>2, <3>3 DEF LoopsApart
    <3>5. ~(st[home.depth].id < st[k.depth].id)
      <4>1. st[home.depth].id \in Nat
        BY <3>2, <3>3 DEF LoopsApart
      <4>. QED BY <3>2, <4>1
    <3>6. home.depth \in Nat /\ home.depth <= k.depth
      BY <1>1, <1>7, <3>1
    <3>. QED BY <1>1, <3>4, <3>5, <3>6
  <2>2. home.marks[c] = 0
    <3>1. c \in 1..home.time
      BY <1>1, <1>7
    <3>2. [k.marks EXCEPT ![c] = 0][c] = 0
      BY <1>1, <1>marks
    <3>. QED BY <1>7, <3>1, <3>2 DEF Agrees
  <2>3. PICK q \in K : /\ Shows(q, s[c].caller, home.marks, IF s[c].entry THEN home.depth - 1 ELSE home.depth)
                       /\ q.time < c
    BY <1>7, <2>2 DEF Returns
  <2>4. \A a \in 1..q.time : home.marks[a] = p.marks[a]
    <3>. SUFFICES ASSUME NEW a \in 1..q.time PROVE home.marks[a] = p.marks[a]
      OBVIOUS
    <3>1. q.time \in Nat
      BY DEF Sound, Points
    <3>2. a \in 1..home.time /\ a # c /\ a \in Nat
      BY <1>1, <1>7, <2>3, <3>1
    <3>. QED BY <1>7, <1>same, <1>here, <3>2 DEF Agrees
  <2>. QED BY <2>1, <2>3, <2>4 DEF Shows, Agrees
<1>9. Resumes(p, K \cup {p}, s, e, st)
  <2>. SUFFICES ASSUME Resumable(e[x])
                PROVE  /\ Shows(k, e[x].resume, [p.marks EXCEPT ![c] = Back(e[x])], k.depth)
                       /\ k \in K /\ k.time <= p.time
    BY <1>4, <1>same DEF Resumes
  <2>1. k \in K /\ e[x].resume = k.ctx /\ Back(e[x]) = k.marks[c]
    BY DEF Invokes
  <2>2. [p.marks EXCEPT ![c] = Back(e[x])] = k.marks
    BY <1>1, <1>4, <1>marks, <2>1
  <2>3. k.time <= p.time
    BY <1>1, <1>4
  <2>. QED BY <2>1, <2>2, <2>3 DEF Shows, Agrees
<1>10. Leaves(p, K \cup {p}, s, st)
  BY <1>4 DEF Leaves, Invokes
<1>11. Catches(p, K \cup {p}, s, st)
  <2>. SUFFICES ASSUME NEW j \in 1..k.depth, ~Loop(st, j)
                PROVE  \E q \in K : /\ Shows(q, st[j].ctx, p.marks, j) /\ q.time <= k.time
                                    /\ \A b \in Up(s, c) : b > st[j].ctx => q.time < b
    BY <1>4 DEF Catches
  <2>1. PICK q \in K : Shows(q, st[j].ctx, k.marks, j) /\ \A b \in Up(s, c) : b > st[j].ctx => q.time < b
    BY DEF Invokes
  <2>2. q.time < c /\ q.time \in Nat
    <3>1. st[j].ctx < c /\ c \in Up(s, c)
      BY <1>3 DEF Invokes
    <3>2. st[j].ctx \in 1..c /\ q.time \in Nat
      BY <1>3 DEF Invokes, Sound, Points
    <3>3. c > st[j].ctx
      BY <1>1, <3>1, <3>2
    <3>. QED BY <2>1, <3>1, <3>2, <3>3
  <2>3. q.time <= k.time
    BY <1>1, <2>2
  <2>4. \A a \in 1..q.time : k.marks[a] = p.marks[a]
    <3>1. \A a \in 1..q.time : a \in Nat /\ a # c
      BY <1>1, <2>2
    <3>. QED BY <1>same, <3>1
  <2>. QED BY <2>1, <2>3, <2>4 DEF Shows, Agrees
<1>12. Unwinds(p, K \cup {p}, s, st)
  <2>. SUFFICES ASSUME NEW a \in Up(s, c) PROVE \E q \in K : Unwound(q, a, p, s, st)
    BY <1>4 DEF Unwinds
  <2>1. PICK q \in K : Unwound(q, a, k, s, st)
    BY DEF Invokes
  <2>2. \A b \in 1..q.time : [k.marks EXCEPT ![a] = 0][b] = [p.marks EXCEPT ![a] = 0][b]
    <3>. SUFFICES ASSUME NEW b \in 1..q.time PROVE [k.marks EXCEPT ![a] = 0][b] = [p.marks EXCEPT ![a] = 0][b]
      OBVIOUS
    <3>1. q.time \in Nat /\ q.time <= a /\ a \in 1..c
      BY <1>3, <2>1 DEF Sound, Points, Unwound
    <3>2. a \in Nat /\ b \in Nat /\ (b # a => b # c)
      BY <1>1, <3>1
    <3>3. p.marks \in [Nat -> Nat]
      BY <1>4 DEF Points
    <3>4. b # a => p.marks[b] = k.marks[b]
      BY <1>same, <3>2
    <3>. QED BY <1>marks, <3>2, <3>3, <3>4
  <2>3. Agrees(q, [p.marks EXCEPT ![a] = 0])
    BY <2>1, <2>2 DEF Unwound, Agrees
  <2>. QED BY <1>4, <2>1, <2>3 DEF Unwound
<1>13. Sound(K \cup {p}, s, e, st)
  BY <1>4, <1>5, <1>8, <1>9, <1>10, <1>11, <1>12, PointAdded
<1>. QED BY <1>13 DEF p
-----------------------------------------------------------------------------
(* The runloops of the interpreter are those on the C stack. *)
HasLoop(st, i) == i \in 1..Len(st) /\ Loop(st, i)
Chain(st, ids, n) ==
  /\ st \in Seq(Frame) /\ ids \in Seq(Nat) /\ n \in Nat
  /\ HasLoop(st, 1) /\ st[1].id = 1 /\ LoopsApart(st)
  /\ \A i : HasLoop(st, i) => st[i].id \in 1..n /\ \E j \in 1..Len(ids) : ids[j] = st[i].id
  /\ \A j \in 1..Len(ids) : \E i : HasLoop(st, i) /\ st[i].id = ids[j]
  /\ \A i, j \in 1..Len(ids) : i < j => ids[i] < ids[j]

(* C code that catches does not count. *)
LEMMA ChainSame ==
  ASSUME NEW st, NEW ids, NEW n, Chain(st, ids, n), NEW r \in Seq(Frame),
         \A i : HasLoop(r, i) <=> HasLoop(st, i), \A i : HasLoop(st, i) => r[i].id = st[i].id
  PROVE  Chain(r, ids, n)
<1>1. HasLoop(r, 1) /\ r[1].id = 1
  BY DEF Chain
<1>2. LoopsApart(r)
  <2>1. ASSUME NEW i \in 1..Len(r), Loop(r, i) PROVE r[i].id \in Nat
    <3>1. HasLoop(st, i) /\ r[i].id = st[i].id
      BY <2>1 DEF HasLoop
    <3>. QED BY <3>1 DEF HasLoop, Chain, LoopsApart
  <2>2. ASSUME NEW i \in 1..Len(r), NEW j \in 1..Len(r), Loop(r, i), Loop(r, j), i < j PROVE r[i].id < r[j].id
    <3>1. HasLoop(st, i) /\ HasLoop(st, j) /\ r[i].id = st[i].id /\ r[j].id = st[j].id
      BY <2>2 DEF HasLoop
    <3>. QED BY <2>2, <3>1 DEF HasLoop, Chain, LoopsApart
  <2>. QED BY <2>1, <2>2 DEF LoopsApart
<1>3. \A i : HasLoop(r, i) => r[i].id \in 1..n /\ \E j \in 1..Len(ids) : ids[j] = r[i].id
  BY DEF Chain
<1>4. \A j \in 1..Len(ids) : \E i : HasLoop(r, i) /\ r[i].id = ids[j]
  BY DEF Chain
<1>. QED BY <1>1, <1>2, <1>3, <1>4 DEF Chain

(* The innermost runloop is the current one. *)
LEMMA ChainTop ==
  ASSUME NEW st, NEW ids, NEW n, Chain(st, ids, n), NEW d, HasLoop(st, d), \A i : HasLoop(st, i) => i <= d
  PROVE  Len(ids) \in Nat /\ Len(ids) # 0 /\ ids[Len(ids)] = st[d].id
<1>1. Len(ids) \in Nat /\ \A j \in 1..Len(ids) : ids[j] \in Nat
  BY LenProperties, ElementOfSeq DEF Chain
<1>2. PICK j \in 1..Len(ids) : ids[j] = st[d].id
  BY DEF Chain
<1>3. Len(ids) \in 1..Len(ids)
  BY <1>1
<1>4. PICK i : HasLoop(st, i) /\ st[i].id = ids[Len(ids)]
  BY <1>3 DEF Chain
<1>5. i \in 1..Len(st) /\ d \in 1..Len(st) /\ i <= d /\ Loop(st, i) /\ Loop(st, d)
  BY <1>4 DEF HasLoop
<1>6. j = Len(ids)
  <2>1. j < Len(ids) => ids[j] < ids[Len(ids)]
    BY <1>3 DEF Chain
  <2>2. i < d => st[i].id < st[d].id
    BY <1>5 DEF Chain, LoopsApart
  <2>3. i \in Nat /\ d \in Nat /\ (i = d => st[i].id = st[d].id)
    <3>1. Len(st) \in Nat
      BY LenProperties DEF Chain
    <3>. QED BY <1>5, <3>1
  <2>4. ids[j] \in Nat /\ ids[Len(ids)] \in Nat
    BY <1>1, <1>3
  <2>5. ids[Len(ids)] <= ids[j]
    BY <1>2, <1>4, <1>5, <2>2, <2>3, <2>4
  <2>. QED BY <1>1, <2>1, <2>4, <2>5
<1>. QED BY <1>1, <1>2, <1>6

(* The first runloops, up to one of them. *)
LEMMA ChainPrefix ==
  ASSUME NEW st, NEW ids, NEW n, Chain(st, ids, n), NEW r \in Seq(Frame), NEW m \in 1..Len(ids),
         \A i : HasLoop(r, i) <=> HasLoop(st, i) /\ st[i].id <= ids[m],
         \A i : HasLoop(r, i) => r[i].id = st[i].id
  PROVE  Chain(r, SubSeq(ids, 1, m), n)
<1>. DEFINE js == SubSeq(ids, 1, m)
<1>1. Len(ids) \in Nat /\ \A j \in 1..Len(ids) : ids[j] \in Nat
  BY LenProperties, ElementOfSeq DEF Chain
<1>2. js \in Seq(Nat) /\ Len(js) = m /\ \A j \in 1..m : js[j] = ids[j] /\ j \in 1..Len(ids)
  <2>1. 1 \in Int /\ m \in Int /\ 1 <= m /\ \A j \in 1..m : ids[j] \in Nat /\ j \in 1..Len(ids)
    BY <1>1
  <2>2. /\ js \in Seq(Nat) /\ Len(js) = IF 1 <= m THEN m - 1 + 1 ELSE 0
        /\ \A j \in 1..m - 1 + 1 : js[j] = ids[1 + j - 1]
    BY <2>1, SubSeqProperties
  <2>. QED BY <2>1, <2>2
<1>. HIDE DEF js
<1>3. HasLoop(r, 1) /\ r[1].id = 1
  <2>1. HasLoop(st, 1) /\ st[1].id = 1
    BY DEF Chain
  <2>2. PICK i : HasLoop(st, i) /\ st[i].id = ids[m]
    BY DEF Chain
  <2>3. 1 <= ids[m]
    <3>1. ids[m] \in 1..n
      BY <2>2 DEF Chain
    <3>. QED BY <3>1
  <2>. QED BY <2>1, <2>3
<1>4. LoopsApart(r)
  <2>1. ASSUME NEW i \in 1..Len(r), Loop(r, i) PROVE r[i].id \in Nat
    <3>1. HasLoop(st, i) /\ r[i].id = st[i].id
      BY <2>1 DEF HasLoop
    <3>. QED BY <3>1 DEF HasLoop, Chain, LoopsApart
  <2>2. ASSUME NEW i \in 1..Len(r), NEW j \in 1..Len(r), Loop(r, i), Loop(r, j), i < j PROVE r[i].id < r[j].id
    <3>1. HasLoop(st, i) /\ HasLoop(st, j) /\ r[i].id = st[i].id /\ r[j].id = st[j].id
      BY <2>2 DEF HasLoop
    <3>. QED BY <2>2, <3>1 DEF HasLoop, Chain, LoopsApart
  <2>. QED BY <2>1, <2>2 DEF LoopsApart
<1>5. \A i, j \in 1..Len(js) : i < j => js[i] < js[j]
  BY <1>2 DEF Chain
<1>6. ASSUME NEW i, HasLoop(r, i) PROVE r[i].id \in 1..n /\ \E j \in 1..Len(js) : js[j] = r[i].id
  <2>1. HasLoop(st, i) /\ st[i].id <= ids[m] /\ r[i].id = st[i].id
    BY <1>6
  <2>2. st[i].id \in 1..n
    BY <2>1 DEF Chain
  <2>3. PICK j \in 1..Len(ids) : ids[j] = st[i].id
    BY <2>1 DEF Chain
  <2>4. j <= m
    <3>1. m < j => ids[m] < ids[j]
      BY DEF Chain
    <3>2. ids[m] \in Nat /\ ids[j] \in Nat
      BY <1>1
    <3>. QED BY <1>1, <2>1, <2>3, <3>1, <3>2
  <2>5. j \in 1..Len(js)
    BY <1>1, <1>2, <2>4
  <2>. QED BY <1>2, <2>1, <2>2, <2>3, <2>5
<1>7. ASSUME NEW j \in 1..Len(js) PROVE \E i : HasLoop(r, i) /\ r[i].id = js[j]
  <2>1. j \in 1..m /\ js[j] = ids[j] /\ j \in 1..Len(ids)
    BY <1>2
  <2>2. PICK i : HasLoop(st, i) /\ st[i].id = ids[j]
    BY <2>1 DEF Chain
  <2>3. ids[j] <= ids[m]
    <3>1. j < m => ids[j] < ids[m]
      BY <2>1 DEF Chain
    <3>2. ids[j] \in Nat /\ ids[m] \in Nat
      BY <1>1, <2>1
    <3>. QED BY <1>1, <2>1, <3>1, <3>2
  <2>. QED BY <2>1, <2>2, <2>3
<1>8. n \in Nat
  BY DEF Chain
<1>9. Chain(r, js, n)
  BY <1>2, <1>3, <1>4, <1>5, <1>6, <1>7, <1>8 DEF Chain
<1>. QED BY <1>9 DEF js

(* free_runloops_until: the chain is cut where the C stack is. *)
CutTo(ids, id) ==
  IF id \in ToSet(ids) THEN SubSeq(ids, 1, SelectLastInSeq(ids, LAMBDA i : i = id)) ELSE <<>>

LEMMA CutIs ==
  ASSUME NEW ids \in Seq(Nat), \A i, j \in 1..Len(ids) : i < j => ids[i] < ids[j], NEW m \in 1..Len(ids)
  PROVE  CutTo(ids, ids[m]) = SubSeq(ids, 1, m)
<1>1. Len(ids) \in Nat /\ DOMAIN ids = 1..Len(ids) /\ \A j \in 1..Len(ids) : ids[j] \in Nat
  BY LenProperties, ElementOfSeq
<1>2. ids[m] \in ToSet(ids)
  BY <1>1 DEF ToSet
<1>3. ASSUME NEW i \in 1..Len(ids), ids[i] = ids[m] PROVE i = m
  <2>1. (i < m => ids[i] < ids[m]) /\ (m < i => ids[m] < ids[i])
    OBVIOUS
  <2>2. ids[m] \in Nat /\ i \in Nat /\ m \in Nat
    BY <1>1
  <2>. QED BY <1>3, <2>1, <2>2
<1>. DEFINE I == {i \in 1..Len(ids) : ids[i] = ids[m]}
<1>4. I = {m}
  BY <1>3
<1>5. Max({m}) = m
  BY <1>1 DEF Max
<1>6. SelectLastInSeq(ids, LAMBDA i : i = ids[m]) = IF I # {} THEN Max(I) ELSE 0
  BY DEF SelectLastInSeq
<1>7. SelectLastInSeq(ids, LAMBDA i : i = ids[m]) = m
  BY <1>4, <1>5, <1>6
<1>. QED BY <1>2, <1>7 DEF CutTo

LEMMA ChainCut ==
  ASSUME NEW st, NEW ids, NEW n, Chain(st, ids, n), NEW d, HasLoop(st, d), NEW r \in Seq(Frame),
         \A i : HasLoop(r, i) <=> HasLoop(st, i) /\ i <= d,
         \A i : HasLoop(r, i) => r[i].id = st[i].id
  PROVE  Chain(r, CutTo(ids, st[d].id), n)
<1>1. PICK m \in 1..Len(ids) : ids[m] = st[d].id
  BY DEF Chain
<1>2. CutTo(ids, st[d].id) = SubSeq(ids, 1, m)
  <2>1. ids \in Seq(Nat) /\ \A i, j \in 1..Len(ids) : i < j => ids[i] < ids[j]
    BY DEF Chain
  <2>2. CutTo(ids, ids[m]) = SubSeq(ids, 1, m)
    BY <2>1, CutIs
  <2>. QED BY <1>1, <2>2
<1>3. ASSUME NEW i, HasLoop(st, i) PROVE i <= d <=> st[i].id <= ids[m]
  <2>1. i \in 1..Len(st) /\ d \in 1..Len(st) /\ Len(st) \in Nat /\ Loop(st, i) /\ Loop(st, d)
    BY <1>3, LenProperties DEF HasLoop, Chain
  <2>2. st[i].id \in Nat /\ st[d].id \in Nat /\ (i < d => st[i].id < st[d].id) /\ (d < i => st[d].id < st[i].id)
    BY <2>1 DEF Chain, LoopsApart
  <2>. QED BY <1>1, <2>1, <2>2
<1>4. \A i : HasLoop(r, i) <=> HasLoop(st, i) /\ st[i].id <= ids[m]
  BY <1>3
<1>5. Chain(r, SubSeq(ids, 1, m), n)
  BY <1>4, ChainPrefix
<1>. QED BY <1>2, <1>5

(* A runloop more. *)
LEMMA ChainMore ==
  ASSUME NEW st, NEW ids, NEW n, Chain(st, ids, n)
  PROVE  Chain(Append(st, [kind |-> "runops", id |-> n + 1]), Append(ids, n + 1), n + 1)
<1>. DEFINE f == [kind |-> "runops", id |-> n + 1]
            r == Append(st, f)
            js == Append(ids, n + 1)
<1>1. /\ Len(ids) \in Nat /\ \A j \in 1..Len(ids) : ids[j] \in Nat
      /\ n \in Nat /\ Len(st) \in Nat /\ f \in Frame
  <2>1. f \in Frame
    BY DEF Chain, Frame, RunopsFrame
  <2>2. st \in Seq(Frame) /\ ids \in Seq(Nat) /\ n \in Nat
    BY DEF Chain
  <2>. HIDE DEF f
  <2>. QED BY <2>1, <2>2, LenProperties, ElementOfSeq
<1>2. /\ js \in Seq(Nat) /\ Len(js) = Len(ids) + 1 /\ js[Len(ids) + 1] = n + 1
      /\ \A j \in 1..Len(ids) : js[j] = ids[j]
  BY <1>1, AppendProperties DEF Chain
<1>3. r \in Seq(Frame) /\ Len(r) = Len(st) + 1 /\ r[Len(st) + 1] = f /\ \A j \in 1..Len(st) : r[j] = st[j]
  <2>. HIDE DEF f
  <2>. QED BY <1>1, AppendProperties DEF Chain
<1>4. f.kind = "runops" /\ f.id = n + 1
  OBVIOUS
<1>. HIDE DEF f, r, js
<1>5. \A i : HasLoop(r, i) <=> HasLoop(st, i) \/ i = Len(st) + 1
  <2>1. ASSUME NEW i \in 1..Len(st) PROVE Loop(r, i) <=> Loop(st, i)
    BY <1>3 DEF Loop
  <2>2. Loop(r, Len(st) + 1)
    BY <1>3, <1>4 DEF Loop
  <2>3. \A i : i \in 1..Len(r) <=> i \in 1..Len(st) \/ i = Len(st) + 1
    BY <1>1, <1>3
  <2>. QED BY <2>1, <2>2, <2>3 DEF HasLoop
<1>6. \A i : HasLoop(st, i) => r[i].id = st[i].id /\ i \in 1..Len(st)
  BY <1>3 DEF HasLoop
<1>7. r[Len(st) + 1].id = n + 1
  BY <1>3, <1>4
<1>8. \A i : HasLoop(st, i) => st[i].id \in 1..n
  BY DEF Chain
<1>9. HasLoop(r, 1) /\ r[1].id = 1
  BY <1>5, <1>6 DEF Chain
<1>10. LoopsApart(r)
  <2>1. ASSUME NEW i \in 1..Len(r), Loop(r, i) PROVE r[i].id \in Nat
    <3>1. HasLoop(r, i)
      BY <2>1 DEF HasLoop
    <3>2. r[i].id \in 1..n \/ r[i].id = n + 1
      BY <1>5, <1>6, <1>7, <1>8, <3>1
    <3>. QED BY <1>1, <3>2
  <2>2. ASSUME NEW i \in 1..Len(r), NEW j \in 1..Len(r), Loop(r, i), Loop(r, j), i < j PROVE r[i].id < r[j].id
    <3>1. HasLoop(r, i) /\ HasLoop(r, j)
      BY <2>2 DEF HasLoop
    <3>2. HasLoop(st, i)
      <4>1. i # Len(st) + 1
        BY <1>1, <1>3, <2>2
      <4>. QED BY <1>5, <3>1, <4>1
    <3>3. r[i].id = st[i].id /\ st[i].id \in 1..n
      BY <1>6, <1>8, <3>2
    <3>4. CASE j = Len(st) + 1
      <4>1. r[j].id = n + 1
        BY <1>7, <3>4
      <4>. QED BY <1>1, <3>3, <4>1
    <3>5. CASE j # Len(st) + 1
      <4>1. HasLoop(st, j)
        BY <1>5, <3>1, <3>5
      <4>2. st[i].id < st[j].id
        BY <2>2, <3>2, <4>1 DEF Chain, LoopsApart, HasLoop
      <4>. QED BY <1>6, <3>3, <4>1, <4>2
    <3>. QED BY <3>4, <3>5
  <2>. QED BY <2>1, <2>2 DEF LoopsApart
<1>11. ASSUME NEW i, HasLoop(r, i) PROVE r[i].id \in 1..n + 1 /\ \E j \in 1..Len(js) : js[j] = r[i].id
  <2>1. CASE i = Len(st) + 1
    <3>1. Len(ids) + 1 \in 1..Len(js) /\ n + 1 \in 1..n + 1
      BY <1>1, <1>2
    <3>. QED BY <1>2, <1>7, <2>1, <3>1
  <2>2. CASE HasLoop(st, i)
    <3>1. PICK j \in 1..Len(ids) : ids[j] = st[i].id
      BY <2>2 DEF Chain
    <3>2. j \in 1..Len(js) /\ js[j] = r[i].id
      BY <1>1, <1>2, <1>6, <2>2, <3>1
    <3>3. st[i].id \in 1..n
      BY <1>8, <2>2
    <3>4. st[i].id \in 1..n + 1
      BY <1>1, <3>3
    <3>. QED BY <1>6, <2>2, <3>2, <3>4
  <2>. QED BY <1>5, <1>11, <2>1, <2>2
<1>12. ASSUME NEW j \in 1..Len(js) PROVE \E i : HasLoop(r, i) /\ r[i].id = js[j]
  <2>1. CASE j = Len(ids) + 1
    BY <1>2, <1>5, <1>7, <2>1
  <2>2. CASE j \in 1..Len(ids)
    <3>1. PICK i : HasLoop(st, i) /\ st[i].id = ids[j]
      BY <2>2 DEF Chain
    <3>. QED BY <1>2, <1>5, <1>6, <2>2, <3>1
  <2>. QED BY <1>1, <1>2, <2>1, <2>2
<1>13. ASSUME NEW i \in 1..Len(js), NEW j \in 1..Len(js), i < j PROVE js[i] < js[j]
  <2>1. i \in 1..Len(ids)
    BY <1>1, <1>2, <1>13
  <2>2. CASE j = Len(ids) + 1
    <3>1. PICK u : HasLoop(st, u) /\ st[u].id = ids[i]
      BY <2>1 DEF Chain
    <3>2. ids[i] \in 1..n
      BY <1>8, <3>1
    <3>3. js[i] = ids[i] /\ js[j] = n + 1
      BY <1>2, <2>1, <2>2
    <3>. QED BY <1>1, <3>2, <3>3
  <2>3. CASE j \in 1..Len(ids)
    BY <1>2, <1>13, <2>1, <2>3 DEF Chain
  <2>. QED BY <1>1, <1>2, <2>2, <2>3
<1>14. Chain(r, js, n + 1)
  BY <1>1, <1>2, <1>3, <1>9, <1>10, <1>11, <1>12, <1>13 DEF Chain
<1>. QED BY <1>14 DEF r, js, f
-----------------------------------------------------------------------------
(* What is true of the state. *)
Marks(s) == [a \in Nat |-> IF a \in 1..Len(s) /\ s[a].handling THEN s[a].exception ELSE 0]

Homely(s, c) ==
  \A p \in 1..Len(s[c].handlers) : s[c].handlers[p].frame = 0 => s[c].handlers[p].runloop_id = s[c].runloop

Typed(s, e, u) ==
  /\ Calls(s) /\ e \in Seq(ExceptionRecord) /\ u \in 1..Len(s)
  /\ \A c \in 1..Len(s) : s[c].exception \in 0..Len(e) /\ (s[c].handling => s[c].exception # 0) /\ Homely(s, c)
  /\ \A x \in 1..Len(e) : e[x].before[1] \in 0..Len(e) /\ (e[x].before[2] => e[x].before[1] # 0)

(* Frames of C code that catches: each is called by a runloop; those that run
   something are trying phasers, and have the first handler of their context. *)
Headed(s, c, j) ==
  Len(s[c].handlers) # 0 /\ s[c].handlers[1].frame = j /\ s[c].handlers[1].takes = Types
Framed(s, e, st, j) ==
  /\ j - 1 \in 1..Len(st) /\ Loop(st, j - 1) /\ st[j].runloop_id = st[j - 1].id
  /\ j < Len(st) => st[j].kind = "phasers" /\ st[j].trying
  /\ st[j].kind = "ext" => st[j].trying
  /\ st[j].trying => Headed(s, st[j].ctx, j)
  /\ \A x \in ToSet(st[j].caught) : x \in 1..Len(e) /\ e[x].context = st[j].ctx
FramesRight(s, e, st) == \A j \in 1..Len(st) : ~Loop(st, j) => Framed(s, e, st, j)

(* No handler of C code but those is found. *)
Catching(j, c, st) == j \in 1..Len(st) /\ ~Loop(st, j) /\ st[j].ctx = c /\ st[j].trying
CatchersOf(c, s, st) ==
  \A p \in 1..Len(s[c].handlers) :
     s[c].handlers[p].frame # 0 => p = 1 /\ Catching(s[c].handlers[p].frame, c, st)
Catchers(K, s, st) == \A k \in K : \A c \in Up(s, k.ctx) : CatchersOf(c, s, st)

PointsRight(K, s, e, st, u) ==
  Sound(K, s, e, st) /\ Catchers(K, s, st) /\ \E k \in K : Shows(k, u, Marks(s), Len(st))

ExInv ==
  /\ Typed(contexts, exceptions, ctx) /\ FramesRight(contexts, exceptions, c_stack)
  /\ Chain(c_stack, runloops, runloop_id_counter)
  /\ current_runloop_id = runloops[Len(runloops)] /\ current_runloop_level = Len(runloops)
  /\ ended # -1
  /\ \E K : PointsRight(K, contexts, exceptions, c_stack, ctx)

(* The frames of C code belong to callers, the inner ones to later calls. *)
Nested(s, st, u) ==
  /\ Loop(st, Len(st)) => Marks(s)[u] # 0 \/ s[u].runloop = st[Len(st)].id
  /\ ~Loop(st, Len(st)) => st[Len(st)].ctx = u
  /\ \A j \in 1..Len(st) : ~Loop(st, j) => st[j].ctx \in Up(s, u) /\ (st[j].ctx < u \/ j = Len(st))
  /\ \A i, j \in 1..Len(st) : ~Loop(st, i) /\ ~Loop(st, j) /\ i < j => st[i].ctx < st[j].ctx

LEMMA AreNested ==
  ASSUME NEW K, NEW s, NEW e, NEW st, NEW u, PointsRight(K, s, e, st, u), Typed(s, e, u), st \in Seq(Frame)
  PROVE  /\ Nested(s, st, u) /\ Len(st) \in Nat /\ Len(st) # 0 /\ Len(s) \in Nat /\ u \in 1..Len(s) /\ u \in 0..Len(s)
         /\ u \in Up(s, u) /\ Up(s, u) \subseteq 1..u
<1>1. Len(s) \in Nat /\ Calls(s) /\ u \in 1..Len(s)
  BY CallsFields DEF Typed
<1>2. Len(st) \in Nat
  BY LenProperties
<1>3. PICK k \in K : Shows(k, u, Marks(s), Len(st))
  BY DEF PointsRight
<1>4. Placed(k, s, e, st) /\ Catches(k, K, s, st) /\ k.ctx = u /\ k.depth = Len(st)
  BY <1>3 DEF PointsRight, Sound, Shows
<1>5. u \in 0..Len(s)
  BY <1>1
<1>6. Up(s, u) = {u} \cup Up(s, s[u].caller) /\ Up(s, u) \subseteq 1..u
  BY <1>1, <1>5, UpIs, UpBelow
<1>7. Len(st) # 0 /\ Len(st) \in 1..Len(st)
  <2>1. Len(st) \in 1..Len(st)
    BY <1>4 DEF Placed
  <2>. QED BY <1>2, <2>1
<1>8. k.marks[u] = Marks(s)[u]
  <2>1. u \in 1..k.time
    <3>1. k.time \in Nat /\ u <= k.time
      BY <1>4 DEF PointsRight, Sound, Points, Placed
    <3>. QED BY <1>1, <3>1
  <2>. QED BY <1>3, <2>1 DEF Shows, Agrees
<1>9. ASSUME NEW i \in 1..Len(st), NEW j \in 1..Len(st), ~Loop(st, i), ~Loop(st, j), i < j PROVE st[i].ctx < st[j].ctx
  <2>1. PICK q \in K : Shows(q, st[j].ctx, k.marks, j)
    BY <1>4, <1>9 DEF Catches
  <2>2. Placed(q, s, e, st) /\ q.ctx = st[j].ctx /\ q.depth = j
    BY <2>1 DEF PointsRight, Sound, Shows
  <2>3. i \in 1..j /\ i # j
    BY <1>2, <1>9
  <2>. QED BY <1>9, <2>2, <2>3 DEF Placed
<1>10. Nested(s, st, u)
  BY <1>4, <1>8, <1>9 DEF Nested, Placed
<1>. QED BY <1>1, <1>2, <1>5, <1>6, <1>7, <1>10

LEMMA FramesKeep ==
  ASSUME NEW s, NEW e, NEW st, FramesRight(s, e, st), NEW t, NEW f, NEW r,
         Len(st) \in Nat, Len(r) \in Nat, Len(r) <= Len(st), \A j \in 1..Len(r) : r[j] = st[j],
         \A j \in 1..Len(r) : ~Loop(st, j) =>
            /\ st[j].trying => Headed(t, st[j].ctx, j)
            /\ \A x \in ToSet(st[j].caught) : x \in 1..Len(f) /\ f[x].context = st[j].ctx
  PROVE  FramesRight(t, f, r)
<1>. SUFFICES ASSUME NEW j \in 1..Len(r), ~Loop(r, j) PROVE Framed(t, f, r, j)
  BY DEF FramesRight
<1>1. j \in 1..Len(st) /\ r[j] = st[j] /\ ~Loop(st, j)
  BY DEF Loop
<1>2. Framed(s, e, st, j)
  BY <1>1 DEF FramesRight
<1>3. j - 1 \in 1..Len(r) /\ r[j - 1] = st[j - 1]
  <2>1. j - 1 \in 1..Len(st)
    BY <1>2 DEF Framed
  <2>2. j - 1 \in 1..Len(r)
    BY <2>1
  <2>. QED BY <2>2
<1>4. Loop(r, j - 1) /\ r[j].runloop_id = r[j - 1].id
  BY <1>1, <1>2, <1>3 DEF Framed, Loop
<1>5. j < Len(r) => j < Len(st)
  BY <1>1
<1>. QED BY <1>1, <1>2, <1>3, <1>4, <1>5 DEF Framed

LEMMA FramesAdd ==
  ASSUME NEW s, NEW e, NEW st \in Seq(Frame), FramesRight(s, e, st), NEW g \in Frame,
         ~Loop(st, Len(st)) => st[Len(st)].kind = "phasers" /\ st[Len(st)].trying,
         g.kind # "runops" => Framed(s, e, Append(st, g), Len(st) + 1)
  PROVE  FramesRight(s, e, Append(st, g))
<1>. DEFINE r == Append(st, g)
<1>1. /\ Len(st) \in Nat /\ r \in Seq(Frame) /\ Len(r) = Len(st) + 1 /\ r[Len(st) + 1] = g
      /\ \A j \in 1..Len(st) : r[j] = st[j]
  BY LenProperties, AppendProperties
<1>. HIDE DEF r
<1>2. ASSUME NEW j \in 1..Len(r), ~Loop(r, j) PROVE Framed(s, e, r, j)
  <2>1. CASE j = Len(st) + 1
    BY <1>1, <1>2, <2>1 DEF Loop, r
  <2>2. CASE j \in 1..Len(st)
    <3>1. r[j] = st[j] /\ ~Loop(st, j)
      BY <1>1, <1>2, <2>2 DEF Loop
    <3>2. Framed(s, e, st, j)
      BY <2>2, <3>1 DEF FramesRight
    <3>3. j - 1 \in 1..Len(st) /\ Loop(st, j - 1) /\ st[j].runloop_id = st[j - 1].id
      BY <3>2 DEF Framed
    <3>4. j - 1 \in 1..Len(r) /\ Loop(r, j - 1) /\ r[j].runloop_id = r[j - 1].id
      <4>1. j - 1 \in 1..Len(r) /\ r[j - 1] = st[j - 1]
        BY <1>1, <3>3
      <4>. QED BY <3>1, <3>3, <4>1 DEF Loop
    <3>5. st[j].kind = "phasers" /\ st[j].trying
      <4>1. j < Len(st) \/ j = Len(st)
        BY <1>1, <2>2
      <4>. QED BY <3>1, <3>2, <4>1 DEF Framed
    <3>. QED BY <3>1, <3>2, <3>4, <3>5 DEF Framed
  <2>. QED BY <1>1, <2>1, <2>2
<1>3. FramesRight(s, e, r)
  BY <1>2 DEF FramesRight
<1>. QED BY <1>3 DEF r

(* Points that are kept, with one at which control is. *)
LEMMA PointsKeep ==
  ASSUME NEW K, NEW s, NEW e, NEW st, Sound(K, s, e, st), NEW t, NEW f, NEW r, Same(s, t), NEW n \in Nat,
         Len(st) \in Nat, Len(r) \in Nat, \A i \in 1..Len(r) : Alike(st[i], r[i]),
         \A k \in Upto(K, Len(r), n) : \A a \in Up(s, k.ctx) :
            k.marks[a] # 0 => StaysHandled(k.marks[a], e, f, r),
         \A k \in Upto(K, Len(r), n) : \A c \in Up(s, k.ctx) : CatchersOf(c, t, r),
         NEW q \in K, q.time <= n, NEW u, Shows(q, u, Marks(t), Len(r))
  PROVE  PointsRight(Upto(K, Len(r), n), t, f, r, u)
<1>1. Sound(Upto(K, Len(r), n), t, f, r)
  <2>1. Len(r) \in Nat /\ Len(r) <= Len(r)
    OBVIOUS
  <2>. QED BY <2>1, PointsStay
<1>2. \A k \in K : k.ctx \in 0..Len(s)
  <2>1. \A k \in K : k.ctx \in 1..Len(s)
    BY DEF Sound, Placed
  <2>2. Len(s) \in Nat
    BY CallsFields DEF Same
  <2>. QED BY <2>1, <2>2
<1>3. \A k \in K : Up(t, k.ctx) = Up(s, k.ctx)
  BY <1>2, UpSame
<1>4. Catchers(Upto(K, Len(r), n), t, r)
  BY <1>3 DEF Catchers, Upto
<1>5. q \in Upto(K, Len(r), n) /\ Shows(q, u, Marks(t), Len(r))
  <2>1. q.depth = Len(r) /\ q.ctx = u
    BY DEF Shows
  <2>. QED BY <1>3, <2>1 DEF Upto, Shows
<1>. QED BY <1>1, <1>4, <1>5 DEF PointsRight
-----------------------------------------------------------------------------
(* One context becomes another, with the same caller. *)
Becomes(s, t, c, v) ==
  Calls(t) /\ Same(s, t) /\ Len(t) = Len(s) /\ \A d \in 1..Len(s) : t[d] = IF d = c THEN v ELSE s[d]

LEMMA ContextChanges ==
  ASSUME NEW s, Calls(s), NEW c \in 1..Len(s), NEW v \in ContextRecord,
         v.caller = s[c].caller, v.entry = s[c].entry, v.runloop = s[c].runloop
  PROVE  Becomes(s, [s EXCEPT ![c] = v], c, v)
<1>. DEFINE t == [s EXCEPT ![c] = v]
<1>1. Len(s) \in Nat /\ DOMAIN s = 1..Len(s) /\ s \in Seq(ContextRecord)
  BY CallsFields
<1>2. t \in Seq(ContextRecord) /\ Len(t) = Len(s) /\ \A d \in 1..Len(s) : t[d] = IF d = c THEN v ELSE s[d]
  BY <1>1, ExceptSeq
<1>3. DOMAIN t = 1..Len(t)
  BY <1>2, LenProperties
<1>4. \A d \in 1..Len(s) : t[d].caller = s[d].caller /\ t[d].entry = s[d].entry /\ t[d].runloop = s[d].runloop
  BY <1>2
<1>5. Calls(t)
  BY <1>1, <1>2, <1>3, <1>4 DEF Calls
<1>. QED BY <1>1, <1>2, <1>4, <1>5 DEF Same, Becomes

LEMMA StillHandled ==
  ASSUME NEW K, NEW s, NEW e, NEW st, Sound(K, s, e, st), NEW r, \A x : PendingIn(x, r) => PendingIn(x, st)
  PROVE  \A k \in K : \A a \in Up(s, k.ctx) : k.marks[a] # 0 => StaysHandled(k.marks[a], e, e, r)
<1>. SUFFICES ASSUME NEW k \in K, NEW a \in Up(s, k.ctx), k.marks[a] # 0 PROVE StaysHandled(k.marks[a], e, e, r)
  OBVIOUS
<1>1. Marked(k.marks[a], a, s, e, st)
  BY DEF Sound, Placed
<1>. QED BY <1>1 DEF Marked, StaysHandled

(* Where an op is run. *)
LEMMA OpFacts ==
  ASSUME ExInv, InOp
  PROVE  /\ ended = 0 /\ Len(c_stack) \in Nat /\ Len(c_stack) \in 1..Len(c_stack)
         /\ HasLoop(c_stack, Len(c_stack)) /\ current_runloop_id = c_stack[Len(c_stack)].id
         /\ ctx \in 1..Len(contexts) /\ contexts[ctx] \in ContextRecord /\ Len(contexts) \in Nat
         /\ contexts[ctx].handling \/ contexts[ctx].runloop = current_runloop_id
         /\ \A j \in 1..Len(c_stack) : ~Loop(c_stack, j) =>
              c_stack[j].ctx \in Up(contexts, ctx) /\ c_stack[j].ctx < ctx /\ c_stack[j].ctx # ctx
         /\ \A p \in 1..Len(contexts[ctx].handlers) : /\ contexts[ctx].handlers[p].frame = 0
                                                      /\ contexts[ctx].handlers[p].runloop_id = contexts[ctx].runloop
<1>1. Typed(contexts, exceptions, ctx) /\ Chain(c_stack, runloops, runloop_id_counter)
  BY DEF ExInv
<1>2. PICK K : PointsRight(K, contexts, exceptions, c_stack, ctx)
  BY DEF ExInv
<1>3. c_stack \in Seq(Frame)
  BY <1>1 DEF Chain
<1>4. /\ Nested(contexts, c_stack, ctx) /\ Len(c_stack) \in Nat /\ Len(c_stack) # 0 /\ Len(contexts) \in Nat
      /\ ctx \in 1..Len(contexts) /\ ctx \in 0..Len(contexts) /\ Up(contexts, ctx) \subseteq 1..ctx /\ ctx \in Up(contexts, ctx)
  BY <1>1, <1>2, <1>3, AreNested
<1>5. ended = 0 /\ Loop(c_stack, Len(c_stack))
  BY DEF InOp, Innermost, Last, Loop
<1>6. Len(c_stack) \in 1..Len(c_stack) /\ HasLoop(c_stack, Len(c_stack))
  BY <1>4, <1>5 DEF HasLoop
<1>7. \A i : HasLoop(c_stack, i) => i <= Len(c_stack)
  BY <1>4 DEF HasLoop
<1>8. current_runloop_id = c_stack[Len(c_stack)].id
  BY <1>1, <1>6, <1>7, ChainTop DEF ExInv
<1>9. contexts[ctx] \in ContextRecord
  BY <1>1, <1>4, CallsFields DEF Typed
<1>10. contexts[ctx].handling \/ contexts[ctx].runloop = current_runloop_id
  <2>1. Marks(contexts)[ctx] # 0 \/ contexts[ctx].runloop = c_stack[Len(c_stack)].id
    BY <1>4, <1>5 DEF Nested
  <2>2. ctx \in Nat
    BY <1>4
  <2>. QED BY <1>8, <2>1, <2>2 DEF Marks
<1>11. ASSUME NEW j \in 1..Len(c_stack), ~Loop(c_stack, j)
       PROVE  c_stack[j].ctx \in Up(contexts, ctx) /\ c_stack[j].ctx < ctx /\ c_stack[j].ctx # ctx
  <2>1. c_stack[j].ctx \in Up(contexts, ctx) /\ c_stack[j].ctx < ctx
    BY <1>4, <1>5, <1>11 DEF Nested
  <2>2. c_stack[j].ctx \in 1..ctx /\ ctx \in Nat
    BY <1>4, <2>1
  <2>. QED BY <2>1, <2>2
<1>12. ASSUME NEW p \in 1..Len(contexts[ctx].handlers), contexts[ctx].handlers[p].frame # 0 PROVE FALSE
  <2>1. PICK k \in K : Shows(k, ctx, Marks(contexts), Len(c_stack))
    BY <1>2 DEF PointsRight
  <2>2. CatchersOf(ctx, contexts, c_stack)
    BY <1>2, <1>4, <2>1 DEF PointsRight, Shows, Catchers
  <2>3. Catching(contexts[ctx].handlers[p].frame, ctx, c_stack)
    BY <1>12, <2>2 DEF CatchersOf
  <2>. QED BY <1>11, <2>3 DEF Catching
<1>13. Homely(contexts, ctx)
  BY <1>1, <1>4 DEF Typed
<1>. QED BY <1>4, <1>5, <1>6, <1>8, <1>9, <1>10, <1>11, <1>12, <1>13 DEF Homely

(* Ops that change the handlers of the current context. *)
LEMMA OpHandlers ==
  ASSUME ExInv, InOp, NEW v \in ContextRecord, contexts' = [contexts EXCEPT ![ctx] = v],
         v.caller = contexts[ctx].caller, v.entry = contexts[ctx].entry, v.runloop = contexts[ctx].runloop,
         v.exception = contexts[ctx].exception, v.handling = contexts[ctx].handling,
         \A p \in 1..Len(v.handlers) : v.handlers[p].frame = 0 /\ v.handlers[p].runloop_id = v.runloop,
         UNCHANGED <<ctx, exceptions, c_stack, runloopVars, ended>>
  PROVE  ExInv'
<1>. DEFINE s == contexts
            t == contexts'
<1>1. /\ Typed(s, exceptions, ctx) /\ Chain(c_stack, runloops, runloop_id_counter)
      /\ FramesRight(s, exceptions, c_stack)
  BY DEF ExInv
<1>2. PICK K : PointsRight(K, s, exceptions, c_stack, ctx)
  BY DEF ExInv
<1>3. /\ Len(c_stack) \in Nat /\ ctx \in 1..Len(s) /\ Len(s) \in Nat
      /\ \A j \in 1..Len(c_stack) : ~Loop(c_stack, j) => c_stack[j].ctx # ctx
  BY OpFacts
<1>4. Calls(t) /\ Same(s, t) /\ Len(t) = Len(s) /\ \A d \in 1..Len(s) : t[d] = IF d = ctx THEN v ELSE s[d]
  <2>1. Calls(s)
    BY <1>1 DEF Typed
  <2>2. Becomes(s, [s EXCEPT ![ctx] = v], ctx, v)
    BY <1>3, <2>1, ContextChanges
  <2>3. t = [s EXCEPT ![ctx] = v]
    OBVIOUS
  <2>. HIDE DEF s, t
  <2>. QED BY <2>2, <2>3 DEF Becomes
<1>. HIDE DEF s, t
<1>5. \A d \in 1..Len(s) : /\ t[d].exception = s[d].exception /\ t[d].handling = s[d].handling
                           /\ d # ctx => t[d].handlers = s[d].handlers
  BY <1>4 DEF s
<1>6. Marks(t) = Marks(s)
  BY <1>4, <1>5 DEF Marks
<1>7. \A d \in 1..Len(s) : Homely(t, d)
  <2>1. \A d \in 1..Len(s) : Homely(s, d)
    BY <1>1 DEF Typed
  <2>. QED BY <1>4, <2>1 DEF Homely
<1>8. Typed(t, exceptions, ctx)
  BY <1>1, <1>3, <1>4, <1>5, <1>7 DEF Typed
<1>9. \A c \in 1..Len(s) : CatchersOf(c, s, c_stack) => CatchersOf(c, t, c_stack)
  <2>1. \A c \in 1..Len(s) : c # ctx => t[c].handlers = s[c].handlers
    BY <1>5
  <2>2. \A p \in 1..Len(t[ctx].handlers) : t[ctx].handlers[p].frame = 0
    BY <1>3, <1>4
  <2>. QED BY <2>1, <2>2 DEF CatchersOf
<1>10. FramesRight(t, exceptions, c_stack)
  <2>1. ASSUME NEW j \in 1..Len(c_stack), ~Loop(c_stack, j)
        PROVE  /\ c_stack[j].trying => Headed(t, c_stack[j].ctx, j)
               /\ \A x \in ToSet(c_stack[j].caught) : x \in 1..Len(exceptions) /\ exceptions[x].context = c_stack[j].ctx
    <3>1. Framed(s, exceptions, c_stack, j)
      BY <1>1, <2>1 DEF FramesRight
    <3>2. c_stack[j].ctx \in 1..Len(s)
      <4>1. c_stack[j].ctx \in Up(s, ctx)
        BY <2>1, OpFacts DEF s
      <4>2. Up(s, ctx) \subseteq 1..ctx
        BY <1>1, <1>3, UpBelow DEF Typed
      <4>. QED BY <1>3, <4>1, <4>2
    <3>3. t[c_stack[j].ctx].handlers = s[c_stack[j].ctx].handlers
      BY <1>3, <1>5, <2>1, <3>2
    <3>. QED BY <3>1, <3>3 DEF Framed, Headed
  <2>2. Len(c_stack) <= Len(c_stack)
    BY <1>3
  <2>. QED BY <1>1, <1>3, <2>1, <2>2, FramesKeep
<1>11. PointsRight(Upto(K, Len(c_stack), Len(s)), t, exceptions, c_stack, ctx)
  <2>1. PICK q \in K : Shows(q, ctx, Marks(s), Len(c_stack))
    BY <1>2 DEF PointsRight
  <2>2. Sound(K, s, exceptions, c_stack) /\ Catchers(K, s, c_stack)
    BY <1>2 DEF PointsRight
  <2>3. q.time <= Len(s)
    BY <2>2 DEF Sound, Placed
  <2>4. \A k \in K : \A c \in Up(s, k.ctx) : c \in 1..Len(s)
    <3>. SUFFICES ASSUME NEW k \in K, NEW c \in Up(s, k.ctx) PROVE c \in 1..Len(s)
      OBVIOUS
    <3>1. k.ctx \in 1..Len(s)
      BY <2>2 DEF Sound, Placed
    <3>2. k.ctx \in 0..Len(s)
      BY <1>3, <3>1
    <3>3. c \in 1..k.ctx
      BY <1>1, <3>2, UpBelow DEF Typed
    <3>. QED BY <1>3, <3>1, <3>3
  <2>5. \A k \in Upto(K, Len(c_stack), Len(s)) : \A c \in Up(s, k.ctx) : CatchersOf(c, t, c_stack)
    BY <1>9, <2>2, <2>4 DEF Upto, Catchers
  <2>6. \A k \in K : \A a \in Up(s, k.ctx) : k.marks[a] # 0 => StaysHandled(k.marks[a], exceptions, exceptions, c_stack)
    BY <2>2, StillHandled
  <2>7. \A k \in Upto(K, Len(c_stack), Len(s)) : \A a \in Up(s, k.ctx) :
           k.marks[a] # 0 => StaysHandled(k.marks[a], exceptions, exceptions, c_stack)
    BY <2>6 DEF Upto
  <2>8. \A i \in 1..Len(c_stack) : Alike(c_stack[i], c_stack[i])
    BY DEF Alike
  <2>. QED BY <1>3, <1>4, <1>6, <2>1, <2>2, <2>3, <2>5, <2>7, <2>8, PointsKeep
<1>. QED BY <1>1, <1>8, <1>10, <1>11 DEF ExInv, t, runloopVars

LEMMA PushEhKeeps ==
  ASSUME Habits = {}, ExInv, PushEh
  PROVE  ExInv'
<1>1. InOp /\ AtHome(ctx)
  BY DEF PushEh
<1>2. PICK takes \in {{"error"}, Types} : Push(Handler(ctx, takes, 0))
  BY DEF PushEh
<1>. DEFINE h == Handler(ctx, takes, 0)
            v == [contexts[ctx] EXCEPT !.handlers = <<h>> \o @, !.pushed = @ + 1]
<1>3. /\ ctx \in 1..Len(contexts) /\ contexts[ctx] \in ContextRecord /\ contexts[ctx].runloop = current_runloop_id
      /\ \A p \in 1..Len(contexts[ctx].handlers) : /\ contexts[ctx].handlers[p].frame = 0
                                                   /\ contexts[ctx].handlers[p].runloop_id = contexts[ctx].runloop
  BY <1>1, OpFacts DEF AtHome
<1>4. h \in HandlerRecord /\ h.frame = 0 /\ h.runloop_id = contexts[ctx].runloop
  <2>1. contexts[ctx].runloop \in Nat /\ contexts[ctx].pushed \in Nat
    BY <1>3 DEF ContextRecord
  <2>2. takes \in SUBSET Types
    BY DEF Types
  <2>. QED BY <1>3, <2>1, <2>2 DEF Handler, HandlerRecord
<1>. HIDE DEF h
<1>5. <<h>> \o contexts[ctx].handlers \in Seq(HandlerRecord)
  <2>1. contexts[ctx].handlers \in Seq(HandlerRecord)
    BY <1>3 DEF ContextRecord
  <2>. QED BY <1>4, <2>1
<1>6. v \in ContextRecord
  <2>1. contexts[ctx].pushed + 1 \in Nat
    BY <1>3 DEF ContextRecord
  <2>. QED BY <1>3, <1>5, <2>1 DEF ContextRecord
<1>7. contexts' = [contexts EXCEPT ![ctx] = v]
  BY <1>2 DEF Push, h
<1>8. /\ v.caller = contexts[ctx].caller /\ v.entry = contexts[ctx].entry /\ v.runloop = contexts[ctx].runloop
      /\ v.exception = contexts[ctx].exception /\ v.handling = contexts[ctx].handling
      /\ v.handlers = <<h>> \o contexts[ctx].handlers
  BY <1>3 DEF ContextRecord
<1>. HIDE DEF v
<1>9. \A p \in 1..Len(v.handlers) : v.handlers[p].frame = 0 /\ v.handlers[p].runloop_id = v.runloop
  <2>. DEFINE hs == contexts[ctx].handlers
  <2>1. hs \in Seq(HandlerRecord)
    BY <1>3 DEF ContextRecord
  <2>. HIDE DEF hs
  <2>2. /\ Len(hs) \in Nat /\ Len(<<h>> \o hs) = Len(hs) + 1 /\ (<<h>> \o hs)[1] = h
        /\ \A p \in 2..Len(hs) + 1 : (<<h>> \o hs)[p] = hs[p - 1]
    BY <1>4, <2>1, ConcatProperties, LenProperties
  <2>3. ASSUME NEW p \in 1..Len(hs) + 1
        PROVE (<<h>> \o hs)[p].frame = 0 /\ (<<h>> \o hs)[p].runloop_id = contexts[ctx].runloop
    <3>1. CASE p = 1
      BY <1>4, <2>2, <3>1
    <3>2. CASE p # 1
      <4>1. p \in 2..Len(hs) + 1 /\ p - 1 \in 1..Len(hs)
        BY <2>2, <3>2
      <4>. QED BY <1>3, <2>2, <4>1 DEF hs
    <3>. QED BY <3>1, <3>2
  <2>. QED BY <1>8, <2>2, <2>3 DEF hs
<1>. QED BY <1>1, <1>6, <1>7, <1>8, <1>9, OpHandlers DEF PushEh

(* Handlers that are left when others are deleted. *)
LEMMA OpDeletes ==
  ASSUME ExInv, InOp, NEW n \in 1..Len(contexts[ctx].handlers) + 1,
         contexts' = [contexts EXCEPT ![ctx].handlers = SubSeq(@, n, Len(@))],
         UNCHANGED <<ctx, exceptions, c_stack, runloopVars, ended>>
  PROVE  ExInv'
<1>. DEFINE hs == contexts[ctx].handlers
            v == [contexts[ctx] EXCEPT !.handlers = SubSeq(hs, n, Len(hs))]
<1>1. /\ ctx \in 1..Len(contexts) /\ contexts[ctx] \in ContextRecord
      /\ \A p \in 1..Len(hs) : hs[p].frame = 0 /\ hs[p].runloop_id = contexts[ctx].runloop
  BY OpFacts
<1>2. hs \in Seq(HandlerRecord) /\ Len(hs) \in Nat /\ \A p \in 1..Len(hs) : hs[p] \in HandlerRecord
  <2>1. hs \in Seq(HandlerRecord)
    BY <1>1 DEF ContextRecord
  <2>. HIDE DEF hs
  <2>. QED BY <2>1, LenProperties, ElementOfSeq
<1>. HIDE DEF hs
<1>3. /\ SubSeq(hs, n, Len(hs)) \in Seq(HandlerRecord) /\ Len(SubSeq(hs, n, Len(hs))) = Len(hs) - n + 1
      /\ \A p \in 1..Len(hs) - n + 1 : SubSeq(hs, n, Len(hs))[p] = hs[n + p - 1] /\ n + p - 1 \in 1..Len(hs)
  <2>1. n \in Int /\ Len(hs) \in Int /\ n \in 1..Len(hs) + 1 /\ \A i \in n..Len(hs) : hs[i] \in HandlerRecord
    BY <1>2 DEF hs
  <2>2. /\ SubSeq(hs, n, Len(hs)) \in Seq(HandlerRecord)
        /\ Len(SubSeq(hs, n, Len(hs))) = IF n <= Len(hs) THEN Len(hs) - n + 1 ELSE 0
        /\ \A p \in 1..Len(hs) - n + 1 : SubSeq(hs, n, Len(hs))[p] = hs[n + p - 1]
    BY <2>1, SubSeqProperties
  <2>. QED BY <2>1, <2>2
<1>4. v \in ContextRecord
  BY <1>1, <1>3 DEF ContextRecord
<1>5. contexts' = [contexts EXCEPT ![ctx] = v]
  BY DEF hs
<1>6. /\ v.caller = contexts[ctx].caller /\ v.entry = contexts[ctx].entry /\ v.runloop = contexts[ctx].runloop
      /\ v.exception = contexts[ctx].exception /\ v.handling = contexts[ctx].handling
      /\ v.handlers = SubSeq(hs, n, Len(hs))
  BY <1>1 DEF ContextRecord
<1>. HIDE DEF v
<1>7. \A p \in 1..Len(v.handlers) : v.handlers[p].frame = 0 /\ v.handlers[p].runloop_id = v.runloop
  <2>1. ASSUME NEW p \in 1..Len(hs) - n + 1
        PROVE  SubSeq(hs, n, Len(hs))[p].frame = 0 /\ SubSeq(hs, n, Len(hs))[p].runloop_id = contexts[ctx].runloop
    BY <1>1, <1>3
  <2>. QED BY <1>3, <1>6, <2>1
<1>. QED BY <1>4, <1>5, <1>6, <1>7, OpHandlers

LEMMA PopUptoEhKeeps ==
  ASSUME ExInv, PopUptoEh
  PROVE  ExInv'
<1>. DEFINE hs == Handlers(ctx)
            Is(h) == <<ctx, h.n>> = Last(exceptions[contexts[ctx].exception].had)
            I == {i \in 1..Len(hs) : Is(hs[i])}
            n == SelectInSeq(hs, Is)
<1>1. InOp /\ n # 0
  BY DEF PopUptoEh
<1>2. Len(hs) \in Nat
  <2>1. contexts[ctx].handlers \in Seq(HandlerRecord)
    BY <1>1, OpFacts DEF ContextRecord
  <2>. QED BY <2>1, LenProperties DEF Handlers
<1>3. n = IF I # {} THEN Min(I) ELSE 0
  BY DEF SelectInSeq
<1>. HIDE DEF Is, n
<1>4. I # {} /\ n = Min(I)
  BY <1>1, <1>3
<1>5. I \subseteq Nat /\ \E i \in I : \A j \in I : i <= j
  <2>1. I \in SUBSET Nat
    BY <1>2
  <2>. HIDE DEF I
  <2>. QED BY <1>4, <2>1, LeastNatural
<1>6. n \in I
  BY <1>4, <1>5 DEF Min
<1>7. n \in 1..Len(contexts[ctx].handlers) + 1
  BY <1>2, <1>6 DEF Handlers
<1>. USE DEF n, Is
<1>. QED BY <1>1, <1>7, OpDeletes DEF PopUptoEh

LEMMA PopKeeps ==
  ASSUME ExInv, InOp, Handlers(ctx) # <<>>, contexts' = [contexts EXCEPT ![ctx].handlers = Tail(@)],
         UNCHANGED <<ctx, exceptions, c_stack, runloopVars, ended>>
  PROVE  ExInv'
<1>. DEFINE hs == contexts[ctx].handlers
<1>1. hs \in Seq(HandlerRecord) /\ hs # <<>>
  BY OpFacts DEF ContextRecord, Handlers
<1>. HIDE DEF hs
<1>2. Tail(hs) = SubSeq(hs, 2, Len(hs)) /\ 2 \in 1..Len(hs) + 1
  BY <1>1, TailIsSubSeq, EmptySeq
<1>3. contexts' = [contexts EXCEPT ![ctx].handlers = SubSeq(@, 2, Len(@))]
  BY <1>2 DEF hs
<1>. QED BY <1>2, <1>3, OpDeletes DEF hs
-----------------------------------------------------------------------------
(* A call, from an op or from C code. *)
Called(s, C, u, id) ==
  C \in ContextRecord /\ C.caller = u /\ C.runloop = id /\ C.handlers = <<>> /\ C.exception = 0 /\ ~C.handling

LEMMA CallTyped ==
  ASSUME NEW s, NEW e, NEW u, Typed(s, e, u), NEW C, NEW id, Called(s, C, u, id), id # 0, C.entry => id # 1
  PROVE  /\ Typed(Append(s, C), e, Len(s) + 1) /\ Same(s, Append(s, C)) /\ Len(Append(s, C)) = Len(s) + 1
         /\ Append(s, C)[Len(s) + 1] = C /\ \A c \in 1..Len(s) : Append(s, C)[c] = s[c]
<1>. DEFINE t == Append(s, C)
<1>1. Calls(s) /\ u \in 1..Len(s) /\ e \in Seq(ExceptionRecord) /\ Len(e) \in Nat
  BY LenProperties DEF Typed
<1>2. Len(s) \in Nat /\ DOMAIN s = 1..Len(s) /\ s \in Seq(ContextRecord)
  BY <1>1, CallsFields
<1>3. /\ t \in Seq(ContextRecord) /\ Len(t) = Len(s) + 1 /\ t[Len(s) + 1] = C
      /\ \A c \in 1..Len(s) : t[c] = s[c]
  BY <1>2, AppendProperties DEF Called
<1>. HIDE DEF t
<1>4. DOMAIN t = 1..Len(s) + 1
  BY <1>3, LenProperties
<1>5. Calls(t)
  <2>1. ASSUME NEW c \in 1..Len(s) + 1
        PROVE  t[c].caller < c /\ (c # 1 => t[c].caller # 0) /\ (t[c].entry => t[c].runloop # 1) /\ t[c].runloop # 0
    <3>1. CASE c = Len(s) + 1
      <4>1. t[c] = C /\ u \in Nat /\ u # 0 /\ u < c
        BY <1>1, <1>2, <1>3, <3>1
      <4>. QED BY <4>1 DEF Called
    <3>2. CASE c \in 1..Len(s)
      BY <1>1, <1>2, <1>3, <3>2 DEF Calls
    <3>. QED BY <1>2, <3>1, <3>2
  <2>. QED BY <1>3, <1>4, <2>1 DEF Calls
<1>6. Same(s, t)
  BY <1>1, <1>2, <1>3, <1>5 DEF Same
<1>7. ASSUME NEW c \in 1..Len(t)
      PROVE  t[c].exception \in 0..Len(e) /\ (t[c].handling => t[c].exception # 0) /\ Homely(t, c)
  <2>1. CASE c = Len(s) + 1
    <3>1. t[c].exception = 0 /\ ~t[c].handling /\ t[c].handlers = <<>>
      BY <1>3, <2>1 DEF Called
    <3>2. Len(<<>>) = 0
      OBVIOUS
    <3>3. Homely(t, c)
      BY <3>1, <3>2 DEF Homely
    <3>. QED BY <1>1, <3>1, <3>3
  <2>2. CASE c \in 1..Len(s)
    BY <1>3, <2>2 DEF Typed, Homely
  <2>. QED BY <1>2, <1>3, <2>1, <2>2
<1>8. Len(s) + 1 \in 1..Len(t)
  BY <1>2, <1>3
<1>9. Typed(t, e, Len(s) + 1)
  BY <1>1, <1>5, <1>7, <1>8 DEF Typed
<1>. QED BY <1>3, <1>6, <1>9 DEF t

LEMMA CallPoint ==
  ASSUME NEW K, NEW s, NEW e, NEW st, NEW u, PointsRight(K, s, e, st, u), Typed(s, e, u), st \in Seq(Frame),
         NEW C, NEW id, Called(s, C, u, id), id # 0, C.entry => id # 1,
         NEW r \in Seq(Frame), Len(r) = (IF C.entry THEN Len(st) + 1 ELSE Len(st)),
         \A j \in 1..Len(st) : r[j] = st[j], Loop(r, Len(r)), r[Len(r)].id = id
  PROVE  \E K2 : PointsRight(K2, Append(s, C), e, r, Len(s) + 1)
<1>. DEFINE t == Append(s, C)
            n == Len(s) + 1
            K1 == Upto(K, Len(st), Len(s))
<1>1. /\ Typed(t, e, n) /\ Same(s, t) /\ Len(t) = n /\ t[n] = C /\ \A c \in 1..Len(s) : t[c] = s[c]
  BY CallTyped
<1>. HIDE DEF t
<1>2. /\ Nested(s, st, u) /\ Len(st) \in Nat /\ Len(st) # 0 /\ Len(s) \in Nat /\ u \in 1..Len(s) /\ u \in 0..Len(s)
      /\ u \in Up(s, u) /\ Up(s, u) \subseteq 1..u
  BY AreNested
<1>3. n \in Nat /\ n # 0 /\ u < n /\ n \in 0..Len(t) /\ n \in 1..Len(t) /\ u \in Nat
  BY <1>1, <1>2
<1>4. /\ Up(t, n) = {n} \cup Up(t, u) /\ Up(t, u) = Up(s, u) /\ Up(s, u) \subseteq 1..Len(s) /\ n \notin Up(s, u)
  <2>1. Calls(t)
    BY <1>1 DEF Same
  <2>2. Up(t, n) = {n} \cup Up(t, u)
    BY <1>1, <1>3, <2>1, UpIs DEF Called
  <2>3. Up(t, u) = Up(s, u)
    BY <1>1, <1>2, UpSame
  <2>. QED BY <1>2, <2>2, <2>3
<1>5. /\ Len(r) \in Nat /\ Len(st) <= Len(r) /\ Len(r) \in 1..Len(r) /\ Len(r) # 0
      /\ \A j \in 1..Len(r) : ~Loop(r, j) => j \in 1..Len(st) /\ j < Len(r)
  <2>1. Len(r) \in Nat /\ Len(st) <= Len(r) /\ Len(r) <= Len(st) + 1
    BY <1>2
  <2>2. ASSUME NEW j \in 1..Len(r), ~Loop(r, j) PROVE j \in 1..Len(st) /\ j < Len(r)
    <3>1. j # Len(r)
      BY <2>2
    <3>. QED BY <1>2, <2>1, <3>1
  <2>. QED BY <1>2, <2>1, <2>2
<1>6. Sound(K1, t, e, r)
  <2>1. \A i \in 1..Len(st) : Alike(st[i], r[i])
    BY DEF Alike
  <2>2. \A x : PendingIn(x, r) => PendingIn(x, st)
    <3>. SUFFICES ASSUME NEW x, NEW i \in 1..Len(r), r[i].kind = "phasers", x \in ToSet(r[i].caught)
                  PROVE  PendingIn(x, st)
      BY DEF PendingIn
    <3>1. i \in 1..Len(st)
      BY <1>5 DEF Loop
    <3>. QED BY <3>1 DEF PendingIn
  <2>3. \A k \in K : \A a \in Up(s, k.ctx) : k.marks[a] # 0 => StaysHandled(k.marks[a], e, e, r)
    BY <2>2, StillHandled DEF PointsRight
  <2>4. \A k \in K1 : \A a \in Up(s, k.ctx) : k.marks[a] # 0 => StaysHandled(k.marks[a], e, e, r)
    BY <2>3 DEF Upto
  <2>5. Sound(K, s, e, st)
    BY DEF PointsRight
  <2>. QED BY <1>1, <1>2, <1>5, <2>1, <2>4, <2>5, PointsStay
<1>7. PICK k \in K : Shows(k, u, Marks(s), Len(st))
  BY DEF PointsRight
<1>8. k \in K1 /\ k.time <= Len(s) /\ k.time < n /\ k.ctx = u /\ k.depth = Len(st)
  <2>1. k.time <= Len(s) /\ k.ctx = u /\ k.depth = Len(st) /\ k.time \in Nat
    BY <1>7 DEF PointsRight, Sound, Placed, Shows, Points
  <2>2. Len(st) <= Len(st)
    BY <1>2
  <2>. QED BY <1>2, <2>1, <2>2 DEF Upto
<1>. HIDE DEF K1
<1>9. /\ Placed(k, t, e, r) /\ Catches(k, K1, t, r) /\ Unwinds(k, K1, t, r)
  BY <1>6, <1>8 DEF Sound
<1>10. /\ \A a \in 1..k.time : k.marks[a] = Marks(t)[a]
       /\ Marks(t)[n] = 0 /\ Marks(t) \in [Nat -> Nat]
  <2>1. \A a \in 1..k.time : a \in 1..Len(s) /\ a \in Nat /\ a \in 1..Len(t)
    <3>1. k.time \in Nat
      BY <1>8 DEF K1, Upto, PointsRight, Sound, Points
    <3>. QED BY <1>1, <1>2, <1>8, <3>1
  <2>2. \A a \in 1..k.time : Marks(s)[a] = Marks(t)[a]
    BY <1>1, <2>1 DEF Marks
  <2>3. \A a \in 1..k.time : k.marks[a] = Marks(s)[a]
    BY <1>7 DEF Shows, Agrees
  <2>4. Marks(t)[n] = 0
    BY <1>1, <1>3 DEF Marks, Called
  <2>5. \A a \in 1..Len(t) : t[a].exception \in Nat
    <3>1. Len(e) \in Nat
      BY <1>1, LenProperties DEF Typed
    <3>. QED BY <1>1, <3>1 DEF Typed
  <2>6. Marks(t) \in [Nat -> Nat]
    BY <2>5 DEF Marks
  <2>. QED BY <2>2, <2>3, <2>4, <2>6
<1>. DEFINE p == [ctx |-> n, marks |-> Marks(t), depth |-> Len(r), time |-> n]
<1>11. p \in Points
  BY <1>3, <1>5, <1>10 DEF Points
<1>12. p.ctx = n /\ p.marks = Marks(t) /\ p.depth = Len(r) /\ p.time = n
  OBVIOUS
<1>. HIDE DEF p, n
<1>agree. ASSUME NEW q \in K1, q.time <= k.time
          PROVE  /\ Agrees(q, k.marks) => Agrees(q, Marks(t))
                 /\ \A c : Agrees(q, [k.marks EXCEPT ![c] = 0]) => Agrees(q, [Marks(t) EXCEPT ![c] = 0])
  <2>1. q.time \in Nat /\ k.time \in Nat
    BY <1>6, <1>8 DEF Sound, Points
  <2>2. k.marks \in [Nat -> Nat]
    BY <1>6, <1>8 DEF Sound, Points
  <2>. QED BY <1>10, <1>agree, <2>1, <2>2, AgreesToo
<1>13. \A j \in 1..Len(r) : ~Loop(r, j) => j \in 1..k.depth /\ r[j].ctx \in Up(s, u) /\ r[j].ctx < n
  <2>. SUFFICES ASSUME NEW j \in 1..Len(r), ~Loop(r, j) PROVE j \in 1..k.depth /\ r[j].ctx \in Up(s, u) /\ r[j].ctx < n
    OBVIOUS
  <2>1. j \in 1..Len(st) /\ r[j] = st[j]
    BY <1>5
  <2>2. st[j].ctx \in Up(s, u)
    BY <1>2, <2>1 DEF Nested, Loop
  <2>3. st[j].ctx \in 1..u
    BY <1>2, <2>2
  <2>. QED BY <1>3, <1>8, <2>1, <2>2, <2>3
<1>14. Placed(p, t, e, r)
  <2>1. \A a \in Up(t, n) : p.marks[a] # 0 => Marked(p.marks[a], a, t, e, r)
    <3>. SUFFICES ASSUME NEW a \in Up(t, n), p.marks[a] # 0 PROVE Marked(p.marks[a], a, t, e, r)
      OBVIOUS
    <3>1. a \in Up(t, u) /\ a \in Up(s, u)
      BY <1>4, <1>10, <1>12
    <3>2. p.marks[a] = k.marks[a]
      <4>1. a \in 1..u /\ u <= k.time /\ k.time \in Nat
        BY <1>2, <1>6, <1>8, <1>9, <3>1 DEF Placed, Sound, Points
      <4>2. a \in 1..k.time
        BY <1>3, <4>1
      <4>. QED BY <1>10, <1>12, <4>2
    <3>. QED BY <1>8, <1>9, <3>1, <3>2 DEF Placed
  <2>2. t[n].runloop = id
    BY <1>1 DEF Called
  <2>3. n <= n
    BY <1>3
  <2>. QED BY <1>1, <1>3, <1>4, <1>5, <1>12, <1>13, <2>1, <2>2, <2>3 DEF Placed
<1>15. Returns(p, K1 \cup {p}, t, r)
  <2>1. t[n].caller = u /\ t[n].entry = C.entry
    BY <1>1 DEF Called
  <2>2. (IF C.entry THEN Len(r) - 1 ELSE Len(r)) = k.depth
    BY <1>2, <1>8
  <2>3. Shows(k, u, Marks(t), k.depth)
    BY <1>8, <1>10 DEF Shows, Agrees
  <2>. QED BY <1>8, <1>12, <2>1, <2>2, <2>3 DEF Returns
<1>16. Resumes(p, K1 \cup {p}, t, e, r)
  BY <1>10, <1>12 DEF Resumes
<1>17. Leaves(p, K1 \cup {p}, t, r)
  BY <1>12 DEF Leaves
<1>18. Catches(p, K1 \cup {p}, t, r)
  <2>. SUFFICES ASSUME NEW j \in 1..Len(r), ~Loop(r, j)
                PROVE  \E q \in K1 : /\ Shows(q, r[j].ctx, Marks(t), j) /\ q.time <= n
                                     /\ \A b \in Up(t, n) : b > r[j].ctx => q.time < b
    BY <1>12 DEF Catches
  <2>1. j \in 1..k.depth /\ r[j].ctx \in Up(s, u)
    BY <1>13
  <2>2. PICK q \in K1 : /\ Shows(q, r[j].ctx, k.marks, j) /\ q.time <= k.time
                        /\ \A b \in Up(t, u) : b > r[j].ctx => q.time < b
    BY <1>8, <1>9, <2>1 DEF Catches
  <2>3. q.time < n /\ q.time <= n
    <3>1. q.time \in Nat /\ k.time \in Nat
      BY <1>6, <1>8 DEF Sound, Points
    <3>. QED BY <1>3, <1>8, <2>2, <3>1
  <2>5. Shows(q, r[j].ctx, Marks(t), j)
    BY <1>agree, <2>2 DEF Shows
  <2>. QED BY <1>4, <2>2, <2>3, <2>5
<1>19. Unwinds(p, K1 \cup {p}, t, r)
  <2>. SUFFICES ASSUME NEW c \in Up(t, n) PROVE \E q \in K1 \cup {p} : Unwound(q, c, p, t, r)
    BY <1>12 DEF Unwinds
  <2>1. CASE c = n
    <3>1. t[n].runloop = id /\ n <= n /\ Len(r) <= Len(r)
      BY <1>1, <1>3, <1>5 DEF Called
    <3>2. [Marks(t) EXCEPT ![n] = 0] = Marks(t)
      BY <1>10
    <3>3. Agrees(p, [p.marks EXCEPT ![n] = 0])
      BY <1>12, <3>2 DEF Agrees
    <3>4. Unwound(p, n, p, t, r)
      <4>1. \A j \in 1..p.depth : ~Loop(r, j) => j < p.depth
        BY <1>5, <1>12
      <4>. QED BY <1>12, <3>1, <3>3, <4>1 DEF Unwound
    <3>. QED BY <2>1, <3>4
  <2>2. CASE c \in Up(t, u)
    <3>1. PICK q \in K1 : Unwound(q, c, k, t, r)
      BY <1>8, <1>9, <2>2 DEF Unwinds
    <3>2. q.depth <= Len(r)
      <4>1. q.depth \in Nat /\ q.depth <= Len(st)
        BY <1>6, <1>8, <3>1 DEF Unwound, Sound, Points
      <4>. QED BY <1>2, <1>5, <4>1
    <3>3. q.time <= k.time
      <4>1. q.time \in Nat /\ k.time \in Nat /\ q.time <= c /\ c \in 1..u /\ u <= k.time
        BY <1>2, <1>4, <1>6, <1>8, <1>9, <2>2, <3>1 DEF Placed, Sound, Points, Unwound
      <4>. QED BY <1>3, <4>1
    <3>4. Agrees(q, [Marks(t) EXCEPT ![c] = 0])
      BY <1>agree, <3>1, <3>3 DEF Unwound
    <3>5. \A j \in 1..Len(r) : ~Loop(r, j) /\ r[j].ctx < c => j < q.depth
      BY <1>13, <3>1 DEF Unwound
    <3>6. Unwound(q, c, p, t, r)
      BY <1>12, <3>1, <3>2, <3>4, <3>5 DEF Unwound
    <3>. QED BY <3>6
  <2>. QED BY <1>4, <2>1, <2>2
<1>20. Sound(K1 \cup {p}, t, e, r)
  BY <1>6, <1>11, <1>14, <1>15, <1>16, <1>17, <1>18, <1>19, PointAdded
<1>21. Catchers(K1 \cup {p}, t, r)
  <2>1. ASSUME NEW c \in 1..Len(s), CatchersOf(c, s, st) PROVE CatchersOf(c, t, r)
    <3>. SUFFICES ASSUME NEW h \in 1..Len(s[c].handlers), s[c].handlers[h].frame # 0
                  PROVE  h = 1 /\ Catching(s[c].handlers[h].frame, c, r)
      BY <1>1 DEF CatchersOf
    <3>. DEFINE j == s[c].handlers[h].frame
    <3>1. h = 1 /\ Catching(j, c, st)
      BY <2>1 DEF CatchersOf
    <3>. HIDE DEF j
    <3>2. j \in 1..Len(r) /\ r[j] = st[j]
      BY <1>2, <1>5, <3>1 DEF Catching
    <3>3. Catching(j, c, r)
      BY <3>1, <3>2 DEF Catching, Loop
    <3>. QED BY <3>1, <3>3 DEF j
  <2>2. ASSUME NEW q \in K1, NEW c \in Up(t, q.ctx) PROVE CatchersOf(c, t, r)
    <3>1. q \in K /\ Sound(K, s, e, st)
      BY DEF K1, Upto, PointsRight
    <3>2. q.ctx \in 1..Len(s)
      BY <3>1 DEF Sound, Placed
    <3>3. q.ctx \in 0..Len(s) /\ Calls(s)
      BY <1>2, <3>2 DEF Typed
    <3>4. c \in Up(s, q.ctx)
      BY <1>1, <3>3, UpSame
    <3>5. c \in 1..q.ctx
      BY <3>3, <3>4, UpBelow
    <3>6. c \in 1..Len(s)
      BY <1>2, <3>2, <3>5
    <3>7. CatchersOf(c, s, st)
      BY <3>1, <3>4 DEF PointsRight, Catchers
    <3>. QED BY <2>1, <3>6, <3>7
  <2>3. ASSUME NEW c \in Up(t, p.ctx) PROVE CatchersOf(c, t, r)
    <3>1. CASE c = n
      <4>1. t[n].handlers = <<>> /\ Len(<<>>) = 0
        BY <1>1 DEF Called
      <4>. QED BY <3>1, <4>1 DEF CatchersOf
    <3>2. CASE c \in Up(t, k.ctx)
      BY <1>8, <2>2, <3>2
    <3>. QED BY <1>4, <1>8, <1>12, <3>1, <3>2
  <2>. QED BY <2>2, <2>3 DEF Catchers
<1>22. Shows(p, n, Marks(t), Len(r))
  BY <1>12 DEF Shows, Agrees
<1>23. PointsRight(K1 \cup {p}, t, e, r, n)
  BY <1>20, <1>21, <1>22 DEF PointsRight
<1>. QED BY <1>23 DEF t, n
LEMMA ContextIs ==
  ASSUME NEW u \in Nat, NEW id \in Nat, NEW entry \in BOOLEAN, NEW s
  PROVE  Called(s, Context(u, id, entry), u, id) /\ Context(u, id, entry).entry = entry
<1>1. <<>> \in Seq(HandlerRecord)
  OBVIOUS
<1>. QED BY <1>1 DEF Called, Context, ContextRecord

LEMMA CallSubKeeps ==
  ASSUME ExInv, CallSub
  PROVE  ExInv'
<1>. DEFINE C == Context(ctx, current_runloop_id, FALSE)
<1>1. InOp /\ UNCHANGED <<exceptions, c_stack, runloops, current_runloop_id, current_runloop_level, runloop_id_counter, ended>>
      /\ contexts' = Append(contexts, C) /\ ctx' = Len(contexts) + 1
  BY DEF CallSub, runloopVars
<1>2. /\ Typed(contexts, exceptions, ctx) /\ Chain(c_stack, runloops, runloop_id_counter)
      /\ FramesRight(contexts, exceptions, c_stack)
  BY DEF ExInv
<1>3. PICK K : PointsRight(K, contexts, exceptions, c_stack, ctx)
  BY DEF ExInv
<1>4. /\ Len(c_stack) \in Nat /\ HasLoop(c_stack, Len(c_stack)) /\ current_runloop_id = c_stack[Len(c_stack)].id
      /\ ctx \in 1..Len(contexts) /\ Len(contexts) \in Nat
      /\ \A j \in 1..Len(c_stack) : ~Loop(c_stack, j) => c_stack[j].ctx \in Up(contexts, ctx)
  BY <1>1, OpFacts
<1>5. current_runloop_id \in Nat /\ current_runloop_id # 0 /\ ctx \in Nat
  <2>1. current_runloop_id \in 1..runloop_id_counter /\ runloop_id_counter \in Nat
    BY <1>2, <1>4 DEF Chain
  <2>. QED BY <1>4, <2>1
<1>6. Called(contexts, C, ctx, current_runloop_id) /\ C.entry = FALSE
  BY <1>5, ContextIs
<1>. HIDE DEF C
<1>7. /\ Typed(contexts', exceptions, ctx') /\ Same(contexts, contexts') /\ Len(contexts') = Len(contexts) + 1
      /\ \A c \in 1..Len(contexts) : contexts'[c] = contexts[c]
  BY <1>1, <1>2, <1>5, <1>6, CallTyped
<1>8. FramesRight(contexts', exceptions, c_stack)
  <2>1. Len(c_stack) <= Len(c_stack)
    BY <1>4
  <2>2. ASSUME NEW j \in 1..Len(c_stack), ~Loop(c_stack, j)
        PROVE  /\ c_stack[j].trying => Headed(contexts', c_stack[j].ctx, j)
               /\ \A x \in ToSet(c_stack[j].caught) : x \in 1..Len(exceptions) /\ exceptions[x].context = c_stack[j].ctx
    <3>1. Framed(contexts, exceptions, c_stack, j)
      BY <1>2, <2>2 DEF FramesRight
    <3>2. c_stack[j].ctx \in 1..Len(contexts)
      <4>1. Up(contexts, ctx) \subseteq 1..ctx
        BY <1>2, <1>3, AreNested DEF Chain
      <4>. QED BY <1>4, <2>2, <4>1
    <3>3. contexts'[c_stack[j].ctx] = contexts[c_stack[j].ctx]
      BY <1>7, <3>2
    <3>. QED BY <3>1, <3>3 DEF Framed, Headed
  <2>. QED BY <1>2, <1>4, <2>1, <2>2, FramesKeep
<1>9. \E K2 : PointsRight(K2, contexts', exceptions, c_stack, ctx')
  <2>1. Loop(c_stack, Len(c_stack)) /\ c_stack \in Seq(Frame)
    BY <1>2, <1>4 DEF HasLoop, Chain
  <2>. QED BY <1>1, <1>2, <1>3, <1>4, <1>5, <1>6, <2>1, CallPoint
<1>. QED BY <1>1, <1>2, <1>7, <1>8, <1>9 DEF ExInv

LEMMA CallFromCKeeps ==
  ASSUME Habits = {}, ExInv, CallFromC
  PROVE  ExInv'
<1>. DEFINE id == runloop_id_counter + 1
            C == Context(ctx, id, TRUE)
            f == [kind |-> "runops", id |-> id]
            r == Append(c_stack, f)
<1>1. /\ InOp \/ (Innermost("phasers") /\ Last(c_stack).trying)
      /\ contexts' = Append(contexts, C) /\ ctx' = Len(contexts) + 1 /\ c_stack' = r /\ runloop_id_counter' = id
      /\ SetRunloops(Append(runloops, id)) /\ UNCHANGED <<exceptions, ended>>
  BY DEF CallFromC
<1>2. /\ Typed(contexts, exceptions, ctx) /\ Chain(c_stack, runloops, runloop_id_counter)
      /\ FramesRight(contexts, exceptions, c_stack)
  BY DEF ExInv
<1>3. PICK K : PointsRight(K, contexts, exceptions, c_stack, ctx)
  BY DEF ExInv
<1>4. c_stack \in Seq(Frame) /\ runloops \in Seq(Nat) /\ runloop_id_counter \in Nat /\ runloop_id_counter # 0
  <2>1. c_stack[1].id \in 1..runloop_id_counter /\ runloop_id_counter \in Nat
    BY <1>2 DEF Chain
  <2>. QED BY <1>2, <2>1 DEF Chain
<1>5. /\ Nested(contexts, c_stack, ctx) /\ Len(c_stack) \in Nat /\ Len(c_stack) # 0 /\ Len(contexts) \in Nat
      /\ ctx \in 1..Len(contexts) /\ Up(contexts, ctx) \subseteq 1..ctx /\ ctx \in Nat
  BY <1>2, <1>3, <1>4, AreNested
<1>6. id \in Nat /\ id # 0 /\ id # 1
  BY <1>4
<1>7. Called(contexts, C, ctx, id) /\ C.entry = TRUE
  BY <1>5, <1>6, ContextIs
<1>8. Chain(r, Append(runloops, id), id)
  BY <1>2, ChainMore
<1>9. /\ Append(runloops, id) # <<>> /\ Len(Append(runloops, id)) = Len(runloops) + 1 /\ Len(runloops) \in Nat
      /\ Append(runloops, id)[Len(runloops) + 1] = id
  <2>1. runloops \in Seq(Nat) /\ id \in Nat
    BY <1>4, <1>6
  <2>2. Len(runloops) \in Nat
    BY <2>1, LenProperties
  <2>. HIDE DEF id
  <2>3. /\ Append(runloops, id) # <<>> /\ Len(Append(runloops, id)) = Len(runloops) + 1
        /\ Append(runloops, id)[Len(runloops) + 1] = id
    BY <2>1, AppendProperties
  <2>. QED BY <2>2, <2>3
<1>10. f \in Frame /\ f.kind = "runops" /\ f.id = id
  BY <1>6 DEF Frame, RunopsFrame
<1>. HIDE DEF C, id, f
<1>11. /\ r \in Seq(Frame) /\ Len(r) = Len(c_stack) + 1 /\ r[Len(c_stack) + 1] = f
       /\ \A j \in 1..Len(c_stack) : r[j] = c_stack[j]
  BY <1>4, <1>10, AppendProperties
<1>12. /\ runloops' = Append(runloops, id) /\ current_runloop_id' = runloops'[Len(runloops')]
       /\ current_runloop_level' = Len(runloops')
  BY <1>1, <1>9 DEF SetRunloops, ExInv, Last
<1>13. /\ Typed(contexts', exceptions, ctx') /\ Len(contexts') = Len(contexts) + 1
       /\ \A c \in 1..Len(contexts) : contexts'[c] = contexts[c]
  BY <1>1, <1>2, <1>5, <1>6, <1>7, CallTyped
<1>14. FramesRight(contexts', exceptions, c_stack)
  <2>1. Len(c_stack) <= Len(c_stack)
    BY <1>5
  <2>2. ASSUME NEW j \in 1..Len(c_stack), ~Loop(c_stack, j)
        PROVE  /\ c_stack[j].trying => Headed(contexts', c_stack[j].ctx, j)
               /\ \A x \in ToSet(c_stack[j].caught) : x \in 1..Len(exceptions) /\ exceptions[x].context = c_stack[j].ctx
    <3>1. Framed(contexts, exceptions, c_stack, j)
      BY <1>2, <2>2 DEF FramesRight
    <3>2. c_stack[j].ctx \in 1..Len(contexts)
      <4>1. c_stack[j].ctx \in Up(contexts, ctx)
        BY <1>5, <2>2 DEF Nested
      <4>. QED BY <1>5, <4>1
    <3>3. contexts'[c_stack[j].ctx] = contexts[c_stack[j].ctx]
      BY <1>13, <3>2
    <3>. QED BY <3>1, <3>3 DEF Framed, Headed
  <2>. QED BY <1>2, <1>5, <2>1, <2>2, FramesKeep
<1>15. FramesRight(contexts', exceptions, r)
  <2>1. ~Loop(c_stack, Len(c_stack)) => c_stack[Len(c_stack)].kind = "phasers" /\ c_stack[Len(c_stack)].trying
    BY <1>1 DEF InOp, Innermost, Last, Loop
  <2>. QED BY <1>4, <1>10, <1>14, <2>1, FramesAdd
<1>16. \E K2 : PointsRight(K2, contexts', exceptions, r, ctx')
  <2>1. Loop(r, Len(r)) /\ r[Len(r)].id = id
    BY <1>10, <1>11 DEF Loop
  <2>2. Len(r) = IF C.entry THEN Len(c_stack) + 1 ELSE Len(c_stack)
    BY <1>7, <1>11
  <2>. HIDE DEF r
  <2>. QED BY <1>1, <1>2, <1>3, <1>4, <1>6, <1>7, <1>11, <2>1, <2>2, CallPoint
<1>. QED BY <1>1, <1>8, <1>12, <1>13, <1>15, <1>16 DEF ExInv

(* The points to which control is cut back: no frame of C code above them
   catches for a call that is kept. *)
Holds(c, s, t, st, r) ==
  \/ \A h \in 1..Len(t[c].handlers) : t[c].handlers[h].frame = 0
  \/ /\ t[c].handlers = s[c].handlers
     /\ \A j \in 1..Len(r) : ~Loop(st, j) /\ st[j].ctx = c /\ st[j].trying => r[j].trying

LEMMA PointsCut ==
  ASSUME NEW K, NEW s, NEW e, NEW st, Sound(K, s, e, st), Catchers(K, s, st), NEW t, NEW f, NEW r, Same(s, t), NEW n \in Nat,
         Len(st) \in Nat, Len(r) \in Nat, Len(r) <= Len(st), \A i \in 1..Len(r) : Alike(st[i], r[i]),
         \A k \in Upto(K, Len(r), n) : \A a \in Up(s, k.ctx) :
            k.marks[a] # 0 => StaysHandled(k.marks[a], e, f, r),
         \A c \in 1..Len(s) : Holds(c, s, t, st, r),
         \A j \in 1..Len(st) : ~Loop(st, j) /\ j > Len(r) /\ st[j].trying =>
            st[j].ctx > n \/ \A h \in 1..Len(t[st[j].ctx].handlers) : t[st[j].ctx].handlers[h].frame = 0,
         NEW q \in K, q.time <= n, NEW u, Shows(q, u, Marks(t), Len(r))
  PROVE  PointsRight(Upto(K, Len(r), n), t, f, r, u)
<1>1. ASSUME NEW k \in Upto(K, Len(r), n), NEW c \in Up(s, k.ctx) PROVE CatchersOf(c, t, r)
  <2>1. k \in K /\ k.time <= n /\ k.time \in Nat
    BY DEF Upto, Sound, Points
  <2>2. k.ctx \in 1..Len(s) /\ k.ctx <= k.time
    BY <2>1 DEF Sound, Placed
  <2>3. Len(s) \in Nat /\ k.ctx \in 0..Len(s) /\ Calls(s)
    BY <2>2, CallsFields DEF Same
  <2>4. c \in 1..k.ctx
    BY <2>3, UpBelow
  <2>5. c \in 1..Len(s) /\ c <= n /\ c \in Nat
    BY <2>1, <2>2, <2>3, <2>4
  <2>6. CatchersOf(c, s, st)
    BY <2>1 DEF Catchers
  <2>. SUFFICES ASSUME NEW h \in 1..Len(t[c].handlers), t[c].handlers[h].frame # 0
                PROVE  h = 1 /\ Catching(t[c].handlers[h].frame, c, r)
    BY DEF CatchersOf
  <2>7. /\ t[c].handlers = s[c].handlers
        /\ \A i \in 1..Len(r) : ~Loop(st, i) /\ st[i].ctx = c /\ st[i].trying => r[i].trying
    BY <2>5 DEF Holds
  <2>. DEFINE j == t[c].handlers[h].frame
  <2>8. h = 1 /\ Catching(j, c, st)
    BY <2>6, <2>7 DEF CatchersOf
  <2>9. ~(j > Len(r))
    <3>1. j > Len(r) => c > n
      <4>1. j \in 1..Len(st) /\ ~Loop(st, j) /\ st[j].trying /\ st[j].ctx = c
        BY <2>8 DEF Catching
      <4>. QED BY <4>1
    <3>. QED BY <2>5, <3>1
  <2>. HIDE DEF j
  <2>10. j \in 1..Len(r)
    <3>1. j \in 1..Len(st)
      BY <2>8 DEF Catching
    <3>. QED BY <2>9, <3>1
  <2>11. Catching(j, c, r)
    <3>1. Alike(st[j], r[j])
      BY <2>10
    <3>. QED BY <2>7, <2>8, <2>10, <3>1 DEF Catching, Loop, Alike
  <2>. QED BY <2>8, <2>11 DEF j
<1>. QED BY <1>1, PointsKeep
-----------------------------------------------------------------------------
(* Where it starts. *)
LEMMA StartHolds == ExInit => ExInv
<1>. SUFFICES ASSUME ExInit PROVE ExInv
  OBVIOUS
<1>. DEFINE C == Context(0, 1, FALSE)
            k == [ctx |-> 1, marks |-> [a \in Nat |-> 0], depth |-> 1, time |-> 1]
            f == [kind |-> "runops", id |-> 1]
<1>1. /\ contexts = <<C>> /\ ctx = 1 /\ exceptions = <<>> /\ ended = 0 /\ c_stack = <<f>> /\ runloops = <<1>>
      /\ current_runloop_id = 1 /\ current_runloop_level = 1 /\ runloop_id_counter = 1
  BY DEF ExInit
<1>2. Called(contexts, C, 0, 1) /\ C.entry = FALSE
  BY ContextIs
<1>3. f \in Frame /\ f.kind = "runops" /\ f.id = 1
  BY DEF Frame, RunopsFrame
<1>. HIDE DEF C, f
<1>4. /\ contexts \in Seq(ContextRecord) /\ DOMAIN contexts = 1..1 /\ Len(contexts) = 1 /\ contexts[1] = C
  BY <1>1, <1>2 DEF Called
<1>5. c_stack \in Seq(Frame) /\ Len(c_stack) = 1 /\ c_stack[1] = f
  BY <1>1, <1>3
<1>6. \A j \in 1..1 : j = 1
  OBVIOUS
<1>7. Calls(contexts)
  BY <1>2, <1>4, <1>6 DEF Calls, Called
<1>8. Typed(contexts, exceptions, ctx)
  <2>1. exceptions \in Seq(ExceptionRecord) /\ Len(exceptions) = 0 /\ \A x \in 1..0 : FALSE
    BY <1>1
  <2>2. contexts[1].exception = 0 /\ ~contexts[1].handling /\ Len(contexts[1].handlers) = 0
    BY <1>2, <1>4 DEF Called
  <2>3. Homely(contexts, 1)
    BY <2>1, <2>2 DEF Homely
  <2>4. 0 \in 0..0
    OBVIOUS
  <2>. QED BY <1>1, <1>4, <1>6, <1>7, <2>1, <2>2, <2>3, <2>4 DEF Typed
<1>9. Loop(c_stack, 1) /\ c_stack[1].id = 1
  BY <1>3, <1>5 DEF Loop
<1>10. FramesRight(contexts, exceptions, c_stack)
  BY <1>5, <1>6, <1>9 DEF FramesRight
<1>11. Chain(c_stack, runloops, runloop_id_counter)
  <2>1. runloops \in Seq(Nat) /\ Len(runloops) = 1 /\ runloops[1] = 1 /\ 1 \in 1..1 /\ ~(1 < 1)
    BY <1>1
  <2>2. \A i : HasLoop(c_stack, i) <=> i = 1
    BY <1>5, <1>6, <1>9, <2>1 DEF HasLoop
  <2>3. LoopsApart(c_stack)
    BY <1>5, <1>6, <1>9, <2>1 DEF LoopsApart
  <2>. QED BY <1>1, <1>5, <1>6, <1>9, <2>1, <2>2, <2>3 DEF Chain
<1>12. k \in Points /\ k.ctx = 1 /\ k.depth = 1 /\ k.time = 1 /\ k.marks = [a \in Nat |-> 0] /\ k.marks[1] = 0
  BY DEF Points
<1>. HIDE DEF k
<1>13. Up(contexts, 1) = {1}
  <2>1. Up(contexts, 0) = {} /\ Up(contexts, 1) = {1} \cup Up(contexts, contexts[1].caller)
    <3>1. 1 \in 1..Len(contexts)
      BY <1>4
    <3>. QED BY <1>7, <3>1, UpIs
  <2>. QED BY <1>2, <1>4, <2>1 DEF Called
<1>14. contexts[1].runloop = 1 /\ Len(contexts[1].handlers) = 0 /\ ~contexts[1].handling
  BY <1>2, <1>4 DEF Called
<1>15. Sound({k}, contexts, exceptions, c_stack)
  <2>1. Placed(k, contexts, exceptions, c_stack)
    BY <1>4, <1>5, <1>6, <1>9, <1>12, <1>13, <1>14 DEF Placed
  <2>2. Returns(k, {k}, contexts, c_stack) /\ Resumes(k, {k}, contexts, exceptions, c_stack)
    BY <1>12 DEF Returns, Resumes
  <2>3. Leaves(k, {k}, contexts, c_stack) /\ Catches(k, {k}, contexts, c_stack)
    BY <1>6, <1>9, <1>12 DEF Leaves, Catches
  <2>4. Unwinds(k, {k}, contexts, c_stack)
    <3>1. Agrees(k, [k.marks EXCEPT ![1] = 0])
      <4>1. [k.marks EXCEPT ![1] = 0] = k.marks
        BY <1>12
      <4>. QED BY <4>1 DEF Agrees
    <3>2. Unwound(k, 1, k, contexts, c_stack)
      BY <1>6, <1>9, <1>12, <1>14, <3>1 DEF Unwound
    <3>. QED BY <1>12, <1>13, <3>2 DEF Unwinds
  <2>. QED BY <1>12, <2>1, <2>2, <2>3, <2>4 DEF Sound
<1>16. Catchers({k}, contexts, c_stack)
  <2>1. CatchersOf(1, contexts, c_stack)
    BY <1>14 DEF CatchersOf
  <2>. QED BY <1>12, <1>13, <2>1 DEF Catchers
<1>17. Shows(k, ctx, Marks(contexts), Len(c_stack))
  <2>1. \A a \in 1..1 : a \in Nat /\ k.marks[a] = 0 /\ Marks(contexts)[a] = 0
    BY <1>6, <1>12, <1>14 DEF Marks
  <2>. QED BY <1>1, <1>5, <1>12, <2>1 DEF Shows, Agrees
<1>18. PointsRight({k}, contexts, exceptions, c_stack, ctx)
  BY <1>15, <1>16, <1>17 DEF PointsRight
<1>19. Len(runloops) = 1 /\ runloops[1] = 1
  BY <1>1
<1>. QED BY <1>1, <1>8, <1>10, <1>11, <1>18, <1>19 DEF ExInv

(* The C stack cut. *)
LEMMA PrefixIs ==
  ASSUME NEW S, NEW q \in Seq(S), NEW d \in 0..Len(q)
  PROVE  /\ SubSeq(q, 1, d) \in Seq(S) /\ Len(SubSeq(q, 1, d)) = d
         /\ \A j \in 1..d : SubSeq(q, 1, d)[j] = q[j] /\ j \in 1..Len(q)
<1>1. Len(q) \in Nat /\ \A j \in 1..Len(q) : q[j] \in S
  BY LenProperties, ElementOfSeq
<1>2. 1 \in Int /\ d \in Int /\ (\A j \in 1..d : q[j] \in S /\ j \in 1..Len(q)) /\ d - 1 + 1 = d
  BY <1>1
<1>3. /\ SubSeq(q, 1, d) \in Seq(S) /\ Len(SubSeq(q, 1, d)) = IF 1 <= d THEN d - 1 + 1 ELSE 0
      /\ \A j \in 1..d - 1 + 1 : SubSeq(q, 1, d)[j] = q[1 + j - 1]
  BY <1>2, SubSeqProperties
<1>4. \A j \in 1..d : 1 + j - 1 = j
  BY <1>1
<1>. QED BY <1>1, <1>2, <1>3, <1>4

LEMMA JumpIs ==
  ASSUME LoopsApart(c_stack), NEW d, HasLoop(c_stack, d), c_stack \in Seq(Frame)
  PROVE  JumpTo(c_stack[d].id) = SubSeq(c_stack, 1, d)
<1>1. Len(c_stack) \in Nat /\ d \in 1..Len(c_stack) /\ Loop(c_stack, d) /\ c_stack[d].id \in Nat
  <2>1. d \in 1..Len(c_stack) /\ Loop(c_stack, d)
    BY DEF HasLoop
  <2>. QED BY <2>1, LenProperties DEF LoopsApart
<1>2. ASSUME NEW i \in 1..Len(c_stack), Loop(c_stack, i), c_stack[i].id = c_stack[d].id PROVE i = d
  <2>1. (i < d => c_stack[i].id < c_stack[d].id) /\ (d < i => c_stack[d].id < c_stack[i].id)
    BY <1>1, <1>2 DEF LoopsApart
  <2>. QED BY <1>1, <1>2, <2>1
<1>. DEFINE I == {i \in 1..Len(c_stack) : c_stack[i].kind = "runops" /\ c_stack[i].id = c_stack[d].id}
<1>3. I = {d}
  BY <1>1, <1>2 DEF Loop
<1>4. Max({d}) = d
  BY <1>1 DEF Max
<1>5. SelectLastInSeq(c_stack, LAMBDA f : f.kind = "runops" /\ f.id = c_stack[d].id) = IF I # {} THEN Max(I) ELSE 0
  BY DEF SelectLastInSeq
<1>. HIDE DEF I
<1>6. SelectLastInSeq(c_stack, LAMBDA f : f.kind = "runops" /\ f.id = c_stack[d].id) = d
  BY <1>3, <1>4, <1>5
<1>. QED BY <1>6 DEF JumpTo
-----------------------------------------------------------------------------
(* Control goes back to a point, in the current runloop or one that called it. *)
SameHandled(e, f) ==
  /\ e \in Seq(ExceptionRecord) /\ f \in Seq(ExceptionRecord) /\ Len(f) = Len(e)
  /\ \A x \in 1..Len(e) : /\ f[x].context = e[x].context /\ f[x].handler = e[x].handler
                          /\ f[x].handled = e[x].handled /\ f[x].resume = e[x].resume /\ f[x].before = e[x].before

Refit(s, t, e) ==
  /\ Same(s, t) /\ Len(t) = Len(s)
  /\ \A c \in 1..Len(s) : /\ t[c].handlers = s[c].handlers /\ t[c].exception \in 0..Len(e)
                          /\ t[c].handling => t[c].exception # 0

LEMMA GoBack ==
  ASSUME NEW s, NEW e, NEW u, Typed(s, e, u), NEW st \in Seq(Frame), FramesRight(s, e, st),
         NEW K, PointsRight(K, s, e, st, u),
         NEW t, Refit(s, t, e), NEW f, SameHandled(e, f),
         NEW q \in K, NEW d \in 1..Len(st), \A j \in 1..Len(st) : j > d => Loop(st, j),
         NEW v, Shows(q, v, Marks(t), d)
  PROVE  /\ Typed(t, f, v) /\ FramesRight(t, f, SubSeq(st, 1, d))
         /\ \E K2 : PointsRight(K2, t, f, SubSeq(st, 1, d), v)
<1>. DEFINE r == SubSeq(st, 1, d)
<1>1. /\ Len(st) \in Nat /\ r \in Seq(Frame) /\ Len(r) = d /\ Len(r) \in Nat /\ Len(r) <= Len(st)
      /\ \A j \in 1..Len(r) : r[j] = st[j] /\ j \in 1..Len(st)
  <2>1. Len(st) \in Nat /\ d \in 0..Len(st)
    BY LenProperties
  <2>. QED BY <2>1, PrefixIs
<1>. HIDE DEF r
<1>2. Sound(K, s, e, st) /\ Catchers(K, s, st)
  BY DEF PointsRight
<1>3. q.ctx = v /\ q.time <= Len(s) /\ v \in 1..Len(s) /\ Len(s) \in Nat /\ Calls(s) /\ Calls(t)
  BY <1>2, CallsFields DEF Shows, Sound, Placed, Typed, Refit, Same
<1>4. Len(e) \in Nat /\ Len(f) = Len(e) /\ f \in Seq(ExceptionRecord) /\ DOMAIN e = 1..Len(e) /\ DOMAIN f = 1..Len(f)
  BY LenProperties DEF SameHandled
<1>5. Typed(t, f, v)
  <2>1. \A c \in 1..Len(t) : Homely(t, c)
    BY DEF Typed, Refit, Same, Homely
  <2>2. \A x \in 1..Len(f) : f[x].before[1] \in 0..Len(f) /\ (f[x].before[2] => f[x].before[1] # 0)
    BY <1>4 DEF Typed, SameHandled
  <2>. QED BY <1>3, <1>4, <2>1, <2>2 DEF Typed, Refit
<1>6. FramesRight(t, f, r)
  <2>1. ASSUME NEW j \in 1..Len(r), ~Loop(st, j)
        PROVE  /\ st[j].trying => Headed(t, st[j].ctx, j)
               /\ \A x \in ToSet(st[j].caught) : x \in 1..Len(f) /\ f[x].context = st[j].ctx
    <3>1. Framed(s, e, st, j)
      BY <1>1, <2>1 DEF FramesRight
    <3>2. st[j].ctx \in 1..Len(s)
      <4>1. Nested(s, st, u) /\ u \in 1..Len(s) /\ Up(s, u) \subseteq 1..u
        BY AreNested
      <4>2. st[j].ctx \in Up(s, u)
        BY <1>1, <2>1, <4>1 DEF Nested
      <4>3. st[j].ctx \in 1..u
        BY <4>1, <4>2
      <4>. QED BY <1>3, <4>1, <4>3
    <3>3. t[st[j].ctx].handlers = s[st[j].ctx].handlers
      BY <3>2 DEF Refit
    <3>. QED BY <1>4, <3>1, <3>3 DEF Framed, Headed, SameHandled
  <2>2. \A j \in 1..Len(r) : r[j] = st[j]
    BY <1>1
  <2>. QED BY <1>1, <2>1, <2>2, FramesKeep
<1>7. PointsRight(Upto(K, Len(r), Len(s)), t, f, r, v)
  <2>1. \A i \in 1..Len(r) : Alike(st[i], r[i])
    BY <1>1 DEF Alike
  <2>2. ASSUME NEW k \in Upto(K, Len(r), Len(s)), NEW a \in Up(s, k.ctx), k.marks[a] # 0
        PROVE  StaysHandled(k.marks[a], e, f, r)
    <3>1. k \in K
      BY DEF Upto
    <3>2. Marked(k.marks[a], a, s, e, st)
      BY <1>2, <2>2, <3>1 DEF Sound, Placed
    <3>. DEFINE x == k.marks[a]
    <3>3. x \in 1..Len(e) /\ ~PendingIn(x, st) /\ x \in DOMAIN f
      BY <1>4, <3>2 DEF Marked
    <3>4. ~PendingIn(x, r)
      BY <1>1, <3>3 DEF PendingIn
    <3>. HIDE DEF x
    <3>5. StaysHandled(x, e, f, r)
      BY <3>3, <3>4 DEF StaysHandled, SameHandled, Resumable
    <3>. QED BY <3>5 DEF x
  <2>3. \A c \in 1..Len(s) : Holds(c, s, t, st, r)
    BY <1>1 DEF Refit, Holds
  <2>4. \A j \in 1..Len(st) : ~(~Loop(st, j) /\ j > Len(r))
    BY <1>1
  <2>5. Shows(q, v, Marks(t), Len(r)) /\ Same(s, t)
    BY <1>1 DEF Refit
  <2>. QED BY <1>1, <1>2, <1>3, <2>1, <2>2, <2>3, <2>4, <2>5, PointsCut
<1>. QED BY <1>5, <1>6, <1>7 DEF r

(* The point of an op, and what agrees with it. *)
LEMMA OpPoint ==
  ASSUME ExInv, InOp, NEW K, PointsRight(K, contexts, exceptions, c_stack, ctx)
  PROVE  \E k \in K : /\ Shows(k, ctx, Marks(contexts), Len(c_stack)) /\ k.ctx = ctx /\ k.depth = Len(c_stack)
                      /\ k.ctx <= k.time /\ k.time \in Nat /\ k.time <= Len(contexts) /\ Loop(c_stack, k.depth)
                      /\ k.marks[ctx] = Marks(contexts)[ctx] /\ Marks(contexts) \in [Nat -> Nat]
                      /\ Returns(k, K, contexts, c_stack) /\ Resumes(k, K, contexts, exceptions, c_stack)
                      /\ Unwinds(k, K, contexts, c_stack) /\ Catches(k, K, contexts, c_stack)
                      /\ \A q \in K : q.time <= k.time =>
                           /\ Agrees(q, k.marks) => Agrees(q, Marks(contexts))
                           /\ \A c, v : Agrees(q, [k.marks EXCEPT ![c] = v]) => Agrees(q, [Marks(contexts) EXCEPT ![c] = v])
<1>1. PICK k \in K : Shows(k, ctx, Marks(contexts), Len(c_stack))
  BY DEF PointsRight
<1>2. Sound(K, contexts, exceptions, c_stack)
  BY DEF PointsRight
<1>3. /\ k.ctx = ctx /\ k.depth = Len(c_stack) /\ k.ctx <= k.time /\ k.time \in Nat /\ k.time <= Len(contexts)
      /\ ctx \in Nat /\ ctx # 0
  <2>1. ctx \in 1..Len(contexts) /\ Len(contexts) \in Nat
    BY OpFacts
  <2>. QED BY <1>1, <1>2, <2>1 DEF Shows, Sound, Placed, Points
<1>4. /\ Returns(k, K, contexts, c_stack) /\ Resumes(k, K, contexts, exceptions, c_stack)
      /\ Unwinds(k, K, contexts, c_stack) /\ Catches(k, K, contexts, c_stack)
  BY <1>2 DEF Sound
<1>5. Loop(c_stack, k.depth)
  BY <1>3, OpFacts DEF HasLoop
<1>6. k.marks[ctx] = Marks(contexts)[ctx]
  <2>1. ctx \in 1..k.time
    BY <1>3
  <2>. QED BY <1>1, <2>1 DEF Shows, Agrees
<1>7. Marks(contexts) \in [Nat -> Nat]
  <2>1. \A a \in 1..Len(contexts) : contexts[a].exception \in Nat
    <3>1. Len(exceptions) \in Nat
      BY LenProperties DEF ExInv, Typed
    <3>. QED BY <3>1 DEF ExInv, Typed
  <2>. QED BY <2>1 DEF Marks
<1>8. k.marks \in [Nat -> Nat] /\ \A q \in K : q.time \in Nat
  BY <1>2 DEF Sound, Points
<1>9. \A a \in 1..k.time : k.marks[a] = Marks(contexts)[a]
  BY <1>1 DEF Shows, Agrees
<1>10. ASSUME NEW q \in K, q.time <= k.time
       PROVE /\ Agrees(q, k.marks) => Agrees(q, Marks(contexts))
             /\ \A c, v : Agrees(q, [k.marks EXCEPT ![c] = v]) => Agrees(q, [Marks(contexts) EXCEPT ![c] = v])
  <2>1. q.time \in Nat
    BY <1>8
  <2>. QED BY <1>3, <1>7, <1>8, <1>9, <1>10, <2>1, AgreesToo
<1>. QED BY <1>1, <1>3, <1>4, <1>5, <1>6, <1>7, <1>10
-----------------------------------------------------------------------------
LEMMA WholeIs ==
  ASSUME NEW S, NEW q \in Seq(S)
  PROVE  SubSeq(q, 1, Len(q)) = q
<1>1. Len(q) \in Nat /\ Len(q) \in 0..Len(q)
  BY LenProperties
<1>2. /\ SubSeq(q, 1, Len(q)) \in Seq(S) /\ Len(SubSeq(q, 1, Len(q))) = Len(q)
      /\ \A j \in 1..Len(q) : SubSeq(q, 1, Len(q))[j] = q[j]
  BY <1>1, PrefixIs
<1>. QED BY <1>2, SeqEqual

(* The innermost runloop ends. *)
LEMMA ChainFront ==
  ASSUME NEW st, NEW ids, NEW n, Chain(st, ids, n), HasLoop(st, Len(st)), Len(st) # 1
  PROVE  /\ Chain(Front(st), Front(ids), n) /\ Front(ids) # <<>> /\ Len(Front(ids)) = Len(ids) - 1
         /\ Front(st) = SubSeq(st, 1, Len(st) - 1)
<1>1. /\ st \in Seq(Frame) /\ ids \in Seq(Nat) /\ Len(st) \in Nat /\ Len(ids) \in Nat /\ Len(st) \in 1..Len(st)
  BY LenProperties DEF Chain, HasLoop
<1>2. Len(ids) # 0 /\ ids[Len(ids)] = st[Len(st)].id
  <2>1. \A i : HasLoop(st, i) => i <= Len(st)
    BY <1>1 DEF HasLoop
  <2>. QED BY <2>1, ChainTop
<1>3. 1 < Len(st) /\ HasLoop(st, 1) /\ st[1].id < st[Len(st)].id
  <2>1. 1 < Len(st)
    <3>1. Len(st) \in Nat /\ Len(st) \in 1..Len(st)
      BY <1>1
    <3>2. \A m \in Nat : m \in 1..m /\ m # 1 => 1 < m
      OBVIOUS
    <3>. QED BY <3>1, <3>2, Zenon
  <2>2. HasLoop(st, 1)
    BY DEF Chain
  <2>. QED BY <2>1, <2>2 DEF Chain, LoopsApart, HasLoop
<1>4. PICK j \in 1..Len(ids) : ids[j] = st[1].id
  BY <1>3 DEF Chain
<1>5. j # Len(ids)
  <2>1. st[1].id \in Nat
    BY <1>3 DEF Chain, LoopsApart, HasLoop
  <2>. QED BY <1>2, <1>3, <1>4, <2>1
<1>. DEFINE m == Len(ids) - 1
            r == SubSeq(st, 1, Len(st) - 1)
<1>6. m \in 1..Len(ids) /\ m \in 0..Len(ids) /\ m # 0 /\ m < Len(ids) /\ Len(ids) \in 1..Len(ids)
  BY <1>1, <1>2, <1>4, <1>5
<1>7. Len(st) - 1 \in 0..Len(st)
  BY <1>1
<1>8. /\ r \in Seq(Frame) /\ Len(r) = Len(st) - 1 /\ \A i \in 1..Len(st) - 1 : r[i] = st[i] /\ i \in 1..Len(st)
  <2>1. st \in Seq(Frame) /\ Len(st) - 1 \in 0..Len(st)
    BY <1>1, <1>7
  <2>2. \A d \in 0..Len(st) :
          /\ SubSeq(st, 1, d) \in Seq(Frame) /\ Len(SubSeq(st, 1, d)) = d
          /\ \A i \in 1..d : SubSeq(st, 1, d)[i] = st[i] /\ i \in 1..Len(st)
    BY <2>1, PrefixIs, Zenon
  <2>. QED BY <2>1, <2>2, Zenon
<1>9. SubSeq(ids, 1, m) \in Seq(Nat) /\ Len(SubSeq(ids, 1, m)) = m
  <2>1. ids \in Seq(Nat) /\ m \in 0..Len(ids)
    BY <1>1, <1>6
  <2>2. \A d \in 0..Len(ids) :
          /\ SubSeq(ids, 1, d) \in Seq(Nat) /\ Len(SubSeq(ids, 1, d)) = d
          /\ \A i \in 1..d : SubSeq(ids, 1, d)[i] = ids[i] /\ i \in 1..Len(ids)
    BY <2>1, PrefixIs
  <2>. QED BY <2>1, <2>2, Zenon
<1>. HIDE DEF r, m
<1>10. ASSUME NEW i, HasLoop(st, i) PROVE st[i].id <= ids[m] <=> i # Len(st)
  <2>1. PICK a \in 1..Len(ids) : ids[a] = st[i].id
    BY <1>10 DEF Chain
  <2>2. ids[m] \in Nat /\ ids[a] \in Nat /\ ids[Len(ids)] \in Nat /\ ids[m] < ids[Len(ids)]
    <3>1. \A b \in 1..Len(ids) : ids[b] \in Nat
      BY <1>1, ElementOfSeq
    <3>. QED BY <1>6, <3>1 DEF Chain
  <2>3. CASE i = Len(st)
    BY <1>2, <2>1, <2>2, <2>3
  <2>4. CASE i # Len(st)
    <3>1. st[i].id < st[Len(st)].id
      <4>1. i \in 1..Len(st) /\ Loop(st, i) /\ Loop(st, Len(st)) /\ i < Len(st)
        BY <1>1, <1>10, <2>4 DEF HasLoop
      <4>. QED BY <1>1, <4>1 DEF Chain, LoopsApart
    <3>2. a # Len(ids)
      BY <1>2, <2>1, <2>2, <3>1
    <3>3. a = m \/ a < m
      BY <1>1, <3>2 DEF m
    <3>4. a < m => ids[a] < ids[m]
      BY <1>6 DEF Chain
    <3>. QED BY <2>1, <2>2, <2>4, <3>3, <3>4
  <2>. QED BY <2>3, <2>4
<1>11. ASSUME NEW i PROVE HasLoop(r, i) <=> HasLoop(st, i) /\ i # Len(st)
  <2>1. i \in 1..Len(r) <=> i \in 1..Len(st) /\ i # Len(st)
    BY <1>1, <1>8
  <2>2. i \in 1..Len(r) => r[i] = st[i]
    BY <1>8
  <2>. QED BY <2>1, <2>2 DEF HasLoop, Loop
<1>12. \A i : HasLoop(r, i) <=> HasLoop(st, i) /\ st[i].id <= ids[m]
  BY <1>10, <1>11
<1>13. \A i : HasLoop(r, i) => r[i].id = st[i].id
  BY <1>8 DEF HasLoop
<1>14. Chain(r, SubSeq(ids, 1, m), n)
  BY <1>6, <1>8, <1>12, <1>13, ChainPrefix
<1>15. SubSeq(ids, 1, m) # <<>>
  BY <1>6, <1>9, EmptySeq
<1>. QED BY <1>9, <1>14, <1>15 DEF Front, r, m

LEMMA ReturnKeeps ==
  ASSUME ExInv, Return
  PROVE  ExInv'
<1>1. /\ InOp /\ ctx # 1 /\ AtHome(ctx) /\ ctx' = contexts[ctx].caller
      /\ UNCHANGED <<contexts, exceptions, ended>>
  BY DEF Return
<1>2. /\ Typed(contexts, exceptions, ctx) /\ Chain(c_stack, runloops, runloop_id_counter)
      /\ FramesRight(contexts, exceptions, c_stack) /\ c_stack \in Seq(Frame)
  BY DEF ExInv, Chain
<1>3. PICK K : PointsRight(K, contexts, exceptions, c_stack, ctx)
  BY DEF ExInv
<1>4. /\ Len(c_stack) \in Nat /\ Len(c_stack) \in 1..Len(c_stack) /\ HasLoop(c_stack, Len(c_stack))
      /\ current_runloop_id = c_stack[Len(c_stack)].id /\ ctx \in 1..Len(contexts) /\ ctx \in Nat
      /\ contexts[ctx].handling \/ contexts[ctx].runloop = current_runloop_id
  <2>1. ctx \in 1..Len(contexts) /\ Len(contexts) \in Nat
    BY <1>1, OpFacts
  <2>. QED BY <1>1, <2>1, OpFacts
<1>5. PICK k \in K :
        /\ Shows(k, ctx, Marks(contexts), Len(c_stack)) /\ k.ctx = ctx /\ k.depth = Len(c_stack)
        /\ k.ctx <= k.time /\ k.time \in Nat /\ k.time <= Len(contexts) /\ Loop(c_stack, k.depth)
        /\ k.marks[ctx] = Marks(contexts)[ctx] /\ Returns(k, K, contexts, c_stack)
        /\ \A q \in K : q.time <= k.time => (Agrees(q, k.marks) => Agrees(q, Marks(contexts)))
  BY <1>1, <1>3, OpPoint
<1>6. k.marks[ctx] = 0 \/ contexts[ctx].runloop = c_stack[k.depth].id
  <2>1. contexts[ctx].handling => contexts[ctx].runloop = current_runloop_id
    BY <1>1 DEF AtHome
  <2>. QED BY <1>4, <1>5, <2>1
<1>7. PICK q \in K :
        /\ Shows(q, contexts[ctx].caller, k.marks, IF contexts[ctx].entry THEN k.depth - 1 ELSE k.depth)
        /\ q.time < ctx
  BY <1>1, <1>5, <1>6 DEF Returns
<1>8. Sound(K, contexts, exceptions, c_stack)
  BY <1>3 DEF PointsRight
<1>9. Shows(q, ctx', Marks(contexts), q.depth) /\ q.depth \in 1..Len(c_stack)
      /\ q.depth = IF contexts[ctx].entry THEN Len(c_stack) - 1 ELSE Len(c_stack)
  <2>1. q.time \in Nat /\ q.depth \in 1..Len(c_stack)
    BY <1>8 DEF Sound, Points, Placed
  <2>2. q.time <= k.time
    BY <1>4, <1>5, <1>7, <2>1
  <2>3. Agrees(q, Marks(contexts))
    BY <1>5, <1>7, <2>2 DEF Shows
  <2>. QED BY <1>1, <1>5, <1>7, <2>1, <2>3 DEF Shows
<1>10. \A j \in 1..Len(c_stack) : j > q.depth => Loop(c_stack, j)
  <2>1. \A j \in 1..Len(c_stack) : j > q.depth => j = Len(c_stack)
    BY <1>4, <1>9
  <2>. QED BY <1>4, <2>1 DEF HasLoop
<1>11. Refit(contexts, contexts, exceptions) /\ SameHandled(exceptions, exceptions)
  <2>1. Same(contexts, contexts)
    <3>1. Calls(contexts) /\ Len(contexts) \in Nat
      BY <1>2, CallsFields DEF Typed
    <3>. QED BY <3>1 DEF Same
  <2>. QED BY <1>2, <2>1 DEF Refit, SameHandled, Typed
<1>12. /\ Typed(contexts, exceptions, ctx') /\ FramesRight(contexts, exceptions, SubSeq(c_stack, 1, q.depth))
       /\ \E K2 : PointsRight(K2, contexts, exceptions, SubSeq(c_stack, 1, q.depth), ctx')
  BY <1>2, <1>3, <1>9, <1>10, <1>11, GoBack
<1>13. CASE contexts[ctx].entry
  <2>1. c_stack' = Front(c_stack) /\ SetRunloops(Front(runloops)) /\ UNCHANGED runloop_id_counter
    BY <1>13 DEF Return
  <2>2. Len(c_stack) # 1
    BY <1>4, <1>9, <1>13
  <2>3. /\ Chain(Front(c_stack), Front(runloops), runloop_id_counter) /\ Front(runloops) # <<>>
        /\ Len(Front(runloops)) = Len(runloops) - 1 /\ Front(c_stack) = SubSeq(c_stack, 1, Len(c_stack) - 1)
    BY <1>2, <1>4, <2>2, ChainFront
  <2>4. Len(runloops) \in Nat /\ current_runloop_level = Len(runloops)
    BY <1>2, LenProperties DEF Chain, ExInv
  <2>5. /\ runloops' = Front(runloops) /\ current_runloop_id' = runloops'[Len(runloops')]
        /\ current_runloop_level' = Len(runloops')
    BY <2>1, <2>3, <2>4 DEF SetRunloops, Last
  <2>6. c_stack' = SubSeq(c_stack, 1, q.depth)
    BY <1>9, <1>13, <2>1, <2>3
  <2>. QED BY <1>1, <1>12, <2>1, <2>3, <2>5, <2>6 DEF ExInv
<1>14. CASE ~contexts[ctx].entry
  <2>1. UNCHANGED <<c_stack, runloops, current_runloop_id, current_runloop_level, runloop_id_counter>>
    BY <1>14 DEF Return, runloopVars
  <2>2. SubSeq(c_stack, 1, q.depth) = c_stack
    BY <1>2, <1>9, <1>14, WholeIs
  <2>. QED BY <1>1, <1>2, <1>12, <2>1, <2>2 DEF ExInv
<1>. QED BY <1>13, <1>14
-----------------------------------------------------------------------------
LEMMA MarksBecome ==
  ASSUME NEW s, Len(s) \in Nat, NEW t, NEW c \in 1..Len(s), NEW v, Becomes(s, t, c, v)
  PROVE  Marks(t) = [Marks(s) EXCEPT ![c] = IF v.handling THEN v.exception ELSE 0]
<1>1. Len(t) = Len(s) /\ \A d \in 1..Len(s) : t[d] = IF d = c THEN v ELSE s[d]
  BY DEF Becomes
<1>2. ASSUME NEW a \in Nat
      PROVE  (IF a \in 1..Len(t) /\ t[a].handling THEN t[a].exception ELSE 0)
               = [Marks(s) EXCEPT ![c] = IF v.handling THEN v.exception ELSE 0][a]
  <2>1. CASE a = c
    BY <1>1, <2>1 DEF Marks
  <2>2. CASE a # c
    BY <1>1, <2>2 DEF Marks
  <2>. QED BY <2>1, <2>2
<1>. QED BY <1>2 DEF Marks

(* The current context has an exception no more, or one that it had before. *)
LEMMA OpRefits ==
  ASSUME ExInv, InOp, NEW x \in 0..Len(exceptions), NEW b \in BOOLEAN, b => x # 0,
         contexts' = [contexts EXCEPT ![ctx].exception = x, ![ctx].handling = b]
  PROVE  /\ Refit(contexts, contexts', exceptions)
         /\ Marks(contexts') = [Marks(contexts) EXCEPT ![ctx] = IF b THEN x ELSE 0]
<1>. DEFINE v == [contexts[ctx] EXCEPT !.exception = x, !.handling = b]
<1>1. /\ ctx \in 1..Len(contexts) /\ contexts[ctx] \in ContextRecord /\ Calls(contexts) /\ Len(contexts) \in Nat /\ Typed(contexts, exceptions, ctx)
      /\ Len(exceptions) \in Nat /\ contexts \in Seq(ContextRecord)
  <2>1. Typed(contexts, exceptions, ctx)
    BY DEF ExInv
  <2>2. Len(exceptions) \in Nat
    BY <2>1, LenProperties DEF Typed
  <2>. QED BY <2>1, <2>2, OpFacts DEF Typed, Calls
<1>2. /\ v \in ContextRecord /\ v.caller = contexts[ctx].caller /\ v.entry = contexts[ctx].entry /\ v.runloop = contexts[ctx].runloop
      /\ v.handlers = contexts[ctx].handlers /\ v.exception = x /\ v.handling = b
  <2>1. x \in Nat
    BY <1>1
  <2>. QED BY <1>1, <2>1 DEF ContextRecord
<1>3. contexts' = [contexts EXCEPT ![ctx] = v]
  BY <1>1, <1>2
<1>. HIDE DEF v
<1>4. Becomes(contexts, contexts', ctx, v)
  <2>1. Becomes(contexts, [contexts EXCEPT ![ctx] = v], ctx, v)
    BY <1>1, <1>2, ContextChanges
  <2>. QED BY <1>3, <2>1
<1>5. Refit(contexts, contexts', exceptions)
  BY <1>1, <1>2, <1>4 DEF Refit, Becomes, Typed
<1>6. Marks(contexts') = [Marks(contexts) EXCEPT ![ctx] = IF v.handling THEN v.exception ELSE 0]
  <2>1. Len(contexts) \in Nat /\ ctx \in 1..Len(contexts)
    BY <1>1
  <2>2. \A t : Becomes(contexts, t, ctx, v) => Marks(t) = [Marks(contexts) EXCEPT ![ctx] = IF v.handling THEN v.exception ELSE 0]
    BY <2>1, MarksBecome, Zenon
  <2>. QED BY <1>4, <2>2, Zenon
<1>. QED BY <1>2, <1>5, <1>6

LEMMA ResumeKeeps ==
  ASSUME ExInv, Resume
  PROVE  ExInv'
<1>. DEFINE x == contexts[ctx].exception
<1>1. /\ InOp /\ contexts[ctx].handling /\ Resumable(exceptions[x]) /\ ctx' = exceptions[x].resume
      /\ contexts' = [contexts EXCEPT ![ctx].exception = exceptions[x].before[1], ![ctx].handling = exceptions[x].before[2]]
      /\ exceptions' = [exceptions EXCEPT ![x].had = <<>>]
      /\ UNCHANGED <<c_stack, runloops, current_runloop_id, current_runloop_level, runloop_id_counter, ended>>
  BY DEF Resume, Resumable, runloopVars
<1>2. /\ Typed(contexts, exceptions, ctx) /\ Chain(c_stack, runloops, runloop_id_counter)
      /\ FramesRight(contexts, exceptions, c_stack) /\ c_stack \in Seq(Frame)
  BY DEF ExInv, Chain
<1>3. PICK K : PointsRight(K, contexts, exceptions, c_stack, ctx)
  BY DEF ExInv
<1>4. /\ Len(c_stack) \in Nat /\ Len(c_stack) \in 1..Len(c_stack) /\ ctx \in 1..Len(contexts) /\ ctx \in Nat
  <2>1. ctx \in 1..Len(contexts) /\ Len(contexts) \in Nat
    BY <1>1, OpFacts
  <2>. QED BY <1>1, <2>1, OpFacts
<1>5. /\ exceptions \in Seq(ExceptionRecord) /\ x \in 1..Len(exceptions) /\ Len(exceptions) \in Nat
      /\ exceptions[x] \in ExceptionRecord
  <2>1. exceptions \in Seq(ExceptionRecord) /\ x \in 0..Len(exceptions) /\ x # 0
    BY <1>1, <1>2, <1>4 DEF Typed
  <2>2. Len(exceptions) \in Nat
    BY <2>1, LenProperties
  <2>3. x \in 1..Len(exceptions)
    BY <2>1, <2>2
  <2>. QED BY <2>1, <2>2, <2>3, ElementOfSeq
<1>. HIDE DEF x
<1>6. PICK k \in K :
        /\ k.ctx = ctx /\ k.depth = Len(c_stack) /\ Loop(c_stack, k.depth)
        /\ k.marks[ctx] = Marks(contexts)[ctx] /\ Resumes(k, K, contexts, exceptions, c_stack)
        /\ \A q \in K : q.time <= k.time =>
             \A c, v : Agrees(q, [k.marks EXCEPT ![c] = v]) => Agrees(q, [Marks(contexts) EXCEPT ![c] = v])
  BY <1>1, <1>3, OpPoint
<1>7. k.marks[ctx] = x /\ x # 0
  BY <1>1, <1>4, <1>5, <1>6 DEF Marks, x
<1>8. PICK q \in K :
        Shows(q, exceptions[x].resume, [k.marks EXCEPT ![ctx] = Back(exceptions[x])], k.depth) /\ q.time <= k.time
  BY <1>1, <1>6, <1>7 DEF Resumes
<1>9. /\ exceptions[x].before[1] \in 0..Len(exceptions) /\ exceptions[x].before[2] \in BOOLEAN
      /\ exceptions[x].before[2] => exceptions[x].before[1] # 0
  <2>1. exceptions[x].before \in Nat \X BOOLEAN
    BY <1>5 DEF ExceptionRecord
  <2>. QED BY <1>2, <1>5, <2>1 DEF Typed
<1>10. /\ Refit(contexts, contexts', exceptions)
       /\ Marks(contexts') = [Marks(contexts) EXCEPT ![ctx] = Back(exceptions[x])]
  <2>. DEFINE a == exceptions[x].before[1]
              b == exceptions[x].before[2]
  <2>1. a \in 0..Len(exceptions) /\ b \in BOOLEAN /\ (b => a # 0) /\ Back(exceptions[x]) = IF b THEN a ELSE 0
    BY <1>9 DEF Back
  <2>2. contexts' = [contexts EXCEPT ![ctx].exception = a, ![ctx].handling = b]
    BY <1>1
  <2>. HIDE DEF a, b
  <2>3. /\ Refit(contexts, contexts', exceptions)
        /\ Marks(contexts') = [Marks(contexts) EXCEPT ![ctx] = IF b THEN a ELSE 0]
    BY <1>1, <2>1, <2>2, OpRefits
  <2>. QED BY <2>1, <2>3
<1>11. SameHandled(exceptions, exceptions')
  <2>. DEFINE w == [exceptions[x] EXCEPT !.had = <<>>]
  <2>1. <<>> \in Seq(Nat \X Nat)
    OBVIOUS
  <2>2. /\ w \in ExceptionRecord /\ w.context = exceptions[x].context /\ w.handler = exceptions[x].handler
        /\ w.handled = exceptions[x].handled /\ w.resume = exceptions[x].resume /\ w.before = exceptions[x].before
    BY <1>5, <2>1 DEF ExceptionRecord
  <2>3. exceptions' = [exceptions EXCEPT ![x] = w]
    BY <1>1, <1>5
  <2>. HIDE DEF w
  <2>4. /\ exceptions' \in Seq(ExceptionRecord) /\ Len(exceptions') = Len(exceptions)
        /\ \A y \in 1..Len(exceptions) : exceptions'[y] = IF y = x THEN w ELSE exceptions[y]
    BY <1>5, <2>2, <2>3, ExceptSeq
  <2>. QED BY <1>5, <2>2, <2>4 DEF SameHandled
<1>12. Shows(q, ctx', Marks(contexts'), Len(c_stack))
  <2>1. Agrees(q, [Marks(contexts) EXCEPT ![ctx] = Back(exceptions[x])])
    BY <1>6, <1>8 DEF Shows
  <2>. QED BY <1>1, <1>6, <1>8, <1>10, <2>1 DEF Shows
<1>13. \A j \in 1..Len(c_stack) : ~(j > Len(c_stack))
  BY <1>4
<1>14. SubSeq(c_stack, 1, Len(c_stack)) = c_stack
  BY <1>2, WholeIs
<1>15. /\ Typed(contexts', exceptions', ctx') /\ FramesRight(contexts', exceptions', SubSeq(c_stack, 1, Len(c_stack)))
       /\ \E K2 : PointsRight(K2, contexts', exceptions', SubSeq(c_stack, 1, Len(c_stack)), ctx')
  BY <1>2, <1>3, <1>4, <1>10, <1>11, <1>12, <1>13, GoBack
<1>. QED BY <1>1, <1>2, <1>14, <1>15 DEF ExInv

(* Back to the runloop of a frame. *)
LEMMA CutKeeps ==
  ASSUME Chain(c_stack, runloops, runloop_id_counter), current_runloop_level = Len(runloops),
         NEW d, HasLoop(c_stack, d), NEW r \in Seq(Frame),
         \A i : HasLoop(r, i) <=> HasLoop(c_stack, i) /\ i <= d,
         \A i : HasLoop(r, i) => r[i].id = c_stack[i].id,
         SetRunloops(FreeRunloopsUntil(c_stack[d].id)), runloop_id_counter' = runloop_id_counter
  PROVE  /\ Chain(r, runloops', runloop_id_counter') /\ current_runloop_id' = runloops'[Len(runloops')]
         /\ current_runloop_level' = Len(runloops')
<1>1. FreeRunloopsUntil(c_stack[d].id) = CutTo(runloops, c_stack[d].id)
  BY DEF FreeRunloopsUntil, CutTo
<1>2. Chain(r, CutTo(runloops, c_stack[d].id), runloop_id_counter)
  BY ChainCut
<1>3. runloops' = CutTo(runloops, c_stack[d].id) /\ runloops' \in Seq(Nat)
  BY <1>1, <1>2 DEF SetRunloops, Chain
<1>4. runloops' # <<>>
  <2>1. PICK j \in 1..Len(runloops') : runloops'[j] = r[1].id
    BY <1>2, <1>3 DEF Chain
  <2>2. Len(<<>>) = 0 /\ ~(\E i : i \in 1..0)
    OBVIOUS
  <2>. QED BY <2>1, <2>2
<1>5. Len(runloops) \in Nat /\ Len(runloops') \in Nat
  BY <1>3, LenProperties DEF Chain
<1>. QED BY <1>1, <1>2, <1>3, <1>4, <1>5 DEF SetRunloops, Last

LEMMA PrefixLoops ==
  ASSUME NEW st \in Seq(Frame), NEW d \in 1..Len(st)
  PROVE  /\ SubSeq(st, 1, d) \in Seq(Frame) /\ Len(SubSeq(st, 1, d)) = d
         /\ \A i : HasLoop(SubSeq(st, 1, d), i) <=> HasLoop(st, i) /\ i <= d
         /\ \A i : HasLoop(SubSeq(st, 1, d), i) => SubSeq(st, 1, d)[i].id = st[i].id
<1>. DEFINE r == SubSeq(st, 1, d)
<1>1. Len(st) \in Nat /\ d \in 0..Len(st)
  BY LenProperties
<1>2. r \in Seq(Frame) /\ Len(r) = d /\ \A j \in 1..d : r[j] = st[j] /\ j \in 1..Len(st)
  BY <1>1, PrefixIs
<1>. HIDE DEF r
<1>3. \A i : i \in 1..Len(r) <=> i \in 1..Len(st) /\ i <= d
  BY <1>1, <1>2
<1>4. \A i : i \in 1..Len(r) => r[i] = st[i]
  BY <1>2
<1>5. \A i : HasLoop(r, i) <=> HasLoop(st, i) /\ i <= d
  BY <1>3, <1>4 DEF HasLoop, Loop
<1>6. \A i : HasLoop(r, i) => r[i].id = st[i].id
  BY <1>4 DEF HasLoop
<1>. QED BY <1>2, <1>5, <1>6 DEF r
LEMMA FinalizeKeeps ==
  ASSUME ExInv, Finalize
  PROVE  ExInv'
<1>. DEFINE x == contexts[ctx].exception
            rid == exceptions[x].handler
<1>1. InOp /\ contexts[ctx].handling
  BY DEF Finalize
<1>2. /\ Typed(contexts, exceptions, ctx) /\ Chain(c_stack, runloops, runloop_id_counter)
      /\ FramesRight(contexts, exceptions, c_stack) /\ c_stack \in Seq(Frame) /\ LoopsApart(c_stack)
  BY DEF ExInv, Chain
<1>3. PICK K : PointsRight(K, contexts, exceptions, c_stack, ctx)
  BY DEF ExInv
<1>4. /\ Len(c_stack) \in Nat /\ ctx \in 1..Len(contexts) /\ ctx \in Nat
      /\ \A j \in 1..Len(c_stack) : ~Loop(c_stack, j) => c_stack[j].ctx < ctx
  <2>1. ctx \in 1..Len(contexts) /\ Len(contexts) \in Nat
    BY <1>1, OpFacts
  <2>. QED BY <1>1, <2>1, OpFacts
<1>5. x # 0 /\ x \in 0..Len(exceptions)
  BY <1>1, <1>2, <1>4 DEF Typed
<1>6. PICK k \in K :
        /\ k.ctx = ctx /\ k.depth = Len(c_stack) /\ k.ctx <= k.time
        /\ k.marks[ctx] = Marks(contexts)[ctx] /\ Unwinds(k, K, contexts, c_stack)
        /\ \A q \in K : q.time <= k.time =>
             \A c, v : Agrees(q, [k.marks EXCEPT ![c] = v]) => Agrees(q, [Marks(contexts) EXCEPT ![c] = v])
  BY <1>1, <1>3, OpPoint
<1>7. Sound(K, contexts, exceptions, c_stack)
  BY <1>3 DEF PointsRight
<1>8. k.marks[ctx] = x
  BY <1>1, <1>4, <1>6 DEF Marks
<1>9. ctx \in Up(contexts, ctx)
  BY <1>2, <1>3, AreNested
<1>10. Marked(x, ctx, contexts, exceptions, c_stack)
  BY <1>5, <1>6, <1>7, <1>8, <1>9 DEF Sound, Placed
<1>11. rid = contexts[ctx].runloop
  BY <1>10 DEF Marked
<1>12. PICK q \in K : Unwound(q, ctx, k, contexts, c_stack)
  BY <1>6, <1>9 DEF Unwinds
<1>13. /\ q.ctx = ctx /\ q.time <= ctx /\ q.time \in Nat /\ k.time \in Nat /\ q.depth \in 1..Len(c_stack)
       /\ Loop(c_stack, q.depth) /\ c_stack[q.depth].id = rid
       /\ Agrees(q, [k.marks EXCEPT ![ctx] = 0])
       /\ \A j \in 1..Len(c_stack) : ~Loop(c_stack, j) => j < q.depth
  <2>1. q.depth \in 1..Len(c_stack) /\ q.time \in Nat /\ k.time \in Nat
    BY <1>7 DEF Sound, Placed, Points
  <2>. QED BY <1>4, <1>6, <1>11, <1>12, <2>1 DEF Unwound
<1>. HIDE DEF x, rid
<1>14. HasLoop(c_stack, q.depth) /\ rid \in ToSet(runloops)
  <2>1. HasLoop(c_stack, q.depth)
    BY <1>13 DEF HasLoop
  <2>2. PICK j \in 1..Len(runloops) : runloops[j] = rid
    BY <1>2, <1>13, <2>1 DEF Chain
  <2>3. DOMAIN runloops = 1..Len(runloops)
    BY <1>2, LenProperties DEF Chain
  <2>. QED BY <2>1, <2>2, <2>3 DEF ToSet
<1>15. /\ contexts' = [contexts EXCEPT ![ctx].handling = FALSE] /\ c_stack' = JumpTo(rid)
       /\ SetRunloops(FreeRunloopsUntil(rid)) /\ UNCHANGED <<ctx, exceptions, runloop_id_counter, ended>>
  BY <1>14 DEF Finalize, x, rid
<1>16. c_stack' = SubSeq(c_stack, 1, q.depth)
  BY <1>2, <1>13, <1>14, <1>15, JumpIs
<1>17. /\ Refit(contexts, contexts', exceptions) /\ Marks(contexts') = [Marks(contexts) EXCEPT ![ctx] = 0]
  <2>1. contexts' = [contexts EXCEPT ![ctx].exception = x, ![ctx].handling = FALSE]
    <3>1. contexts[ctx] \in ContextRecord
      BY <1>1, OpFacts
    <3>. QED BY <1>4, <1>15, <3>1 DEF x, ContextRecord
  <2>. QED BY <1>1, <1>5, <2>1, OpRefits
<1>18. Shows(q, ctx', Marks(contexts'), q.depth)
  <2>1. q.time <= k.time
    BY <1>4, <1>6, <1>13
  <2>2. Agrees(q, [Marks(contexts) EXCEPT ![ctx] = 0])
    BY <1>6, <1>13, <2>1
  <2>. QED BY <1>13, <1>15, <1>17, <2>2 DEF Shows
<1>19. \A j \in 1..Len(c_stack) : j > q.depth => Loop(c_stack, j)
  <2>1. \A j \in 1..Len(c_stack) : j > q.depth => ~(j < q.depth)
    BY <1>4, <1>13
  <2>. QED BY <1>13, <2>1
<1>20. SameHandled(exceptions, exceptions)
  BY <1>2 DEF Typed, SameHandled
<1>21. /\ Typed(contexts', exceptions, ctx') /\ FramesRight(contexts', exceptions, SubSeq(c_stack, 1, q.depth))
       /\ \E K2 : PointsRight(K2, contexts', exceptions, SubSeq(c_stack, 1, q.depth), ctx')
  BY <1>2, <1>3, <1>13, <1>17, <1>18, <1>19, <1>20, GoBack
<1>22. /\ Chain(c_stack', runloops', runloop_id_counter') /\ current_runloop_id' = runloops'[Len(runloops')]
       /\ current_runloop_level' = Len(runloops')
  <2>1. /\ c_stack' \in Seq(Frame) /\ \A i : HasLoop(c_stack', i) <=> HasLoop(c_stack, i) /\ i <= q.depth
        /\ \A i : HasLoop(c_stack', i) => c_stack'[i].id = c_stack[i].id
    <3>1. c_stack \in Seq(Frame) /\ q.depth \in 1..Len(c_stack)
      BY <1>2, <1>13 DEF Chain
    <3>2. LET r == SubSeq(c_stack, 1, q.depth)
          IN  /\ r \in Seq(Frame) /\ \A i : HasLoop(r, i) <=> HasLoop(c_stack, i) /\ i <= q.depth
              /\ \A i : HasLoop(r, i) => r[i].id = c_stack[i].id
      BY <3>1, PrefixLoops, Zenon
    <3>. QED BY <1>16, <3>2, Zenon
  <2>2. current_runloop_level = Len(runloops)
    BY DEF ExInv
  <2>. QED BY <1>2, <1>13, <1>14, <1>15, <2>1, <2>2, CutKeeps
<1>. QED BY <1>15, <1>16, <1>21, <1>22 DEF ExInv
-----------------------------------------------------------------------------
(* The outermost runloop is left for a new one, which has the first id as well. *)
LEMMA TaskSwitchKeeps ==
  ASSUME ExInv, TaskSwitch
  PROVE  ExInv'
<1>1. /\ InOp /\ current_runloop_level <= 1 /\ runloop_id_counter' = 1
      /\ c_stack' = Append(Front(c_stack), [kind |-> "runops", id |-> 1]) /\ SetRunloops(Append(Front(runloops), 1))
      /\ UNCHANGED <<contexts, ctx, exceptions, ended>>
  BY DEF TaskSwitch
<1>2. Chain(c_stack, runloops, runloop_id_counter) /\ c_stack \in Seq(Frame) /\ current_runloop_level = Len(runloops)
  BY DEF ExInv, Chain
<1>3. /\ Len(c_stack) \in Nat /\ Len(c_stack) \in 1..Len(c_stack) /\ HasLoop(c_stack, Len(c_stack))
      /\ current_runloop_id = c_stack[Len(c_stack)].id
  BY <1>1, OpFacts
<1>4. Len(c_stack) = 1
  <2>. SUFFICES ASSUME Len(c_stack) # 1 PROVE FALSE
    OBVIOUS
  <2>1. Front(runloops) # <<>> /\ Len(Front(runloops)) = Len(runloops) - 1 /\ Front(runloops) \in Seq(Nat)
    BY <1>2, <1>3, ChainFront DEF Chain
  <2>2. Len(Front(runloops)) \in Nat /\ Len(Front(runloops)) # 0
    BY <2>1, EmptySeq
  <2>3. Len(runloops) \in Nat
    BY <1>2, LenProperties DEF Chain
  <2>. QED BY <1>1, <1>2, <2>1, <2>2, <2>3
<1>5. Len(runloops) = 1 /\ runloops[1] = 1
  <2>1. \A i : HasLoop(c_stack, i) => i <= Len(c_stack)
    BY <1>3 DEF HasLoop
  <2>2. Len(runloops) \in Nat /\ Len(runloops) # 0 /\ runloops[Len(runloops)] = c_stack[Len(c_stack)].id
    BY <1>2, <1>3, <2>1, ChainTop
  <2>3. Len(runloops) = 1
    BY <1>1, <1>2, <2>2
  <2>4. c_stack[1].id = 1
    BY <1>2 DEF Chain
  <2>. QED BY <1>4, <2>2, <2>3, <2>4
<1>6. Front(c_stack) = <<>> /\ Front(runloops) = <<>>
  BY <1>4, <1>5, SubSeqEmpty DEF Front
<1>. DEFINE f == [kind |-> "runops", id |-> 1]
<1>7. c_stack' = <<f>> /\ runloops' = <<1>> /\ current_runloop_id' = 1 /\ current_runloop_level' = 1
  <2>1. Append(<<>>, f) = <<f>> /\ Append(<<>>, 1) = <<1>> /\ <<1>> # <<>> /\ Len(<<1>>) = 1 /\ <<1>>[1] = 1
    OBVIOUS
  <2>. HIDE DEF f
  <2>2. current_runloop_level' = current_runloop_level + 1 - 1
    BY <1>1, <1>5, <1>6, <2>1 DEF SetRunloops
  <2>3. current_runloop_level = 1
    BY <1>2, <1>5
  <2>. QED BY <1>1, <1>6, <2>1, <2>2, <2>3 DEF SetRunloops, Last, f
<1>8. c_stack[1].kind = "runops" /\ c_stack[1].id = 1
  BY <1>2, <1>3 DEF Chain, HasLoop, Loop
<1>9. c_stack[1] = f
  <2>1. c_stack[1] \in Frame
    BY <1>2, <1>3, <1>4, ElementOfSeq
  <2>2. c_stack[1] \notin CatchFrame
    BY <1>8 DEF CatchFrame
  <2>. QED BY <1>8, <2>1, <2>2 DEF Frame, RunopsFrame
<1>. HIDE DEF f
<1>10. c_stack = <<f>>
  BY <1>2, <1>4, <1>9
<1>11. runloops = <<1>>
  <2>1. runloops \in Seq(Nat)
    BY <1>2 DEF Chain
  <2>. QED BY <1>5, <2>1
<1>12. Chain(c_stack, runloops, 1)
  <2>1. \A i : HasLoop(c_stack, i) => i = 1
    BY <1>4 DEF HasLoop
  <2>2. \A i : HasLoop(c_stack, i) => c_stack[i].id \in 1..1
    BY <1>8, <2>1
  <2>. QED BY <1>2, <2>2 DEF Chain
<1>. QED BY <1>1, <1>5, <1>7, <1>10, <1>11, <1>12 DEF ExInv
-----------------------------------------------------------------------------
(* Handlers of one context change. *)
Rehandles(s, t, c, v) ==
  /\ Same(s, t) /\ Len(t) = Len(s) /\ Marks(t) = Marks(s) /\ t[c] = v
  /\ \A d \in 1..Len(s) : d # c => t[d].handlers = s[d].handlers

SameBut(v, w) ==
  /\ v \in ContextRecord /\ v.caller = w.caller /\ v.entry = w.entry /\ v.runloop = w.runloop
  /\ v.exception = w.exception /\ v.handling = w.handling
  /\ \A p \in 1..Len(v.handlers) : v.handlers[p].frame = 0 => v.handlers[p].runloop_id = v.runloop

LEMMA Rehandled ==
  ASSUME NEW s, NEW e, NEW u, Typed(s, e, u), NEW c \in 1..Len(s), NEW v, SameBut(v, s[c])
  PROVE  Rehandles(s, [s EXCEPT ![c] = v], c, v) /\ Typed([s EXCEPT ![c] = v], e, u)
<1>. DEFINE t == [s EXCEPT ![c] = v]
<1>1. Calls(s) /\ Len(s) \in Nat
  BY CallsFields DEF Typed
<1>2. Becomes(s, t, c, v)
  BY <1>1, ContextChanges DEF SameBut
<1>. HIDE DEF t
<1>3. Calls(t) /\ Same(s, t) /\ Len(t) = Len(s) /\ \A d \in 1..Len(s) : t[d] = IF d = c THEN v ELSE s[d]
  BY <1>2 DEF Becomes
<1>4. \A d \in 1..Len(s) : /\ t[d].exception = s[d].exception /\ t[d].handling = s[d].handling
                           /\ d # c => t[d].handlers = s[d].handlers
  BY <1>3 DEF SameBut
<1>5. Marks(t) = Marks(s)
  BY <1>3, <1>4 DEF Marks
<1>6. \A d \in 1..Len(s) : Homely(t, d)
  BY <1>3 DEF Typed, Homely, SameBut
<1>7. Typed(t, e, u)
  BY <1>3, <1>4, <1>6 DEF Typed
<1>. QED BY <1>3, <1>4, <1>5, <1>7 DEF Rehandles, t

LEMMA HandlerPushed ==
  ASSUME NEW w \in ContextRecord, NEW h \in HandlerRecord,
         \A p \in 1..Len(w.handlers) : w.handlers[p].frame = 0 => w.handlers[p].runloop_id = w.runloop,
         h.frame = 0 => h.runloop_id = w.runloop
  PROVE  LET v == [w EXCEPT !.handlers = <<h>> \o @, !.pushed = @ + 1]
         IN  /\ SameBut(v, w) /\ Len(v.handlers) = Len(w.handlers) + 1 /\ Len(w.handlers) \in Nat /\ v.handlers[1] = h
             /\ \A p \in 1..Len(v.handlers) : p # 1 => p - 1 \in 1..Len(w.handlers) /\ v.handlers[p] = w.handlers[p - 1]
<1>. DEFINE v == [w EXCEPT !.handlers = <<h>> \o @, !.pushed = @ + 1]
            hs == w.handlers
            gs == <<h>> \o hs
<1>1. hs \in Seq(HandlerRecord)
  BY DEF ContextRecord
<1>. HIDE DEF hs
<1>2. /\ Len(hs) \in Nat /\ gs \in Seq(HandlerRecord) /\ Len(gs) = Len(hs) + 1 /\ gs[1] = h
      /\ \A p \in 2..Len(hs) + 1 : gs[p] = hs[p - 1]
  BY <1>1, ConcatProperties, LenProperties
<1>. HIDE DEF gs
<1>3. \A p \in 1..Len(gs) : p # 1 => p - 1 \in 1..Len(hs) /\ gs[p] = hs[p - 1]
  <2>1. \A p \in 1..Len(gs) : p # 1 => p \in 2..Len(hs) + 1 /\ p - 1 \in 1..Len(hs)
    BY <1>2
  <2>. QED BY <1>2, <2>1
<1>4. w.pushed + 1 \in Nat
  BY DEF ContextRecord
<1>5. v = [w EXCEPT !.handlers = gs, !.pushed = w.pushed + 1]
  BY DEF gs, hs
<1>. HIDE DEF v
<1>6. /\ v \in ContextRecord /\ v.caller = w.caller /\ v.entry = w.entry /\ v.runloop = w.runloop
      /\ v.exception = w.exception /\ v.handling = w.handling /\ v.handlers = gs
  BY <1>2, <1>4, <1>5 DEF ContextRecord
<1>7. \A p \in 1..Len(gs) : gs[p].frame = 0 => gs[p].runloop_id = w.runloop
  BY <1>2, <1>3 DEF hs
<1>8. /\ SameBut(v, w) /\ Len(v.handlers) = Len(w.handlers) + 1 /\ Len(w.handlers) \in Nat /\ v.handlers[1] = h
      /\ \A p \in 1..Len(v.handlers) : p # 1 => p - 1 \in 1..Len(w.handlers) /\ v.handlers[p] = w.handlers[p - 1]
  BY <1>2, <1>3, <1>6, <1>7 DEF SameBut, hs
<1>. QED BY <1>8 DEF v

LEMMA HandlerDeleted ==
  ASSUME NEW w \in ContextRecord, Len(w.handlers) # 0,
         \A p \in 1..Len(w.handlers) : w.handlers[p].frame = 0 => w.handlers[p].runloop_id = w.runloop
  PROVE  LET v == [w EXCEPT !.handlers = Tail(@)]
         IN  /\ SameBut(v, w) /\ Len(v.handlers) = Len(w.handlers) - 1
             /\ \A p \in 1..Len(v.handlers) : v.handlers[p] = w.handlers[p + 1] /\ p + 1 \in 1..Len(w.handlers) /\ p + 1 # 1
<1>. DEFINE v == [w EXCEPT !.handlers = Tail(@)]
            hs == w.handlers
            gs == Tail(hs)
<1>1. hs \in Seq(HandlerRecord) /\ hs # <<>>
  <2>1. Len(<<>>) = 0
    OBVIOUS
  <2>. QED BY <2>1 DEF ContextRecord
<1>. HIDE DEF hs
<1>2. /\ Len(hs) \in Nat /\ gs \in Seq(HandlerRecord) /\ Len(gs) = Len(hs) - 1
      /\ \A p \in 1..Len(gs) : gs[p] = hs[p + 1]
  BY <1>1, HeadTailProperties, LenProperties
<1>. HIDE DEF gs
<1>3. \A p \in 1..Len(gs) : p + 1 \in 1..Len(hs) /\ p + 1 # 1
  BY <1>2
<1>4. v = [w EXCEPT !.handlers = gs]
  BY DEF gs, hs
<1>. HIDE DEF v
<1>5. /\ v \in ContextRecord /\ v.caller = w.caller /\ v.entry = w.entry /\ v.runloop = w.runloop
      /\ v.exception = w.exception /\ v.handling = w.handling /\ v.handlers = gs
  BY <1>2, <1>4 DEF ContextRecord
<1>6. \A p \in 1..Len(gs) : gs[p].frame = 0 => gs[p].runloop_id = w.runloop
  BY <1>2, <1>3 DEF hs
<1>7. /\ SameBut(v, w) /\ Len(v.handlers) = Len(w.handlers) - 1
      /\ \A p \in 1..Len(v.handlers) : v.handlers[p] = w.handlers[p + 1] /\ p + 1 \in 1..Len(w.handlers) /\ p + 1 # 1
  BY <1>2, <1>3, <1>5, <1>6 DEF SameBut, hs
<1>. QED BY <1>7 DEF v

(* The innermost frame changes, in a stack that may be cut. *)
LEMMA FramesTop ==
  ASSUME NEW s, NEW e, NEW st, FramesRight(s, e, st), NEW t, NEW f, NEW r,
         Len(st) \in Nat, Len(r) \in Nat, Len(r) <= Len(st), \A j \in 1..Len(r) : j # Len(r) => r[j] = st[j],
         \A j \in 1..Len(r) : ~Loop(st, j) /\ j # Len(r) =>
            /\ st[j].trying => Headed(t, st[j].ctx, j)
            /\ \A x \in ToSet(st[j].caught) : x \in 1..Len(f) /\ f[x].context = st[j].ctx,
         ~Loop(r, Len(r)) => Framed(t, f, r, Len(r))
  PROVE  FramesRight(t, f, r)
<1>. SUFFICES ASSUME NEW j \in 1..Len(r), ~Loop(r, j) PROVE Framed(t, f, r, j)
  BY DEF FramesRight
<1>. CASE j # Len(r)
  <2>1. j \in 1..Len(st) /\ r[j] = st[j] /\ ~Loop(st, j) /\ j < Len(st)
    BY DEF Loop
  <2>2. Framed(s, e, st, j)
    BY <2>1 DEF FramesRight
  <2>3. j - 1 \in 1..Len(r) /\ r[j - 1] = st[j - 1]
    <3>1. j - 1 \in 1..Len(st)
      BY <2>2 DEF Framed
    <3>2. j - 1 \in 1..Len(r) /\ j - 1 # Len(r)
      BY <3>1
    <3>. QED BY <3>2
  <2>. QED BY <2>1, <2>2, <2>3 DEF Framed, Loop
<1>. QED OBVIOUS

(* C code that is innermost and catches: its context is the current one. *)
LEMMA TopFacts ==
  ASSUME ExInv, Innermost("phasers") \/ Innermost("ext")
  PROVE  LET d == Len(c_stack) IN
         /\ ended = 0 /\ d \in Nat /\ d \in 1..d /\ d - 1 \in 1..d /\ d # d - 1 /\ ~Loop(c_stack, d) /\ Loop(c_stack, d - 1)
         /\ c_stack[d].ctx = ctx /\ c_stack[d] \in CatchFrame /\ Framed(contexts, exceptions, c_stack, d)
         /\ ctx \in 1..Len(contexts) /\ Len(contexts) \in Nat /\ contexts[ctx] \in ContextRecord
         /\ \A j \in 1..d : ~Loop(c_stack, j) /\ j # d =>
              /\ c_stack[j].ctx \in Up(contexts, ctx) /\ c_stack[j].ctx < ctx /\ c_stack[j].ctx # ctx /\ j < d
              /\ c_stack[j].ctx \in 1..Len(contexts)
         /\ CatchersOf(ctx, contexts, c_stack) /\ Homely(contexts, ctx)
<1>. DEFINE d == Len(c_stack)
<1>1. Typed(contexts, exceptions, ctx) /\ c_stack \in Seq(Frame)
  BY DEF ExInv, Chain
<1>2. PICK K : PointsRight(K, contexts, exceptions, c_stack, ctx)
  BY DEF ExInv
<1>3. /\ Nested(contexts, c_stack, ctx) /\ Len(c_stack) \in Nat /\ Len(c_stack) # 0 /\ Len(contexts) \in Nat
      /\ ctx \in 1..Len(contexts) /\ Up(contexts, ctx) \subseteq 1..ctx /\ ctx \in Up(contexts, ctx)
  BY <1>1, <1>2, AreNested
<1>4. ended = 0 /\ ~Loop(c_stack, d) /\ d \in 1..d
  BY <1>3 DEF Innermost, Last, Loop
<1>5. c_stack[d].ctx = ctx
  BY <1>3, <1>4 DEF Nested
<1>6. c_stack[d] \in CatchFrame
  <2>1. c_stack[d] \in Frame
    BY <1>1, <1>4, ElementOfSeq
  <2>. QED BY <1>4, <2>1 DEF Frame, RunopsFrame, Loop
<1>7. Framed(contexts, exceptions, c_stack, d)
  BY <1>4 DEF ExInv, FramesRight
<1>8. contexts[ctx] \in ContextRecord
  BY <1>1, <1>3, CallsFields DEF Typed
<1>9. d - 1 \in 1..d /\ Loop(c_stack, d - 1)
  BY <1>7 DEF Framed
<1>10. ASSUME NEW j \in 1..d, ~Loop(c_stack, j), j # d
       PROVE  /\ c_stack[j].ctx \in Up(contexts, ctx) /\ c_stack[j].ctx < ctx /\ c_stack[j].ctx # ctx /\ j < d
              /\ c_stack[j].ctx \in 1..Len(contexts)
  <2>1. c_stack[j].ctx \in Up(contexts, ctx) /\ c_stack[j].ctx < ctx
    BY <1>3, <1>10 DEF Nested
  <2>2. c_stack[j].ctx \in 1..ctx
    BY <1>3, <2>1
  <2>3. ctx \in Nat /\ j < d
    BY <1>3, <1>10
  <2>. QED BY <1>3, <2>1, <2>2, <2>3
<1>11. CatchersOf(ctx, contexts, c_stack)
  BY <1>2, <1>3 DEF PointsRight, Shows, Catchers
<1>12. Homely(contexts, ctx)
  BY <1>1, <1>3 DEF Typed
<1>13. d # d - 1
  BY <1>3
<1>. QED BY <1>3, <1>4, <1>5, <1>6, <1>7, <1>8, <1>9, <1>10, <1>11, <1>12, <1>13
-----------------------------------------------------------------------------
(* A point for C code that begins to catch. *)
LEMMA CatchPoint ==
  ASSUME NEW K, NEW s, NEW e, NEW st \in Seq(Frame), NEW u, Typed(s, e, u), PointsRight(K, s, e, st, u),
         Loop(st, Len(st)), NEW t, NEW v, Rehandles(s, t, u, v), NEW g \in Frame, g.kind # "runops", g.ctx = u, g.trying,
         g.caught = <<>>, v.handlers[1].frame = Len(st) + 1,
         \A p \in 1..Len(v.handlers) : p # 1 => v.handlers[p].frame = 0
  PROVE  \E K2 : PointsRight(K2, t, e, Append(st, g), u)
<1>. DEFINE r == Append(st, g)
            n == Len(st) + 1
            K1 == Upto(K, Len(st), Len(s))
<1>1. /\ Nested(s, st, u) /\ Len(st) \in Nat /\ Len(st) # 0 /\ Len(s) \in Nat /\ u \in 1..Len(s) /\ u \in 0..Len(s)
      /\ u \in Up(s, u) /\ Up(s, u) \subseteq 1..u
  BY AreNested
<1>2. /\ r \in Seq(Frame) /\ Len(r) = n /\ r[n] = g /\ \A j \in 1..Len(st) : r[j] = st[j]
  BY <1>1, AppendProperties
<1>. HIDE DEF r
<1>3. /\ Same(s, t) /\ Len(t) = Len(s) /\ Marks(t) = Marks(s) /\ t[u] = v
      /\ \A d \in 1..Len(s) : d # u => t[d].handlers = s[d].handlers
  BY DEF Rehandles
<1>4. /\ Sound(K, s, e, st) /\ Catchers(K, s, st)
  BY DEF PointsRight
<1>5. Up(t, u) = Up(s, u) /\ Calls(s) /\ Calls(t)
  <2>1. Calls(s) /\ Calls(t)
    BY <1>3 DEF Same
  <2>2. Same(s, t) /\ u \in 0..Len(s)
    BY <1>1, <1>3
  <2>3. Up(t, u) = Up(s, u)
    BY <2>2, UpSame, Zenon
  <2>. QED BY <2>1, <2>3
<1>6. Sound(K1, t, e, r)
  <2>1. \A i \in 1..Len(st) : Alike(st[i], r[i])
    BY <1>2 DEF Alike
  <2>2. \A x : PendingIn(x, r) => PendingIn(x, st)
    <3>. SUFFICES ASSUME NEW x, NEW i \in 1..Len(r), r[i].kind = "phasers", x \in ToSet(r[i].caught)
                  PROVE  PendingIn(x, st)
      BY DEF PendingIn
    <3>1. i # n
      BY <1>2 DEF ToSet
    <3>2. i \in 1..Len(st)
      BY <1>1, <1>2, <3>1
    <3>. QED BY <1>2, <3>2 DEF PendingIn
  <2>3. \A k \in K : \A a \in Up(s, k.ctx) : k.marks[a] # 0 => StaysHandled(k.marks[a], e, e, r)
    BY <1>4, <2>2, StillHandled
  <2>4. \A k \in K1 : \A a \in Up(s, k.ctx) : k.marks[a] # 0 => StaysHandled(k.marks[a], e, e, r)
    BY <2>3 DEF Upto
  <2>5. Len(st) <= Len(r) /\ Len(r) \in Nat
    BY <1>1, <1>2
  <2>. QED BY <1>1, <1>3, <1>4, <2>1, <2>4, <2>5, PointsStay
<1>7. PICK k \in K : Shows(k, u, Marks(s), Len(st))
  BY DEF PointsRight
<1>8. k \in K1 /\ k.time <= Len(s) /\ k.ctx = u /\ k.depth = Len(st) /\ Agrees(k, Marks(s))
  <2>1. k.time <= Len(s) /\ k.ctx = u /\ k.depth = Len(st) /\ Agrees(k, Marks(s))
    BY <1>4, <1>7 DEF Sound, Placed, Shows
  <2>2. Len(st) <= Len(st)
    BY <1>1
  <2>. QED BY <2>1, <2>2 DEF Upto
<1>. HIDE DEF K1
<1>9. Placed(k, t, e, r) /\ Catches(k, K1, t, r) /\ Unwinds(k, K1, t, r) /\ k \in Points
  BY <1>6, <1>8 DEF Sound
<1>. DEFINE p == [k EXCEPT !.depth = n]
<1>10. p \in Points /\ p.ctx = u /\ p.marks = k.marks /\ p.depth = n /\ p.time = k.time
  <2>1. n \in Nat
    BY <1>1
  <2>. QED BY <1>8, <1>9, <2>1 DEF Points
<1>. HIDE DEF p, n
<1>11. ~Loop(r, n) /\ r[n].ctx = u /\ n \in 1..n /\ n \in Nat /\ n # 0 /\ n - 1 = Len(st) /\ n \in 1..Len(r)
       /\ \A j \in 1..n : j # n => j \in 1..Len(st)
  BY <1>1, <1>2 DEF Loop, n
<1>12. ASSUME NEW j \in 1..Len(st), ~Loop(r, j) PROVE r[j].ctx \in Up(s, u) /\ r[j].ctx < u
  <2>1. ~Loop(st, j) /\ r[j] = st[j]
    BY <1>2, <1>12 DEF Loop
  <2>. QED BY <1>1, <2>1 DEF Nested
<1>13. Placed(p, t, e, r)
  <2>1. \A j \in 1..n : ~Loop(r, j) => r[j].ctx \in Up(t, u) /\ (r[j].ctx < u \/ j = n)
    BY <1>1, <1>5, <1>11, <1>12
  <2>. QED BY <1>8, <1>9, <1>10, <1>11, <2>1 DEF Placed
<1>14. Returns(p, K1 \cup {p}, t, r) /\ Resumes(p, K1 \cup {p}, t, e, r)
  BY <1>10, <1>11 DEF Returns, Resumes
<1>time. k.time \in Nat /\ k.time <= k.time
  BY <1>9 DEF Points
<1>15. Leaves(p, K1 \cup {p}, t, r)
  <2>1. Shows(k, u, k.marks, Len(st))
    BY <1>8 DEF Shows, Agrees
  <2>. QED BY <1>8, <1>time, <1>10, <1>11, <2>1 DEF Leaves
<1>16. Catches(p, K1 \cup {p}, t, r)
  <2>. SUFFICES ASSUME NEW j \in 1..n, ~Loop(r, j)
                PROVE  \E q \in K1 \cup {p} : /\ Shows(q, r[j].ctx, k.marks, j) /\ q.time <= k.time
                                              /\ \A b \in Up(t, u) : b > r[j].ctx => q.time < b
    BY <1>10 DEF Catches
  <2>1. CASE j = n
    <3>1. \A b \in Up(t, u) : ~(b > u)
      BY <1>1, <1>5
    <3>2. Shows(p, u, k.marks, n)
      BY <1>10 DEF Shows, Agrees
    <3>. QED BY <1>time, <1>10, <1>11, <2>1, <3>1, <3>2
  <2>2. CASE j # n
    <3>1. j \in 1..Len(st)
      BY <1>11, <2>2
    <3>. QED BY <1>8, <1>9, <3>1 DEF Catches
  <2>. QED BY <2>1, <2>2
<1>17. Unwinds(p, K1 \cup {p}, t, r)
  <2>. SUFFICES ASSUME NEW c \in Up(t, u) PROVE \E q \in K1 : Unwound(q, c, p, t, r)
    BY <1>10 DEF Unwinds
  <2>1. PICK q \in K1 : Unwound(q, c, k, t, r)
    BY <1>8, <1>9 DEF Unwinds
  <2>2. q.depth <= n
    <3>1. q.depth \in Nat /\ q.depth <= Len(st)
      BY <1>6, <1>8, <2>1 DEF Sound, Points, Unwound
    <3>. QED BY <1>1, <3>1 DEF n
  <2>3. \A j \in 1..n : ~Loop(r, j) /\ r[j].ctx < c => j < q.depth
    <3>. SUFFICES ASSUME NEW j \in 1..n, ~Loop(r, j), r[j].ctx < c PROVE j < q.depth
      OBVIOUS
    <3>1. j # n
      <4>1. c \in 1..u
        BY <1>1, <1>5
      <4>2. ~(u < c)
        BY <1>1, <4>1
      <4>. QED BY <1>11, <4>2
    <3>2. j \in 1..Len(st)
      BY <1>11, <3>1
    <3>. QED BY <1>8, <2>1, <3>2 DEF Unwound
  <2>4. Unwound(q, c, p, t, r)
    BY <1>10, <2>1, <2>2, <2>3 DEF Unwound
  <2>. QED BY <2>4
<1>18. Sound(K1 \cup {p}, t, e, r)
  BY <1>6, <1>10, <1>13, <1>14, <1>15, <1>16, <1>17, PointAdded
<1>19. ASSUME NEW c \in 1..Len(s), CatchersOf(c, s, st) PROVE CatchersOf(c, t, r)
  <2>1. CASE c # u
    <3>. SUFFICES ASSUME NEW h \in 1..Len(s[c].handlers), s[c].handlers[h].frame # 0
                  PROVE  h = 1 /\ Catching(s[c].handlers[h].frame, c, r)
      BY <1>3, <2>1 DEF CatchersOf
    <3>. DEFINE j == s[c].handlers[h].frame
    <3>1. h = 1 /\ Catching(j, c, st)
      BY <1>19 DEF CatchersOf
    <3>. HIDE DEF j
    <3>2. j \in 1..Len(r) /\ r[j] = st[j]
      BY <1>1, <1>2, <3>1 DEF Catching, n
    <3>3. Catching(j, c, r)
      BY <3>1, <3>2 DEF Catching, Loop
    <3>. QED BY <3>1, <3>3 DEF j
  <2>2. CASE c = u
    <3>1. Catching(n, u, r)
      BY <1>2, <1>11 DEF Catching
    <3>2. v.handlers[1].frame = n
      BY DEF n
    <3>. QED BY <1>3, <2>2, <3>1, <3>2 DEF CatchersOf
  <2>. QED BY <2>1, <2>2
<1>20. ASSUME NEW q \in K, NEW c \in Up(t, q.ctx) PROVE CatchersOf(c, t, r)
  <2>1. q.ctx \in 1..Len(s)
    BY <1>4 DEF Sound, Placed
  <2>2. q.ctx \in 0..Len(s)
    BY <1>1, <2>1
  <2>3. c \in Up(s, q.ctx) /\ c \in 1..q.ctx
    BY <1>3, <1>5, <2>2, UpSame, UpBelow
  <2>4. c \in 1..Len(s)
    BY <1>1, <2>1, <2>3
  <2>5. CatchersOf(c, s, st)
    BY <1>4, <2>3 DEF Catchers
  <2>. QED BY <1>19, <2>4, <2>5
<1>21. Catchers(K1 \cup {p}, t, r)
  <2>1. \A q \in K1 : q \in K
    BY DEF K1, Upto
  <2>. QED BY <1>8, <1>10, <1>20, <2>1 DEF Catchers
<1>22. Shows(p, u, Marks(t), Len(r))
  BY <1>2, <1>3, <1>8, <1>10 DEF Shows, Agrees
<1>23. PointsRight(K1 \cup {p}, t, e, r, u)
  BY <1>18, <1>21, <1>22 DEF PointsRight
<1>. QED BY <1>23 DEF r

LEMMA BeginCatchingKeeps ==
  ASSUME ExInv, BeginCatching
  PROVE  ExInv'
<1>. DEFINE n == Len(c_stack) + 1
            h == Handler(ctx, Types, n)
            w == contexts[ctx]
            v == [w EXCEPT !.handlers = <<h>> \o @, !.pushed = @ + 1]
<1>1. /\ InOp /\ Push(h)
      /\ UNCHANGED <<ctx, exceptions, runloops, current_runloop_id, current_runloop_level, runloop_id_counter, ended>>
  BY DEF BeginCatching, runloopVars
<1>2. PICK g : /\ c_stack' = Append(c_stack, g) /\ g \in CatchFrame /\ g.kind # "runops" /\ g.ctx = ctx
               /\ g.runloop_id = current_runloop_id /\ g.trying /\ g.caught = <<>>
  <2>1. PICK kind \in {"phasers", "ext"} :
          c_stack' = Append(c_stack, [kind |-> kind, ctx |-> ctx, runloop_id |-> current_runloop_id,
                                      trying |-> TRUE, caught |-> <<>>])
    BY DEF BeginCatching
  <2>2. ctx \in Nat /\ current_runloop_id \in Nat /\ <<>> \in Seq(Nat)
    <3>1. ctx \in 1..Len(contexts) /\ Len(contexts) \in Nat
      BY <1>1, OpFacts
    <3>2. HasLoop(c_stack, Len(c_stack)) /\ current_runloop_id = c_stack[Len(c_stack)].id
      BY <1>1, OpFacts
    <3>3. current_runloop_id \in 1..runloop_id_counter /\ runloop_id_counter \in Nat
      BY <3>2 DEF ExInv, Chain
    <3>. QED BY <3>1, <3>3
  <2>. DEFINE g == [kind |-> kind, ctx |-> ctx, runloop_id |-> current_runloop_id, trying |-> TRUE, caught |-> <<>>]
  <2>3. /\ g \in CatchFrame /\ g.kind # "runops" /\ g.ctx = ctx /\ g.runloop_id = current_runloop_id
        /\ g.trying /\ g.caught = <<>>
    BY <2>2 DEF CatchFrame
  <2>. QED BY <2>1, <2>3
<1>3. /\ Typed(contexts, exceptions, ctx) /\ Chain(c_stack, runloops, runloop_id_counter)
      /\ FramesRight(contexts, exceptions, c_stack) /\ c_stack \in Seq(Frame)
  BY DEF ExInv, Chain
<1>4. /\ Len(c_stack) \in Nat /\ Len(c_stack) \in 1..Len(c_stack) /\ Loop(c_stack, Len(c_stack))
      /\ current_runloop_id = c_stack[Len(c_stack)].id /\ ctx \in 1..Len(contexts) /\ w \in ContextRecord
      /\ \A j \in 1..Len(c_stack) : ~Loop(c_stack, j) => c_stack[j].ctx # ctx /\ c_stack[j].ctx \in Up(contexts, ctx)
      /\ \A p \in 1..Len(w.handlers) : w.handlers[p].frame = 0 /\ w.handlers[p].runloop_id = w.runloop
  BY <1>1, OpFacts DEF HasLoop
<1>5. h \in HandlerRecord /\ h.frame = n /\ h.frame # 0 /\ h.takes = Types
  <2>1. w.pushed + 1 \in Nat
    BY <1>4 DEF ContextRecord
  <2>2. n \in Nat /\ n # 0 /\ Types \in SUBSET Types
    BY <1>4
  <2>3. current_runloop_id \in Nat
    BY <1>3, <1>4 DEF Chain, LoopsApart
  <2>. QED BY <2>1, <2>2, <2>3 DEF Handler, HandlerRecord
<1>6. contexts' = [contexts EXCEPT ![ctx] = v]
  BY <1>1 DEF Push
<1>. HIDE DEF h, w
<1>7. /\ SameBut(v, w) /\ Len(v.handlers) = Len(w.handlers) + 1 /\ Len(w.handlers) \in Nat /\ v.handlers[1] = h
      /\ \A p \in 1..Len(v.handlers) : p # 1 => p - 1 \in 1..Len(w.handlers) /\ v.handlers[p] = w.handlers[p - 1]
  <2>1. /\ w \in ContextRecord /\ h \in HandlerRecord /\ (h.frame = 0 => h.runloop_id = w.runloop)
        /\ \A p \in 1..Len(w.handlers) : w.handlers[p].frame = 0 => w.handlers[p].runloop_id = w.runloop
    BY <1>4, <1>5
  <2>. QED BY <2>1, HandlerPushed
<1>. HIDE DEF v
<1>8. Rehandles(contexts, contexts', ctx, v) /\ Typed(contexts', exceptions, ctx)
  BY <1>3, <1>4, <1>6, <1>7, Rehandled DEF w
<1>9. g \in Frame /\ ~Loop(c_stack', Len(c_stack) + 1) /\ c_stack' \in Seq(Frame) /\ Len(c_stack') = n
      /\ c_stack'[n] = g /\ \A j \in 1..Len(c_stack) : c_stack'[j] = c_stack[j]
  <2>1. g \in Frame
    BY <1>2 DEF Frame
  <2>. QED BY <1>2, <1>3, <2>1, AppendProperties DEF Loop
<1>10. Chain(c_stack', runloops, runloop_id_counter)
  <2>1. \A i : i \in 1..Len(c_stack') <=> i \in 1..Len(c_stack) \/ i = n
    BY <1>4, <1>9
  <2>2. \A i : HasLoop(c_stack', i) <=> HasLoop(c_stack, i)
    BY <1>4, <1>9, <2>1 DEF HasLoop, Loop
  <2>3. \A i : HasLoop(c_stack, i) => c_stack'[i].id = c_stack[i].id
    BY <1>9 DEF HasLoop
  <2>. QED BY <1>3, <1>9, <2>2, <2>3, ChainSame
<1>11. FramesRight(contexts', exceptions, c_stack')
  <2>1. FramesRight(contexts', exceptions, c_stack)
    <3>1. ASSUME NEW j \in 1..Len(c_stack), ~Loop(c_stack, j)
          PROVE  /\ c_stack[j].trying => Headed(contexts', c_stack[j].ctx, j)
                 /\ \A x \in ToSet(c_stack[j].caught) : x \in 1..Len(exceptions) /\ exceptions[x].context = c_stack[j].ctx
      <4>1. Framed(contexts, exceptions, c_stack, j)
        BY <1>3, <3>1 DEF FramesRight
      <4>2. c_stack[j].ctx \in 1..Len(contexts)
        <5>1. Up(contexts, ctx) \subseteq 1..ctx /\ Len(contexts) \in Nat
          BY <1>3, AreNested DEF ExInv
        <5>. QED BY <1>4, <3>1, <5>1
      <4>3. contexts'[c_stack[j].ctx].handlers = contexts[c_stack[j].ctx].handlers
        BY <1>4, <1>8, <3>1, <4>2 DEF Rehandles
      <4>. QED BY <4>1, <4>3 DEF Framed, Headed
    <3>2. Len(c_stack) <= Len(c_stack)
      BY <1>4
    <3>. QED BY <1>3, <1>4, <3>1, <3>2, FramesKeep
  <2>2. Framed(contexts', exceptions, Append(c_stack, g), Len(c_stack) + 1)
    <3>1. n - 1 = Len(c_stack) /\ n - 1 \in 1..n /\ ~(n < n) /\ Len(c_stack) \in 1..Len(c_stack)
      BY <1>4
    <3>2. Loop(c_stack', n - 1) /\ c_stack'[n].runloop_id = c_stack'[n - 1].id
      BY <1>2, <1>4, <1>9, <3>1 DEF Loop
    <3>3. Headed(contexts', ctx, n)
      <4>1. Len(v.handlers) # 0
        BY <1>7
      <4>. QED BY <1>5, <1>7, <1>8, <4>1 DEF Headed, Rehandles
    <3>4. \A x : x \notin ToSet(g.caught)
      BY <1>2 DEF ToSet
    <3>5. Framed(contexts', exceptions, c_stack', n)
      BY <1>2, <1>9, <3>1, <3>2, <3>3, <3>4 DEF Framed
    <3>. QED BY <1>2, <3>5
  <2>. QED BY <1>2, <1>3, <1>4, <1>9, <2>1, <2>2, FramesAdd
<1>12. \E K2 : PointsRight(K2, contexts', exceptions, c_stack', ctx)
  <2>1. PICK K : PointsRight(K, contexts, exceptions, c_stack, ctx)
    BY DEF ExInv
  <2>2. \A p \in 1..Len(v.handlers) : p # 1 => v.handlers[p].frame = 0
    BY <1>4, <1>7
  <2>3. v.handlers[1].frame = Len(c_stack) + 1
    BY <1>5, <1>7
  <2>. QED BY <1>2, <1>3, <1>4, <1>8, <1>9, <2>1, <2>2, <2>3, CatchPoint
<1>. QED BY <1>1, <1>8, <1>10, <1>11, <1>12 DEF ExInv
-----------------------------------------------------------------------------
InC == Innermost("phasers") \/ Innermost("ext")

(* The handlers of the context of the innermost C code, but the one that it has
   pushed, are handlers of the program. *)
LEMMA TopHandlers ==
  ASSUME ExInv, InC
  PROVE  /\ \A p \in 1..Len(contexts[ctx].handlers) : p # 1 => contexts[ctx].handlers[p].frame = 0
         /\ ~Last(c_stack).trying => \A p \in 1..Len(contexts[ctx].handlers) : contexts[ctx].handlers[p].frame = 0
         /\ Last(c_stack).trying => Len(contexts[ctx].handlers) # 0
<1>. DEFINE hs == contexts[ctx].handlers
            d == Len(c_stack)
<1>1. /\ d \in 1..d /\ ~Loop(c_stack, d) /\ Framed(contexts, exceptions, c_stack, d) /\ c_stack[d].ctx = ctx
      /\ \A j \in 1..d : ~Loop(c_stack, j) /\ j # d => c_stack[j].ctx # ctx
      /\ CatchersOf(ctx, contexts, c_stack)
  BY TopFacts DEF InC
<1>2. \A p \in 1..Len(hs) : hs[p].frame # 0 => p = 1 /\ Catching(hs[p].frame, ctx, c_stack)
  BY <1>1 DEF CatchersOf
<1>3. ASSUME NEW j, Catching(j, ctx, c_stack) PROVE c_stack[d].trying
  BY <1>1, <1>3 DEF Catching
<1>4. c_stack[d].trying => Len(hs) # 0
  BY <1>1 DEF Framed, Headed
<1>. QED BY <1>2, <1>3, <1>4 DEF Last

(* C code that returns. *)
LEMMA LeaveKeeps ==
  ASSUME ExInv, InC, NEW v, Rehandles(contexts, contexts', ctx, v), Typed(contexts', exceptions, ctx),
         \A p \in 1..Len(v.handlers) : v.handlers[p].frame = 0,
         c_stack' = Front(c_stack), UNCHANGED <<ctx, exceptions, runloopVars, ended>>
  PROVE  ExInv'
<1>. DEFINE d == Len(c_stack)
            r == SubSeq(c_stack, 1, d - 1)
            t == contexts'
<1>1. /\ d \in Nat /\ d \in 1..d /\ d - 1 \in 1..d /\ d # d - 1 /\ ~Loop(c_stack, d) /\ Loop(c_stack, d - 1)
      /\ c_stack[d].ctx = ctx /\ ctx \in 1..Len(contexts) /\ Len(contexts) \in Nat
      /\ \A j \in 1..d : ~Loop(c_stack, j) /\ j # d => c_stack[j].ctx # ctx /\ c_stack[j].ctx \in 1..Len(contexts)
  BY TopFacts DEF InC
<1>2. /\ Typed(contexts, exceptions, ctx) /\ Chain(c_stack, runloops, runloop_id_counter)
      /\ FramesRight(contexts, exceptions, c_stack) /\ c_stack \in Seq(Frame)
  BY DEF ExInv, Chain
<1>3. PICK K : PointsRight(K, contexts, exceptions, c_stack, ctx)
  BY DEF ExInv
<1>4. c_stack' = r
  BY DEF Front
<1>5. /\ r \in Seq(Frame) /\ Len(r) = d - 1 /\ \A j \in 1..d - 1 : r[j] = c_stack[j] /\ j \in 1..d
  <2>1. d - 1 \in 0..d
    BY <1>1
  <2>. QED BY <1>2, <2>1, PrefixIs
<1>. HIDE DEF r
<1>6. /\ Same(contexts, t) /\ Len(t) = Len(contexts) /\ Marks(t) = Marks(contexts) /\ t[ctx] = v
      /\ \A c \in 1..Len(contexts) : c # ctx => t[c].handlers = contexts[c].handlers
  BY DEF Rehandles
<1>. HIDE DEF t, d
<1>len. Len(r) \in Nat /\ Len(r) <= d /\ \A j \in 1..Len(r) : j # d /\ j \in 1..d /\ r[j] = c_stack[j]
  BY <1>1, <1>5
<1>7. Chain(r, runloops, runloop_id_counter)
  <2>1. \A i : HasLoop(r, i) <=> HasLoop(c_stack, i)
    <3>1. \A i : i \in 1..Len(r) <=> i \in 1..d /\ i # d
      BY <1>1, <1>5
    <3>. QED BY <1>1, <1>len, <3>1 DEF HasLoop, Loop, d
  <2>2. \A i : HasLoop(c_stack, i) => r[i].id = c_stack[i].id
    BY <1>len, <2>1 DEF HasLoop
  <2>. QED BY <1>2, <1>5, <2>1, <2>2, ChainSame
<1>8. FramesRight(t, exceptions, r)
  <2>1. ASSUME NEW j \in 1..Len(r), ~Loop(c_stack, j)
        PROVE  /\ c_stack[j].trying => Headed(t, c_stack[j].ctx, j)
               /\ \A x \in ToSet(c_stack[j].caught) : x \in 1..Len(exceptions) /\ exceptions[x].context = c_stack[j].ctx
    <3>1. j \in 1..d /\ j # d
      BY <1>len
    <3>2. Framed(contexts, exceptions, c_stack, j)
      BY <1>2, <2>1, <3>1 DEF FramesRight, d
    <3>3. t[c_stack[j].ctx].handlers = contexts[c_stack[j].ctx].handlers
      BY <1>1, <1>6, <2>1, <3>1
    <3>. QED BY <3>2, <3>3 DEF Framed, Headed
  <2>2. \A j \in 1..Len(r) : r[j] = c_stack[j]
    BY <1>len
  <2>3. Len(c_stack) \in Nat /\ Len(r) <= Len(c_stack)
    BY <1>1, <1>len DEF d
  <2>. QED BY <1>2, <1>len, <2>1, <2>2, <2>3, FramesKeep
<1>9. \E K2 : PointsRight(K2, t, exceptions, r, ctx)
  <2>1. Sound(K, contexts, exceptions, c_stack) /\ Catchers(K, contexts, c_stack)
    BY <1>3 DEF PointsRight
  <2>2. PICK k \in K : Shows(k, ctx, Marks(contexts), d)
    BY <1>3 DEF PointsRight, d
  <2>3. k.ctx = ctx /\ k.depth = d /\ Agrees(k, Marks(contexts)) /\ Leaves(k, K, contexts, c_stack) /\ k.time <= Len(contexts)
    BY <2>1, <2>2 DEF Sound, Placed, Shows
  <2>4. PICK q \in K : Shows(q, ctx, k.marks, d - 1) /\ q.time <= k.time
    BY <1>1, <2>3 DEF Leaves
  <2>5. \A a \in 1..q.time : a \in 1..k.time
    <3>1. q.time \in Nat /\ k.time \in Nat
      BY <2>1 DEF Sound, Points
    <3>. QED BY <2>4, <3>1
  <2>6. Shows(q, ctx, Marks(t), Len(r)) /\ q.time <= Len(contexts)
    <3>1. q.time <= Len(contexts)
      BY <2>1 DEF Sound, Placed
    <3>. QED BY <1>5, <1>6, <2>3, <2>4, <2>5, <3>1 DEF Shows, Agrees
  <2>7. \A x : PendingIn(x, r) => PendingIn(x, c_stack)
    BY <1>len DEF PendingIn, d
  <2>8. \A p \in K : \A a \in Up(contexts, p.ctx) :
           p.marks[a] # 0 => StaysHandled(p.marks[a], exceptions, exceptions, r)
    BY <2>1, <2>7, StillHandled
  <2>9. \A p \in Upto(K, Len(r), Len(contexts)) : \A a \in Up(contexts, p.ctx) :
           p.marks[a] # 0 => StaysHandled(p.marks[a], exceptions, exceptions, r)
    BY <2>8 DEF Upto
  <2>10. \A i \in 1..Len(r) : Alike(c_stack[i], r[i])
    BY <1>len DEF Alike
  <2>11. \A c \in 1..Len(contexts) : Holds(c, contexts, t, c_stack, r)
    BY <1>6, <1>len DEF Holds
  <2>12. \A j \in 1..Len(c_stack) : ~Loop(c_stack, j) /\ j > Len(r) /\ c_stack[j].trying =>
            \/ c_stack[j].ctx > Len(contexts)
            \/ \A h \in 1..Len(t[c_stack[j].ctx].handlers) : t[c_stack[j].ctx].handlers[h].frame = 0
    <3>1. \A j \in 1..d : j > Len(r) => j = d
      BY <1>1, <1>5
    <3>. QED BY <1>1, <1>6, <3>1 DEF d
  <2>13. Len(c_stack) \in Nat /\ Len(r) <= Len(c_stack)
    BY <1>1, <1>len DEF d
  <2>14. PointsRight(Upto(K, Len(r), Len(contexts)), t, exceptions, r, ctx)
    BY <1>1, <1>6, <1>len, <2>1, <2>6, <2>9, <2>10, <2>11, <2>12, <2>13, PointsCut
  <2>. QED BY <2>14
<1>. QED BY <1>4, <1>7, <1>8, <1>9 DEF ExInv, runloopVars, t

(* C code that goes on with a frame that means the same. *)
LEMMA TopChanges ==
  ASSUME ExInv, InC, NEW g \in CatchFrame, g.kind = c_stack[Len(c_stack)].kind, g.ctx = ctx,
         c_stack' = [c_stack EXCEPT ![Len(c_stack)] = g]
  PROVE  /\ c_stack' \in Seq(Frame) /\ Len(c_stack') = Len(c_stack) /\ c_stack'[Len(c_stack)] = g
         /\ \A j \in 1..Len(c_stack) : j # Len(c_stack) => c_stack'[j] = c_stack[j]
         /\ \A j \in 1..Len(c_stack) : Alike(c_stack[j], c_stack'[j])
         /\ \A j : Loop(c_stack, j) /\ j \in 1..Len(c_stack) => Loop(c_stack', j)
         /\ ~Loop(c_stack', Len(c_stack)) /\ Chain(c_stack', runloops, runloop_id_counter)
<1>. DEFINE d == Len(c_stack)
            r == [c_stack EXCEPT ![d] = g]
<1>1. /\ d \in Nat /\ d \in 1..d /\ ~Loop(c_stack, d) /\ c_stack[d].ctx = ctx
      /\ c_stack \in Seq(Frame) /\ Chain(c_stack, runloops, runloop_id_counter)
  BY TopFacts DEF InC, ExInv, Chain
<1>2. g \in Frame /\ g.kind # "runops"
  BY DEF Frame, CatchFrame
<1>3. r \in Seq(Frame) /\ Len(r) = d /\ \A j \in 1..d : r[j] = IF j = d THEN g ELSE c_stack[j]
  BY <1>1, <1>2, ExceptSeq
<1>. HIDE DEF r, d
<1>4. ~Loop(r, d) /\ \A j \in 1..d : j # d => r[j] = c_stack[j]
  BY <1>1, <1>2, <1>3 DEF Loop
<1>5. \A j \in 1..d : Alike(c_stack[j], r[j])
  <2>1. Alike(c_stack[d], r[d])
    BY <1>1, <1>2, <1>3 DEF Alike, Loop, d
  <2>2. \A j \in 1..d : j # d => Alike(c_stack[j], r[j])
    BY <1>4 DEF Alike
  <2>. QED BY <2>1, <2>2
<1>6. \A j \in 1..d : Loop(r, j) <=> Loop(c_stack, j)
  BY <1>1, <1>4 DEF Loop
<1>7. Chain(r, runloops, runloop_id_counter)
  <2>1. \A i : HasLoop(r, i) <=> HasLoop(c_stack, i)
    BY <1>3, <1>6 DEF HasLoop, d
  <2>2. \A i : HasLoop(c_stack, i) => r[i].id = c_stack[i].id
    BY <1>1, <1>4 DEF HasLoop, d
  <2>. QED BY <1>1, <1>3, <2>1, <2>2, ChainSame
<1>8. c_stack' = r
  BY DEF r, d
<1>. QED BY <1>1, <1>3, <1>4, <1>5, <1>6, <1>7, <1>8 DEF d

(* C code goes on, trying or not, and has a handler if it does. *)
LEMMA TopKeeps ==
  ASSUME ExInv, InC, NEW g \in CatchFrame, g.kind = "phasers", c_stack[Len(c_stack)].kind = "phasers", g.ctx = ctx,
         g.runloop_id = c_stack[Len(c_stack)].runloop_id, g.caught = c_stack[Len(c_stack)].caught,
         c_stack' = [c_stack EXCEPT ![Len(c_stack)] = g],
         NEW v, Rehandles(contexts, contexts', ctx, v), Typed(contexts', exceptions, ctx),
         g.trying => Len(v.handlers) # 0 /\ v.handlers[1].frame = Len(c_stack) /\ v.handlers[1].takes = Types,
         \A p \in 1..Len(v.handlers) :
            v.handlers[p].frame # 0 => p = 1 /\ g.trying /\ v.handlers[p].frame = Len(c_stack),
         UNCHANGED <<ctx, exceptions, runloopVars, ended>>
  PROVE  ExInv'
<1>. DEFINE d == Len(c_stack)
            r == c_stack'
            t == contexts'
<1>1. /\ d \in Nat /\ d \in 1..d /\ d - 1 \in 1..d /\ d # d - 1 /\ ~Loop(c_stack, d) /\ Loop(c_stack, d - 1)
      /\ c_stack[d].ctx = ctx /\ ctx \in 1..Len(contexts) /\ Len(contexts) \in Nat /\ Framed(contexts, exceptions, c_stack, d)
      /\ \A j \in 1..d : ~Loop(c_stack, j) /\ j # d => c_stack[j].ctx # ctx /\ c_stack[j].ctx \in 1..Len(contexts)
  BY TopFacts DEF InC
<1>2. /\ Typed(contexts, exceptions, ctx) /\ FramesRight(contexts, exceptions, c_stack) /\ c_stack \in Seq(Frame)
  BY DEF ExInv, Chain
<1>3. PICK K : PointsRight(K, contexts, exceptions, c_stack, ctx)
  BY DEF ExInv
<1>4. /\ r \in Seq(Frame) /\ Len(r) = d /\ r[d] = g
      /\ \A j \in 1..d : j # d => r[j] = c_stack[j]
      /\ \A j \in 1..d : Alike(c_stack[j], r[j])
      /\ \A j : Loop(c_stack, j) /\ j \in 1..d => Loop(r, j)
      /\ ~Loop(r, d) /\ Chain(r, runloops, runloop_id_counter)
  BY TopChanges
<1>5. /\ Same(contexts, t) /\ Len(t) = Len(contexts) /\ Marks(t) = Marks(contexts) /\ t[ctx] = v
      /\ \A c \in 1..Len(contexts) : c # ctx => t[c].handlers = contexts[c].handlers
  BY DEF Rehandles
<1>. HIDE DEF r, t, d
<1>6. FramesRight(t, exceptions, r)
  <2>1. ASSUME NEW j \in 1..Len(r), ~Loop(c_stack, j), j # Len(r)
        PROVE  /\ c_stack[j].trying => Headed(t, c_stack[j].ctx, j)
               /\ \A x \in ToSet(c_stack[j].caught) : x \in 1..Len(exceptions) /\ exceptions[x].context = c_stack[j].ctx
    <3>1. j \in 1..d /\ j # d
      BY <1>4, <2>1
    <3>2. Framed(contexts, exceptions, c_stack, j)
      BY <1>2, <2>1, <3>1 DEF FramesRight, d
    <3>3. t[c_stack[j].ctx].handlers = contexts[c_stack[j].ctx].handlers
      BY <1>1, <1>5, <2>1, <3>1
    <3>. QED BY <3>2, <3>3 DEF Framed, Headed
  <2>2. Framed(t, exceptions, r, d)
    <3>1. Loop(r, d - 1) /\ r[d].runloop_id = r[d - 1].id
      BY <1>1, <1>4 DEF Framed, d
    <3>2. g.trying => Headed(t, ctx, d)
      BY <1>5 DEF Headed, d
    <3>3. \A x \in ToSet(g.caught) : x \in 1..Len(exceptions) /\ exceptions[x].context = ctx
      BY <1>1 DEF Framed, d
    <3>4. ~(d < d)
      BY <1>1
    <3>. QED BY <1>1, <1>4, <3>1, <3>2, <3>3, <3>4 DEF Framed
  <2>3. Len(c_stack) \in Nat /\ Len(r) \in Nat /\ Len(r) <= Len(c_stack)
    BY <1>1, <1>4 DEF d
  <2>4. \A j \in 1..Len(r) : j # Len(r) => r[j] = c_stack[j]
    BY <1>4
  <2>. QED BY <1>2, <1>4, <2>1, <2>2, <2>3, <2>4, FramesTop
<1>7. \E K2 : PointsRight(K2, t, exceptions, r, ctx)
  <2>1. Sound(K, contexts, exceptions, c_stack) /\ Catchers(K, contexts, c_stack)
    BY <1>3 DEF PointsRight
  <2>2. PICK k \in K : Shows(k, ctx, Marks(contexts), d)
    BY <1>3 DEF PointsRight, d
  <2>3. Shows(k, ctx, Marks(t), Len(r)) /\ k.time <= Len(contexts)
    BY <1>4, <1>5, <2>1, <2>2 DEF Sound, Placed
  <2>4. \A x : PendingIn(x, r) => PendingIn(x, c_stack)
    <3>1. ASSUME NEW i \in 1..Len(r), r[i].kind = "phasers"
          PROVE  i \in 1..Len(c_stack) /\ c_stack[i].kind = "phasers" /\ c_stack[i].caught = r[i].caught
      <4>1. i = d \/ i # d
        OBVIOUS
      <4>. QED BY <1>4, <3>1, <4>1 DEF d
    <3>. QED BY <3>1 DEF PendingIn
  <2>5. \A p \in K : \A a \in Up(contexts, p.ctx) :
           p.marks[a] # 0 => StaysHandled(p.marks[a], exceptions, exceptions, r)
    BY <2>1, <2>4, StillHandled
  <2>6. \A p \in Upto(K, Len(r), Len(contexts)) : \A a \in Up(contexts, p.ctx) :
           p.marks[a] # 0 => StaysHandled(p.marks[a], exceptions, exceptions, r)
    BY <2>5 DEF Upto
  <2>7. ASSUME NEW p \in Upto(K, Len(r), Len(contexts)), NEW c \in Up(contexts, p.ctx) PROVE CatchersOf(c, t, r)
    <3>1. CatchersOf(c, contexts, c_stack) /\ c \in 1..Len(contexts)
      <4>1. p \in K /\ p.ctx \in 1..Len(contexts)
        BY <2>1 DEF Upto, Sound, Placed
      <4>2. p.ctx \in 0..Len(contexts) /\ Calls(contexts)
        BY <1>1, <1>2, <4>1 DEF Typed
      <4>3. c \in 1..p.ctx
        BY <4>2, UpBelow
      <4>. QED BY <1>1, <2>1, <4>1, <4>3 DEF Catchers
    <3>2. CASE c # ctx
      <4>1. t[c].handlers = contexts[c].handlers
        BY <1>5, <3>1, <3>2
      <4>2. \A j : Catching(j, c, c_stack) => Catching(j, c, r)
        <5>1. \A j : Catching(j, c, c_stack) => j \in 1..d /\ j # d
          BY <1>1, <3>2 DEF Catching, d
        <5>. QED BY <1>4, <5>1 DEF Catching, Loop
      <4>. QED BY <3>1, <4>1, <4>2 DEF CatchersOf
    <3>3. CASE c = ctx
      <4>1. g.trying => Catching(d, ctx, r)
        BY <1>1, <1>4 DEF Catching
      <4>. QED BY <1>5, <3>3, <4>1 DEF CatchersOf, d
    <3>. QED BY <3>2, <3>3
  <2>8. Len(c_stack) \in Nat /\ Len(r) \in Nat /\ \A j \in 1..Len(r) : Alike(c_stack[j], r[j])
    BY <1>1, <1>4 DEF d
  <2>9. PointsRight(Upto(K, Len(r), Len(contexts)), t, exceptions, r, ctx)
    BY <1>1, <1>5, <2>1, <2>3, <2>6, <2>7, <2>8, PointsKeep
  <2>. QED BY <2>9
<1>. QED BY <1>4, <1>6, <1>7 DEF ExInv, runloopVars, r, t

LEMMA NextPhaserKeeps ==
  ASSUME ExInv, NextPhaser
  PROVE  ExInv'
<1>. DEFINE d == Len(c_stack)
            h == Handler(ctx, Types, d)
            w == contexts[ctx]
            v == [w EXCEPT !.handlers = <<h>> \o @, !.pushed = @ + 1]
            f == c_stack[d]
            g == [f EXCEPT !.trying = TRUE]
<1>1. /\ InC /\ f.kind = "phasers" /\ ~Last(c_stack).trying /\ c_stack' = [c_stack EXCEPT ![d].trying = TRUE]
      /\ Push(h) /\ UNCHANGED <<ctx, exceptions, runloopVars, ended>>
  BY DEF NextPhaser, InC, Innermost, Last
<1>2. /\ d \in Nat /\ d \in 1..d /\ c_stack[d] \in CatchFrame /\ c_stack[d].ctx = ctx
      /\ ctx \in 1..Len(contexts) /\ w \in ContextRecord /\ Homely(contexts, ctx)
  BY <1>1, TopFacts DEF InC
<1>3. \A p \in 1..Len(w.handlers) : w.handlers[p].frame = 0
  BY <1>1, TopHandlers
<1>4. Typed(contexts, exceptions, ctx) /\ Chain(c_stack, runloops, runloop_id_counter) /\ current_runloop_id \in Nat
  <2>1. Chain(c_stack, runloops, runloop_id_counter) /\ current_runloop_id = runloops[Len(runloops)]
    BY DEF ExInv
  <2>2. Framed(contexts, exceptions, c_stack, d)
    BY <1>1, TopFacts DEF InC
  <2>3. d - 1 \in 1..d /\ Loop(c_stack, d - 1)
    BY <2>2 DEF Framed
  <2>4. HasLoop(c_stack, d - 1) /\ \A i : HasLoop(c_stack, i) => i <= d - 1
    <3>1. \A i \in 1..d : i = d \/ i <= d - 1
      BY <1>2
    <3>2. ~Loop(c_stack, d)
      BY <1>1, TopFacts DEF InC
    <3>. QED BY <2>3, <3>1, <3>2 DEF HasLoop
  <2>5. runloops[Len(runloops)] = c_stack[d - 1].id
    BY <2>1, <2>4, ChainTop
  <2>6. c_stack[d - 1].id \in Nat
    BY <2>1, <2>4 DEF Chain, LoopsApart, HasLoop
  <2>. QED BY <2>1, <2>5, <2>6 DEF ExInv
<1>5. h \in HandlerRecord /\ h.frame = d /\ h.frame # 0 /\ h.takes = Types
  <2>1. w.pushed + 1 \in Nat
    BY <1>2 DEF ContextRecord
  <2>2. d # 0 /\ Types \in SUBSET Types
    BY <1>2
  <2>. QED BY <1>2, <1>4, <2>1, <2>2 DEF Handler, HandlerRecord
<1>6. contexts' = [contexts EXCEPT ![ctx] = v]
  BY <1>1 DEF Push
<1>7. g \in CatchFrame /\ g.kind = "phasers" /\ g.ctx = ctx /\ g.runloop_id = f.runloop_id /\ g.caught = f.caught /\ g.trying
      /\ c_stack' = [c_stack EXCEPT ![d] = g]
  BY <1>1, <1>2 DEF CatchFrame
<1>. HIDE DEF h, w, g, f
<1>8. /\ SameBut(v, w) /\ Len(v.handlers) = Len(w.handlers) + 1 /\ Len(w.handlers) \in Nat /\ v.handlers[1] = h
      /\ \A p \in 1..Len(v.handlers) : p # 1 => p - 1 \in 1..Len(w.handlers) /\ v.handlers[p] = w.handlers[p - 1]
  <2>1. /\ w \in ContextRecord /\ h \in HandlerRecord /\ (h.frame = 0 => h.runloop_id = w.runloop)
        /\ \A p \in 1..Len(w.handlers) : w.handlers[p].frame = 0 => w.handlers[p].runloop_id = w.runloop
    BY <1>2, <1>3, <1>5 DEF Homely, w
  <2>. QED BY <2>1, HandlerPushed
<1>. HIDE DEF v
<1>9. Rehandles(contexts, contexts', ctx, v) /\ Typed(contexts', exceptions, ctx)
  BY <1>2, <1>4, <1>6, <1>8, Rehandled DEF w
<1>10. \A p \in 1..Len(v.handlers) : v.handlers[p].frame # 0 => p = 1 /\ g.trying /\ v.handlers[p].frame = d
  BY <1>3, <1>5, <1>7, <1>8
<1>11. Len(v.handlers) # 0 /\ v.handlers[1].frame = d /\ v.handlers[1].takes = Types
  BY <1>5, <1>8
<1>. QED BY <1>1, <1>7, <1>9, <1>10, <1>11, TopKeeps DEF f

LEMMA EndTryKeeps ==
  ASSUME ExInv, EndTry
  PROVE  ExInv'
<1>. DEFINE d == Len(c_stack)
            w == contexts[ctx]
            v == [w EXCEPT !.handlers = Tail(@)]
            f == c_stack[d]
            g == [f EXCEPT !.trying = FALSE]
<1>1. /\ InC /\ Last(c_stack).trying /\ contexts' = [contexts EXCEPT ![ctx] = v]
      /\ UNCHANGED <<ctx, exceptions, runloopVars, ended>>
  BY DEF EndTry, InC
<1>2. /\ d \in Nat /\ d \in 1..d /\ c_stack[d] \in CatchFrame /\ c_stack[d].ctx = ctx
      /\ ctx \in 1..Len(contexts) /\ w \in ContextRecord /\ Homely(contexts, ctx)
  BY <1>1, TopFacts DEF InC
<1>3. Len(w.handlers) # 0 /\ \A p \in 1..Len(w.handlers) : p # 1 => w.handlers[p].frame = 0
  BY <1>1, TopHandlers
<1>. HIDE DEF w
<1>4. /\ SameBut(v, w)
      /\ \A p \in 1..Len(v.handlers) : v.handlers[p] = w.handlers[p + 1] /\ p + 1 \in 1..Len(w.handlers) /\ p + 1 # 1
  <2>1. \A p \in 1..Len(w.handlers) : w.handlers[p].frame = 0 => w.handlers[p].runloop_id = w.runloop
    BY <1>2 DEF Homely, w
  <2>. QED BY <1>2, <1>3, <2>1, HandlerDeleted
<1>. HIDE DEF v
<1>5. Rehandles(contexts, contexts', ctx, v) /\ Typed(contexts', exceptions, ctx)
  <2>1. Typed(contexts, exceptions, ctx)
    BY DEF ExInv
  <2>. QED BY <1>1, <1>2, <1>4, <2>1, Rehandled DEF w
<1>6. \A p \in 1..Len(v.handlers) : v.handlers[p].frame = 0
  BY <1>3, <1>4
<1>7. CASE Innermost("ext")
  <2>1. c_stack' = Front(c_stack)
    BY <1>7 DEF EndTry
  <2>. QED BY <1>1, <1>5, <1>6, <2>1, LeaveKeeps
<1>8. CASE ~Innermost("ext")
  <2>1. c_stack' = [c_stack EXCEPT ![d].trying = FALSE] /\ f.kind = "phasers"
    BY <1>8 DEF EndTry, Innermost, Last
  <2>2. g \in CatchFrame /\ g.kind = "phasers" /\ g.ctx = ctx /\ g.runloop_id = f.runloop_id /\ g.caught = f.caught /\ ~g.trying
        /\ c_stack' = [c_stack EXCEPT ![d] = g]
    BY <1>2, <2>1 DEF CatchFrame
  <2>. HIDE DEF g, f
  <2>. QED BY <1>1, <1>5, <1>6, <2>1, <2>2, TopKeeps DEF f
<1>. QED BY <1>7, <1>8

(* C code that has caught nothing returns. *)
LEMMA EndPhasersKeeps ==
  ASSUME ExInv, Innermost("phasers"), ~Last(c_stack).trying, c_stack' = Front(c_stack),
         UNCHANGED <<contexts, ctx, exceptions, runloopVars, ended>>
  PROVE  ExInv'
<1>1. InC
  BY DEF InC
<1>2. \A p \in 1..Len(contexts[ctx].handlers) : contexts[ctx].handlers[p].frame = 0
  BY <1>1, TopHandlers
<1>3. Typed(contexts, exceptions, ctx)
  BY DEF ExInv
<1>4. Rehandles(contexts, contexts', ctx, contexts[ctx]) /\ Typed(contexts', exceptions, ctx)
  <2>1. contexts' = contexts /\ Len(contexts) \in Nat /\ Calls(contexts)
    BY <1>3, CallsFields DEF Typed
  <2>2. Same(contexts, contexts')
    BY <2>1 DEF Same
  <2>. QED BY <1>3, <2>1, <2>2 DEF Rehandles
<1>. QED BY <1>1, <1>2, <1>4, LeaveKeeps
-----------------------------------------------------------------------------
(* A throw: where the search begins, and what it is of. *)
Start(v) == IF v.handled = -1 THEN v.context ELSE ctx
Trying(j) == j \in 1..Len(c_stack) /\ ~Loop(c_stack, j) /\ c_stack[j].trying
Throwable(x, v, op) ==
  /\ v \in ExceptionRecord /\ x \in 1..Len(exceptions) + 1
  /\ v.before[1] \in 0..Len(exceptions) /\ (v.before[2] => v.before[1] # 0)
  /\ x \in 1..Len(exceptions) => v.context = exceptions[x].context /\ v.handler = exceptions[x].handler
  /\ Start(v) \in Up(contexts, ctx)
  /\ \A j : Trying(j) => c_stack[j].ctx <= Start(v) /\ (v.handled = -1 => c_stack[j].ctx < Start(v))
  /\ \A j \in 1..Len(c_stack) :
       c_stack[j].kind = "phasers" /\ x \in ToSet(c_stack[j].caught) => j = Len(c_stack) /\ ~c_stack[j].trying
  /\ InOp \/ (InC /\ ~op /\ (Last(c_stack).trying <=> v.handled # -1))
  /\ v.resume # 0 /\ (v.handled = 0 \/ (op /\ v.type = "warning")) => InOp /\ op /\ v.resume = ctx

(* Only a rethrown exception is one that is handled. *)
Fresh(x, v, K) == \A k \in K : \A a \in Up(contexts, k.ctx) : k.marks[a] = x => v.handled = -1

Puts(f, x, v) ==
  /\ f \in Seq(ExceptionRecord) /\ Len(f) \in Nat /\ DOMAIN f = 1..Len(f) /\ Len(exceptions) <= Len(f)
  /\ f[x] = v /\ x \in 1..Len(f) /\ v \in ExceptionRecord
  /\ \A y \in 1..Len(f) : y = x \/ y \in 1..Len(exceptions)
  /\ \A y \in 1..Len(exceptions) : y \in 1..Len(f) /\ (y # x => f[y] = exceptions[y])

LEMMA PutIs ==
  ASSUME exceptions \in Seq(ExceptionRecord), NEW x \in 1..Len(exceptions) + 1, NEW v \in ExceptionRecord
  PROVE  Puts(IF x \in DOMAIN exceptions THEN [exceptions EXCEPT ![x] = v] ELSE Append(exceptions, v), x, v)
<1>1. Len(exceptions) \in Nat /\ DOMAIN exceptions = 1..Len(exceptions)
  BY LenProperties
<1>2. CASE x \in 1..Len(exceptions)
  <2>. DEFINE f == [exceptions EXCEPT ![x] = v]
  <2>1. /\ f \in Seq(ExceptionRecord) /\ Len(f) = Len(exceptions)
        /\ \A y \in 1..Len(exceptions) : f[y] = IF y = x THEN v ELSE exceptions[y]
    BY <1>2, ExceptSeq
  <2>. HIDE DEF f
  <2>2. DOMAIN f = 1..Len(f)
    BY <2>1, LenProperties
  <2>3. Puts(f, x, v)
    BY <1>1, <1>2, <2>1, <2>2 DEF Puts
  <2>. QED BY <1>1, <1>2, <2>3 DEF f
<1>3. CASE x \notin 1..Len(exceptions)
  <2>. DEFINE f == Append(exceptions, v)
  <2>0. x = Len(exceptions) + 1
    BY <1>1, <1>3
  <2>1. /\ f \in Seq(ExceptionRecord) /\ Len(f) = Len(exceptions) + 1 /\ f[Len(exceptions) + 1] = v
        /\ \A y \in 1..Len(exceptions) : f[y] = exceptions[y]
    BY AppendProperties
  <2>. HIDE DEF f
  <2>2. DOMAIN f = 1..Len(f)
    BY <2>1, LenProperties
  <2>3. Puts(f, x, v)
    BY <1>1, <2>0, <2>1, <2>2 DEF Puts
  <2>. QED BY <1>1, <1>3, <2>3 DEF f
<1>. QED BY <1>2, <1>3

LEMMA PutTyped ==
  ASSUME NEW s, NEW u, Typed(s, exceptions, u), NEW f, NEW x, NEW v, Puts(f, x, v),
         v.before[1] \in 0..Len(exceptions), v.before[2] => v.before[1] # 0
  PROVE  Typed(s, f, u)
<1>1. Len(exceptions) \in Nat /\ Len(f) \in Nat /\ Len(exceptions) <= Len(f)
  BY LenProperties DEF Typed, Puts
<1>2. \A n \in 0..Len(exceptions) : n \in 0..Len(f)
  BY <1>1
<1>3. \A y \in 1..Len(f) : f[y].before[1] \in 0..Len(f) /\ (f[y].before[2] => f[y].before[1] # 0)
  BY <1>2 DEF Typed, Puts
<1>. QED BY <1>2, <1>3 DEF Typed, Puts

LEMMA CallersAre == \A c : Callers(c) = Up(contexts, c)
  BY Zenon DEF Callers, Up

(* The handlers that the search may find, of which it finds the newest. *)
Behind(v) ==
  LET left == Len(Handlers(Start(v))) - v.handlers_left IN IF v.handled = -1 /\ left > 0 THEN left ELSE 0
Able(v, c, i) ==
  /\ c \in Callers(Start(v)) /\ i \in DOMAIN Handlers(c) /\ CanHandle(Handlers(c)[i], v)
  /\ c = Start(v) => i > Behind(v)
AllAble(v) == {p \in Places(Start(v)) : CanHandle(Handlers(p[1])[p[2]], v) /\ (p[1] = Start(v) => p[2] > Behind(v))}

LEMMA FoundIsFirst ==
  ASSUME NEW v
  PROVE  Found(v) = {p \in AllAble(v) : \A q \in AllAble(v) : q[1] < p[1] \/ (q[1] = p[1] /\ q[2] >= p[2])}
  BY Zenon DEF Found, AllAble, Behind, Start

LEMMA AllAbleAre ==
  ASSUME NEW v
  PROVE  /\ \A p \in AllAble(v) : Able(v, p[1], p[2])
         /\ \A c, i : Able(v, c, i) => <<c, i>> \in AllAble(v)
<1>. DEFINE start == Start(v)
<1>1. Places(start) = UNION {{d} \X DOMAIN Handlers(d) : d \in Callers(start)}
  BY DEF Places
<1>2. AllAble(v) = {p \in Places(start) : CanHandle(Handlers(p[1])[p[2]], v) /\ (p[1] = start => p[2] > Behind(v))}
  BY DEF AllAble
<1>3. ASSUME NEW c, NEW i
      PROVE  Able(v, c, i) <=> (c \in Callers(start) /\ i \in DOMAIN Handlers(c) /\ CanHandle(Handlers(c)[i], v)
                                  /\ (c = start => i > Behind(v)))
  BY DEF Able
<1>. HIDE DEF start
<1>4. ASSUME NEW p \in AllAble(v) PROVE Able(v, p[1], p[2])
  <2>1. PICK d \in Callers(start) : p \in {d} \X DOMAIN Handlers(d)
    BY <1>1, <1>2, <1>4
  <2>2. p[1] = d /\ p[2] \in DOMAIN Handlers(d)
    BY <2>1
  <2>. QED BY <1>2, <1>3, <1>4, <2>2
<1>5. ASSUME NEW c, NEW i, Able(v, c, i) PROVE <<c, i>> \in AllAble(v)
  <2>1. c \in Callers(start) /\ i \in DOMAIN Handlers(c)
    BY <1>3, <1>5
  <2>2. <<c, i>> \in {c} \X DOMAIN Handlers(c)
    BY <2>1
  <2>3. <<c, i>> \in Places(start)
    BY <1>1, <2>1, <2>2
  <2>. QED BY <1>2, <1>3, <1>5, <2>3
<1>. QED BY <1>4, <1>5

LEMMA FoundFirst ==
  ASSUME NEW v, NEW p \in Found(v)
  PROVE  Able(v, p[1], p[2]) /\ \A d, n : Able(v, d, n) => d < p[1] \/ (d = p[1] /\ n >= p[2])
<1>1. p \in AllAble(v) /\ \A q \in AllAble(v) : q[1] < p[1] \/ (q[1] = p[1] /\ q[2] >= p[2])
  BY FoundIsFirst
<1>2. ASSUME NEW d, NEW n, Able(v, d, n) PROVE d < p[1] \/ (d = p[1] /\ n >= p[2])
  <2>1. <<d, n>> \in AllAble(v) /\ <<d, n>>[1] = d /\ <<d, n>>[2] = n
    BY <1>2, AllAbleAre
  <2>. QED BY <1>1, <2>1
<1>. QED BY <1>1, <1>2, AllAbleAre

(* What the search finds: no C code that catches is passed over. *)
Finds(v, c, i) ==
  /\ c \in Up(contexts, ctx) /\ c <= Start(v) /\ c \in Nat /\ c \in 1..Len(contexts) /\ c <= ctx
  /\ i \in 1..Len(contexts[c].handlers) /\ i \in Nat
  /\ \A j : Trying(j) => c_stack[j].ctx < c \/ (c_stack[j].ctx = c /\ i = 1)

LEMMA FoundIs ==
  ASSUME ExInv, NEW x, NEW v, NEW op, Throwable(x, v, op), NEW p \in Found(v)
  PROVE  Finds(v, p[1], p[2])
<1>. DEFINE start == Start(v)
            c == p[1]
            i == p[2]
<1>1. Typed(contexts, exceptions, ctx) /\ FramesRight(contexts, exceptions, c_stack) /\ c_stack \in Seq(Frame)
  BY DEF ExInv, Chain
<1>2. PICK K : PointsRight(K, contexts, exceptions, c_stack, ctx)
  BY DEF ExInv
<1>3. /\ Nested(contexts, c_stack, ctx) /\ Len(contexts) \in Nat /\ ctx \in 1..Len(contexts) /\ ctx \in 0..Len(contexts)
      /\ Up(contexts, ctx) \subseteq 1..ctx
  BY <1>1, <1>2, AreNested
<1>4. Calls(contexts) /\ start \in Up(contexts, ctx)
  BY <1>1 DEF Typed, Throwable
<1>5. start \in 1..ctx /\ ctx \in Nat /\ start \in Nat /\ start \in 0..Len(contexts)
  <2>1. start \in 1..ctx
    BY <1>3, <1>4
  <2>. HIDE DEF start
  <2>. QED BY <1>3, <2>1
<1>6. /\ Up(contexts, start) \subseteq 1..start /\ Up(contexts, start) \subseteq Up(contexts, ctx)
      /\ \A a, b \in Up(contexts, ctx) : a <= b => a \in Up(contexts, b)
  BY <1>3, <1>4, <1>5, UpBelow
<1>7. Able(v, c, i) /\ \A d, n : Able(v, d, n) => d < c \/ (d = c /\ n >= i)
  BY FoundFirst
<1>8. c \in Up(contexts, start) /\ c \in 1..start
  BY <1>6, <1>7, CallersAre DEF Able
<1>9. /\ c \in Up(contexts, ctx) /\ c <= start /\ c \in Nat /\ c \in 1..Len(contexts) /\ c <= ctx
  <2>1. c \in Up(contexts, ctx)
    BY <1>6, <1>8
  <2>. HIDE DEF start, c
  <2>. QED BY <1>3, <1>5, <1>8, <2>1
<1>handlers. \A a \in 1..Len(contexts) : DOMAIN Handlers(a) = 1..Len(Handlers(a)) /\ Len(Handlers(a)) \in Nat
  <2>1. \A a \in 1..Len(contexts) : contexts[a] \in ContextRecord
    BY <1>4, CallsFields
  <2>2. \A a \in 1..Len(contexts) : Handlers(a) \in Seq(HandlerRecord)
    BY <2>1 DEF Handlers, ContextRecord
  <2>. QED BY <2>2, LenProperties
<1>10. i \in 1..Len(contexts[c].handlers) /\ i \in Nat
  <2>1. i \in 1..Len(Handlers(c)) /\ Len(Handlers(c)) \in Nat
    BY <1>7, <1>9, <1>handlers DEF Able
  <2>. HIDE DEF i, c
  <2>. QED BY <2>1 DEF Handlers
<1>11. ASSUME NEW j, Trying(j) PROVE c_stack[j].ctx < c \/ (c_stack[j].ctx = c /\ i = 1)
  <2>. DEFINE a == c_stack[j].ctx
  <2>1. j \in 1..Len(c_stack) /\ ~Loop(c_stack, j) /\ c_stack[j].trying
    BY <1>11 DEF Trying
  <2>2. Headed(contexts, a, j)
    BY <1>1, <2>1 DEF FramesRight, Framed
  <2>3. a \in Up(contexts, ctx) /\ a <= start /\ (v.handled = -1 => a < start)
    BY <1>3, <1>11, <2>1 DEF Nested, Throwable
  <2>. HIDE DEF a, start
  <2>4. a \in Up(contexts, start) /\ a \in 1..Len(contexts) /\ a \in Nat
    <3>1. a \in Up(contexts, start)
      BY <1>4, <1>6, <2>3
    <3>2. a \in 1..ctx
      BY <1>3, <2>3
    <3>. QED BY <1>3, <1>5, <3>1, <3>2
  <2>6. 1 \in DOMAIN Handlers(a) /\ CanHandle(Handlers(a)[1], v)
    <3>1. 1 \in 1..Len(Handlers(a))
      BY <1>handlers, <2>2, <2>4 DEF Headed, Handlers
    <3>2. v.type \in Types
      BY DEF Throwable, ExceptionRecord
    <3>. QED BY <1>handlers, <2>2, <2>4, <3>1, <3>2 DEF Headed, Handlers, CanHandle
  <2>7. a = start => 1 > Behind(v)
    <3>1. a = start => v.handled # -1
      BY <1>5, <2>3
    <3>2. 1 > 0
      OBVIOUS
    <3>3. v.handled # -1 => Behind(v) = 0
      BY DEF Behind
    <3>. QED BY <3>1, <3>2, <3>3
  <2>8. a < c \/ (a = c /\ 1 >= i)
    <3>1. Able(v, a, 1)
      BY <2>4, <2>6, <2>7, CallersAre DEF Able, start
    <3>. QED BY <1>7, <3>1
  <2>9. i \in Nat /\ i >= 1
    <3>1. i \in 1..Len(contexts[c].handlers)
      BY <1>10
    <3>. QED BY <1>10, <3>1
  <2>. HIDE DEF i, c
  <2>10. a < c \/ (a = c /\ i = 1)
    BY <2>8, <2>9
  <2>. QED BY <2>10 DEF a
<1>. QED BY <1>9, <1>10, <1>11 DEF Finds

(* What is put in an exception leaves the points that control comes back to. *)
LEMMA PutStays ==
  ASSUME NEW K, NEW st, Sound(K, contexts, exceptions, st), exceptions \in Seq(ExceptionRecord),
         NEW f, NEW x, NEW v, Puts(f, x, v), NEW r,
         \A y : PendingIn(y, r) => PendingIn(y, st) \/ y = x,
         NEW k \in K, NEW a \in Up(contexts, k.ctx), k.marks[a] # 0,
         k.marks[a] = x =>
            /\ v.context = a /\ v.handler = exceptions[x].handler /\ v.handled = -1 /\ ~PendingIn(x, r)
  PROVE  StaysHandled(k.marks[a], exceptions, f, r)
<1>. DEFINE y == k.marks[a]
<1>1. Marked(y, a, contexts, exceptions, st)
  BY DEF Sound, Placed
<1>. HIDE DEF y
<1>2. CASE y # x
  <2>1. ~PendingIn(y, r)
    BY <1>1, <1>2 DEF Marked
  <2>2. y \in 1..Len(exceptions)
    BY <1>1, LenProperties DEF Marked
  <2>3. y \in DOMAIN f /\ f[y] = exceptions[y]
    BY <1>2, <2>2 DEF Puts
  <2>. QED BY <1>1, <2>1, <2>3 DEF Marked, StaysHandled, y
<1>3. CASE y = x
  <2>1. v.context = a /\ v.handler = exceptions[x].handler /\ v.handled = -1 /\ ~PendingIn(x, r)
    BY <1>3 DEF y
  <2>2. x \in DOMAIN f /\ f[x] = v
    BY DEF Puts
  <2>. QED BY <1>1, <1>3, <2>1, <2>2 DEF Marked, StaysHandled, Resumable, y
<1>. QED BY <1>2, <1>3

(* Nobody takes it: control stays, or the process ends. *)
LEMMA ThrownUnhandled ==
  ASSUME ExInv, NEW x, NEW v, NEW op, Throwable(x, v, op), Unhandled(x, v, op), Puts(exceptions', x, v),
         NEW K, PointsRight(K, contexts, exceptions, c_stack, ctx), Fresh(x, v, K)
  PROVE  ExInv'
<1>. DEFINE f == exceptions'
<1>1. /\ Typed(contexts, exceptions, ctx) /\ Chain(c_stack, runloops, runloop_id_counter)
      /\ FramesRight(contexts, exceptions, c_stack) /\ c_stack \in Seq(Frame) /\ exceptions \in Seq(ExceptionRecord)
  BY DEF ExInv, Chain, Typed
<1>2. UNCHANGED <<contexts, c_stack, runloops, current_runloop_id, current_runloop_level, runloop_id_counter>>
  BY DEF Unhandled, runloopVars
<1>3. ctx' = ctx /\ ended' # -1
  <2>1. CASE op /\ v.type = "warning" /\ v.resume # 0
    <3>1. v.resume = ctx
      BY <2>1 DEF Throwable
    <3>. QED BY <2>1, <3>1 DEF Unhandled, ExInv
  <2>2. CASE ~(op /\ v.type = "warning" /\ v.resume # 0)
    <3>1. x \in Nat
      <4>1. Len(exceptions) \in Nat /\ x \in 1..Len(exceptions) + 1
        BY <1>1, LenProperties DEF Throwable
      <4>. QED BY <4>1
    <3>. QED BY <2>2, <3>1 DEF Unhandled
  <2>. QED BY <2>1, <2>2
<1>. HIDE DEF f
<1>4. Puts(f, x, v) /\ v.before[1] \in 0..Len(exceptions) /\ (v.before[2] => v.before[1] # 0)
  BY DEF f, Throwable
<1>5. Typed(contexts, f, ctx)
  BY <1>1, <1>4, PutTyped
<1>6. /\ Len(c_stack) \in Nat /\ Len(contexts) \in Nat /\ Same(contexts, contexts)
  <2>1. Calls(contexts) /\ Len(contexts) \in Nat /\ Len(c_stack) \in Nat
    BY <1>1, CallsFields, LenProperties DEF Typed
  <2>. QED BY <2>1 DEF Same
<1>7. FramesRight(contexts, f, c_stack)
  <2>1. ASSUME NEW j \in 1..Len(c_stack), ~Loop(c_stack, j)
        PROVE  /\ c_stack[j].trying => Headed(contexts, c_stack[j].ctx, j)
               /\ \A y \in ToSet(c_stack[j].caught) : y \in 1..Len(f) /\ f[y].context = c_stack[j].ctx
    <3>1. Framed(contexts, exceptions, c_stack, j)
      BY <1>1, <2>1 DEF FramesRight
    <3>2. \A y \in 1..Len(exceptions) : y \in 1..Len(f) /\ f[y].context = exceptions[y].context
      <4>1. \A y \in 1..Len(exceptions) : y # x => y \in 1..Len(f) /\ f[y] = exceptions[y]
        BY <1>4 DEF Puts
      <4>2. x \in 1..Len(f) /\ f[x] = v
        BY <1>4 DEF Puts
      <4>3. x \in 1..Len(exceptions) => v.context = exceptions[x].context
        BY DEF Throwable
      <4>. QED BY <4>1, <4>2, <4>3
    <3>. QED BY <3>1, <3>2 DEF Framed
  <2>2. Len(c_stack) <= Len(c_stack) /\ \A j \in 1..Len(c_stack) : c_stack[j] = c_stack[j]
    BY <1>6
  <2>. QED BY <1>1, <1>6, <2>1, <2>2, FramesKeep
<1>8. \E K2 : PointsRight(K2, contexts, f, c_stack, ctx)
  <2>1. Sound(K, contexts, exceptions, c_stack) /\ Catchers(K, contexts, c_stack)
    BY DEF PointsRight
  <2>2. PICK k \in K : Shows(k, ctx, Marks(contexts), Len(c_stack))
    BY DEF PointsRight
  <2>3. k.time <= Len(contexts)
    BY <2>1 DEF Sound, Placed
  <2>4. ASSUME NEW p \in K, NEW a \in Up(contexts, p.ctx), p.marks[a] # 0
        PROVE  StaysHandled(p.marks[a], exceptions, f, c_stack)
    <3>1. Marked(p.marks[a], a, contexts, exceptions, c_stack)
      BY <2>1, <2>4 DEF Sound, Placed
    <3>2. p.marks[a] = x =>
            v.context = a /\ v.handler = exceptions[x].handler /\ v.handled = -1 /\ ~PendingIn(x, c_stack)
      <4>1. p.marks[a] = x => v.handled = -1
        BY DEF Fresh
      <4>2. p.marks[a] = x => x \in 1..Len(exceptions)
        BY <1>1, <3>1, LenProperties DEF Marked
      <4>3. x \in 1..Len(exceptions) => v.context = exceptions[x].context /\ v.handler = exceptions[x].handler
        BY DEF Throwable
      <4>. QED BY <3>1, <4>1, <4>2, <4>3 DEF Marked
    <3>3. \A y : PendingIn(y, c_stack) => PendingIn(y, c_stack) \/ y = x
      OBVIOUS
    <3>. QED BY <1>1, <1>4, <2>1, <2>4, <3>2, <3>3, PutStays
  <2>5. \A p \in Upto(K, Len(c_stack), Len(contexts)) : \A a \in Up(contexts, p.ctx) :
           p.marks[a] # 0 => StaysHandled(p.marks[a], exceptions, f, c_stack)
    BY <2>4 DEF Upto
  <2>6. \A p \in Upto(K, Len(c_stack), Len(contexts)) : \A a \in Up(contexts, p.ctx) : CatchersOf(a, contexts, c_stack)
    BY <2>1 DEF Catchers, Upto
  <2>7. \A i \in 1..Len(c_stack) : Alike(c_stack[i], c_stack[i])
    BY DEF Alike
  <2>8. PointsRight(Upto(K, Len(c_stack), Len(contexts)), contexts, f, c_stack, ctx)
    BY <1>6, <2>1, <2>2, <2>3, <2>5, <2>6, <2>7, PointsKeep
  <2>. QED BY <2>8
<1>9. /\ Chain(c_stack, runloops, runloop_id_counter) /\ current_runloop_id = runloops[Len(runloops)]
      /\ current_runloop_level = Len(runloops)
  BY DEF ExInv
<1>. QED BY <1>2, <1>3, <1>5, <1>7, <1>8, <1>9 DEF ExInv, f
-----------------------------------------------------------------------------
(* A handler of the program, in the innermost runloop: what the search stores,
   and the C stack. *)
Handed(w, v, c) ==
  /\ w.context = c /\ w.handler = contexts[c].runloop /\ w.handled = v.handled /\ w.resume = v.resume
  /\ Back(w) = Marks(contexts)[c]
HandlerStack(x, v, c, D, r) ==
  /\ D \in 1..Len(c_stack) /\ r \in Seq(Frame) /\ Len(r) = D /\ Loop(r, D) /\ \A j \in 1..D : r[j] = c_stack[j]
  /\ \A j \in 1..D : ~Loop(c_stack, j) => c_stack[j].ctx < c
  /\ \A j \in 1..Len(c_stack) : j > D => ~Loop(c_stack, j) /\ ~c_stack[j].trying
  /\ v.handled # -1 => D = Len(c_stack)
  /\ ~PendingIn(x, r)

(* The points that are left, and the one from which the handler is called. *)
HandlerTime(v, c) == IF v.handled = -1 THEN c ELSE Len(contexts)

LEMMA HandlerPointsStay ==
  ASSUME NEW K, PointsRight(K, contexts, exceptions, c_stack, ctx), Typed(contexts, exceptions, ctx), c_stack \in Seq(Frame),
         NEW x, NEW v, NEW op, Throwable(x, v, op), Fresh(x, v, K), NEW c, NEW i, Finds(v, c, i),
         NEW f, NEW w, Puts(f, x, w), Handed(w, v, c), NEW D, NEW r, HandlerStack(x, v, c, D, r)
  PROVE  Sound(Upto(K, D, HandlerTime(v, c)), contexts, f, r)
<1>1. Sound(K, contexts, exceptions, c_stack)
  BY DEF PointsRight
<1>2. /\ Calls(contexts) /\ Len(contexts) \in Nat /\ Len(c_stack) \in Nat /\ exceptions \in Seq(ExceptionRecord)
      /\ Same(contexts, contexts)
  <2>1. Calls(contexts) /\ Len(contexts) \in Nat /\ Len(c_stack) \in Nat
    BY CallsFields, LenProperties DEF Typed
  <2>. QED BY <2>1 DEF Same, Typed
<1>3. D \in 1..Len(c_stack) /\ Len(r) = D /\ (\A j \in 1..D : r[j] = c_stack[j]) /\ ~PendingIn(x, r)
  BY DEF HandlerStack
<1>4. c \in 1..Len(contexts) /\ c \in Nat /\ c <= Start(v)
  BY DEF Finds
<1>5. HandlerTime(v, c) \in Nat /\ D \in Nat /\ D <= Len(r) /\ Len(r) \in Nat
  BY <1>2, <1>3, <1>4 DEF HandlerTime
<1>6. \A j \in 1..D : Alike(c_stack[j], r[j])
  BY <1>3 DEF Alike
<1>7. ASSUME NEW k \in Upto(K, D, HandlerTime(v, c)), NEW a \in Up(contexts, k.ctx), k.marks[a] # 0
      PROVE  StaysHandled(k.marks[a], exceptions, f, r)
  <2>1. k \in K /\ k.time <= HandlerTime(v, c)
    BY DEF Upto
  <2>2. \A y : PendingIn(y, r) => PendingIn(y, c_stack) \/ y = x
    <3>1. \A j \in 1..D : j \in 1..Len(c_stack)
      BY <1>2, <1>3
    <3>. QED BY <1>3, <3>1 DEF PendingIn
  <2>3. ASSUME k.marks[a] = x PROVE w.context = a /\ w.handler = exceptions[x].handler /\ w.handled = -1
    <3>1. Marked(x, a, contexts, exceptions, c_stack)
      BY <1>1, <1>7, <2>1, <2>3 DEF Sound, Placed
    <3>2. v.handled = -1
      BY <2>1, <2>3 DEF Fresh
    <3>3. x \in 1..Len(exceptions)
      BY <1>2, <3>1, LenProperties DEF Marked
    <3>4. v.context = a /\ exceptions[x].handler = contexts[a].runloop
      BY <3>1, <3>3 DEF Marked, Throwable
    <3>5. k.time <= c /\ c <= a
      BY <1>4, <2>1, <3>2, <3>4 DEF HandlerTime, Start
    <3>6. k.ctx \in 1..Len(contexts) /\ k.ctx <= k.time /\ k.time \in Nat
      BY <1>1, <2>1 DEF Sound, Placed, Points
    <3>7. a \in 1..k.ctx
      <4>1. k.ctx \in 0..Len(contexts)
        BY <1>2, <3>6
      <4>. QED BY <1>2, <4>1, UpBelow
    <3>8. a = c
      BY <1>2, <1>4, <3>5, <3>6, <3>7
    <3>. QED BY <3>2, <3>4, <3>8 DEF Handed
  <2>. QED BY <1>1, <1>2, <1>3, <1>7, <2>1, <2>2, <2>3, PutStays
<1>. QED BY <1>1, <1>2, <1>5, <1>6, <1>7, PointsStay

LEMMA HandlerCalled ==
  ASSUME NEW K, PointsRight(K, contexts, exceptions, c_stack, ctx), Typed(contexts, exceptions, ctx), c_stack \in Seq(Frame),
         NEW x, NEW v, NEW op, Throwable(x, v, op), Fresh(x, v, K), NEW c, NEW i, Finds(v, c, i),
         NEW f, NEW w, Puts(f, x, w), Handed(w, v, c), NEW D, NEW r, HandlerStack(x, v, c, D, r)
  PROVE  \E k : /\ Invokes(k, c, x, Upto(K, D, HandlerTime(v, c)), contexts, f, r)
                /\ k.depth = D /\ Agrees(k, Marks(contexts)) /\ k.marks \in [Nat -> Nat]
<1>. DEFINE T == HandlerTime(v, c)
            K2 == Upto(K, D, T)
<1>1. /\ Sound(K, contexts, exceptions, c_stack)
      /\ Calls(contexts) /\ Len(contexts) \in Nat /\ Len(c_stack) \in Nat /\ exceptions \in Seq(ExceptionRecord)
  BY CallsFields, LenProperties DEF PointsRight, Typed
<1>2. /\ D \in 1..Len(c_stack) /\ Len(r) = D /\ Loop(r, D) /\ (\A j \in 1..D : r[j] = c_stack[j]) /\ ~PendingIn(x, r)
      /\ \A j \in 1..D : ~Loop(c_stack, j) => c_stack[j].ctx < c
      /\ \A j \in 1..Len(c_stack) : j > D => ~Loop(c_stack, j)
      /\ v.handled # -1 => D = Len(c_stack)
  BY DEF HandlerStack
<1>3. c \in Up(contexts, ctx) /\ c \in 1..Len(contexts) /\ c \in Nat /\ c <= Start(v) /\ c <= ctx
  BY DEF Finds
<1>4. PICK k0 \in K : Shows(k0, ctx, Marks(contexts), Len(c_stack))
  BY DEF PointsRight
<1>5. /\ k0.ctx = ctx /\ k0.depth = Len(c_stack) /\ Agrees(k0, Marks(contexts)) /\ k0 \in Points
      /\ Placed(k0, contexts, exceptions, c_stack) /\ Unwinds(k0, K, contexts, c_stack) /\ Catches(k0, K, contexts, c_stack)
  BY <1>1, <1>4 DEF Shows, Sound
<1>6. ctx <= k0.time /\ k0.time <= Len(contexts) /\ k0.time \in Nat /\ ctx \in 1..Len(contexts) /\ ctx \in Nat
  <2>1. ctx <= k0.time /\ k0.time <= Len(contexts) /\ k0.time \in Nat /\ ctx \in 1..Len(contexts)
    BY <1>5 DEF Placed, Points
  <2>. QED BY <1>1, <2>1
<1>marks. k0.marks \in [Nat -> Nat]
  BY <1>5 DEF Points
<1>7. /\ Up(contexts, c) \subseteq 1..c /\ Up(contexts, c) \subseteq Up(contexts, ctx)
      /\ \A a, b \in Up(contexts, ctx) : a <= b => a \in Up(contexts, b)
  <2>1. c \in 0..Len(contexts) /\ ctx \in 0..Len(contexts)
    BY <1>1, <1>3, <1>6
  <2>. QED BY <1>1, <1>3, <2>1, UpBelow
<1>8. PICK k : /\ k \in Points /\ k.ctx = ctx /\ k.depth = D /\ k.marks = k0.marks
               /\ k.time = IF v.handled = -1 THEN c ELSE k0.time
               /\ v.handled # -1 => k = k0
  <2>. DEFINE k == [ctx |-> ctx, marks |-> k0.marks, depth |-> D, time |-> IF v.handled = -1 THEN c ELSE k0.time]
  <2>1. D \in Nat
    BY <1>1, <1>2
  <2>2. k \in Points
    BY <1>3, <1>6, <1>marks, <2>1 DEF Points
  <2>3. v.handled # -1 => k = k0
    <3>1. k0 = [ctx |-> k0.ctx, marks |-> k0.marks, depth |-> k0.depth, time |-> k0.time]
      BY <1>5 DEF Points
    <3>. QED BY <1>2, <1>5, <3>1
  <2>. QED BY <2>2, <2>3
<1>9. k.time \in Nat /\ c <= k.time /\ k.time <= k0.time /\ k.time <= Len(contexts) /\ k.time <= T /\ T \in Nat
  BY <1>1, <1>3, <1>6, <1>8 DEF HandlerTime
<1>10. Agrees(k, Marks(contexts))
  <2>1. \A a \in 1..k.time : a \in 1..k0.time
    BY <1>6, <1>9
  <2>. QED BY <1>5, <1>8, <2>1 DEF Agrees
<1>11. x \in Nat /\ x # 0 /\ Marked(x, c, contexts, f, r)
  <2>1. x \in 1..Len(f) /\ Len(f) \in Nat /\ DOMAIN f = 1..Len(f) /\ f[x] = w
    BY DEF Puts
  <2>. QED BY <1>2, <2>1 DEF Marked, Handed
<1>12. \A j \in 1..D : ~Loop(r, j) =>
          ~Loop(c_stack, j) /\ r[j] = c_stack[j] /\ r[j].ctx \in Up(contexts, c) /\ r[j].ctx < c /\ j \in 1..Len(c_stack)
  <2>. SUFFICES ASSUME NEW j \in 1..D, ~Loop(r, j)
                PROVE  ~Loop(c_stack, j) /\ r[j] = c_stack[j] /\ r[j].ctx \in Up(contexts, c) /\ r[j].ctx < c /\ j \in 1..Len(c_stack)
    OBVIOUS
  <2>1. ~Loop(c_stack, j) /\ r[j] = c_stack[j] /\ j \in 1..Len(c_stack) /\ r[j].ctx < c
    BY <1>1, <1>2 DEF Loop
  <2>2. r[j].ctx \in Up(contexts, ctx)
    BY <1>5, <2>1 DEF Placed
  <2>3. r[j].ctx <= c
    <3>1. r[j].ctx \in 1..ctx
      <4>1. ctx \in 0..Len(contexts)
        BY <1>1, <1>6
      <4>. QED BY <1>1, <2>2, <4>1, UpBelow
    <3>. QED BY <1>3, <2>1, <3>1
  <2>. QED BY <1>3, <1>7, <2>1, <2>2, <2>3
<1>13. ASSUME NEW a \in Up(contexts, c), a # c, k.marks[a] # 0
       PROVE  Marked(k.marks[a], a, contexts, f, r)
  <2>. DEFINE y == k.marks[a]
  <2>1. a \in Up(contexts, ctx) /\ y # 0 /\ y = k0.marks[a]
    BY <1>7, <1>8, <1>13
  <2>2. Marked(y, a, contexts, exceptions, c_stack)
    BY <1>5, <2>1 DEF Placed
  <2>3. y # x
    <3>. SUFFICES ASSUME y = x PROVE FALSE
      OBVIOUS
    <3>1. v.handled = -1
      BY <1>5, <2>1 DEF Fresh
    <3>2. x \in 1..Len(exceptions)
      BY <1>1, <2>2, LenProperties DEF Marked
    <3>3. v.context = a
      BY <2>2, <3>2 DEF Marked, Throwable
    <3>4. c <= a
      BY <1>3, <3>1, <3>3 DEF Start
    <3>5. a \in 1..c
      BY <1>7
    <3>. QED BY <1>3, <1>13, <3>4, <3>5
  <2>4. y \in 1..Len(exceptions)
    BY <1>1, <2>2, LenProperties DEF Marked
  <2>. HIDE DEF y
  <2>5. y \in DOMAIN f /\ f[y] = exceptions[y]
    BY <2>3, <2>4 DEF Puts
  <2>6. ~PendingIn(y, r)
    <3>1. \A j \in 1..D : j \in 1..Len(c_stack)
      BY <1>1, <1>2
    <3>2. PendingIn(y, r) => PendingIn(y, c_stack)
      BY <1>2, <3>1 DEF PendingIn
    <3>. QED BY <2>2, <3>2 DEF Marked
  <2>7. Marked(y, a, contexts, f, r)
    BY <2>2, <2>5, <2>6 DEF Marked
  <2>. QED BY <2>7 DEF y
<1>14. ASSUME NEW a \in Up(contexts, c)
       PROVE  \E q \in K2 : Unwound(q, a, k, contexts, r)
  <2>1. a \in Up(contexts, ctx) /\ a \in 1..c
    BY <1>7
  <2>2. PICK q \in K : Unwound(q, a, k0, contexts, c_stack)
    BY <1>5, <2>1 DEF Unwinds
  <2>3. /\ q.ctx = a /\ q.time <= a /\ Loop(c_stack, q.depth) /\ c_stack[q.depth].id = contexts[a].runloop
        /\ Agrees(q, [k0.marks EXCEPT ![a] = 0])
        /\ \A j \in 1..Len(c_stack) : ~Loop(c_stack, j) /\ c_stack[j].ctx < a => j < q.depth
    BY <1>5, <2>2 DEF Unwound
  <2>4. q.depth \in 1..Len(c_stack) /\ q.time \in Nat /\ q.depth \in Nat
    BY <1>1 DEF Sound, Placed, Points
  <2>5. q.depth <= D /\ q.depth \in 1..D
    <3>1. ~(q.depth > D)
      BY <1>2, <2>3, <2>4
    <3>. QED BY <1>1, <1>2, <2>4, <3>1
  <2>6. q.time <= T
    <3>1. c <= T
      BY <1>1, <1>3 DEF HandlerTime
    <3>. QED BY <1>3, <1>9, <2>1, <2>3, <2>4, <3>1
  <2>7. q \in K2
    BY <2>5, <2>6 DEF Upto
  <2>8. \A j \in 1..D : ~Loop(r, j) /\ r[j].ctx < a => j < q.depth
    BY <1>12, <2>3
  <2>9. Loop(r, q.depth) /\ r[q.depth].id = contexts[a].runloop
    BY <1>2, <2>3, <2>5 DEF Loop
  <2>10. Unwound(q, a, k, contexts, r)
    BY <1>8, <2>3, <2>5, <2>8, <2>9 DEF Unwound
  <2>. QED BY <2>7, <2>10
<1>15. ASSUME NEW j \in 1..D, ~Loop(r, j)
       PROVE  \E q \in K2 : Shows(q, r[j].ctx, k.marks, j) /\ \A b \in Up(contexts, c) : b > r[j].ctx => q.time < b
  <2>1. ~Loop(c_stack, j) /\ r[j] = c_stack[j] /\ r[j].ctx < c /\ j \in 1..k0.depth
    BY <1>5, <1>12, <1>15
  <2>2. PICK q \in K : /\ Shows(q, r[j].ctx, k0.marks, j) /\ q.time <= k0.time
                       /\ \A b \in Up(contexts, ctx) : b > r[j].ctx => q.time < b
    BY <1>5, <2>1 DEF Catches
  <2>3. q.time < c
    <3>1. c > r[j].ctx
      <4>1. r[j].ctx \in 1..c
        BY <1>7, <1>12, <1>15
      <4>. QED BY <1>3, <2>1, <4>1
    <3>. QED BY <1>3, <2>2, <3>1
  <2>4. q \in K2
    <3>1. q.time \in Nat /\ q.depth = j /\ j <= D
      BY <1>1, <1>2, <2>2 DEF Sound, Points, Shows
    <3>2. q.time <= T
      BY <1>1, <1>3, <2>3, <3>1 DEF HandlerTime
    <3>. QED BY <3>1, <3>2 DEF Upto
  <2>. QED BY <1>7, <1>8, <2>2, <2>4
<1>16. Resumable(f[x]) => k \in K2 /\ f[x].resume = k.ctx /\ Back(f[x]) = k.marks[c]
  <2>. SUFFICES ASSUME Resumable(f[x]) PROVE k \in K2 /\ f[x].resume = k.ctx /\ Back(f[x]) = k.marks[c]
    OBVIOUS
  <2>1. f[x] = w /\ w.handled = v.handled /\ w.resume = v.resume /\ Back(w) = Marks(contexts)[c]
    BY DEF Puts, Handed
  <2>2. v.handled = 0 /\ v.resume # 0
    BY <2>1 DEF Resumable
  <2>3. v.resume = ctx /\ k = k0
    <3>1. v.handled # -1
      BY <2>2
    <3>. QED BY <1>8, <2>2, <3>1 DEF Throwable
  <2>4. k.depth <= D /\ k \in K2
    <3>1. k.depth <= D
      BY <1>1, <1>2, <1>8
    <3>. QED BY <1>4, <1>9, <2>3, <3>1 DEF Upto
  <2>5. k.marks[c] = Marks(contexts)[c]
    <3>1. c \in 1..k.time
      BY <1>3, <1>9
    <3>. QED BY <1>10, <3>1 DEF Agrees
  <2>. QED BY <1>8, <2>1, <2>3, <2>4, <2>5
<1>17. k.depth \in 1..Len(r) /\ Loop(r, k.depth)
  BY <1>1, <1>2, <1>8
<1>18. \A j \in 1..k.depth : ~Loop(r, j) => r[j].ctx \in Up(contexts, c) /\ r[j].ctx < c
  BY <1>8, <1>12
<1>19. \A j \in 1..k.depth : ~Loop(r, j) =>
         \E q \in K2 : Shows(q, r[j].ctx, k.marks, j) /\ \A b \in Up(contexts, c) : b > r[j].ctx => q.time < b
  BY <1>8, <1>15
<1>. HIDE DEF K2
<1>20. Invokes(k, c, x, K2, contexts, f, r)
  BY <1>3, <1>8, <1>9, <1>11, <1>13, <1>14, <1>16, <1>17, <1>18, <1>19 DEF Invokes
<1>. QED BY <1>8, <1>10, <1>20, <1>marks DEF K2

LEMMA HandlerPoints ==
  ASSUME NEW K, PointsRight(K, contexts, exceptions, c_stack, ctx), Typed(contexts, exceptions, ctx), c_stack \in Seq(Frame),
         LoopsApart(c_stack),
         NEW x, NEW v, NEW op, Throwable(x, v, op), Fresh(x, v, K), NEW c, NEW i, Finds(v, c, i),
         NEW f, NEW w, Puts(f, x, w), Handed(w, v, c), NEW D, NEW r, HandlerStack(x, v, c, D, r),
         NEW t, NEW C, Becomes(contexts, t, c, C), C.handlers = contexts[c].handlers, C.handling, C.exception = x
  PROVE  \E K2 : PointsRight(K2, t, f, r, c)
<1>. DEFINE K2 == Upto(K, D, HandlerTime(v, c))
<1>1. /\ Sound(K, contexts, exceptions, c_stack) /\ Catchers(K, contexts, c_stack)
      /\ Calls(contexts) /\ Len(contexts) \in Nat /\ Len(c_stack) \in Nat
  BY CallsFields, LenProperties DEF PointsRight, Typed
<1>2. /\ D \in 1..Len(c_stack) /\ Len(r) = D /\ (\A j \in 1..D : r[j] = c_stack[j])
      /\ \A j \in 1..Len(c_stack) : j > D => ~c_stack[j].trying
  BY DEF HandlerStack
<1>3. c \in Up(contexts, ctx) /\ c \in 1..Len(contexts) /\ c \in Nat
  BY DEF Finds
<1>4. Sound(K2, contexts, f, r)
  BY HandlerPointsStay
<1>5. PICK k : /\ Invokes(k, c, x, K2, contexts, f, r)
               /\ k.depth = D /\ Agrees(k, Marks(contexts)) /\ k.marks \in [Nat -> Nat]
  BY HandlerCalled
<1>6. K2 \subseteq K
  BY DEF Upto
<1>. HIDE DEF K2
<1>7. LoopsApart(r) /\ Len(r) \in Nat
  <2>1. \A j \in 1..D : j \in 1..Len(c_stack) /\ r[j] = c_stack[j]
    BY <1>1, <1>2
  <2>2. \A j \in 1..D : Loop(r, j) <=> Loop(c_stack, j)
    BY <2>1 DEF Loop
  <2>3. D \in Nat
    BY <1>1, <1>2
  <2>. QED BY <1>2, <2>1, <2>2, <2>3 DEF LoopsApart
<1>8. PICK kk : kk = [k EXCEPT !.ctx = c, !.marks = [@ EXCEPT ![c] = x]]
  OBVIOUS
<1>9. Sound(K2 \cup {kk}, contexts, f, r)
  BY <1>1, <1>4, <1>5, <1>7, <1>8, HandlerRuns
<1>10. k \in Points /\ k.time <= Len(contexts)
  BY <1>5 DEF Invokes
<1>11. kk.ctx = c /\ kk.depth = D /\ kk.time = k.time /\ kk.marks = [k.marks EXCEPT ![c] = x]
  BY <1>5, <1>8, <1>10 DEF Points
<1>12. /\ Marks(t) = [Marks(contexts) EXCEPT ![c] = x] /\ Same(contexts, t) /\ Len(t) = Len(contexts)
       /\ \A a \in 1..Len(contexts) : t[a].handlers = contexts[a].handlers
  <2>1. Marks(t) = [Marks(contexts) EXCEPT ![c] = IF C.handling THEN C.exception ELSE 0]
    BY <1>1, <1>3, MarksBecome
  <2>. QED BY <2>1 DEF Becomes
<1>13. Shows(kk, c, Marks(t), Len(r))
  <2>1. ASSUME NEW a \in 1..kk.time PROVE kk.marks[a] = Marks(t)[a]
    <3>1. k.time \in Nat /\ a \in Nat
      BY <1>10, <1>11, <2>1 DEF Points
    <3>2. k.marks[a] = Marks(contexts)[a]
      BY <1>5, <1>11 DEF Agrees
    <3>3. kk.marks[a] = IF a = c THEN x ELSE k.marks[a]
      <4>1. \A m \in [Nat -> Nat] : [m EXCEPT ![c] = x][a] = IF a = c THEN x ELSE m[a]
        BY <3>1
      <4>2. [k.marks EXCEPT ![c] = x][a] = IF a = c THEN x ELSE k.marks[a]
        BY <1>5, <4>1, Zenon
      <4>. QED BY <1>11, <4>2
    <3>4. Marks(t)[a] = IF a = c THEN x ELSE Marks(contexts)[a]
      <4>1. Marks(contexts) = [b \in Nat |-> Marks(contexts)[b]]
        BY DEF Marks
      <4>. QED BY <1>12, <3>1, <4>1
    <3>. QED BY <3>2, <3>3, <3>4
  <2>. QED BY <1>2, <1>11, <2>1 DEF Shows, Agrees
<1>14. ASSUME NEW p \in K2 \cup {kk}, NEW a \in Up(contexts, p.ctx) PROVE CatchersOf(a, t, r)
  <2>1. CatchersOf(a, contexts, c_stack) /\ a \in 1..Len(contexts)
    <3>1. p.ctx \in 1..Len(contexts)
      BY <1>9 DEF Sound, Placed
    <3>2. p.ctx \in 0..Len(contexts) /\ c \in 0..Len(contexts) /\ ctx \in 0..Len(contexts)
      <4>1. ctx \in 1..Len(contexts)
        BY DEF Typed
      <4>. QED BY <1>1, <1>3, <3>1, <4>1
    <3>3. a \in 1..p.ctx
      BY <1>1, <3>2, UpBelow
    <3>4. a \in 1..Len(contexts)
      BY <1>1, <3>1, <3>3
    <3>5. CASE p \in K2
      BY <1>1, <1>6, <3>4, <3>5 DEF Catchers
    <3>6. CASE p = kk
      <4>1. a \in Up(contexts, ctx)
        BY <1>1, <1>3, <1>11, <3>2, <3>6, UpBelow
      <4>2. PICK k0 \in K : k0.ctx = ctx
        BY DEF PointsRight, Shows
      <4>. QED BY <1>1, <3>4, <4>1, <4>2 DEF Catchers
    <3>. QED BY <3>5, <3>6
  <2>2. t[a].handlers = contexts[a].handlers
    BY <1>12, <2>1
  <2>3. ASSUME NEW j, Catching(j, a, c_stack) PROVE Catching(j, a, r)
    <3>1. j \in 1..Len(c_stack) /\ ~Loop(c_stack, j) /\ c_stack[j].ctx = a /\ c_stack[j].trying
      BY <2>3 DEF Catching
    <3>2. j \in 1..D
      <4>1. ~(j > D)
        BY <1>2, <3>1
      <4>. QED BY <1>1, <1>2, <3>1, <4>1
    <3>. QED BY <1>2, <3>1, <3>2 DEF Catching, Loop
  <2>. QED BY <2>1, <2>2, <2>3 DEF CatchersOf
<1>15. \A y : PendingIn(y, r) => PendingIn(y, r)
  OBVIOUS
<1>16. \A p \in K2 \cup {kk} : \A a \in Up(contexts, p.ctx) : p.marks[a] # 0 => StaysHandled(p.marks[a], f, f, r)
  BY <1>9, <1>15, StillHandled
<1>. DEFINE K3 == K2 \cup {kk}
<1>17. K3 = K2 \cup {kk}
  OBVIOUS
<1>. HIDE DEF K3
<1>18. \A p \in Upto(K3, Len(r), Len(contexts)) : \A a \in Up(contexts, p.ctx) :
          p.marks[a] # 0 => StaysHandled(p.marks[a], f, f, r)
  BY <1>16, <1>17 DEF Upto
<1>19. \A p \in Upto(K3, Len(r), Len(contexts)) : \A a \in Up(contexts, p.ctx) : CatchersOf(a, t, r)
  BY <1>14, <1>17 DEF Upto
<1>20. kk \in K3 /\ kk.time <= Len(contexts) /\ Sound(K3, contexts, f, r) /\ \A j \in 1..Len(r) : Alike(r[j], r[j])
  BY <1>9, <1>10, <1>11, <1>17 DEF Alike
<1>21. PointsRight(Upto(K3, Len(r), Len(contexts)), t, f, r, c)
  BY <1>1, <1>7, <1>12, <1>13, <1>18, <1>19, <1>20, PointsKeep
<1>. QED BY <1>21

LEMMA HandlerStackIs ==
  ASSUME ExInv, NEW x, NEW v, NEW op, Throwable(x, v, op), NEW c, NEW i, Finds(v, c, i),
         contexts[c].handlers[i].frame = 0,
         NEW r, r = IF op THEN c_stack ELSE JumpTo(current_runloop_id)
  PROVE  \E D : HandlerStack(x, v, c, D, r)
<1>1. /\ Typed(contexts, exceptions, ctx) /\ Chain(c_stack, runloops, runloop_id_counter) /\ LoopsApart(c_stack)
      /\ FramesRight(contexts, exceptions, c_stack) /\ c_stack \in Seq(Frame) /\ Len(c_stack) \in Nat
      /\ current_runloop_id = runloops[Len(runloops)]
  BY LenProperties DEF ExInv, Chain
<1>2. /\ c \in Nat /\ c <= ctx
      /\ \A j : Trying(j) => c_stack[j].ctx < c \/ (c_stack[j].ctx = c /\ i = 1)
  BY DEF Finds
<1>3. ASSUME NEW j, Trying(j) PROVE c_stack[j].ctx < c
  <2>1. j \in 1..Len(c_stack) /\ ~Loop(c_stack, j) /\ c_stack[j].trying
    BY <1>3 DEF Trying
  <2>2. Headed(contexts, c_stack[j].ctx, j)
    BY <1>1, <2>1 DEF FramesRight, Framed
  <2>3. j # 0
    BY <1>1, <2>1
  <2>. QED BY <1>2, <1>3, <2>2, <2>3 DEF Headed
<1>4. ASSUME NEW j \in 1..Len(c_stack), j < Len(c_stack), ~Loop(c_stack, j) PROVE c_stack[j].trying
  BY <1>1, <1>4 DEF FramesRight, Framed
<1>5. ASSUME InOp PROVE HandlerStack(x, v, c, Len(c_stack), r)
  <2>1. /\ Len(c_stack) \in 1..Len(c_stack) /\ HasLoop(c_stack, Len(c_stack)) /\ Loop(c_stack, Len(c_stack))
        /\ current_runloop_id = c_stack[Len(c_stack)].id
    BY <1>5, OpFacts DEF HasLoop
  <2>2. r = c_stack
    <3>1. JumpTo(current_runloop_id) = SubSeq(c_stack, 1, Len(c_stack))
      BY <1>1, <2>1, JumpIs
    <3>2. SubSeq(c_stack, 1, Len(c_stack)) = c_stack
      BY <1>1, WholeIs
    <3>. QED BY <3>1, <3>2
  <2>3. \A j \in 1..Len(c_stack) : ~Loop(c_stack, j) => Trying(j)
    <3>1. \A j \in 1..Len(c_stack) : j = Len(c_stack) \/ j < Len(c_stack)
      BY <1>1
    <3>. QED BY <1>4, <2>1, <3>1 DEF Trying
  <2>4. ~PendingIn(x, c_stack)
    <3>1. \A j \in 1..Len(c_stack) : c_stack[j].kind = "phasers" /\ x \in ToSet(c_stack[j].caught) => j = Len(c_stack)
      BY DEF Throwable
    <3>2. c_stack[Len(c_stack)].kind # "phasers"
      BY <2>1 DEF Loop
    <3>. QED BY <3>1, <3>2 DEF PendingIn
  <2>5. \A j \in 1..Len(c_stack) : ~(j > Len(c_stack))
    BY <1>1
  <2>. QED BY <1>1, <1>3, <2>1, <2>2, <2>3, <2>4, <2>5 DEF HandlerStack
<1>6. ASSUME ~InOp PROVE HandlerStack(x, v, c, Len(c_stack) - 1, r)
  <2>. DEFINE d == Len(c_stack)
  <2>1. InC /\ ~op /\ (Last(c_stack).trying <=> v.handled # -1)
    BY <1>6 DEF Throwable
  <2>2. /\ d \in 1..d /\ d - 1 \in 1..d /\ d # d - 1 /\ ~Loop(c_stack, d) /\ Loop(c_stack, d - 1) /\ c_stack[d].ctx = ctx
        /\ ctx \in 1..Len(contexts) /\ Len(contexts) \in Nat
    BY <2>1, TopFacts DEF InC
  <2>3. ~c_stack[d].trying
    <3>1. c_stack[d].trying => ctx < c
      BY <1>3, <2>2 DEF Trying
    <3>2. ~(ctx < c)
      <4>1. ctx \in Nat
        BY <2>2
      <4>. QED BY <1>2, <4>1
    <3>. QED BY <3>1, <3>2
  <2>4. v.handled = -1
    BY <2>1, <2>3 DEF Last
  <2>5. \A j \in 1..d : j = d \/ j <= d - 1
    BY <1>1
  <2>6. HasLoop(c_stack, d - 1) /\ \A j : HasLoop(c_stack, j) => j <= d - 1
    BY <2>2, <2>5 DEF HasLoop
  <2>7. runloops[Len(runloops)] = c_stack[d - 1].id
    BY <1>1, <2>6, ChainTop
  <2>8. r = SubSeq(c_stack, 1, d - 1)
    <3>1. JumpTo(c_stack[d - 1].id) = SubSeq(c_stack, 1, d - 1)
      BY <1>1, <2>6, JumpIs
    <3>. QED BY <1>1, <2>1, <2>7, <3>1
  <2>9. r \in Seq(Frame) /\ Len(r) = d - 1 /\ \A j \in 1..d - 1 : r[j] = c_stack[j] /\ j \in 1..d
    <3>1. d - 1 \in 0..d
      BY <1>1, <2>2
    <3>. QED BY <1>1, <2>8, <3>1, PrefixIs
  <2>10. \A j \in 1..d - 1 : j < d /\ j # d
    BY <1>1
  <2>11. \A j \in 1..d - 1 : ~Loop(c_stack, j) => c_stack[j].trying /\ c_stack[j].ctx < c
    BY <1>3, <1>4, <2>9, <2>10 DEF Trying
  <2>12. ~PendingIn(x, r)
    <3>1. \A j \in 1..d : c_stack[j].kind = "phasers" /\ x \in ToSet(c_stack[j].caught) => j = d
      BY DEF Throwable
    <3>. QED BY <2>9, <2>10, <3>1 DEF PendingIn
  <2>13. \A j \in 1..d : j > d - 1 => ~Loop(c_stack, j) /\ ~c_stack[j].trying
    <3>1. \A j \in 1..d : j > d - 1 => j = d
      BY <1>1
    <3>. QED BY <2>2, <2>3, <3>1
  <2>14. Loop(r, d - 1)
    <3>1. d - 1 \in 1..d - 1
      BY <1>1, <2>2
    <3>. QED BY <2>2, <2>9, <3>1 DEF Loop
  <2>. QED BY <2>2, <2>4, <2>9, <2>11, <2>12, <2>13, <2>14 DEF HandlerStack
<1>. QED BY <1>5, <1>6

(* What the search stores. *)
LEMMA CaughtIs ==
  ASSUME Typed(contexts, exceptions, ctx), NEW v \in ExceptionRecord, NEW c \in 1..Len(contexts),
         NEW i \in 1..Len(contexts[c].handlers)
  PROVE  LET w == Caught(v, c, i)
         IN  /\ w \in ExceptionRecord /\ w.context = c /\ w.handler = contexts[c].handlers[i].runloop_id
             /\ w.handled = v.handled /\ w.resume = v.resume
             /\ w.before[1] \in 0..Len(exceptions) /\ (w.before[2] => w.before[1] # 0)
             /\ Back(w) = Marks(contexts)[c]
<1>. DEFINE w == Caught(v, c, i)
            hs == contexts[c].handlers
            b == <<contexts[c].exception, contexts[c].handling>>
<1>1. contexts[c] \in ContextRecord /\ Len(contexts) \in Nat /\ c \in Nat
  <2>1. Len(contexts) \in Nat /\ contexts[c] \in ContextRecord
    BY CallsFields DEF Typed
  <2>. QED BY <2>1
<1>2. hs \in Seq(HandlerRecord) /\ Len(hs) \in Nat /\ hs[i] \in HandlerRecord
  <2>1. hs \in Seq(HandlerRecord)
    BY <1>1 DEF ContextRecord
  <2>. QED BY <2>1, LenProperties, ElementOfSeq
<1>3. Len(Handlers(c)) - i \in Int /\ hs[i].n \in Nat /\ hs[i].runloop_id \in Nat
  <2>1. Handlers(c) = hs /\ i \in 1..Len(hs)
    BY DEF Handlers
  <2>. HIDE DEF hs
  <2>2. Len(Handlers(c)) - i \in Int
    BY <1>2, <2>1
  <2>. QED BY <1>2, <2>2 DEF HandlerRecord
<1>4. Append(v.had, <<c, hs[i].n>>) \in Seq(Nat \X Nat)
  <2>1. v.had \in Seq(Nat \X Nat) /\ <<c, hs[i].n>> \in Nat \X Nat
    BY <1>1, <1>3 DEF ExceptionRecord
  <2>. QED BY <2>1, AppendProperties
<1>5. b \in Nat \X BOOLEAN /\ b[1] = contexts[c].exception /\ b[2] = contexts[c].handling
  BY <1>1 DEF ContextRecord
<1>6. b[1] \in 0..Len(exceptions) /\ (b[2] => b[1] # 0)
  BY <1>5 DEF Typed
<1>7. w = [v EXCEPT !.context = c, !.handlers_left = Len(Handlers(c)) - i, !.handler = hs[i].runloop_id,
                    !.had = Append(v.had, <<c, hs[i].n>>), !.before = b]
  BY DEF Caught, Handlers
<1>. HIDE DEF w, hs, b
<1>8. /\ w \in ExceptionRecord /\ w.context = c /\ w.handler = hs[i].runloop_id /\ w.handled = v.handled /\ w.resume = v.resume
      /\ w.before = b
  BY <1>1, <1>3, <1>4, <1>5, <1>7 DEF ExceptionRecord
<1>9. Back(w) = Marks(contexts)[c]
  BY <1>1, <1>5, <1>8 DEF Back, Marks
<1>10. /\ w \in ExceptionRecord /\ w.context = c /\ w.handler = contexts[c].handlers[i].runloop_id
       /\ w.handled = v.handled /\ w.resume = v.resume
       /\ w.before[1] \in 0..Len(exceptions) /\ (w.before[2] => w.before[1] # 0)
       /\ Back(w) = Marks(contexts)[c]
  BY <1>6, <1>8, <1>9 DEF hs
<1>. QED BY <1>10 DEF w

LEMMA ThrownToHandler ==
  ASSUME ExInv, NEW x, NEW v, NEW op, Throwable(x, v, op),
         NEW K, PointsRight(K, contexts, exceptions, c_stack, ctx), Fresh(x, v, K),
         NEW c, NEW i, Finds(v, c, i), contexts[c].handlers[i].frame = 0,
         Puts(exceptions', x, Caught(v, c, i)), RunHandler(x, c, op)
  PROVE  ExInv'
<1>. DEFINE f == exceptions'
            t == contexts'
            r == c_stack'
            w == Caught(v, c, i)
            C == [contexts[c] EXCEPT !.exception = x, !.handling = TRUE]
<1>1. /\ Typed(contexts, exceptions, ctx) /\ Chain(c_stack, runloops, runloop_id_counter) /\ LoopsApart(c_stack)
      /\ FramesRight(contexts, exceptions, c_stack) /\ c_stack \in Seq(Frame) /\ Len(c_stack) \in Nat
      /\ Calls(contexts) /\ Len(contexts) \in Nat /\ exceptions \in Seq(ExceptionRecord)
  BY LenProperties, CallsFields DEF ExInv, Chain, Typed
<1>2. c \in 1..Len(contexts) /\ i \in 1..Len(contexts[c].handlers) /\ v \in ExceptionRecord
  BY DEF Finds, Throwable
<1>3. contexts[c] \in ContextRecord /\ x \in Nat /\ x # 0 /\ x \in 1..Len(f)
  <2>1. contexts[c] \in ContextRecord
    BY <1>1, <1>2, CallsFields
  <2>2. x \in 1..Len(exceptions) + 1 /\ Len(exceptions) \in Nat
    BY <1>1, LenProperties DEF Throwable
  <2>3. x \in Nat /\ x # 0
    BY <2>2
  <2>4. x \in 1..Len(f)
    BY DEF Puts
  <2>. QED BY <2>1, <2>3, <2>4
<1>4. /\ contexts' = [contexts EXCEPT ![c].exception = x, ![c].handling = TRUE] /\ ctx' = c
      /\ r = (IF op THEN c_stack ELSE JumpTo(current_runloop_id))
      /\ UNCHANGED <<runloops, current_runloop_id, current_runloop_level, runloop_id_counter, ended>>
  BY DEF RunHandler, runloopVars
<1>5. t = [contexts EXCEPT ![c] = C]
  BY <1>4
<1>6. /\ C \in ContextRecord /\ C.caller = contexts[c].caller /\ C.entry = contexts[c].entry /\ C.runloop = contexts[c].runloop
      /\ C.handlers = contexts[c].handlers /\ C.handling /\ C.exception = x
  BY <1>3 DEF ContextRecord
<1>7. Puts(f, x, w)
  OBVIOUS
<1>. HIDE DEF C, t, f, r
<1>8. Becomes(contexts, t, c, C)
  BY <1>1, <1>2, <1>5, <1>6, ContextChanges
<1>9. /\ w.context = c /\ w.handler = contexts[c].handlers[i].runloop_id /\ w.handled = v.handled /\ w.resume = v.resume
      /\ w.before[1] \in 0..Len(exceptions) /\ (w.before[2] => w.before[1] # 0)
      /\ Back(w) = Marks(contexts)[c]
  BY <1>1, <1>2, CaughtIs
<1>. HIDE DEF w
<1>10. Handed(w, v, c)
  <2>1. Homely(contexts, c)
    BY <1>1, <1>2 DEF Typed
  <2>2. contexts[c].handlers[i].runloop_id = contexts[c].runloop
    BY <1>2, <2>1 DEF Homely
  <2>. QED BY <1>9, <2>2 DEF Handed
<1>11. PICK D : HandlerStack(x, v, c, D, r)
  BY <1>4, HandlerStackIs
<1>12. \E K2 : PointsRight(K2, t, f, r, c)
  BY <1>1, <1>6, <1>7, <1>8, <1>10, <1>11, HandlerPoints
<1>13. /\ D \in 1..Len(c_stack) /\ r \in Seq(Frame) /\ Len(r) = D /\ (\A j \in 1..D : r[j] = c_stack[j])
       /\ \A j \in 1..Len(c_stack) : j > D => ~Loop(c_stack, j)
       /\ ~PendingIn(x, r) /\ Loop(r, D)
  BY <1>11 DEF HandlerStack
<1>14. Len(r) \in Nat /\ Len(r) <= Len(c_stack) /\ \A j \in 1..Len(r) : r[j] = c_stack[j] /\ j \in 1..Len(c_stack)
  BY <1>1, <1>13
<1>15. Chain(r, runloops, runloop_id_counter)
  <2>1. \A j : HasLoop(r, j) <=> HasLoop(c_stack, j)
    <3>1. \A j : j \in 1..Len(c_stack) <=> j \in 1..Len(r) \/ (j \in 1..Len(c_stack) /\ j > D)
      BY <1>1, <1>13
    <3>. QED BY <1>13, <1>14, <3>1 DEF HasLoop, Loop
  <2>2. \A j : HasLoop(c_stack, j) => r[j].id = c_stack[j].id
    BY <1>14, <2>1 DEF HasLoop
  <2>. QED BY <1>1, <1>13, <2>1, <2>2, ChainSame
<1>16. /\ Len(t) = Len(contexts) /\ Calls(t)
       /\ \A a \in 1..Len(contexts) : t[a] = IF a = c THEN C ELSE contexts[a]
  BY <1>8 DEF Becomes
<1>17. \A a \in 1..Len(contexts) : t[a].handlers = contexts[a].handlers /\ t[a].runloop = contexts[a].runloop
  BY <1>6, <1>16
<1>18. FramesRight(t, f, r)
  <2>1. ASSUME NEW j \in 1..Len(r), ~Loop(c_stack, j)
        PROVE  /\ c_stack[j].trying => Headed(t, c_stack[j].ctx, j)
               /\ \A y \in ToSet(c_stack[j].caught) : y \in 1..Len(f) /\ f[y].context = c_stack[j].ctx
    <3>1. j \in 1..Len(c_stack) /\ r[j] = c_stack[j]
      BY <1>14
    <3>2. Framed(contexts, exceptions, c_stack, j)
      BY <1>1, <2>1, <3>1 DEF FramesRight
    <3>3. c_stack[j].ctx \in 1..Len(contexts)
      <4>1. /\ Nested(contexts, c_stack, ctx) /\ Up(contexts, ctx) \subseteq 1..ctx /\ ctx \in 1..Len(contexts)
        BY <1>1, AreNested
      <4>2. c_stack[j].ctx \in 1..ctx
        BY <2>1, <3>1, <4>1 DEF Nested
      <4>. QED BY <1>1, <4>1, <4>2
    <3>4. c_stack[j].trying => Headed(t, c_stack[j].ctx, j)
      BY <1>17, <3>2, <3>3 DEF Framed, Headed
    <3>5. ASSUME NEW y \in ToSet(c_stack[j].caught) PROVE y \in 1..Len(f) /\ f[y].context = c_stack[j].ctx
      <4>1. y \in 1..Len(exceptions) /\ exceptions[y].context = c_stack[j].ctx
        BY <3>2 DEF Framed
      <4>2. c_stack[j].kind = "phasers"
        <5>1. j # D
          BY <1>13, <2>1, <3>1 DEF Loop
        <5>2. j < Len(c_stack)
          BY <1>1, <1>13, <5>1
        <5>. QED BY <3>2, <5>2 DEF Framed
      <4>3. y # x
        BY <1>13, <3>1, <3>5, <4>2 DEF PendingIn
      <4>. QED BY <1>7, <4>1, <4>3 DEF Puts
    <3>. QED BY <3>4, <3>5
  <2>. QED BY <1>1, <1>14, <2>1, FramesKeep
<1>19. Typed(t, f, c)
  <2>1. Typed(contexts, f, ctx)
    BY <1>1, <1>7, <1>9, PutTyped
  <2>2. \A a \in 1..Len(t) : t[a].exception \in 0..Len(f) /\ (t[a].handling => t[a].exception # 0)
    <3>1. x \in 0..Len(f)
      BY <1>3
    <3>. QED BY <1>3, <1>6, <1>16, <2>1, <3>1 DEF Typed
  <2>3. \A a \in 1..Len(t) : Homely(t, a)
    BY <1>16, <1>17, <2>1 DEF Typed, Homely
  <2>. QED BY <1>2, <1>16, <2>1, <2>2, <2>3 DEF Typed
<1>20. current_runloop_id = runloops[Len(runloops)] /\ current_runloop_level = Len(runloops) /\ ended # -1
  BY DEF ExInv
<1>. QED BY <1>4, <1>12, <1>15, <1>18, <1>19, <1>20 DEF ExInv, t, f, r
-----------------------------------------------------------------------------
(* C code catches: its frame is the innermost one then, or has returned. *)
CatchStack(x, c, j0, D, r) ==
  /\ Catching(j0, c, c_stack) /\ D \in 1..Len(c_stack) /\ (D = j0 \/ D = j0 - 1)
  /\ r \in Seq(Frame) /\ Len(r) = D
  /\ \A j \in 1..D : Alike(c_stack[j], r[j]) /\ (j # j0 => r[j] = c_stack[j])
  /\ \A y : PendingIn(y, r) => PendingIn(y, c_stack) \/ y = x

LEMMA CatchPoints ==
  ASSUME NEW K, PointsRight(K, contexts, exceptions, c_stack, ctx), Typed(contexts, exceptions, ctx), c_stack \in Seq(Frame),
         NEW x, NEW v, NEW op, Throwable(x, v, op), Fresh(x, v, K), NEW c \in 1..Len(contexts),
         NEW f, NEW w, Puts(f, x, w), NEW j0, NEW D, NEW r, CatchStack(x, c, j0, D, r),
         NEW t, NEW V, Rehandles(contexts, t, c, V), \A p \in 1..Len(V.handlers) : V.handlers[p].frame = 0
  PROVE  \E K2 : PointsRight(K2, t, f, r, c)
<1>1. /\ Sound(K, contexts, exceptions, c_stack) /\ Catchers(K, contexts, c_stack) /\ exceptions \in Seq(ExceptionRecord)
      /\ Calls(contexts) /\ Len(contexts) \in Nat /\ Len(c_stack) \in Nat
  BY CallsFields, LenProperties DEF PointsRight, Typed
<1>2. /\ j0 \in 1..Len(c_stack) /\ ~Loop(c_stack, j0) /\ c_stack[j0].ctx = c /\ c_stack[j0].trying
      /\ D \in 1..Len(c_stack) /\ (D = j0 \/ D = j0 - 1) /\ Len(r) = D
      /\ \A j \in 1..D : Alike(c_stack[j], r[j]) /\ (j # j0 => r[j] = c_stack[j])
      /\ \A y : PendingIn(y, r) => PendingIn(y, c_stack) \/ y = x
  BY DEF CatchStack, Catching
<1>3. PICK k0 \in K : Shows(k0, ctx, Marks(contexts), Len(c_stack))
  BY DEF PointsRight
<1>4. /\ k0.ctx = ctx /\ k0.depth = Len(c_stack) /\ Agrees(k0, Marks(contexts))
      /\ Catches(k0, K, contexts, c_stack) /\ k0.time \in Nat /\ k0.time <= Len(contexts)
  BY <1>1, <1>3 DEF Shows, Sound, Placed, Points
<1>5. /\ Nested(contexts, c_stack, ctx) /\ Up(contexts, ctx) \subseteq 1..ctx /\ ctx \in 1..Len(contexts)
  BY AreNested
<1>6. PICK q1 \in K : /\ Shows(q1, c, k0.marks, j0) /\ q1.time <= k0.time
                      /\ \A b \in Up(contexts, ctx) : b > c => q1.time < b
  BY <1>2, <1>4 DEF Catches
<1>7. q1.time \in Nat /\ q1.ctx = c /\ q1.depth = j0 /\ Agrees(q1, k0.marks) /\ Leaves(q1, K, contexts, c_stack)
  BY <1>1, <1>6 DEF Sound, Points, Shows
<1>8. PICK q \in K : Shows(q, c, q1.marks, D) /\ q.time <= q1.time
  <2>1. CASE D = j0
    BY <1>7, <2>1 DEF Shows, Agrees
  <2>2. CASE D = j0 - 1
    BY <1>2, <1>7, <2>2 DEF Leaves
  <2>. QED BY <1>2, <2>1, <2>2
<1>9. /\ q.ctx = c /\ q.depth = D /\ Agrees(q, q1.marks) /\ q.time \in Nat /\ q.time <= k0.time
  <2>1. q.ctx = c /\ q.depth = D /\ Agrees(q, q1.marks)
    BY <1>8 DEF Shows
  <2>2. q.time \in Nat
    BY <1>1 DEF Sound, Points
  <2>3. q.time <= k0.time
    BY <1>4, <1>6, <1>7, <1>8, <2>2
  <2>. QED BY <2>1, <2>2, <2>3
<1>10. Agrees(q, Marks(contexts))
  <2>1. \A a \in 1..q.time : a \in 1..q1.time /\ a \in 1..k0.time
    BY <1>4, <1>7, <1>8, <1>9
  <2>. QED BY <1>4, <1>7, <1>9, <2>1 DEF Agrees
<1>11. /\ Same(contexts, t) /\ Marks(t) = Marks(contexts) /\ t[c] = V
       /\ \A a \in 1..Len(contexts) : a # c => t[a].handlers = contexts[a].handlers
  BY DEF Rehandles
<1>12. Shows(q, c, Marks(t), Len(r))
  BY <1>2, <1>9, <1>10, <1>11 DEF Shows
<1>13. \A b \in Up(contexts, ctx) : b > c => q.time < b
  <2>. SUFFICES ASSUME NEW b \in Up(contexts, ctx), b > c PROVE q.time < b
    OBVIOUS
  <2>1. q1.time < b /\ b \in 1..ctx /\ ctx \in Nat
    BY <1>1, <1>5, <1>6
  <2>. QED BY <1>7, <1>8, <1>9, <2>1
<1>14. ASSUME NEW k \in Upto(K, Len(r), q.time), NEW a \in Up(contexts, k.ctx), k.marks[a] # 0
       PROVE  StaysHandled(k.marks[a], exceptions, f, r)
  <2>1. k \in K /\ k.time <= q.time
    BY DEF Upto
  <2>2. k.marks[a] # x
    <3>. SUFFICES ASSUME k.marks[a] = x PROVE FALSE
      OBVIOUS
    <3>1. Marked(x, a, contexts, exceptions, c_stack)
      BY <1>1, <1>14, <2>1 DEF Sound, Placed
    <3>2. v.handled = -1
      BY <2>1 DEF Fresh
    <3>3. x \in 1..Len(exceptions)
      BY <1>1, <3>1, LenProperties DEF Marked
    <3>4. v.context = a
      BY <3>1, <3>3 DEF Marked, Throwable
    <3>5. a = Start(v)
      BY <3>2, <3>4 DEF Start
    <3>6. Trying(j0)
      BY <1>2 DEF Trying
    <3>7. c < a /\ a \in Up(contexts, ctx)
      BY <1>2, <3>2, <3>5, <3>6 DEF Throwable
    <3>8. a \in 1..ctx /\ ctx \in Nat /\ c \in Nat
      BY <1>1, <1>5, <3>7
    <3>9. q.time < a
      BY <1>13, <3>7, <3>8
    <3>10. k.ctx \in 1..Len(contexts) /\ k.ctx <= k.time /\ k.time \in Nat
      BY <1>1, <2>1 DEF Sound, Placed, Points
    <3>11. a \in 1..k.ctx
      <4>1. k.ctx \in 0..Len(contexts)
        BY <1>1, <3>10
      <4>. QED BY <1>1, <4>1, UpBelow
    <3>. QED BY <1>1, <1>9, <2>1, <3>8, <3>9, <3>10, <3>11
  <2>3. /\ Sound(K, contexts, exceptions, c_stack) /\ exceptions \in Seq(ExceptionRecord) /\ k \in K
        /\ \A y : PendingIn(y, r) => PendingIn(y, c_stack) \/ y = x
    BY <1>1, <1>2, <2>1
  <2>4. k.marks[a] # 0 /\ (k.marks[a] = x =>
            w.context = a /\ w.handler = exceptions[x].handler /\ w.handled = -1 /\ ~PendingIn(x, r))
    BY <1>14, <2>2
  <2>. QED BY <2>3, <2>4, PutStays, Zenon
<1>15. ASSUME NEW a \in 1..Len(contexts) PROVE Holds(a, contexts, t, c_stack, r)
  <2>1. CASE a = c
    BY <1>11, <2>1 DEF Holds
  <2>2. CASE a # c
    BY <1>2, <1>11, <2>2 DEF Holds
  <2>. QED BY <2>1, <2>2
<1>16. ASSUME NEW j \in 1..Len(c_stack), ~Loop(c_stack, j), j > Len(r), c_stack[j].trying
       PROVE  \/ c_stack[j].ctx > q.time
              \/ \A h \in 1..Len(t[c_stack[j].ctx].handlers) : t[c_stack[j].ctx].handlers[h].frame = 0
  <2>1. CASE j = j0
    BY <1>2, <1>11, <2>1
  <2>2. CASE j # j0
    <3>1. j0 < j
      BY <1>1, <1>2, <1>16, <2>2
    <3>2. c < c_stack[j].ctx /\ c_stack[j].ctx \in Up(contexts, ctx)
      BY <1>2, <1>5, <1>16, <3>1 DEF Nested
    <3>3. c_stack[j].ctx \in 1..ctx /\ ctx \in Nat
      BY <1>1, <1>5, <3>2
    <3>4. c_stack[j].ctx > c
      BY <1>1, <3>2, <3>3
    <3>5. q.time < c_stack[j].ctx
      BY <1>13, <3>2, <3>4
    <3>. QED BY <1>9, <3>3, <3>5
  <2>. QED BY <2>1, <2>2
<1>17. /\ Len(r) \in Nat /\ Len(r) <= Len(c_stack) /\ q.time <= q.time /\ \A j \in 1..Len(r) : Alike(c_stack[j], r[j])
  BY <1>1, <1>2, <1>9
<1>18. PointsRight(Upto(K, Len(r), q.time), t, f, r, c)
  BY <1>1, <1>9, <1>11, <1>12, <1>14, <1>15, <1>16, <1>17, PointsCut
<1>. QED BY <1>18

LEMMA CatchFacts ==
  ASSUME ExInv, NEW x, NEW v, NEW op, Throwable(x, v, op), NEW c, NEW i, Finds(v, c, i),
         NEW j0, j0 = contexts[c].handlers[i].frame, j0 # 0, op \/ c = ctx
  PROVE  /\ i = 1 /\ Catching(j0, c, c_stack) /\ ~PendingIn(x, c_stack) /\ c_stack[j0] \in CatchFrame
         /\ Framed(contexts, exceptions, c_stack, j0) /\ j0 - 1 \in 1..Len(c_stack) /\ Loop(c_stack, j0 - 1)
         /\ \A j \in 1..j0 - 1 : ~Loop(c_stack, j) =>
              /\ c_stack[j].ctx # c /\ c_stack[j].ctx \in 1..Len(contexts) /\ c_stack[j].kind = "phasers"
              /\ Framed(contexts, exceptions, c_stack, j)
         /\ \A p \in 1..Len(contexts[c].handlers) : p # 1 => contexts[c].handlers[p].frame = 0
<1>1. /\ Typed(contexts, exceptions, ctx) /\ FramesRight(contexts, exceptions, c_stack) /\ c_stack \in Seq(Frame)
      /\ Len(c_stack) \in Nat
  BY LenProperties DEF ExInv, Chain
<1>2. PICK K : PointsRight(K, contexts, exceptions, c_stack, ctx)
  BY DEF ExInv
<1>3. /\ Nested(contexts, c_stack, ctx) /\ Up(contexts, ctx) \subseteq 1..ctx /\ ctx \in 1..Len(contexts) /\ Len(contexts) \in Nat
  BY <1>1, <1>2, AreNested
<1>4. c \in Up(contexts, ctx) /\ c \in Nat /\ c <= ctx /\ i \in 1..Len(contexts[c].handlers)
  BY DEF Finds
<1>5. CatchersOf(c, contexts, c_stack)
  <2>1. PICK k0 \in K : k0.ctx = ctx
    BY <1>2 DEF PointsRight, Shows
  <2>. QED BY <1>2, <1>4, <2>1 DEF PointsRight, Catchers
<1>6. i = 1 /\ Catching(j0, c, c_stack)
  BY <1>4, <1>5 DEF CatchersOf
<1>7. j0 \in 1..Len(c_stack) /\ ~Loop(c_stack, j0) /\ c_stack[j0].ctx = c /\ c_stack[j0].trying
  BY <1>6 DEF Catching
<1>8. ~PendingIn(x, c_stack)
  <2>1. \A j \in 1..Len(c_stack) :
           c_stack[j].kind = "phasers" /\ x \in ToSet(c_stack[j].caught) => j = Len(c_stack) /\ ~c_stack[j].trying
    BY DEF Throwable
  <2>2. CASE InOp
    <3>1. c_stack[Len(c_stack)].kind # "phasers"
      BY <2>2 DEF InOp, Innermost, Last
    <3>. QED BY <2>1, <3>1 DEF PendingIn
  <2>3. CASE ~InOp
    <3>1. ~op /\ (Last(c_stack).trying <=> v.handled # -1)
      BY <2>3 DEF Throwable
    <3>2. v.handled # -1
      <4>. SUFFICES ASSUME v.handled = -1 PROVE FALSE
        OBVIOUS
      <4>1. Trying(j0)
        BY <1>7 DEF Trying
      <4>2. c < Start(v) /\ Start(v) \in Up(contexts, ctx)
        BY <1>7, <4>1 DEF Throwable
      <4>3. Start(v) \in 1..ctx /\ c = ctx /\ ctx \in Nat
        BY <1>3, <3>1, <4>2
      <4>. QED BY <4>2, <4>3
    <3>3. c_stack[Len(c_stack)].trying
      BY <3>1, <3>2 DEF Last
    <3>. QED BY <2>1, <3>3 DEF PendingIn
  <2>. QED BY <2>2, <2>3
<1>9. c_stack[j0] \in CatchFrame
  <2>1. c_stack[j0] \in Frame
    BY <1>1, <1>7, ElementOfSeq
  <2>. QED BY <1>7, <2>1 DEF Frame, RunopsFrame, Loop
<1>10. Framed(contexts, exceptions, c_stack, j0)
  BY <1>1, <1>7 DEF FramesRight
<1>11. j0 - 1 \in 1..Len(c_stack) /\ Loop(c_stack, j0 - 1)
  BY <1>10 DEF Framed
<1>12. ASSUME NEW j \in 1..j0 - 1, ~Loop(c_stack, j)
       PROVE  /\ c_stack[j].ctx # c /\ c_stack[j].ctx \in 1..Len(contexts) /\ c_stack[j].kind = "phasers"
              /\ Framed(contexts, exceptions, c_stack, j)
  <2>1. j \in 1..Len(c_stack) /\ j < j0 /\ j < Len(c_stack)
    BY <1>1, <1>7, <1>12
  <2>2. Framed(contexts, exceptions, c_stack, j)
    BY <1>1, <1>12, <2>1 DEF FramesRight
  <2>3. c_stack[j].ctx < c /\ c_stack[j].ctx \in Up(contexts, ctx)
    BY <1>3, <1>7, <1>12, <2>1 DEF Nested
  <2>4. c_stack[j].ctx \in 1..ctx
    BY <1>3, <2>3
  <2>5. c_stack[j].ctx # c /\ c_stack[j].ctx \in 1..Len(contexts)
    BY <1>3, <1>4, <2>3, <2>4
  <2>. QED BY <2>1, <2>2, <2>5 DEF Framed
<1>13. \A p \in 1..Len(contexts[c].handlers) : p # 1 => contexts[c].handlers[p].frame = 0
  BY <1>5 DEF CatchersOf
<1>. QED BY <1>6, <1>8, <1>9, <1>10, <1>11, <1>12, <1>13

(* The frames below the one that catches stay as they are. *)
LEMMA CatchFrames ==
  ASSUME ExInv, NEW x, NEW v, NEW op, Throwable(x, v, op), NEW c, NEW i, Finds(v, c, i),
         NEW j0, j0 = contexts[c].handlers[i].frame, j0 # 0, op \/ c = ctx,
         NEW f, NEW w, Puts(f, x, w), NEW t, NEW V, Rehandles(contexts, t, c, V)
  PROVE  \A j \in 1..j0 - 1 : ~Loop(c_stack, j) =>
            /\ c_stack[j].trying => Headed(t, c_stack[j].ctx, j)
            /\ \A y \in ToSet(c_stack[j].caught) : y \in 1..Len(f) /\ f[y].context = c_stack[j].ctx
<1>. SUFFICES ASSUME NEW j \in 1..j0 - 1, ~Loop(c_stack, j)
              PROVE  /\ c_stack[j].trying => Headed(t, c_stack[j].ctx, j)
                     /\ \A y \in ToSet(c_stack[j].caught) : y \in 1..Len(f) /\ f[y].context = c_stack[j].ctx
  OBVIOUS
<1>1. /\ c_stack[j].ctx # c /\ c_stack[j].ctx \in 1..Len(contexts) /\ c_stack[j].kind = "phasers"
      /\ Framed(contexts, exceptions, c_stack, j) /\ ~PendingIn(x, c_stack)
  BY CatchFacts
<1>2. t[c_stack[j].ctx].handlers = contexts[c_stack[j].ctx].handlers
  BY <1>1 DEF Rehandles
<1>3. j \in 1..Len(c_stack)
  <2>1. j0 - 1 \in 1..Len(c_stack)
    BY CatchFacts
  <2>2. Len(c_stack) \in Nat
    BY LenProperties DEF ExInv, Chain
  <2>. QED BY <2>1, <2>2
<1>4. \A y \in ToSet(c_stack[j].caught) : y # x
  BY <1>1, <1>3 DEF PendingIn
<1>5. c_stack[j].trying => Headed(t, c_stack[j].ctx, j)
  BY <1>1, <1>2 DEF Framed, Headed
<1>6. \A y \in ToSet(c_stack[j].caught) : y \in 1..Len(f) /\ f[y].context = c_stack[j].ctx
  BY <1>1, <1>4 DEF Framed, Puts
<1>. QED BY <1>5, <1>6

(* run_leave_phasers catches. *)
CaughtOn(x, j0, r) ==
  r = Append(SubSeq(c_stack, 1, j0 - 1), [c_stack[j0] EXCEPT !.trying = FALSE, !.caught = Append(@, x)])

ByPhasers(j0, c, i, op, w) ==
  /\ j0 = contexts[c].handlers[i].frame /\ j0 # 0 /\ (op \/ c = ctx) /\ c_stack[j0].kind = "phasers" /\ w.context = c
  /\ SetRunloops(FreeRunloopsUntil(c_stack[j0].runloop_id)) /\ runloop_id_counter' = runloop_id_counter

LEMMA PhasersCatch ==
  ASSUME ExInv, NEW x, NEW v, NEW op, Throwable(x, v, op), NEW c, NEW i, Finds(v, c, i),
         NEW f, NEW w, Puts(f, x, w), NEW t, NEW V, Rehandles(contexts, t, c, V),
         NEW j0, ByPhasers(j0, c, i, op, w), NEW r, CaughtOn(x, j0, r)
  PROVE  /\ CatchStack(x, c, j0, j0, r) /\ FramesRight(t, f, r)
         /\ Chain(r, runloops', runloop_id_counter') /\ current_runloop_id' = runloops'[Len(runloops')]
         /\ current_runloop_level' = Len(runloops')
<1>by. j0 = contexts[c].handlers[i].frame /\ j0 # 0 /\ (op \/ c = ctx) /\ c_stack[j0].kind = "phasers" /\ w.context = c
  BY DEF ByPhasers
<1>1. /\ c_stack \in Seq(Frame) /\ FramesRight(contexts, exceptions, c_stack) /\ Chain(c_stack, runloops, runloop_id_counter)
      /\ current_runloop_level = Len(runloops) /\ exceptions \in Seq(ExceptionRecord)
  BY DEF ExInv, Chain, Typed
<1>len. Len(c_stack) \in Nat /\ x \in Nat
  <2>1. Len(c_stack) \in Nat /\ Len(exceptions) \in Nat
    BY <1>1, LenProperties
  <2>2. x \in 1..Len(exceptions) + 1
    BY DEF Throwable
  <2>. QED BY <2>1, <2>2
<1>h. PICK h : h = c_stack[j0]
  OBVIOUS
<1>2. /\ Catching(j0, c, c_stack) /\ ~PendingIn(x, c_stack) /\ c_stack[j0] \in CatchFrame
      /\ Framed(contexts, exceptions, c_stack, j0) /\ j0 - 1 \in 1..Len(c_stack) /\ Loop(c_stack, j0 - 1)
  BY <1>by, CatchFacts
<1>3. \A j \in 1..j0 - 1 : ~Loop(c_stack, j) =>
         /\ c_stack[j].trying => Headed(t, c_stack[j].ctx, j)
         /\ \A y \in ToSet(c_stack[j].caught) : y \in 1..Len(f) /\ f[y].context = c_stack[j].ctx
  BY <1>by, CatchFrames
<1>4. j0 \in 1..Len(c_stack) /\ ~Loop(c_stack, j0) /\ h.ctx = c /\ h \in CatchFrame /\ h.kind = "phasers"
  BY <1>h, <1>by, <1>2 DEF Catching
<1>5. h.caught \in Seq(Nat) /\ Append(h.caught, x) \in Seq(Nat)
  <2>1. h.caught \in Seq(Nat)
    BY <1>4 DEF CatchFrame
  <2>. QED BY <1>len, <2>1, AppendProperties
<1>6. PICK g : /\ g \in CatchFrame /\ g \in Frame /\ g.kind = "phasers" /\ g.ctx = c /\ g.runloop_id = h.runloop_id
               /\ ~g.trying /\ g.caught = Append(h.caught, x) /\ r = Append(SubSeq(c_stack, 1, j0 - 1), g)
  <2>. DEFINE g == [h EXCEPT !.trying = FALSE, !.caught = Append(h.caught, x)]
  <2>1. r = Append(SubSeq(c_stack, 1, j0 - 1), g)
    BY <1>h DEF CaughtOn
  <2>2. /\ g \in CatchFrame /\ g.kind = "phasers" /\ g.ctx = c /\ g.runloop_id = h.runloop_id /\ ~g.trying
        /\ g.caught = Append(h.caught, x)
    BY <1>4, <1>5 DEF CatchFrame
  <2>3. g \in Frame
    BY <2>2 DEF Frame
  <2>. HIDE DEF g
  <2>. QED BY <2>1, <2>2, <2>3
<1>7. /\ r \in Seq(Frame) /\ Len(r) = j0 /\ r[j0] = g
      /\ \A j \in 1..j0 - 1 : r[j] = c_stack[j] /\ j \in 1..Len(c_stack)
  <2>. DEFINE q == SubSeq(c_stack, 1, j0 - 1)
  <2>1. /\ q \in Seq(Frame) /\ Len(q) = j0 - 1 /\ \A j \in 1..j0 - 1 : q[j] = c_stack[j] /\ j \in 1..Len(c_stack)
    <3>1. j0 - 1 \in 0..Len(c_stack)
      BY <1>len, <1>2
    <3>. QED BY <1>1, <3>1, PrefixIs
  <2>2. r = Append(q, g)
    BY <1>6
  <2>. HIDE DEF q
  <2>3. r \in Seq(Frame) /\ Len(r) = Len(q) + 1 /\ r[Len(q) + 1] = g /\ \A j \in 1..Len(q) : r[j] = q[j]
    <3>1. g \in Frame /\ q \in Seq(Frame)
      BY <1>6, <2>1
    <3>2. /\ Append(q, g) \in Seq(Frame) /\ Len(Append(q, g)) = Len(q) + 1 /\ Append(q, g)[Len(q) + 1] = g
          /\ \A j \in 1..Len(q) : Append(q, g)[j] = q[j]
      BY <3>1, AppendProperties
    <3>. QED BY <2>2, <3>2
  <2>4. Len(q) + 1 = j0
    BY <1>len, <1>4, <2>1
  <2>. QED BY <2>1, <2>3, <2>4
<1>8. \A j \in 1..j0 : j # j0 => j \in 1..j0 - 1
  BY <1>len, <1>4
<1>9. ~Loop(r, j0) /\ \A j \in 1..j0 - 1 : Loop(r, j) <=> Loop(c_stack, j)
  BY <1>6, <1>7 DEF Loop
<1>10. CatchStack(x, c, j0, j0, r)
  <2>1. ASSUME NEW j \in 1..j0 PROVE Alike(c_stack[j], r[j]) /\ (j # j0 => r[j] = c_stack[j])
    <3>1. CASE j # j0
      BY <1>7, <1>8, <3>1 DEF Alike
    <3>2. CASE j = j0
      BY <1>h, <1>4, <1>6, <1>7, <3>2 DEF Alike
    <3>. QED BY <3>1, <3>2
  <2>2. ASSUME NEW y, PendingIn(y, r) PROVE PendingIn(y, c_stack) \/ y = x
    <3>1. PICK j \in 1..j0 : r[j].kind = "phasers" /\ y \in ToSet(r[j].caught)
      BY <1>7, <2>2 DEF PendingIn
    <3>2. CASE j # j0
      BY <1>7, <1>8, <3>1, <3>2 DEF PendingIn
    <3>3. CASE j = j0
      <4>1. y \in ToSet(Append(h.caught, x))
        BY <1>6, <1>7, <3>1, <3>3
      <4>2. y \in ToSet(h.caught) \/ y = x
        BY <1>5, <4>1, AppendProperties, LenProperties DEF ToSet
      <4>. QED BY <1>h, <1>4, <4>2 DEF PendingIn
    <3>. QED BY <3>2, <3>3
  <2>. QED BY <1>2, <1>4, <1>7, <2>1, <2>2 DEF CatchStack
<1>11. FramesRight(t, f, r)
  <2>1. Framed(t, f, r, j0)
    <3>1. j0 - 1 \in 1..j0 - 1 /\ j0 - 1 \in 1..Len(r) /\ ~(j0 < Len(r))
      <4>1. j0 \in Nat /\ j0 - 1 >= 1
        <5>1. Len(c_stack) \in Nat /\ j0 \in 1..Len(c_stack) /\ j0 - 1 \in 1..Len(c_stack)
          BY <1>len, <1>2, <1>4, Zenon
        <5>2. \A n \in Nat : j0 \in 1..n /\ j0 - 1 \in 1..n => j0 \in Nat /\ j0 - 1 >= 1
          OBVIOUS
        <5>. QED BY <5>1, <5>2, Zenon
      <4>2. \A n \in Nat : n - 1 >= 1 => n - 1 \in 1..n - 1 /\ n - 1 \in 1..n /\ ~(n < n)
        OBVIOUS
      <4>3. Len(r) = j0
        BY <1>7, Zenon
      <4>. QED BY <4>1, <4>2, <4>3, Zenon
    <3>2. Loop(r, j0 - 1) /\ r[j0].runloop_id = r[j0 - 1].id
      BY <1>h, <1>2, <1>6, <1>7, <1>9, <3>1 DEF Framed
    <3>3. ASSUME NEW y \in ToSet(Append(h.caught, x)) PROVE y \in 1..Len(f) /\ f[y].context = c
      <4>1. y \in ToSet(h.caught) \/ y = x
        BY <1>5, <3>3, AppendProperties, LenProperties DEF ToSet
      <4>2. CASE y = x
        BY <1>by, <4>2 DEF Puts
      <4>3. CASE y # x /\ y \in ToSet(h.caught)
        <5>1. y \in 1..Len(exceptions) /\ exceptions[y].context = c
          BY <1>h, <1>2, <1>4, <4>3 DEF Framed
        <5>. QED BY <4>3, <5>1 DEF Puts
      <4>. QED BY <4>1, <4>2, <4>3
    <3>. QED BY <1>6, <1>7, <3>1, <3>2, <3>3 DEF Framed
  <2>2. Len(r) \in Nat /\ Len(r) <= Len(c_stack)
    BY <1>len, <1>4, <1>7
  <2>3. \A j \in 1..Len(r) : j # Len(r) => r[j] = c_stack[j] /\ j \in 1..j0 - 1
    BY <1>7, <1>8
  <2>4. \A j \in 1..Len(r) : ~Loop(c_stack, j) /\ j # Len(r) =>
            /\ c_stack[j].trying => Headed(t, c_stack[j].ctx, j)
            /\ \A y \in ToSet(c_stack[j].caught) : y \in 1..Len(f) /\ f[y].context = c_stack[j].ctx
    BY <1>3, <2>3
  <2>. QED BY <1>1, <1>7, <1>len, <2>1, <2>2, <2>3, <2>4, FramesTop
<1>12. /\ Chain(r, runloops', runloop_id_counter') /\ current_runloop_id' = runloops'[Len(runloops')]
       /\ current_runloop_level' = Len(runloops')
  <2>1. HasLoop(c_stack, j0 - 1) /\ c_stack[j0].runloop_id = c_stack[j0 - 1].id
    BY <1>2 DEF HasLoop, Framed
  <2>2. \A j : HasLoop(r, j) <=> HasLoop(c_stack, j) /\ j <= j0 - 1
    <3>1. \A j : j \in 1..j0 - 1 <=> j \in 1..Len(c_stack) /\ j <= j0 - 1
      BY <1>len, <1>4
    <3>2. \A j : HasLoop(r, j) <=> j \in 1..j0 - 1 /\ Loop(r, j)
      <4>1. \A j \in 1..j0 - 1 : j \in 1..j0
        BY <1>len, <1>4
      <4>. QED BY <1>7, <1>8, <1>9, <4>1 DEF HasLoop
    <3>. QED BY <1>9, <3>1, <3>2 DEF HasLoop
  <2>3. \A j : HasLoop(r, j) => r[j].id = c_stack[j].id
    <3>1. \A j : HasLoop(r, j) => j \in 1..j0 - 1
      BY <1>7, <1>8, <1>9 DEF HasLoop
    <3>. QED BY <1>7, <3>1
  <2>4. SetRunloops(FreeRunloopsUntil(c_stack[j0 - 1].id))
    BY <2>1 DEF ByPhasers
  <2>5. runloop_id_counter' = runloop_id_counter
    BY DEF ByPhasers
  <2>. QED BY <1>1, <1>7, <2>1, <2>2, <2>3, <2>4, <2>5, CutKeeps
<1>. QED BY <1>10, <1>11, <1>12

(* Parrot_ext_try catches. *)
LeftAt(j0, r) == r = SubSeq(c_stack, 1, j0 - 1)

LEMMA ExtCatches ==
  ASSUME ExInv, NEW x, NEW v, NEW op, Throwable(x, v, op), NEW c, NEW i, Finds(v, c, i),
         NEW j0, j0 = contexts[c].handlers[i].frame, j0 # 0, op \/ c = ctx, c_stack[j0].kind = "ext",
         NEW f, NEW w, Puts(f, x, w), NEW t, NEW V, Rehandles(contexts, t, c, V),
         NEW r, LeftAt(j0, r)
  PROVE  CatchStack(x, c, j0, j0 - 1, r) /\ FramesRight(t, f, r) /\ Chain(r, runloops, runloop_id_counter)
<1>1. /\ c_stack \in Seq(Frame) /\ FramesRight(contexts, exceptions, c_stack) /\ Chain(c_stack, runloops, runloop_id_counter)
  BY DEF ExInv, Chain
<1>2. /\ Catching(j0, c, c_stack) /\ Framed(contexts, exceptions, c_stack, j0) /\ j0 - 1 \in 1..Len(c_stack)
      /\ Loop(c_stack, j0 - 1)
  BY CatchFacts
<1>3. \A j \in 1..j0 - 1 : ~Loop(c_stack, j) =>
         /\ c_stack[j].trying => Headed(t, c_stack[j].ctx, j)
         /\ \A y \in ToSet(c_stack[j].caught) : y \in 1..Len(f) /\ f[y].context = c_stack[j].ctx
  BY CatchFrames
<1>4. j0 \in 1..Len(c_stack) /\ ~Loop(c_stack, j0) /\ Len(c_stack) \in Nat
  BY <1>1, <1>2, LenProperties DEF Catching
<1>5. j0 = Len(c_stack)
  <2>1. ~(j0 < Len(c_stack))
    BY <1>2 DEF Framed
  <2>. QED BY <1>4, <2>1
<1>6. r \in Seq(Frame) /\ Len(r) = j0 - 1 /\ \A j \in 1..j0 - 1 : r[j] = c_stack[j] /\ j \in 1..Len(c_stack)
  <2>1. j0 - 1 \in 0..Len(c_stack)
    BY <1>2, <1>4
  <2>. QED BY <1>1, <2>1, PrefixIs DEF LeftAt
<1>7. \A j \in 1..j0 - 1 : j # j0
  BY <1>4
<1>8. CatchStack(x, c, j0, j0 - 1, r)
  <2>1. \A y : PendingIn(y, r) => PendingIn(y, c_stack)
    BY <1>6 DEF PendingIn
  <2>2. \A j \in 1..j0 - 1 : Alike(c_stack[j], r[j])
    BY <1>6 DEF Alike
  <2>. QED BY <1>2, <1>6, <2>1, <2>2 DEF CatchStack
<1>9. FramesRight(t, f, r)
  <2>1. Len(r) \in Nat /\ Len(r) <= Len(c_stack)
    BY <1>2, <1>4, <1>6
  <2>2. \A j \in 1..Len(r) : r[j] = c_stack[j]
    BY <1>6
  <2>3. \A j \in 1..Len(r) : ~Loop(c_stack, j) =>
            /\ c_stack[j].trying => Headed(t, c_stack[j].ctx, j)
            /\ \A y \in ToSet(c_stack[j].caught) : y \in 1..Len(f) /\ f[y].context = c_stack[j].ctx
    BY <1>3, <1>6
  <2>. QED BY <1>1, <1>4, <2>1, <2>2, <2>3, FramesKeep
<1>10. Chain(r, runloops, runloop_id_counter)
  <2>1. \A j : HasLoop(r, j) <=> HasLoop(c_stack, j)
    <3>1. \A j : j \in 1..j0 - 1 <=> j \in 1..Len(c_stack) /\ j # j0
      BY <1>4, <1>5
    <3>. QED BY <1>4, <1>6, <3>1 DEF HasLoop, Loop
  <2>2. \A j : HasLoop(c_stack, j) => r[j].id = c_stack[j].id
    BY <1>6, <2>1 DEF HasLoop
  <2>. QED BY <1>1, <1>6, <2>1, <2>2, ChainSame
<1>. QED BY <1>8, <1>9, <1>10

Catch(x, c) ==
  /\ contexts[c].handlers # <<>> /\ contexts' = [contexts EXCEPT ![c].handlers = Tail(@)] /\ ctx' = c /\ ended' = ended
  /\ \E V : /\ Rehandles(contexts, contexts', c, V) /\ \A p \in 1..Len(V.handlers) : V.handlers[p].frame = 0
  /\ Typed(contexts', exceptions', c)
  /\ \E j0, D : CatchStack(x, c, j0, D, c_stack')
  /\ FramesRight(contexts', exceptions', c_stack')
  /\ Chain(c_stack', runloops', runloop_id_counter') /\ current_runloop_id' = runloops'[Len(runloops')]
  /\ current_runloop_level' = Len(runloops')

LEMMA CaughtInC ==
  ASSUME ExInv, NEW x, NEW v, NEW op, Throwable(x, v, op),
         NEW c, NEW i, Finds(v, c, i), contexts[c].handlers[i].frame # 0, op \/ c = ctx,
         Puts(exceptions', x, Caught(v, c, i)), CatchInC(x, c, contexts[c].handlers[i].frame, op)
  PROVE  Catch(x, c)
<1>. DEFINE w == Caught(v, c, i)
            V == [contexts[c] EXCEPT !.handlers = Tail(@)]
<1>1. /\ Typed(contexts, exceptions, ctx) /\ c_stack \in Seq(Frame) /\ ended # -1
      /\ current_runloop_id = runloops[Len(runloops)] /\ current_runloop_level = Len(runloops)
  BY DEF ExInv, Chain
<1>2. c \in 1..Len(contexts) /\ i \in 1..Len(contexts[c].handlers) /\ v \in ExceptionRecord
  BY DEF Finds, Throwable
<1>3. PICK j0 : j0 = contexts[c].handlers[i].frame
  OBVIOUS
<1>4. /\ Catching(j0, c, c_stack) /\ c_stack[j0] \in CatchFrame
      /\ \A p \in 1..Len(contexts[c].handlers) : p # 1 => contexts[c].handlers[p].frame = 0
  BY <1>3, CatchFacts
<1>5. c_stack[j0].ctx = c
  BY <1>4 DEF Catching
<1>6. contexts[c] \in ContextRecord /\ Len(contexts[c].handlers) # 0 /\ Handlers(c) # <<>> /\ Homely(contexts, c)
  <2>1. contexts[c] \in ContextRecord
    BY <1>1, <1>2, CallsFields DEF Typed
  <2>2. Len(contexts[c].handlers) # 0
    <3>1. \A n : n \in 1..0 => FALSE
      OBVIOUS
    <3>. QED BY <1>2, <3>1
  <2>3. Len(<<>>) = 0
    OBVIOUS
  <2>. QED BY <1>1, <1>2, <2>1, <2>2, <2>3 DEF Handlers, Typed
<1>7. /\ contexts' = [contexts EXCEPT ![c] = V] /\ ctx' = c /\ ended' = ended
      /\ IF c_stack[j0].kind = "ext"
         THEN c_stack' = SubSeq(c_stack, 1, j0 - 1) /\ UNCHANGED runloopVars
         ELSE /\ CaughtOn(x, j0, c_stack') /\ SetRunloops(FreeRunloopsUntil(c_stack[j0].runloop_id))
              /\ runloop_id_counter' = runloop_id_counter
  <2>1. (IF c_stack[j0].kind = "ext" THEN c_stack[j0].ctx ELSE IF op THEN c ELSE ctx) = c
    BY <1>5
  <2>. DEFINE Done(at) ==
        IF Handlers(at) = <<>>
        THEN ended' = -1 /\ UNCHANGED <<contexts, ctx, c_stack, runloopVars>>
        ELSE /\ contexts' = [contexts EXCEPT ![at].handlers = Tail(@)]
             /\ ctx' = c_stack[j0].ctx
             /\ IF c_stack[j0].kind = "ext"
                THEN c_stack' = SubSeq(c_stack, 1, j0 - 1) /\ UNCHANGED runloopVars
                ELSE /\ c_stack' = Append(SubSeq(c_stack, 1, j0 - 1),
                                          [c_stack[j0] EXCEPT !.trying = FALSE, !.caught = Append(@, x)])
                     /\ SetRunloops(FreeRunloopsUntil(c_stack[j0].runloop_id))
                     /\ UNCHANGED runloop_id_counter
             /\ UNCHANGED ended
  <2>2. /\ contexts' = [contexts EXCEPT ![c].handlers = Tail(@)] /\ ctx' = c_stack[j0].ctx /\ ended' = ended
        /\ IF c_stack[j0].kind = "ext"
           THEN c_stack' = SubSeq(c_stack, 1, j0 - 1) /\ UNCHANGED runloopVars
           ELSE /\ c_stack' = Append(SubSeq(c_stack, 1, j0 - 1),
                                     [c_stack[j0] EXCEPT !.trying = FALSE, !.caught = Append(@, x)])
                /\ SetRunloops(FreeRunloopsUntil(c_stack[j0].runloop_id))
                /\ UNCHANGED runloop_id_counter
    <3>1. CatchInC(x, c, j0, op)
      BY <1>3
    <3>2. Done(IF c_stack[j0].kind = "ext" THEN c_stack[j0].ctx ELSE IF op THEN c ELSE ctx)
      BY <3>1, Zenon DEF CatchInC
    <3>. HIDE DEF Done
    <3>3. Done(c)
      BY <2>1, <3>2, Zenon
    <3>. USE DEF Done
    <3>. QED BY <1>6, <3>3, Zenon
  <2>. QED BY <1>5, <2>2 DEF CaughtOn
<1>8. Puts(exceptions', x, w)
  OBVIOUS
<1>9. /\ w.context = c /\ w.before[1] \in 0..Len(exceptions) /\ (w.before[2] => w.before[1] # 0)
  BY <1>1, <1>2, CaughtIs
<1>. HIDE DEF w
<1>10. /\ SameBut(V, contexts[c])
       /\ \A p \in 1..Len(V.handlers) :
            V.handlers[p] = contexts[c].handlers[p + 1] /\ p + 1 \in 1..Len(contexts[c].handlers) /\ p + 1 # 1
  BY <1>6, HandlerDeleted DEF Homely
<1>. HIDE DEF V
<1>11. \A p \in 1..Len(V.handlers) : V.handlers[p].frame = 0
  BY <1>4, <1>10
<1>12. Rehandles(contexts, contexts', c, V) /\ Typed(contexts', exceptions, ctx)
  BY <1>1, <1>2, <1>7, <1>10, Rehandled
<1>13. Typed(contexts', exceptions', c)
  <2>1. Typed(contexts', exceptions', ctx)
    BY <1>8, <1>9, <1>12, PutTyped
  <2>. QED BY <1>2, <1>12, <2>1 DEF Typed, Rehandles
<1>14. /\ \E D : CatchStack(x, c, j0, D, c_stack') /\ FramesRight(contexts', exceptions', c_stack')
       /\ Chain(c_stack', runloops', runloop_id_counter') /\ current_runloop_id' = runloops'[Len(runloops')]
       /\ current_runloop_level' = Len(runloops')
  <2>1. CASE c_stack[j0].kind = "ext"
    <3>1. LeftAt(j0, c_stack') /\ UNCHANGED runloopVars
      BY <1>7, <2>1 DEF LeftAt
    <3>2. /\ CatchStack(x, c, j0, j0 - 1, c_stack') /\ FramesRight(contexts', exceptions', c_stack')
          /\ Chain(c_stack', runloops, runloop_id_counter)
      BY <1>3, <1>8, <1>12, <2>1, <3>1, ExtCatches
    <3>. QED BY <1>1, <3>1, <3>2 DEF runloopVars
  <2>2. CASE c_stack[j0].kind # "ext"
    <3>1. c_stack[j0].kind = "phasers"
      BY <1>4, <2>2 DEF CatchFrame
    <3>2. /\ CaughtOn(x, j0, c_stack') /\ SetRunloops(FreeRunloopsUntil(c_stack[j0].runloop_id))
          /\ runloop_id_counter' = runloop_id_counter
      BY <1>7, <2>2
    <3>by. ByPhasers(j0, c, i, op, w)
      BY <1>3, <1>8, <1>9, <1>12, <3>1, <3>2 DEF ByPhasers
    <3>3. /\ CatchStack(x, c, j0, j0, c_stack') /\ FramesRight(contexts', exceptions', c_stack')
          /\ Chain(c_stack', runloops', runloop_id_counter') /\ current_runloop_id' = runloops'[Len(runloops')]
          /\ current_runloop_level' = Len(runloops')
      BY <1>3, <1>8, <1>9, <1>12, <3>2, <3>by, PhasersCatch
    <3>. QED BY <3>3
  <2>. QED BY <2>1, <2>2
<1>15. contexts[c].handlers # <<>> /\ contexts' = [contexts EXCEPT ![c].handlers = Tail(@)]
  BY <1>6, <1>7 DEF Handlers, V
<1>. QED BY <1>7, <1>11, <1>12, <1>13, <1>14, <1>15 DEF Catch

LEMMA ThrownToC ==
  ASSUME ExInv, NEW x, NEW v, NEW op, Throwable(x, v, op),
         NEW K, PointsRight(K, contexts, exceptions, c_stack, ctx), Fresh(x, v, K),
         NEW c, NEW i, Finds(v, c, i), contexts[c].handlers[i].frame # 0, op \/ c = ctx,
         Puts(exceptions', x, Caught(v, c, i)), CatchInC(x, c, contexts[c].handlers[i].frame, op)
  PROVE  ExInv'
<1>1. Typed(contexts, exceptions, ctx) /\ c_stack \in Seq(Frame) /\ ended # -1 /\ c \in 1..Len(contexts)
  BY DEF ExInv, Chain, Finds
<1>2. Catch(x, c)
  BY CaughtInC
<1>3. PICK V : Rehandles(contexts, contexts', c, V) /\ \A p \in 1..Len(V.handlers) : V.handlers[p].frame = 0
  BY <1>2 DEF Catch
<1>4. PICK j0, D : CatchStack(x, c, j0, D, c_stack')
  BY <1>2 DEF Catch
<1>5. \E K2 : PointsRight(K2, contexts', exceptions', c_stack', c)
  BY <1>1, <1>3, <1>4, CatchPoints
<1>. QED BY <1>1, <1>2, <1>5 DEF ExInv, Catch
-----------------------------------------------------------------------------
(* A throw, whatever takes it. *)
LEMMA DeliverKeeps ==
  ASSUME Habits = {}, ExInv, NEW x, NEW v, NEW op, Throwable(x, v, op), Deliver(x, v, op),
         NEW K, PointsRight(K, contexts, exceptions, c_stack, ctx), Fresh(x, v, K)
  PROVE  ExInv'
<1>. DEFINE Put(u) == IF x \in DOMAIN exceptions THEN [exceptions EXCEPT ![x] = u] ELSE Append(exceptions, u)
<1>1. \/ Found(v) = {} /\ exceptions' = Put(v) /\ Unhandled(x, v, op)
      \/ \E p \in Found(v) :
           /\ exceptions' = Put(Caught(v, p[1], p[2]))
           /\ IF Handlers(p[1])[p[2]].frame = 0 THEN RunHandler(x, p[1], op)
              ELSE /\ op \/ p[1] = ctx \/ "C throws past C" \in Habits
                   /\ CatchInC(x, p[1], Handlers(p[1])[p[2]].frame, op)
  BY Zenon DEF Deliver
<1>2. /\ Typed(contexts, exceptions, ctx) /\ exceptions \in Seq(ExceptionRecord)
      /\ x \in 1..Len(exceptions) + 1 /\ v \in ExceptionRecord
  BY DEF ExInv, Typed, Throwable
<1>3. \A u \in ExceptionRecord : Puts(Put(u), x, u)
  BY <1>2, PutIs
<1>. HIDE DEF Put
<1>4. CASE exceptions' = Put(v) /\ Unhandled(x, v, op)
  <2>1. Puts(exceptions', x, v)
    BY <1>2, <1>3, <1>4
  <2>. QED BY <1>4, <2>1, ThrownUnhandled
<1>5. CASE \E p \in Found(v) :
           /\ exceptions' = Put(Caught(v, p[1], p[2]))
           /\ IF Handlers(p[1])[p[2]].frame = 0 THEN RunHandler(x, p[1], op)
              ELSE /\ op \/ p[1] = ctx \/ "C throws past C" \in Habits
                   /\ CatchInC(x, p[1], Handlers(p[1])[p[2]].frame, op)
  <2>1. PICK p \in Found(v) :
           /\ exceptions' = Put(Caught(v, p[1], p[2]))
           /\ IF Handlers(p[1])[p[2]].frame = 0 THEN RunHandler(x, p[1], op)
              ELSE /\ op \/ p[1] = ctx \/ "C throws past C" \in Habits
                   /\ CatchInC(x, p[1], Handlers(p[1])[p[2]].frame, op)
    BY <1>5
  <2>2. PICK c, i : c = p[1] /\ i = p[2]
    OBVIOUS
  <2>3. Finds(v, c, i)
    BY <2>2, FoundIs
  <2>4. c \in 1..Len(contexts) /\ i \in 1..Len(contexts[c].handlers)
    BY <2>3 DEF Finds
  <2>5. Caught(v, c, i) \in ExceptionRecord
    BY <1>2, <2>4, CaughtIs
  <2>6. Puts(exceptions', x, Caught(v, c, i))
    BY <1>3, <2>1, <2>2, <2>5
  <2>7. IF contexts[c].handlers[i].frame = 0 THEN RunHandler(x, c, op)
        ELSE (op \/ c = ctx) /\ CatchInC(x, c, contexts[c].handlers[i].frame, op)
    BY <2>1, <2>2, Zenon DEF Handlers
  <2>8. CASE contexts[c].handlers[i].frame = 0
    BY <2>3, <2>6, <2>7, <2>8, ThrownToHandler
  <2>9. CASE contexts[c].handlers[i].frame # 0
    BY <2>3, <2>6, <2>7, <2>9, ThrownToC
  <2>. QED BY <2>8, <2>9
<1>. QED BY <1>1, <1>4, <1>5

(* Where control is, for a throw. *)
LEMMA ThrowFacts ==
  ASSUME ExInv
  PROVE  /\ ctx \in Up(contexts, ctx) /\ ctx \in Nat /\ ctx \in 1..Len(contexts) /\ Len(exceptions) \in Nat
         /\ exceptions \in Seq(ExceptionRecord) /\ \A x \in 1..Len(exceptions) : exceptions[x] \in ExceptionRecord
         /\ \A j \in 1..Len(c_stack) : ~Loop(c_stack, j) => c_stack[j].ctx <= ctx /\ Framed(contexts, exceptions, c_stack, j)
         /\ \A j \in 1..Len(c_stack) : ~Loop(c_stack, j) /\ j # Len(c_stack) => c_stack[j].ctx < ctx
         /\ \A c \in Up(contexts, ctx) : c \in Nat /\ c <= ctx /\ contexts[c].exception \in 0..Len(exceptions)
<1>1. /\ Typed(contexts, exceptions, ctx) /\ c_stack \in Seq(Frame) /\ FramesRight(contexts, exceptions, c_stack)
      /\ exceptions \in Seq(ExceptionRecord)
  BY DEF ExInv, Chain, Typed
<1>2. PICK K : PointsRight(K, contexts, exceptions, c_stack, ctx)
  BY DEF ExInv
<1>3. /\ Nested(contexts, c_stack, ctx) /\ Up(contexts, ctx) \subseteq 1..ctx /\ ctx \in 1..Len(contexts) /\ Len(contexts) \in Nat
      /\ ctx \in Up(contexts, ctx)
  BY <1>1, <1>2, AreNested
<1>4. ctx \in Nat /\ Len(exceptions) \in Nat
  BY <1>1, <1>3, LenProperties
<1>5. \A x \in 1..Len(exceptions) : exceptions[x] \in ExceptionRecord
  BY <1>1, ElementOfSeq
<1>6. ASSUME NEW j \in 1..Len(c_stack), ~Loop(c_stack, j)
      PROVE  /\ c_stack[j].ctx <= ctx /\ Framed(contexts, exceptions, c_stack, j)
             /\ j # Len(c_stack) => c_stack[j].ctx < ctx
  <2>1. c_stack[j].ctx \in Up(contexts, ctx) /\ (j # Len(c_stack) => c_stack[j].ctx < ctx)
    BY <1>3, <1>6 DEF Nested
  <2>2. c_stack[j].ctx \in 1..ctx
    BY <1>3, <2>1
  <2>3. c_stack[j].ctx <= ctx
    BY <1>4, <2>2
  <2>. QED BY <1>1, <1>6, <2>1, <2>3 DEF FramesRight
<1>7. ASSUME NEW c \in Up(contexts, ctx) PROVE c \in Nat /\ c <= ctx /\ contexts[c].exception \in 0..Len(exceptions)
  <2>1. c \in 1..ctx /\ c \in 1..Len(contexts)
    BY <1>3, <1>4
  <2>. QED BY <1>1, <1>4, <2>1 DEF Typed
<1>. QED BY <1>1, <1>3, <1>4, <1>5, <1>6, <1>7

LEMMA NoneHad == <<>> \in Seq(Nat \X Nat) /\ <<0, FALSE>> \in Nat \X BOOLEAN
<1>1. <<>> \in Seq(Nat \X Nat)
  BY EmptySeq
<1>2. 0 \in Nat /\ FALSE \in BOOLEAN
  OBVIOUS
<1>. QED BY <1>1, <1>2

Throws(x, v, op) ==
  /\ Throwable(x, v, op) /\ Deliver(x, v, op)
  /\ \E K : PointsRight(K, contexts, exceptions, c_stack, ctx) /\ Fresh(x, v, K)

LEMMA ThrowsKeep ==
  ASSUME Habits = {}, ExInv, NEW x, NEW v, NEW op, Throws(x, v, op)
  PROVE  ExInv'
  BY DeliverKeeps DEF Throws

LEMMA ThrowsNew ==
  ASSUME ExInv, NEW type \in Types, NEW op \in BOOLEAN, ThrowNew(type, op),
         InOp \/ (~op /\ InC /\ Last(c_stack).trying)
  PROVE  Throws(Len(exceptions) + 1, New(type, op), op)
<1>. DEFINE x == Len(exceptions) + 1
<1>1. PICK v : v = New(type, op)
  OBVIOUS
<1>2. Deliver(x, v, op)
  BY <1>1 DEF ThrowNew
<1>3. PICK K : PointsRight(K, contexts, exceptions, c_stack, ctx)
  BY DEF ExInv
<1>4. /\ ctx \in Up(contexts, ctx) /\ ctx \in Nat /\ Len(exceptions) \in Nat /\ exceptions \in Seq(ExceptionRecord)
      /\ \A j \in 1..Len(c_stack) : ~Loop(c_stack, j) => c_stack[j].ctx <= ctx /\ Framed(contexts, exceptions, c_stack, j)
  BY ThrowFacts
<1>5. /\ v \in ExceptionRecord /\ v.handled = 0 /\ v.resume = (IF op THEN ctx ELSE 0)
      /\ v.before[1] = 0 /\ ~v.before[2]
  <2>1. <<>> \in Seq(Nat \X Nat) /\ <<0, FALSE>> \in Nat \X BOOLEAN
    BY NoneHad
  <2>. QED BY <1>1, <1>4, <2>1 DEF New, ExceptionRecord
<1>6. x \in 1..Len(exceptions) + 1 /\ x # 0 /\ x \notin 1..Len(exceptions) /\ 0 \in 0..Len(exceptions) /\ 0 # -1
  BY <1>4
<1>. HIDE DEF x
<1>7. Throwable(x, v, op)
  <2>1. Start(v) = ctx
    BY <1>5, <1>6 DEF Start
  <2>2. \A j : Trying(j) => c_stack[j].ctx <= Start(v) /\ (v.handled = -1 => c_stack[j].ctx < Start(v))
    BY <1>4, <1>5, <1>6, <2>1 DEF Trying
  <2>3. \A j \in 1..Len(c_stack) : c_stack[j].kind = "phasers" => x \notin ToSet(c_stack[j].caught)
    <3>1. \A j \in 1..Len(c_stack) : c_stack[j].kind = "phasers" => ~Loop(c_stack, j)
      BY DEF Loop
    <3>. QED BY <1>4, <1>6, <3>1 DEF Framed
  <2>4. InOp \/ (InC /\ ~op /\ (Last(c_stack).trying <=> v.handled # -1))
    BY <1>5, <1>6
  <2>5. v.resume # 0 => InOp /\ op /\ v.resume = ctx
    BY <1>5
  <2>. QED BY <1>4, <1>5, <1>6, <2>1, <2>2, <2>3, <2>4, <2>5 DEF Throwable
<1>8. Fresh(x, v, K)
  <2>. SUFFICES ASSUME NEW k \in K, NEW a \in Up(contexts, k.ctx), k.marks[a] = x PROVE FALSE
    BY DEF Fresh
  <2>1. Marked(x, a, contexts, exceptions, c_stack)
    BY <1>3, <1>6 DEF PointsRight, Sound, Placed
  <2>. QED BY <1>4, <1>6, <2>1, LenProperties DEF Marked
<1>. QED BY <1>1, <1>2, <1>3, <1>7, <1>8 DEF Throws, x

LEMMA HeldIs ==
  ASSUME ExInv, NEW x \in Held
  PROVE  x \in 1..Len(exceptions) /\ x # 0 /\ \E c \in Up(contexts, ctx) : contexts[c].exception = x
<1>1. PICK c \in Up(contexts, ctx) : contexts[c].exception = x /\ x # 0
  BY CallersAre DEF Held
<1>2. x \in 0..Len(exceptions) /\ Len(exceptions) \in Nat
  BY <1>1, ThrowFacts
<1>. QED BY <1>1, <1>2

ThrowsOn(x, op) ==
  x \in 1..Len(exceptions) /\ Throws(x, [exceptions[x] EXCEPT !.handled = -1], op)

LEMMA ThrowsAnother ==
  ASSUME Habits = {}, ExInv, Rethrow
  PROVE  \E x : ThrowsOn(x, TRUE) /\ exceptions[x].context \in Up(contexts, ctx) /\ exceptions[x].had # <<>>
<1>1. PICK x \in Held :
        /\ InOp /\ exceptions[x].type # "warning" /\ exceptions[x].context \in Callers(ctx) /\ exceptions[x].had # <<>>
        /\ NoCatchInside(exceptions[x].context)
        /\ Deliver(x, [exceptions[x] EXCEPT !.handled = -1], TRUE)
  BY DEF Rethrow
<1>2. PICK v : v = [exceptions[x] EXCEPT !.handled = -1]
  OBVIOUS
<1>3. PICK K : PointsRight(K, contexts, exceptions, c_stack, ctx)
  BY DEF ExInv
<1>4. /\ Len(exceptions) \in Nat /\ x \in 1..Len(exceptions) /\ exceptions[x] \in ExceptionRecord
      /\ \A j \in 1..Len(c_stack) : ~Loop(c_stack, j) => Framed(contexts, exceptions, c_stack, j)
      /\ \A c \in Up(contexts, ctx) : c \in Nat
  BY ThrowFacts, HeldIs
<1>5. /\ v \in ExceptionRecord /\ v.handled = -1 /\ v.type = exceptions[x].type /\ v.context = exceptions[x].context
      /\ v.handler = exceptions[x].handler /\ v.before = exceptions[x].before
  BY <1>2, <1>4 DEF ExceptionRecord
<1>6. Start(v) = exceptions[x].context /\ Start(v) \in Up(contexts, ctx) /\ Start(v) \in Nat
  BY <1>1, <1>4, <1>5, CallersAre DEF Start
<1>7. \A j \in 1..Len(c_stack) : ~Loop(c_stack, j) => c_stack[j].ctx < Start(v)
  <2>1. DOMAIN c_stack = 1..Len(c_stack)
    BY LenProperties DEF ExInv, Chain
  <2>. QED BY <1>1, <1>6, <2>1 DEF NoCatchInside, Loop
<1>8. \A j \in 1..Len(c_stack) : ~Loop(c_stack, j) => c_stack[j].ctx <= Start(v) /\ c_stack[j].ctx # Start(v)
  <2>1. \A j \in 1..Len(c_stack) : ~Loop(c_stack, j) => c_stack[j].ctx \in Nat
    <3>. SUFFICES ASSUME NEW j \in 1..Len(c_stack), ~Loop(c_stack, j) PROVE c_stack[j].ctx \in Nat
      OBVIOUS
    <3>1. c_stack[j].ctx \in Up(contexts, ctx)
      <4>1. Nested(contexts, c_stack, ctx)
        BY <1>3, AreNested DEF ExInv, Chain
      <4>. QED BY <4>1 DEF Nested
    <3>. QED BY <1>4, <3>1
  <2>2. \A n \in Nat : n < Start(v) => n <= Start(v) /\ n # Start(v)
    BY <1>6
  <2>. QED BY <1>7, <2>1, <2>2
<1>9. Throwable(x, v, TRUE)
  <2>1. \A j : Trying(j) => c_stack[j].ctx <= Start(v) /\ (v.handled = -1 => c_stack[j].ctx < Start(v))
    BY <1>7, <1>8 DEF Trying
  <2>2. \A j \in 1..Len(c_stack) : c_stack[j].kind = "phasers" => x \notin ToSet(c_stack[j].caught)
    <3>1. \A j \in 1..Len(c_stack) : c_stack[j].kind = "phasers" => ~Loop(c_stack, j)
      BY DEF Loop
    <3>. QED BY <1>4, <1>6, <1>8, <3>1 DEF Framed
  <2>3. v.before[1] \in 0..Len(exceptions) /\ (v.before[2] => v.before[1] # 0)
    BY <1>4, <1>5 DEF ExInv, Typed
  <2>4. x \in 1..Len(exceptions) + 1
    BY <1>4
  <2>5. v.handled # 0 /\ v.type # "warning"
    BY <1>1, <1>5
  <2>. QED BY <1>1, <1>5, <1>6, <2>1, <2>2, <2>3, <2>4, <2>5 DEF Throwable
<1>10. Fresh(x, v, K)
  BY <1>5 DEF Fresh
<1>. QED BY <1>1, <1>2, <1>3, <1>4, <1>5, <1>6, <1>9, <1>10 DEF Throws, ThrowsOn
ThrownAnew(w, e, c) == w = [e EXCEPT !.resume = c, !.origin = c, !.had = <<>>]
LEMMA AnewIs ==
  ASSUME NEW e \in ExceptionRecord, NEW c \in Nat, NEW w, ThrownAnew(w, e, c)
  PROVE  /\ w \in ExceptionRecord /\ w.handled = e.handled /\ w.context = e.context
         /\ w.handler = e.handler /\ w.before = e.before /\ w.resume = c
  BY NoneHad DEF ThrownAnew, ExceptionRecord

ThrowsOnceMore(x) ==
  x \in 1..Len(exceptions) /\ Throws(x, [exceptions[x] EXCEPT !.resume = ctx, !.origin = ctx, !.had = <<>>], TRUE)

LEMMA ThrowsAgain ==
  ASSUME Habits = {}, ExInv, ThrowAgain
  PROVE  \E x : /\ ThrowsOnceMore(x) /\ exceptions[x].handled = 0 /\ x \notin Pending
                /\ \A c \in Up(contexts, ctx) : ~contexts[c].handling
<1>1. PICK x \in Held :
        /\ InOp /\ exceptions[x].handled = 0 /\ x \notin Pending
        /\ \A c \in Callers(ctx) : ~contexts[c].handling
        /\ Deliver(x, [exceptions[x] EXCEPT !.resume = ctx, !.origin = ctx, !.had = <<>>], TRUE)
  BY DEF ThrowAgain
<1>2. PICK v : v = [exceptions[x] EXCEPT !.resume = ctx, !.origin = ctx, !.had = <<>>]
  OBVIOUS
<1>3. PICK K : PointsRight(K, contexts, exceptions, c_stack, ctx)
  BY DEF ExInv
<1>4. /\ Len(exceptions) \in Nat /\ x \in 1..Len(exceptions) /\ exceptions[x] \in ExceptionRecord /\ x # 0
      /\ ctx \in Nat /\ ctx \in Up(contexts, ctx)
      /\ \A j \in 1..Len(c_stack) : ~Loop(c_stack, j) => c_stack[j].ctx <= ctx
  BY ThrowFacts, HeldIs
<1>5. /\ v \in ExceptionRecord /\ v.handled = 0 /\ v.handled # -1 /\ v.context = exceptions[x].context
      /\ v.handler = exceptions[x].handler /\ v.before = exceptions[x].before /\ v.resume = ctx
  <2>2. /\ v \in ExceptionRecord /\ v.handled = exceptions[x].handled /\ v.context = exceptions[x].context
        /\ v.handler = exceptions[x].handler /\ v.before = exceptions[x].before /\ v.resume = ctx
    <3>1. exceptions[x] \in ExceptionRecord /\ ctx \in Nat
      BY <1>4, Zenon
    <3>2. ThrownAnew(v, exceptions[x], ctx)
      BY <1>2 DEF ThrownAnew
    <3>. QED BY <3>1, <3>2, AnewIs, Zenon
  <2>3. 0 # -1
    OBVIOUS
  <2>. QED BY <1>1, <2>2, <2>3
<1>6. Start(v) = ctx
  BY <1>5 DEF Start
<1>7. Throwable(x, v, TRUE)
  <2>1. \A j : Trying(j) => c_stack[j].ctx <= Start(v) /\ (v.handled = -1 => c_stack[j].ctx < Start(v))
    BY <1>4, <1>5, <1>6 DEF Trying
  <2>2. \A j \in 1..Len(c_stack) : c_stack[j].kind = "phasers" => x \notin ToSet(c_stack[j].caught)
    <3>1. DOMAIN c_stack = 1..Len(c_stack) /\ DOMAIN exceptions = 1..Len(exceptions)
      BY LenProperties DEF ExInv, Chain, Typed
    <3>. QED BY <1>1, <1>4, <3>1 DEF Pending
  <2>3. v.before[1] \in 0..Len(exceptions) /\ (v.before[2] => v.before[1] # 0)
    BY <1>4, <1>5 DEF ExInv, Typed
  <2>4. x \in 1..Len(exceptions) + 1
    BY <1>4
  <2>. QED BY <1>1, <1>4, <1>5, <1>6, <2>1, <2>2, <2>3, <2>4 DEF Throwable
<1>. DEFINE K1 == Unmarked(K, contexts)
<1>8. PointsRight(K1, contexts, exceptions, c_stack, ctx)
  <2>1. Calls(contexts) /\ Sound(K, contexts, exceptions, c_stack) /\ Catchers(K, contexts, c_stack)
    BY <1>3 DEF PointsRight, ExInv, Typed
  <2>2. Sound(K1, contexts, exceptions, c_stack)
    BY <2>1, UnmarkedStay
  <2>3. Catchers(K1, contexts, c_stack)
    BY <2>1 DEF Catchers, Unmarked
  <2>4. PICK k \in K : Shows(k, ctx, Marks(contexts), Len(c_stack))
    BY <1>3 DEF PointsRight
  <2>5. k.ctx = ctx /\ ctx <= k.time /\ k.time \in Nat /\ Agrees(k, Marks(contexts))
    BY <2>1, <2>4 DEF Shows, Sound, Placed, Points
  <2>6. ASSUME NEW a \in Up(contexts, k.ctx) PROVE k.marks[a] = 0
    <3>1. ~contexts[a].handling
      BY <1>1, <2>5, CallersAre
    <3>2. a \in 1..ctx /\ a \in Nat
      BY <1>3, <2>5, AreNested DEF ExInv, Chain
    <3>3. a \in 1..k.time
      BY <1>4, <2>5, <3>2
    <3>4. k.marks[a] = Marks(contexts)[a]
      BY <2>5, <3>3 DEF Agrees
    <3>. QED BY <3>1, <3>2, <3>4 DEF Marks
  <2>7. k \in K1
    BY <2>6 DEF Unmarked
  <2>. HIDE DEF K1
  <2>. QED BY <2>2, <2>3, <2>4, <2>7 DEF PointsRight
<1>9. Fresh(x, v, K1)
  BY <1>4 DEF Fresh, Unmarked
<1>. HIDE DEF K1
<1>10. Throws(x, v, TRUE)
  BY <1>1, <1>2, <1>7, <1>8, <1>9 DEF Throws
<1>. QED BY <1>1, <1>2, <1>4, <1>10, CallersAre DEF ThrowsOnceMore

(* The first exception that the phasers have thrown is rethrown. *)
LEMMA ThrowsCaught ==
  ASSUME ExInv, Innermost("phasers"), ~Last(c_stack).trying, Last(c_stack).caught # <<>>,
         NEW x, x = Head(Last(c_stack).caught), NEW v, v = [exceptions[x] EXCEPT !.handled = -1],
         Deliver(x, v, FALSE)
  PROVE  ThrowsOn(x, FALSE) /\ exceptions[x].context = ctx /\ PendingIn(x, c_stack)
<1>. DEFINE d == Len(c_stack)
<1>1. PICK K : PointsRight(K, contexts, exceptions, c_stack, ctx)
  BY DEF ExInv
<1>2. /\ c_stack \in Seq(Frame) /\ d \in Nat /\ d # 0 /\ d \in 1..d
  <2>1. c_stack \in Seq(Frame)
    BY DEF ExInv, Chain
  <2>2. d \in Nat
    BY <2>1, LenProperties
  <2>3. d # 0
    BY <2>1, EmptySeq DEF Innermost
  <2>. QED BY <2>1, <2>2, <2>3
<1>3. Last(c_stack) = c_stack[d] /\ c_stack[d].kind = "phasers" /\ ~Loop(c_stack, d)
  BY DEF Last, Innermost, Loop
<1>4. /\ \A j \in 1..d : ~Loop(c_stack, j) => Framed(contexts, exceptions, c_stack, j)
      /\ \A j \in 1..d : ~Loop(c_stack, j) /\ j # d => c_stack[j].ctx < ctx
      /\ Len(exceptions) \in Nat /\ \A y \in 1..Len(exceptions) : exceptions[y] \in ExceptionRecord
      /\ ctx \in Up(contexts, ctx) /\ ctx \in Nat
  BY ThrowFacts
<1>5. c_stack[d].ctx = ctx
  BY <1>1, <1>2, <1>3, AreNested DEF Nested, ExInv
<1>6. x \in ToSet(c_stack[d].caught)
  <2>1. c_stack[d].caught \in Seq(Nat)
    <3>1. c_stack[d] \in Frame
      BY <1>2, ElementOfSeq
    <3>. QED BY <1>3, <3>1 DEF Frame, CatchFrame, RunopsFrame
  <2>2. PICK xs : xs = c_stack[d].caught /\ xs \in Seq(Nat) /\ xs # <<>>
    BY <1>3, <2>1
  <2>3. Head(xs) = xs[1] /\ 1 \in DOMAIN xs
    BY <2>2, LenProperties, EmptySeq
  <2>4. Head(xs) \in ToSet(xs)
    BY <2>3 DEF ToSet
  <2>. QED BY <1>3, <2>2, <2>4
<1>7. x \in 1..Len(exceptions) /\ exceptions[x].context = ctx /\ exceptions[x] \in ExceptionRecord
  BY <1>2, <1>3, <1>4, <1>5, <1>6 DEF Framed
<1>8. /\ v \in ExceptionRecord /\ v.handled = -1 /\ v.context = ctx /\ v.context = exceptions[x].context
      /\ v.handler = exceptions[x].handler /\ v.before = exceptions[x].before
  BY <1>7 DEF ExceptionRecord
<1>9. Start(v) = ctx
  BY <1>8 DEF Start
<1>. HIDE DEF d
<1>10. Throwable(x, v, FALSE)
  <2>1. \A j : Trying(j) => c_stack[j].ctx < ctx /\ c_stack[j].ctx <= ctx
    <3>. SUFFICES ASSUME NEW j, Trying(j) PROVE c_stack[j].ctx < ctx /\ c_stack[j].ctx <= ctx
      OBVIOUS
    <3>1. j \in 1..d /\ ~Loop(c_stack, j) /\ j # d
      BY <1>3 DEF Trying, d
    <3>2. c_stack[j].ctx < ctx /\ c_stack[j].ctx <= ctx
      BY <1>4, <3>1, ThrowFacts DEF d
    <3>. QED BY <3>2
  <2>2. \A j \in 1..Len(c_stack) :
          c_stack[j].kind = "phasers" /\ x \in ToSet(c_stack[j].caught) => j = Len(c_stack) /\ ~c_stack[j].trying
    <3>. SUFFICES ASSUME NEW j \in 1..Len(c_stack), c_stack[j].kind = "phasers", x \in ToSet(c_stack[j].caught)
                  PROVE  j = Len(c_stack) /\ ~c_stack[j].trying
      OBVIOUS
    <3>1. ~Loop(c_stack, j) /\ j \in 1..d
      BY DEF Loop, d
    <3>2. c_stack[j].ctx = ctx
      BY <1>4, <1>7, <3>1 DEF Framed
    <3>3. j = d
      BY <1>4, <3>1, <3>2
    <3>. QED BY <1>3, <3>3 DEF d
  <2>3. v.before[1] \in 0..Len(exceptions) /\ (v.before[2] => v.before[1] # 0)
    BY <1>7, <1>8 DEF ExInv, Typed
  <2>4. x \in 1..Len(exceptions) + 1
    BY <1>4, <1>7
  <2>5. InC /\ v.handled # 0
    BY <1>8 DEF InC
  <2>. QED BY <1>4, <1>8, <1>9, <2>1, <2>2, <2>3, <2>4, <2>5 DEF Throwable
<1>11. Fresh(x, v, K)
  BY <1>8 DEF Fresh
<1>12. PendingIn(x, c_stack)
  BY <1>2, <1>3, <1>6 DEF PendingIn, d
<1>. QED BY <1>1, <1>7, <1>10, <1>11, <1>12 DEF Throws, ThrowsOn

LEMMA PopAnyKeeps ==
  ASSUME Habits = {}, ExInv, PopEh
  PROVE  ExInv'
<1>1. CASE Handlers(ctx) = <<>> /\ ThrowNew("error", FALSE)
  <2>1. InOp /\ "error" \in Types /\ FALSE \in BOOLEAN
    BY DEF PopEh, Types
  <2>. QED BY <1>1, <2>1, ThrowsNew, ThrowsKeep
<1>2. CASE ~(Handlers(ctx) = <<>> /\ ThrowNew("error", FALSE))
  BY <1>2, PopKeeps DEF PopEh
<1>. QED BY <1>1, <1>2

LEMMA ThrowAnyKeeps ==
  ASSUME Habits = {}, ExInv, ThrowAny
  PROVE  ExInv'
<1>1. PICK type \in Types, op \in BOOLEAN :
        /\ InOp \/ (~op /\ \E kind \in {"phasers", "ext"} : Innermost(kind) /\ Last(c_stack).trying)
        /\ ThrowNew(type, op)
  BY DEF ThrowAny
<1>2. InOp \/ (~op /\ InC /\ Last(c_stack).trying)
  BY <1>1 DEF InC
<1>. QED BY <1>1, <1>2, ThrowsNew, ThrowsKeep

LEMMA PhasersEndKeeps ==
  ASSUME Habits = {}, ExInv, EndPhasers
  PROVE  ExInv'
<1>1. Innermost("phasers") /\ ~Last(c_stack).trying
  BY DEF EndPhasers
<1>2. CASE Last(c_stack).caught = <<>>
  BY <1>1, <1>2, EndPhasersKeeps DEF EndPhasers
<1>3. CASE Last(c_stack).caught # <<>>
  BY <1>1, <1>3, ThrowsCaught, ThrowsKeep DEF EndPhasers, ThrowsOn
<1>. QED BY <1>2, <1>3
LEMMA ExNextKeeps ==
  ASSUME Habits = {}, ExInv, [ExNext]_exVars
  PROVE  ExInv'
<1>1. CASE CallSub
  BY <1>1, CallSubKeeps
<1>2. CASE CallFromC
  BY <1>2, CallFromCKeeps
<1>3. CASE Return
  BY <1>3, ReturnKeeps
<1>4. CASE PushEh
  BY <1>4, PushEhKeeps
<1>5. CASE PopEh
  BY <1>5, PopAnyKeeps
<1>6. CASE PopUptoEh
  BY <1>6, PopUptoEhKeeps
<1>7. CASE ThrowAny
  BY <1>7, ThrowAnyKeeps
<1>8. CASE Rethrow
  BY <1>8, ThrowsAnother, ThrowsKeep DEF ThrowsOn
<1>9. CASE ThrowAgain
  BY <1>9, ThrowsAgain, ThrowsKeep DEF ThrowsOnceMore
<1>10. CASE Resume
  BY <1>10, ResumeKeeps
<1>11. CASE Finalize
  BY <1>11, FinalizeKeeps
<1>12. CASE BeginCatching
  BY <1>12, BeginCatchingKeeps
<1>13. CASE NextPhaser
  BY <1>13, NextPhaserKeeps
<1>14. CASE EndTry
  BY <1>14, EndTryKeeps
<1>15. CASE EndPhasers
  BY <1>15, PhasersEndKeeps
<1>16. CASE TaskSwitch
  BY <1>16, TaskSwitchKeeps
<1>17. CASE UNCHANGED exVars
  BY <1>17 DEF ExInv, exVars
<1>. QED BY <1>1, <1>2, <1>3, <1>4, <1>5, <1>6, <1>7, <1>8, <1>9, <1>10, <1>11, <1>12, <1>13, <1>14,
            <1>15, <1>16, <1>17 DEF ExNext

(* What the points say of the state. *)
LEMMA TargetsLive ==
  ASSUME ExInv
  PROVE  JumpTargetsLive
<1>. DEFINE loops == {i \in DOMAIN c_stack : c_stack[i].kind = "runops"}
<1>1. /\ Typed(contexts, exceptions, ctx) /\ Chain(c_stack, runloops, runloop_id_counter)
      /\ current_runloop_id = runloops[Len(runloops)] /\ current_runloop_level = Len(runloops) /\ ended # -1
  BY DEF ExInv
<1>2. DOMAIN c_stack = 1..Len(c_stack) /\ DOMAIN runloops = 1..Len(runloops) /\ Len(c_stack) \in Nat
  BY <1>1, LenProperties DEF Chain
<1>3. \A i : i \in loops <=> HasLoop(c_stack, i)
  BY <1>2 DEF HasLoop, Loop
<1>4. ToSet(runloops) = {c_stack[i].id : i \in loops}
  <2>1. ASSUME NEW r \in ToSet(runloops) PROVE \E i \in loops : r = c_stack[i].id
    <3>1. PICK j \in 1..Len(runloops) : r = runloops[j]
      BY <1>2 DEF ToSet
    <3>2. PICK i : HasLoop(c_stack, i) /\ c_stack[i].id = runloops[j]
      BY <1>1 DEF Chain
    <3>. QED BY <1>3, <3>1, <3>2
  <2>2. ASSUME NEW i \in loops PROVE c_stack[i].id \in ToSet(runloops)
    <3>1. PICK j \in 1..Len(runloops) : runloops[j] = c_stack[i].id
      BY <1>1, <1>3 DEF Chain
    <3>. QED BY <1>2, <3>1 DEF ToSet
  <2>. HIDE DEF loops
  <2>. QED BY <2>1, <2>2
<1>5. \A i, j \in loops : i < j => c_stack[i].id < c_stack[j].id
  <2>1. LoopsApart(c_stack)
    BY <1>1 DEF Chain
  <2>. QED BY <1>3, <2>1 DEF LoopsApart, HasLoop
<1>6. \A i, j \in DOMAIN runloops : i < j => runloops[i] < runloops[j]
  BY <1>1, <1>2 DEF Chain
<1>7. current_runloop_id = Last(runloops)
  BY <1>1 DEF Last
<1>. HIDE DEF loops
<1>8. ASSUME NEW c \in Callers(ctx), NEW h \in ToSet(Handlers(c))
      PROVE  IF h.frame = 0 THEN h.runloop_id \in ToSet(runloops)
             ELSE h.frame \in DOMAIN c_stack /\ c_stack[h.frame].kind # "runops"
                    /\ c_stack[h.frame].ctx = c /\ c_stack[h.frame].trying
  <2>1. PICK K : PointsRight(K, contexts, exceptions, c_stack, ctx)
    BY DEF ExInv
  <2>2. PICK k \in K : Shows(k, ctx, Marks(contexts), Len(c_stack))
    BY <2>1 DEF PointsRight
  <2>3. c \in Up(contexts, k.ctx) /\ c \in Up(contexts, ctx) /\ k.depth = Len(c_stack)
    BY <2>2, CallersAre DEF Shows
  <2>4. c \in 1..Len(contexts)
    <3>1. Up(contexts, ctx) \subseteq 1..ctx /\ ctx \in 1..Len(contexts) /\ Len(contexts) \in Nat
      BY <1>1, <2>1, AreNested DEF Chain
    <3>. QED BY <2>3, <3>1
  <2>5. PICK p \in 1..Len(contexts[c].handlers) : h = contexts[c].handlers[p]
    <3>1. contexts[c] \in ContextRecord
      BY <1>1, <2>4, CallsFields DEF Typed
    <3>2. contexts[c].handlers \in Seq(HandlerRecord)
      BY <3>1 DEF ContextRecord
    <3>3. DOMAIN contexts[c].handlers = 1..Len(contexts[c].handlers)
      BY <3>2, LenProperties
    <3>. QED BY <3>3 DEF ToSet, Handlers
  <2>6. CASE h.frame = 0
    <3>1. h.runloop_id = contexts[c].runloop
      BY <1>1, <2>4, <2>5, <2>6 DEF Typed, Homely
    <3>2. PICK q \in K : Unwound(q, c, k, contexts, c_stack)
      BY <2>1, <2>3 DEF PointsRight, Sound, Unwinds
    <3>3. Loop(c_stack, q.depth) /\ c_stack[q.depth].id = contexts[c].runloop
      BY <3>2 DEF Unwound
    <3>4. q.depth \in 1..Len(c_stack)
      BY <2>1 DEF PointsRight, Sound, Placed
    <3>5. q.depth \in loops
      BY <1>3, <3>3, <3>4 DEF HasLoop
    <3>. QED BY <1>4, <2>6, <3>1, <3>3, <3>5
  <2>7. CASE h.frame # 0
    <3>1. CatchersOf(c, contexts, c_stack)
      BY <2>1, <2>3 DEF PointsRight, Catchers
    <3>2. Catching(h.frame, c, c_stack)
      BY <2>5, <2>7, <3>1 DEF CatchersOf
    <3>. QED BY <1>2, <2>7, <3>2 DEF Catching, Loop
  <2>. QED BY <2>6, <2>7
<1>. QED BY <1>1, <1>4, <1>5, <1>6, <1>7, <1>8 DEF JumpTargetsLive, loops

LEMMA HomeIs ==
  ASSUME ExInv
  PROVE  CodeAtHome
  BY OpFacts DEF CodeAtHome
-----------------------------------------------------------------------------
(* The inductive invariant, of programs that keep to the rules: there are
   points to which control can come back, one of them where it is, and the
   state is right at each. *)
THEOREM ExInvAlways == ASSUME Habits = {} PROVE ExSpec => []ExInv
<1>1. ExInit => ExInv
  BY StartHolds
<1>2. ExInv /\ [ExNext]_exVars => ExInv'
  BY ExNextKeeps
<1>. QED BY <1>1, <1>2, PTL DEF ExSpec

(* longjmp never goes to the frame of a C function that has returned, and a
   handler finds its runloop when it is finalized. *)
THEOREM JumpTargetsLiveAlways == ASSUME Habits = {} PROVE ExSpec => []JumpTargetsLive
<1>1. ExInv => JumpTargetsLive
  BY TargetsLive
<1>. QED BY <1>1, ExInvAlways, PTL

(* The code of a sub is run by the runloop that it was called in, but for its
   handlers until they are finalized. *)
THEOREM CodeAtHomeAlways == ASSUME Habits = {} PROVE ExSpec => []CodeAtHome
<1>1. ExInv => CodeAtHome
  BY HomeIs
<1>. QED BY <1>1, ExInvAlways, PTL
-----------------------------------------------------------------------------
(* The order in which handlers have an exception: where control can come back
   to before that exception is resumed is a matter of calls and marks alone,
   without the C stack. *)
Spots == [ctx : Nat, marks : [Nat -> Nat], time : Nat]
At(q, u, m) == q.ctx = u /\ Agrees(q, m)

Standing(k, s, e) ==
  k.ctx \in 1..Len(s) /\ k.ctx <= k.time /\ k.time <= Len(s) /\ \A a \in Nat : k.marks[a] <= Len(e)

(* Control unwinds to a caller, or returns to it. *)
Falls(k, A, s) == \A c \in Up(s, k.ctx) : \E q \in A : At(q, c, [k.marks EXCEPT ![c] = 0]) /\ q.time <= c
Comes(k, A, s) ==
  \A c \in Up(s, k.ctx) : \E q \in A :
     At(q, c, k.marks) /\ q.time <= k.time /\ \A b \in Up(s, k.ctx) : c < b => q.time < b

(* It resumes any exception but one. *)
GoesOn(k, A, e, x) ==
  LET y == k.marks[k.ctx] IN
  y # 0 /\ y # x /\ Resumable(e[y]) =>
    \E q \in A : At(q, e[y].resume, [k.marks EXCEPT ![k.ctx] = Back(e[y])]) /\ q.time <= k.time

Closed(A, s, e, x) ==
  A \subseteq Spots /\ \A k \in A : Standing(k, s, e) /\ Falls(k, A, s) /\ Comes(k, A, s) /\ GoesOn(k, A, e, x)

(* It does not come to a sub that the throw of that one has left. *)
Avoids(A, s, x, v) == x # 0 => \A k \in A : \A a \in Up(s, k.ctx) : a \in Up(s, v.origin) => a <= v.context

Guided(A, s, e, u, x) == Closed(A, s, e, x) /\ Avoids(A, s, x, e[x]) /\ \E k \in A : At(k, u, Marks(s))
Guides(e) == {0} \cup {x \in 1..Len(e) : e[x].had # <<>>}

Until(A, n) == {k \in A : k.time <= n}

(* Exceptions change; none that is marked becomes one that can be resumed. *)
StayResumable(A, e, x, f, z) ==
  \A k \in A : LET y == k.marks[k.ctx] IN
    y # 0 /\ y # z /\ Resumable(f[y]) => y # x /\ Resumable(e[y]) /\ f[y].resume = e[y].resume /\ Back(f[y]) = Back(e[y])

LEMMA SpotsStay ==
  ASSUME NEW A, NEW s, NEW e, NEW x, Closed(A, s, e, x), NEW t, NEW f, NEW z, Same(s, t),
         Len(e) \in Nat, Len(f) \in Nat, Len(e) <= Len(f), NEW n \in Nat, StayResumable(Until(A, n), e, x, f, z)
  PROVE  Closed(Until(A, n), t, f, z)
<1>. DEFINE B == Until(A, n)
<1>1. /\ Calls(s) /\ Len(s) \in Nat /\ Len(t) \in Nat /\ Len(s) <= Len(t)
      /\ \A c \in 0..Len(s) : Up(t, c) = Up(s, c) /\ Up(s, c) \subseteq 1..c
  BY CallsFields, UpSame, UpBelow DEF Same
<1>2. B \subseteq A /\ A \subseteq Spots /\ \A k \in B : k.time <= n
  BY DEF Until, Closed
<1>3. \A q \in A : q.time <= n => q \in B
  BY DEF Until
<1>4. StayResumable(B, e, x, f, z)
  OBVIOUS
<1>. SUFFICES ASSUME NEW k \in B
              PROVE  Standing(k, t, f) /\ Falls(k, B, t) /\ Comes(k, B, t) /\ GoesOn(k, B, f, z)
  BY <1>2 DEF Closed
<1>. HIDE DEF B
<1>5. Standing(k, s, e) /\ Falls(k, A, s) /\ Comes(k, A, s) /\ GoesOn(k, A, e, x) /\ k \in Spots
  BY <1>2 DEF Closed
<1>6. k.ctx \in 1..Len(s) /\ k.ctx \in 0..Len(s) /\ k.ctx \in Nat /\ k.time \in Nat /\ k.ctx <= k.time /\ k.time <= n
      /\ \A q \in A : q.time \in Nat
  BY <1>1, <1>2, <1>5 DEF Standing, Spots
<1>7. Up(t, k.ctx) = Up(s, k.ctx) /\ Up(s, k.ctx) \subseteq 1..k.ctx
  BY <1>1, <1>6
<1>8. Standing(k, t, f)
  <2>1. \A a \in Nat : k.marks[a] \in Nat
    BY <1>5 DEF Spots
  <2>. QED BY <1>1, <1>5, <1>6, <2>1 DEF Standing
<1>9. \A q \in A : q.time <= k.time => q \in B
  BY <1>3, <1>6
<1>10. Falls(k, B, t)
  <2>1. ASSUME NEW c \in Up(s, k.ctx), NEW q \in A, q.time <= c PROVE q \in B
    <3>1. c \in 1..k.ctx
      BY <1>7
    <3>2. q.time <= k.time
      BY <1>6, <2>1, <3>1
    <3>. QED BY <1>9, <3>2
  <2>. QED BY <1>5, <1>7, <2>1 DEF Falls
<1>11. Comes(k, B, t)
  BY <1>5, <1>7, <1>9 DEF Comes
<1>12. GoesOn(k, B, f, z)
  BY <1>4, <1>5, <1>9 DEF GoesOn, StayResumable
<1>. QED BY <1>8, <1>10, <1>11, <1>12

LEMMA SpotAdded ==
  ASSUME NEW A, NEW s, NEW e, NEW x, Closed(A, s, e, x), NEW k \in Spots, Standing(k, s, e),
         Falls(k, A \cup {k}, s), Comes(k, A \cup {k}, s), GoesOn(k, A \cup {k}, e, x)
  PROVE  Closed(A \cup {k}, s, e, x)
<1>1. ASSUME NEW p \in A PROVE Falls(p, A \cup {k}, s) /\ Comes(p, A \cup {k}, s) /\ GoesOn(p, A \cup {k}, e, x)
  <2>1. Falls(p, A, s) /\ Comes(p, A, s) /\ GoesOn(p, A, e, x)
    BY <1>1 DEF Closed
  <2>2. Falls(p, A \cup {k}, s)
    BY <2>1 DEF Falls
  <2>3. Comes(p, A \cup {k}, s)
    BY <2>1 DEF Comes
  <2>4. GoesOn(p, A \cup {k}, e, x)
    BY <2>1 DEF GoesOn
  <2>. QED BY <2>2, <2>3, <2>4
<1>. QED BY <1>1 DEF Closed

(* Where control is. *)
Follow(A, k, s) ==
  \A q \in A : q.time <= k.time =>
     /\ Agrees(q, k.marks) => Agrees(q, Marks(s))
     /\ \A c, v : Agrees(q, [k.marks EXCEPT ![c] = v]) => Agrees(q, [Marks(s) EXCEPT ![c] = v])
Here(A, k, s, u) ==
  /\ k \in Spots /\ k.ctx = u /\ u \in Nat /\ k.time \in Nat /\ u <= k.time /\ k.time <= Len(s) /\ Len(s) \in Nat
  /\ u \in 1..Len(s) /\ Up(s, u) \subseteq 1..u /\ u \in Up(s, u)
  /\ \A a \in 1..k.time : k.marks[a] = Marks(s)[a]
  /\ \A q \in A : q.time \in Nat /\ q.ctx \in Nat
  /\ Follow(A, k, s)

LEMMA SpotIs ==
  ASSUME NEW A, NEW s, NEW e, NEW x, NEW u, Closed(A, s, e, x), NEW k \in A, At(k, u, Marks(s)), Calls(s)
  PROVE  Here(A, k, s, u)
<1>1. k \in Spots /\ Standing(k, s, e) /\ A \subseteq Spots
  BY DEF Closed
<1>2. Len(s) \in Nat
  BY CallsFields
<1>3. k.ctx = u /\ Agrees(k, Marks(s))
  BY DEF At
<1>4. u \in Nat /\ k.time \in Nat /\ u <= k.time /\ k.time <= Len(s) /\ u \in 1..Len(s) /\ u \in 0..Len(s)
  BY <1>1, <1>2, <1>3 DEF Spots, Standing
<1>5. Up(s, u) \subseteq 1..u /\ u \in Up(s, u)
  BY <1>4, UpIs, UpBelow
<1>6. \A a \in 1..k.time : k.marks[a] = Marks(s)[a]
  BY <1>3 DEF Agrees
<1>7. \A q \in A : q.time \in Nat /\ q.ctx \in Nat
  BY <1>1 DEF Spots
<1>8. k.marks \in [Nat -> Nat]
  BY <1>1 DEF Spots
<1>9. ASSUME NEW q \in A, q.time <= k.time
      PROVE  /\ Agrees(q, k.marks) => Agrees(q, Marks(s))
             /\ \A c, v : Agrees(q, [k.marks EXCEPT ![c] = v]) => Agrees(q, [Marks(s) EXCEPT ![c] = v])
  <2>1. q.time \in Nat /\ \A a \in 1..q.time : a \in 1..k.time /\ a \in Nat
    BY <1>4, <1>7, <1>9
  <2>2. \A a \in 1..q.time : k.marks[a] = Marks(s)[a]
    BY <1>6, <2>1
  <2>3. DOMAIN k.marks = Nat /\ DOMAIN Marks(s) = Nat
    BY <1>8 DEF Marks
  <2>4. ASSUME NEW c, NEW v, NEW a \in 1..q.time PROVE [k.marks EXCEPT ![c] = v][a] = [Marks(s) EXCEPT ![c] = v][a]
    BY <2>1, <2>2, <2>3
  <2>. QED BY <2>2, <2>4 DEF Agrees
<1>10. Follow(A, k, s)
  BY <1>9 DEF Follow
<1>. QED BY <1>1, <1>2, <1>3, <1>4, <1>5, <1>6, <1>7, <1>10 DEF Here

(* A call. *)
Grown(s, t, u, n) ==
  Same(s, t) /\ n = Len(s) + 1 /\ Len(t) = n /\ t[n].caller = u /\ ~t[n].handling /\ Marks(t) = Marks(s)
MarksRight(s, e) == Marks(s) \in [Nat -> Nat] /\ \A a \in Nat : Marks(s)[a] <= Len(e)

LEMMA CalledSpot ==
  ASSUME NEW A, NEW s, NEW e, NEW x, NEW u, Guided(A, s, e, u, x), Len(e) \in Nat,
         x # 0 => e[x].origin \in 1..Len(s), MarksRight(s, e), NEW t, NEW n, Grown(s, t, u, n)
  PROVE  \E B : Guided(B, t, e, n, x)
<1>. DEFINE new == [ctx |-> n, marks |-> Marks(s), time |-> n]
<1>1. Closed(A, s, e, x) /\ Avoids(A, s, x, e[x]) /\ Same(s, t) /\ Calls(s) /\ Calls(t)
  BY DEF Guided, Same, Grown
<1>2. PICK k \in A : At(k, u, Marks(s))
  BY DEF Guided
<1>3. /\ k \in Spots /\ k.ctx = u /\ u \in Nat /\ k.time \in Nat /\ u <= k.time /\ k.time <= Len(s) /\ Len(s) \in Nat
      /\ u \in 1..Len(s) /\ Up(s, u) \subseteq 1..u /\ u \in Up(s, u)
      /\ \A q \in A : q.time \in Nat /\ q.ctx \in Nat
      /\ Follow(A, k, s)
  <2>1. Here(A, k, s, u)
    BY <1>1, <1>2, SpotIs
  <2>. QED BY <2>1 DEF Here
<1>4. Until(A, Len(s)) = A
  <2>1. \A q \in A : q.time <= Len(s)
    BY <1>1 DEF Closed, Standing
  <2>. QED BY <2>1 DEF Until
<1>5. Closed(A, t, e, x)
  <2>1. StayResumable(A, e, x, e, x)
    BY DEF StayResumable
  <2>2. Len(e) <= Len(e)
    BY <1>1
  <2>. QED BY <1>1, <1>3, <1>4, <2>1, <2>2, SpotsStay
<1>6. \A c \in 0..Len(s) : Up(t, c) = Up(s, c) /\ Up(s, c) \subseteq 1..c
  BY <1>1, UpSame, UpBelow
<1>7. n \in 1..Len(t) /\ n \in Nat /\ n \notin 1..Len(s) /\ u \in 0..Len(s) /\ n = Len(s) + 1
  BY <1>3 DEF Grown
<1>8. Up(t, n) = {n} \cup Up(s, u)
  <2>1. Up(t, n) = {n} \cup Up(t, t[n].caller)
    BY <1>1, <1>7, UpIs
  <2>2. t[n].caller = u
    BY DEF Grown
  <2>. QED BY <1>6, <1>7, <2>1, <2>2
<1>9. new \in Spots /\ new.ctx = n /\ new.marks = Marks(s) /\ new.time = n
  BY <1>7 DEF Spots, MarksRight
<1>10. Marks(s)[n] = 0
  BY <1>7 DEF Marks
<1>. HIDE DEF new
<1>11. At(new, n, Marks(s)) /\ At(new, n, [Marks(s) EXCEPT ![n] = 0])
  <2>1. [Marks(s) EXCEPT ![n] = 0] = Marks(s)
    BY <1>7, <1>10 DEF MarksRight
  <2>. QED BY <1>9, <2>1 DEF At, Agrees
<1>12. Standing(new, t, e)
  <2>1. n <= n /\ n <= Len(t)
    BY <1>7 DEF Grown
  <2>. QED BY <1>7, <1>9, <2>1 DEF Standing, MarksRight
<1>13. \A c \in Up(s, u) : c \in Nat /\ c <= u /\ c < n
  BY <1>3, <1>7
<1>14. Falls(new, A \cup {new}, t)
  <2>1. ASSUME NEW c \in Up(s, u) PROVE \E q \in A : At(q, c, [Marks(s) EXCEPT ![c] = 0]) /\ q.time <= c
    <3>1. PICK q \in A : At(q, c, [k.marks EXCEPT ![c] = 0]) /\ q.time <= c
      BY <1>1, <1>3 DEF Closed, Falls
    <3>2. q.time <= k.time
      BY <1>3, <1>13, <3>1
    <3>. QED BY <1>3, <3>1, <3>2 DEF At, Follow
  <2>2. n <= n
    BY <1>7
  <2>. QED BY <1>8, <1>9, <1>11, <2>1, <2>2 DEF Falls
<1>15. Comes(new, A \cup {new}, t)
  <2>1. ASSUME NEW c \in Up(s, u)
        PROVE  \E q \in A : At(q, c, Marks(s)) /\ q.time <= n /\ \A b \in Up(t, n) : c < b => q.time < b
    <3>1. PICK q \in A : At(q, c, k.marks) /\ q.time <= k.time /\ \A b \in Up(s, u) : c < b => q.time < b
      BY <1>1, <1>3 DEF Closed, Comes
    <3>2. q.time < n /\ q.time <= n
      BY <1>3, <1>7, <3>1
    <3>. QED BY <1>3, <1>8, <3>1, <3>2 DEF At, Follow
  <2>2. \A b \in Up(t, n) : ~(n < b)
    BY <1>7, <1>8, <1>13
  <2>3. n <= n
    BY <1>7
  <2>. QED BY <1>8, <1>9, <1>11, <2>1, <2>2, <2>3 DEF Comes
<1>16. GoesOn(new, A \cup {new}, e, x)
  BY <1>9, <1>10 DEF GoesOn
<1>17. Closed(A \cup {new}, t, e, x)
  BY <1>5, <1>9, <1>12, <1>14, <1>15, <1>16, SpotAdded
<1>18. Avoids(A \cup {new}, t, x, e[x])
  <2>. SUFFICES ASSUME x # 0, NEW q \in A \cup {new}, NEW a \in Up(t, q.ctx), a \in Up(t, e[x].origin)
                PROVE  a <= e[x].context
    BY DEF Avoids
  <2>1. Up(t, e[x].origin) = Up(s, e[x].origin) /\ Up(s, e[x].origin) \subseteq 1..e[x].origin /\ e[x].origin \in 1..Len(s)
    BY <1>3, <1>6
  <2>2. ASSUME NEW p \in A, a \in Up(s, p.ctx) PROVE a <= e[x].context
    BY <1>1, <2>1, <2>2 DEF Avoids
  <2>3. CASE q \in A
    <3>1. q.ctx \in 1..Len(s)
      BY <1>1, <2>3 DEF Closed, Standing
    <3>2. q.ctx \in 0..Len(s)
      BY <1>3, <3>1
    <3>. QED BY <1>6, <2>2, <2>3, <3>2
  <2>4. CASE q = new
    <3>1. a # n
      BY <1>3, <1>7, <2>1
    <3>2. a \in Up(s, k.ctx)
      BY <1>3, <1>8, <1>9, <2>4, <3>1
    <3>. QED BY <2>2, <3>2
  <2>. QED BY <2>3, <2>4
<1>19. Guided(A \cup {new}, t, e, n, x)
  BY <1>11, <1>17, <1>18 DEF Guided, Grown
<1>. QED BY <1>19

(* What is avoided is avoided still. *)
LEMMA AvoidsStay ==
  ASSUME NEW A, NEW s, NEW e, NEW x, Closed(A, s, e, x), NEW v, Avoids(A, s, x, v), NEW t, Same(s, t), NEW w,
         x # 0 => v.origin \in 1..Len(s) /\ w.origin = v.origin /\ w.context = v.context, NEW B, B \subseteq A
  PROVE  Avoids(B, t, x, w)
<1>1. Calls(s) /\ Len(s) \in Nat /\ \A c \in 0..Len(s) : Up(t, c) = Up(s, c)
  BY CallsFields, UpSame DEF Same
<1>. SUFFICES ASSUME x # 0, NEW k \in B, NEW a \in Up(t, k.ctx), a \in Up(t, w.origin)
              PROVE  a <= w.context
  BY DEF Avoids
<1>2. k \in A /\ k.ctx \in 1..Len(s)
  BY DEF Closed, Standing
<1>3. k.ctx \in 0..Len(s) /\ v.origin \in 0..Len(s)
  BY <1>1, <1>2
<1>4. a \in Up(s, k.ctx) /\ a \in Up(s, v.origin)
  BY <1>1, <1>3
<1>. QED BY <1>2, <1>4 DEF Avoids

(* Control goes to a spot that is known. *)
LEMMA GuidedAt ==
  ASSUME NEW A, NEW s, NEW e, NEW u, NEW x, Guided(A, s, e, u, x), NEW t, NEW f, Same(s, t),
         Len(e) \in Nat, Len(f) \in Nat, Len(e) <= Len(f), StayResumable(A, e, x, f, x),
         x # 0 => e[x].origin \in 1..Len(s) /\ f[x].origin = e[x].origin /\ f[x].context = e[x].context,
         NEW q \in A, NEW v, At(q, v, Marks(t))
  PROVE  \E B : Guided(B, t, f, v, x)
<1>1. Closed(A, s, e, x) /\ Avoids(A, s, x, e[x]) /\ Len(s) \in Nat
  BY CallsFields DEF Guided, Same
<1>2. Until(A, Len(s)) = A
  <2>1. \A k \in A : k.time <= Len(s)
    BY <1>1 DEF Closed, Standing
  <2>. QED BY <2>1 DEF Until
<1>3. Closed(A, t, f, x)
  BY <1>1, <1>2, SpotsStay
<1>4. Avoids(A, t, x, f[x])
  BY <1>1, AvoidsStay
<1>. QED BY <1>3, <1>4 DEF Guided

(* A handler runs: what has the exception may resume it where it was thrown. *)
Invoked(s, e, u, t, f, c, x) ==
  /\ Same(s, t) /\ Marks(s) \in [Nat -> Nat] /\ Marks(t) = [Marks(s) EXCEPT ![c] = x] /\ c \in Up(s, u)
  /\ Len(e) \in Nat /\ Len(f) \in Nat /\ Len(e) <= Len(f) /\ x \in 1..Len(f) /\ f[x].context = c
  /\ Resumable(f[x]) => f[x].resume = u /\ Back(f[x]) = Marks(s)[c]

LEMMA InvokedSpot ==
  ASSUME NEW A, NEW s, NEW e, NEW x, NEW u, Closed(A, s, e, x), NEW k \in A, Here(A, k, s, u), NEW B, B \subseteq A,
         NEW t, NEW f, NEW c, NEW y, NEW z, Invoked(s, e, u, t, f, c, y), Closed(B, t, f, z), NEW n \in Nat, c <= n, n <= k.time,
         Until(A, n) \subseteq B,
         y # z => k \in B /\ k.time <= n,
         NEW q, q = [ctx |-> c, marks |-> [k.marks EXCEPT ![c] = y], time |-> n]
  PROVE  Closed(B \cup {q}, t, f, z) /\ At(q, c, Marks(t))
<1>1. /\ k \in Spots /\ k.ctx = u /\ u \in Nat /\ k.time \in Nat /\ u <= k.time /\ k.time <= Len(s) /\ Len(s) \in Nat
      /\ u \in 1..Len(s) /\ Up(s, u) \subseteq 1..u /\ u \in Up(s, u)
      /\ \A a \in 1..k.time : k.marks[a] = Marks(s)[a]
      /\ \A p \in A : p.time \in Nat /\ p.ctx \in Nat
  BY DEF Here
<1>2. /\ Calls(s) /\ Len(t) \in Nat /\ Len(s) <= Len(t) /\ \A d \in 0..Len(s) : Up(t, d) = Up(s, d)
  <2>1. Same(s, t)
    BY DEF Invoked
  <2>2. Calls(s) /\ Calls(t) /\ Len(s) <= Len(t)
    BY <2>1 DEF Same
  <2>. QED BY <2>1, <2>2, CallsFields, UpSame
<1>0. /\ c \in Up(s, u) /\ Len(e) \in Nat /\ Len(f) \in Nat /\ Len(e) <= Len(f) /\ y \in 1..Len(f)
      /\ Marks(s) \in [Nat -> Nat] /\ Marks(t) = [Marks(s) EXCEPT ![c] = y]
  BY DEF Invoked
<1>3. c \in 1..u /\ c \in Nat /\ c \in 1..Len(s) /\ c \in 0..Len(s) /\ u \in 0..Len(s) /\ y \in Nat /\ y # 0
  <2>1. c \in Up(s, u) /\ y \in 1..Len(f) /\ Len(f) \in Nat
    BY <1>0
  <2>2. Up(s, u) \subseteq 1..u /\ u \in 1..Len(s) /\ Len(s) \in Nat /\ u \in Nat
    BY <1>1
  <2>. HIDE DEF Up
  <2>. QED BY <2>1, <2>2
<1>4. Up(s, c) \subseteq Up(s, u) /\ Up(s, c) \subseteq 1..c /\ Up(t, c) = Up(s, c)
  BY <1>0, <1>1, <1>2, <1>3, UpBelow
<1>5. Standing(k, s, e) /\ Falls(k, A, s) /\ Comes(k, A, s) /\ DOMAIN k.marks = Nat /\ k.marks \in [Nat -> Nat]
  BY <1>1 DEF Closed, Spots
<1>6. q \in Spots /\ q.ctx = c /\ q.marks = [k.marks EXCEPT ![c] = y] /\ q.time = n
  BY <1>3, <1>5 DEF Spots
<1>7. q.marks[c] = y /\ \A a \in Nat : a # c => q.marks[a] = k.marks[a]
  BY <1>3, <1>5, <1>6
<1>8. Standing(q, t, f)
  <2>1. ASSUME NEW a \in Nat PROVE q.marks[a] <= Len(f)
    <3>1. k.marks[a] <= Len(e) /\ k.marks[a] \in Nat
      BY <1>5 DEF Standing
    <3>2. Len(e) \in Nat /\ Len(f) \in Nat /\ Len(e) <= Len(f) /\ y \in 1..Len(f)
      BY <1>0
    <3>3. q.marks[a] = y \/ q.marks[a] = k.marks[a]
      BY <1>7
    <3>. QED BY <3>1, <3>2, <3>3
  <2>2. c \in 1..Len(t) /\ n <= Len(t)
    BY <1>1, <1>2, <1>3
  <2>. QED BY <1>6, <2>1, <2>2 DEF Standing
<1>9. \A p \in A : p.time <= n => p \in B
  BY DEF Until
<1>10. ASSUME NEW d \in Up(s, c), NEW p \in A, p.time < c, Agrees(p, k.marks)
       PROVE  Agrees(p, q.marks)
  <2>1. \A a \in 1..p.time : a \in Nat /\ a # c
    BY <1>1, <1>3, <1>10
  <2>. QED BY <1>7, <1>10, <2>1 DEF Agrees
<1>11. Falls(q, B \cup {q}, t)
  <2>. SUFFICES ASSUME NEW d \in Up(s, c)
                PROVE  \E p \in B : At(p, d, [q.marks EXCEPT ![d] = 0]) /\ p.time <= d
    BY <1>4, <1>6 DEF Falls
  <2>1. PICK p \in A : At(p, d, [k.marks EXCEPT ![d] = 0]) /\ p.time <= d
    BY <1>1, <1>4, <1>5 DEF Falls
  <2>2. d \in Nat /\ d <= c
    BY <1>3, <1>4
  <2>3. p.time \in Nat /\ p.time <= n
    BY <1>1, <1>3, <2>1, <2>2
  <2>4. \A a \in 1..p.time : [k.marks EXCEPT ![d] = 0][a] = [q.marks EXCEPT ![d] = 0][a]
    <3>1. ASSUME NEW a \in 1..p.time PROVE a \in Nat /\ (a # d => a # c)
      BY <1>3, <2>1, <2>2, <2>3, <3>1
    <3>. QED BY <1>5, <1>6, <1>7, <2>2, <3>1
  <2>5. At(p, d, [q.marks EXCEPT ![d] = 0])
    BY <2>1, <2>4 DEF At, Agrees
  <2>. QED BY <1>9, <2>1, <2>3, <2>5
<1>12. Comes(q, B \cup {q}, t)
  <2>. SUFFICES ASSUME NEW d \in Up(s, c)
                PROVE  \E p \in B \cup {q} :
                          At(p, d, q.marks) /\ p.time <= n /\ \A b \in Up(s, c) : d < b => p.time < b
    BY <1>4, <1>6 DEF Comes
  <2>1. d \in Nat /\ d <= c /\ \A b \in Up(s, c) : b \in Nat /\ b <= c
    BY <1>3, <1>4
  <2>2. CASE d = c
    <3>1. At(q, d, q.marks) /\ q.time <= n
      BY <1>6, <2>2 DEF At, Agrees
    <3>2. \A b \in Up(s, c) : ~(d < b)
      BY <1>3, <2>1, <2>2
    <3>. QED BY <3>1, <3>2
  <2>3. CASE d # c
    <3>1. PICK p \in A : At(p, d, k.marks) /\ p.time <= k.time /\ \A b \in Up(s, u) : d < b => p.time < b
      BY <1>1, <1>4, <1>5 DEF Comes
    <3>2. p.time < c /\ p.time \in Nat
      <4>1. c \in Up(s, u) /\ d < c
        BY <1>3, <2>1, <2>3 DEF Invoked
      <4>. QED BY <1>1, <3>1, <4>1
    <3>3. p.time <= n
      BY <1>3, <3>2
    <3>4. At(p, d, q.marks)
      BY <1>10, <3>1, <3>2 DEF At
    <3>. QED BY <1>4, <1>9, <3>1, <3>3, <3>4
  <2>. QED BY <2>2, <2>3
<1>13. GoesOn(q, B \cup {q}, f, z)
  <2>. SUFFICES ASSUME y # z, Resumable(f[y])
                PROVE  \E p \in B : At(p, f[y].resume, [q.marks EXCEPT ![c] = Back(f[y])]) /\ p.time <= n
    BY <1>6, <1>7 DEF GoesOn
  <2>1. f[y].resume = u /\ Back(f[y]) = Marks(s)[c]
    BY DEF Invoked
  <2>2. [q.marks EXCEPT ![c] = Back(f[y])] = k.marks
    <3>1. c \in 1..k.time
      BY <1>1, <1>3
    <3>2. Back(f[y]) = k.marks[c]
      BY <1>1, <2>1, <3>1
    <3>. QED BY <1>3, <1>5, <1>6, <3>2
  <2>. QED BY <1>1, <2>1, <2>2 DEF At, Agrees
<1>14. Closed(B \cup {q}, t, f, z)
  BY <1>6, <1>8, <1>11, <1>12, <1>13, SpotAdded
<1>15. At(q, c, Marks(t))
  <2>1. \A a \in 1..n : a \in Nat /\ a \in 1..k.time
    BY <1>1
  <2>2. \A a \in 1..n : q.marks[a] = Marks(t)[a]
    BY <1>0, <1>1, <1>3, <1>7, <2>1
  <2>. QED BY <1>6, <2>2 DEF At, Agrees
<1>. QED BY <1>14, <1>15

LEMMA SpotsAll ==
  ASSUME NEW A, NEW s, NEW e, NEW x, Closed(A, s, e, x), Len(s) \in Nat
  PROVE  Until(A, Len(s)) = A /\ \A n : Until(A, n) \subseteq A
<1>1. \A q \in A : q.time <= Len(s)
  BY DEF Closed, Standing
<1>. QED BY <1>1 DEF Until

(* Control is in a sub that another exception may come to. *)
LEMMA RunsOther ==
  ASSUME NEW A, NEW s, NEW e, NEW u, NEW z, Guided(A, s, e, u, z), NEW t, NEW f, NEW c, NEW y, Invoked(s, e, u, t, f, c, y),
         y # z, StayResumable(A, e, z, f, z),
         z # 0 => e[z].origin \in 1..Len(s) /\ f[z].origin = e[z].origin /\ f[z].context = e[z].context
  PROVE  \E B : Guided(B, t, f, c, z)
<1>1. Closed(A, s, e, z) /\ Avoids(A, s, z, e[z]) /\ Same(s, t) /\ Calls(s) /\ Len(s) \in Nat
      /\ Len(e) \in Nat /\ Len(f) \in Nat /\ Len(e) <= Len(f)
  BY CallsFields DEF Guided, Invoked, Same
<1>2. PICK k \in A : At(k, u, Marks(s))
  BY DEF Guided
<1>3. Here(A, k, s, u)
  BY <1>1, <1>2, SpotIs
<1>4. Until(A, Len(s)) = A
  BY <1>1, SpotsAll
<1>5. Closed(A, t, f, z)
  BY <1>1, <1>4, SpotsStay
<1>6. Avoids(A, t, z, f[z])
  BY <1>1, AvoidsStay
<1>7. k.time \in Nat /\ k.ctx = u /\ c \in Up(s, u) /\ c <= k.time /\ u \in 1..Len(s) /\ u \in 0..Len(s) /\ c \in Nat
      /\ c \in 0..Len(s)
  <2>1. k.time \in Nat /\ k.ctx = u /\ u <= k.time /\ u \in 1..Len(s) /\ Up(s, u) \subseteq 1..u
    BY <1>3 DEF Here
  <2>2. c \in Up(s, u)
    BY DEF Invoked
  <2>. QED BY <1>1, <2>1, <2>2
<1>. DEFINE q == [ctx |-> c, marks |-> [k.marks EXCEPT ![c] = y], time |-> k.time]
<1>8. Until(A, k.time) \subseteq A /\ k.time <= k.time
  BY <1>7 DEF Until
<1>9. Closed(A \cup {q}, t, f, z) /\ At(q, c, Marks(t))
  BY <1>1, <1>3, <1>5, <1>7, <1>8, InvokedSpot
<1>10. Avoids(A \cup {q}, t, z, f[z])
  <2>1. \A d \in 0..Len(s) : Up(t, d) = Up(s, d)
    BY <1>1, UpSame
  <2>2. Up(t, c) \subseteq Up(t, k.ctx)
    BY <1>1, <1>7, <2>1, UpBelow
  <2>3. q.ctx = c
    OBVIOUS
  <2>. HIDE DEF q
  <2>. QED BY <1>6, <2>2, <2>3 DEF Avoids
<1>. QED BY <1>9, <1>10 DEF Guided

(* Control is in the sub that has the exception, and all that it can come back
   to are its callers and what they call. *)
LEMMA RunsIt ==
  ASSUME NEW A, NEW s, NEW e, NEW u, Guided(A, s, e, u, 0), NEW t, NEW f, NEW c, NEW x, Invoked(s, e, u, t, f, c, x),
         StayResumable(A, e, 0, f, x)
  PROVE  \E B : Guided(B, t, f, c, x)
<1>1. Closed(A, s, e, 0) /\ Same(s, t) /\ Calls(s) /\ Len(s) \in Nat
      /\ Len(e) \in Nat /\ Len(f) \in Nat /\ Len(e) <= Len(f)
  BY CallsFields DEF Guided, Invoked, Same
<1>2. PICK k \in A : At(k, u, Marks(s))
  BY DEF Guided
<1>3. Here(A, k, s, u)
  BY <1>1, <1>2, SpotIs
<1>4. c \in Nat /\ c <= k.time /\ c <= c
  <2>1. k.time \in Nat /\ u <= k.time /\ u \in 1..Len(s) /\ Up(s, u) \subseteq 1..u
    BY <1>3 DEF Here
  <2>2. c \in Up(s, u)
    BY DEF Invoked
  <2>. QED BY <1>1, <2>1, <2>2
<1>5. Until(A, c) \subseteq A /\ StayResumable(Until(A, c), e, 0, f, x)
  BY DEF Until, StayResumable
<1>6. Closed(Until(A, c), t, f, x)
  BY <1>1, <1>4, <1>5, SpotsStay
<1>. DEFINE q == [ctx |-> c, marks |-> [k.marks EXCEPT ![c] = x], time |-> c]
<1>7. Closed(Until(A, c) \cup {q}, t, f, x) /\ At(q, c, Marks(t))
  BY <1>1, <1>3, <1>4, <1>5, <1>6, InvokedSpot
<1>8. Avoids(Until(A, c) \cup {q}, t, x, f[x])
  <2>1. f[x].context = c
    BY DEF Invoked
  <2>2. \A p \in Until(A, c) \cup {q} : p.time <= c
    BY <1>4 DEF Until
  <2>3. Calls(t) /\ Len(t) \in Nat
    BY <1>1, CallsFields DEF Same
  <2>. HIDE DEF q
  <2>4. ASSUME NEW p \in Until(A, c) \cup {q}, NEW a \in Up(t, p.ctx) PROVE a <= c
    <3>1. p.ctx \in 1..Len(t) /\ p.ctx <= p.time /\ p \in Spots
      BY <1>7 DEF Closed, Standing
    <3>2. p.ctx \in Nat /\ p.time \in Nat /\ p.time <= c
      BY <2>2, <3>1 DEF Spots
    <3>3. p.ctx \in 0..Len(t)
      BY <2>3, <3>1
    <3>4. Up(t, p.ctx) \subseteq 1..p.ctx
      BY <2>3, <3>3, UpBelow
    <3>. QED BY <1>4, <3>1, <3>2, <3>4
  <2>. QED BY <2>1, <2>4 DEF Avoids
<1>. QED BY <1>7, <1>8 DEF Guided

(* C code of a caller has it. *)
Left(s, e, u, y, f, x) ==
  /\ y = 0 => f[x].origin = u
  /\ y # 0 => e[x].origin = f[x].origin /\ e[x].context \in Up(s, u) /\ e[x].context \in Up(s, f[x].origin)

LEMMA CatchesIt ==
  ASSUME NEW A, NEW s, NEW e, NEW u, NEW y, Guided(A, s, e, u, y), NEW x, y \in {0, x}, NEW t, NEW f, Same(s, t), Marks(t) = Marks(s),
         Len(e) \in Nat, Len(f) \in Nat, Len(e) <= Len(f), StayResumable(A, e, y, f, x),
         NEW c \in Up(s, u), f[x].context = c, f[x].origin \in 1..Len(s), Left(s, e, u, y, f, x)
  PROVE  \E B : Guided(B, t, f, c, x)
<1>1. Closed(A, s, e, y) /\ Avoids(A, s, y, e[y]) /\ Calls(s) /\ Len(s) \in Nat
  BY CallsFields DEF Guided, Same
<1>2. PICK k \in A : At(k, u, Marks(s))
  BY DEF Guided
<1>3. Here(A, k, s, u)
  BY <1>1, <1>2, SpotIs
<1>4. k.ctx = u /\ u \in 0..Len(s) /\ Follow(A, k, s) /\ Up(s, u) \subseteq 1..u /\ k.time <= Len(s) /\ k.time \in Nat
      /\ \A q \in A : q.time \in Nat
  <2>1. u \in 1..Len(s)
    BY <1>3 DEF Here
  <2>2. u \in 0..Len(s)
    BY <1>1, <2>1
  <2>. QED BY <1>3, <2>2 DEF Here
<1>5. PICK q \in A : At(q, c, k.marks) /\ q.time <= k.time /\ \A b \in Up(s, u) : c < b => q.time < b
  BY <1>1, <1>4 DEF Closed, Comes
<1>6. At(q, c, Marks(t)) /\ q.time \in Nat
  BY <1>4, <1>5 DEF At, Follow
<1>7. Until(A, q.time) \subseteq A /\ StayResumable(Until(A, q.time), e, y, f, x)
  BY DEF Until, StayResumable
<1>8. Closed(Until(A, q.time), t, f, x)
  BY <1>1, <1>6, <1>7, SpotsStay
<1>9. q \in Until(A, q.time)
  BY <1>6 DEF Until
<1>10. \A d \in 0..Len(s) : Up(t, d) = Up(s, d)
  BY UpSame
<1>11. Avoids(Until(A, q.time), t, x, f[x])
  <2>. SUFFICES ASSUME NEW p \in Until(A, q.time), NEW a \in Up(t, p.ctx), a \in Up(t, f[x].origin)
                PROVE  a <= c
    BY DEF Avoids
  <2>1. p \in A /\ p.time <= q.time /\ p.time \in Nat /\ p.ctx \in 1..Len(s) /\ p.ctx <= p.time
    BY <1>1, <1>4 DEF Until, Closed, Standing
  <2>2. p.ctx \in 0..Len(s) /\ f[x].origin \in 0..Len(s) /\ p.ctx \in Nat
    BY <1>1, <2>1
  <2>3. a \in Up(s, p.ctx) /\ a \in Up(s, f[x].origin) /\ a \in Nat /\ a <= p.ctx
    <3>1. Up(s, p.ctx) \subseteq 1..p.ctx
      BY <1>1, <2>2, UpBelow
    <3>. QED BY <1>10, <2>2, <3>1
  <2>4. a \in Up(s, u)
    <3>1. CASE y = 0
      BY <2>3, <3>1 DEF Left
    <3>2. CASE y # 0
      <4>1. y = x /\ e[x].origin = f[x].origin /\ e[x].context \in Up(s, u) /\ e[x].context \in Up(s, f[x].origin)
        BY <3>2 DEF Left
      <4>2. a <= e[x].context
        BY <1>1, <2>1, <2>3, <3>2, <4>1 DEF Avoids
      <4>3. a \in Up(s, e[x].context)
        BY <1>1, <2>2, <2>3, <4>1, <4>2, UpBelow
      <4>. QED BY <1>1, <1>4, <4>1, <4>3, UpBelow
    <3>. QED BY <3>1, <3>2
  <2>5. ~(c < a)
    BY <1>5, <1>6, <2>1, <2>2, <2>3, <2>4
  <2>6. c \in Nat
    BY <1>4
  <2>. QED BY <2>3, <2>5, <2>6
<1>. QED BY <1>6, <1>8, <1>9, <1>11 DEF Guided

(* Where nothing is handled, anything may be thrown again. *)
Plain(A, s) == {k \in A : \A a \in Up(s, k.ctx) : k.marks[a] = 0}

LEMMA PlainStay ==
  ASSUME NEW A, NEW s, NEW e, NEW u, NEW x, Guided(A, s, e, u, x), Calls(s), \A a \in Up(s, u) : Marks(s)[a] = 0
  PROVE  Guided(Plain(A, s), s, e, u, x) /\ \A k \in Plain(A, s) : k.marks[k.ctx] = 0
<1>. DEFINE B == Plain(A, s)
<1>1. B \subseteq A /\ Closed(A, s, e, x) /\ Avoids(A, s, x, e[x]) /\ A \subseteq Spots /\ Len(s) \in Nat
  BY CallsFields DEF Plain, Guided, Closed
<1>2. ASSUME NEW k \in A
      PROVE  /\ k.ctx \in 1..Len(s) /\ k.ctx \in 0..Len(s) /\ k.ctx \in Nat /\ k.time \in Nat /\ k.ctx <= k.time
             /\ k.marks \in [Nat -> Nat] /\ Up(s, k.ctx) \subseteq 1..k.ctx /\ k.ctx \in Up(s, k.ctx)
             /\ \A c \in Up(s, k.ctx) : Up(s, c) \subseteq Up(s, k.ctx)
  <2>1. k.ctx \in 1..Len(s) /\ k.ctx <= k.time /\ k.ctx \in Nat /\ k.time \in Nat /\ k.marks \in [Nat -> Nat]
    BY <1>1 DEF Closed, Standing, Spots
  <2>2. 1..Len(s) \subseteq 0..Len(s)
    BY <1>1
  <2>3. k.ctx \in 0..Len(s)
    BY <2>1, <2>2, Zenon
  <2>4. k.ctx \in Up(s, k.ctx)
    BY <2>1, UpIs
  <2>5. Up(s, k.ctx) \subseteq 1..k.ctx /\ \A c \in Up(s, k.ctx) : Up(s, c) \subseteq Up(s, k.ctx)
    BY <2>3, UpBelow
  <2>. QED BY <2>1, <2>3, <2>4, <2>5
<1>3. ASSUME NEW k \in B PROVE k \in A /\ \A a \in Up(s, k.ctx) : k.marks[a] = 0
  BY DEF Plain
<1>4. ASSUME NEW q \in A, NEW m, Agrees(q, m), \A a \in Up(s, q.ctx) : m[a] = 0 PROVE q \in B
  <2>1. \A a \in Up(s, q.ctx) : a \in 1..q.time
    <3>1. q.ctx \in Nat /\ q.time \in Nat /\ q.ctx <= q.time /\ Up(s, q.ctx) \subseteq 1..q.ctx
      BY <1>2
    <3>. QED BY <3>1
  <2>. QED BY <1>4, <2>1 DEF Agrees, Plain
<1>5. \A k \in B : k.marks[k.ctx] = 0
  BY <1>2, <1>3
<1>. HIDE DEF B
<1>6. ASSUME NEW k \in B PROVE Standing(k, s, e) /\ Falls(k, B, s) /\ Comes(k, B, s) /\ GoesOn(k, B, e, x)
  <2>1. Standing(k, s, e) /\ Falls(k, A, s) /\ Comes(k, A, s)
    BY <1>1 DEF Closed
  <2>2. Falls(k, B, s)
    <3>. SUFFICES ASSUME NEW c \in Up(s, k.ctx) PROVE \E q \in B : At(q, c, [k.marks EXCEPT ![c] = 0]) /\ q.time <= c
      BY DEF Falls
    <3>1. PICK q \in A : At(q, c, [k.marks EXCEPT ![c] = 0]) /\ q.time <= c
      BY <2>1 DEF Falls
    <3>2. \A a \in Up(s, c) : [k.marks EXCEPT ![c] = 0][a] = 0
      <4>1. ASSUME NEW a \in Up(s, c) PROVE k.marks[a] = 0 /\ a \in Nat
        <5>1. Up(s, c) \subseteq Up(s, k.ctx) /\ Up(s, k.ctx) \subseteq 1..k.ctx
          BY <1>2, <1>3
        <5>2. a \in 1..k.ctx
          BY <5>1
        <5>. QED BY <1>3, <5>1, <5>2
      <4>2. k.marks \in [Nat -> Nat]
        BY <1>2, <1>3
      <4>. QED BY <4>1, <4>2
    <3>. QED BY <1>4, <3>1, <3>2 DEF At
  <2>3. Comes(k, B, s)
    <3>. SUFFICES ASSUME NEW c \in Up(s, k.ctx)
                  PROVE  \E q \in B : At(q, c, k.marks) /\ q.time <= k.time /\ \A b \in Up(s, k.ctx) : c < b => q.time < b
      BY DEF Comes
    <3>1. PICK q \in A : At(q, c, k.marks) /\ q.time <= k.time /\ \A b \in Up(s, k.ctx) : c < b => q.time < b
      BY <2>1 DEF Comes
    <3>2. \A a \in Up(s, c) : k.marks[a] = 0
      BY <1>2, <1>3
    <3>. QED BY <1>4, <3>1, <3>2 DEF At
  <2>4. GoesOn(k, B, e, x)
    BY <1>5 DEF GoesOn
  <2>. QED BY <2>1, <2>2, <2>3, <2>4
<1>7. Closed(B, s, e, x) /\ Avoids(B, s, x, e[x])
  BY <1>1, <1>6 DEF Closed, Avoids
<1>8. \E k \in B : At(k, u, Marks(s))
  <2>1. PICK k \in A : At(k, u, Marks(s))
    BY DEF Guided
  <2>. QED BY <1>4, <2>1 DEF At
<1>9. Guided(B, s, e, u, x)
  BY <1>7, <1>8 DEF Guided
<1>. QED BY <1>5, <1>9 DEF B
-----------------------------------------------------------------------------
(* The handlers of a context are numbered as they are pushed. *)
Numbered(v) ==
  \A i \in 1..Len(v.handlers) :
    v.handlers[i].n <= v.pushed /\ \A j \in 1..Len(v.handlers) : j < i => v.handlers[j].n > v.handlers[i].n

Fewer(v, w) ==
  w.pushed = v.pushed /\ \E d \in Nat : /\ Len(w.handlers) + d = Len(v.handlers)
                                      /\ \A p \in 1..Len(w.handlers) : w.handlers[p] = v.handlers[p + d]
More(v, w) ==
  /\ w.pushed = v.pushed + 1 /\ Len(w.handlers) = Len(v.handlers) + 1 /\ w.handlers[1].n = w.pushed
  /\ \A p \in 1..Len(w.handlers) : p # 1 => w.handlers[p] = v.handlers[p - 1]

LEMMA HandlerFields ==
  ASSUME NEW v \in ContextRecord
  PROVE  /\ Len(v.handlers) \in Nat /\ v.pushed \in Nat /\ v.handlers \in Seq(HandlerRecord)
         /\ \A i \in 1..Len(v.handlers) : v.handlers[i] \in HandlerRecord /\ v.handlers[i].n \in Nat
<1>1. v.handlers \in Seq(HandlerRecord) /\ v.pushed \in Nat
  BY DEF ContextRecord
<1>2. Len(v.handlers) \in Nat /\ \A i \in 1..Len(v.handlers) : v.handlers[i] \in HandlerRecord
  BY <1>1, LenProperties, ElementOfSeq
<1>3. \A h \in HandlerRecord : h.n \in Nat
  BY DEF HandlerRecord
<1>. QED BY <1>1, <1>2, <1>3

LEMMA NumberedToo ==
  ASSUME NEW v \in ContextRecord, NEW w \in ContextRecord, Numbered(v), Fewer(v, w) \/ More(v, w)
  PROVE  Numbered(w)
<1>1. /\ Len(v.handlers) \in Nat /\ Len(w.handlers) \in Nat /\ v.pushed \in Nat
      /\ \A i \in 1..Len(v.handlers) : v.handlers[i].n \in Nat
  BY HandlerFields
<1>2. CASE Fewer(v, w)
  <2>1. PICK d \in Nat : Len(w.handlers) + d = Len(v.handlers) /\ \A p \in 1..Len(w.handlers) : w.handlers[p] = v.handlers[p + d]
    BY <1>2 DEF Fewer
  <2>2. \A p \in 1..Len(w.handlers) : p + d \in 1..Len(v.handlers) /\ \A j \in 1..Len(w.handlers) : j < p => j + d < p + d
    BY <1>1, <2>1
  <2>. QED BY <1>2, <2>1, <2>2 DEF Numbered, Fewer
<1>3. CASE More(v, w)
  <2>1. w.pushed = v.pushed + 1 /\ Len(w.handlers) = Len(v.handlers) + 1 /\ w.handlers[1].n = w.pushed
        /\ \A p \in 1..Len(w.handlers) : p # 1 => w.handlers[p] = v.handlers[p - 1]
    BY <1>3 DEF More
  <2>2. \A p \in 1..Len(w.handlers) : p # 1 => p - 1 \in 1..Len(v.handlers) /\ w.handlers[p].n <= v.pushed /\ w.handlers[p].n \in Nat
    BY <1>1, <2>1 DEF Numbered
  <2>. SUFFICES ASSUME NEW i \in 1..Len(w.handlers)
                PROVE  w.handlers[i].n <= w.pushed /\ \A j \in 1..Len(w.handlers) : j < i => w.handlers[j].n > w.handlers[i].n
    BY DEF Numbered
  <2>3. CASE i = 1
    <3>1. \A j \in 1..Len(w.handlers) : ~(j < i)
      BY <2>3
    <3>. QED BY <1>1, <2>1, <2>3, <3>1
  <2>4. CASE i # 1
    <3>1. w.handlers[i].n <= w.pushed
      BY <1>1, <2>1, <2>2, <2>4
    <3>2. ASSUME NEW j \in 1..Len(w.handlers), j < i PROVE w.handlers[j].n > w.handlers[i].n
      <4>1. CASE j = 1
        BY <1>1, <2>1, <2>2, <2>4, <4>1
      <4>2. CASE j # 1
        <5>1. i - 1 \in 1..Len(v.handlers) /\ j - 1 \in 1..Len(v.handlers) /\ j - 1 < i - 1
          BY <1>1, <2>1, <2>4, <3>2, <4>2
        <5>. QED BY <2>1, <2>4, <4>2, <5>1 DEF Numbered
      <4>. QED BY <4>1, <4>2
    <3>. QED BY <3>1, <3>2
  <2>. QED BY <2>3, <2>4
<1>. QED BY <1>2, <1>3

(* What is right of an exception that handlers have had: they are of the subs
   from the throw to the one that had it last, there they are the oldest of
   those that the search has passed, and what it has passed had it, or takes
   it not. *)
LastHad(v) == v.had[Len(v.had)]
Had(v, c, h) == \E i \in 1..Len(v.had) : v.had[i][1] = c /\ v.had[i][2] <= h.n
Passed(v, c, h) == v.type \in h.takes => Had(v, c, h)

HadBelow(s, v) ==
  \A i \in 1..Len(v.had) : v.had[i][1] \in 1..Len(s) /\ v.context <= v.had[i][1] /\ v.had[i][2] <= s[v.had[i][1]].pushed
HadHere(s, v) ==
  LET hs == s[v.context].handlers IN
  \A i \in 1..Len(hs) : IF i <= Len(hs) - v.handlers_left THEN hs[i].n >= LastHad(v)[2]
                        ELSE \A j \in 1..Len(v.had) : v.had[j] # <<v.context, hs[i].n>>
HadInside(s, v) ==
  \A c \in Up(s, v.origin) : c > v.context => \A i \in 1..Len(s[c].handlers) : Passed(v, c, s[c].handlers[i])

HadRight(s, v) ==
  /\ v.origin \in 1..Len(s) /\ v.context \in Up(s, v.origin) /\ v.context \in 1..Len(s)
  /\ IsInjective(v.had) /\ LastHad(v)[1] = v.context
  /\ HadBelow(s, v) /\ HadHere(s, v) /\ HadInside(s, v)

(* Handlers are deleted, of any sub, and one is pushed, of the current one;
   subs are called. *)
Rearranged(s, t, u) ==
  /\ Same(s, t)
  /\ \A c \in 1..Len(s) : Fewer(s[c], t[c]) \/ (c = u /\ More(s[c], t[c]))
  /\ \A c \in 1..Len(t) : c \in 1..Len(s) \/ t[c].handlers = <<>>

LEMMA NumberedStay ==
  ASSUME NEW s, NEW t, NEW u, Rearranged(s, t, u), \A c \in 1..Len(s) : Numbered(s[c])
  PROVE  \A c \in 1..Len(t) : Numbered(t[c])
<1>1. Calls(s) /\ Calls(t) /\ Len(s) <= Len(t) /\ Len(s) \in Nat /\ Len(t) \in Nat
  BY CallsFields DEF Rearranged, Same
<1>2. (\A c \in 1..Len(s) : s[c] \in ContextRecord) /\ \A c \in 1..Len(t) : t[c] \in ContextRecord
  BY <1>1, CallsFields
<1>3. ASSUME NEW c \in 1..Len(s) PROVE Numbered(t[c])
  <2>1. c \in 1..Len(t)
    BY <1>1
  <2>2. Fewer(s[c], t[c]) \/ More(s[c], t[c])
    BY DEF Rearranged
  <2>. QED BY <1>2, <2>1, <2>2, NumberedToo
<1>4. ASSUME NEW c \in 1..Len(t), c \notin 1..Len(s) PROVE Numbered(t[c])
  <2>1. t[c].handlers = <<>>
    BY <1>4 DEF Rearranged
  <2>. QED BY <2>1 DEF Numbered
<1>. QED BY <1>3, <1>4

LEMMA HadFields ==
  ASSUME NEW v \in ExceptionRecord
  PROVE  /\ Len(v.had) \in Nat /\ v.had \in Seq(Nat \X Nat) /\ v.context \in Nat /\ v.origin \in Nat /\ v.handlers_left \in Int
         /\ v.had # <<>> => Len(v.had) \in 1..Len(v.had)
         /\ \A i \in 1..Len(v.had) : v.had[i] \in Nat \X Nat /\ v.had[i][1] \in Nat /\ v.had[i][2] \in Nat
                                     /\ v.had[i] = <<v.had[i][1], v.had[i][2]>>
<1>1. v.had \in Seq(Nat \X Nat) /\ v.context \in Nat /\ v.origin \in Nat /\ v.handlers_left \in Int
  BY DEF ExceptionRecord
<1>2. Len(v.had) \in Nat /\ (v.had # <<>> => Len(v.had) # 0) /\ \A i \in 1..Len(v.had) : v.had[i] \in Nat \X Nat
  BY <1>1, LenProperties, ElementOfSeq, EmptySeq
<1>3. \A g \in Nat \X Nat : g[1] \in Nat /\ g[2] \in Nat /\ g = <<g[1], g[2]>>
  OBVIOUS
<1>. QED BY <1>1, <1>2, <1>3

LEMMA HadStays ==
  ASSUME NEW s, NEW t, NEW u, Rearranged(s, t, u), \A c \in 1..Len(s) : Numbered(s[c]),
         NEW v \in ExceptionRecord, v.had # <<>>, HadRight(s, v), u \in Up(s, v.origin) => u <= v.context
  PROVE  HadRight(t, v)
<1>1. Same(s, t) /\ Calls(s) /\ Calls(t) /\ Len(s) <= Len(t) /\ Len(s) \in Nat /\ Len(t) \in Nat
  BY CallsFields DEF Rearranged, Same
<1>2. ASSUME NEW c \in 1..Len(s)
      PROVE  /\ c \in 1..Len(t) /\ s[c] \in ContextRecord /\ t[c] \in ContextRecord
             /\ Fewer(s[c], t[c]) \/ (c = u /\ More(s[c], t[c]))
             /\ Len(s[c].handlers) \in Nat /\ Len(t[c].handlers) \in Nat /\ s[c].pushed \in Nat /\ t[c].pushed \in Nat
             /\ \A i \in 1..Len(s[c].handlers) : s[c].handlers[i].n \in Nat
  <2>1. c \in 1..Len(t)
    BY <1>1
  <2>2. s[c] \in ContextRecord /\ t[c] \in ContextRecord
    BY <1>1, <2>1, CallsFields
  <2>. QED BY <2>1, <2>2, HandlerFields DEF Rearranged
<1>3. /\ v.origin \in 1..Len(s) /\ v.context \in Up(s, v.origin) /\ v.context \in 1..Len(s)
      /\ IsInjective(v.had) /\ LastHad(v)[1] = v.context
      /\ HadBelow(s, v) /\ HadHere(s, v) /\ HadInside(s, v)
  BY DEF HadRight
<1>4. /\ Len(v.had) \in Nat /\ v.context \in Nat /\ v.handlers_left \in Int /\ Len(v.had) \in 1..Len(v.had)
      /\ \A i \in 1..Len(v.had) : v.had[i][1] \in Nat /\ v.had[i][2] \in Nat
  BY HadFields
<1>5. v.origin \in 0..Len(s) /\ Up(t, v.origin) = Up(s, v.origin) /\ Up(s, v.origin) \subseteq 1..v.origin
      /\ v.origin \in 1..Len(t) /\ v.context \in 1..Len(t)
  BY <1>1, <1>3, UpSame, UpBelow
<1>6. HadBelow(t, v)
  <2>. SUFFICES ASSUME NEW i \in 1..Len(v.had)
                PROVE  v.had[i][1] \in 1..Len(t) /\ v.context <= v.had[i][1] /\ v.had[i][2] <= t[v.had[i][1]].pushed
    BY DEF HadBelow
  <2>. DEFINE c == v.had[i][1]
  <2>1. c \in 1..Len(s) /\ v.context <= c /\ v.had[i][2] <= s[c].pushed
    BY <1>3 DEF HadBelow
  <2>2. s[c].pushed <= t[c].pushed
    <3>1. Fewer(s[c], t[c]) \/ More(s[c], t[c])
      BY <1>2, <2>1
    <3>2. t[c].pushed = s[c].pushed \/ t[c].pushed = s[c].pushed + 1
      BY <3>1 DEF Fewer, More
    <3>. QED BY <1>2, <2>1, <3>2
  <2>. QED BY <1>2, <1>4, <2>1, <2>2
<1>7. HadHere(t, v)
  <2>. DEFINE c == v.context
              hs == s[c].handlers
              ht == t[c].handlers
              OldHad(i) == \A j \in 1..Len(v.had) : v.had[j] # <<c, hs[i].n>>
  <2>1. \A i \in 1..Len(hs) : IF i <= Len(hs) - v.handlers_left THEN hs[i].n >= LastHad(v)[2] ELSE OldHad(i)
    BY <1>3 DEF HadHere
  <2>2. c \in 1..Len(s) /\ Len(hs) \in Nat /\ Len(ht) \in Nat
    BY <1>2, <1>3
  <2>. SUFFICES ASSUME NEW i \in 1..Len(ht)
                PROVE  IF i <= Len(ht) - v.handlers_left THEN ht[i].n >= LastHad(v)[2]
                       ELSE \A j \in 1..Len(v.had) : v.had[j] # <<c, ht[i].n>>
    BY DEF HadHere
  <2>. HIDE DEF hs, ht
  <2>3. CASE Fewer(s[c], t[c])
    <3>1. PICK d \in Nat : Len(ht) + d = Len(hs) /\ \A p \in 1..Len(ht) : ht[p] = hs[p + d]
      BY <2>3 DEF Fewer, hs, ht
    <3>2. i + d \in 1..Len(hs) /\ ht[i] = hs[i + d] /\ (i <= Len(ht) - v.handlers_left <=> i + d <= Len(hs) - v.handlers_left)
      BY <1>4, <2>2, <3>1
    <3>. QED BY <2>1, <3>2
  <2>4. CASE More(s[c], t[c])
    <3>1. t[c].pushed = s[c].pushed + 1 /\ Len(ht) = Len(hs) + 1 /\ ht[1].n = t[c].pushed
          /\ \A p \in 1..Len(ht) : p # 1 => ht[p] = hs[p - 1]
      BY <2>4 DEF More, hs, ht
    <3>2. CASE i = 1
      <4>1. ASSUME NEW j \in 1..Len(v.had), v.had[j][1] = c PROVE v.had[j][2] < ht[i].n
        <5>1. v.had[j][2] <= s[c].pushed /\ v.had[j][2] \in Nat /\ s[c].pushed \in Nat
          BY <1>2, <1>3, <1>4, <2>2, <4>1 DEF HadBelow
        <5>. QED BY <3>1, <3>2, <5>1
      <4>2. ht[i].n \in Nat
        BY <1>2, <2>2, <3>1, <3>2
      <4>3. LastHad(v)[2] < ht[i].n /\ LastHad(v)[2] \in Nat
        BY <1>3, <1>4, <4>1 DEF LastHad
      <4>4. ASSUME NEW j \in 1..Len(v.had), v.had[j] = <<c, ht[i].n>> PROVE FALSE
        <5>1. v.had[j][1] = c /\ v.had[j][2] = ht[i].n
          BY <4>4
        <5>2. v.had[j][2] < ht[i].n
          BY <4>1, <5>1
        <5>. QED BY <4>2, <5>1, <5>2
      <4>. QED BY <4>2, <4>3, <4>4
    <3>3. CASE i # 1
      <4>1. i - 1 \in 1..Len(hs) /\ ht[i] = hs[i - 1] /\ (i <= Len(ht) - v.handlers_left <=> i - 1 <= Len(hs) - v.handlers_left)
        BY <1>4, <2>2, <3>1, <3>3
      <4>. QED BY <2>1, <4>1
    <3>. QED BY <3>2, <3>3
  <2>. QED BY <1>2, <2>2, <2>3, <2>4
<1>8. HadInside(t, v)
  <2>. SUFFICES ASSUME NEW c \in Up(s, v.origin), c > v.context, NEW i \in 1..Len(t[c].handlers)
                PROVE  Passed(v, c, t[c].handlers[i])
    BY <1>5 DEF HadInside
  <2>1. c \in 1..Len(s)
    BY <1>1, <1>3, <1>5
  <2>2. c # u
    BY <1>1, <1>4, <2>1
  <2>3. PICK d \in Nat : Len(t[c].handlers) + d = Len(s[c].handlers)
                         /\ \A p \in 1..Len(t[c].handlers) : t[c].handlers[p] = s[c].handlers[p + d]
    BY <1>2, <2>1, <2>2 DEF Fewer
  <2>4. i + d \in 1..Len(s[c].handlers)
    BY <1>2, <2>1, <2>3
  <2>. QED BY <1>3, <2>3, <2>4 DEF HadInside
<1>. QED BY <1>3, <1>5, <1>6, <1>7, <1>8 DEF HadRight
-----------------------------------------------------------------------------
(* Where the search finds nothing, no handler is left that may have the
   exception: of those there are, one is the newest of the latest sub. *)
LEMMA NoneAble ==
  ASSUME NEW v, Found(v) = {}, Calls(contexts), Start(v) \in 1..Len(contexts), NEW c, NEW i
  PROVE  ~Able(v, c, i)
<1>. SUFFICES ASSUME Able(v, c, i) PROVE FALSE
  OBVIOUS
<1>. DEFINE start == Start(v)
            Subs == {d \in Nat : \E n : Able(v, d, n)}
            Far == {m \in Nat : \E d \in Subs : m = start - d}
<1>1. Len(contexts) \in Nat /\ start \in Nat /\ start \in 0..Len(contexts)
  BY CallsFields
<1>2. ASSUME NEW d, NEW n, Able(v, d, n)
      PROVE  d \in 1..start /\ d \in Nat /\ d \in 1..Len(contexts) /\ n \in 1..Len(contexts[d].handlers) /\ n \in Nat
  <2>1. d \in Up(contexts, start)
    BY <1>2, CallersAre DEF Able
  <2>2. d \in 1..start
    BY <1>1, <2>1, UpBelow
  <2>3. d \in Nat /\ d \in 1..Len(contexts)
    BY <1>1, <2>2
  <2>4. contexts[d].handlers \in Seq(HandlerRecord)
    BY <2>3, CallsFields DEF ContextRecord
  <2>5. n \in 1..Len(contexts[d].handlers) /\ Len(contexts[d].handlers) \in Nat
    BY <1>2, <2>4, LenProperties DEF Able, Handlers
  <2>. QED BY <2>2, <2>3, <2>5
<1>. HIDE DEF start
<1>3. c \in Subs /\ \A d \in Subs : start - d \in Far /\ d \in Nat
  <2>1. ASSUME NEW d \in Subs PROVE start - d \in Nat /\ d \in Nat
    <3>1. d \in 1..start
      BY <1>2
    <3>. QED BY <1>1, <3>1
  <2>. QED BY <1>2, <2>1
<1>4. PICK m \in Far : \A y \in Far : m <= y
  <2>1. Far \in SUBSET Nat /\ Far # {}
    BY <1>3
  <2>. HIDE DEF Far
  <2>. QED BY <2>1, LeastNatural
<1>5. PICK a \in Subs : m = start - a
  OBVIOUS
<1>6. \A d \in Subs : d <= a
  <2>1. \A d \in Subs : start - a <= start - d /\ d \in Nat
    BY <1>3, <1>4, <1>5
  <2>. QED BY <1>1, <1>3, <1>5, <2>1
<1>. DEFINE Slots == {n \in Nat : Able(v, a, n)}
<1>7. PICK b \in Slots : \A n \in Slots : b <= n
  <2>1. Slots \in SUBSET Nat /\ Slots # {}
    BY <1>2
  <2>. HIDE DEF Slots
  <2>. QED BY <2>1, LeastNatural
<1>8. Able(v, a, b)
  OBVIOUS
<1>9. ASSUME NEW q \in AllAble(v) PROVE q[1] < a \/ (q[1] = a /\ q[2] >= b)
  <2>1. Able(v, q[1], q[2])
    BY AllAbleAre
  <2>2. q[1] \in Subs /\ q[1] \in Nat /\ q[2] \in Nat
    BY <1>2, <2>1
  <2>3. q[1] <= a /\ a \in Nat
    BY <1>6, <2>2
  <2>4. CASE q[1] = a
    <3>1. q[2] \in Slots /\ b \in Nat
      BY <2>1, <2>2, <2>4
    <3>. QED BY <1>7, <2>2, <2>4, <3>1
  <2>. QED BY <2>2, <2>3, <2>4
<1>10. <<a, b>> \in Found(v)
  <2>1. <<a, b>> \in AllAble(v) /\ <<a, b>>[1] = a /\ <<a, b>>[2] = b
    BY <1>8, AllAbleAre
  <2>. QED BY <1>9, <2>1, FoundIsFirst
<1>. QED BY <1>10

(* What is thrown: an exception that was handled keeps those that had it; any
   other begins where control is, while nothing is handled if it was thrown
   before, and C code does not keep it. *)
Rethrown(x, v) ==
  /\ x \in 1..Len(exceptions) /\ exceptions[x].had # <<>> /\ v.had = exceptions[x].had /\ v.type = exceptions[x].type
  /\ v.context = exceptions[x].context /\ v.origin = exceptions[x].origin /\ v.handlers_left = exceptions[x].handlers_left
  /\ v.context \in Up(contexts, ctx)
ThrownFirst(x, v) ==
  /\ v.had = <<>> /\ v.origin = ctx /\ ~PendingIn(x, c_stack)
  /\ x \in 1..Len(exceptions) => \A a \in Up(contexts, ctx) : Marks(contexts)[a] = 0
Thrown(x, v) ==
  /\ v \in ExceptionRecord /\ x \in 1..Len(exceptions) + 1
  /\ IF v.handled = -1 THEN Rethrown(x, v) ELSE ThrownFirst(x, v)

(* Those that had it are passed, the others may have it or take it not. *)
SearchRight(v) ==
  /\ v.origin \in 1..Len(contexts) /\ Start(v) \in Up(contexts, v.origin) /\ Start(v) \in 1..Len(contexts)
  /\ IsInjective(v.had)
  /\ \A c \in Up(contexts, v.origin) : \A i \in 1..Len(contexts[c].handlers) : Able(v, c, i) \/ Passed(v, c, contexts[c].handlers[i])
  /\ \A j \in 1..Len(v.had) : /\ v.had[j][1] \in 1..Len(contexts) /\ Start(v) <= v.had[j][1]
                             /\ v.had[j][2] <= contexts[v.had[j][1]].pushed
  /\ \A i \in 1..Len(contexts[Start(v)].handlers) :
       i > Behind(v) => \A j \in 1..Len(v.had) : v.had[j] # <<Start(v), contexts[Start(v)].handlers[i].n>>

LEMMA SearchIs ==
  ASSUME Calls(contexts), ctx \in 1..Len(contexts), NEW x, NEW v, Thrown(x, v),
         \A y \in 1..Len(exceptions) : exceptions[y].had # <<>> => HadRight(contexts, exceptions[y])
  PROVE  SearchRight(v)
<1>. DEFINE start == Start(v)
            hs == contexts[start].handlers
<1>1. v \in ExceptionRecord /\ Len(contexts) \in Nat
  BY CallsFields DEF Thrown
<1>2. /\ Len(v.had) \in Nat /\ v.context \in Nat /\ v.handlers_left \in Int /\ (v.had # <<>> => Len(v.had) \in 1..Len(v.had))
      /\ \A j \in 1..Len(v.had) : v.had[j][1] \in Nat /\ v.had[j][2] \in Nat
  BY <1>1, HadFields
<1>3. \A c \in 1..Len(contexts) : contexts[c] \in ContextRecord /\ Len(contexts[c].handlers) \in Nat
       /\ DOMAIN contexts[c].handlers = 1..Len(contexts[c].handlers)
  BY CallsFields, HandlerFields, LenProperties
<1>4. ASSUME NEW c \in Up(contexts, start), c \in 1..Len(contexts), NEW i \in 1..Len(contexts[c].handlers), c = start => i > Behind(v)
      PROVE  Able(v, c, i) \/ Passed(v, c, contexts[c].handlers[i])
  BY <1>3, <1>4, CallersAre DEF Able, Passed, CanHandle, Handlers
<1>5. CASE v.handled = -1
  <2>1. Rethrown(x, v) /\ start = v.context
    BY <1>5 DEF Thrown, Start
  <2>2. v.had # <<>> /\ HadRight(contexts, exceptions[x])
    BY <2>1 DEF Rethrown
  <2>3. HadRight(contexts, v)
    <3>1. /\ v.had = exceptions[x].had /\ v.type = exceptions[x].type /\ v.context = exceptions[x].context
          /\ v.origin = exceptions[x].origin /\ v.handlers_left = exceptions[x].handlers_left
      BY <2>1 DEF Rethrown
    <3>2. LastHad(v) = LastHad(exceptions[x])
      BY <3>1 DEF LastHad
    <3>3. \A c, h : Passed(v, c, h) <=> Passed(exceptions[x], c, h)
      BY <3>1 DEF Passed, Had
    <3>4. HadBelow(contexts, v)
      BY <2>2, <3>1 DEF HadRight, HadBelow
    <3>5. HadHere(contexts, v)
      BY <2>2, <3>1, <3>2 DEF HadRight, HadHere
    <3>6. HadInside(contexts, v)
      BY <2>2, <3>1, <3>3 DEF HadRight, HadInside
    <3>. QED BY <2>2, <3>1, <3>2, <3>4, <3>5, <3>6 DEF HadRight
  <2>4. /\ v.origin \in 1..Len(contexts) /\ start \in Up(contexts, v.origin) /\ start \in 1..Len(contexts)
        /\ IsInjective(v.had) /\ LastHad(v)[1] = start
        /\ HadBelow(contexts, v) /\ HadHere(contexts, v) /\ HadInside(contexts, v)
    BY <2>1, <2>3 DEF HadRight
  <2>. HIDE DEF start
  <2>5. Behind(v) = (IF Len(hs) - v.handlers_left > 0 THEN Len(hs) - v.handlers_left ELSE 0) /\ Len(hs) \in Nat
    BY <1>3, <1>5, <2>4 DEF Behind, Handlers, start
  <2>6. \A i \in 1..Len(hs) : i > Behind(v) <=> ~(i <= Len(hs) - v.handlers_left)
    BY <1>2, <2>5
  <2>7. \A i \in 1..Len(hs) : i > Behind(v) => \A j \in 1..Len(v.had) : v.had[j] # <<start, hs[i].n>>
    BY <2>1, <2>4, <2>6 DEF HadHere
  <2>8. ASSUME NEW i \in 1..Len(hs), ~(i > Behind(v)) PROVE Passed(v, start, hs[i])
    <3>1. hs[i].n >= LastHad(v)[2]
      BY <2>1, <2>4, <2>6, <2>8 DEF HadHere
    <3>2. contexts[start] \in ContextRecord
      BY <1>3, <2>4
    <3>3. hs[i].n \in Nat
      BY <3>2, HandlerFields
    <3>4. Len(v.had) \in 1..Len(v.had) /\ v.had[Len(v.had)][2] \in Nat
      BY <1>2, <2>2
    <3>5. v.had[Len(v.had)][1] = start /\ v.had[Len(v.had)][2] <= hs[i].n
      BY <2>4, <3>1, <3>3, <3>4 DEF LastHad
    <3>. QED BY <3>4, <3>5 DEF Passed, Had
  <2>9. ASSUME NEW c \in Up(contexts, v.origin), NEW i \in 1..Len(contexts[c].handlers)
        PROVE  Able(v, c, i) \/ Passed(v, c, contexts[c].handlers[i])
    <3>1. v.origin \in 0..Len(contexts) /\ start \in Nat
      BY <1>1, <2>4
    <3>2. c \in 1..v.origin
      BY <3>1, UpBelow
    <3>3. c \in Nat /\ c \in 1..Len(contexts)
      BY <1>1, <2>4, <3>2
    <3>4. CASE c > start
      BY <2>1, <2>4, <3>4 DEF HadInside
    <3>5. CASE c <= start
      <4>1. c \in Up(contexts, start)
        BY <2>4, <3>1, <3>5, UpBelow
      <4>2. CASE c = start /\ ~(i > Behind(v))
        BY <2>8, <4>2
      <4>. QED BY <1>4, <3>3, <4>1, <4>2
    <3>. QED BY <3>1, <3>3, <3>4, <3>5
  <2>. QED BY <2>1, <2>4, <2>7, <2>9 DEF SearchRight, HadBelow, start
<1>6. CASE v.handled # -1
  <2>1. v.had = <<>> /\ v.origin = ctx /\ start = ctx
    BY <1>6 DEF Thrown, ThrownFirst, Start
  <2>2. Len(v.had) = 0 /\ DOMAIN v.had = {}
    BY <2>1
  <2>3. \A j \in 1..Len(v.had) : FALSE
    BY <2>2
  <2>4. IsInjective(v.had)
    BY <2>2 DEF IsInjective
  <2>5. Behind(v) = 0
    BY <1>6 DEF Behind
  <2>6. ctx \in Up(contexts, ctx) /\ ctx \in 0..Len(contexts) /\ Up(contexts, ctx) \subseteq 1..ctx
    BY <1>1, UpIs, UpBelow
  <2>7. ASSUME NEW c \in Up(contexts, ctx), NEW i \in 1..Len(contexts[c].handlers)
        PROVE  Able(v, c, i) \/ Passed(v, c, contexts[c].handlers[i])
    <3>1. c \in 1..Len(contexts)
      BY <1>1, <2>6
    <3>2. i > 0
      BY <1>3, <3>1
    <3>. QED BY <1>4, <2>1, <2>5, <3>1, <3>2
  <2>. HIDE DEF start
  <2>. QED BY <2>1, <2>3, <2>4, <2>6, <2>7 DEF SearchRight, start
<1>. QED BY <1>5, <1>6

Exhausted(s, v) ==
  /\ v.origin \in 1..Len(s) /\ IsInjective(v.had)
  /\ \A c \in Up(s, v.origin) : \A i \in 1..Len(s[c].handlers) : Passed(v, c, s[c].handlers[i])

LEMMA CaughtFields ==
  ASSUME NEW v \in ExceptionRecord, NEW c, NEW i
  PROVE  LET w == Caught(v, c, i)
         IN  /\ w.context = c /\ w.handlers_left = Len(contexts[c].handlers) - i /\ w.origin = v.origin /\ w.type = v.type
             /\ w.had = Append(v.had, <<c, contexts[c].handlers[i].n>>) /\ w.handled = v.handled
  BY DEF Caught, ExceptionRecord, Handlers

(* The handler that is found has the exception, after all that had it. *)
LEMMA CaughtHad ==
  ASSUME Calls(contexts), NEW v \in ExceptionRecord, SearchRight(v), \A c \in 1..Len(contexts) : Numbered(contexts[c]),
         NEW c, NEW i, Able(v, c, i), \A d, n : Able(v, d, n) => d < c \/ (d = c /\ n >= i),
         NEW w, w = Caught(v, c, i)
  PROVE  HadRight(contexts, w) /\ w.had # <<>>
<1>. DEFINE start == Start(v)
            hs == contexts[c].handlers
            m  == Len(v.had)
            g  == <<c, hs[i].n>>
<1>1. /\ w.context = c /\ w.handlers_left = Len(hs) - i /\ w.origin = v.origin /\ w.type = v.type
      /\ w.had = Append(v.had, g)
  BY CaughtFields
<1>2. /\ v.origin \in 1..Len(contexts) /\ start \in Up(contexts, v.origin) /\ start \in 1..Len(contexts)
      /\ IsInjective(v.had) /\ Len(contexts) \in Nat
      /\ \A d \in Up(contexts, v.origin) : \A n \in 1..Len(contexts[d].handlers) : Able(v, d, n) \/ Passed(v, d, contexts[d].handlers[n])
      /\ \A j \in 1..m : v.had[j][1] \in 1..Len(contexts) /\ start <= v.had[j][1] /\ v.had[j][2] <= contexts[v.had[j][1]].pushed
  BY CallsFields DEF SearchRight
<1>3. v.origin \in 0..Len(contexts) /\ start \in 0..Len(contexts) /\ start \in Nat
  BY <1>2
<1>4. c \in Up(contexts, start) /\ i \in DOMAIN hs /\ (c = start => i > Behind(v))
  BY CallersAre DEF Able, Handlers
<1>5. c \in 1..start /\ c \in Up(contexts, v.origin) /\ c \in Nat /\ c \in 1..Len(contexts)
  <2>1. c \in 1..start
    BY <1>3, <1>4, UpBelow
  <2>2. c \in Up(contexts, v.origin)
    BY <1>2, <1>3, <1>4, UpBelow
  <2>3. c \in Nat /\ c \in 1..Len(contexts)
    BY <1>2, <1>3, <2>1
  <2>. QED BY <2>1, <2>2, <2>3
<1>6. /\ hs \in Seq(HandlerRecord) /\ Len(hs) \in Nat /\ contexts[c].pushed \in Nat /\ \A n \in 1..Len(hs) : hs[n].n \in Nat
  <2>1. contexts[c] \in ContextRecord
    BY <1>5, CallsFields
  <2>. QED BY <2>1, HandlerFields
<1>7. i \in 1..Len(hs) /\ i \in Nat
  BY <1>4, <1>6, LenProperties
<1>8. /\ m \in Nat /\ v.had \in Seq(Nat \X Nat) /\ \A j \in 1..m : v.had[j][1] \in Nat /\ v.had[j][2] \in Nat
  BY HadFields
<1>9. g \in Nat \X Nat /\ g[1] = c /\ g[2] = hs[i].n
  BY <1>5, <1>6, <1>7
<1>10. /\ Len(w.had) = m + 1 /\ w.had[m + 1] = g /\ \A j \in 1..m : w.had[j] = v.had[j]
  BY <1>1, <1>8, <1>9, AppendProperties
<1>11. DOMAIN w.had = 1..m + 1 /\ w.had # <<>> /\ DOMAIN v.had = 1..m
  <2>1. w.had \in Seq(Nat \X Nat)
    BY <1>1, <1>8, <1>9, AppendProperties
  <2>2. DOMAIN w.had = 1..Len(w.had)
    BY <2>1, LenProperties
  <2>3. w.had # <<>>
    <3>1. Len(w.had) # 0
      <4>1. m \in Nat /\ Len(w.had) = m + 1
        BY <1>8, <1>10
      <4>. HIDE DEF m
      <4>. QED BY <4>1
    <3>. QED BY <3>1, EmptySeq
  <2>4. DOMAIN v.had = 1..m
    BY <1>8, LenProperties
  <2>. QED BY <1>10, <2>2, <2>3, <2>4
<1>. HIDE DEF start, g
<1>12. ASSUME NEW n \in 1..Len(hs), n >= i, NEW j \in 1..m, v.had[j] = <<c, hs[n].n>> PROVE FALSE
  <2>1. v.had[j][1] = c /\ start <= v.had[j][1]
    BY <1>2, <1>12
  <2>2. c = start
    BY <1>3, <1>5, <2>1
  <2>3. i > Behind(v) /\ Behind(v) \in Int
    <3>1. Len(Handlers(start)) \in Nat /\ v.handlers_left \in Int
      BY <1>6, <2>2, HadFields DEF Handlers
    <3>. QED BY <1>4, <2>2, <3>1 DEF Behind, start
  <2>4. n > Behind(v)
    BY <1>7, <1>12, <2>3
  <2>. QED BY <1>12, <2>2, <2>4 DEF SearchRight, start
<1>13. IsInjective(w.had)
  <2>. SUFFICES ASSUME NEW a \in 1..m + 1, NEW b \in 1..m + 1, w.had[a] = w.had[b] PROVE a = b
    BY <1>11 DEF IsInjective
  <2>1. \A j \in 1..m : v.had[j] # g
    BY <1>7, <1>12 DEF g
  <2>2. \A j \in 1..m + 1 : j \in 1..m \/ j = m + 1
    <3>1. m \in Nat
      BY <1>8
    <3>. HIDE DEF m
    <3>. QED BY <3>1
  <2>3. CASE a \in 1..m /\ b \in 1..m
    BY <1>2, <1>10, <1>11, <2>3 DEF IsInjective
  <2>4. CASE a = m + 1 /\ b \in 1..m
    BY <1>10, <2>1, <2>4
  <2>5. CASE b = m + 1 /\ a \in 1..m
    BY <1>10, <2>1, <2>5
  <2>. QED BY <2>2, <2>3, <2>4, <2>5
<1>14. LastHad(w) = g
  BY <1>10 DEF LastHad
<1>15. HadBelow(contexts, w)
  <2>. SUFFICES ASSUME NEW j \in 1..m + 1
                PROVE  w.had[j][1] \in 1..Len(contexts) /\ c <= w.had[j][1] /\ w.had[j][2] <= contexts[w.had[j][1]].pushed
    BY <1>1, <1>10 DEF HadBelow
  <2>1. CASE j = m + 1
    <3>1. hs[i].n <= contexts[c].pushed
      BY <1>5, <1>7 DEF Numbered
    <3>2. w.had[j][1] = c /\ w.had[j][2] = hs[i].n /\ c <= c
      BY <1>5, <1>9, <1>10, <2>1
    <3>. QED BY <1>5, <3>1, <3>2
  <2>2. CASE j # m + 1
    <3>1. j \in 1..m
      BY <1>8, <2>2
    <3>2. c <= v.had[j][1]
      BY <1>2, <1>3, <1>5, <1>8, <3>1
    <3>. QED BY <1>2, <1>10, <3>1, <3>2
  <2>. QED BY <2>1, <2>2
<1>16. HadHere(contexts, w)
  <2>. SUFFICES ASSUME NEW n \in 1..Len(hs)
                PROVE  IF n <= Len(hs) - (Len(hs) - i) THEN hs[n].n >= g[2]
                       ELSE \A j \in 1..m + 1 : w.had[j] # <<c, hs[n].n>>
    <3>1. contexts[w.context].handlers = hs /\ w.context = c /\ w.handlers_left = Len(hs) - i
          /\ Len(w.had) = m + 1 /\ LastHad(w) = g
      BY <1>1, <1>10, <1>14
    <3>. HIDE DEF hs, m
    <3>. QED BY <3>1 DEF HadHere
  <2>1. Numbered(contexts[c])
    BY <1>5
  <2>2. CASE n <= i
    <3>1. n = i \/ hs[n].n > hs[i].n
      BY <1>7, <2>1, <2>2 DEF Numbered
    <3>2. hs[n].n >= hs[i].n
      BY <1>6, <1>7, <3>1
    <3>. QED BY <1>6, <1>7, <1>9, <2>2, <3>2
  <2>3. CASE ~(n <= i)
    <3>1. hs[i].n > hs[n].n /\ n >= i
      BY <1>7, <2>1, <2>3 DEF Numbered
    <3>2. hs[i].n # hs[n].n
      BY <1>6, <1>7, <3>1
    <3>3. g # <<c, hs[n].n>>
      BY <1>9, <3>2
    <3>4. \A j \in 1..m + 1 : j \in 1..m \/ j = m + 1
      <4>1. m \in Nat
        BY <1>8
      <4>. HIDE DEF m
      <4>. QED BY <4>1
    <3>5. \A j \in 1..m + 1 : w.had[j] # <<c, hs[n].n>>
      BY <1>10, <1>12, <3>1, <3>3, <3>4
    <3>. QED BY <1>6, <1>7, <2>3, <3>5
  <2>. QED BY <1>7, <2>2, <2>3
<1>17. HadInside(contexts, w)
  <2>. SUFFICES ASSUME NEW d \in Up(contexts, v.origin), d > c, NEW n \in 1..Len(contexts[d].handlers)
                PROVE  Passed(w, d, contexts[d].handlers[n])
    BY <1>1 DEF HadInside
  <2>1. d \in Nat
    <3>1. Up(contexts, v.origin) \subseteq 1..v.origin
      BY <1>3, UpBelow
    <3>. QED BY <3>1
  <2>2. ~Able(v, d, n)
    BY <1>5, <2>1
  <2>3. Passed(v, d, contexts[d].handlers[n])
    BY <1>2, <2>2
  <2>4. \A j \in 1..m : j \in 1..Len(w.had)
    BY <1>8, <1>10
  <2>. QED BY <1>1, <1>10, <2>3, <2>4 DEF Passed, Had
<1>. QED BY <1>1, <1>2, <1>5, <1>9, <1>11, <1>13, <1>14, <1>15, <1>16, <1>17 DEF HadRight

(* Nothing is found: all that may have it did. *)
LEMMA ExhaustedIs ==
  ASSUME NEW v, SearchRight(v), \A c, i : ~Able(v, c, i)
  PROVE  Exhausted(contexts, v)
  BY DEF SearchRight, Exhausted
-----------------------------------------------------------------------------
(* The invariant. *)
Ordered(s, e, u) ==
  /\ \A c \in 1..Len(s) : Numbered(s[c])
  /\ \A x \in 1..Len(e) : e[x].had # <<>> => HadRight(s, e[x])
  /\ \A x \in Guides(e) : \E A : Guided(A, s, e, u, x)

OrdInv ==
  /\ Ordered(contexts, exceptions, ctx)
  /\ \A x : PendingIn(x, c_stack) => x \in 1..Len(exceptions) /\ exceptions[x].had # <<>>
  /\ \A x \in 1..Len(exceptions) : ended = x => Exhausted(contexts, exceptions[x])

(* Where control can go from where it is. *)
LEMMA SpotGoes ==
  ASSUME NEW A, NEW s, NEW e, NEW u, NEW x, Guided(A, s, e, u, x), Calls(s)
  PROVE  /\ \E q \in A : At(q, u, Marks(s))
         /\ \A c \in Up(s, u) : /\ \E q \in A : At(q, c, Marks(s))
                               /\ \E q \in A : At(q, c, [Marks(s) EXCEPT ![c] = 0])
         /\ LET y == Marks(s)[u] IN
            y # 0 /\ y # x /\ Resumable(e[y]) => \E q \in A : At(q, e[y].resume, [Marks(s) EXCEPT ![u] = Back(e[y])])
<1>1. Closed(A, s, e, x)
  BY DEF Guided
<1>2. PICK k \in A : At(k, u, Marks(s))
  BY DEF Guided
<1>3. Here(A, k, s, u)
  BY <1>1, <1>2, SpotIs
<1>4. k.ctx = u /\ Follow(A, k, s) /\ k.time \in Nat /\ u \in 1..k.time /\ k.marks[u] = Marks(s)[u]
      /\ Up(s, u) \subseteq 1..u /\ u <= k.time /\ \A q \in A : q.time \in Nat
  <2>1. k.ctx = u /\ Follow(A, k, s) /\ k.time \in Nat /\ u \in 1..Len(s) /\ u <= k.time /\ Up(s, u) \subseteq 1..u
        /\ \A q \in A : q.time \in Nat
    BY <1>3 DEF Here
  <2>2. u \in 1..k.time
    BY <2>1
  <2>. QED BY <1>3, <2>1, <2>2 DEF Here
<1>5. Falls(k, A, s) /\ Comes(k, A, s) /\ GoesOn(k, A, e, x)
  BY <1>1 DEF Closed
<1>6. ASSUME NEW c \in Up(s, u) PROVE \E q \in A : At(q, c, Marks(s))
  BY <1>4, <1>5 DEF Comes, At, Follow
<1>7. ASSUME NEW c \in Up(s, u) PROVE \E q \in A : At(q, c, [Marks(s) EXCEPT ![c] = 0])
  <2>1. PICK q \in A : At(q, c, [k.marks EXCEPT ![c] = 0]) /\ q.time <= c
    BY <1>4, <1>5 DEF Falls
  <2>2. q.time <= k.time
    <3>1. c \in 1..u /\ u \in Nat
      BY <1>4
    <3>. QED BY <1>4, <2>1, <3>1
  <2>. QED BY <1>4, <2>1, <2>2 DEF At, Follow
<1>8. ASSUME NEW y, y = Marks(s)[u], y # 0, y # x, Resumable(e[y])
      PROVE  \E q \in A : At(q, e[y].resume, [Marks(s) EXCEPT ![u] = Back(e[y])])
  <2>1. PICK q \in A : At(q, e[y].resume, [k.marks EXCEPT ![u] = Back(e[y])]) /\ q.time <= k.time
    BY <1>4, <1>5, <1>8 DEF GoesOn
  <2>. QED BY <1>4, <2>1 DEF At, Follow
<1>. QED BY <1>2, <1>6, <1>7, <1>8

(* Exceptions that handlers have had keep what is right of them. *)
LEMMA OrderedHad ==
  ASSUME NEW s, NEW e, NEW u, Ordered(s, e, u), e \in Seq(ExceptionRecord), NEW t, Rearranged(s, t, u)
  PROVE  /\ \A c \in 1..Len(t) : Numbered(t[c])
         /\ \A x \in 1..Len(e) : e[x].had # <<>> => HadRight(t, e[x])
<1>1. \A c \in 1..Len(t) : Numbered(t[c])
  BY NumberedStay DEF Ordered
<1>2. ASSUME NEW x \in 1..Len(e), e[x].had # <<>> PROVE HadRight(t, e[x])
  <2>1. e[x] \in ExceptionRecord /\ Len(e) \in Nat
    BY ElementOfSeq, LenProperties
  <2>2. x \in Guides(e) /\ x # 0
    BY <1>2, <2>1 DEF Guides
  <2>3. PICK A : Guided(A, s, e, u, x)
    BY <2>2 DEF Ordered
  <2>4. PICK k \in A : At(k, u, Marks(s))
    BY <2>3 DEF Guided
  <2>5. Closed(A, s, e, x) /\ Avoids(A, s, x, e[x]) /\ Calls(s)
    BY <2>3 DEF Guided, Rearranged, Same
  <2>6. Here(A, k, s, u)
    BY <2>4, <2>5, SpotIs
  <2>7. u \in Up(s, k.ctx)
    BY <2>6 DEF Here
  <2>8. u \in Up(s, e[x].origin) => u <= e[x].context
    BY <2>2, <2>5, <2>7 DEF Avoids
  <2>. QED BY <1>2, <2>1, <2>8, HadStays DEF Ordered
<1>. QED BY <1>1, <1>2

(* Control goes to a spot, and the exceptions stay as they are. *)
LEMMA OrderedGoes ==
  ASSUME NEW s, NEW e, NEW u, Ordered(s, e, u), e \in Seq(ExceptionRecord), NEW t, Rearranged(s, t, u), NEW v,
         \A A, x : Guided(A, s, e, u, x) => \E q \in A : At(q, v, Marks(t))
  PROVE  Ordered(t, e, v)
<1>1. Same(s, t) /\ Len(e) \in Nat /\ Len(e) <= Len(e)
  <2>1. Len(e) \in Nat
    BY LenProperties
  <2>. QED BY <2>1 DEF Rearranged
<1>2. ASSUME NEW x \in Guides(e) PROVE \E B : Guided(B, t, e, v, x)
  <2>1. PICK A : Guided(A, s, e, u, x)
    BY DEF Ordered
  <2>2. PICK q \in A : At(q, v, Marks(t))
    BY <2>1
  <2>3. StayResumable(A, e, x, e, x)
    BY DEF StayResumable
  <2>4. x # 0 => e[x].origin \in 1..Len(s)
    BY DEF Guides, Ordered, HadRight
  <2>. QED BY <1>1, <2>1, <2>2, <2>3, <2>4, GuidedAt
<1>. QED BY <1>2, OrderedHad DEF Ordered

LEMMA NothingRearranged ==
  ASSUME NEW s, NEW t, NEW u, Same(s, t), Len(t) = Len(s),
         \A c \in 1..Len(s) : t[c].handlers = s[c].handlers /\ t[c].pushed = s[c].pushed
  PROVE  Rearranged(s, t, u)
<1>1. ASSUME NEW c \in 1..Len(s) PROVE Fewer(s[c], t[c])
  <2>1. s[c] \in ContextRecord
    BY CallsFields DEF Same
  <2>2. Len(s[c].handlers) \in Nat
    BY <2>1, HandlerFields
  <2>3. \A p \in 1..Len(t[c].handlers) : p + 0 = p
    BY <2>2
  <2>4. Len(t[c].handlers) + 0 = Len(s[c].handlers) /\ 0 \in Nat
    BY <2>2
  <2>. QED BY <2>3, <2>4 DEF Fewer
<1>. QED BY <1>1 DEF Rearranged

(* C code that has caught something does not come from nowhere. *)
Forgets(st, r) == \A x : PendingIn(x, r) => PendingIn(x, st)

LEMMA ForgetsMore ==
  ASSUME NEW st \in Seq(Frame), NEW g \in Frame, g.kind # "phasers" \/ g.caught = <<>>
  PROVE  Forgets(st, Append(st, g))
<1>. DEFINE r == Append(st, g)
<1>1. Len(st) \in Nat /\ Len(r) = Len(st) + 1 /\ r[Len(st) + 1] = g /\ \A i \in 1..Len(st) : r[i] = st[i]
  BY LenProperties, AppendProperties
<1>. HIDE DEF r
<1>. SUFFICES ASSUME NEW x, NEW i \in 1..Len(r), r[i].kind = "phasers", x \in ToSet(r[i].caught) PROVE PendingIn(x, st)
  BY DEF Forgets, PendingIn, r
<1>2. i \in 1..Len(st) \/ i = Len(st) + 1
  BY <1>1
<1>3. i # Len(st) + 1
  <2>1. ToSet(<<>>) = {}
    BY DEF ToSet
  <2>. QED BY <1>1, <2>1
<1>. QED BY <1>1, <1>2, <1>3 DEF PendingIn

LEMMA ForgetsInner ==
  ASSUME NEW st \in Seq(Frame), NEW d \in 0..Len(st)
  PROVE  Forgets(st, SubSeq(st, 1, d))
<1>. DEFINE r == SubSeq(st, 1, d)
<1>1. Len(r) = d /\ \A i \in 1..d : r[i] = st[i] /\ i \in 1..Len(st)
  BY PrefixIs
<1>. HIDE DEF r
<1>2. Forgets(st, r)
  BY <1>1 DEF Forgets, PendingIn
<1>. QED BY <1>2 DEF r

LEMMA ForgetsFront ==
  ASSUME NEW st \in Seq(Frame), st # <<>>
  PROVE  Forgets(st, Front(st)) /\ Front(st) \in Seq(Frame)
<1>1. Len(st) \in Nat /\ Len(st) # 0
  BY LenProperties, EmptySeq
<1>2. Len(st) - 1 \in 0..Len(st)
  BY <1>1
<1>. QED BY <1>2, ForgetsInner, PrefixIs DEF Front

LEMMA ForgetsTrying ==
  ASSUME NEW st \in Seq(Frame), NEW d \in 1..Len(st), NEW b
  PROVE  Forgets(st, [st EXCEPT ![d].trying = b])
<1>. DEFINE r == [st EXCEPT ![d].trying = b]
<1>1. Len(st) \in Nat /\ DOMAIN st = 1..Len(st) /\ Len(r) = Len(st)
  BY LenProperties
<1>2. \A i \in 1..Len(st) : r[i] = IF i = d THEN [st[d] EXCEPT !.trying = b] ELSE st[i]
  BY <1>1
<1>. HIDE DEF r
<1>3. \A i \in 1..Len(st) : r[i].kind = "phasers" => st[i].kind = "phasers" /\ r[i].caught = st[i].caught
  <2>1. ASSUME NEW i \in 1..Len(st), i = d, r[i].kind = "phasers" PROVE st[i].kind = "phasers" /\ r[i].caught = st[i].caught
    <3>1. st[d] \in Frame /\ r[i] = [st[d] EXCEPT !.trying = b]
      BY <1>2, <2>1, ElementOfSeq
    <3>2. r[i].kind = st[d].kind
      BY <3>1 DEF Frame, RunopsFrame, CatchFrame
    <3>3. st[d] \in CatchFrame
      BY <2>1, <3>1, <3>2 DEF Frame, RunopsFrame
    <3>. QED BY <2>1, <3>1, <3>2, <3>3 DEF CatchFrame
  <2>. QED BY <1>2, <2>1
<1>4. Forgets(st, r)
  BY <1>1, <1>3 DEF Forgets, PendingIn
<1>. QED BY <1>4 DEF r

(* The parts of the invariant, put together for a step. *)
LEMMA OrdStep ==
  ASSUME OrdInv, Ordered(contexts', exceptions', ctx'), ended' = 0, Len(exceptions) \in Nat, Len(exceptions') \in Nat,
         \A x : PendingIn(x, c_stack') => PendingIn(x, c_stack),
         \A x \in 1..Len(exceptions) : x \in 1..Len(exceptions') /\ exceptions'[x].had = exceptions[x].had
  PROVE  OrdInv'
  BY DEF OrdInv

LEMMA MarksAre ==
  ASSUME NEW s, NEW e, NEW u, Typed(s, e, u)
  PROVE  MarksRight(s, e) /\ Len(e) \in Nat
<1>1. Len(e) \in Nat /\ \A c \in 1..Len(s) : s[c].exception \in 0..Len(e)
  BY LenProperties DEF Typed
<1>2. \A a \in Nat : Marks(s)[a] \in 0..Len(e)
  BY <1>1 DEF Marks
<1>3. Marks(s) = [a \in Nat |-> Marks(s)[a]]
  BY DEF Marks
<1>. QED BY <1>1, <1>2, <1>3 DEF MarksRight

(* A call. *)
LEMMA CalledOrdered ==
  ASSUME NEW s, NEW e, NEW u, Typed(s, e, u), Ordered(s, e, u), NEW C, NEW id, Called(s, C, u, id), id # 0, C.entry => id # 1
  PROVE  Ordered(Append(s, C), e, Len(s) + 1)
<1>. DEFINE t == Append(s, C)
            n == Len(s) + 1
<1>1. /\ Same(s, t) /\ Len(t) = n /\ t[n] = C /\ (\A c \in 1..Len(s) : t[c] = s[c]) /\ Calls(s) /\ Calls(t)
      /\ Len(s) \in Nat /\ Len(t) \in Nat
  BY CallTyped, CallsFields DEF Same
<1>2. e \in Seq(ExceptionRecord) /\ MarksRight(s, e) /\ Len(e) \in Nat
  BY MarksAre DEF Typed
<1>. HIDE DEF t
<1>3. Rearranged(s, t, u)
  <2>1. ASSUME NEW c \in 1..Len(s) PROVE Fewer(s[c], t[c])
    <3>1. s[c] \in ContextRecord
      BY <1>1, CallsFields
    <3>2. Len(s[c].handlers) \in Nat
      BY <3>1, HandlerFields
    <3>3. \A p \in 1..Len(s[c].handlers) : p + 0 = p
      BY <3>2
    <3>4. Len(s[c].handlers) + 0 = Len(s[c].handlers) /\ 0 \in Nat
      BY <3>2
    <3>. QED BY <1>1, <3>3, <3>4 DEF Fewer
  <2>2. \A c \in 1..Len(t) : c \in 1..Len(s) \/ c = n
    BY <1>1
  <2>. QED BY <1>1, <2>1, <2>2 DEF Rearranged, Called
<1>4. Grown(s, t, u, n)
  <2>1. \A a \in Nat : a \in 1..Len(t) <=> a \in 1..Len(s) \/ a = n
    BY <1>1
  <2>2. Marks(t) = Marks(s)
    <3>1. n \notin 1..Len(s) /\ ~t[n].handling
      BY <1>1 DEF Called
    <3>. QED BY <1>1, <2>1, <3>1 DEF Marks
  <2>. QED BY <1>1, <2>2 DEF Grown, Called
<1>5. ASSUME NEW x \in Guides(e) PROVE \E B : Guided(B, t, e, n, x)
  <2>1. PICK A : Guided(A, s, e, u, x)
    BY DEF Ordered
  <2>2. x # 0 => e[x].origin \in 1..Len(s)
    BY DEF Guides, Ordered, HadRight
  <2>. QED BY <1>2, <1>4, <2>1, <2>2, CalledSpot
<1>6. Ordered(t, e, n)
  BY <1>2, <1>3, <1>5, OrderedHad DEF Ordered
<1>. QED BY <1>6 DEF t
-----------------------------------------------------------------------------
(* What the invariant says of the variables. *)
LEMMA ExFacts ==
  ASSUME ExInv
  PROVE  /\ Typed(contexts, exceptions, ctx) /\ Calls(contexts) /\ exceptions \in Seq(ExceptionRecord) /\ Len(exceptions) \in Nat
         /\ c_stack \in Seq(Frame) /\ Len(contexts) \in Nat /\ ctx \in 1..Len(contexts) /\ ctx \in Nat
         /\ ctx \in Up(contexts, ctx) /\ Up(contexts, ctx) \subseteq 1..ctx /\ contexts[ctx] \in ContextRecord
         /\ \A x \in 1..Len(exceptions) : exceptions[x] \in ExceptionRecord
<1>1. Typed(contexts, exceptions, ctx) /\ c_stack \in Seq(Frame)
  BY DEF ExInv, Chain
<1>2. PICK K : PointsRight(K, contexts, exceptions, c_stack, ctx)
  BY DEF ExInv
<1>3. Calls(contexts) /\ exceptions \in Seq(ExceptionRecord)
  BY <1>1 DEF Typed
<1>4. Len(exceptions) \in Nat /\ \A x \in 1..Len(exceptions) : exceptions[x] \in ExceptionRecord
  BY <1>3, LenProperties, ElementOfSeq
<1>5. /\ Len(contexts) \in Nat /\ ctx \in 1..Len(contexts) /\ ctx \in Up(contexts, ctx) /\ Up(contexts, ctx) \subseteq 1..ctx
  BY <1>1, <1>2, AreNested
<1>6. ctx \in Nat /\ contexts[ctx] \in ContextRecord
  BY <1>3, <1>5, CallsFields
<1>. QED BY <1>1, <1>3, <1>4, <1>5, <1>6

LEMMA OneRearranged ==
  ASSUME NEW s, NEW t, NEW u, NEW c \in 1..Len(s), NEW v, Becomes(s, t, c, v), Fewer(s[c], v) \/ (c = u /\ More(s[c], v))
  PROVE  Rearranged(s, t, u)
<1>1. Calls(s) /\ Same(s, t) /\ Len(t) = Len(s) /\ t[c] = v /\ \A d \in 1..Len(s) : d # c => t[d] = s[d]
  BY DEF Becomes, Same
<1>2. ASSUME NEW d \in 1..Len(s), d # c PROVE Fewer(s[d], t[d])
  <2>1. s[d] \in ContextRecord /\ t[d] = s[d]
    BY <1>1, <1>2, CallsFields
  <2>2. Len(s[d].handlers) \in Nat
    BY <2>1, HandlerFields
  <2>3. \A p \in 1..Len(s[d].handlers) : p + 0 = p
    BY <2>2
  <2>4. Len(s[d].handlers) + 0 = Len(s[d].handlers) /\ 0 \in Nat
    BY <2>2
  <2>. QED BY <2>1, <2>3, <2>4 DEF Fewer
<1>3. \A d \in 1..Len(s) : Fewer(s[d], t[d]) \/ (d = u /\ More(s[d], t[d]))
  BY <1>1, <1>2
<1>. QED BY <1>1, <1>3 DEF Rearranged

LEMMA MarksLeft ==
  ASSUME NEW s, Calls(s), NEW t, NEW c \in 1..Len(s), NEW v, Becomes(s, t, c, v),
         v.handling = s[c].handling, v.exception = s[c].exception
  PROVE  Marks(t) = Marks(s)
<1>1. Len(s) \in Nat
  BY CallsFields
<1>2. Marks(t) = [Marks(s) EXCEPT ![c] = IF v.handling THEN v.exception ELSE 0]
  BY <1>1, MarksBecome
<1>3. Marks(s)[c] = (IF v.handling THEN v.exception ELSE 0) /\ Marks(s) = [a \in Nat |-> Marks(s)[a]]
  BY <1>1 DEF Marks
<1>. QED BY <1>2, <1>3

(* A handler is pushed. *)
LEMMA PushRearranges ==
  ASSUME ExInv, NEW takes \in SUBSET Types, NEW frame \in Nat, Push(Handler(ctx, takes, frame))
  PROVE  Rearranged(contexts, contexts', ctx) /\ Marks(contexts') = Marks(contexts)
<1>. DEFINE h == Handler(ctx, takes, frame)
            w == contexts[ctx]
            hs == w.handlers
            v == [w EXCEPT !.handlers = <<h>> \o hs, !.pushed = @ + 1]
<1>1. Calls(contexts) /\ ctx \in 1..Len(contexts) /\ w \in ContextRecord
  BY ExFacts
<1>2. current_runloop_id \in Nat
  <2>1. /\ runloops \in Seq(Nat) /\ current_runloop_id = runloops[Len(runloops)] /\ HasLoop(c_stack, 1)
        /\ \A i : HasLoop(c_stack, i) => \E j \in 1..Len(runloops) : runloops[j] = c_stack[i].id
    BY DEF ExInv, Chain
  <2>2. Len(runloops) \in Nat
    BY <2>1, LenProperties
  <2>3. Len(runloops) \in 1..Len(runloops)
    BY <2>1, <2>2
  <2>. QED BY <2>1, <2>3, ElementOfSeq
<1>. HIDE DEF w, hs
<1>3. w.pushed \in Nat /\ hs \in Seq(HandlerRecord) /\ Len(hs) \in Nat
  BY <1>1, HandlerFields DEF hs
<1>4. h \in HandlerRecord /\ h.n = w.pushed + 1
  BY <1>2, <1>3 DEF Handler, HandlerRecord, w
<1>. HIDE DEF h
<1>5. /\ <<h>> \o hs \in Seq(HandlerRecord) /\ Len(<<h>> \o hs) = Len(hs) + 1 /\ (<<h>> \o hs)[1] = h
      /\ \A p \in 2..Len(hs) + 1 : (<<h>> \o hs)[p] = hs[p - 1]
  <2>1. <<h>> \in Seq(HandlerRecord)
    BY <1>4
  <2>2. <<h>> \o hs \in Seq(HandlerRecord)
    BY <1>3, <2>1
  <2>. QED BY <1>3, <1>4, <2>2, ConcatProperties
<1>6. /\ v \in ContextRecord /\ v.caller = w.caller /\ v.entry = w.entry /\ v.runloop = w.runloop
      /\ v.exception = w.exception /\ v.handling = w.handling /\ v.handlers = <<h>> \o hs /\ v.pushed = w.pushed + 1
  <2>1. w.pushed + 1 \in Nat
    BY <1>3
  <2>. QED BY <1>1, <1>5, <2>1 DEF ContextRecord
<1>7. contexts' = [contexts EXCEPT ![ctx] = v]
  BY DEF Push, h, w, hs
<1>. HIDE DEF v
<1>8. Becomes(contexts, contexts', ctx, v)
  <2>1. Becomes(contexts, [contexts EXCEPT ![ctx] = v], ctx, v)
    BY <1>1, <1>6, ContextChanges DEF w
  <2>. QED BY <1>7, <2>1
<1>9. More(w, v)
  <2>1. \A p \in 1..Len(v.handlers) : p # 1 => v.handlers[p] = hs[p - 1]
    <3>1. \A p \in 1..Len(hs) + 1 : p # 1 => p \in 2..Len(hs) + 1
      BY <1>3
    <3>. QED BY <1>5, <1>6, <3>1
  <2>. QED BY <1>4, <1>5, <1>6, <2>1 DEF More, hs
<1>10. Rearranged(contexts, contexts', ctx)
  BY <1>1, <1>8, <1>9, OneRearranged DEF w
<1>11. Marks(contexts') = Marks(contexts)
  BY <1>1, <1>6, <1>8, MarksLeft DEF w
<1>. QED BY <1>10, <1>11

(* Handlers are deleted, the newest first. *)
LEMMA DropRearranges ==
  ASSUME NEW s, Calls(s), NEW u, NEW c \in 1..Len(s), NEW n \in 1..Len(s[c].handlers) + 1,
         NEW t, t = [s EXCEPT ![c].handlers = SubSeq(@, n, Len(@))]
  PROVE  Rearranged(s, t, u) /\ Marks(t) = Marks(s)
<1>. DEFINE w == s[c]
            hs == w.handlers
            v == [w EXCEPT !.handlers = SubSeq(hs, n, Len(hs))]
<1>1. w \in ContextRecord
  BY CallsFields
<1>. HIDE DEF w, hs
<1>2. w.pushed \in Nat /\ hs \in Seq(HandlerRecord) /\ Len(hs) \in Nat /\ \A p \in 1..Len(hs) : hs[p] \in HandlerRecord
  BY <1>1, HandlerFields DEF hs
<1>3. /\ SubSeq(hs, n, Len(hs)) \in Seq(HandlerRecord) /\ Len(SubSeq(hs, n, Len(hs))) = Len(hs) - n + 1
      /\ \A p \in 1..Len(hs) - n + 1 : SubSeq(hs, n, Len(hs))[p] = hs[n + p - 1]
  <2>1. n \in Int /\ Len(hs) \in Int /\ n \in 1..Len(hs) + 1 /\ \A i \in n..Len(hs) : hs[i] \in HandlerRecord
    BY <1>2 DEF hs, w
  <2>2. /\ SubSeq(hs, n, Len(hs)) \in Seq(HandlerRecord)
        /\ Len(SubSeq(hs, n, Len(hs))) = IF n <= Len(hs) THEN Len(hs) - n + 1 ELSE 0
        /\ \A p \in 1..Len(hs) - n + 1 : SubSeq(hs, n, Len(hs))[p] = hs[n + p - 1]
    BY <2>1, SubSeqProperties
  <2>. QED BY <2>1, <2>2
<1>4. /\ v \in ContextRecord /\ v.caller = w.caller /\ v.entry = w.entry /\ v.runloop = w.runloop
      /\ v.exception = w.exception /\ v.handling = w.handling /\ v.handlers = SubSeq(hs, n, Len(hs)) /\ v.pushed = w.pushed
  BY <1>1, <1>3 DEF ContextRecord
<1>5. t = [s EXCEPT ![c] = v]
  BY DEF w, hs
<1>. HIDE DEF v
<1>6. Becomes(s, t, c, v)
  <2>1. Becomes(s, [s EXCEPT ![c] = v], c, v)
    BY <1>4, ContextChanges DEF w
  <2>. QED BY <1>5, <2>1
<1>7. Fewer(w, v)
  <2>. DEFINE d == n - 1
              k == Len(hs) - n + 1
  <2>1. d \in Nat /\ k + d = Len(hs)
    <3>1. n \in 1..Len(hs) + 1 /\ Len(hs) \in Nat
      BY <1>2 DEF hs, w
    <3>2. n - 1 \in Nat
      BY <3>1
    <3>3. \A m \in Nat : m - n + 1 + (n - 1) = m
      BY <3>1
    <3>. QED BY <3>1, <3>2, <3>3
  <2>2. \A p \in 1..k : n + p - 1 = p + d
    BY <1>2
  <2>3. Len(v.handlers) = k /\ \A p \in 1..k : v.handlers[p] = hs[p + d]
    BY <1>3, <1>4, <2>2
  <2>. HIDE DEF d, k
  <2>. QED BY <1>4, <2>1, <2>3 DEF Fewer, hs
<1>8. Rearranged(s, t, u)
  BY <1>6, <1>7, OneRearranged DEF w
<1>9. Marks(t) = Marks(s)
  BY <1>4, <1>6, MarksLeft DEF w
<1>. QED BY <1>8, <1>9

LEMMA TailRearranges ==
  ASSUME NEW s, Calls(s), NEW u, NEW c \in 1..Len(s), s[c].handlers # <<>>,
         NEW t, t = [s EXCEPT ![c].handlers = Tail(@)]
  PROVE  Rearranged(s, t, u) /\ Marks(t) = Marks(s)
<1>. DEFINE hs == s[c].handlers
<1>1. hs \in Seq(HandlerRecord) /\ hs # <<>>
  BY CallsFields DEF ContextRecord
<1>. HIDE DEF hs
<1>2. Tail(hs) = SubSeq(hs, 2, Len(hs)) /\ 2 \in 1..Len(hs) + 1
  BY <1>1, TailIsSubSeq, EmptySeq
<1>3. t = [s EXCEPT ![c].handlers = SubSeq(@, 2, Len(@))]
  BY <1>2 DEF hs
<1>. QED BY <1>2, <1>3, DropRearranges DEF hs

(* Steps that leave the exceptions. *)
LEMMA OrdGoes ==
  ASSUME ExInv, OrdInv, Rearranged(contexts, contexts', ctx), exceptions' = exceptions, ended' = 0, Forgets(c_stack, c_stack'),
         \A A, x : Guided(A, contexts, exceptions, ctx, x) => \E q \in A : At(q, ctx', Marks(contexts'))
  PROVE  OrdInv'
<1>1. exceptions \in Seq(ExceptionRecord) /\ Len(exceptions) \in Nat /\ Ordered(contexts, exceptions, ctx)
  BY ExFacts DEF OrdInv
<1>2. Ordered(contexts', exceptions, ctx')
  BY <1>1, OrderedGoes
<1>3. /\ Ordered(contexts', exceptions', ctx') /\ Len(exceptions') \in Nat
      /\ \A x : PendingIn(x, c_stack') => PendingIn(x, c_stack)
      /\ \A x \in 1..Len(exceptions) : x \in 1..Len(exceptions') /\ exceptions'[x].had = exceptions[x].had
  BY <1>1, <1>2 DEF Forgets
<1>. QED BY <1>1, <1>3, OrdStep

LEMMA OrdHere ==
  ASSUME ExInv, OrdInv, Rearranged(contexts, contexts', ctx), Marks(contexts') = Marks(contexts),
         UNCHANGED <<ctx, exceptions>>, ended' = 0, Forgets(c_stack, c_stack')
  PROVE  OrdInv'
<1>1. \A A, x : Guided(A, contexts, exceptions, ctx, x) => \E q \in A : At(q, ctx', Marks(contexts'))
  BY DEF Guided
<1>. QED BY <1>1, OrdGoes

LEMMA ForgetsNothing == Forgets(c_stack, c_stack)
  BY DEF Forgets

LEMMA PushEhOrders ==
  ASSUME ExInv, OrdInv, PushEh
  PROVE  OrdInv'
<1>1. PICK takes \in {{"error"}, Types} : Push(Handler(ctx, takes, 0))
  BY DEF PushEh
<1>2. takes \in SUBSET Types /\ 0 \in Nat
  BY DEF Types
<1>3. Rearranged(contexts, contexts', ctx) /\ Marks(contexts') = Marks(contexts)
  BY <1>1, <1>2, PushRearranges
<1>4. ended' = 0 /\ UNCHANGED <<ctx, exceptions, c_stack>>
  BY DEF PushEh, InOp, Innermost
<1>. QED BY <1>3, <1>4, ForgetsNothing, OrdHere

LEMMA PopOrders ==
  ASSUME ExInv, OrdInv, InOp, Handlers(ctx) # <<>>, contexts' = [contexts EXCEPT ![ctx].handlers = Tail(@)],
         UNCHANGED <<ctx, exceptions, c_stack, runloopVars, ended>>
  PROVE  OrdInv'
<1>1. Rearranged(contexts, contexts', ctx) /\ Marks(contexts') = Marks(contexts)
  BY ExFacts, TailRearranges DEF Handlers
<1>2. ended' = 0 /\ UNCHANGED <<ctx, exceptions, c_stack>>
  BY DEF InOp, Innermost
<1>. QED BY <1>1, <1>2, ForgetsNothing, OrdHere

LEMMA PopUptoEhOrders ==
  ASSUME ExInv, OrdInv, PopUptoEh
  PROVE  OrdInv'
<1>. DEFINE hs == Handlers(ctx)
            Is(h) == <<ctx, h.n>> = Last(exceptions[contexts[ctx].exception].had)
            I == {i \in 1..Len(hs) : Is(hs[i])}
            n == SelectInSeq(hs, Is)
<1>1. /\ InOp /\ n # 0 /\ contexts' = [contexts EXCEPT ![ctx].handlers = SubSeq(@, n, Len(@))]
      /\ UNCHANGED <<ctx, exceptions, c_stack, ended>>
  BY DEF PopUptoEh
<1>2. Len(hs) \in Nat
  BY ExFacts, HandlerFields DEF Handlers
<1>3. n = IF I # {} THEN Min(I) ELSE 0
  BY DEF SelectInSeq
<1>. HIDE DEF Is, n
<1>4. I # {} /\ n = Min(I)
  BY <1>1, <1>3
<1>5. I \subseteq Nat /\ \E i \in I : \A j \in I : i <= j
  <2>1. I \in SUBSET Nat
    BY <1>2
  <2>. HIDE DEF I
  <2>. QED BY <1>4, <2>1, LeastNatural
<1>6. n \in I
  BY <1>4, <1>5 DEF Min
<1>7. n \in 1..Len(contexts[ctx].handlers) + 1
  BY <1>2, <1>6 DEF Handlers
<1>8. Rearranged(contexts, contexts', ctx) /\ Marks(contexts') = Marks(contexts)
  BY <1>1, <1>7, ExFacts, DropRearranges
<1>9. ended' = 0
  BY <1>1 DEF InOp, Innermost
<1>. QED BY <1>1, <1>8, <1>9, ForgetsNothing, OrdHere

LEMMA BeginCatchingOrders ==
  ASSUME ExInv, OrdInv, BeginCatching
  PROVE  OrdInv'
<1>1. PICK kind \in {"phasers", "ext"} :
        c_stack' = Append(c_stack, [kind |-> kind, ctx |-> ctx, runloop_id |-> current_runloop_id,
                                    trying |-> TRUE, caught |-> <<>>])
  BY DEF BeginCatching
<1>. DEFINE g == [kind |-> kind, ctx |-> ctx, runloop_id |-> current_runloop_id, trying |-> TRUE, caught |-> <<>>]
<1>2. InOp /\ ended' = 0 /\ UNCHANGED <<ctx, exceptions>> /\ Push(Handler(ctx, Types, Len(c_stack) + 1))
  BY DEF BeginCatching, InOp, Innermost
<1>3. c_stack \in Seq(Frame) /\ Len(c_stack) \in Nat
  BY ExFacts, LenProperties
<1>4. Rearranged(contexts, contexts', ctx) /\ Marks(contexts') = Marks(contexts)
  <2>1. Len(c_stack) + 1 \in Nat /\ Types \in SUBSET Types
    BY <1>3
  <2>. QED BY <1>2, <2>1, PushRearranges
<1>5. g \in Frame /\ g.caught = <<>>
  <2>1. current_runloop_id \in Nat
    <3>1. current_runloop_id = c_stack[Len(c_stack)].id /\ HasLoop(c_stack, Len(c_stack)) /\ LoopsApart(c_stack)
      BY <1>2, OpFacts DEF ExInv, Chain
    <3>. QED BY <3>1 DEF HasLoop, LoopsApart
  <2>2. ctx \in Nat /\ <<>> \in Seq(Nat)
    BY ExFacts
  <2>. QED BY <2>1, <2>2 DEF Frame, CatchFrame
<1>. HIDE DEF g
<1>6. Forgets(c_stack, c_stack')
  BY <1>1, <1>3, <1>5, ForgetsMore DEF g
<1>. QED BY <1>2, <1>4, <1>6, OrdHere

LEMMA NextPhaserOrders ==
  ASSUME ExInv, OrdInv, NextPhaser
  PROVE  OrdInv'
<1>1. /\ Innermost("phasers") /\ ended' = 0 /\ UNCHANGED <<ctx, exceptions>> /\ Push(Handler(ctx, Types, Len(c_stack)))
      /\ c_stack' = [c_stack EXCEPT ![Len(c_stack)].trying = TRUE]
  BY DEF NextPhaser, Innermost
<1>2. c_stack \in Seq(Frame) /\ Len(c_stack) \in 1..Len(c_stack) /\ Len(c_stack) \in Nat
  BY <1>1, ExFacts, TopFacts
<1>3. Rearranged(contexts, contexts', ctx) /\ Marks(contexts') = Marks(contexts)
  <2>1. Types \in SUBSET Types
    OBVIOUS
  <2>. QED BY <1>1, <1>2, <2>1, PushRearranges
<1>4. Forgets(c_stack, c_stack')
  BY <1>1, <1>2, ForgetsTrying
<1>. QED BY <1>1, <1>3, <1>4, OrdHere

LEMMA EndTryOrders ==
  ASSUME ExInv, OrdInv, EndTry
  PROVE  OrdInv'
<1>1. /\ InC /\ Last(c_stack).trying /\ ended' = 0 /\ UNCHANGED <<ctx, exceptions>>
      /\ contexts' = [contexts EXCEPT ![ctx].handlers = Tail(@)]
      /\ c_stack' = Front(c_stack) \/ c_stack' = [c_stack EXCEPT ![Len(c_stack)].trying = FALSE]
  BY DEF EndTry, Innermost, InC
<1>2. c_stack \in Seq(Frame) /\ Len(c_stack) \in 1..Len(c_stack) /\ Len(c_stack) \in Nat
  BY <1>1, ExFacts, TopFacts DEF InC
<1>3. contexts[ctx].handlers # <<>>
  <2>1. Len(contexts[ctx].handlers) # 0
    BY <1>1, TopHandlers
  <2>2. Len(<<>>) = 0
    OBVIOUS
  <2>. QED BY <2>1, <2>2
<1>4. Rearranged(contexts, contexts', ctx) /\ Marks(contexts') = Marks(contexts)
  BY <1>1, <1>3, ExFacts, TailRearranges
<1>5. Forgets(c_stack, c_stack')
  <2>1. c_stack # <<>>
    BY <1>2, EmptySeq
  <2>2. Forgets(c_stack, Front(c_stack))
    BY <1>2, <2>1, ForgetsFront
  <2>3. Forgets(c_stack, [c_stack EXCEPT ![Len(c_stack)].trying = FALSE])
    BY <1>2, ForgetsTrying
  <2>. QED BY <1>1, <2>2, <2>3, Zenon
<1>. QED BY <1>1, <1>4, <1>5, OrdHere

(* Nothing is rearranged. *)
LEMMA StayRearranges == ASSUME ExInv PROVE Rearranged(contexts, contexts, ctx)
<1>1. Same(contexts, contexts)
  BY ExFacts DEF Same
<1>. QED BY <1>1, NothingRearranged

LEMMA PhasersEndOrders ==
  ASSUME ExInv, OrdInv, Innermost("phasers"), c_stack' = Front(c_stack),
         UNCHANGED <<contexts, ctx, exceptions, runloopVars, ended>>
  PROVE  OrdInv'
<1>1. ended' = 0 /\ c_stack # <<>> /\ c_stack \in Seq(Frame)
  BY ExFacts DEF Innermost
<1>2. Forgets(c_stack, c_stack')
  BY <1>1, ForgetsFront
<1>3. Rearranged(contexts, contexts', ctx) /\ Marks(contexts') = Marks(contexts)
  BY StayRearranges
<1>. QED BY <1>1, <1>2, <1>3, OrdHere

LEMMA TaskSwitchOrders ==
  ASSUME ExInv, OrdInv, TaskSwitch
  PROVE  OrdInv'
<1>. DEFINE g == [kind |-> "runops", id |-> 1]
<1>1. /\ ended' = 0 /\ c_stack # <<>> /\ UNCHANGED <<contexts, ctx, exceptions>> /\ c_stack \in Seq(Frame)
      /\ c_stack' = Append(Front(c_stack), g)
  BY ExFacts DEF TaskSwitch, InOp, Innermost
<1>2. g \in Frame /\ g.kind # "phasers"
  BY DEF Frame, RunopsFrame
<1>. HIDE DEF g
<1>3. Forgets(c_stack, Front(c_stack)) /\ Front(c_stack) \in Seq(Frame)
  BY <1>1, ForgetsFront
<1>4. Forgets(Front(c_stack), c_stack')
  BY <1>1, <1>2, <1>3, ForgetsMore
<1>5. Forgets(c_stack, c_stack')
  BY <1>3, <1>4 DEF Forgets
<1>6. Rearranged(contexts, contexts', ctx) /\ Marks(contexts') = Marks(contexts)
  BY <1>1, StayRearranges
<1>. QED BY <1>1, <1>5, <1>6, OrdHere

(* Calls. *)
LEMMA CallOrders ==
  ASSUME ExInv, OrdInv, NEW id \in Nat, id # 0, NEW entry \in BOOLEAN, entry => id # 1,
         contexts' = Append(contexts, Context(ctx, id, entry)), ctx' = Len(contexts) + 1,
         exceptions' = exceptions, ended' = 0, Forgets(c_stack, c_stack')
  PROVE  OrdInv'
<1>. DEFINE C == Context(ctx, id, entry)
<1>1. Typed(contexts, exceptions, ctx) /\ ctx \in Nat /\ Ordered(contexts, exceptions, ctx) /\ Len(exceptions) \in Nat
  BY ExFacts DEF OrdInv
<1>2. Called(contexts, C, ctx, id) /\ (C.entry => id # 1)
  BY <1>1, ContextIs
<1>. HIDE DEF C
<1>3. Ordered(Append(contexts, C), exceptions, Len(contexts) + 1)
  BY <1>1, <1>2, CalledOrdered
<1>4. /\ Ordered(contexts', exceptions', ctx') /\ Len(exceptions') \in Nat
      /\ \A x : PendingIn(x, c_stack') => PendingIn(x, c_stack)
      /\ \A x \in 1..Len(exceptions) : x \in 1..Len(exceptions') /\ exceptions'[x].had = exceptions[x].had
  BY <1>1, <1>3 DEF Forgets, C
<1>. QED BY <1>1, <1>4, OrdStep

LEMMA CallSubOrders ==
  ASSUME ExInv, OrdInv, CallSub
  PROVE  OrdInv'
<1>1. /\ InOp /\ contexts' = Append(contexts, Context(ctx, current_runloop_id, FALSE)) /\ ctx' = Len(contexts) + 1
      /\ UNCHANGED <<exceptions, c_stack>> /\ ended' = 0
  BY DEF CallSub, InOp, Innermost
<1>2. current_runloop_id \in Nat /\ current_runloop_id # 0
  <2>1. /\ current_runloop_id = c_stack[Len(c_stack)].id /\ HasLoop(c_stack, Len(c_stack)) /\ runloop_id_counter \in Nat
        /\ \A i : HasLoop(c_stack, i) => c_stack[i].id \in 1..runloop_id_counter
    BY <1>1, OpFacts DEF ExInv, Chain
  <2>2. current_runloop_id \in 1..runloop_id_counter
    BY <2>1
  <2>. QED BY <2>1, <2>2
<1>. QED BY <1>1, <1>2, ForgetsNothing, CallOrders

LEMMA CallFromCOrders ==
  ASSUME ExInv, OrdInv, CallFromC
  PROVE  OrdInv'
<1>. DEFINE id == runloop_id_counter + 1
            g == [kind |-> "runops", id |-> id]
<1>1. /\ contexts' = Append(contexts, Context(ctx, id, TRUE)) /\ ctx' = Len(contexts) + 1 /\ c_stack' = Append(c_stack, g)
      /\ UNCHANGED <<exceptions>> /\ ended' = 0
  BY DEF CallFromC, InOp, Innermost
<1>2. id \in Nat /\ id # 0 /\ id # 1
  <2>1. c_stack[1].id \in 1..runloop_id_counter /\ runloop_id_counter \in Nat
    BY DEF ExInv, Chain
  <2>. QED BY <2>1
<1>. HIDE DEF id
<1>3. g \in Frame /\ g.kind # "phasers"
  BY <1>2 DEF Frame, RunopsFrame
<1>. HIDE DEF g
<1>4. Forgets(c_stack, c_stack')
  BY <1>1, <1>3, ExFacts, ForgetsMore
<1>. QED BY <1>1, <1>2, <1>4, CallOrders

(* The current context has an exception, or has it no more. *)
Remarked(v, w, m) ==
  /\ v \in ContextRecord /\ v.caller = w.caller /\ v.entry = w.entry /\ v.runloop = w.runloop
  /\ v.handlers = w.handlers /\ v.pushed = w.pushed /\ m = IF v.handling THEN v.exception ELSE 0

Moved(s, t, c, m) == Marks(t) = [Marks(s) EXCEPT ![c] = m]

LEMMA MarkRearranges ==
  ASSUME NEW s, Calls(s), NEW u, NEW c \in 1..Len(s), NEW v, NEW m, Remarked(v, s[c], m), NEW t, t = [s EXCEPT ![c] = v]
  PROVE  Rearranged(s, t, u) /\ Moved(s, t, c, m)
<1>1. Becomes(s, t, c, v)
  BY ContextChanges DEF Remarked
<1>2. Rearranged(s, t, u)
  BY <1>1, NothingRearranged DEF Becomes, Remarked
<1>3. Len(s) \in Nat
  BY CallsFields
<1>4. \A r : Becomes(s, r, c, v) => Marks(r) = [Marks(s) EXCEPT ![c] = IF v.handling THEN v.exception ELSE 0]
  BY <1>3, MarksBecome
<1>. QED BY <1>1, <1>2, <1>4 DEF Remarked, Moved

LEMMA ReturnOrders ==
  ASSUME ExInv, OrdInv, Return
  PROVE  OrdInv'
<1>1. /\ ended' = 0 /\ ctx # 1 /\ ctx' = contexts[ctx].caller /\ UNCHANGED <<contexts, exceptions>> /\ c_stack # <<>>
      /\ c_stack' = Front(c_stack) \/ c_stack' = c_stack
  BY DEF Return, InOp, Innermost
<1>2. Calls(contexts) /\ ctx \in 1..Len(contexts) /\ c_stack \in Seq(Frame)
  BY ExFacts
<1>3. contexts[ctx].caller \in Up(contexts, ctx)
  <2>1. contexts[ctx].caller \in 1..Len(contexts)
    BY <1>1, <1>2, CallsFields
  <2>. QED BY <1>2, <2>1, UpIs
<1>4. Forgets(c_stack, c_stack')
  BY <1>1, <1>2, ForgetsFront, ForgetsNothing
<1>5. \A A, x : Guided(A, contexts, exceptions, ctx, x) => \E q \in A : At(q, ctx', Marks(contexts'))
  BY <1>1, <1>2, <1>3, SpotGoes
<1>6. Rearranged(contexts, contexts', ctx)
  BY <1>1, StayRearranges
<1>. QED BY <1>1, <1>4, <1>5, <1>6, OrdGoes

(* The exception that the current context handles. *)
LEMMA HandledHere ==
  ASSUME ExInv, InOp, contexts[ctx].handling, NEW x, x = contexts[ctx].exception
  PROVE  /\ x \in 1..Len(exceptions) /\ x # 0 /\ Marks(contexts)[ctx] = x /\ ~PendingIn(x, c_stack)
         /\ exceptions[x].handler \in ToSet(runloops)
         /\ \E d : HasLoop(c_stack, d) /\ c_stack[d].id = exceptions[x].handler
<1>1. /\ Typed(contexts, exceptions, ctx) /\ Len(exceptions) \in Nat /\ ctx \in 1..Len(contexts) /\ ctx \in Nat
      /\ ctx \in Up(contexts, ctx)
  BY ExFacts
<1>2. PICK K : PointsRight(K, contexts, exceptions, c_stack, ctx)
  BY DEF ExInv
<1>3. x \in 1..Len(exceptions) /\ x # 0 /\ Marks(contexts)[ctx] = x
  BY <1>1 DEF Typed, Marks
<1>4. PICK k \in K : /\ k.ctx = ctx /\ k.depth = Len(c_stack) /\ k.marks[ctx] = Marks(contexts)[ctx]
                     /\ Unwinds(k, K, contexts, c_stack)
  BY <1>2, OpPoint
<1>5. Sound(K, contexts, exceptions, c_stack)
  BY <1>2 DEF PointsRight
<1>6. Marked(x, ctx, contexts, exceptions, c_stack)
  BY <1>1, <1>3, <1>4, <1>5 DEF Sound, Placed
<1>7. PICK q \in K : Unwound(q, ctx, k, contexts, c_stack)
  BY <1>1, <1>4 DEF Unwinds
<1>8. HasLoop(c_stack, q.depth) /\ c_stack[q.depth].id = exceptions[x].handler
  <2>1. q.depth \in 1..Len(c_stack)
    BY <1>5 DEF Sound, Placed
  <2>. QED BY <1>6, <1>7, <2>1 DEF HasLoop, Unwound, Marked
<1>9. exceptions[x].handler \in ToSet(runloops)
  <2>1. Chain(c_stack, runloops, runloop_id_counter)
    BY DEF ExInv
  <2>2. PICK j \in 1..Len(runloops) : runloops[j] = exceptions[x].handler
    <3>1. \A i : HasLoop(c_stack, i) => \E j \in 1..Len(runloops) : runloops[j] = c_stack[i].id
      BY <2>1 DEF Chain
    <3>. QED BY <1>8, <3>1, Zenon
  <2>3. DOMAIN runloops = 1..Len(runloops)
    BY <2>1, LenProperties DEF Chain
  <2>. QED BY <2>2, <2>3 DEF ToSet
<1>. QED BY <1>3, <1>6, <1>8, <1>9 DEF Marked

LEMMA FinalizeOrders ==
  ASSUME ExInv, OrdInv, Finalize
  PROVE  OrdInv'
<1>. DEFINE x == contexts[ctx].exception
            rid == exceptions[x].handler
<1>1. InOp /\ contexts[ctx].handling
  BY DEF Finalize
<1>2. /\ x \in 1..Len(exceptions) /\ x # 0 /\ rid \in ToSet(runloops)
      /\ \E d : HasLoop(c_stack, d) /\ c_stack[d].id = rid
  BY <1>1, HandledHere
<1>3. PICK d : HasLoop(c_stack, d) /\ c_stack[d].id = rid
  BY <1>2
<1>4. /\ contexts' = [contexts EXCEPT ![ctx].handling = FALSE] /\ c_stack' = JumpTo(rid)
      /\ UNCHANGED <<ctx, exceptions>> /\ ended' = 0
  BY <1>1, <1>2 DEF Finalize, InOp, Innermost
<1>5. /\ Calls(contexts) /\ ctx \in 1..Len(contexts) /\ ctx \in Up(contexts, ctx) /\ c_stack \in Seq(Frame)
      /\ contexts[ctx] \in ContextRecord /\ Len(exceptions) \in Nat
  BY ExFacts
<1>. DEFINE v == [contexts[ctx] EXCEPT !.exception = x, !.handling = FALSE]
<1>6. contexts' = [contexts EXCEPT ![ctx] = v]
  BY <1>4, <1>5 DEF ContextRecord, Calls
<1>. HIDE DEF x, rid
<1>7. Rearranged(contexts, contexts', ctx) /\ Marks(contexts') = [Marks(contexts) EXCEPT ![ctx] = 0]
  <2>1. x \in Nat
    BY <1>2, <1>5
  <2>2. Remarked(v, contexts[ctx], 0)
    BY <1>5, <2>1 DEF Remarked, ContextRecord
  <2>. HIDE DEF v
  <2>3. Rearranged(contexts, contexts', ctx) /\ Moved(contexts, contexts', ctx, 0)
    BY <1>5, <1>6, <2>2, MarkRearranges
  <2>. QED BY <2>3 DEF Moved
<1>8. Forgets(c_stack, c_stack')
  <2>1. c_stack' = SubSeq(c_stack, 1, d)
    <3>1. LoopsApart(c_stack)
      BY DEF ExInv, Chain
    <3>. QED BY <1>3, <1>4, <1>5, <3>1, JumpIs
  <2>2. d \in 0..Len(c_stack)
    <3>1. Len(c_stack) \in Nat
      BY <1>5, LenProperties
    <3>. QED BY <1>3, <3>1 DEF HasLoop
  <2>. QED BY <1>5, <2>1, <2>2, ForgetsInner
<1>9. ASSUME NEW A, NEW y, Guided(A, contexts, exceptions, ctx, y) PROVE \E q \in A : At(q, ctx', Marks(contexts'))
  <2>1. \E q \in A : At(q, ctx, [Marks(contexts) EXCEPT ![ctx] = 0])
    BY <1>5, <1>9, SpotGoes, Zenon
  <2>. QED BY <1>4, <1>7, <2>1
<1>. QED BY <1>4, <1>7, <1>8, <1>9, OrdGoes

(* Marks are of exceptions that there are. *)
LEMMA ResumableStay ==
  ASSUME NEW A, NEW s, NEW e, NEW x, Closed(A, s, e, x), Len(e) \in Nat, NEW f, NEW z,
         \A y \in 1..Len(e) : (\E k \in A : k.marks[k.ctx] = y) /\ y # z /\ Resumable(f[y]) =>
            y # x /\ Resumable(e[y]) /\ f[y].resume = e[y].resume /\ Back(f[y]) = Back(e[y])
  PROVE  StayResumable(A, e, x, f, z)
<1>1. ASSUME NEW k \in A, NEW y, y = k.marks[k.ctx], y # 0 PROVE y \in 1..Len(e)
  <2>1. k \in Spots /\ Standing(k, s, e)
    BY DEF Closed
  <2>2. y \in Nat /\ y <= Len(e)
    BY <1>1, <2>1 DEF Spots, Standing
  <2>. QED BY <1>1, <2>2
<1>. QED BY <1>1 DEF StayResumable

LEMMA ResumeOrders ==
  ASSUME ExInv, OrdInv, Resume
  PROVE  OrdInv'
<1>. DEFINE x == contexts[ctx].exception
            a == exceptions[x].before[1]
            b == exceptions[x].before[2]
<1>1. /\ InOp /\ contexts[ctx].handling /\ Resumable(exceptions[x]) /\ ctx' = exceptions[x].resume
      /\ contexts' = [contexts EXCEPT ![ctx].exception = a, ![ctx].handling = b]
      /\ exceptions' = [exceptions EXCEPT ![x].had = <<>>] /\ c_stack' = c_stack /\ ended' = 0
  BY DEF Resume, Resumable, InOp, Innermost
<1>2. x \in 1..Len(exceptions) /\ x # 0 /\ Marks(contexts)[ctx] = x /\ ~PendingIn(x, c_stack)
  BY <1>1, HandledHere
<1>3. /\ Calls(contexts) /\ ctx \in 1..Len(contexts) /\ exceptions \in Seq(ExceptionRecord) /\ Len(exceptions) \in Nat
      /\ exceptions[x] \in ExceptionRecord /\ Ordered(contexts, exceptions, ctx)
  BY <1>2, ExFacts DEF OrdInv
<1>4. a \in Nat /\ b \in BOOLEAN /\ Back(exceptions[x]) = IF b THEN a ELSE 0
  <2>1. exceptions[x].before \in Nat \X BOOLEAN
    BY <1>3 DEF ExceptionRecord
  <2>. QED BY <2>1 DEF Back
<1>. DEFINE v == [contexts[ctx] EXCEPT !.exception = a, !.handling = b]
<1>13. contexts' = [contexts EXCEPT ![ctx] = v]
  BY <1>1, <1>3 DEF Calls
<1>. HIDE DEF x, a, b
<1>5. Rearranged(contexts, contexts', ctx) /\ Marks(contexts') = [Marks(contexts) EXCEPT ![ctx] = Back(exceptions[x])]
  <2>1. contexts[ctx] \in ContextRecord
    BY ExFacts
  <2>2. Remarked(v, contexts[ctx], Back(exceptions[x]))
    BY <1>4, <2>1 DEF Remarked, ContextRecord
  <2>. HIDE DEF v
  <2>3. Rearranged(contexts, contexts', ctx) /\ Moved(contexts, contexts', ctx, Back(exceptions[x]))
    BY <1>3, <1>13, <2>2, MarkRearranges
  <2>. QED BY <2>3 DEF Moved
<1>6. /\ Len(exceptions') = Len(exceptions) /\ exceptions'[x].had = <<>>
      /\ \A y \in 1..Len(exceptions) : y # x => exceptions'[y] = exceptions[y]
      /\ \A y \in 1..Len(exceptions) : /\ exceptions'[y].handled = exceptions[y].handled
                                       /\ exceptions'[y].resume = exceptions[y].resume
                                       /\ exceptions'[y].before = exceptions[y].before
  <2>. DEFINE w == [exceptions[x] EXCEPT !.had = <<>>]
  <2>1. <<>> \in Seq(Nat \X Nat)
    OBVIOUS
  <2>2. /\ w \in ExceptionRecord /\ w.handled = exceptions[x].handled /\ w.resume = exceptions[x].resume
        /\ w.before = exceptions[x].before /\ w.had = <<>>
    BY <1>3, <2>1 DEF ExceptionRecord
  <2>3. exceptions' = [exceptions EXCEPT ![x] = w]
    BY <1>1, <1>3
  <2>. HIDE DEF w
  <2>4. /\ Len(exceptions') = Len(exceptions)
        /\ \A y \in 1..Len(exceptions) : exceptions'[y] = IF y = x THEN w ELSE exceptions[y]
    BY <1>2, <1>3, <2>2, <2>3, ExceptSeq
  <2>. QED BY <1>2, <2>2, <2>4
<1>7. /\ \A c \in 1..Len(contexts') : Numbered(contexts'[c])
      /\ \A y \in 1..Len(exceptions) : exceptions[y].had # <<>> => HadRight(contexts', exceptions[y])
  BY <1>3, <1>5, OrderedHad
<1>8. \A y \in 1..Len(exceptions) : exceptions'[y].had # <<>> => y # x
  BY <1>6
<1>9. ASSUME NEW y \in Guides(exceptions') PROVE \E B : Guided(B, contexts', exceptions', ctx', y)
  <2>1. y # x /\ y \in Guides(exceptions) /\ (y # 0 => y \in 1..Len(exceptions) /\ exceptions'[y] = exceptions[y])
    BY <1>2, <1>6, <1>8 DEF Guides
  <2>2. PICK A : Guided(A, contexts, exceptions, ctx, y)
    BY <1>3, <2>1 DEF Ordered
  <2>3. PICK q \in A : At(q, ctx', Marks(contexts'))
    <3>1. \E q \in A : At(q, exceptions[x].resume, [Marks(contexts) EXCEPT ![ctx] = Back(exceptions[x])])
      BY <1>1, <1>2, <1>3, <2>1, <2>2, SpotGoes, Zenon
    <3>. QED BY <1>1, <1>5, <3>1
  <2>4. StayResumable(A, exceptions, y, exceptions', y)
    <3>1. Closed(A, contexts, exceptions, y)
      BY <2>2 DEF Guided
    <3>. QED BY <1>3, <1>6, <3>1, ResumableStay DEF Resumable, Back
  <2>5. y # 0 => exceptions[y].origin \in 1..Len(contexts)
    BY <1>3, <2>1 DEF Guides, Ordered, HadRight
  <2>6. Same(contexts, contexts') /\ Len(exceptions') \in Nat /\ Len(exceptions) <= Len(exceptions')
    BY <1>3, <1>5, <1>6 DEF Rearranged
  <2>. QED BY <1>3, <2>1, <2>2, <2>3, <2>4, <2>5, <2>6, GuidedAt
<1>10. Ordered(contexts', exceptions', ctx')
  BY <1>6, <1>7, <1>8, <1>9 DEF Ordered
<1>11. \A y : PendingIn(y, c_stack') => y \in 1..Len(exceptions') /\ exceptions'[y].had # <<>>
  BY <1>1, <1>2, <1>6 DEF OrdInv
<1>12. \A y \in 1..Len(exceptions') : ended' # y
  BY <1>1, <1>3, <1>6
<1>. QED BY <1>10, <1>11, <1>12 DEF OrdInv-----------------------------------------------------------------------------
(* A throw.  What the search found is put in the exception: the other
   exceptions have their spots still, at which that one is not resumed. *)
Led(A, y, f) ==
  /\ Guided(A, contexts, exceptions, ctx, y) /\ StayResumable(A, exceptions, y, f, y)
  /\ y # 0 => /\ exceptions[y].origin \in 1..Len(contexts)
              /\ f[y].origin = exceptions[y].origin /\ f[y].context = exceptions[y].context

LEMMA OthersLed ==
  ASSUME ExInv, OrdInv, NEW x, NEW v, Thrown(x, v), NEW w, w.handled = v.handled, NEW f, Puts(f, x, w),
         NEW y \in Guides(exceptions), y # x
  PROVE  \E A : Led(A, y, f)
<1>1. Calls(contexts) /\ Len(exceptions) \in Nat /\ Ordered(contexts, exceptions, ctx)
  BY ExFacts DEF OrdInv
<1>2. PICK A : Guided(A, contexts, exceptions, ctx, y)
  BY <1>1 DEF Ordered
<1>3. y # 0 => y \in 1..Len(exceptions) /\ exceptions[y].origin \in 1..Len(contexts) /\ f[y] = exceptions[y]
  BY <1>1 DEF Guides, Ordered, HadRight, Puts
<1>4. CASE x \in 1..Len(exceptions) /\ v.handled # -1
  <2>1. \A a \in Up(contexts, ctx) : Marks(contexts)[a] = 0
    BY <1>4 DEF Thrown, ThrownFirst
  <2>2. Guided(Plain(A, contexts), contexts, exceptions, ctx, y) /\ \A k \in Plain(A, contexts) : k.marks[k.ctx] = 0
    BY <1>1, <1>2, <2>1, PlainStay
  <2>. QED BY <1>3, <2>2 DEF Led, StayResumable
<1>5. CASE ~(x \in 1..Len(exceptions) /\ v.handled # -1)
  <2>1. \A z \in 1..Len(exceptions) : Resumable(f[z]) => f[z] = exceptions[z]
    <3>. SUFFICES ASSUME NEW z \in 1..Len(exceptions), Resumable(f[z]), z = x PROVE FALSE
      BY DEF Puts
    <3>1. v.handled = -1 /\ f[z].handled = v.handled
      BY <1>5 DEF Puts
    <3>. QED BY <3>1 DEF Resumable
  <2>2. Closed(A, contexts, exceptions, y)
    BY <1>2 DEF Guided
  <2>3. StayResumable(A, exceptions, y, f, y)
    BY <1>1, <2>1, <2>2, ResumableStay
  <2>. QED BY <1>2, <1>3, <2>3 DEF Led
<1>. QED BY <1>4, <1>5

(* As is the one that is thrown, where it was left. *)
LEMMA ItLed ==
  ASSUME ExInv, OrdInv, NEW x, NEW f, NEW w, Puts(f, x, w), NEW y \in Guides(exceptions), y \in {0, x}
  PROVE  \E A : Guided(A, contexts, exceptions, ctx, y) /\ StayResumable(A, exceptions, y, f, x)
<1>1. Len(exceptions) \in Nat /\ Ordered(contexts, exceptions, ctx)
  BY ExFacts DEF OrdInv
<1>2. PICK A : Guided(A, contexts, exceptions, ctx, y)
  BY <1>1 DEF Ordered
<1>3. Closed(A, contexts, exceptions, y)
  BY <1>2 DEF Guided
<1>4. \A z \in 1..Len(exceptions) : z # x => f[z] = exceptions[z] /\ z # y
  <2>1. \A z \in 1..Len(exceptions) : z # 0
    BY <1>1
  <2>. QED BY <2>1 DEF Puts
<1>5. StayResumable(A, exceptions, y, f, x)
  BY <1>1, <1>3, <1>4, ResumableStay
<1>. QED BY <1>2, <1>5

(* What a handler has had does not depend on the rest of an exception. *)
LEMMA HadToo ==
  ASSUME NEW s, NEW v, HadRight(s, v), NEW w, w.had = v.had, w.type = v.type, w.context = v.context, w.origin = v.origin,
         w.handlers_left = v.handlers_left
  PROVE  HadRight(s, w)
  BY DEF HadRight, HadBelow, HadHere, HadInside, LastHad, Passed, Had

(* The handlers that had an exception, when one is put. *)
LEMMA PutHad ==
  ASSUME ExInv, OrdInv, NEW x, NEW f, NEW w, Puts(f, x, w), NEW t, Rearranged(contexts, t, ctx),
         w.had # <<>> => HadRight(t, w)
  PROVE  /\ \A c \in 1..Len(t) : Numbered(t[c])
         /\ \A y \in 1..Len(f) : f[y].had # <<>> => HadRight(t, f[y])
<1>1. exceptions \in Seq(ExceptionRecord) /\ Ordered(contexts, exceptions, ctx)
  BY ExFacts DEF OrdInv
<1>2. /\ \A c \in 1..Len(t) : Numbered(t[c])
      /\ \A y \in 1..Len(exceptions) : exceptions[y].had # <<>> => HadRight(t, exceptions[y])
  BY <1>1, OrderedHad
<1>3. ASSUME NEW y \in 1..Len(f), f[y].had # <<>> PROVE HadRight(t, f[y])
  <2>1. y = x \/ (y \in 1..Len(exceptions) /\ f[y] = exceptions[y])
    BY DEF Puts
  <2>2. CASE y = x
    BY <1>3, <2>2 DEF Puts
  <2>3. CASE y # x
    BY <1>2, <1>3, <2>1, <2>3
  <2>. QED BY <2>2, <2>3
<1>. QED BY <1>2, <1>3

(* The invariant after a throw. *)
LEMMA ThrownOrdered ==
  ASSUME ExInv, OrdInv, NEW x, NEW w, Puts(exceptions', x, w), Rearranged(contexts, contexts', ctx),
         w.had # <<>> => HadRight(contexts', w),
         \A y \in Guides(exceptions) : y # x => \E B : Guided(B, contexts', exceptions', ctx', y),
         w.had # <<>> => \E B : Guided(B, contexts', exceptions', ctx', x),
         \A y : PendingIn(y, c_stack') => (PendingIn(y, c_stack) /\ y # x) \/ (y = x /\ w.had # <<>>),
         ended' = 0 \/ (ended' = x /\ Exhausted(contexts', w))
  PROVE  OrdInv'
<1>1. /\ \A c \in 1..Len(contexts') : Numbered(contexts'[c])
      /\ \A y \in 1..Len(exceptions') : exceptions'[y].had # <<>> => HadRight(contexts', exceptions'[y])
  BY PutHad
<1>2. Len(exceptions) \in Nat /\ Len(exceptions') \in Nat
  BY ExFacts DEF Puts
<1>3. \A y \in 1..Len(exceptions') : y = x \/ (y \in 1..Len(exceptions) /\ exceptions'[y] = exceptions[y])
  BY DEF Puts
<1>4. exceptions'[x] = w /\ x \in 1..Len(exceptions') /\ x # 0
  BY <1>2 DEF Puts
<1>5. ASSUME NEW y \in Guides(exceptions') PROVE \E B : Guided(B, contexts', exceptions', ctx', y)
  <2>1. CASE y = x
    <3>1. w.had # <<>>
      BY <1>4, <2>1 DEF Guides
    <3>. QED BY <2>1, <3>1
  <2>2. CASE y # x
    <3>1. y \in Guides(exceptions)
      BY <1>3, <2>2 DEF Guides
    <3>. QED BY <2>2, <3>1
  <2>. QED BY <2>1, <2>2
<1>6. ASSUME NEW y, PendingIn(y, c_stack') PROVE y \in 1..Len(exceptions') /\ exceptions'[y].had # <<>>
  <2>1. CASE y = x
    BY <1>4, <1>6, <2>1
  <2>2. CASE y # x
    <3>1. PendingIn(y, c_stack)
      BY <1>6, <2>2
    <3>2. y \in 1..Len(exceptions) /\ exceptions[y].had # <<>>
      BY <3>1 DEF OrdInv
    <3>. QED BY <2>2, <3>2 DEF Puts
  <2>. QED BY <2>1, <2>2
<1>7. \A y \in 1..Len(exceptions') : ended' = y => Exhausted(contexts', exceptions'[y])
  BY <1>2, <1>4
<1>. QED BY <1>1, <1>5, <1>6, <1>7 DEF OrdInv, Ordered
LEMMA SearchesRight ==
  ASSUME ExInv, OrdInv, NEW x, NEW v, Thrown(x, v)
  PROVE  SearchRight(v)
<1>1. \A y \in 1..Len(exceptions) : exceptions[y].had # <<>> => HadRight(contexts, exceptions[y])
  BY DEF OrdInv, Ordered
<1>. QED BY <1>1, ExFacts, SearchIs

(* Nobody takes it. *)
LEMMA UnhandledOrders ==
  ASSUME ExInv, OrdInv, NEW x, NEW v, NEW op, Throwable(x, v, op), Thrown(x, v), Found(v) = {}, Unhandled(x, v, op),
         Puts(exceptions', x, v)
  PROVE  OrdInv'
<1>1. /\ Calls(contexts) /\ Len(exceptions) \in Nat /\ Len(exceptions') \in Nat /\ Len(exceptions) <= Len(exceptions')
      /\ Same(contexts, contexts) /\ Ordered(contexts, exceptions, ctx)
  BY ExFacts DEF Puts, OrdInv, Same
<1>2. contexts' = contexts /\ c_stack' = c_stack /\ ctx' = ctx /\ (ended' = 0 \/ ended' = x)
  <2>1. ended = 0
    BY DEF Throwable, InOp, InC, Innermost
  <2>2. contexts' = contexts /\ c_stack' = c_stack
    BY DEF Unhandled
  <2>3. ctx' = ctx
    BY DEF Unhandled, Throwable
  <2>. QED BY <2>1, <2>2, <2>3 DEF Unhandled
<1>3. Exhausted(contexts, v)
  <2>1. SearchRight(v)
    BY SearchesRight
  <2>2. Start(v) \in 1..Len(contexts)
    BY <2>1 DEF SearchRight
  <2>. QED BY <1>1, <2>1, <2>2, NoneAble, ExhaustedIs
<1>4. v.had # <<>> => v.handled = -1 /\ Rethrown(x, v)
  BY DEF Thrown, ThrownFirst
<1>5. v.had # <<>> => HadRight(contexts, v)
  <2>. SUFFICES ASSUME v.had # <<>> PROVE HadRight(contexts, v)
    OBVIOUS
  <2>1. Rethrown(x, v)
    BY <1>4
  <2>2. HadRight(contexts, exceptions[x])
    BY <1>1, <2>1 DEF Rethrown, Ordered
  <2>. QED BY <2>1, <2>2, HadToo DEF Rethrown
<1>6. ASSUME NEW y \in Guides(exceptions), y # x PROVE \E B : Guided(B, contexts, exceptions', ctx, y)
  <2>1. PICK A : Led(A, y, exceptions')
    BY <1>6, OthersLed
  <2>2. PICK q \in A : At(q, ctx, Marks(contexts))
    BY <2>1 DEF Led, Guided
  <2>. QED BY <1>1, <2>1, <2>2, GuidedAt DEF Led
<1>7. ASSUME v.had # <<>> PROVE \E B : Guided(B, contexts, exceptions', ctx, x)
  <2>1. Rethrown(x, v) /\ x \in Guides(exceptions) /\ x \in {0, x}
    BY <1>4, <1>7 DEF Rethrown, Guides
  <2>2. PICK A : Guided(A, contexts, exceptions, ctx, x) /\ StayResumable(A, exceptions, x, exceptions', x)
    BY <2>1, ItLed
  <2>3. PICK q \in A : At(q, ctx, Marks(contexts))
    BY <2>2 DEF Guided
  <2>4. /\ exceptions[x].origin \in 1..Len(contexts) /\ exceptions'[x].origin = exceptions[x].origin
        /\ exceptions'[x].context = exceptions[x].context
    <3>1. HadRight(contexts, exceptions[x])
      BY <1>1, <2>1 DEF Rethrown, Ordered
    <3>. QED BY <2>1, <3>1 DEF HadRight, Rethrown, Puts
  <2>. QED BY <1>1, <2>2, <2>3, <2>4, GuidedAt
<1>8. \A y : PendingIn(y, c_stack') => (PendingIn(y, c_stack) /\ y # x) \/ (y = x /\ v.had # <<>>)
  BY <1>2 DEF Thrown, ThrownFirst, Rethrown
<1>9. Rearranged(contexts, contexts', ctx)
  BY <1>2, StayRearranges
<1>. QED BY <1>2, <1>3, <1>5, <1>6, <1>7, <1>8, <1>9, ThrownOrdered

(* The handler that is found has it after those that had it: where the handlers
   are left as they are, and but for those that are deleted. *)
LEMMA FoundHad ==
  ASSUME ExInv, OrdInv, NEW x, NEW v, Thrown(x, v), NEW c, NEW i, Able(v, c, i), Finds(v, c, i),
         \A d, n : Able(v, d, n) => d < c \/ (d = c /\ n >= i), NEW w, w = Caught(v, c, i),
         NEW t, Rearranged(contexts, t, 0)
  PROVE  HadRight(t, w) /\ w.had # <<>> /\ w \in ExceptionRecord
<1>1. Calls(contexts) /\ Typed(contexts, exceptions, ctx) /\ SearchRight(v) /\ v \in ExceptionRecord
  BY ExFacts, SearchesRight DEF Thrown
<1>2. \A d \in 1..Len(contexts) : Numbered(contexts[d])
  BY DEF OrdInv, Ordered
<1>3. HadRight(contexts, w) /\ w.had # <<>>
  BY <1>1, <1>2, CaughtHad
<1>4. w \in ExceptionRecord
  <2>1. c \in 1..Len(contexts) /\ i \in 1..Len(contexts[c].handlers)
    BY DEF Finds
  <2>. QED BY <1>1, <2>1, CaughtIs
<1>5. 0 \notin Up(contexts, w.origin)
  <2>1. w.origin \in 1..Len(contexts) /\ Len(contexts) \in Nat
    BY <1>3, ExFacts DEF HadRight
  <2>2. Up(contexts, w.origin) \subseteq 1..w.origin /\ w.origin \in Nat
    BY <1>1, <2>1, UpBelow
  <2>3. 0 \notin 1..w.origin
    BY <2>2
  <2>. QED BY <2>2, <2>3
<1>. QED BY <1>2, <1>3, <1>4, <1>5, HadStays
(* It is a handler of the program. *)
LEMMA HandlerOrders ==
  ASSUME ExInv, OrdInv, NEW x, NEW v, NEW op, Throwable(x, v, op), Thrown(x, v),
         NEW c, NEW i, Able(v, c, i), Finds(v, c, i), \A d, n : Able(v, d, n) => d < c \/ (d = c /\ n >= i),
         contexts[c].handlers[i].frame = 0, NEW w, w = Caught(v, c, i), Puts(exceptions', x, w), RunHandler(x, c, op)
  PROVE  OrdInv'
<1>. DEFINE C == [contexts[c] EXCEPT !.exception = x, !.handling = TRUE]
<1>1. /\ Calls(contexts) /\ Typed(contexts, exceptions, ctx) /\ Len(exceptions) \in Nat /\ Len(contexts) \in Nat
      /\ Len(exceptions') \in Nat /\ Len(exceptions) <= Len(exceptions') /\ x \in 1..Len(exceptions') /\ exceptions'[x] = w
  BY ExFacts DEF Puts
<1>2. /\ c \in 1..Len(contexts) /\ c \in Up(contexts, ctx) /\ i \in 1..Len(contexts[c].handlers) /\ v \in ExceptionRecord
  BY DEF Finds, Throwable
<1>3. /\ contexts' = [contexts EXCEPT ![c].exception = x, ![c].handling = TRUE] /\ ctx' = c /\ ended' = 0
      /\ c_stack' = IF op THEN c_stack ELSE JumpTo(current_runloop_id)
  BY DEF RunHandler, Throwable, InOp, InC, Innermost
<1>4. contexts[c] \in ContextRecord /\ x \in Nat /\ x # 0
  BY <1>1, <1>2, CallsFields
<1>5. contexts' = [contexts EXCEPT ![c] = C]
  BY <1>1, <1>3 DEF Calls
<1>6. Remarked(C, contexts[c], x)
  BY <1>4 DEF Remarked, ContextRecord
<1>. HIDE DEF C
<1>7. /\ Rearranged(contexts, contexts', ctx) /\ Rearranged(contexts, contexts', 0)
      /\ Marks(contexts') = [Marks(contexts) EXCEPT ![c] = x]
  <2>1. Moved(contexts, contexts', c, x) /\ \A u : Rearranged(contexts, contexts', u)
    BY <1>1, <1>2, <1>5, <1>6, MarkRearranges
  <2>. QED BY <2>1 DEF Moved
<1>8. HadRight(contexts', w) /\ w.had # <<>>
  BY <1>7, FoundHad
<1>9. w.context = c /\ w.handled = v.handled /\ w.resume = v.resume /\ Back(w) = Marks(contexts)[c]
  BY <1>1, <1>2, CaughtIs
<1>10. Invoked(contexts, exceptions, ctx, contexts', exceptions', c, x)
  <2>1. Same(contexts, contexts') /\ Marks(contexts) \in [Nat -> Nat]
    BY <1>1, <1>7, MarksAre DEF Rearranged, MarksRight
  <2>2. Resumable(w) => w.resume = ctx
    BY <1>9 DEF Resumable, Throwable
  <2>. QED BY <1>1, <1>2, <1>7, <1>9, <2>1, <2>2 DEF Invoked
<1>11. ASSUME NEW y \in Guides(exceptions), y # x PROVE \E B : Guided(B, contexts', exceptions', ctx', y)
  <2>1. PICK A : Led(A, y, exceptions')
    BY <1>9, <1>11, OthersLed
  <2>. QED BY <1>3, <1>10, <1>11, <2>1, RunsOther DEF Led
<1>12. \E B : Guided(B, contexts', exceptions', ctx', x)
  <2>1. 0 \in Guides(exceptions) /\ 0 \in {0, x}
    BY DEF Guides
  <2>2. PICK A : Guided(A, contexts, exceptions, ctx, 0) /\ StayResumable(A, exceptions, 0, exceptions', x)
    BY <2>1, ItLed
  <2>. QED BY <1>3, <1>10, <2>2, RunsIt
<1>13. \A y : PendingIn(y, c_stack') => (PendingIn(y, c_stack) /\ y # x) \/ (y = x /\ w.had # <<>>)
  <2>1. PICK D : HandlerStack(x, v, c, D, c_stack')
    BY <1>3, HandlerStackIs
  <2>2. /\ D \in 1..Len(c_stack) /\ Len(c_stack') = D /\ ~PendingIn(x, c_stack') /\ \A j \in 1..D : c_stack'[j] = c_stack[j]
    BY <2>1 DEF HandlerStack
  <2>3. \A j \in 1..D : j \in 1..Len(c_stack)
    <3>1. Len(c_stack) \in Nat
      BY ExFacts, LenProperties
    <3>. QED BY <2>2, <3>1
  <2>. QED BY <2>2, <2>3 DEF PendingIn
<1>. QED BY <1>3, <1>7, <1>8, <1>11, <1>12, <1>13, ThrownOrdered

(* C code catches it. *)
LEMMA CatchOrders ==
  ASSUME ExInv, OrdInv, NEW x, NEW v, NEW op, Throwable(x, v, op), Thrown(x, v),
         NEW c, NEW i, Able(v, c, i), Finds(v, c, i), \A d, n : Able(v, d, n) => d < c \/ (d = c /\ n >= i),
         NEW w, w = Caught(v, c, i), Puts(exceptions', x, w), Catch(x, c)
  PROVE  OrdInv'
<1>1. /\ Calls(contexts) /\ Typed(contexts, exceptions, ctx) /\ Len(exceptions) \in Nat /\ Len(contexts) \in Nat
      /\ Len(exceptions') \in Nat /\ Len(exceptions) <= Len(exceptions') /\ x \in 1..Len(exceptions') /\ exceptions'[x] = w
      /\ ctx \in 1..Len(contexts) /\ Ordered(contexts, exceptions, ctx)
  BY ExFacts DEF Puts, OrdInv
<1>2. /\ c \in 1..Len(contexts) /\ c \in Up(contexts, ctx) /\ i \in 1..Len(contexts[c].handlers) /\ v \in ExceptionRecord
  BY DEF Finds, Throwable
<1>3. /\ contexts[c].handlers # <<>> /\ contexts' = [contexts EXCEPT ![c].handlers = Tail(@)] /\ ctx' = c /\ ended' = 0
      /\ \E j0, D : CatchStack(x, c, j0, D, c_stack')
  BY DEF Catch, Throwable, InOp, InC, Innermost
<1>4. /\ Rearranged(contexts, contexts', ctx) /\ Rearranged(contexts, contexts', 0) /\ Marks(contexts') = Marks(contexts)
      /\ Same(contexts, contexts')
  <2>1. \A u : Rearranged(contexts, contexts', u) /\ Marks(contexts') = Marks(contexts)
    BY <1>1, <1>2, <1>3, TailRearranges
  <2>. QED BY <2>1 DEF Rearranged
<1>5. HadRight(contexts', w) /\ w.had # <<>>
  BY <1>4, FoundHad
<1>6. w.context = c /\ w.handled = v.handled /\ w.origin = v.origin
  BY <1>2, CaughtFields
<1>7. ASSUME NEW y \in Guides(exceptions), y # x PROVE \E B : Guided(B, contexts', exceptions', ctx', y)
  <2>1. PICK A : Led(A, y, exceptions')
    BY <1>6, <1>7, OthersLed
  <2>2. PICK q \in A : At(q, c, Marks(contexts))
    <3>1. Guided(A, contexts, exceptions, ctx, y)
      BY <2>1 DEF Led
    <3>. QED BY <1>1, <1>2, <3>1, SpotGoes, Zenon
  <2>. QED BY <1>1, <1>3, <1>4, <2>1, <2>2, GuidedAt DEF Led
<1>8. \E B : Guided(B, contexts', exceptions', ctx', x)
  <2>1. SearchRight(v)
    BY SearchesRight
  <2>2. v.origin \in 1..Len(contexts)
    BY <2>1 DEF SearchRight
  <2>5. exceptions'[x].context = c /\ exceptions'[x].origin \in 1..Len(contexts)
    BY <1>1, <1>6, <2>2
  <2>3. CASE v.handled = -1
    <3>1. Rethrown(x, v) /\ x \in Guides(exceptions) /\ x \in {0, x}
      BY <2>3 DEF Thrown, Rethrown, Guides
    <3>2. PICK A : Guided(A, contexts, exceptions, ctx, x) /\ StayResumable(A, exceptions, x, exceptions', x)
      BY <3>1, ItLed
    <3>3. exceptions[x].context \in Up(contexts, w.origin)
      <4>1. HadRight(contexts, exceptions[x])
        BY <1>1, <3>1 DEF Ordered, Rethrown
      <4>. QED BY <1>6, <3>1, <4>1 DEF HadRight, Rethrown
    <3>4. exceptions[x].context \in Up(contexts, ctx) /\ exceptions[x].origin = w.origin /\ x # 0
      BY <1>1, <1>6, <3>1 DEF Rethrown
    <3>5. Left(contexts, exceptions, ctx, x, exceptions', x)
      BY <1>1, <3>3, <3>4 DEF Left
    <3>6. \E B : Guided(B, contexts', exceptions', c, x)
      BY <1>1, <1>2, <1>4, <2>5, <3>1, <3>2, <3>5, CatchesIt
    <3>. QED BY <1>3, <3>6
  <2>4. CASE v.handled # -1
    <3>1. v.origin = ctx /\ 0 \in Guides(exceptions) /\ 0 \in {0, x}
      BY <2>4 DEF Thrown, ThrownFirst, Guides
    <3>2. PICK A : Guided(A, contexts, exceptions, ctx, 0) /\ StayResumable(A, exceptions, 0, exceptions', x)
      BY <3>1, ItLed
    <3>3. Left(contexts, exceptions, ctx, 0, exceptions', x)
      BY <1>1, <1>6, <3>1 DEF Left
    <3>4. \E B : Guided(B, contexts', exceptions', c, x)
      BY <1>1, <1>2, <1>4, <2>5, <3>1, <3>2, <3>3, CatchesIt
    <3>. QED BY <1>3, <3>4
  <2>. QED BY <2>3, <2>4
<1>9. \A y : PendingIn(y, c_stack') => (PendingIn(y, c_stack) /\ y # x) \/ (y = x /\ w.had # <<>>)
  BY <1>3, <1>5 DEF CatchStack
<1>. QED BY <1>3, <1>4, <1>5, <1>7, <1>8, <1>9, ThrownOrdered

(* A throw, whatever takes it. *)
LEMMA ThrowOrders ==
  ASSUME Habits = {}, ExInv, OrdInv, NEW x, NEW v, NEW op, Throws(x, v, op), Thrown(x, v)
  PROVE  OrdInv'
<1>. DEFINE Put(u) == IF x \in DOMAIN exceptions THEN [exceptions EXCEPT ![x] = u] ELSE Append(exceptions, u)
<1>1. Throwable(x, v, op) /\ Deliver(x, v, op)
  BY DEF Throws
<1>2. \/ Found(v) = {} /\ exceptions' = Put(v) /\ Unhandled(x, v, op)
      \/ \E p \in Found(v) :
           /\ exceptions' = Put(Caught(v, p[1], p[2]))
           /\ IF Handlers(p[1])[p[2]].frame = 0 THEN RunHandler(x, p[1], op)
              ELSE /\ op \/ p[1] = ctx \/ "C throws past C" \in Habits
                   /\ CatchInC(x, p[1], Handlers(p[1])[p[2]].frame, op)
  BY <1>1, Zenon DEF Deliver
<1>3. /\ Typed(contexts, exceptions, ctx) /\ exceptions \in Seq(ExceptionRecord)
      /\ x \in 1..Len(exceptions) + 1 /\ v \in ExceptionRecord
  BY <1>1 DEF ExInv, Typed, Throwable
<1>4. \A u \in ExceptionRecord : Puts(Put(u), x, u)
  BY <1>3, PutIs
<1>. HIDE DEF Put
<1>5. CASE Found(v) = {} /\ exceptions' = Put(v) /\ Unhandled(x, v, op)
  <2>1. Puts(exceptions', x, v)
    BY <1>3, <1>4, <1>5
  <2>. QED BY <1>1, <1>5, <2>1, UnhandledOrders
<1>6. ASSUME NEW p \in Found(v), exceptions' = Put(Caught(v, p[1], p[2])),
             IF Handlers(p[1])[p[2]].frame = 0 THEN RunHandler(x, p[1], op)
             ELSE /\ op \/ p[1] = ctx \/ "C throws past C" \in Habits
                  /\ CatchInC(x, p[1], Handlers(p[1])[p[2]].frame, op)
      PROVE  OrdInv'
  <2>1. PICK c, i : c = p[1] /\ i = p[2]
    OBVIOUS
  <2>2. Finds(v, c, i)
    BY <1>1, <2>1, FoundIs
  <2>3. Able(v, c, i) /\ \A d, n : Able(v, d, n) => d < c \/ (d = c /\ n >= i)
    BY <2>1, FoundFirst
  <2>4. PICK w : w = Caught(v, c, i)
    OBVIOUS
  <2>5. Puts(exceptions', x, w)
    <3>1. c \in 1..Len(contexts) /\ i \in 1..Len(contexts[c].handlers)
      BY <2>2 DEF Finds
    <3>2. w \in ExceptionRecord
      BY <1>3, <2>4, <3>1, CaughtIs
    <3>. QED BY <1>4, <1>6, <2>1, <2>4, <3>2
  <2>6. IF contexts[c].handlers[i].frame = 0 THEN RunHandler(x, c, op)
        ELSE (op \/ c = ctx) /\ CatchInC(x, c, contexts[c].handlers[i].frame, op)
    BY <1>6, <2>1, Zenon DEF Handlers
  <2>7. CASE contexts[c].handlers[i].frame = 0
    BY <1>1, <2>2, <2>3, <2>4, <2>5, <2>6, <2>7, HandlerOrders
  <2>8. CASE contexts[c].handlers[i].frame # 0
    <3>1. Catch(x, c)
      BY <1>1, <2>2, <2>4, <2>5, <2>6, <2>8, CaughtInC
    <3>. QED BY <1>1, <2>2, <2>3, <2>4, <2>5, <3>1, CatchOrders
  <2>. QED BY <2>7, <2>8
<1>. QED BY <1>2, <1>5, <1>6

(* Exceptions are thrown new, again, and on. *)
LEMMA ThrowNewOrders ==
  ASSUME Habits = {}, ExInv, OrdInv, NEW type \in Types, NEW op \in BOOLEAN, ThrowNew(type, op),
         InOp \/ (~op /\ InC /\ Last(c_stack).trying)
  PROVE  OrdInv'
<1>1. PICK x, v : x = Len(exceptions) + 1 /\ v = New(type, op)
  OBVIOUS
<1>2. Throws(x, v, op)
  BY <1>1, ThrowsNew
<1>3. v \in ExceptionRecord /\ x \in 1..Len(exceptions) + 1
  BY <1>2 DEF Throws, Throwable
<1>4. v.had = <<>> /\ v.origin = ctx /\ v.handled = 0
  BY <1>1 DEF New
<1>5. x \notin 1..Len(exceptions) /\ 0 # -1
  BY <1>1, ExFacts
<1>6. ~PendingIn(x, c_stack)
  BY <1>5 DEF OrdInv
<1>7. Thrown(x, v)
  BY <1>3, <1>4, <1>5, <1>6 DEF Thrown, ThrownFirst
<1>. QED BY <1>2, <1>7, ThrowOrders

LEMMA OnIs ==
  ASSUME NEW e \in ExceptionRecord
  PROVE  LET v == [e EXCEPT !.handled = -1]
         IN  /\ v.handled = -1 /\ v.had = e.had /\ v.type = e.type /\ v.context = e.context /\ v.origin = e.origin
             /\ v.handlers_left = e.handlers_left
  BY DEF ExceptionRecord

LEMMA ThrowsOnOrders ==
  ASSUME Habits = {}, ExInv, OrdInv, NEW x, NEW op, ThrowsOn(x, op), exceptions[x].had # <<>>,
         exceptions[x].context \in Up(contexts, ctx)
  PROVE  OrdInv'
<1>1. PICK v : v = [exceptions[x] EXCEPT !.handled = -1]
  OBVIOUS
<1>2. Throws(x, v, op) /\ x \in 1..Len(exceptions)
  BY <1>1 DEF ThrowsOn
<1>3. v \in ExceptionRecord /\ x \in 1..Len(exceptions) + 1
  BY <1>2 DEF Throws, Throwable
<1>4. exceptions[x] \in ExceptionRecord
  BY <1>2, ExFacts
<1>5. Thrown(x, v)
  BY <1>1, <1>2, <1>3, <1>4, OnIs DEF Thrown, Rethrown
<1>. QED BY <1>2, <1>5, ThrowOrders

LEMMA ThrowAgainOrders ==
  ASSUME Habits = {}, ExInv, OrdInv, ThrowAgain
  PROVE  OrdInv'
<1>1. PICK x : /\ ThrowsOnceMore(x) /\ exceptions[x].handled = 0 /\ x \notin Pending
               /\ \A c \in Up(contexts, ctx) : ~contexts[c].handling
  BY ThrowsAgain
<1>2. PICK v : v = [exceptions[x] EXCEPT !.resume = ctx, !.origin = ctx, !.had = <<>>]
  OBVIOUS
<1>3. Throws(x, v, TRUE) /\ x \in 1..Len(exceptions)
  BY <1>1, <1>2 DEF ThrowsOnceMore
<1>4. v \in ExceptionRecord /\ x \in 1..Len(exceptions) + 1
  BY <1>3 DEF Throws, Throwable
<1>5. v.had = <<>> /\ v.origin = ctx /\ v.handled = 0
  <2>1. exceptions[x] \in ExceptionRecord
    BY <1>3, ExFacts
  <2>. QED BY <1>1, <1>2, <2>1 DEF ExceptionRecord
<1>6. ~PendingIn(x, c_stack)
  <2>1. DOMAIN exceptions = 1..Len(exceptions) /\ DOMAIN c_stack = 1..Len(c_stack)
    BY ExFacts, LenProperties
  <2>. QED BY <1>1, <1>3, <2>1 DEF Pending, PendingIn
<1>7. \A a \in Up(contexts, ctx) : Marks(contexts)[a] = 0
  <2>1. \A a \in Up(contexts, ctx) : a \in Nat
    BY ExFacts
  <2>. QED BY <1>1, <2>1 DEF Marks
<1>8. Thrown(x, v)
  <2>1. 0 # -1
    OBVIOUS
  <2>. QED BY <1>4, <1>5, <1>6, <1>7, <2>1 DEF Thrown, ThrownFirst
<1>. QED BY <1>3, <1>8, ThrowOrders

LEMMA PopEhOrders ==
  ASSUME Habits = {}, ExInv, OrdInv, PopEh
  PROVE  OrdInv'
<1>1. CASE Handlers(ctx) = <<>> /\ ThrowNew("error", FALSE)
  <2>1. InOp /\ "error" \in Types /\ FALSE \in BOOLEAN
    BY DEF PopEh, Types
  <2>. QED BY <1>1, <2>1, ThrowNewOrders
<1>2. CASE ~(Handlers(ctx) = <<>> /\ ThrowNew("error", FALSE))
  BY <1>2, PopOrders DEF PopEh
<1>. QED BY <1>1, <1>2

LEMMA ThrowAnyOrders ==
  ASSUME Habits = {}, ExInv, OrdInv, ThrowAny
  PROVE  OrdInv'
<1>1. PICK type \in Types, op \in BOOLEAN :
        /\ InOp \/ (~op /\ \E kind \in {"phasers", "ext"} : Innermost(kind) /\ Last(c_stack).trying)
        /\ ThrowNew(type, op)
  BY DEF ThrowAny
<1>2. InOp \/ (~op /\ InC /\ Last(c_stack).trying)
  BY <1>1 DEF InC
<1>. QED BY <1>1, <1>2, ThrowNewOrders

LEMMA RethrowOrders ==
  ASSUME Habits = {}, ExInv, OrdInv, Rethrow
  PROVE  OrdInv'
  BY ThrowsAnother, ThrowsOnOrders

LEMMA EndPhasersOrders ==
  ASSUME Habits = {}, ExInv, OrdInv, EndPhasers
  PROVE  OrdInv'
<1>1. Innermost("phasers") /\ ~Last(c_stack).trying
  BY DEF EndPhasers
<1>2. CASE Last(c_stack).caught = <<>>
  BY <1>1, <1>2, PhasersEndOrders DEF EndPhasers
<1>3. CASE Last(c_stack).caught # <<>>
  <2>1. PICK x, v : x = Head(Last(c_stack).caught) /\ v = [exceptions[x] EXCEPT !.handled = -1]
    OBVIOUS
  <2>2. Deliver(x, v, FALSE)
    BY <1>3, <2>1 DEF EndPhasers
  <2>3. ThrowsOn(x, FALSE) /\ exceptions[x].context = ctx /\ PendingIn(x, c_stack)
    BY <1>1, <1>3, <2>1, <2>2, ThrowsCaught
  <2>4. exceptions[x].had # <<>> /\ exceptions[x].context \in Up(contexts, ctx)
    BY <2>3, ExFacts DEF OrdInv
  <2>. QED BY <2>3, <2>4, ThrowsOnOrders
<1>. QED BY <1>2, <1>3

LEMMA OrdNextKeeps ==
  ASSUME Habits = {}, ExInv, OrdInv, [ExNext]_exVars
  PROVE  OrdInv'
<1>1. CASE CallSub
  BY <1>1, CallSubOrders
<1>2. CASE CallFromC
  BY <1>2, CallFromCOrders
<1>3. CASE Return
  BY <1>3, ReturnOrders
<1>4. CASE PushEh
  BY <1>4, PushEhOrders
<1>5. CASE PopEh
  BY <1>5, PopEhOrders
<1>6. CASE PopUptoEh
  BY <1>6, PopUptoEhOrders
<1>7. CASE ThrowAny
  BY <1>7, ThrowAnyOrders
<1>8. CASE Rethrow
  BY <1>8, RethrowOrders
<1>9. CASE ThrowAgain
  BY <1>9, ThrowAgainOrders
<1>10. CASE Resume
  BY <1>10, ResumeOrders
<1>11. CASE Finalize
  BY <1>11, FinalizeOrders
<1>12. CASE BeginCatching
  BY <1>12, BeginCatchingOrders
<1>13. CASE NextPhaser
  BY <1>13, NextPhaserOrders
<1>14. CASE EndTry
  BY <1>14, EndTryOrders
<1>15. CASE EndPhasers
  BY <1>15, EndPhasersOrders
<1>16. CASE TaskSwitch
  BY <1>16, TaskSwitchOrders
<1>17. CASE UNCHANGED exVars
  BY <1>17 DEF OrdInv, exVars
<1>. QED BY <1>1, <1>2, <1>3, <1>4, <1>5, <1>6, <1>7, <1>8, <1>9, <1>10, <1>11, <1>12, <1>13, <1>14,
            <1>15, <1>16, <1>17 DEF ExNext

(* Nothing is thrown where it starts. *)
LEMMA OrdStart == ExInit => OrdInv
<1>. SUFFICES ASSUME ExInit PROVE OrdInv
  OBVIOUS
<1>. DEFINE C == Context(0, 1, FALSE)
            k == [ctx |-> 1, marks |-> [a \in Nat |-> 0], time |-> 1]
            f == [kind |-> "runops", id |-> 1]
<1>1. contexts = <<C>> /\ ctx = 1 /\ exceptions = <<>> /\ ended = 0 /\ c_stack = <<f>> /\ f.kind = "runops"
  BY DEF ExInit
<1>2. Called(contexts, C, 0, 1)
  BY ContextIs
<1>. HIDE DEF C, f
<1>3. Calls(contexts)
  BY StartHolds, ExFacts
<1>4. Len(contexts) = 1 /\ contexts[1] = C /\ Len(exceptions) = 0 /\ Len(c_stack) = 1 /\ c_stack[1] = f
  BY <1>1, <1>2 DEF Called
<1>5. (\A j \in 1..1 : j = 1) /\ 1 \in 1..1 /\ \A x \in 1..0 : FALSE
  OBVIOUS
<1>6. Len(contexts[1].handlers) = 0 /\ ~contexts[1].handling /\ contexts[1].caller = 0
  BY <1>2, <1>4 DEF Called
<1>7. Up(contexts, 1) = {1}
  <2>1. Up(contexts, 0) = {} /\ Up(contexts, 1) = {1} \cup Up(contexts, contexts[1].caller)
    <3>1. 1 \in 1..Len(contexts)
      BY <1>4
    <3>. QED BY <1>3, <3>1, UpIs
  <2>. QED BY <1>6, <2>1
<1>8. k \in Spots /\ k.ctx = 1 /\ k.time = 1 /\ k.marks = [a \in Nat |-> 0] /\ k.marks[1] = 0
  BY DEF Spots
<1>. HIDE DEF k
<1>9. Closed({k}, contexts, exceptions, 0)
  <2>1. Standing(k, contexts, exceptions)
    BY <1>4, <1>8 DEF Standing
  <2>2. At(k, 1, [k.marks EXCEPT ![1] = 0]) /\ At(k, 1, k.marks)
    <3>1. [k.marks EXCEPT ![1] = 0] = k.marks
      BY <1>8
    <3>. QED BY <1>8, <3>1 DEF At, Agrees
  <2>3. Falls(k, {k}, contexts) /\ Comes(k, {k}, contexts)
    BY <1>7, <1>8, <2>2 DEF Falls, Comes
  <2>4. GoesOn(k, {k}, exceptions, 0)
    BY <1>8 DEF GoesOn
  <2>. QED BY <1>8, <2>1, <2>3, <2>4 DEF Closed
<1>10. At(k, ctx, Marks(contexts))
  <2>1. \A a \in 1..1 : a \in Nat /\ k.marks[a] = 0 /\ Marks(contexts)[a] = 0
    BY <1>5, <1>6, <1>8 DEF Marks
  <2>. QED BY <1>1, <1>8, <2>1 DEF At, Agrees
<1>11. Guided({k}, contexts, exceptions, ctx, 0)
  BY <1>9, <1>10 DEF Guided, Avoids
<1>12. Numbered(contexts[1])
  BY <1>5, <1>6 DEF Numbered
<1>13. Ordered(contexts, exceptions, ctx)
  <2>1. \A x \in Guides(exceptions) : x = 0
    BY <1>4, <1>5 DEF Guides
  <2>. QED BY <1>4, <1>5, <1>11, <1>12, <2>1 DEF Ordered
<1>14. \A x : ~PendingIn(x, c_stack)
  BY <1>1, <1>4, <1>5 DEF PendingIn
<1>. QED BY <1>4, <1>5, <1>13, <1>14 DEF OrdInv

(* What has had it is in the list of the model. *)
LEMMA InOrder ==
  ASSUME ExInv, OrdInv
  PROVE  HandlersInOrder
<1>1. /\ Calls(contexts) /\ Len(contexts) \in Nat /\ DOMAIN exceptions = 1..Len(exceptions)
      /\ \A x \in 1..Len(exceptions) : exceptions[x] \in ExceptionRecord
      /\ \A x \in 1..Len(exceptions) : exceptions[x].had # <<>> => HadRight(contexts, exceptions[x])
  BY ExFacts, LenProperties DEF OrdInv, Ordered
<1>. SUFFICES ASSUME NEW x \in 1..Len(exceptions), NEW e, e = exceptions[x]
              PROVE  /\ IsInjective(e.had)
                     /\ Handling(x) \/ ended = x =>
                          \A c \in Callers(e.origin) : \A h \in ToSet(Handlers(c)) :
                            \/ ~CanHandle(h, e)
                            \/ \E g \in ToSet(e.had) : g[1] = c /\ g[2] <= h.n
                            \/ Handling(x) /\ c <= e.context /\ (c = e.context => h.n < Last(e.had)[2])
  BY <1>1, Zenon DEF HandlersInOrder
<1>2. /\ e \in ExceptionRecord /\ e.had \in Seq(Nat \X Nat) /\ DOMAIN e.had = 1..Len(e.had) /\ Len(e.had) \in Nat
      /\ e.context \in Nat /\ e.origin \in Nat /\ (e.had # <<>> => HadRight(contexts, e) /\ Len(e.had) \in 1..Len(e.had))
      /\ \A i \in 1..Len(e.had) : e.had[i][1] \in Nat /\ e.had[i][2] \in Nat /\ e.had[i] = <<e.had[i][1], e.had[i][2]>>
  BY <1>1, HadFields, LenProperties
<1>3. IsInjective(e.had)
  <2>1. CASE e.had = <<>>
    BY <2>1 DEF IsInjective
  <2>2. CASE e.had # <<>>
    BY <1>2, <2>2 DEF HadRight
  <2>. QED BY <2>1, <2>2
<1>4. ASSUME Handling(x) \/ ended = x, NEW c \in Callers(e.origin), NEW h \in ToSet(Handlers(c))
      PROVE  \/ ~CanHandle(h, e)
             \/ \E g \in ToSet(e.had) : g[1] = c /\ g[2] <= h.n
             \/ Handling(x) /\ c <= e.context /\ (c = e.context => h.n < Last(e.had)[2])
  <2>1. Handling(x) => e.had # <<>> /\ HadRight(contexts, e) /\ Len(e.had) \in 1..Len(e.had)
    BY <1>2 DEF Handling
  <2>2. ended = x => Exhausted(contexts, e)
    BY DEF OrdInv
  <2>3. c \in Up(contexts, e.origin) /\ c \in 1..Len(contexts) /\ c \in Nat /\ contexts[c] \in ContextRecord
    <3>1. e.origin \in 1..Len(contexts)
      BY <1>4, <2>1, <2>2 DEF HadRight, Exhausted
    <3>2. e.origin \in 0..Len(contexts)
      BY <1>1, <3>1
    <3>3. Up(contexts, e.origin) \subseteq 1..e.origin
      BY <1>1, <3>2, UpBelow
    <3>4. c \in Up(contexts, e.origin)
      BY CallersAre
    <3>5. c \in 1..Len(contexts) /\ c \in Nat
      BY <1>1, <3>1, <3>3, <3>4
    <3>. QED BY <1>1, <3>4, <3>5, CallsFields
  <2>4. DOMAIN contexts[c].handlers = 1..Len(contexts[c].handlers)
    BY <2>3, HandlerFields, LenProperties
  <2>5. PICK i \in 1..Len(contexts[c].handlers) : h = contexts[c].handlers[i]
    BY <2>4 DEF ToSet, Handlers
  <2>6. h.n \in Nat
    BY <2>3, <2>5, HandlerFields
  <2>7. Passed(e, c, h) => ~CanHandle(h, e) \/ \E g \in ToSet(e.had) : g[1] = c /\ g[2] <= h.n
    BY <1>2 DEF Passed, Had, CanHandle, ToSet
  <2>8. CASE Handling(x)
    <3>1. e.had # <<>> /\ HadRight(contexts, e) /\ Len(e.had) \in 1..Len(e.had)
      BY <2>1, <2>8
    <3>2. CASE c > e.context
      <4>1. Passed(e, c, h)
        BY <2>3, <2>5, <3>1, <3>2 DEF HadRight, HadInside
      <4>. QED BY <2>7, <4>1
    <3>3. CASE c = e.context
      <4>1. /\ LastHad(e) = Last(e.had) /\ LastHad(e) = <<c, LastHad(e)[2]>> /\ LastHad(e)[2] \in Nat
            /\ LastHad(e)[1] = c /\ LastHad(e) \in ToSet(e.had)
        BY <1>2, <3>1, <3>3 DEF HadRight, LastHad, Last, ToSet
      <4>2. CASE LastHad(e)[2] <= h.n
        BY <4>1, <4>2
      <4>3. CASE ~(LastHad(e)[2] <= h.n)
        BY <1>2, <2>3, <2>6, <2>8, <3>3, <4>1, <4>3
      <4>. QED BY <4>2, <4>3
    <3>4. CASE c < e.context
      BY <1>2, <2>3, <2>8, <3>4
    <3>. QED BY <1>2, <2>3, <3>2, <3>3, <3>4
  <2>9. CASE ended = x
    <3>1. Passed(e, c, h)
      BY <2>2, <2>3, <2>5, <2>9 DEF Exhausted
    <3>. QED BY <2>7, <3>1
  <2>. QED BY <1>4, <2>8, <2>9
<1>. QED BY <1>3, <1>4
-----------------------------------------------------------------------------
(* What is inductive of the order of handlers: there are spots to which control
   can come back, and what an exception notes of its search is right. *)
THEOREM OrdInvAlways == ASSUME Habits = {} PROVE ExSpec => []OrdInv
<1>1. ExInit => OrdInv
  BY OrdStart
<1>2. ExInv /\ OrdInv /\ [ExNext]_exVars => OrdInv'
  BY OrdNextKeeps
<1>. QED BY <1>1, <1>2, ExInvAlways, PTL DEF ExSpec

(* No handler has an exception twice, and none that takes it is passed over. *)
THEOREM HandlersInOrderAlways == ASSUME Habits = {} PROVE ExSpec => []HandlersInOrder
<1>1. ExInv /\ OrdInv => HandlersInOrder
  BY InOrder
<1>. QED BY <1>1, ExInvAlways, OrdInvAlways, PTL
=============================================================================
