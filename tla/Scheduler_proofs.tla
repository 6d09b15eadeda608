-------------------------- MODULE Scheduler_proofs --------------------------
(***************************************************************************)
(* Proofs about the scheduler, for every set of tasks, every choice of     *)
(* habits and every nesting of runloops.                                   *)
(***************************************************************************)
EXTENDS Scheduler, FiniteSetTheorems, SequenceTheorems, TLAPS

\* Each mailbox holds a number of messages.
MailType == mailbox \in [Task -> Nat]

MailInv == MailType /\ NoMessageMissed

\* What an action that touches neither mailboxes nor blocked receivers preserves.
MailUntouched == UNCHANGED <<recv_block, mailbox>>

LEMMA MailInit == Init => MailInv
BY DEF Init, MailInv, MailType, NoMessageMissed

LEMMA MailSend ==
  ASSUME MailInv, NEW c \in Task, NEW t \in Task, Send(c, t)
  PROVE  MailInv'
<1>m. mailbox' = [mailbox EXCEPT ![t] = @ + 1] /\ recv_block' = recv_block \ {t}
  BY DEF Send
<1>i. MailType /\ \A u \in recv_block : mailbox[u] = 0
  BY DEF MailInv, NoMessageMissed
<1>1. MailType'
  BY <1>m, <1>i DEF MailType
<1>2. NoMessageMissed'
  <2> SUFFICES ASSUME NEW u \in recv_block' PROVE mailbox'[u] = 0
    BY DEF NoMessageMissed
  <2>1. u # t /\ mailbox[u] = 0
    BY <1>m, <1>i
  <2> QED BY <2>1, <1>m, <1>i DEF MailType
<1> QED BY <1>1, <1>2 DEF MailInv

\* The receiver that takes a message is not blocked, so none other is concerned.
LEMMA MailReceive ==
  ASSUME MailInv, NEW c \in Task, Receive(c)
  PROVE  MailInv'
<1>m. mailbox[c] > 0 /\ mailbox' = [mailbox EXCEPT ![c] = @ - 1] /\ recv_block' = recv_block
  BY DEF Receive
<1>i. MailType /\ \A u \in recv_block : mailbox[u] = 0
  BY DEF MailInv, NoMessageMissed
<1>1. MailType'
  BY <1>m, <1>i DEF MailType
<1>2. NoMessageMissed'
  <2> SUFFICES ASSUME NEW u \in recv_block' PROVE mailbox'[u] = 0
    BY DEF NoMessageMissed
  <2>1. u # c /\ mailbox[u] = 0
    BY <1>m, <1>i DEF MailType
  <2> QED BY <2>1, <1>m, <1>i DEF MailType
<1> QED BY <1>1, <1>2 DEF MailInv

LEMMA MailBlock ==
  ASSUME MailInv, NEW c \in Task, ReceiveBlock(c)
  PROVE  MailInv'
<1>m. mailbox[c] = 0 /\ recv_block' = recv_block \cup {c} /\ mailbox' = mailbox
  BY DEF ReceiveBlock
<1> QED BY <1>m DEF MailInv, MailType, NoMessageMissed

\* The other ops, the outer runloop and time leave the mail alone.
LEMMA MailProgram ==
  ASSUME NEW c \in Task, Program(c)
  PROVE  \/ \E t \in Task : Send(c, t)
         \/ Receive(c) \/ ReceiveBlock(c)
         \/ MailUntouched
<1>1. CASE Branch(c)  BY <1>1 DEF Branch, MailUntouched
<1>2. CASE Return(c)  BY <1>2 DEF Return, MailUntouched, taskVars
<1>3. CASE EnterRunloop(c) \/ LeaveRunloop(c)
  BY <1>3 DEF EnterRunloop, LeaveRunloop, MailUntouched, taskVars
<1>4. CASE Pass(c)  BY <1>4 DEF Pass, MailUntouched
<1>5. CASE Receive(c) \/ ReceiveBlock(c)  BY <1>5
<1>6. ASSUME NEW d \in Sleeps, Sleep(c, d) PROVE MailUntouched
  BY <1>6 DEF Sleep, MailUntouched
<1>7. ASSUME NEW t \in Task, Schedule(c, t) PROVE MailUntouched
  BY <1>7 DEF Schedule, MailUntouched
<1>8. ASSUME NEW t \in Task, Wait(c, t) PROVE MailUntouched
  BY <1>8 DEF Wait, MailUntouched
<1>9. ASSUME NEW t \in Task, Kill(c, t) PROVE MailUntouched
  BY <1>9 DEF Kill, MailUntouched
<1>10. ASSUME NEW t \in Task, NEW d \in Sleeps, SetAlarm(c, t, d) PROVE MailUntouched
  BY <1>10 DEF SetAlarm, MailUntouched
<1> QED BY <1>1, <1>2, <1>3, <1>4, <1>5, <1>6, <1>7, <1>8, <1>9, <1>10 DEF Program

LEMMA MailRunloop ==
  ASSUME Tick \/ OuterRunloop \/ Terminated \/ UNCHANGED vars
  PROVE  MailUntouched
<1>1. CASE Tick  BY <1>1 DEF Tick, MailUntouched, taskVars
<1>2. CASE NextTask  BY <1>2 DEF NextTask, MailUntouched
<1>3. CASE CheckAlarms  BY <1>3 DEF CheckAlarms, MailUntouched, taskVars
<1>4. CASE Idle \/ Pause \/ Exit  BY <1>4 DEF Idle, Pause, Exit, MailUntouched, taskVars
<1>5. CASE Terminated \/ UNCHANGED vars
  BY <1>5 DEF Terminated, MailUntouched, vars, taskVars
<1> QED BY <1>1, <1>2, <1>3, <1>4, <1>5 DEF OuterRunloop

LEMMA MailStep == MailInv /\ [Next]_vars => MailInv'
<1> SUFFICES ASSUME MailInv, [Next]_vars PROVE MailInv'
  OBVIOUS
<1>u. ASSUME MailUntouched PROVE MailInv'
  BY <1>u DEF MailUntouched, MailInv, MailType, NoMessageMissed
<1>1. CASE Tick \/ OuterRunloop \/ Terminated \/ UNCHANGED vars
  BY <1>1, <1>u, MailRunloop
<1>2. ASSUME NEW c \in Task, Program(c) PROVE MailInv'
  BY <1>2, <1>u, MailProgram, MailSend, MailReceive, MailBlock
<1> QED BY <1>1, <1>2 DEF Next

\* A task blocked in receive has no mail, whatever the nesting of runloops and
\* whoever sends in between: the receive op of experimental.ops looks into the
\* mailbox and blocks in one step, and Task.send clears the flag as it stores.
THEOREM NoMessageMissedAlways == Spec => []NoMessageMissed
<1>1. Spec => []MailInv
  BY MailInit, MailStep, PTL DEF Spec
<1>2. MailInv => NoMessageMissed
  BY DEF MailInv
<1> QED BY <1>1, <1>2, PTL

-----------------------------------------------------------------------------
(***************************************************************************)
(* The list of alarms.                                                     *)
(***************************************************************************)
Entry == [task : Task, time : Int]

AlarmsInv == alarms \in Seq(Entry) /\ AlarmsOrdered

\* A set of indices that has all smaller indices with each of its own is an
\* initial segment, as long as it has members.
LEMMA InitialSegment ==
  ASSUME NEW L \in Nat, NEW P \in SUBSET (1 .. L),
         \A i \in P : \A j \in 1 .. i : j \in P
  PROVE  /\ Cardinality(P) \in 0 .. L
         /\ \A i \in 1 .. L : i \in P <=> i <= Cardinality(P)
<1>1. IsFiniteSet(1 .. L) /\ Cardinality(1 .. L) = L
  BY FS_Interval
<1>2. IsFiniteSet(P) /\ Cardinality(P) \in Nat /\ Cardinality(P) <= L
  <2>1. IsFiniteSet(P) /\ Cardinality(P) <= Cardinality(1 .. L)
    BY <1>1, FS_Subset
  <2>2. Cardinality(P) \in Nat
    BY <2>1, FS_CardinalityType
  <2> QED BY <1>1, <2>1, <2>2
<1>3. ASSUME NEW i \in P PROVE i <= Cardinality(P)
  <2>1. (1 .. i) \subseteq P
    OBVIOUS
  <2>2. Cardinality(1 .. i) <= Cardinality(P)
    BY <1>2, <2>1, FS_Subset
  <2>3. i \in Nat /\ 1 \in Int /\ i \in Int /\ i >= 1
    OBVIOUS
  <2>4. Cardinality(1 .. i) = IF 1 > i THEN 0 ELSE i - 1 + 1
    BY <2>3, FS_Interval
  <2>5. Cardinality(1 .. i) = i
    BY <2>3, <2>4
  <2> QED BY <2>2, <2>5
<1>4. ASSUME NEW i \in 1 .. L, i \notin P PROVE Cardinality(P) < i
  <2>1. P \subseteq 1 .. (i - 1)
    BY <1>4
  <2>2. IsFiniteSet(1 .. (i - 1)) /\ Cardinality(1 .. (i - 1)) = i - 1
    BY FS_Interval
  <2>3. Cardinality(P) <= Cardinality(1 .. (i - 1))
    BY <2>1, <2>2, FS_Subset
  <2> QED BY <1>2, <2>2, <2>3
<1> QED BY <1>2, <1>3, <1>4

\* Parrot_pmc_list_insert_by_number keeps the list in order.
LEMMA InsertOrdered ==
  ASSUME AlarmsInv, NEW e \in Entry, alarms' = Insert(e)
  PROVE  AlarmsInv'
<1> DEFINE P == {i \in DOMAIN alarms : alarms[i].time <= e.time}
           n == Cardinality(P)
           L == Len(alarms)
<1>a. /\ alarms \in Seq(Entry) /\ L \in Nat /\ DOMAIN alarms = 1 .. L
      /\ \A i \in 1 .. L : alarms[i] \in Entry
      /\ \A i, j \in 1 .. L : i < j => alarms[i].time <= alarms[j].time
  BY LenProperties, ElementOfSeq DEF AlarmsInv, AlarmsOrdered
<1>b. \A i \in 1 .. L : alarms[i].time \in Int
  BY <1>a DEF Entry
<1>c. e.time \in Int
  BY DEF Entry
<1>1. n \in 0 .. L /\ \A i \in 1 .. L : alarms[i].time <= e.time <=> i <= n
  <2>1. P \in SUBSET (1 .. L)
    BY <1>a
  <2>2. ASSUME NEW i \in P, NEW j \in 1 .. i PROVE j \in P
    <3>1. j = i \/ (j \in 1 .. L /\ j < i)
      BY <2>1, <1>a
    <3>2. CASE j = i  BY <3>2
    <3>3. CASE j \in 1 .. L /\ j < i
      <4>1. alarms[j].time <= alarms[i].time /\ alarms[i].time <= e.time
        BY <3>3, <1>a, <2>1
      <4> QED BY <4>1, <3>3, <1>a, <1>b, <1>c, <2>1
    <3> QED BY <3>1, <3>2, <3>3
  <2>3. n \in 0 .. L /\ \A i \in 1 .. L : i \in P <=> i <= n
    <3> HIDE DEF P
    <3> QED BY <2>1, <2>2, <1>a, InitialSegment
  <2> QED BY <2>3, <1>a
<1> HIDE DEF P
<1> DEFINE s1 == SubSeq(alarms, 1, n)
           s2 == SubSeq(alarms, n + 1, L)
<1>2. alarms' = s1 \o <<e>> \o s2
  BY DEF Insert, P
<1> HIDE DEF n, L
<1>3. /\ s1 \in Seq(Entry) /\ Len(s1) = n
      /\ \A i \in 1 .. n : s1[i] = alarms[i]
  <2>1. \A i \in 1 .. n : alarms[i] \in Entry
    BY <1>1, <1>a
  <2> QED BY <1>1, <2>1, SubSeqProperties
<1>4. /\ s2 \in Seq(Entry) /\ Len(s2) = L - n
      /\ \A i \in 1 .. (L - n) : s2[i] = alarms[n + i]
  <2>1. \A i \in (n + 1) .. L : alarms[i] \in Entry
    BY <1>1, <1>a
  <2>2. n + 1 \in Int /\ L \in Int
    BY <1>1, <1>a
  <2>3. /\ s2 \in Seq(Entry) /\ Len(s2) = IF n + 1 <= L THEN L - (n + 1) + 1 ELSE 0
        /\ \A i \in 1 .. (L - (n + 1) + 1) : s2[i] = alarms[(n + 1) + i - 1]
    BY <2>1, <2>2, SubSeqProperties
  <2> QED BY <2>3, <1>1, <1>a
<1> HIDE DEF s1, s2
<1>5. /\ s1 \o <<e>> \in Seq(Entry) /\ Len(s1 \o <<e>>) = n + 1
      /\ \A i \in 1 .. (n + 1) : (s1 \o <<e>>)[i] = IF i <= n THEN alarms[i] ELSE e
  <2>1. <<e>> \in Seq(Entry) /\ Len(<<e>>) = 1 /\ <<e>>[1] = e
    OBVIOUS
  <2>2. /\ s1 \o <<e>> \in Seq(Entry) /\ Len(s1 \o <<e>>) = Len(s1) + Len(<<e>>)
        /\ \A i \in 1 .. Len(s1) + Len(<<e>>) :
             (s1 \o <<e>>)[i] = IF i <= Len(s1) THEN s1[i] ELSE <<e>>[i - Len(s1)]
    BY <1>3, <2>1, ConcatProperties
  <2> QED BY <2>1, <2>2, <1>3, <1>1, <1>a
<1> DEFINE s3 == s1 \o <<e>>
<1>6. /\ alarms' \in Seq(Entry) /\ Len(alarms') = L + 1
      /\ \A i \in 1 .. (L + 1) :
           alarms'[i] = IF i <= n THEN alarms[i] ELSE IF i = n + 1 THEN e ELSE alarms[i - 1]
  <2>1. s3 \in Seq(Entry) /\ Len(s3) = n + 1
    BY <1>5
  <2>2. \A i \in 1 .. (n + 1) : s3[i] = IF i <= n THEN alarms[i] ELSE e
    BY <1>5
  <2>3. alarms' = s3 \o s2 /\ s2 \in Seq(Entry)
    BY <1>2, <1>4
  <2> HIDE DEF s3
  <2>c. /\ s3 \o s2 \in Seq(Entry) /\ Len(s3 \o s2) = Len(s3) + Len(s2)
        /\ \A i \in 1 .. Len(s3) + Len(s2) :
             (s3 \o s2)[i] = IF i <= Len(s3) THEN s3[i] ELSE s2[i - Len(s3)]
    BY <2>1, <2>3, ConcatProperties
  <2>4. /\ alarms' \in Seq(Entry) /\ Len(alarms') = Len(s3) + Len(s2)
        /\ \A i \in 1 .. Len(s3) + Len(s2) :
             alarms'[i] = IF i <= Len(s3) THEN s3[i] ELSE s2[i - Len(s3)]
    BY <2>3, <2>c
  <2>5. Len(s3) + Len(s2) = L + 1
    BY <2>1, <1>4, <1>1, <1>a
  <2>6. ASSUME NEW i \in 1 .. (L + 1), i > n + 1 PROVE s2[i - (n + 1)] = alarms[i - 1]
    <3>1. i - (n + 1) \in 1 .. (L - n) /\ n + (i - (n + 1)) = i - 1
      BY <2>6, <1>1, <1>a
    <3> QED BY <3>1, <1>4
  <2>7. ASSUME NEW i \in 1 .. (L + 1)
        PROVE  alarms'[i] = IF i <= n THEN alarms[i] ELSE IF i = n + 1 THEN e ELSE alarms[i - 1]
    BY <2>1, <2>2, <2>4, <2>5, <2>6, <1>1, <1>a
  <2> QED BY <2>4, <2>5, <2>7
<1>7. DOMAIN alarms' = 1 .. (L + 1)
  BY <1>6, LenProperties
<1>8. ASSUME NEW i \in 1 .. (L + 1), NEW j \in 1 .. (L + 1), i < j
      PROVE  alarms'[i].time <= alarms'[j].time
  <2>1. CASE j <= n
    BY <2>1, <1>8, <1>6, <1>1, <1>a
  <2>2. CASE j = n + 1
    BY <2>2, <1>8, <1>6, <1>1, <1>a
  <2>3. CASE j > n + 1
    <3>1. alarms'[j] = alarms[j - 1] /\ j - 1 \in 1 .. L /\ ~(j - 1 <= n)
      BY <2>3, <1>6, <1>1, <1>a
    <3>2. e.time <= alarms[j - 1].time
      BY <3>1, <1>1, <1>b, <1>c
    <3>3. CASE i <= n
      BY <3>1, <3>3, <1>6, <1>1, <1>a
    <3>4. CASE i = n + 1
      BY <3>1, <3>2, <3>4, <1>6, <1>1, <1>a
    <3>5. CASE i > n + 1
      <4>1. alarms'[i] = alarms[i - 1] /\ i - 1 \in 1 .. L /\ i - 1 < j - 1
        BY <3>5, <1>8, <1>6, <1>1, <1>a
      <4> QED BY <4>1, <3>1, <1>a
    <3> QED BY <3>3, <3>4, <3>5, <1>1, <1>a
  <2> QED BY <2>1, <2>2, <2>3, <1>1, <1>a
<1> QED BY <1>6, <1>7, <1>8 DEF AlarmsInv, AlarmsOrdered

\* Parrot_cx_check_alarms takes away the first of them.
LEMMA LaterOrdered ==
  ASSUME AlarmsInv, alarms' = Later
  PROVE  AlarmsInv'
<1> DEFINE L == Len(alarms)
           k == Cardinality(Due)
<1>a. /\ alarms \in Seq(Entry) /\ L \in Nat /\ DOMAIN alarms = 1 .. L
      /\ \A i \in 1 .. L : alarms[i] \in Entry
      /\ \A i, j \in 1 .. L : i < j => alarms[i].time <= alarms[j].time
  BY LenProperties, ElementOfSeq DEF AlarmsInv, AlarmsOrdered
<1>1. k \in 0 .. L
  <2>1. Due \in SUBSET (1 .. L)
    BY <1>a DEF Due
  <2>2. \A i \in Due : \A j \in 1 .. i : j \in Due
    BY <1>a DEF Due
  <2> QED BY <2>1, <2>2, <1>a, InitialSegment
<1>2. alarms' = SubSeq(alarms, k + 1, L)
  BY DEF Later
<1> HIDE DEF k, L
<1>3. /\ alarms' \in Seq(Entry) /\ Len(alarms') = L - k
      /\ \A i \in 1 .. (L - k) : alarms'[i] = alarms[k + i]
  <2>1. \A i \in (k + 1) .. L : alarms[i] \in Entry
    BY <1>1, <1>a
  <2>2. k + 1 \in Int /\ L \in Int
    BY <1>1, <1>a
  <2> DEFINE s == SubSeq(alarms, k + 1, L)
  <2>3. /\ s \in Seq(Entry) /\ Len(s) = IF k + 1 <= L THEN L - (k + 1) + 1 ELSE 0
        /\ \A i \in 1 .. (L - (k + 1) + 1) : s[i] = alarms[(k + 1) + i - 1]
    BY <2>1, <2>2, SubSeqProperties
  <2>4. alarms' = s
    BY <1>2
  <2> HIDE DEF s
  <2> QED BY <2>3, <2>4, <1>1, <1>a
<1>4. DOMAIN alarms' = 1 .. (L - k)
  BY <1>3, LenProperties
<1>5. ASSUME NEW i \in 1 .. (L - k), NEW j \in 1 .. (L - k), i < j
      PROVE  alarms'[i].time <= alarms'[j].time
  <2>1. k + i \in 1 .. L /\ k + j \in 1 .. L /\ k + i < k + j
    BY <1>1, <1>a, <1>5
  <2> QED BY <2>1, <1>3, <1>a
<1> QED BY <1>3, <1>4, <1>5 DEF AlarmsInv, AlarmsOrdered

\* Time passes for all alarms alike.
LEMMA TickOrdered ==
  ASSUME AlarmsInv, Tick
  PROVE  AlarmsInv'
<1> DEFINE L == Len(alarms)
<1>a. /\ alarms \in Seq(Entry) /\ L \in Nat /\ DOMAIN alarms = 1 .. L
      /\ \A i \in 1 .. L : alarms[i] \in Entry
      /\ \A i, j \in 1 .. L : i < j => alarms[i].time <= alarms[j].time
  BY LenProperties, ElementOfSeq DEF AlarmsInv, AlarmsOrdered
<1>b. \A i \in 1 .. L : alarms[i].task \in Task /\ alarms[i].time \in Int
  BY <1>a DEF Entry
<1>1. alarms' = [i \in 1 .. L |-> [alarms[i] EXCEPT !.time = Decayed(@, -1)]]
  BY <1>a DEF Tick
<1> HIDE DEF L
<1>2. ASSUME NEW i \in 1 .. L
      PROVE  alarms'[i] \in Entry /\ alarms'[i].time = Decayed(alarms[i].time, -1)
  <2>1. Decayed(alarms[i].time, -1) \in Int
    BY <1>b DEF Decayed
  <2>2. alarms'[i] = [alarms[i] EXCEPT !.time = Decayed(@, -1)]
    BY <1>1
  <2>3. alarms[i] \in [task : Task, time : Int]
    BY <1>a DEF Entry
  <2> DEFINE d == Decayed(alarms[i].time, -1)
             a == alarms[i]
  <2>4. d \in Int /\ a \in [task : Task, time : Int] /\ alarms'[i] = [a EXCEPT !.time = d]
    BY <2>1, <2>2, <2>3
  <2> HIDE DEF d, a
  <2>5. alarms'[i] \in [task : Task, time : Int] /\ alarms'[i].time = d
    BY <2>4
  <2> QED BY <2>5 DEF Entry, d
<1>3. alarms' \in Seq(Entry) /\ DOMAIN alarms' = 1 .. L
  <2>1. alarms' \in [1 .. L -> Entry]
    BY <1>1, <1>2
  <2> QED BY <2>1, <1>a, SeqDef
<1>4. ASSUME NEW i \in 1 .. L, NEW j \in 1 .. L, i < j
      PROVE  alarms'[i].time <= alarms'[j].time
  BY <1>2, <1>4, <1>a, <1>b DEF Decayed
<1> QED BY <1>3, <1>4 DEF AlarmsInv, AlarmsOrdered

LEMMA AlarmsInit == Init => AlarmsInv
BY DEF Init, AlarmsInv, AlarmsOrdered

LEMMA AlarmsKept ==
  ASSUME AlarmsInv, UNCHANGED alarms
  PROVE  AlarmsInv'
BY DEF AlarmsInv, AlarmsOrdered

LEMMA AlarmsProgram ==
  ASSUME AlarmsInv, NEW c \in Task, Program(c)
  PROVE  AlarmsInv'
<1>e. ASSUME NEW t \in Task, NEW d \in Sleeps PROVE [task |-> t, time |-> d] \in Entry
  BY TimesAssumption DEF Entry
<1>1. CASE Branch(c)  BY <1>1, LaterOrdered DEF Branch
<1>2. CASE Return(c) \/ EnterRunloop(c) \/ LeaveRunloop(c)
  BY <1>2, AlarmsKept DEF Return, EnterRunloop, LeaveRunloop, queueVars
<1>3. CASE Pass(c) \/ Receive(c) \/ ReceiveBlock(c)
  BY <1>3, AlarmsKept DEF Pass, Receive, ReceiveBlock, queueVars
<1>4. ASSUME NEW d \in Sleeps, Sleep(c, d) PROVE AlarmsInv'
  <2>1. alarms' = Insert([task |-> c, time |-> d])
    BY <1>4 DEF Sleep
  <2> QED BY <2>1, <1>e, InsertOrdered
<1>5. ASSUME NEW t \in Task, Schedule(c, t) \/ Send(c, t) \/ Wait(c, t) \/ Kill(c, t)
      PROVE  AlarmsInv'
  BY <1>5, AlarmsKept DEF Schedule, Send, Wait, Kill, queueVars
<1>6. ASSUME NEW t \in Task, NEW d \in Sleeps, SetAlarm(c, t, d) PROVE AlarmsInv'
  <2>1. alarms' = Insert([task |-> t, time |-> d])
    BY <1>6 DEF SetAlarm
  <2> QED BY <2>1, <1>e, InsertOrdered
<1> QED BY <1>1, <1>2, <1>3, <1>4, <1>5, <1>6 DEF Program

LEMMA AlarmsRunloop ==
  ASSUME AlarmsInv, OuterRunloop \/ Terminated \/ UNCHANGED vars
  PROVE  AlarmsInv'
<1>1. CASE CheckAlarms  BY <1>1, LaterOrdered DEF CheckAlarms
<1>2. CASE NextTask \/ Idle \/ Pause \/ Exit
  BY <1>2, AlarmsKept DEF NextTask, Idle, Pause, Exit, queueVars
<1>3. CASE Terminated \/ UNCHANGED vars
  BY <1>3, AlarmsKept DEF Terminated, vars, queueVars
<1> QED BY <1>1, <1>2, <1>3 DEF OuterRunloop

\* The alarms stay in order of time, however many there are, through every sleep,
\* Alarm PMC, check and passing of time: Parrot_cx_check_alarms stops at the first
\* that is not due and sets the timer for it.
THEOREM AlarmsOrderedAlways == Spec => []AlarmsOrdered
<1>1. AlarmsInv /\ [Next]_vars => AlarmsInv'
  <2> SUFFICES ASSUME AlarmsInv, [Next]_vars PROVE AlarmsInv'
    OBVIOUS
  <2>1. CASE Tick  BY <2>1, TickOrdered
  <2>2. CASE OuterRunloop \/ Terminated \/ UNCHANGED vars  BY <2>2, AlarmsRunloop
  <2>3. ASSUME NEW c \in Task, Program(c) PROVE AlarmsInv'
    BY <2>3, AlarmsProgram
  <2> QED BY <2>1, <2>2, <2>3 DEF Next
<1>2. Spec => []AlarmsInv
  BY AlarmsInit, <1>1, PTL DEF Spec
<1>3. AlarmsInv => AlarmsOrdered
  BY DEF AlarmsInv
<1> QED BY <1>2, <1>3, PTL

-----------------------------------------------------------------------------
(***************************************************************************)
(* Types of the scheduler, and the one timer it has for time slices and    *)
(* alarms.                                                                 *)
(***************************************************************************)

(* What the lists of the scheduler hold. *)
Entries == {e \in [task : spawned, time : Int] : e.time >= -1 /\ Soon(e.time)}

LEMMA DueCounted ==
  ASSUME NEW S, alarms \in Seq(S)
  PROVE  /\ Cardinality(Due) \in 0 .. Len(alarms)
         /\ \A i \in 1 .. Len(alarms) : i \in Due <=> i <= Cardinality(Due)
<1>1. Len(alarms) \in Nat /\ DOMAIN alarms = 1 .. Len(alarms)
  BY LenProperties
<1>2. Due \in SUBSET (1 .. Len(alarms))
  BY <1>1 DEF Due
<1>3. \A i \in Due : \A j \in 1 .. i : j \in Due
  BY <1>1 DEF Due
<1> QED BY <1>1, <1>2, <1>3, InitialSegment

LEMMA LaterSeq ==
  ASSUME NEW S, alarms \in Seq(S)
  PROVE  /\ Later \in Seq(S)
         /\ Len(Later) = Len(alarms) - Cardinality(Due)
         /\ \A i \in 1 .. Len(Later) : Later[i] = alarms[Cardinality(Due) + i]
<1> DEFINE k == Cardinality(Due)
           L == Len(alarms)
<1>1. k \in 0 .. L /\ L \in Nat
  BY DueCounted, LenProperties
<1>2. \A i \in 1 .. L : alarms[i] \in S
  BY ElementOfSeq
<1>3. Later = SubSeq(alarms, k + 1, L)
  BY DEF Later
<1> HIDE DEF k, L
<1> DEFINE s == SubSeq(alarms, k + 1, L)
<1>4. k + 1 \in Int /\ L \in Int /\ \A i \in (k + 1) .. L : alarms[i] \in S
  BY <1>1, <1>2
<1>5. /\ s \in Seq(S) /\ Len(s) = IF k + 1 <= L THEN L - (k + 1) + 1 ELSE 0
      /\ \A i \in 1 .. (L - (k + 1) + 1) : s[i] = alarms[(k + 1) + i - 1]
  BY <1>4, SubSeqProperties
<1>6. Later = s
  BY <1>3
<1> HIDE DEF s
<1>7. Len(Later) = L - k /\ Later \in Seq(S)
  BY <1>1, <1>5, <1>6
<1>8. ASSUME NEW i \in 1 .. Len(Later) PROVE Later[i] = alarms[k + i]
  BY <1>1, <1>5, <1>6, <1>7
<1> QED BY <1>7, <1>8 DEF k, L

\* Parrot_pmc_list_insert_by_number: the others keep their order.
LEMMA InsertElements ==
  ASSUME NEW S, alarms \in Seq(S), NEW e \in S
  PROVE  /\ Insert(e) \in Seq(S) /\ Len(Insert(e)) = Len(alarms) + 1
         /\ \E n \in 0 .. Len(alarms) : \A i \in 1 .. Len(alarms) + 1 :
              Insert(e)[i] = IF i <= n THEN alarms[i] ELSE IF i = n + 1 THEN e ELSE alarms[i - 1]
<1> DEFINE P == {i \in DOMAIN alarms : alarms[i].time <= e.time}
           n == Cardinality(P)
           L == Len(alarms)
<1>1. L \in Nat /\ DOMAIN alarms = 1 .. L /\ \A i \in 1 .. L : alarms[i] \in S
  BY LenProperties, ElementOfSeq
<1>2. n \in Nat /\ n <= L
  <2>1. IsFiniteSet(1 .. L) /\ Cardinality(1 .. L) = L
    <3>1. L \in Int /\ L >= 0
      BY <1>1
    <3> HIDE DEF L
    <3> QED BY <3>1, FS_Interval
  <2>2. P \subseteq 1 .. L
    <3>1. P \subseteq DOMAIN alarms
      OBVIOUS
    <3> HIDE DEF P, L
    <3> QED BY <3>1, <1>1
  <2> HIDE DEF P
  <2>3. IsFiniteSet(P) /\ Cardinality(P) <= Cardinality(1 .. L)
    BY <2>1, <2>2, FS_Subset
  <2>4. Cardinality(P) \in Nat
    BY <2>3, FS_CardinalityType
  <2> QED BY <2>1, <2>3, <2>4
<1>3. Insert(e) = SubSeq(alarms, 1, n) \o <<e>> \o SubSeq(alarms, n + 1, L)
  BY DEF Insert
<1> HIDE DEF P, n
<1> DEFINE s1 == SubSeq(alarms, 1, n)
           s2 == SubSeq(alarms, n + 1, L)
           s3 == s1 \o <<e>>
<1>4. s1 \in Seq(S) /\ Len(s1) = n /\ \A i \in 1 .. n : s1[i] = alarms[i]
  <2>1. \A i \in 1 .. n : alarms[i] \in S
    BY <1>1, <1>2
  <2> QED BY <1>2, <2>1, SubSeqProperties
<1>5. s2 \in Seq(S) /\ Len(s2) = L - n /\ \A i \in 1 .. (L - n) : s2[i] = alarms[n + i]
  <2> HIDE DEF L
  <2>1. n + 1 \in Int /\ L \in Int /\ \A i \in (n + 1) .. L : alarms[i] \in S
    BY <1>1, <1>2
  <2>2. /\ s2 \in Seq(S) /\ Len(s2) = IF n + 1 <= L THEN L - (n + 1) + 1 ELSE 0
        /\ \A i \in 1 .. (L - (n + 1) + 1) : s2[i] = alarms[(n + 1) + i - 1]
    BY <2>1, SubSeqProperties
  <2> HIDE DEF s2
  <2> QED BY <2>2, <1>1, <1>2
<1> HIDE DEF s1, s2, L
<1>6. /\ s3 \in Seq(S) /\ Len(s3) = n + 1
      /\ \A i \in 1 .. (n + 1) : s3[i] = IF i <= n THEN alarms[i] ELSE e
  <2>1. <<e>> \in Seq(S) /\ Len(<<e>>) = 1 /\ <<e>>[1] = e
    OBVIOUS
  <2>2. /\ s3 \in Seq(S) /\ Len(s3) = Len(s1) + Len(<<e>>)
        /\ \A i \in 1 .. Len(s1) + Len(<<e>>) :
             s3[i] = IF i <= Len(s1) THEN s1[i] ELSE <<e>>[i - Len(s1)]
    BY <1>4, <2>1, ConcatProperties
  <2> HIDE DEF s3
  <2> QED BY <2>1, <2>2, <1>2, <1>4
<1>7. Insert(e) = s3 \o s2
  BY <1>3 DEF s1, s2
<1> HIDE DEF s3
<1>8. /\ s3 \o s2 \in Seq(S) /\ Len(s3 \o s2) = Len(s3) + Len(s2)
      /\ \A i \in 1 .. Len(s3) + Len(s2) :
           (s3 \o s2)[i] = IF i <= Len(s3) THEN s3[i] ELSE s2[i - Len(s3)]
  <2>1. s3 \in Seq(S) /\ s2 \in Seq(S)
    BY <1>5, <1>6
  <2> QED BY <2>1, ConcatProperties
<1>9. Len(s3) + Len(s2) = L + 1
  <2>1. Len(s3) = n + 1 /\ Len(s2) = L - n /\ n \in Int /\ L \in Int
    BY <1>1, <1>2, <1>5, <1>6
  <2> QED BY <2>1
<1>10. ASSUME NEW i \in 1 .. (L + 1), i > n + 1 PROVE s2[i - (n + 1)] = alarms[i - 1]
  <2>1. i - (n + 1) \in 1 .. (L - n) /\ n + (i - (n + 1)) = i - 1
    BY <1>1, <1>2, <1>10
  <2> QED BY <2>1, <1>5
<1>11. ASSUME NEW i \in 1 .. (L + 1)
       PROVE  Insert(e)[i] = IF i <= n THEN alarms[i] ELSE IF i = n + 1 THEN e ELSE alarms[i - 1]
  <2>1. n \in Int /\ L \in Int /\ i \in Int /\ 1 <= i /\ i <= L + 1
    BY <1>1, <1>2
  <2>2. Insert(e)[i] = IF i <= n + 1 THEN s3[i] ELSE s2[i - (n + 1)]
    BY <1>6, <1>7, <1>8, <1>9
  <2>3. CASE i <= n + 1
    <3>1. Insert(e)[i] = s3[i] /\ i \in 1 .. (n + 1)
      BY <2>1, <2>2, <2>3
    <3> QED BY <1>6, <2>1, <2>3, <3>1
  <2>4. CASE i > n + 1
    <3>1. Insert(e)[i] = s2[i - (n + 1)] /\ ~(i <= n) /\ i # n + 1
      BY <2>1, <2>2, <2>4
    <3> QED BY <1>10, <2>4, <3>1
  <2> QED BY <2>1, <2>3, <2>4
<1>12. n \in 0 .. L
  BY <1>1, <1>2
<1> QED BY <1>7, <1>8, <1>9, <1>11, <1>12 DEF L

LEMMA QueueAfterAlarmsSeq ==
  ASSUME NEW S, NEW R, alarms \in Seq(R), \A e \in R : e.task \in S, task_queue \in Seq(S)
  PROVE  QueueAfterAlarms \in Seq(S)
<1> DEFINE k == Cardinality(Due)
           f == [i \in 1 .. k |-> alarms[k + 1 - i].task]
<1>1. k \in 0 .. Len(alarms) /\ Len(alarms) \in Nat
  BY DueCounted, LenProperties
<1>2. \A i \in 1 .. Len(alarms) : alarms[i].task \in S
  BY ElementOfSeq
<1>3. QueueAfterAlarms = f \o task_queue
  BY DEF QueueAfterAlarms
<1> HIDE DEF k
<1>4. \A i \in 1 .. k : alarms[k + 1 - i].task \in S
  BY <1>1, <1>2
<1>5. f \in [1 .. k -> S]
  BY <1>4
<1> HIDE DEF f
<1>6. f \in Seq(S)
  BY <1>1, <1>5, SeqDef
<1> QED BY <1>3, <1>6, ConcatProperties

-----------------------------------------------------------------------------
(***************************************************************************)
(* Lists and flags.                                                        *)
(***************************************************************************)
ListsType ==
  /\ task_queue \in Seq(spawned) /\ waiters \in [Task -> Seq(spawned)]
  /\ all_tasks \subseteq spawned /\ recv_block \subseteq spawned
  /\ spawned \subseteq Task /\ cur_task \in spawned

AlarmsType == alarms \in Seq(Entries)

FlagsType ==
  /\ enable_preemption \in BOOLEAN /\ wake_requested \in BOOLEAN /\ resched_requested \in BOOLEAN
  /\ killed \subseteq Task /\ in_preempt \subseteq Task /\ at_receive \subseteq Task
  /\ mailbox \in [Task -> 0 .. MaxMail]

PhaseType ==
  /\ phase \in {"loop", "task", "back", "pausing", "paused", "woken", "exited"}
  /\ runloop_level \in 0 .. MaxLevel
  /\ runloop_level = 0 <=> phase # "task"

LEMMA SeqWider ==
  ASSUME NEW S, NEW T, S \subseteq T, NEW s \in Seq(S)
  PROVE  s \in Seq(T)
<1>1. Len(s) \in Nat /\ s \in [1 .. Len(s) -> S]
  BY LenProperties
<1> QED BY <1>1, SeqDef

\* What an action that only schedules tasks it knows does to the lists.
LEMMA ListsGrow ==
  ASSUME ListsType, spawned \subseteq spawned', spawned' \subseteq Task,
         task_queue' \in Seq(spawned'), waiters' = waiters, cur_task' = cur_task,
         all_tasks' \subseteq spawned', recv_block' \subseteq spawned'
  PROVE  ListsType'
<1>1. \A t \in Task : waiters[t] \in Seq(spawned')
  BY SeqWider DEF ListsType
<1> QED BY <1>1 DEF ListsType

LEMMA ScheduledSeq ==
  ASSUME NEW S, NEW q \in Seq(S), NEW ts \in Seq(S), NEW tm, ScheduleTasks(q, ts, tm)
  PROVE  task_queue' \in Seq(S)
BY ConcatProperties DEF ScheduleTasks

LEMMA StopLists ==
  ASSUME ListsType, NEW c \in Task, NEW q \in Seq(spawned), NEW tm,
         NEW wt \in [Task -> Seq(spawned)], StopTask(c, q, tm, wt)
  PROVE  task_queue' \in Seq(spawned) /\ all_tasks' \subseteq all_tasks
<1>1. wt[c] \in Seq(spawned)
  OBVIOUS
<1>2. CASE FinishTask(c, q, tm, wt)
  BY <1>1, <1>2, ScheduledSeq DEF FinishTask
<1>3. CASE LeaveTask(q, tm)
  BY <1>3 DEF LeaveTask
<1> QED BY <1>2, <1>3 DEF StopTask

ListsInv == ListsType /\ AlarmsType

LEMMA ListsKept ==
  ASSUME ListsType, UNCHANGED <<task_queue, waiters, cur_task, spawned>>,
         all_tasks' \subseteq spawned, recv_block' \subseteq spawned
  PROVE  ListsType'
BY DEF ListsType

LEMMA AlarmsTypeKept ==
  ASSUME AlarmsType, UNCHANGED <<alarms, spawned>>
  PROVE  AlarmsType'
BY DEF AlarmsType, Entries

\* Entries of more tasks.
LEMMA EntriesWider ==
  ASSUME spawned \subseteq spawned'
  PROVE  Entries \subseteq Entries'
BY DEF Entries

\* A time that is set is at hand.
LEMMA EntryOf ==
  ASSUME NEW d \in Sleeps, NEW t \in spawned
  PROVE  [task |-> t, time |-> d] \in Entries
<1>1. d \in Nat /\ Soon(d)
  BY TimesAssumption DEF Soon
<1> QED BY <1>1 DEF Entries

LEMMA QueueTyped ==
  ASSUME ListsInv
  PROVE  QueueAfterAlarms \in Seq(spawned) /\ Later \in Seq(Entries)
<1>1. \A e \in Entries : e.task \in spawned
  BY DEF Entries
<1> QED BY <1>1, QueueAfterAlarmsSeq, LaterSeq DEF ListsInv, ListsType, AlarmsType

LEMMA ListsBranch ==
  ASSUME ListsInv, NEW c \in Task, Branch(c)
  PROVE  ListsInv'
<1>a. c \in spawned /\ QueueAfterAlarms \in Seq(spawned) /\ Later \in Seq(Entries)
  BY QueueTyped DEF ListsInv, ListsType, Branch, Op, Running
<1>b. alarms' = Later /\ UNCHANGED <<spawned, killed, recv_block, mailbox, waiters, cur_task>>
  BY DEF Branch
<1>1. task_queue' \in Seq(spawned) /\ all_tasks' \subseteq all_tasks
  <2> DEFINE tm == [TimerAfterAlarms EXCEPT !.fired = FALSE]
  <2>1. CASE StopTask(c, Append(QueueAfterAlarms, c), tm, waiters)
    <3> DEFINE q == Append(QueueAfterAlarms, c)
    <3>1. q \in Seq(spawned)
      BY <1>a, AppendProperties
    <3> HIDE DEF q, tm
    <3>2. StopTask(c, q, tm, waiters)
      BY <2>1 DEF q
    <3> QED BY <3>1, <3>2, StopLists DEF ListsInv, ListsType
  <2>2. CASE LeaveTask(QueueAfterAlarms, IF enable_preemption THEN AlarmSet(tm, quantum_done) ELSE tm)
    BY <2>2, <1>a DEF LeaveTask
  <2> QED BY <2>1, <2>2 DEF Branch
<1>2. ListsType'
  BY <1>1, <1>b, ListsGrow DEF ListsInv, ListsType
<1>3. AlarmsType'
  BY <1>a, <1>b DEF AlarmsType, Entries
<1> QED BY <1>2, <1>3 DEF ListsInv

LEMMA ListsSleep ==
  ASSUME ListsInv, NEW c \in Task, NEW d \in Sleeps, Sleep(c, d)
  PROVE  ListsInv'
<1>a. c \in spawned /\ task_queue \in Seq(spawned) /\ waiters \in [Task -> Seq(spawned)]
  BY DEF ListsInv, ListsType, Sleep, Op, Running
<1>b. /\ alarms' = Insert([task |-> c, time |-> d])
      /\ StopTask(c, task_queue, AlarmSet(timer, d), waiters)
      /\ UNCHANGED <<spawned, recv_block, waiters, cur_task>>
  BY DEF Sleep
<1>1. task_queue' \in Seq(spawned) /\ all_tasks' \subseteq all_tasks
  BY <1>a, <1>b, StopLists DEF ListsInv
<1>2. ListsType'
  BY <1>1, <1>b, ListsGrow DEF ListsInv, ListsType
<1>3. AlarmsType'
  <2>1. alarms' \in Seq(Entries)
    BY <1>a, <1>b, EntryOf, InsertElements DEF ListsInv, AlarmsType
  <2> QED BY <2>1, <1>b DEF AlarmsType, Entries
<1> QED BY <1>2, <1>3 DEF ListsInv

LEMMA ListsPass ==
  ASSUME ListsInv, NEW c \in Task, Pass(c) \/ ReceiveBlock(c)
  PROVE  ListsInv'
<1>a. c \in spawned /\ task_queue \in Seq(spawned) /\ waiters \in [Task -> Seq(spawned)]
  BY DEF ListsInv, ListsType, Pass, ReceiveBlock, Op, Running
<1>b. /\ \E q \in Seq(spawned) : StopTask(c, q, timer, waiters)
      /\ UNCHANGED <<alarms, spawned, waiters, cur_task>>
      /\ recv_block' \subseteq recv_block \cup {c}
  <2>1. Append(task_queue, c) \in Seq(spawned)
    BY <1>a, AppendProperties
  <2> QED BY <2>1, <1>a DEF Pass, ReceiveBlock
<1>1. task_queue' \in Seq(spawned) /\ all_tasks' \subseteq all_tasks
  BY <1>a, <1>b, StopLists DEF ListsInv
<1>2. ListsType'
  BY <1>1, <1>a, <1>b, ListsGrow DEF ListsInv, ListsType
<1>3. AlarmsType'
  BY <1>b, AlarmsTypeKept DEF ListsInv
<1> QED BY <1>2, <1>3 DEF ListsInv

LEMMA ListsWait ==
  ASSUME ListsInv, NEW c \in Task, NEW t \in Task, Wait(c, t)
  PROVE  ListsInv'
<1>a. c \in spawned /\ task_queue \in Seq(spawned) /\ waiters \in [Task -> Seq(spawned)]
  BY DEF ListsInv, ListsType, Wait, Op, Running
<1>b. /\ waiters' = [waiters EXCEPT ![t] = Append(@, c)]
      /\ StopTask(c, task_queue, timer, waiters')
      /\ UNCHANGED <<alarms, spawned, recv_block, cur_task>>
  BY DEF Wait
<1>0. waiters' \in [Task -> Seq(spawned)]
  <2>1. Append(waiters[t], c) \in Seq(spawned)
    BY <1>a, AppendProperties
  <2> QED BY <2>1, <1>a, <1>b
<1>1. task_queue' \in Seq(spawned) /\ all_tasks' \subseteq all_tasks
  BY <1>0, <1>a, <1>b, StopLists DEF ListsInv
<1>2. ListsType'
  BY <1>0, <1>1, <1>b DEF ListsInv, ListsType
<1>3. AlarmsType'
  BY <1>b, AlarmsTypeKept DEF ListsInv
<1> QED BY <1>2, <1>3 DEF ListsInv

LEMMA ListsReturn ==
  ASSUME ListsInv, NEW c \in Task, Return(c)
  PROVE  ListsInv'
<1>b. UNCHANGED <<alarms, spawned, recv_block, waiters, cur_task>>
  BY DEF Return, taskVars
<1>1. task_queue' \in Seq(spawned) /\ all_tasks' \subseteq all_tasks
  <2>0. task_queue \in Seq(spawned) /\ waiters[c] \in Seq(spawned)
    BY DEF ListsInv, ListsType
  <2>1. CASE FinishTask(c, task_queue, timer, waiters)
    BY <2>0, <2>1, ScheduledSeq DEF FinishTask
  <2>2. CASE LeaveTask(task_queue, timer)
    BY <2>0, <2>2 DEF LeaveTask
  <2> QED BY <2>1, <2>2 DEF Return
<1>2. ListsType'
  BY <1>1, <1>b, ListsGrow DEF ListsInv, ListsType
<1>3. AlarmsType'
  BY <1>b, AlarmsTypeKept DEF ListsInv
<1> QED BY <1>2, <1>3 DEF ListsInv

LEMMA ListsSchedule ==
  ASSUME ListsInv, NEW c \in Task, NEW t \in Task, Schedule(c, t)
  PROVE  ListsInv'
<1>b. /\ spawned' = spawned \cup {t} /\ ScheduleTasks(task_queue, <<t>>, timer)
      /\ UNCHANGED <<alarms, all_tasks, recv_block, waiters, cur_task>>
  BY DEF Schedule
<1>1. task_queue' \in Seq(spawned')
  <2>1. task_queue \in Seq(spawned') /\ <<t>> \in Seq(spawned')
    BY <1>b, SeqWider DEF ListsInv, ListsType
  <2> QED BY <2>1, <1>b, ScheduledSeq
<1>2. ListsType'
  BY <1>1, <1>b, ListsGrow DEF ListsInv, ListsType
<1>3. AlarmsType'
  BY <1>b, EntriesWider, SeqWider DEF ListsInv, AlarmsType
<1> QED BY <1>2, <1>3 DEF ListsInv

LEMMA ListsSetAlarm ==
  ASSUME ListsInv, NEW c \in Task, NEW t \in Task, NEW d \in Sleeps, SetAlarm(c, t, d)
  PROVE  ListsInv'
<1>b. /\ spawned' = spawned \cup {t} /\ alarms' = Insert([task |-> t, time |-> d])
      /\ UNCHANGED <<task_queue, all_tasks, recv_block, waiters, cur_task>>
  BY DEF SetAlarm
<1>2. ListsType'
  BY <1>b, ListsGrow, SeqWider DEF ListsInv, ListsType
<1>3. AlarmsType'
  <2>1. alarms \in Seq(Entries')
    BY <1>b, EntriesWider, SeqWider DEF ListsInv, AlarmsType
  <2>2. [task |-> t, time |-> d] \in Entries'
    BY <1>b, TimesAssumption DEF Entries, Soon
  <2> QED BY <2>1, <2>2, <1>b, InsertElements DEF AlarmsType
<1> QED BY <1>2, <1>3 DEF ListsInv

LEMMA ListsSend ==
  ASSUME ListsInv, NEW c \in Task, NEW t \in Task, Send(c, t)
  PROVE  ListsInv'
<1> DEFINE ts == IF t \in recv_block THEN <<t>> ELSE <<>>
<1>b. /\ ScheduleTasks(task_queue, ts, timer)
      /\ UNCHANGED <<alarms, spawned, all_tasks, waiters, cur_task>>
      /\ recv_block' \subseteq recv_block
  BY DEF Send
<1>0. ts \in Seq(spawned) /\ task_queue \in Seq(spawned)
  BY DEF ListsInv, ListsType
<1> HIDE DEF ts
<1>1. task_queue' \in Seq(spawned)
  BY <1>0, <1>b, ScheduledSeq
<1>2. ListsType'
  BY <1>1, <1>b, ListsGrow DEF ListsInv, ListsType
<1>3. AlarmsType'
  BY <1>b, AlarmsTypeKept DEF ListsInv
<1> QED BY <1>2, <1>3 DEF ListsInv

LEMMA ListsProgram ==
  ASSUME ListsInv, NEW c \in Task, Program(c)
  PROVE  ListsInv'
<1>k. ASSUME UNCHANGED <<queueVars, recv_block, waiters, cur_task, spawned>> PROVE ListsInv'
  BY <1>k, ListsKept, AlarmsTypeKept DEF ListsInv, ListsType, queueVars
<1>1. CASE Branch(c)  BY <1>1, ListsBranch
<1>2. CASE Return(c)  BY <1>2, ListsReturn
<1>3. CASE EnterRunloop(c) \/ LeaveRunloop(c)
  BY <1>3, <1>k DEF EnterRunloop, LeaveRunloop, taskVars
<1>4. CASE Pass(c) \/ ReceiveBlock(c)  BY <1>4, ListsPass
<1>5. CASE Receive(c)  BY <1>5, <1>k DEF Receive
<1>6. ASSUME NEW d \in Sleeps, Sleep(c, d) PROVE ListsInv'
  BY <1>6, ListsSleep
<1>7. ASSUME NEW t \in Task, Schedule(c, t) \/ Send(c, t) \/ Wait(c, t) PROVE ListsInv'
  BY <1>7, ListsSchedule, ListsSend, ListsWait
<1>8. ASSUME NEW t \in Task, Kill(c, t) PROVE ListsInv'
  BY <1>8, <1>k DEF Kill
<1>9. ASSUME NEW t \in Task, NEW d \in Sleeps, SetAlarm(c, t, d) PROVE ListsInv'
  BY <1>9, ListsSetAlarm
<1> QED BY <1>1, <1>2, <1>3, <1>4, <1>5, <1>6, <1>7, <1>8, <1>9 DEF Program

LEMMA ListsNextTask ==
  ASSUME ListsInv, NextTask
  PROVE  ListsInv'
<1> DEFINE t == Head(task_queue)
<1>a. task_queue # <<>> /\ task_queue \in Seq(spawned) /\ waiters \in [Task -> Seq(spawned)]
  BY DEF ListsInv, ListsType, NextTask
<1>b. /\ cur_task' = t
      /\ \/ task_queue' = Tail(task_queue) \o waiters[t] /\ all_tasks' = all_tasks \ {t}
         \/ task_queue' = Tail(task_queue) /\ all_tasks' = all_tasks \cup {t}
      /\ UNCHANGED <<alarms, spawned, recv_block, waiters>>
  BY DEF NextTask
<1>c. t \in spawned /\ Tail(task_queue) \in Seq(spawned)
  BY <1>a, HeadTailProperties
<1> HIDE DEF t
<1>d. waiters[t] \in Seq(spawned)
  BY <1>a, <1>c DEF ListsInv, ListsType
<1>e. Tail(task_queue) \o waiters[t] \in Seq(spawned)
  BY <1>c, <1>d, ConcatProperties
<1>1. ListsType'
  BY <1>b, <1>c, <1>e DEF ListsInv, ListsType
<1>2. AlarmsType'
  BY <1>b, AlarmsTypeKept DEF ListsInv
<1> QED BY <1>1, <1>2 DEF ListsInv

LEMMA ListsCheckAlarms ==
  ASSUME ListsInv, CheckAlarms
  PROVE  ListsInv'
<1>b. /\ task_queue' = QueueAfterAlarms /\ alarms' = Later
      /\ UNCHANGED <<spawned, all_tasks, recv_block, waiters, cur_task>>
  BY DEF CheckAlarms, taskVars
<1>1. ListsType'
  BY <1>b, QueueTyped, ListsGrow DEF ListsInv, ListsType
<1>2. AlarmsType'
  BY <1>b, QueueTyped DEF AlarmsType, Entries
<1> QED BY <1>1, <1>2 DEF ListsInv

LEMMA ListsTick ==
  ASSUME ListsInv, Tick
  PROVE  ListsInv'
<1>b. UNCHANGED <<task_queue, spawned, all_tasks, recv_block, waiters, cur_task>>
  BY DEF Tick, taskVars
<1>1. ListsType'
  BY <1>b, ListsKept DEF ListsInv, ListsType
<1>2. AlarmsType'
  <2> DEFINE L == Len(alarms)
  <2>1. /\ L \in Nat /\ DOMAIN alarms = 1 .. L
        /\ \A i \in 1 .. L : alarms[i] \in Entries
    BY LenProperties, ElementOfSeq DEF ListsInv, AlarmsType
  <2>2. alarms' = [i \in 1 .. L |-> [alarms[i] EXCEPT !.time = Decayed(@, -1)]]
    BY <2>1 DEF Tick
  <2> HIDE DEF L
  <2>3. ASSUME NEW i \in 1 .. L PROVE alarms'[i] \in Entries
    <3> DEFINE a == alarms[i]
               d == Decayed(a.time, -1)
    <3>1. a \in [task : spawned, time : Int] /\ a.time >= -1 /\ Soon(a.time)
      BY <2>1 DEF Entries
    <3>2. d \in Int /\ d >= -1 /\ d <= a.time
      BY <3>1 DEF Decayed
    <3>3. Soon(d)
      BY <3>1, <3>2, TimesAssumption DEF Soon
    <3>4. alarms'[i] = [a EXCEPT !.time = d]
      BY <2>2
    <3> HIDE DEF a, d
    <3>5. [a EXCEPT !.time = d] \in [task : spawned, time : Int] /\ [a EXCEPT !.time = d].time = d
      BY <3>1, <3>2
    <3> QED BY <3>2, <3>3, <3>4, <3>5 DEF Entries
  <2>4. alarms' \in [1 .. L -> Entries]
    BY <2>2, <2>3
  <2>5. alarms' \in Seq(Entries)
    BY <2>1, <2>4, SeqDef
  <2> QED BY <2>5, <1>b DEF AlarmsType, Entries
<1> QED BY <1>1, <1>2 DEF ListsInv

LEMMA ListsStep == ListsInv /\ [Next]_vars => ListsInv'
<1> SUFFICES ASSUME ListsInv, [Next]_vars PROVE ListsInv'
  OBVIOUS
<1>k. ASSUME UNCHANGED <<queueVars, recv_block, waiters, cur_task, spawned>> PROVE ListsInv'
  BY <1>k, ListsKept, AlarmsTypeKept DEF ListsInv, ListsType, queueVars
<1>1. CASE Tick  BY <1>1, ListsTick
<1>2. CASE OuterRunloop
  <2>1. CASE NextTask  BY <2>1, ListsNextTask
  <2>2. CASE CheckAlarms  BY <2>2, ListsCheckAlarms
  <2>3. CASE Idle \/ Pause \/ Exit  BY <2>3, <1>k DEF Idle, Pause, Exit, taskVars
  <2> QED BY <1>2, <2>1, <2>2, <2>3 DEF OuterRunloop
<1>3. ASSUME NEW c \in Task, Program(c) PROVE ListsInv'
  BY <1>3, ListsProgram
<1>4. CASE Terminated \/ UNCHANGED vars
  BY <1>4, <1>k DEF Terminated, vars, taskVars
<1> QED BY <1>1, <1>2, <1>3, <1>4 DEF Next

LEMMA ListsInit == Init => ListsInv
<1> SUFFICES ASSUME Init PROVE ListsInv
  OBVIOUS
<1>1. task_queue = <<Main>> /\ alarms = <<>> /\ spawned = {Main} /\ cur_task = Main
      /\ all_tasks = {} /\ recv_block = {} /\ waiters = [t \in Task |-> <<>>]
  BY DEF Init
<1>2. ListsType
  BY <1>1, TasksAssumption DEF ListsType
<1>3. AlarmsType
  BY <1>1 DEF AlarmsType
<1> QED BY <1>2, <1>3 DEF ListsInv

-----------------------------------------------------------------------------
\* Preemption is a flag, whatever the queue does to it.
LEMMA ScheduledFlag ==
  ASSUME enable_preemption \in BOOLEAN, NEW q, NEW ts, NEW tm, ScheduleTasks(q, ts, tm)
  PROVE  enable_preemption' \in BOOLEAN
BY DEF ScheduleTasks, EnablePreemption

LEMMA StopFlags ==
  ASSUME enable_preemption \in BOOLEAN, in_preempt \subseteq Task,
         NEW c \in Task, NEW q, NEW tm, NEW wt, StopTask(c, q, tm, wt)
  PROVE  enable_preemption' \in BOOLEAN /\ in_preempt' \subseteq Task
<1>1. in_preempt' \subseteq Task
  BY DEF StopTask
<1>2. enable_preemption' \in BOOLEAN
  BY ScheduledFlag DEF StopTask, FinishTask, LeaveTask
<1> QED BY <1>1, <1>2

LEMMA FlagsProgram ==
  ASSUME FlagsType, NEW c \in Task, Program(c)
  PROVE  FlagsType'
<1>s. ASSUME NEW q, NEW tm, NEW wt, StopTask(c, q, tm, wt),
             wake_requested' \in BOOLEAN, resched_requested' \in BOOLEAN,
             at_receive' \subseteq Task, UNCHANGED <<killed, mailbox>>
      PROVE  FlagsType'
  BY <1>s, StopFlags DEF FlagsType
<1>1. CASE Branch(c)
  <2>1. /\ wake_requested' \in BOOLEAN /\ resched_requested' \in BOOLEAN
        /\ UNCHANGED <<killed, mailbox>>
    BY <1>1 DEF Branch
  <2> DEFINE tm == [TimerAfterAlarms EXCEPT !.fired = FALSE]
  <2>2. CASE StopTask(c, Append(QueueAfterAlarms, c), tm, waiters) /\ at_receive' = at_receive \ {c}
    BY <2>1, <2>2, <1>s DEF FlagsType
  <2>3. CASE UNCHANGED <<enable_preemption, in_preempt, at_receive>>
    BY <2>1, <2>3 DEF FlagsType
  <2> QED BY <1>1, <2>2, <2>3 DEF Branch, LeaveTask
<1>2. CASE Return(c)
  <2>1. enable_preemption' \in BOOLEAN
    BY <1>2, ScheduledFlag DEF FlagsType, Return, FinishTask, LeaveTask
  <2> QED BY <1>2, <2>1 DEF FlagsType, Return, taskVars
<1>3. CASE EnterRunloop(c) \/ LeaveRunloop(c)
  BY <1>3 DEF EnterRunloop, LeaveRunloop, FlagsType, flagVars, taskVars
<1>4. CASE Pass(c)  BY <1>4, <1>s DEF Pass, FlagsType
<1>5. CASE Receive(c)
  <2>1. mailbox' \in [Task -> 0 .. MaxMail]
    BY <1>5, TimesAssumption DEF Receive, FlagsType
  <2> QED BY <1>5, <2>1 DEF Receive, FlagsType, flagVars
<1>6. CASE ReceiveBlock(c)  BY <1>6, <1>s DEF ReceiveBlock, FlagsType
<1>7. ASSUME NEW d \in Sleeps, Sleep(c, d) PROVE FlagsType'
  BY <1>7, <1>s DEF Sleep, FlagsType
<1>8. ASSUME NEW t \in Task, Schedule(c, t) PROVE FlagsType'
  BY <1>8, ScheduledFlag DEF Schedule, FlagsType
<1>9. ASSUME NEW t \in Task, Send(c, t) PROVE FlagsType'
  <2>1. mailbox' \in [Task -> 0 .. MaxMail]
    BY <1>9, TimesAssumption DEF Send, FlagsType
  <2>2. enable_preemption' \in BOOLEAN
    BY <1>9, ScheduledFlag DEF Send, FlagsType
  <2> QED BY <1>9, <2>1, <2>2 DEF Send, FlagsType
<1>10. ASSUME NEW t \in Task, Wait(c, t) PROVE FlagsType'
  BY <1>10, <1>s DEF Wait, FlagsType
<1>11. ASSUME NEW t \in Task, Kill(c, t) PROVE FlagsType'
  BY <1>11 DEF Kill, FlagsType, flagVars
<1>12. ASSUME NEW t \in Task, NEW d \in Sleeps, SetAlarm(c, t, d) PROVE FlagsType'
  BY <1>12 DEF SetAlarm, FlagsType, flagVars
<1> QED BY <1>1, <1>2, <1>3, <1>4, <1>5, <1>6, <1>7, <1>8, <1>9, <1>10, <1>11, <1>12 DEF Program

LEMMA FlagsStep == FlagsType /\ [Next]_vars => FlagsType'
<1> SUFFICES ASSUME FlagsType, [Next]_vars PROVE FlagsType'
  OBVIOUS
<1>1. CASE Tick  BY <1>1 DEF Tick, FlagsType, flagVars, taskVars
<1>2. CASE NextTask  BY <1>2 DEF NextTask, FlagsType, EnablePreemption
<1>3. CASE CheckAlarms  BY <1>3 DEF CheckAlarms, FlagsType, taskVars
<1>4. CASE Idle \/ Pause \/ Exit  BY <1>4 DEF Idle, Pause, Exit, FlagsType, flagVars, taskVars
<1>5. ASSUME NEW c \in Task, Program(c) PROVE FlagsType'
  BY <1>5, FlagsProgram
<1>6. CASE Terminated \/ UNCHANGED vars
  BY <1>6 DEF Terminated, vars, FlagsType, flagVars, taskVars
<1> QED BY <1>1, <1>2, <1>3, <1>4, <1>5, <1>6 DEF Next, OuterRunloop

LEMMA FlagsInit == Init => FlagsType
<1> SUFFICES ASSUME Init PROVE FlagsType
  OBVIOUS
<1>1. mailbox = [t \in Task |-> 0] /\ 0 \in 0 .. MaxMail
  BY TimesAssumption DEF Init
<1>2. mailbox \in [Task -> 0 .. MaxMail]
  BY <1>1
<1>3. /\ enable_preemption = FALSE /\ wake_requested = TRUE /\ resched_requested = TRUE
      /\ killed = {} /\ in_preempt = {} /\ at_receive = {}
  BY DEF Init
<1> QED BY <1>2, <1>3 DEF FlagsType

-----------------------------------------------------------------------------
\* The level of runloops is 0 between tasks.
LEMMA StopPhase ==
  ASSUME PhaseType, NEW c \in Task, NEW q, NEW tm, NEW wt, phase = "task", StopTask(c, q, tm, wt)
  PROVE  PhaseType'
<1>1. /\ runloop_level' = runloop_level - 1
      /\ phase' = IF runloop_level = 1 THEN "back" ELSE "task"
  BY DEF StopTask
<1> QED BY <1>1, TimesAssumption DEF PhaseType

LEMMA PhaseProgram ==
  ASSUME PhaseType, NEW c \in Task, Program(c)
  PROVE  PhaseType'
<1>0. phase = "task"
  BY DEF Program, Branch, Return, EnterRunloop, LeaveRunloop, Pass, Receive, ReceiveBlock, Sleep,
         Schedule, Send, Wait, Kill, SetAlarm, Op, Running
<1>k. ASSUME UNCHANGED <<phase, runloop_level>> PROVE PhaseType'
  BY <1>k DEF PhaseType
<1>s. ASSUME NEW q, NEW tm, NEW wt, StopTask(c, q, tm, wt) PROVE PhaseType'
  BY <1>s, <1>0, StopPhase
<1>1. CASE Branch(c)
  <2>1. CASE UNCHANGED <<runloop_level, phase>>  BY <2>1, <1>k
  <2>2. CASE \E q, tm, wt : StopTask(c, q, tm, wt)  BY <2>2, <1>s
  <2> QED BY <1>1, <2>1, <2>2 DEF Branch
<1>2. CASE Return(c)  BY <1>2, TimesAssumption DEF Return, PhaseType
<1>3. CASE EnterRunloop(c) \/ LeaveRunloop(c)
  BY <1>3, <1>0, TimesAssumption DEF EnterRunloop, LeaveRunloop, PhaseType
<1>4. CASE Pass(c) \/ ReceiveBlock(c)  BY <1>4, <1>s DEF Pass, ReceiveBlock
<1>5. CASE Receive(c)  BY <1>5, <1>k DEF Receive
<1>6. ASSUME NEW d \in Sleeps, Sleep(c, d) PROVE PhaseType'
  BY <1>6, <1>s DEF Sleep
<1>7. ASSUME NEW t \in Task, Schedule(c, t) \/ Send(c, t) \/ Kill(c, t) PROVE PhaseType'
  BY <1>7, <1>k DEF Schedule, Send, Kill
<1>8. ASSUME NEW t \in Task, Wait(c, t) PROVE PhaseType'
  BY <1>8, <1>s DEF Wait
<1>9. ASSUME NEW t \in Task, NEW d \in Sleeps, SetAlarm(c, t, d) PROVE PhaseType'
  BY <1>9, <1>k DEF SetAlarm
<1> QED BY <1>1, <1>2, <1>3, <1>4, <1>5, <1>6, <1>7, <1>8, <1>9 DEF Program

LEMMA PhaseStep == PhaseType /\ [Next]_vars => PhaseType'
<1> SUFFICES ASSUME PhaseType, [Next]_vars PROVE PhaseType'
  OBVIOUS
<1>1. CASE Tick  BY <1>1 DEF Tick, PhaseType
<1>2. CASE NextTask  BY <1>2, TimesAssumption DEF NextTask, PhaseType
<1>3. CASE CheckAlarms  BY <1>3 DEF CheckAlarms, PhaseType
<1>4. CASE Idle \/ Pause \/ Exit  BY <1>4 DEF Idle, Pause, Exit, PhaseType
<1>5. ASSUME NEW c \in Task, Program(c) PROVE PhaseType'
  BY <1>5, PhaseProgram
<1>6. CASE Terminated \/ UNCHANGED vars
  BY <1>6 DEF Terminated, vars, PhaseType
<1> QED BY <1>1, <1>2, <1>3, <1>4, <1>5, <1>6 DEF Next, OuterRunloop

LEMMA PhaseInit == Init => PhaseType
<1> SUFFICES ASSUME Init PROVE PhaseType
  OBVIOUS
<1>1. phase = "loop" /\ runloop_level = 0
  BY DEF Init
<1> QED BY <1>1, TimesAssumption DEF PhaseType

-----------------------------------------------------------------------------
(***************************************************************************)
(* The timer: its type, for any nesting of runloops.                       *)
(***************************************************************************)
Timed(tm) ==
  /\ tm \in [set_to : Nat, left : Nat, fired : BOOLEAN]
  /\ Soon(tm.set_to - 1) /\ Soon(tm.left - 1)

TimeType == quantum_done \in -2 .. Quantum /\ Timed(timer)

\* Parrot_alarm_set keeps the timer within what it is given.
LEMMA AlarmSetTimed ==
  ASSUME NEW tm, Timed(tm), NEW when \in Int, Soon(when)
  PROVE  Timed(AlarmSet(tm, when))
<1> DEFINE r == AlarmSet(tm, when)
<1>a. tm \in [set_to : Nat, left : Nat, fired : BOOLEAN]
  BY DEF Timed
<1>1. CASE 0 < tm.set_to /\ tm.set_to < when + 1
  BY <1>1 DEF AlarmSet
<1>2. CASE ~(0 < tm.set_to /\ tm.set_to < when + 1) /\ when + 1 < 0
  <2>1. r = [tm EXCEPT !.set_to = 0, !.fired = TRUE]
    BY <1>2 DEF AlarmSet
  <2> HIDE DEF r
  <2>2. r.set_to = 0 /\ r.left = tm.left /\ r \in [set_to : Nat, left : Nat, fired : BOOLEAN]
    BY <2>1, <1>a
  <2>3. Soon(r.set_to - 1)
    BY <2>2, TimesAssumption DEF Soon
  <2>4. Soon(r.left - 1)
    BY <2>2 DEF Timed
  <2>5. Timed(r)
    BY <2>2, <2>3, <2>4 DEF Timed
  <2> QED BY <2>5 DEF r
<1>3. CASE ~(0 < tm.set_to /\ tm.set_to < when + 1) /\ ~(when + 1 < 0)
  <2>1. r = [tm EXCEPT !.set_to = when + 1, !.left = when + 1]
    BY <1>3 DEF AlarmSet
  <2>2. when + 1 \in Nat /\ (when + 1) - 1 = when
    BY <1>3
  <2> HIDE DEF r
  <2>3. r.set_to = when + 1 /\ r.left = when + 1 /\ r \in [set_to : Nat, left : Nat, fired : BOOLEAN]
    BY <2>1, <2>2, <1>a
  <2>4. Timed(r)
    BY <2>2, <2>3 DEF Timed
  <2> QED BY <2>4 DEF r
<1> QED BY <1>1, <1>2, <1>3

LEMMA QuantumSoon == Quantum \in Int /\ Soon(Quantum)
BY TimesAssumption DEF Soon

\* What is left of the alarms starts with one that is not due.
LEMMA LaterHead ==
  ASSUME AlarmsType, AlarmsOrdered, Later # <<>>
  PROVE  /\ Head(Later).time \in Nat /\ Soon(Head(Later).time)
         /\ \E i \in DOMAIN alarms : Head(Later) = alarms[i]
<1> DEFINE k == Cardinality(Due)
           L == Len(alarms)
<1>a. /\ L \in Nat /\ DOMAIN alarms = 1 .. L
      /\ \A i \in 1 .. L : alarms[i] \in Entries
  BY LenProperties, ElementOfSeq DEF AlarmsType
<1>1. k \in 0 .. L /\ \A i \in 1 .. L : i \in Due <=> i <= k
  BY DueCounted DEF AlarmsType
<1>2. /\ Later \in Seq(Entries) /\ Len(Later) = L - k
      /\ \A i \in 1 .. Len(Later) : Later[i] = alarms[k + i]
  BY LaterSeq DEF AlarmsType
<1> HIDE DEF k, L
<1>3. Len(Later) # 0
  BY <1>2, EmptySeq
<1>4. k + 1 \in 1 .. L /\ 1 \in 1 .. Len(Later)
  BY <1>1, <1>2, <1>3, <1>a
<1>5. Head(Later) = alarms[k + 1]
  <2>1. Head(Later) = Later[1]
    BY <1>2, HeadTailProperties
  <2> QED BY <2>1, <1>2, <1>4
<1>6. k + 1 \notin Due
  BY <1>1, <1>4
<1>7. \E j \in 1 .. (k + 1) : ~(alarms[j].time < 0)
  BY <1>4, <1>6, <1>a DEF Due
<1>8. PICK j \in 1 .. (k + 1) : ~(alarms[j].time < 0)
  BY <1>7
<1>9. alarms[j].time \in Int /\ alarms[k + 1].time \in Int /\ Soon(alarms[k + 1].time)
  BY <1>1, <1>4, <1>a DEF Entries
<1>10. j \in 1 .. L /\ (j = k + 1 \/ j < k + 1)
  BY <1>1, <1>4, <1>a
<1>11. alarms[j].time <= alarms[k + 1].time
  <2>1. CASE j = k + 1  BY <2>1, <1>9
  <2>2. CASE j < k + 1  BY <2>2, <1>4, <1>10, <1>a DEF AlarmsOrdered
  <2> QED BY <1>10, <2>1, <2>2
<1>12. alarms[k + 1].time >= 0
  BY <1>8, <1>9, <1>11
<1> QED BY <1>4, <1>5, <1>9, <1>12, <1>a

LEMMA TimerAfterAlarmsTimed ==
  ASSUME AlarmsType, AlarmsOrdered, Timed(timer)
  PROVE  Timed(TimerAfterAlarms)
<1>1. CASE Later = <<>>
  BY <1>1 DEF TimerAfterAlarms
<1>2. CASE Later # <<>>
  <2>1. Head(Later).time \in Int /\ Soon(Head(Later).time)
    BY <1>2, LaterHead
  <2>2. Timed(AlarmSet(timer, Head(Later).time))
    BY <2>1, AlarmSetTimed
  <2> QED BY <1>2, <2>2 DEF TimerAfterAlarms
<1> QED BY <1>1, <1>2

LEMMA ScheduledTimed ==
  ASSUME quantum_done \in -2 .. Quantum, NEW q, NEW ts, NEW tm, Timed(tm), ScheduleTasks(q, ts, tm)
  PROVE  TimeType'
<1>q. Quantum \in -2 .. Quantum
  BY TimesAssumption
<1>1. CASE EnablePreemption(tm)
  <2>1. quantum_done' = Quantum /\ timer' = AlarmSet(tm, Quantum)
    BY <1>1 DEF EnablePreemption
  <2>2. Timed(AlarmSet(tm, Quantum))
    BY QuantumSoon, AlarmSetTimed
  <2> QED BY <2>1, <2>2, <1>q DEF TimeType, Timed, Soon
<1>2. CASE timer' = tm /\ UNCHANGED quantum_done
  BY <1>2 DEF TimeType, Timed, Soon
<1> QED BY <1>1, <1>2 DEF ScheduleTasks

LEMMA StopTimed ==
  ASSUME quantum_done \in -2 .. Quantum, NEW c, NEW q, NEW tm, NEW wt, Timed(tm),
         StopTask(c, q, tm, wt)
  PROVE  TimeType'
<1>1. CASE FinishTask(c, q, tm, wt)
  BY <1>1, ScheduledTimed DEF FinishTask
<1>2. CASE LeaveTask(q, tm)
  BY <1>2 DEF LeaveTask, TimeType, Timed, Soon
<1> QED BY <1>1, <1>2 DEF StopTask

LEMMA TimedUnfired ==
  ASSUME NEW tm, Timed(tm)
  PROVE  Timed([tm EXCEPT !.fired = FALSE])
<1> DEFINE r == [tm EXCEPT !.fired = FALSE]
<1>1. tm \in [set_to : Nat, left : Nat, fired : BOOLEAN]
  BY DEF Timed
<1>2. r.set_to = tm.set_to /\ r.left = tm.left /\ r \in [set_to : Nat, left : Nat, fired : BOOLEAN]
  BY <1>1
<1> HIDE DEF r
<1>3. Timed(r)
  BY <1>2 DEF Timed
<1> QED BY <1>3 DEF r

LEMMA SleepSoon ==
  ASSUME NEW d \in Sleeps
  PROVE  d \in Nat /\ Soon(d)
BY TimesAssumption DEF Soon

LEMMA TimeBranch ==
  ASSUME TimeType, AlarmsType, AlarmsOrdered, NEW c \in Task, Branch(c)
  PROVE  TimeType'
<1> DEFINE tm == [TimerAfterAlarms EXCEPT !.fired = FALSE]
<1>1. Timed(tm)
  BY TimerAfterAlarmsTimed, TimedUnfired DEF TimeType
<1>2. CASE StopTask(c, Append(QueueAfterAlarms, c), tm, waiters)
  <2> HIDE DEF tm
  <2> QED BY <1>1, <1>2, StopTimed DEF TimeType
<1>3. CASE LeaveTask(QueueAfterAlarms, IF enable_preemption THEN AlarmSet(tm, quantum_done) ELSE tm)
  <2> HIDE DEF tm
  <2>1. quantum_done \in Int /\ Soon(quantum_done)
    BY TimesAssumption DEF TimeType, Soon
  <2>2. Timed(AlarmSet(tm, quantum_done))
    BY <1>1, <2>1, AlarmSetTimed
  <2>3. timer' = tm \/ timer' = AlarmSet(tm, quantum_done)
    BY <1>3 DEF LeaveTask
  <2>4. Timed(timer')
    BY <1>1, <2>2, <2>3
  <2>5. quantum_done' \in -2 .. Quantum
    BY <1>3 DEF LeaveTask, TimeType
  <2> QED BY <2>4, <2>5 DEF TimeType, Timed, Soon
<1> QED BY <1>2, <1>3 DEF Branch

LEMMA TimeProgram ==
  ASSUME TimeType, AlarmsType, AlarmsOrdered, NEW c \in Task, Program(c)
  PROVE  TimeType'
<1>0. quantum_done \in -2 .. Quantum /\ Timed(timer)
  BY DEF TimeType
<1>k. ASSUME UNCHANGED timeVars PROVE TimeType'
  BY <1>k DEF TimeType, timeVars, Timed, Soon
<1>1. CASE Branch(c)  BY <1>1, TimeBranch
<1>2. CASE Return(c)
  <2>1. CASE FinishTask(c, task_queue, timer, waiters)
    BY <2>1, <1>0, ScheduledTimed DEF FinishTask
  <2>2. CASE LeaveTask(task_queue, timer)
    BY <1>2, <2>2, <1>k DEF LeaveTask, Return, timeVars
  <2> QED BY <1>2, <2>1, <2>2 DEF Return
<1>3. CASE EnterRunloop(c) \/ LeaveRunloop(c) \/ Receive(c)
  BY <1>3, <1>k DEF EnterRunloop, LeaveRunloop, Receive
<1>4. CASE Pass(c) \/ ReceiveBlock(c)
  BY <1>4, <1>0, StopTimed DEF Pass, ReceiveBlock
<1>5. ASSUME NEW d \in Sleeps, Sleep(c, d) PROVE TimeType'
  <2>1. StopTask(c, task_queue, AlarmSet(timer, d), waiters)
    BY <1>5 DEF Sleep
  <2>2. Timed(AlarmSet(timer, d))
    BY <1>0, SleepSoon, AlarmSetTimed
  <2> QED BY <1>0, <2>1, <2>2, StopTimed
<1>6. ASSUME NEW t \in Task, Schedule(c, t) \/ Send(c, t) PROVE TimeType'
  BY <1>6, <1>0, ScheduledTimed DEF Schedule, Send
<1>7. ASSUME NEW t \in Task, Wait(c, t) PROVE TimeType'
  BY <1>7, <1>0, StopTimed DEF Wait
<1>8. ASSUME NEW t \in Task, Kill(c, t) PROVE TimeType'
  BY <1>8, <1>k DEF Kill
<1>9. ASSUME NEW t \in Task, NEW d \in Sleeps, SetAlarm(c, t, d) PROVE TimeType'
  <2>1. timer' = AlarmSet(timer, d) /\ quantum_done' = quantum_done
    BY <1>9 DEF SetAlarm
  <2>2. Timed(AlarmSet(timer, d))
    BY <1>0, SleepSoon, AlarmSetTimed
  <2> QED BY <1>0, <2>1, <2>2 DEF TimeType, Timed, Soon
<1> QED BY <1>1, <1>2, <1>3, <1>4, <1>5, <1>6, <1>7, <1>8, <1>9 DEF Program

LEMMA SoonLower ==
  ASSUME NEW m \in Int, NEW n \in Int, m <= n, Soon(n)
  PROVE  Soon(m)
BY TimesAssumption DEF Soon

LEMMA TimeTick ==
  ASSUME TimeType, Tick
  PROVE  TimeType'
<1>a. /\ quantum_done \in -2 .. Quantum /\ timer \in [set_to : Nat, left : Nat, fired : BOOLEAN]
      /\ Soon(timer.set_to - 1) /\ Soon(timer.left - 1)
  BY DEF TimeType, Timed
<1>1. quantum_done' \in -2 .. Quantum
  BY <1>a, TimesAssumption DEF Tick, Decayed
<1> DEFINE s == Decayed(timer.set_to, 0)
           l == Decayed(timer.left, 0)
<1>2. timer' = [set_to |-> s, left |-> l, fired |-> timer.fired \/ timer.left = 1]
  BY DEF Tick
<1>3. s \in Nat /\ l \in Nat /\ s <= timer.set_to /\ l <= timer.left
  BY <1>a DEF Decayed
<1>4. (timer.fired \/ timer.left = 1) \in BOOLEAN
  OBVIOUS
<1> HIDE DEF s, l
<1>5. timer'.set_to = s /\ timer'.left = l /\ timer' \in [set_to : Nat, left : Nat, fired : BOOLEAN]
  BY <1>2, <1>3, <1>4
<1>6. Soon(s - 1) /\ Soon(l - 1)
  <2>1. s - 1 \in Int /\ timer.set_to - 1 \in Int /\ s - 1 <= timer.set_to - 1
    BY <1>3, <1>a
  <2>2. l - 1 \in Int /\ timer.left - 1 \in Int /\ l - 1 <= timer.left - 1
    BY <1>3, <1>a
  <2> QED BY <2>1, <2>2, <1>a, SoonLower
<1>7. Soon(timer'.set_to - 1) /\ Soon(timer'.left - 1)
  BY <1>5, <1>6
<1> QED BY <1>1, <1>5, <1>7 DEF TimeType, Timed, Soon

LEMMA TimeStep == TimeType /\ AlarmsType /\ AlarmsOrdered /\ [Next]_vars => TimeType'
<1> SUFFICES ASSUME TimeType, AlarmsType, AlarmsOrdered, [Next]_vars PROVE TimeType'
  OBVIOUS
<1>k. ASSUME UNCHANGED timeVars PROVE TimeType'
  BY <1>k DEF TimeType, timeVars, Timed, Soon
<1>1. CASE Tick  BY <1>1, TimeTick
<1>2. CASE NextTask
  <2>1. \/ EnablePreemption(timer)
        \/ UNCHANGED timeVars
    BY <1>2 DEF NextTask, timeVars
  <2>2. CASE EnablePreemption(timer)
    <3>1. Timed(AlarmSet(timer, Quantum)) /\ Quantum \in -2 .. Quantum
      BY QuantumSoon, AlarmSetTimed, TimesAssumption DEF TimeType
    <3> QED BY <2>2, <3>1 DEF EnablePreemption, TimeType, Timed, Soon
  <2> QED BY <2>1, <2>2, <1>k
<1>3. CASE CheckAlarms
  BY <1>3, TimerAfterAlarmsTimed DEF CheckAlarms, TimeType, Timed, Soon
<1>4. CASE Idle \/ Pause \/ Exit  BY <1>4, <1>k DEF Idle, Pause, Exit
<1>5. ASSUME NEW c \in Task, Program(c) PROVE TimeType'
  BY <1>5, TimeProgram
<1>6. CASE Terminated \/ UNCHANGED vars
  BY <1>6, <1>k DEF Terminated, vars
<1> QED BY <1>1, <1>2, <1>3, <1>4, <1>5, <1>6 DEF Next, OuterRunloop

LEMMA TimeInit == Init => TimeType
<1> SUFFICES ASSUME Init PROVE TimeType
  OBVIOUS
<1>1. quantum_done = Quantum /\ timer = [set_to |-> 0, left |-> 0, fired |-> FALSE]
  BY DEF Init
<1>2. Soon(0 - 1)
  BY TimesAssumption DEF Soon
<1> QED BY <1>1, <1>2, TimesAssumption DEF TimeType, Timed

TypeInv == ListsInv /\ FlagsType /\ PhaseType /\ TimeType

\* The parts of the type invariant, and those of TypeOK.
LEMMA TypeParts == TypeInv => TypeOK
<1> SUFFICES ASSUME TypeInv PROVE TypeOK
  OBVIOUS
<1>1. alarms \in Seq([task : spawned, time : Int])
  <2>1. alarms \in Seq(Entries)
    BY DEF TypeInv, ListsInv, AlarmsType
  <2>2. Entries \subseteq [task : spawned, time : Int]
    BY DEF Entries
  <2> QED BY <2>1, <2>2, SeqWider
<1>2. \A i \in DOMAIN alarms : alarms[i].time >= -1 /\ Soon(alarms[i].time)
  <2>1. \A i \in DOMAIN alarms : alarms[i] \in Entries
    BY LenProperties, ElementOfSeq DEF TypeInv, ListsInv, AlarmsType
  <2> QED BY <2>1 DEF Entries
<1>3. {enable_preemption, wake_requested, resched_requested} \subseteq BOOLEAN
  BY DEF TypeInv, FlagsType
<1> QED BY <1>1, <1>2, <1>3
       DEF TypeInv, ListsInv, ListsType, FlagsType, PhaseType, TimeType, Timed, TypeOK

\* The lists of the scheduler hold tasks that the program has scheduled, the level
\* of runloops is 0 just between tasks, and the timer is never set for a time past
\* or beyond the longest sleep or time slice, whatever the nesting of runloops.
THEOREM SchedulerTypeCorrect == Spec => []TypeOK
<1>1. Spec => []AlarmsOrdered
  BY AlarmsOrderedAlways
<1>2. Spec => []ListsInv
  BY ListsInit, ListsStep, PTL DEF Spec
<1>3. Spec => []FlagsType
  BY FlagsInit, FlagsStep, PTL DEF Spec
<1>4. Spec => []PhaseType
  BY PhaseInit, PhaseStep, PTL DEF Spec
<1>5. ListsInv => AlarmsType
  BY DEF ListsInv
<1>6. Spec => []TimeType
  BY <1>1, <1>2, <1>5, TimeInit, TimeStep, PTL DEF Spec
<1>7. ListsInv /\ FlagsType /\ PhaseType /\ TimeType => TypeOK
  BY TypeParts DEF TypeInv
<1> QED BY <1>2, <1>3, <1>4, <1>6, <1>7, PTL

LEMMA InsertHead ==
  ASSUME NEW S, alarms \in Seq(S), NEW e \in S
  PROVE  Head(Insert(e)) = e \/ (alarms # <<>> /\ Head(Insert(e)) = Head(alarms))
<1> DEFINE r == Insert(e)
           L == Len(alarms)
<1>1. L \in Nat /\ r \in Seq(S) /\ Len(r) = L + 1
  BY InsertElements, LenProperties
<1>2. PICK n \in 0 .. L : \A i \in 1 .. L + 1 :
        r[i] = IF i <= n THEN alarms[i] ELSE IF i = n + 1 THEN e ELSE alarms[i - 1]
  BY InsertElements
<1>3. L = 0 => alarms = <<>>
  BY EmptySeq
<1> HIDE DEF r, L
<1>4. r # <<>>
  BY <1>1, EmptySeq
<1>5. Head(r) = r[1]
  BY <1>1, <1>4
<1>6. r[1] = IF 1 <= n THEN alarms[1] ELSE e
  BY <1>1, <1>2
<1>7. CASE 1 <= n
  <2>1. alarms # <<>>
    BY <1>1, <1>7, EmptySeq DEF L
  <2>2. Head(alarms) = alarms[1]
    BY <2>1
  <2> QED BY <2>1, <2>2, <1>5, <1>6, <1>7 DEF r
<1>8. CASE ~(1 <= n)
  BY <1>5, <1>6, <1>8 DEF r
<1> QED BY <1>7, <1>8

-----------------------------------------------------------------------------
(***************************************************************************)
(* What the timer is set for, in programs that do not nest runloops.       *)
(***************************************************************************)
Synced(tm) == tm \in [set_to : Nat, left : Nat, fired : BOOLEAN] /\ tm.set_to = tm.left

\* The timer r raises the flag no later than tm did.
Nearer(tm, r) == r.fired = tm.fired /\ (0 < tm.left => 0 < r.left /\ r.left <= tm.left)

ArmedIn(tm, time) == 0 < tm.left /\ tm.left <= time + 1

\* Without nesting Parrot_alarm_set is only asked for times to come, and then it
\* keeps the earlier one of two.
LEMMA AlarmSetArms ==
  ASSUME NEW tm, Synced(tm), NEW when \in Nat
  PROVE  LET r == AlarmSet(tm, when) IN Synced(r) /\ Nearer(tm, r) /\ ArmedIn(r, when)
<1> DEFINE r == AlarmSet(tm, when)
<1>a. tm \in [set_to : Nat, left : Nat, fired : BOOLEAN] /\ tm.set_to = tm.left
  BY DEF Synced
<1>1. CASE 0 < tm.set_to /\ tm.set_to < when + 1
  <2>1. r = tm
    BY <1>1 DEF AlarmSet
  <2> HIDE DEF r
  <2>2. Synced(r) /\ Nearer(tm, r) /\ ArmedIn(r, when)
    BY <1>1, <1>a, <2>1 DEF Synced, Nearer, ArmedIn
  <2> QED BY <2>2 DEF r
<1>2. CASE ~(0 < tm.set_to /\ tm.set_to < when + 1)
  <2>1. r = [tm EXCEPT !.set_to = when + 1, !.left = when + 1]
    BY <1>2 DEF AlarmSet
  <2> HIDE DEF r
  <2>2. when + 1 \in Nat /\ (0 < tm.left => when + 1 <= tm.left)
    BY <1>2, <1>a
  <2>3. /\ r.set_to = when + 1 /\ r.left = when + 1 /\ r.fired = tm.fired
        /\ r \in [set_to : Nat, left : Nat, fired : BOOLEAN]
    BY <2>1, <2>2, <1>a
  <2>4. Synced(r) /\ Nearer(tm, r) /\ ArmedIn(r, when)
    BY <2>2, <2>3 DEF Synced, Nearer, ArmedIn
  <2> QED BY <2>4 DEF r
<1> QED BY <1>1, <1>2

LEMMA QuantumNat == Quantum \in Nat
BY TimesAssumption

LEMMA NearerArmed ==
  ASSUME NEW tm, NEW r, Synced(tm), Synced(r), Nearer(tm, r), NEW time \in Int, ArmedIn(tm, time)
  PROVE  ArmedIn(r, time)
BY DEF Synced, Nearer, ArmedIn

\* PreemptionArmed, without regard to who is in the queue.
SliceArmed ==
  phase = "task" /\ task_queue # <<>> =>
    enable_preemption /\ (Noticed \/ (quantum_done >= 0 /\ ArmedIn(timer, quantum_done)))

\* AlarmArmed, through the phases of the outer runloop, unless a signal can come
\* at the wrong time.
HeadArmed == ArmedIn(timer, Head(alarms).time)

WaitArmed ==
  ~SignalInWindow /\ alarms # <<>> =>
    /\ phase = "task" => HeadArmed \/ Noticed
    /\ phase = "loop" => HeadArmed \/ (task_queue # <<>> /\ Noticed)
    /\ phase \in {"pausing", "paused"} => HeadArmed

LEMMA HeadTime ==
  ASSUME AlarmsType, alarms # <<>>
  PROVE  Head(alarms) \in Entries /\ Head(alarms).time \in Int /\ Head(alarms).time >= -1
<1>1. Head(alarms) \in Entries
  BY HeadTailProperties DEF AlarmsType
<1> QED BY <1>1 DEF Entries

\* Checking the alarms leaves the timer set for the first that is left.
LEMMA TimerAfterAlarmsArms ==
  ASSUME AlarmsType, AlarmsOrdered, Synced(timer)
  PROVE  /\ Synced(TimerAfterAlarms) /\ Nearer(timer, TimerAfterAlarms)
         /\ Later # <<>> => ArmedIn(TimerAfterAlarms, Head(Later).time)
<1>1. CASE Later = <<>>
  BY <1>1 DEF TimerAfterAlarms, Nearer, Synced
<1>2. CASE Later # <<>>
  <2>1. Head(Later).time \in Nat
    BY <1>2, LaterHead
  <2>2. TimerAfterAlarms = AlarmSet(timer, Head(Later).time)
    BY <1>2 DEF TimerAfterAlarms
  <2> QED BY <2>1, <2>2, AlarmSetArms
<1> QED BY <1>1, <1>2

LEMMA ScheduledSynced ==
  ASSUME NEW tm, Synced(tm), NEW q, NEW ts, ScheduleTasks(q, ts, tm)
  PROVE  Synced(timer') /\ Nearer(tm, timer')
<1>1. CASE EnablePreemption(tm)
  BY <1>1, QuantumNat, AlarmSetArms DEF EnablePreemption
<1>2. CASE timer' = tm
  BY <1>2 DEF Nearer, Synced
<1> QED BY <1>1, <1>2 DEF ScheduleTasks

\* The queue may grow: then the end of the time slice is set, or was already.
LEMMA ScheduledArmed ==
  ASSUME SliceArmed, WaitArmed, Synced(timer), AlarmsType, phase = "task",
         NEW ts, task_queue = <<>> /\ ts = <<>> => task_queue \o ts = <<>>,
         ScheduleTasks(task_queue, ts, timer),
         UNCHANGED <<alarms, phase, wake_requested>>
  PROVE  SliceArmed' /\ WaitArmed'
<1>1. Synced(timer') /\ Nearer(timer, timer')
  BY ScheduledSynced
<1>2. WaitArmed'
  <2> SUFFICES ASSUME ~SignalInWindow, alarms # <<>> PROVE HeadArmed' \/ Noticed'
    BY DEF WaitArmed
  <2>1. HeadArmed \/ Noticed
    BY DEF WaitArmed
  <2>2. CASE HeadArmed
    <3>1. ArmedIn(timer', Head(alarms).time)
      BY <2>2, <1>1, HeadTime, NearerArmed DEF HeadArmed
    <3> QED BY <3>1 DEF HeadArmed, ArmedIn
  <2>3. CASE Noticed
    BY <2>3, <1>1 DEF Noticed, Nearer
  <2> QED BY <2>1, <2>2, <2>3
<1>3. SliceArmed'
  <2> SUFFICES ASSUME task_queue' # <<>>
      PROVE  enable_preemption' /\ (Noticed' \/ (quantum_done' >= 0 /\ ArmedIn(timer', quantum_done')))
    BY DEF SliceArmed, ArmedIn
  <2>1. CASE task_queue = <<>> /\ ts # <<>>
    <3>1. EnablePreemption(timer)
      BY <2>1 DEF ScheduleTasks
    <3>2. enable_preemption' /\ quantum_done' = Quantum /\ timer' = AlarmSet(timer, Quantum)
      BY <3>1 DEF EnablePreemption
    <3>3. ArmedIn(timer', Quantum) /\ Quantum >= 0
      BY <3>2, QuantumNat, AlarmSetArms
    <3> QED BY <3>2, <3>3
  <2>2. CASE ~(task_queue = <<>> /\ ts # <<>>)
    <3>1. timer' = timer /\ UNCHANGED <<enable_preemption, quantum_done>>
      BY <2>2 DEF ScheduleTasks
    <3>2. task_queue # <<>>
      BY <2>2 DEF ScheduleTasks
    <3> QED BY <3>1, <3>2 DEF SliceArmed, Noticed
  <2> QED BY <2>1, <2>2
<1> QED BY <1>2, <1>3

LEMMA StopSynced ==
  ASSUME NEW tm, Synced(tm), NEW c, NEW q, NEW wt, StopTask(c, q, tm, wt)
  PROVE  Synced(timer')
BY ScheduledSynced DEF StopTask, FinishTask, LeaveTask

\* Without nesting a task that stops leaves its runloop, and there is nothing to
\* be armed until the alarms have been checked.
LEMMA StoppedArmed ==
  ASSUME MaxLevel = 1, PhaseType, phase = "task",
         NEW c, NEW q, NEW tm, NEW wt, StopTask(c, q, tm, wt)
  PROVE  SliceArmed' /\ WaitArmed' /\ phase' = "back"
<1>1. runloop_level = 1
  BY DEF PhaseType
<1>2. phase' = "back"
  BY <1>1 DEF StopTask
<1> QED BY <1>2 DEF SliceArmed, WaitArmed

TimerInv == Synced(timer) /\ SliceArmed /\ WaitArmed

\* What the lemmas about steps of the program and of the runloop start from.
TimerContext == MaxLevel = 1 /\ PhaseType /\ AlarmsType /\ AlarmsOrdered /\ TimeType
                /\ task_queue \in Seq(spawned) /\ spawned \subseteq Task /\ TimerInv

LEMMA NoneDue ==
  ASSUME Due = {}, NEW S, task_queue \in Seq(S)
  PROVE  QueueAfterAlarms = task_queue
<1> DEFINE f == [i \in 1 .. Cardinality(Due) |-> alarms[Cardinality(Due) + 1 - i].task]
<1>1. Cardinality(Due) = 0
  BY FS_EmptySet
<1>2. f = <<>>
  BY <1>1
<1>3. QueueAfterAlarms = f \o task_queue
  BY DEF QueueAfterAlarms
<1>4. <<>> \o task_queue = task_queue
  BY ConcatEmptySeq
<1> QED BY <1>2, <1>3, <1>4

LEMMA TimerBranch ==
  ASSUME TimerContext, NEW c \in Task, Branch(c)
  PROVE  TimerInv'
<1> DEFINE tl == TimerAfterAlarms
           tm == [tl EXCEPT !.fired = FALSE]
<1>0. phase = "task" /\ runloop_level = 1
  BY DEF Branch, Op, Running, TimerContext, PhaseType
<1>1. Synced(tl) /\ (Later # <<>> => ArmedIn(tl, Head(Later).time))
  BY TimerAfterAlarmsArms DEF TimerContext, TimerInv
<1> HIDE DEF tl
<1>2. Synced(tm) /\ (Later # <<>> => ArmedIn(tm, Head(Later).time))
  BY <1>1 DEF Synced, ArmedIn
<1>t. tm = [TimerAfterAlarms EXCEPT !.fired = FALSE]
  BY DEF tl
<1> HIDE DEF tm
<1>3. CASE SwitchRequested /\ runloop_level <= 1
  <2>1. StopTask(c, Append(QueueAfterAlarms, c), tm, waiters)
    BY <1>3, <1>t DEF Branch
  <2> QED BY <1>0, <1>2, <2>1, StopSynced, StoppedArmed DEF TimerContext, TimerInv
<1>4. CASE ~(SwitchRequested /\ runloop_level <= 1)
  <2>1. /\ LeaveTask(QueueAfterAlarms, IF enable_preemption THEN AlarmSet(tm, quantum_done) ELSE tm)
        /\ UNCHANGED phase /\ alarms' = Later /\ wake_requested' = (Due # {})
    BY <1>4, <1>t DEF Branch
  <2>2. ~SwitchRequested
    BY <1>0, <1>4
  <2>3. /\ Due = {} /\ (enable_preemption => ~(quantum_done <= 0))
    BY <2>2 DEF SwitchRequested
  <2>4. enable_preemption => quantum_done \in Nat /\ quantum_done > 0
    BY <2>3, TimesAssumption DEF TimerContext, TimeType
  <2>5. Synced(timer') /\ Nearer(tm, timer')
        /\ (enable_preemption => ArmedIn(timer', quantum_done))
    <3>1. CASE enable_preemption
      <4>1. timer' = AlarmSet(tm, quantum_done)
        BY <2>1, <3>1 DEF LeaveTask
      <4> QED BY <1>2, <2>4, <3>1, <4>1, AlarmSetArms
    <3>2. CASE ~enable_preemption
      BY <1>2, <2>1, <3>2 DEF LeaveTask, Nearer, Synced
    <3> QED BY <3>1, <3>2
  <2>6. WaitArmed'
    <3> SUFFICES ASSUME Later # <<>> PROVE HeadArmed'
      BY <1>0, <2>1 DEF WaitArmed
    <3>1. Head(Later).time \in Int
      BY LaterHead DEF TimerContext
    <3>2. ArmedIn(timer', Head(Later).time)
      BY <1>2, <2>5, <3>1, NearerArmed
    <3> QED BY <2>1, <3>2 DEF HeadArmed, ArmedIn
  <2>7. QueueAfterAlarms = task_queue
    BY <2>3, NoneDue DEF TimerContext
  <2>8. SliceArmed'
    <3> SUFFICES ASSUME task_queue # <<>>
        PROVE  enable_preemption' /\ quantum_done' >= 0 /\ ArmedIn(timer', quantum_done')
      BY <2>1, <2>7 DEF SliceArmed, ArmedIn, LeaveTask
    <3>1. enable_preemption /\ UNCHANGED <<enable_preemption, quantum_done>>
      BY <1>0, <2>1 DEF SliceArmed, TimerContext, TimerInv, LeaveTask
    <3> QED BY <2>4, <2>5, <3>1
  <2> QED BY <2>5, <2>6, <2>8 DEF TimerInv, Synced
<1> QED BY <1>3, <1>4

LEMMA EntriesTyped ==
  ASSUME AlarmsType, spawned \subseteq Task
  PROVE  alarms \in Seq([task : Task, time : Int])
<1>1. Entries \subseteq [task : Task, time : Int]
  BY DEF Entries
<1> QED BY <1>1, SeqWider DEF AlarmsType

LEMMA TimerSetAlarm ==
  ASSUME TimerContext, NEW c \in Task, NEW t \in Task, NEW d \in Sleeps, SetAlarm(c, t, d)
  PROVE  TimerInv'
<1> DEFINE e == [task |-> t, time |-> d]
<1>a. /\ AlarmsType /\ Synced(timer) /\ SliceArmed /\ WaitArmed /\ quantum_done \in Int /\ d \in Nat
  BY SleepSoon DEF TimerContext, TimerInv, TimeType
<1>b. /\ phase = "task" /\ alarms' = Insert(e) /\ timer' = AlarmSet(timer, d)
      /\ UNCHANGED <<task_queue, flagVars, phase, quantum_done>>
  BY DEF SetAlarm, Op, Running
<1>1. Synced(timer') /\ Nearer(timer, timer') /\ ArmedIn(timer', d)
  BY <1>a, <1>b, AlarmSetArms
<1>2. SliceArmed'
  <2> SUFFICES ASSUME task_queue # <<>>
      PROVE  enable_preemption /\ (Noticed' \/ (quantum_done >= 0 /\ ArmedIn(timer', quantum_done)))
    BY <1>b DEF SliceArmed, flagVars, ArmedIn
  <2>1. enable_preemption /\ (Noticed \/ (quantum_done >= 0 /\ ArmedIn(timer, quantum_done)))
    BY <1>a, <1>b DEF SliceArmed
  <2>2. CASE Noticed  BY <2>1, <2>2, <1>1, <1>b DEF Noticed, Nearer, flagVars
  <2>3. CASE quantum_done >= 0 /\ ArmedIn(timer, quantum_done)
    BY <2>1, <2>3, <1>1, <1>a, NearerArmed
  <2> QED BY <2>1, <2>2, <2>3
<1>3. Head(alarms') = e \/ (alarms # <<>> /\ Head(alarms') = Head(alarms))
  <2>1. alarms \in Seq([task : Task, time : Int])
    BY <1>a, EntriesTyped DEF TimerContext
  <2>2. e \in [task : Task, time : Int]
    BY <1>a
  <2> QED BY <2>1, <2>2, <1>b, InsertHead
<1>4. WaitArmed'
  <2> SUFFICES ASSUME ~SignalInWindow PROVE HeadArmed' \/ Noticed'
    BY <1>b DEF WaitArmed
  <2>1. CASE Head(alarms') = e
    BY <2>1, <1>1 DEF HeadArmed, ArmedIn
  <2>2. CASE alarms # <<>> /\ Head(alarms') = Head(alarms)
    <3>1. HeadArmed \/ Noticed
      BY <2>2, <1>a, <1>b DEF WaitArmed
    <3>2. CASE Noticed  BY <3>2, <1>1, <1>b DEF Noticed, Nearer, flagVars
    <3>3. CASE HeadArmed
      <4>1. ArmedIn(timer', Head(alarms).time)
        BY <3>3, <2>2, <1>1, <1>a, HeadTime, NearerArmed DEF HeadArmed
      <4> QED BY <4>1, <2>2 DEF HeadArmed, ArmedIn
    <3> QED BY <3>1, <3>2, <3>3
  <2> QED BY <1>3, <2>1, <2>2
<1> QED BY <1>1, <1>2, <1>4 DEF TimerInv, Synced

LEMMA TimerProgram ==
  ASSUME TimerContext, NEW c \in Task, Program(c)
  PROVE  TimerInv'
<1>0. phase = "task"
  BY DEF Program, Branch, Return, EnterRunloop, LeaveRunloop, Pass, Receive, ReceiveBlock, Sleep,
         Schedule, Send, Wait, Kill, SetAlarm, Op, Running
<1>a. /\ MaxLevel = 1 /\ PhaseType /\ AlarmsType /\ AlarmsOrdered
      /\ Synced(timer) /\ SliceArmed /\ WaitArmed /\ runloop_level = 1
  BY <1>0 DEF TimerContext, TimerInv, PhaseType
<1>k. ASSUME UNCHANGED <<task_queue, alarms, flagVars, phase, timeVars>> PROVE TimerInv'
  BY <1>k DEF TimerContext, TimerInv, SliceArmed, WaitArmed, HeadArmed, ArmedIn, Noticed, Synced,
              flagVars, timeVars
<1>b. ASSUME phase' = "back", Synced(timer') PROVE TimerInv'
  BY <1>b DEF TimerInv, SliceArmed, WaitArmed, Synced
<1>s. ASSUME NEW q, NEW tm, NEW wt, Synced(tm), StopTask(c, q, tm, wt) PROVE TimerInv'
  BY <1>s, <1>a, <1>0, <1>b, StopSynced, StoppedArmed
<1>1. CASE Branch(c)  BY <1>1, TimerBranch
<1>2. CASE Return(c)
  <2>1. CASE FinishTask(c, task_queue, timer, waiters)
    BY <1>2, <1>a, <1>b, <2>1, ScheduledSynced DEF FinishTask, Return
  <2>2. CASE LeaveTask(task_queue, timer)
    BY <1>2, <1>a, <1>b, <2>2 DEF LeaveTask, Return
  <2> QED BY <1>2, <2>1, <2>2 DEF Return
<1>3. CASE EnterRunloop(c) \/ LeaveRunloop(c) \/ Receive(c)
  BY <1>3, <1>k DEF EnterRunloop, LeaveRunloop, Receive, queueVars
<1>4. CASE Pass(c) \/ ReceiveBlock(c)
  BY <1>4, <1>a, <1>s DEF Pass, ReceiveBlock
<1>5. ASSUME NEW d \in Sleeps, Sleep(c, d) PROVE TimerInv'
  <2>1. StopTask(c, task_queue, AlarmSet(timer, d), waiters)
    BY <1>5 DEF Sleep
  <2>2. Synced(AlarmSet(timer, d))
    BY <1>a, SleepSoon, AlarmSetArms
  <2> QED BY <2>1, <2>2, <1>s
<1>6. ASSUME NEW t \in Task, NEW ts, ScheduleTasks(task_queue, ts, timer),
             ts = <<>> \/ ts = <<t>>, UNCHANGED <<alarms, phase, wake_requested>>
      PROVE  TimerInv'
  <2>1. task_queue = <<>> /\ ts = <<>> => task_queue \o ts = <<>>
    OBVIOUS
  <2>2. SliceArmed' /\ WaitArmed'
    BY <1>0, <1>a, <1>6, <2>1, ScheduledArmed
  <2> QED BY <1>6, <1>a, <2>2, ScheduledSynced DEF TimerInv, Synced
<1>7. ASSUME NEW t \in Task, Schedule(c, t) \/ Send(c, t) PROVE TimerInv'
  BY <1>7, <1>6 DEF Schedule, Send
<1>8. ASSUME NEW t \in Task, Wait(c, t) PROVE TimerInv'
  BY <1>8, <1>a, <1>s DEF Wait
<1>9. ASSUME NEW t \in Task, Kill(c, t) PROVE TimerInv'
  BY <1>9, <1>k DEF Kill, queueVars
<1>10. ASSUME NEW t \in Task, NEW d \in Sleeps, SetAlarm(c, t, d) PROVE TimerInv'
  BY <1>10, TimerSetAlarm
<1> QED BY <1>1, <1>2, <1>3, <1>4, <1>5, <1>7, <1>8, <1>9, <1>10 DEF Program

LEMMA HeadTick ==
  ASSUME AlarmsType, Tick
  PROVE  /\ alarms = <<>> => alarms' = <<>>
         /\ alarms # <<>> => alarms' # <<>> /\ Head(alarms').time = Decayed(Head(alarms).time, -1)
<1> DEFINE L == Len(alarms)
<1>1. /\ L \in Nat /\ DOMAIN alarms = 1 .. L /\ \A i \in 1 .. L : alarms[i] \in Entries
      /\ (L = 0 <=> alarms = <<>>)
  BY LenProperties, ElementOfSeq, EmptySeq DEF AlarmsType
<1>2. alarms' = [i \in 1 .. L |-> [alarms[i] EXCEPT !.time = Decayed(@, -1)]]
  BY <1>1 DEF Tick
<1> HIDE DEF L
<1>3. CASE L = 0
  BY <1>1, <1>2, <1>3
<1>4. CASE L # 0
  <2>1. 1 \in 1 .. L
    BY <1>1, <1>4
  <2> DEFINE a == alarms[1]
  <2>2. a \in [task : spawned, time : Int]
    BY <1>1, <2>1 DEF Entries
  <2>3. alarms'[1] = [a EXCEPT !.time = Decayed(a.time, -1)]
    BY <1>2, <2>1
  <2>4. Head(alarms) = a
    BY <1>1, <1>4 DEF AlarmsType
  <2>5. Head(alarms') = alarms'[1]
    OBVIOUS
  <2>7. alarms' # <<>>
    BY <1>2, <2>1
  <2> HIDE DEF a
  <2>6. alarms'[1].time = Decayed(a.time, -1)
    BY <2>2, <2>3
  <2> QED BY <1>1, <1>4, <2>4, <2>5, <2>6, <2>7
<1> QED BY <1>3, <1>4

LEMMA TimerTick ==
  ASSUME TimerContext, Tick
  PROVE  TimerInv'
<1>a. /\ AlarmsType /\ timer \in [set_to : Nat, left : Nat, fired : BOOLEAN]
      /\ timer.set_to = timer.left /\ SliceArmed /\ WaitArmed /\ quantum_done \in Int
  BY DEF TimerContext, TimerInv, Synced, TimeType
<1>b. /\ timer' = [set_to |-> Decayed(timer.set_to, 0), left |-> Decayed(timer.left, 0),
                   fired |-> timer.fired \/ timer.left = 1]
      /\ quantum_done' = Decayed(quantum_done, -2)
      /\ phase' = IF phase = "paused" /\ timer.left = 1 THEN "woken" ELSE phase
      /\ ~SignalInWindow /\ timer.left = 1 =>
           phase # "pausing" /\ (phase = "loop" => task_queue # <<>>)
      /\ UNCHANGED <<task_queue, flagVars>>
  BY DEF Tick
<1> DEFINE l == Decayed(timer.left, 0)
<1>1. /\ timer'.set_to = l /\ timer'.left = l /\ timer'.fired = (timer.fired \/ timer.left = 1)
      /\ l \in Nat /\ timer' \in [set_to : Nat, left : Nat, fired : BOOLEAN]
  BY <1>a, <1>b DEF Decayed
<1>2. Synced(timer')
  BY <1>1 DEF Synced
<1>3. ASSUME Noticed PROVE Noticed'
  BY <1>1, <1>3, <1>b DEF Noticed, flagVars
<1>4. ASSUME timer.left = 1 PROVE Noticed'
  BY <1>1, <1>4 DEF Noticed
<1>5. ASSUME NEW time \in Int, NEW low \in {-1, -2}, ArmedIn(timer, time), timer.left # 1
      PROVE  ArmedIn(timer', Decayed(time, low)) /\ Decayed(time, low) >= 0
  <2>1. timer.left > 1 /\ time >= 1
    BY <1>5, <1>a DEF ArmedIn
  <2>2. Decayed(time, low) = time - 1 /\ l = timer.left - 1
    BY <2>1, <1>a DEF Decayed
  <2> QED BY <2>1, <2>2, <1>1, <1>5, <1>a DEF ArmedIn
<1>6. SliceArmed'
  <2> SUFFICES ASSUME phase = "task", task_queue # <<>>
      PROVE  enable_preemption /\ (Noticed' \/ (quantum_done' >= 0 /\ ArmedIn(timer', quantum_done')))
    BY <1>b DEF SliceArmed, flagVars, ArmedIn
  <2>1. enable_preemption /\ (Noticed \/ (quantum_done >= 0 /\ ArmedIn(timer, quantum_done)))
    BY <1>a DEF SliceArmed
  <2> QED BY <2>1, <1>3, <1>4, <1>5, <1>a, <1>b
<1>7. (alarms = <<>> => alarms' = <<>>) /\ (alarms # <<>> => Head(alarms').time = Decayed(Head(alarms).time, -1))
  BY <1>a, HeadTick
<1>8. WaitArmed'
  <2> SUFFICES ASSUME ~SignalInWindow, alarms # <<>>, Head(alarms').time = Decayed(Head(alarms).time, -1)
      PROVE  /\ phase' = "task" => HeadArmed' \/ Noticed'
             /\ phase' = "loop" => HeadArmed' \/ (task_queue' # <<>> /\ Noticed')
             /\ phase' \in {"pausing", "paused"} => HeadArmed'
    BY <1>7 DEF WaitArmed
  <2>1. HeadArmed /\ timer.left # 1 => HeadArmed'
    <3> SUFFICES ASSUME HeadArmed, timer.left # 1 PROVE HeadArmed'
      OBVIOUS
    <3>1. ArmedIn(timer', Decayed(Head(alarms).time, -1))
      BY <1>5, <1>a, HeadTime DEF HeadArmed
    <3> QED BY <3>1 DEF HeadArmed, ArmedIn
  <2>2. /\ phase = "task" => HeadArmed \/ Noticed
        /\ phase = "loop" => HeadArmed \/ (task_queue # <<>> /\ Noticed)
        /\ phase \in {"pausing", "paused"} => HeadArmed
    BY <1>a DEF WaitArmed
  <2>3. phase' \in {"task", "loop", "pausing", "paused"} => phase' = phase
    BY <1>b
  <2>4. phase' = "paused" => timer.left # 1
    BY <1>b
  <2> QED BY <2>1, <2>2, <2>3, <2>4, <1>3, <1>4, <1>b
<1> QED BY <1>2, <1>6, <1>8 DEF TimerInv, Synced

LEMMA TimerStep == TimerContext /\ [Next]_vars => TimerInv'
<1> SUFFICES ASSUME TimerContext, [Next]_vars PROVE TimerInv'
  OBVIOUS
<1>a. AlarmsType /\ AlarmsOrdered /\ Synced(timer) /\ SliceArmed /\ WaitArmed
  BY DEF TimerContext, TimerInv
<1>1. CASE Tick  BY <1>1, TimerTick
<1>2. CASE NextTask
  <2>1. phase = "loop" /\ task_queue # <<>> /\ phase' \in {"back", "task"}
        /\ UNCHANGED <<alarms, wake_requested>>
    BY <1>2 DEF NextTask
  <2>2. /\ Synced(timer') /\ Nearer(timer, timer')
        /\ phase' = "task" /\ task_queue' # <<>> =>
             enable_preemption' /\ quantum_done' = Quantum /\ ArmedIn(timer', Quantum)
    <3>1. CASE EnablePreemption(timer)
      <4>1. enable_preemption' = TRUE /\ quantum_done' = Quantum /\ timer' = AlarmSet(timer, Quantum)
        BY <3>1 DEF EnablePreemption
      <4> QED BY <4>1, <1>a, QuantumNat, AlarmSetArms
    <3>2. CASE ~EnablePreemption(timer)
      <4>1. UNCHANGED timer /\ Tail(task_queue) = <<>>
        BY <1>2, <3>2 DEF NextTask
      <4>2. phase' = "task" => task_queue' = Tail(task_queue)
        BY <1>2 DEF NextTask
      <4>3. ~(phase' = "task" /\ task_queue' # <<>>)
        BY <4>1, <4>2
      <4>4. Synced(timer') /\ Nearer(timer, timer')
        BY <4>1, <1>a DEF Nearer, Synced
      <4> QED BY <4>3, <4>4
    <3> QED BY <3>1, <3>2
  <2>3. SliceArmed'
    BY <2>2, QuantumNat DEF SliceArmed, ArmedIn
  <2>4. WaitArmed'
    <3> SUFFICES ASSUME ~SignalInWindow, alarms # <<>> PROVE HeadArmed' \/ Noticed'
      BY <2>1 DEF WaitArmed
    <3>1. HeadArmed \/ Noticed
      BY <1>a, <2>1 DEF WaitArmed
    <3>2. CASE Noticed  BY <3>2, <2>1, <2>2 DEF Noticed, Nearer
    <3>3. CASE HeadArmed
      <4>1. ArmedIn(timer', Head(alarms).time)
        BY <3>3, <2>2, <1>a, HeadTime, NearerArmed DEF HeadArmed
      <4> QED BY <4>1, <2>1 DEF HeadArmed, ArmedIn
    <3> QED BY <3>1, <3>2, <3>3
  <2> QED BY <2>2, <2>3, <2>4 DEF TimerInv, Synced
<1>3. CASE CheckAlarms
  <2>1. phase' = "loop" /\ timer' = TimerAfterAlarms /\ alarms' = Later
    BY <1>3 DEF CheckAlarms
  <2>2. Synced(timer') /\ (Later # <<>> => ArmedIn(timer', Head(Later).time))
    BY <2>1, <1>a, TimerAfterAlarmsArms
  <2> QED BY <2>1, <2>2 DEF TimerInv, Synced, SliceArmed, WaitArmed, HeadArmed, ArmedIn
<1>4. CASE Idle \/ Pause \/ Exit
  <2>1. /\ UNCHANGED <<alarms, timer>> /\ phase' \in {"pausing", "paused", "exited"}
        /\ (phase' = "pausing" => phase = "loop" /\ task_queue = <<>>)
        /\ (phase' = "paused" => phase = "pausing")
    BY <1>4 DEF Idle, Pause, Exit, queueVars, timeVars
  <2> QED BY <2>1, <1>a DEF TimerInv, Synced, SliceArmed, WaitArmed, HeadArmed, ArmedIn
<1>5. ASSUME NEW c \in Task, Program(c) PROVE TimerInv'
  BY <1>5, TimerProgram
<1>6. CASE Terminated \/ UNCHANGED vars
  <2>1. UNCHANGED <<task_queue, alarms, flagVars, phase, timer, quantum_done>>
    BY <1>6 DEF Terminated, vars, queueVars, timeVars
  <2> QED BY <2>1, <1>a DEF TimerInv, SliceArmed, WaitArmed, HeadArmed, ArmedIn, Noticed, Synced, flagVars
<1> QED BY <1>1, <1>2, <1>3, <1>4, <1>5, <1>6 DEF Next, OuterRunloop

LEMMA TimerInit == Init => TimerInv
<1> SUFFICES ASSUME Init PROVE TimerInv
  OBVIOUS
<1>1. phase = "loop" /\ alarms = <<>> /\ timer = [set_to |-> 0, left |-> 0, fired |-> FALSE]
  BY DEF Init
<1> QED BY <1>1 DEF TimerInv, Synced, SliceArmed, WaitArmed

LEMMA TimerAlways == ASSUME MaxLevel = 1 PROVE Spec => [](TimerInv /\ AlarmsType)
<1>1. Spec => []AlarmsOrdered
  BY AlarmsOrderedAlways
<1>2. Spec => []ListsInv
  BY ListsInit, ListsStep, PTL DEF Spec
<1>3. Spec => []PhaseType
  BY PhaseInit, PhaseStep, PTL DEF Spec
<1>4. ListsInv => AlarmsType
  BY DEF ListsInv
<1>5. Spec => []TimeType
  BY <1>1, <1>2, <1>4, TimeInit, TimeStep, PTL DEF Spec
<1>6. TimerInv /\ ListsInv /\ PhaseType /\ TimeType /\ AlarmsOrdered => TimerContext
  BY DEF TimerContext, ListsInv, ListsType
<1> QED BY <1>1, <1>2, <1>3, <1>4, <1>5, <1>6, TimerInit, TimerStep, PTL DEF Spec

\* Without nested runloops a running task that others wait behind loses the
\* interpreter at the end of its time slice: the timer that slices share with
\* sleeps and Alarm PMCs is always set for it, or the scheduler knows already.
THEOREM PreemptionArmedAlways == ASSUME MaxLevel = 1 PROVE Spec => []PreemptionArmed
<1>1. Spec => []TimerInv
  BY TimerAlways, PTL
<1>2. TimerInv => PreemptionArmed
  <2> SUFFICES ASSUME TimerInv, phase = "task", Queued \ {cur_task} # {}
               PROVE  \/ Noticed
                      \/ enable_preemption /\ quantum_done >= 0 /\ Armed(quantum_done)
    BY DEF PreemptionArmed
  <2>1. task_queue # <<>>
    BY DEF Queued, Elems
  <2> QED BY <2>1 DEF TimerInv, SliceArmed, Armed, ArmedIn
<1> QED BY <1>1, <1>2, PTL

\* Without nested runloops, and without signals between the last test and pause(),
\* the first alarm will be noticed in time: Parrot_alarm_set never puts off what
\* it was asked for before.
THEOREM AlarmArmedAlways ==
  ASSUME MaxLevel = 1, ~SignalInWindow PROVE Spec => []AlarmArmed
<1>1. Spec => []TimerInv
  BY TimerAlways, PTL
<1>2. TimerInv => AlarmArmed
  BY DEF TimerInv, WaitArmed, HeadArmed, ArmedIn, AlarmArmed, Armed
<1> QED BY <1>1, <1>2, PTL

\* A pause begins with an alarm to wait for, and the list of alarms does not
\* change before it ends.
PauseForAlarm == phase \in {"pausing", "paused"} => alarms # <<>>

LEMMA PauseForAlarmStep == PauseForAlarm /\ AlarmsType /\ [Next]_vars => PauseForAlarm'
<1> SUFFICES ASSUME PauseForAlarm, AlarmsType, [Next]_vars PROVE PauseForAlarm'
  OBVIOUS
<1>1. CASE Tick
  <2>1. phase' \in {"pausing", "paused"} => phase' = phase
    BY <1>1 DEF Tick
  <2> QED BY <1>1, <2>1, HeadTick DEF PauseForAlarm
<1>2. CASE NextTask \/ CheckAlarms \/ Exit
  <2>1. phase' \in {"task", "back", "loop", "exited"}
    BY <1>2 DEF NextTask, CheckAlarms, Exit
  <2> QED BY <2>1 DEF PauseForAlarm
<1>3. CASE Idle \/ Pause  BY <1>3 DEF Idle, Pause, PauseForAlarm, queueVars
<1>4. ASSUME NEW c \in Task, Program(c) PROVE PauseForAlarm'
  <2>1. phase' \in {"task", "back"}
    BY <1>4 DEF Program, Branch, Return, EnterRunloop, LeaveRunloop, Pass, Receive, ReceiveBlock,
                Sleep, Schedule, Send, Wait, Kill, SetAlarm, Op, Running, StopTask
  <2> QED BY <2>1 DEF PauseForAlarm
<1>5. CASE Terminated \/ UNCHANGED vars
  BY <1>5 DEF Terminated, vars, queueVars, PauseForAlarm
<1> QED BY <1>1, <1>2, <1>3, <1>4, <1>5 DEF Next, OuterRunloop

\* But for a signal between the last test and pause(), the outer runloop never
\* pauses without a timer that ends the pause.
THEOREM PauseEndsWithoutSignals ==
  ASSUME MaxLevel = 1, ~SignalInWindow PROVE Spec => []PauseEnds
<1>1. Spec => [](TimerInv /\ AlarmsType)
  BY TimerAlways
<1>2. Init => PauseForAlarm
  BY DEF Init, PauseForAlarm
<1>3. Spec => []PauseForAlarm
  BY <1>1, <1>2, PauseForAlarmStep, PTL DEF Spec
<1>4. TimerInv /\ PauseForAlarm => PauseEnds
  BY DEF TimerInv, WaitArmed, HeadArmed, ArmedIn, PauseForAlarm, PauseEnds
<1> QED BY <1>1, <1>3, <1>4, PTL
-----------------------------------------------------------------------------
(***************************************************************************)
(* Where the tasks are: proofs for programs that do not nest runloops and  *)
(* in which no task kills itself or waits for a task that is done.         *)
(***************************************************************************)
\* Sequences as sets.
LEMMA ElemsIn ==
  ASSUME NEW S, NEW s \in Seq(S)
  PROVE  Elems(s) \subseteq S /\ Elems(s) = {s[i] : i \in 1 .. Len(s)}
BY LenProperties, ElementOfSeq DEF Elems

LEMMA ElemsConcat ==
  ASSUME NEW S, NEW s \in Seq(S), NEW t \in Seq(S)
  PROVE  /\ s \o t \in Seq(S) /\ Elems(s \o t) = Elems(s) \cup Elems(t)
         /\ Injective(s) /\ Injective(t) /\ Elems(s) \cap Elems(t) = {} => Injective(s \o t)
<1> DEFINE m == Len(s)
           n == Len(t)
           u == s \o t
<1>1. m \in Nat /\ n \in Nat /\ DOMAIN s = 1 .. m /\ DOMAIN t = 1 .. n
  BY LenProperties
<1>2. /\ u \in Seq(S) /\ Len(u) = m + n
      /\ \A i \in 1 .. m + n : u[i] = IF i <= m THEN s[i] ELSE t[i - m]
  BY ConcatProperties
<1>3. DOMAIN u = 1 .. m + n
  BY <1>2, LenProperties
<1> HIDE DEF m, n, u
<1>4. \A i \in 1 .. m : i \in 1 .. m + n /\ u[i] = s[i]
  BY <1>1, <1>2
<1>5. ASSUME NEW i \in 1 .. n PROVE m + i \in 1 .. m + n /\ u[m + i] = t[i]
  <2>1. m + i \in 1 .. m + n /\ ~(m + i <= m) /\ (m + i) - m = i
    BY <1>1
  <2> QED BY <2>1, <1>2
<1>6. \A i \in 1 .. m + n : i \in 1 .. m \/ (i - m \in 1 .. n /\ ~(i <= m))
  BY <1>1
<1>7. Elems(u) = Elems(s) \cup Elems(t)
  <2>1. ASSUME NEW x \in Elems(u) PROVE x \in Elems(s) \cup Elems(t)
    <3>1. PICK i \in 1 .. m + n : x = u[i]
      BY <1>3 DEF Elems
    <3>2. CASE i \in 1 .. m
      BY <3>1, <3>2, <1>1, <1>4 DEF Elems
    <3>3. CASE i - m \in 1 .. n /\ ~(i <= m)
      <4>1. x = t[i - m]
        BY <3>1, <3>3, <1>2
      <4> QED BY <4>1, <3>3, <1>1 DEF Elems
    <3> QED BY <3>2, <3>3, <1>6
  <2>2. ASSUME NEW x \in Elems(s) PROVE x \in Elems(u)
    BY <1>1, <1>3, <1>4 DEF Elems
  <2>3. ASSUME NEW x \in Elems(t) PROVE x \in Elems(u)
    <3>1. PICK i \in 1 .. n : x = t[i]
      BY <1>1 DEF Elems
    <3> QED BY <3>1, <1>3, <1>5 DEF Elems
  <2> QED BY <2>1, <2>2, <2>3
<1>8. ASSUME Injective(s), Injective(t), Elems(s) \cap Elems(t) = {} PROVE Injective(u)
  <2> SUFFICES ASSUME NEW i \in 1 .. m + n, NEW j \in 1 .. m + n, u[i] = u[j] PROVE i = j
    BY <1>3 DEF Injective
  <2>1. CASE i <= m /\ j <= m
    BY <2>1, <1>1, <1>4, <1>8 DEF Injective
  <2>2. CASE i <= m /\ ~(j <= m)
    <3>1. u[i] = s[i] /\ u[j] = t[j - m] /\ i \in 1 .. m /\ j - m \in 1 .. n
      BY <2>2, <1>1, <1>2
    <3>2. u[i] \in Elems(s) /\ u[j] \in Elems(t)
      BY <3>1, <1>1 DEF Elems
    <3> QED BY <3>2, <1>8
  <2>3. CASE ~(i <= m) /\ j <= m
    <3>1. u[j] = s[j] /\ u[i] = t[i - m] /\ j \in 1 .. m /\ i - m \in 1 .. n
      BY <2>3, <1>1, <1>2
    <3>2. u[j] \in Elems(s) /\ u[i] \in Elems(t)
      BY <3>1, <1>1 DEF Elems
    <3> QED BY <3>2, <1>8
  <2>4. CASE ~(i <= m) /\ ~(j <= m)
    <3>1. u[i] = t[i - m] /\ u[j] = t[j - m] /\ i - m \in 1 .. n /\ j - m \in 1 .. n
      BY <2>4, <1>1, <1>2
    <3>2. i - m = j - m
      BY <3>1, <1>1, <1>8 DEF Injective
    <3> QED BY <3>2, <1>1
  <2> QED BY <2>1, <2>2, <2>3, <2>4, <1>1
<1> QED BY <1>2, <1>7, <1>8 DEF u

LEMMA ElemsOne ==
  ASSUME NEW S, NEW x \in S
  PROVE  <<x>> \in Seq(S) /\ Elems(<<x>>) = {x} /\ Injective(<<x>>)
BY DEF Elems, Injective

LEMMA ElemsNone == Elems(<<>>) = {} /\ Injective(<<>>)
BY DEF Elems, Injective

LEMMA ElemsAppend ==
  ASSUME NEW S, NEW s \in Seq(S), NEW x \in S
  PROVE  /\ Append(s, x) \in Seq(S) /\ Elems(Append(s, x)) = Elems(s) \cup {x}
         /\ Injective(s) /\ x \notin Elems(s) => Injective(Append(s, x))
<1>1. <<x>> \in Seq(S) /\ Elems(<<x>>) = {x} /\ Injective(<<x>>)
  BY ElemsOne
<1>2. Append(s, x) = s \o <<x>>
  BY AppendIsConcat
<1>3. /\ s \o <<x>> \in Seq(S) /\ Elems(s \o <<x>>) = Elems(s) \cup Elems(<<x>>)
      /\ Injective(s) /\ Injective(<<x>>) /\ Elems(s) \cap Elems(<<x>>) = {} => Injective(s \o <<x>>)
  BY <1>1, ElemsConcat
<1> QED BY <1>1, <1>2, <1>3

LEMMA ElemsTail ==
  ASSUME NEW S, NEW s \in Seq(S), s # <<>>, Injective(s)
  PROVE  /\ Head(s) \in Elems(s) /\ Tail(s) \in Seq(S)
         /\ Elems(Tail(s)) = Elems(s) \ {Head(s)} /\ Injective(Tail(s))
<1> DEFINE m == Len(s)
           r == Tail(s)
<1>1. m \in Nat /\ DOMAIN s = 1 .. m /\ m # 0
  BY LenProperties, EmptySeq
<1>2. r \in Seq(S) /\ Len(r) = m - 1 /\ \A i \in 1 .. Len(r) : r[i] = s[i + 1]
  BY HeadTailProperties
<1>3. DOMAIN r = 1 .. m - 1
  BY <1>2, LenProperties
<1>4. Head(s) = s[1]
  OBVIOUS
<1> HIDE DEF m, r
<1>5. \A i \in 1 .. m - 1 : r[i] = s[i + 1] /\ i + 1 \in 1 .. m /\ i + 1 # 1
  BY <1>1, <1>2
<1>6. \A i \in 1 .. m : i = 1 \/ (i - 1 \in 1 .. m - 1 /\ (i - 1) + 1 = i)
  BY <1>1
<1>7. Injective(r)
  <2> SUFFICES ASSUME NEW i \in 1 .. m - 1, NEW j \in 1 .. m - 1, r[i] = r[j] PROVE i = j
    BY <1>3 DEF Injective
  <2>1. i + 1 = j + 1
    BY <1>1, <1>5 DEF Injective
  <2> QED BY <2>1
<1>8. Elems(r) = Elems(s) \ {s[1]}
  <2>1. ASSUME NEW x \in Elems(r) PROVE x \in Elems(s) /\ x # s[1]
    <3>1. PICK i \in 1 .. m - 1 : x = r[i]
      BY <1>3 DEF Elems
    <3>2. x = s[i + 1] /\ i + 1 \in 1 .. m /\ i + 1 # 1 /\ 1 \in 1 .. m
      BY <3>1, <1>1, <1>5
    <3> QED BY <3>2, <1>1 DEF Elems, Injective
  <2>2. ASSUME NEW x \in Elems(s), x # s[1] PROVE x \in Elems(r)
    <3>1. PICK i \in 1 .. m : x = s[i]
      BY <1>1 DEF Elems
    <3>2. i - 1 \in 1 .. m - 1 /\ r[i - 1] = x
      BY <3>1, <2>2, <1>5, <1>6
    <3> QED BY <3>2, <1>3 DEF Elems
  <2> QED BY <2>1, <2>2
<1>9. s[1] \in Elems(s)
  BY <1>1 DEF Elems
<1> QED BY <1>2, <1>4, <1>7, <1>8, <1>9 DEF r

-----------------------------------------------------------------------------
(***************************************************************************)
(* Alarms, and those that are due.                                         *)
(***************************************************************************)
OneAlarmEach == \A i, j \in DOMAIN alarms : alarms[i].task = alarms[j].task => i = j

DueTasks == {alarms[i].task : i \in Due}

LEMMA AsleepIs == Asleep = {alarms[i].task : i \in DOMAIN alarms}
BY DEF Asleep, Elems

LEMMA InsertPlaced ==
  ASSUME NEW S, alarms \in Seq(S), NEW e \in S, alarms' = Insert(e)
  PROVE  /\ Asleep' = Asleep \cup {e.task}
         /\ OneAlarmEach /\ e.task \notin Asleep => OneAlarmEach'
<1> DEFINE L == Len(alarms)
<1>1. L \in Nat /\ DOMAIN alarms = 1 .. L /\ alarms' \in Seq(S) /\ Len(alarms') = L + 1
  BY LenProperties, InsertElements
<1>2. PICK n \in 0 .. L : \A i \in 1 .. L + 1 :
        alarms'[i] = IF i <= n THEN alarms[i] ELSE IF i = n + 1 THEN e ELSE alarms[i - 1]
  BY InsertElements
<1>3. DOMAIN alarms' = 1 .. L + 1
  BY <1>1, LenProperties
<1> HIDE DEF L
<1>4. Asleep' = {alarms'[i].task : i \in 1 .. L + 1}
  BY <1>3 DEF Asleep, Elems
<1>5. Asleep = {alarms[i].task : i \in 1 .. L}
  BY <1>1, AsleepIs
<1>6. \A i \in 1 .. L + 1 : \/ i <= n /\ i \in 1 .. L
                            \/ i = n + 1
                            \/ ~(i <= n) /\ i # n + 1 /\ i - 1 \in 1 .. L
  <2>1. n \in Nat /\ n <= L
    BY <1>1
  <2> TAKE i \in 1 .. L + 1
  <2>2. i <= n => i \in 1 .. L
    BY <2>1, <1>1
  <2>3. ~(i <= n) /\ i # n + 1 => i - 1 \in 1 .. L
    BY <2>1, <1>1
  <2> QED BY <2>2, <2>3
<1>7. /\ \A i \in 1 .. L : i <= n => i \in 1 .. L + 1 /\ alarms'[i] = alarms[i]
      /\ n + 1 \in 1 .. L + 1 /\ alarms'[n + 1] = e
      /\ \A i \in 1 .. L : ~(i <= n) => i + 1 \in 1 .. L + 1 /\ alarms'[i + 1] = alarms[i]
  <2>1. ASSUME NEW i \in 1 .. L, i <= n PROVE i \in 1 .. L + 1 /\ alarms'[i] = alarms[i]
    BY <1>1, <1>2, <2>1
  <2>2. n + 1 \in 1 .. L + 1 /\ alarms'[n + 1] = e
    BY <1>1, <1>2
  <2>3. ASSUME NEW i \in 1 .. L, ~(i <= n) PROVE i + 1 \in 1 .. L + 1 /\ alarms'[i + 1] = alarms[i]
    <3>1. i + 1 \in 1 .. L + 1 /\ ~(i + 1 <= n) /\ i + 1 # n + 1 /\ (i + 1) - 1 = i
      BY <1>1, <2>3
    <3> QED BY <3>1, <1>2
  <2> QED BY <2>1, <2>2, <2>3
<1>8. Asleep' = Asleep \cup {e.task}
  <2>1. ASSUME NEW x \in Asleep' PROVE x \in Asleep \cup {e.task}
    <3>1. PICK i \in 1 .. L + 1 : x = alarms'[i].task
      BY <1>4
    <3> QED BY <3>1, <1>2, <1>5, <1>6
  <2>2. ASSUME NEW x \in Asleep PROVE x \in Asleep'
    <3>1. PICK i \in 1 .. L : x = alarms[i].task
      BY <1>5
    <3> QED BY <3>1, <1>4, <1>7
  <2>3. e.task \in Asleep'
    BY <1>4, <1>7
  <2> QED BY <2>1, <2>2, <2>3
<1>9. ASSUME OneAlarmEach, e.task \notin Asleep PROVE OneAlarmEach'
  <2> SUFFICES ASSUME NEW i \in 1 .. L + 1, NEW j \in 1 .. L + 1, alarms'[i].task = alarms'[j].task
               PROVE  i = j
    BY <1>3 DEF OneAlarmEach
  <2>1. \A a, b \in 1 .. L : alarms[a].task = alarms[b].task => a = b
    BY <1>1, <1>9 DEF OneAlarmEach
  <2>2. \A a \in 1 .. L : alarms[a].task # e.task
    BY <1>5, <1>9
  <2>i. \/ i <= n /\ i \in 1 .. L /\ alarms'[i] = alarms[i]
        \/ i = n + 1 /\ alarms'[i] = e
        \/ ~(i <= n) /\ i # n + 1 /\ i - 1 \in 1 .. L /\ alarms'[i] = alarms[i - 1]
    BY <1>2, <1>6
  <2>j. \/ j <= n /\ j \in 1 .. L /\ alarms'[j] = alarms[j]
        \/ j = n + 1 /\ alarms'[j] = e
        \/ ~(j <= n) /\ j # n + 1 /\ j - 1 \in 1 .. L /\ alarms'[j] = alarms[j - 1]
    BY <1>2, <1>6
  <2>3. CASE i <= n /\ i \in 1 .. L /\ alarms'[i] = alarms[i]
    <3>1. CASE j <= n /\ j \in 1 .. L /\ alarms'[j] = alarms[j]
      BY <2>1, <2>3, <3>1
    <3>2. CASE j = n + 1 /\ alarms'[j] = e
      BY <2>2, <2>3, <3>2
    <3>3. CASE ~(j <= n) /\ j # n + 1 /\ j - 1 \in 1 .. L /\ alarms'[j] = alarms[j - 1]
      <4>1. i = j - 1
        BY <2>1, <2>3, <3>3
      <4> QED BY <4>1, <2>3, <3>3
    <3> QED BY <2>j, <3>1, <3>2, <3>3
  <2>4. CASE i = n + 1 /\ alarms'[i] = e
    BY <2>2, <2>4, <2>j
  <2>5. CASE ~(i <= n) /\ i # n + 1 /\ i - 1 \in 1 .. L /\ alarms'[i] = alarms[i - 1]
    <3>1. CASE j <= n /\ j \in 1 .. L /\ alarms'[j] = alarms[j]
      <4>1. i - 1 = j
        BY <2>1, <2>5, <3>1
      <4> QED BY <4>1, <2>5, <3>1
    <3>2. CASE j = n + 1 /\ alarms'[j] = e
      BY <2>2, <2>5, <3>2
    <3>3. CASE ~(j <= n) /\ j # n + 1 /\ j - 1 \in 1 .. L /\ alarms'[j] = alarms[j - 1]
      <4>1. i - 1 = j - 1
        BY <2>1, <2>5, <3>3
      <4> QED BY <4>1
    <3> QED BY <2>j, <3>1, <3>2, <3>3
  <2> QED BY <2>i, <2>3, <2>4, <2>5
<1> QED BY <1>8, <1>9

LEMMA LaterPlaced ==
  ASSUME NEW S, alarms \in Seq(S), alarms' = Later, OneAlarmEach
  PROVE  OneAlarmEach' /\ Asleep' = Asleep \ DueTasks /\ DueTasks \subseteq Asleep
<1> DEFINE L == Len(alarms)
           k == Cardinality(Due)
<1>1. L \in Nat /\ DOMAIN alarms = 1 .. L
  BY LenProperties
<1>2. k \in 0 .. L /\ \A i \in 1 .. L : i \in Due <=> i <= k
  BY DueCounted
<1>3. /\ alarms' \in Seq(S) /\ Len(alarms') = L - k
      /\ \A i \in 1 .. Len(alarms') : alarms'[i] = alarms[k + i]
  BY LaterSeq
<1>4. DOMAIN alarms' = 1 .. L - k
  BY <1>3, LenProperties
<1>d. Due \subseteq 1 .. L
  BY <1>1 DEF Due
<1> HIDE DEF L, k
<1>5. \A i \in 1 .. L - k : alarms'[i] = alarms[k + i] /\ k + i \in 1 .. L /\ ~(k + i <= k)
  BY <1>1, <1>2, <1>3
<1>6. \A i \in 1 .. L : i \in Due \/ (i - k \in 1 .. L - k /\ k + (i - k) = i)
  BY <1>1, <1>2
<1>7. Asleep' = {alarms'[i].task : i \in 1 .. L - k}
  BY <1>4 DEF Asleep, Elems
<1>8. Asleep = {alarms[i].task : i \in 1 .. L}
  BY <1>1, AsleepIs
<1>9. \A a, b \in 1 .. L : alarms[a].task = alarms[b].task => a = b
  BY <1>1 DEF OneAlarmEach
<1>10. OneAlarmEach'
  <2> SUFFICES ASSUME NEW i \in 1 .. L - k, NEW j \in 1 .. L - k, alarms'[i].task = alarms'[j].task
               PROVE  i = j
    BY <1>4 DEF OneAlarmEach
  <2>1. k + i = k + j
    BY <1>5, <1>9
  <2> QED BY <2>1, <1>2
<1>11. Asleep' = Asleep \ DueTasks
  <2>1. ASSUME NEW x \in Asleep' PROVE x \in Asleep /\ x \notin DueTasks
    <3>1. PICK i \in 1 .. L - k : x = alarms'[i].task
      BY <1>7
    <3>2. x = alarms[k + i].task /\ k + i \in 1 .. L /\ k + i \notin Due
      BY <3>1, <1>2, <1>5
    <3> QED BY <3>2, <1>8, <1>9, <1>d DEF DueTasks
  <2>2. ASSUME NEW x \in Asleep, x \notin DueTasks PROVE x \in Asleep'
    <3>1. PICK i \in 1 .. L : x = alarms[i].task
      BY <1>8
    <3>2. i \notin Due
      BY <3>1, <2>2 DEF DueTasks
    <3>3. i - k \in 1 .. L - k /\ alarms'[i - k] = alarms[i]
      BY <3>2, <1>5, <1>6
    <3> QED BY <3>1, <3>3, <1>7
  <2> QED BY <2>1, <2>2
<1>12. DueTasks \subseteq Asleep
  BY <1>8, <1>d DEF DueTasks
<1> QED BY <1>10, <1>11, <1>12

LEMMA DuePlaced ==
  ASSUME NEW R, alarms \in Seq(R), NEW S, \A e \in R : e.task \in S, task_queue \in Seq(S),
         Injective(task_queue), OneAlarmEach, Queued \cap Asleep = {}
  PROVE  /\ QueueAfterAlarms \in Seq(S) /\ Injective(QueueAfterAlarms)
         /\ Elems(QueueAfterAlarms) = Queued \cup DueTasks
<1> DEFINE L == Len(alarms)
           k == Cardinality(Due)
           f == [i \in 1 .. k |-> alarms[k + 1 - i].task]
<1>1. L \in Nat /\ DOMAIN alarms = 1 .. L /\ \A i \in 1 .. L : alarms[i].task \in S
  BY LenProperties, ElementOfSeq
<1>2. k \in 0 .. L /\ \A i \in 1 .. L : i \in Due <=> i <= k
  BY DueCounted
<1>d. Due \subseteq 1 .. L
  BY <1>1 DEF Due
<1>3. QueueAfterAlarms = f \o task_queue
  BY DEF QueueAfterAlarms
<1>8. \A a, b \in 1 .. L : alarms[a].task = alarms[b].task => a = b
  BY <1>1 DEF OneAlarmEach
<1>9. Asleep = {alarms[i].task : i \in 1 .. L}
  BY <1>1, AsleepIs
<1> HIDE DEF L, k
<1>4. \A i \in 1 .. k : k + 1 - i \in 1 .. k /\ k + 1 - i \in 1 .. L /\ k + 1 - (k + 1 - i) = i
  BY <1>1, <1>2
<1>f. \A i \in 1 .. k : f[i] = alarms[k + 1 - i].task
  OBVIOUS
<1>5. f \in [1 .. k -> S] /\ DOMAIN f = 1 .. k
  BY <1>1, <1>4
<1> HIDE DEF f
<1>6. f \in Seq(S)
  BY <1>2, <1>5, SeqDef
<1>7. Injective(f)
  <2> SUFFICES ASSUME NEW i \in 1 .. k, NEW j \in 1 .. k, f[i] = f[j] PROVE i = j
    BY <1>5 DEF Injective
  <2>1. k + 1 - i = k + 1 - j
    <3>1. k + 1 - i \in 1 .. L /\ k + 1 - j \in 1 .. L
      BY <1>4
    <3>2. alarms[k + 1 - i].task = alarms[k + 1 - j].task
      BY <1>f
    <3> QED BY <1>8, <3>1, <3>2
  <2> QED BY <2>1, <1>2
<1>10. Elems(f) = DueTasks
  <2>1. ASSUME NEW x \in Elems(f) PROVE x \in DueTasks
    <3>1. PICK i \in 1 .. k : x = f[i]
      BY <1>5 DEF Elems
    <3>2. k + 1 - i \in Due
      BY <1>2, <1>4
    <3> QED BY <3>1, <3>2, <1>f DEF DueTasks
  <2>2. ASSUME NEW x \in DueTasks PROVE x \in Elems(f)
    <3>1. PICK i \in Due : x = alarms[i].task
      BY DEF DueTasks
    <3>2. i \in 1 .. k
      BY <1>2, <1>d
    <3>3. k + 1 - i \in 1 .. k /\ f[k + 1 - i] = x
      BY <3>1, <3>2, <1>4, <1>f
    <3> QED BY <3>3, <1>5 DEF Elems
  <2> QED BY <2>1, <2>2
<1>11. Elems(f) \cap Elems(task_queue) = {}
  BY <1>9, <1>10, <1>d DEF DueTasks, Queued
<1>12. /\ f \o task_queue \in Seq(S) /\ Elems(f \o task_queue) = Elems(f) \cup Elems(task_queue)
       /\ Injective(f) /\ Injective(task_queue) /\ Elems(f) \cap Elems(task_queue) = {}
            => Injective(f \o task_queue)
  BY <1>6, ElemsConcat
<1> QED BY <1>3, <1>7, <1>10, <1>11, <1>12 DEF Queued

-----------------------------------------------------------------------------
(***************************************************************************)
(* The places of tasks, as sets.                                           *)
(***************************************************************************)
Run == IF phase = "task" THEN {cur_task} ELSE {}
Waiters(t) == Elems(waiters[t])
Placed == Queued \cup Asleep \cup recv_block \cup Run

\* No task is in two places, and the waiters of tasks that are not done are in
\* none of them.
PlacesApart ==
  /\ Queued \cap Asleep = {}
  /\ recv_block \cap (Queued \cup Asleep) = {}
  /\ Run \cap (Queued \cup Asleep \cup recv_block) = {}

WaitersApart ==
  /\ \A t \in Task : ~Done(t) => Waiters(t) \cap Placed = {}
  /\ \A t, u \in Task : t # u /\ ~Done(t) /\ ~Done(u) => Waiters(t) \cap Waiters(u) = {}

\* Tasks that run or are blocked are active, and active tasks have a place.
Active ==
  /\ Run \subseteq all_tasks /\ recv_block \subseteq all_tasks
  /\ \A t \in Task : ~Done(t) => Waiters(t) \subseteq all_tasks
  /\ \A w \in all_tasks : w \in Placed \/ \E t \in Task : ~Done(t) /\ w \in Waiters(t)

Places == PlacesApart /\ WaitersApart /\ Active

DoneKept == \A t \in Task : Done(t)' <=> Done(t)

\* Tasks move between the places, and none becomes active, done or known.
LEMMA Shuffled ==
  ASSUME Places, UNCHANGED <<waiters, spawned, all_tasks>>, PlacesApart',
         Placed' = Placed, Run' \subseteq all_tasks, recv_block' \subseteq all_tasks
  PROVE  Places' /\ DoneKept
<1>1. all_tasks \cup Queued' \cup Asleep' = all_tasks \cup Queued \cup Asleep
  BY DEF Places, Active, Placed
<1>2. DoneKept
  BY <1>1 DEF DoneKept, Done
<1>3. \A t : Waiters(t)' = Waiters(t)
  BY DEF Waiters
<1>4. WaitersApart'
  BY <1>2, <1>3 DEF DoneKept, Places, WaitersApart
<1>5. Active'
  BY <1>2, <1>3 DEF DoneKept, Places, Active
<1> QED BY <1>2, <1>4, <1>5 DEF Places

\* A task of which nobody knew becomes ready or is put to sleep.
LEMMA SpawnedPlaced ==
  ASSUME Places, ListsType, NEW t \in Task, t \notin spawned, spawned' = spawned \cup {t},
         UNCHANGED <<waiters, all_tasks, recv_block, phase, cur_task>>,
         Queued' \cup Asleep' = Queued \cup Asleep \cup {t},
         Queued' \cap Asleep' = {}, Queued \cup Asleep \subseteq spawned
  PROVE  Places' /\ DoneKept
<1>0. Run' = Run /\ Run \subseteq spawned
  BY DEF Run, ListsType
<1>1. DoneKept
  BY DEF DoneKept, Done
<1>2. Placed' = Placed \cup {t} /\ t \notin Placed /\ Placed \subseteq spawned
  BY <1>0 DEF Placed, ListsType
<1>3. \A u \in Task : Waiters(u)' = Waiters(u) /\ Waiters(u) \subseteq spawned
  BY ElemsIn DEF Waiters, ListsType
<1>4. PlacesApart'
  BY <1>0 DEF Places, PlacesApart, ListsType
<1>5. WaitersApart'
  BY <1>1, <1>2, <1>3 DEF DoneKept, Places, WaitersApart
<1>6. Active'
  BY <1>0, <1>1, <1>2, <1>3 DEF DoneKept, Places, Active
<1> QED BY <1>1, <1>4, <1>5, <1>6 DEF Places

\* The first task of the queue runs.
LEMMA StartedPlaced ==
  ASSUME Places, NEW t \in Queued, Run = {}, Run' = {t}, Queued' = Queued \ {t},
         Asleep' = Asleep, all_tasks' = all_tasks \cup {t},
         UNCHANGED <<waiters, spawned, recv_block>>
  PROVE  Places' /\ DoneKept
<1>1. DoneKept
  BY DEF DoneKept, Done
<1>2. Placed' = Placed
  BY DEF Placed
<1>3. \A u : Waiters(u)' = Waiters(u)
  BY DEF Waiters
<1>4. PlacesApart'
  BY DEF Places, PlacesApart
<1>5. WaitersApart'
  BY <1>1, <1>2, <1>3 DEF DoneKept, Places, WaitersApart
<1>6. Active'
  <2>1. t \in Placed
    BY DEF Placed
  <2> QED BY <1>1, <1>2, <1>3, <2>1 DEF DoneKept, Places, Active
<1> QED BY <1>1, <1>4, <1>5, <1>6 DEF Places

\* A task that runs or is ready ends, and those that wait for it are made ready.
LEMMA EndedPlaced ==
  ASSUME Places, NEW t \in Task, t \in spawned, t \in Queued \cup Run, Run' = {},
         Run \subseteq {t}, Queued' = (Queued \ {t}) \cup Waiters(t), Asleep' = Asleep,
         all_tasks' = all_tasks \ {t}, UNCHANGED <<waiters, spawned, recv_block>>
  PROVE  /\ Places' /\ ~Done(t) /\ Done(t)'
         /\ \A u \in Task \ {t} : Done(u)' <=> Done(u)
         /\ Waiters(t) \cap Placed = {} /\ t \notin Waiters(t)
<1>1. ~Done(t) /\ t \in Placed /\ t \notin Asleep /\ t \notin recv_block
  BY DEF Places, PlacesApart, Active, Done, Placed
<1>2. Waiters(t) \cap Placed = {} /\ t \notin Waiters(t) /\ Waiters(t) \subseteq all_tasks
  BY <1>1 DEF Places, WaitersApart, Active
<1>3. all_tasks' \cup Queued' \cup Asleep' = (all_tasks \cup Queued \cup Asleep) \ {t}
  BY <1>1, <1>2
<1>4. Done(t)' /\ \A u \in Task \ {t} : Done(u)' <=> Done(u)
  BY <1>3 DEF Done
<1>5. Placed' = (Placed \ {t}) \cup Waiters(t)
  BY <1>1 DEF Placed
<1>6. \A u : Waiters(u)' = Waiters(u)
  BY DEF Waiters
<1>7. PlacesApart'
  BY <1>2 DEF Places, PlacesApart, Placed
<1>8. WaitersApart'
  <2>1. ASSUME NEW u \in Task, ~Done(u)' PROVE Waiters(u) \cap Placed' = {}
    <3>1. u # t /\ ~Done(u)
      BY <1>4, <2>1
    <3>2. Waiters(u) \cap Placed = {} /\ Waiters(u) \cap Waiters(t) = {}
      BY <3>1, <1>1 DEF Places, WaitersApart
    <3> QED BY <3>2, <1>5
  <2>2. ASSUME NEW u \in Task, NEW v \in Task, u # v, ~Done(u)', ~Done(v)'
        PROVE  Waiters(u) \cap Waiters(v) = {}
    <3>1. ~Done(u) /\ ~Done(v)
      BY <1>4, <2>2
    <3> QED BY <3>1, <2>2 DEF Places, WaitersApart
  <2> QED BY <2>1, <2>2, <1>6 DEF WaitersApart
<1>9. Active'
  <2>1. ASSUME NEW u \in Task, ~Done(u)' PROVE Waiters(u) \subseteq all_tasks'
    <3>1. u # t /\ ~Done(u)
      BY <1>4, <2>1
    <3>2. Waiters(u) \subseteq all_tasks /\ t \notin Waiters(u)
      BY <3>1, <1>1 DEF Places, WaitersApart, Active
    <3> QED BY <3>2
  <2>2. ASSUME NEW w \in all_tasks' PROVE w \in Placed' \/ \E u \in Task : ~Done(u)' /\ w \in Waiters(u)
    <3>1. w \in all_tasks /\ w # t
      OBVIOUS
    <3>2. CASE w \in Placed
      BY <3>1, <3>2, <1>5
    <3>3. CASE \E u \in Task : ~Done(u) /\ w \in Waiters(u)
      <4>1. PICK u \in Task : ~Done(u) /\ w \in Waiters(u)
        BY <3>3
      <4>2. CASE u = t
        BY <4>1, <4>2, <1>5
      <4>3. CASE u # t
        BY <4>1, <4>3, <1>4
      <4> QED BY <4>2, <4>3
    <3> QED BY <3>1, <3>2, <3>3 DEF Places, Active
  <2>3. recv_block \subseteq all_tasks \ {t}
    BY <1>1 DEF Places, Active
  <2> QED BY <2>1, <2>2, <2>3, <1>6 DEF Active
<1> QED BY <1>1, <1>2, <1>4, <1>7, <1>8, <1>9 DEF Places

\* The running task waits for one that is not done.
LEMMA WaitedPlaced ==
  ASSUME Places, NEW c \in Task, NEW t \in Task, Run = {c}, Run' = {}, ~Done(t),
         \A u \in Task : Waiters(u)' = IF u = t THEN Waiters(u) \cup {c} ELSE Waiters(u),
         Queued' = Queued, Asleep' = Asleep, UNCHANGED <<spawned, all_tasks, recv_block>>
  PROVE  Places' /\ DoneKept
<1>1. DoneKept
  BY DEF DoneKept, Done
<1>2. Placed' = Placed \ {c} /\ c \in Placed /\ c \in all_tasks
  BY DEF Placed, Places, PlacesApart, Active
<1>3. PlacesApart'
  BY DEF Places, PlacesApart
<1>4. \A u \in Task : ~Done(u) => c \notin Waiters(u)
  BY <1>2 DEF Places, WaitersApart
<1>5. WaitersApart'
  <2>1. ASSUME NEW u \in Task, ~Done(u)' PROVE Waiters(u)' \cap Placed' = {}
    <3>1. Waiters(u) \cap Placed = {}
      BY <2>1, <1>1 DEF DoneKept, Places, WaitersApart
    <3> QED BY <3>1, <1>2
  <2>2. ASSUME NEW u \in Task, NEW v \in Task, u # v, ~Done(u)', ~Done(v)'
        PROVE  Waiters(u)' \cap Waiters(v)' = {}
    <3>1. ~Done(u) /\ ~Done(v)
      BY <2>2, <1>1 DEF DoneKept
    <3>2. Waiters(u) \cap Waiters(v) = {}
      BY <3>1, <2>2 DEF Places, WaitersApart
    <3> QED BY <3>1, <3>2, <1>4, <2>2
  <2> QED BY <2>1, <2>2 DEF WaitersApart
<1>6. Active'
  <2>1. ASSUME NEW u \in Task, ~Done(u)' PROVE Waiters(u)' \subseteq all_tasks
    <3>1. Waiters(u) \subseteq all_tasks
      BY <2>1, <1>1 DEF DoneKept, Places, Active
    <3> QED BY <3>1, <1>2
  <2>2. ASSUME NEW w \in all_tasks PROVE w \in Placed' \/ \E u \in Task : ~Done(u)' /\ w \in Waiters(u)'
    <3>1. CASE w = c
      BY <3>1, <1>1 DEF DoneKept
    <3>2. CASE w # c
      <4>1. w \in Placed \/ \E u \in Task : ~Done(u) /\ w \in Waiters(u)
        BY DEF Places, Active
      <4> QED BY <4>1, <3>2, <1>1, <1>2 DEF DoneKept
    <3> QED BY <3>1, <3>2
  <2>3. recv_block \subseteq all_tasks
    BY DEF Places, Active
  <2> QED BY <2>1, <2>2, <2>3 DEF Active
<1> QED BY <1>1, <1>3, <1>5, <1>6 DEF Places

-----------------------------------------------------------------------------
(***************************************************************************)
(* The steps.                                                              *)
(***************************************************************************)
\* What the program must keep from.
Plain == MaxLevel = 1 /\ "late wait" \notin Habits /\ "kill self" \notin Habits

Single ==
  /\ Injective(task_queue) /\ OneAlarmEach
  /\ \A t \in Task : Injective(waiters[t])

\* The running task has neither been killed nor stopped.
Free == Run \cap (killed \cup in_preempt) = {}

PlaceInv == Places /\ Single /\ Free

PlaceContext == Plain /\ ListsInv /\ PhaseType /\ PlaceInv

LEMMA ContextParts ==
  ASSUME PlaceContext
  PROVE  /\ MaxLevel = 1 /\ ListsType /\ AlarmsType /\ PhaseType /\ Places /\ Single /\ Free
         /\ task_queue \in Seq(spawned) /\ waiters \in [Task -> Seq(spawned)]
         /\ alarms \in Seq(Entries) /\ \A e \in Entries : e.task \in spawned
         /\ Queued \subseteq spawned /\ Asleep \subseteq spawned /\ spawned \subseteq Task
<1>1. /\ MaxLevel = 1 /\ ListsType /\ AlarmsType /\ PhaseType /\ Places /\ Single /\ Free
      /\ task_queue \in Seq(spawned) /\ waiters \in [Task -> Seq(spawned)]
      /\ alarms \in Seq(Entries) /\ spawned \subseteq Task
  BY DEF PlaceContext, Plain, ListsInv, ListsType, AlarmsType, PlaceInv
<1>2. \A e \in Entries : e.task \in spawned
  BY DEF Entries
<1>3. Queued \subseteq spawned
  BY <1>1, ElemsIn DEF Queued
<1>4. Asleep \subseteq spawned
  <2>1. Elems(alarms) \subseteq Entries
    BY <1>1, ElemsIn
  <2> QED BY <2>1, <1>2 DEF Asleep
<1> QED BY <1>1, <1>2, <1>3, <1>4

\* A task that stops leaves its runloop.
LEMMA StoppedPlace ==
  ASSUME PlaceContext, NEW c \in Task, Running(c), NEW q, NEW tm, NEW wt, StopTask(c, q, tm, wt)
  PROVE  /\ task_queue' = q /\ all_tasks' = all_tasks /\ in_preempt' = in_preempt \cup {c}
         /\ Run = {c} /\ Run' = {} /\ phase' = "back"
<1>0. MaxLevel = 1 /\ PhaseType
  BY ContextParts
<1>1. phase = "task" /\ cur_task = c /\ runloop_level = 1
  BY <1>0 DEF Running, PhaseType
<1>2. Run = {c}
  BY <1>1 DEF Run
<1>3. c \notin killed
  BY <1>2 DEF PlaceContext, PlaceInv, Free
<1>4. phase' = "back" /\ in_preempt' = in_preempt \cup {c} /\ LeaveTask(q, tm)
  BY <1>1, <1>3 DEF StopTask
<1> QED BY <1>2, <1>4 DEF LeaveTask, Run

LEMMA RunUnchanged ==
  ASSUME UNCHANGED <<phase, cur_task>>
  PROVE  Run' = Run
BY DEF Run

\* All that a step has to show when neither alarms nor waiters change.
LEMMA SingleKept ==
  ASSUME Single, UNCHANGED <<alarms, waiters>>, Injective(task_queue')
  PROVE  Single'
BY DEF Single, OneAlarmEach

LEMMA PlaceTick ==
  ASSUME PlaceContext, Tick
  PROVE  PlaceInv' /\ DoneKept /\ Queued' = Queued /\ Asleep' = Asleep /\ Run' = Run
<1>c. Places /\ Single /\ Free /\ alarms \in Seq(Entries)
  BY ContextParts
<1>1. UNCHANGED <<task_queue, all_tasks, spawned, killed, in_preempt, recv_block, waiters, cur_task>>
  BY DEF Tick, taskVars
<1>2. Queued' = Queued
  BY <1>1 DEF Queued
<1>3. Run' = Run
  BY <1>1 DEF Tick, Run
<1> DEFINE L == Len(alarms)
<1>4. L \in Nat /\ DOMAIN alarms = 1 .. L /\ \A i \in 1 .. L : alarms[i] \in Entries
  BY <1>c, LenProperties, ElementOfSeq
<1>5. alarms' = [i \in 1 .. L |-> [alarms[i] EXCEPT !.time = Decayed(@, -1)]]
  BY <1>4 DEF Tick
<1> HIDE DEF L
<1>6. DOMAIN alarms' = 1 .. L /\ \A i \in 1 .. L : alarms'[i].task = alarms[i].task
  <2>1. ASSUME NEW i \in 1 .. L PROVE alarms'[i].task = alarms[i].task
    <3> DEFINE a == alarms[i]
               d == Decayed(a.time, -1)
    <3>1. a \in [task : spawned, time : Int]
      BY <1>4 DEF Entries
    <3>2. alarms'[i] = [a EXCEPT !.time = d]
      BY <1>5
    <3> HIDE DEF a, d
    <3>3. alarms'[i].task = a.task
      BY <3>1, <3>2
    <3> QED BY <3>3 DEF a
  <2> QED BY <2>1, <1>5
<1>7. Asleep' = Asleep
  <2>1. Asleep' = {alarms'[i].task : i \in 1 .. L}
    BY <1>6 DEF Asleep, Elems
  <2>2. Asleep = {alarms[i].task : i \in 1 .. L}
    BY <1>4, AsleepIs
  <2> QED BY <2>1, <2>2, <1>6
<1>8. OneAlarmEach'
  BY <1>4, <1>6, <1>c DEF Single, OneAlarmEach
<1>9. Single'
  BY <1>1, <1>8, <1>c DEF Single
<1>10. Places' /\ DoneKept
  <2>1. PlacesApart'
    BY <1>1, <1>2, <1>3, <1>7, <1>c DEF Places, PlacesApart
  <2>2. Placed' = Placed
    BY <1>1, <1>2, <1>3, <1>7 DEF Placed
  <2> QED BY <2>1, <2>2, <1>1, <1>3, <1>c, Shuffled DEF Places, Active
<1>11. Free'
  BY <1>1, <1>3, <1>c DEF Free
<1> QED BY <1>2, <1>3, <1>7, <1>9, <1>10, <1>11 DEF PlaceInv

LEMMA PlaceCheckAlarms ==
  ASSUME PlaceContext, CheckAlarms
  PROVE  /\ PlaceInv' /\ DoneKept /\ DueTasks \subseteq Asleep
         /\ Queued' = Queued \cup DueTasks /\ Asleep' = Asleep \ DueTasks /\ Run = {} /\ Run' = {}
<1>c. Places /\ Single /\ Free /\ alarms \in Seq(Entries) /\ task_queue \in Seq(spawned)
      /\ \A e \in Entries : e.task \in spawned
  BY ContextParts
<1>1. /\ task_queue' = QueueAfterAlarms /\ alarms' = Later
      /\ UNCHANGED <<all_tasks, spawned, killed, in_preempt, recv_block, waiters, cur_task>>
  BY DEF CheckAlarms, taskVars
<1>2. Run = {} /\ Run' = {}
  BY DEF CheckAlarms, Run
<1>3. OneAlarmEach' /\ Asleep' = Asleep \ DueTasks /\ DueTasks \subseteq Asleep
  BY <1>1, <1>c, LaterPlaced DEF Single
<1>4. Injective(QueueAfterAlarms) /\ Elems(QueueAfterAlarms) = Queued \cup DueTasks
  BY <1>c, DuePlaced DEF Single, Places, PlacesApart
<1>5. Queued' = Queued \cup DueTasks
  BY <1>1, <1>4 DEF Queued
<1>6. Single'
  BY <1>1, <1>3, <1>4, <1>c DEF Single
<1>7. Places' /\ DoneKept
  <2>1. PlacesApart'
    BY <1>1, <1>2, <1>3, <1>5, <1>c DEF Places, PlacesApart
  <2>2. Placed' = Placed
    BY <1>1, <1>2, <1>3, <1>5 DEF Placed
  <2> QED BY <2>1, <2>2, <1>1, <1>2, <1>c, Shuffled DEF Places, Active
<1>8. Free'
  BY <1>2 DEF Free
<1> QED BY <1>2, <1>3, <1>5, <1>6, <1>7, <1>8 DEF PlaceInv

\* What a branch does to the tasks: expired alarms make theirs ready, and the
\* running task may be put at the end of the queue.
LEMMA PlaceBranch ==
  ASSUME PlaceContext, NEW c \in Task, Branch(c)
  PROVE  /\ PlaceInv' /\ DoneKept /\ Run = {c} /\ DueTasks \subseteq Asleep
         /\ Asleep' = Asleep \ DueTasks
         /\ \/ Run' = {} /\ Queued' = Queued \cup DueTasks \cup {c}
            \/ Run' = {c} /\ Queued' = Queued \cup DueTasks
<1>c. /\ Places /\ Single /\ Free /\ alarms \in Seq(Entries) /\ task_queue \in Seq(spawned)
      /\ \A e \in Entries : e.task \in spawned
      /\ PhaseType /\ MaxLevel = 1 /\ ListsType
  BY ContextParts
<1>0. phase = "task" /\ cur_task = c /\ runloop_level = 1 /\ Run = {c} /\ Running(c) /\ c \in spawned
  BY <1>c DEF Branch, Op, Running, Run, PhaseType, ListsType
<1>1. alarms' = Later /\ UNCHANGED <<spawned, killed, recv_block, waiters, cur_task>>
  BY DEF Branch
<1>2. OneAlarmEach' /\ Asleep' = Asleep \ DueTasks /\ DueTasks \subseteq Asleep
  BY <1>1, <1>c, LaterPlaced DEF Single
<1>3. /\ QueueAfterAlarms \in Seq(spawned) /\ Injective(QueueAfterAlarms)
      /\ Elems(QueueAfterAlarms) = Queued \cup DueTasks
  BY <1>c, DuePlaced DEF Single, Places, PlacesApart
<1>4. c \notin Queued /\ c \notin Asleep /\ c \notin recv_block
  BY <1>0, <1>c DEF Places, PlacesApart
<1>5. CASE SwitchRequested /\ runloop_level <= 1
  <2> DEFINE tm == [TimerAfterAlarms EXCEPT !.fired = FALSE]
  <2>1. StopTask(c, Append(QueueAfterAlarms, c), tm, waiters)
    BY <1>5 DEF Branch
  <2> HIDE DEF tm
  <2>2. task_queue' = Append(QueueAfterAlarms, c) /\ all_tasks' = all_tasks /\ Run' = {}
    BY <2>1, <1>0, StoppedPlace
  <2>3. /\ Elems(Append(QueueAfterAlarms, c)) = Queued \cup DueTasks \cup {c}
        /\ Injective(Append(QueueAfterAlarms, c))
    BY <1>0, <1>2, <1>3, <1>4, ElemsAppend
  <2>4. Queued' = Queued \cup DueTasks \cup {c}
    BY <2>2, <2>3 DEF Queued
  <2>5. Single'
    BY <1>1, <1>2, <2>2, <2>3, <1>c DEF Single
  <2>6. PlacesApart'
    BY <1>1, <1>2, <1>4, <2>2, <2>4, <1>c DEF Places, PlacesApart
  <2>7. Placed' = Placed
    BY <1>0, <1>1, <1>2, <2>2, <2>4 DEF Placed
  <2>8. Places' /\ DoneKept
    BY <2>2, <2>6, <2>7, <1>1, <1>c, Shuffled DEF Places, Active
  <2>9. Free'
    BY <2>2 DEF Free
  <2> QED BY <1>0, <1>2, <2>2, <2>4, <2>5, <2>8, <2>9 DEF PlaceInv
<1>6. CASE ~(SwitchRequested /\ runloop_level <= 1)
  <2>1. task_queue' = QueueAfterAlarms /\ UNCHANGED <<all_tasks, in_preempt, phase>>
    BY <1>6 DEF Branch, LeaveTask
  <2>2. Queued' = Queued \cup DueTasks /\ Run' = Run
    BY <1>1, <1>3, <2>1, RunUnchanged DEF Queued
  <2>3. Single'
    BY <1>1, <1>2, <1>3, <2>1, <1>c DEF Single
  <2>4. PlacesApart'
    BY <1>1, <1>2, <2>2, <1>c DEF Places, PlacesApart
  <2>5. Placed' = Placed
    BY <1>1, <1>2, <2>2 DEF Placed
  <2>6. Places' /\ DoneKept
    BY <2>1, <2>2, <2>4, <2>5, <1>1, <1>c, Shuffled DEF Places, Active
  <2>7. Free'
    BY <1>1, <2>1, <2>2, <1>c DEF Free
  <2> QED BY <1>0, <1>2, <2>2, <2>3, <2>6, <2>7 DEF PlaceInv
<1> QED BY <1>5, <1>6

LEMMA RunningIn ==
  ASSUME PlaceContext, NEW c \in Task, Running(c)
  PROVE  /\ phase = "task" /\ cur_task = c /\ runloop_level = 1 /\ Run = {c}
         /\ c \in spawned /\ c \in all_tasks /\ ~Done(c) /\ c \notin killed /\ c \notin in_preempt
         /\ c \notin Queued /\ c \notin Asleep /\ c \notin recv_block
<1>c. MaxLevel = 1 /\ PhaseType /\ ListsType /\ Places /\ Free
  BY ContextParts
<1>1. phase = "task" /\ cur_task = c /\ runloop_level = 1
  BY <1>c DEF Running, PhaseType
<1>2. Run = {c} /\ c \in spawned
  BY <1>1, <1>c DEF Run, ListsType
<1>3. c \in all_tasks
  BY <1>2, <1>c DEF Places, Active
<1> QED BY <1>1, <1>2, <1>3, <1>c DEF Done, Free, Places, PlacesApart

LEMMA PlaceSleep ==
  ASSUME PlaceContext, NEW c \in Task, NEW d \in Sleeps, Sleep(c, d)
  PROVE  /\ PlaceInv' /\ DoneKept /\ Run = {c} /\ Run' = {}
         /\ Asleep' = Asleep \cup {c} /\ Queued' = Queued
<1>c. Places /\ Single /\ Free /\ alarms \in Seq(Entries)
  BY ContextParts
<1>0. Running(c)
  BY DEF Sleep, Op
<1>r. /\ Run = {c} /\ c \in spawned /\ c \in all_tasks /\ c \notin Queued /\ c \notin Asleep
      /\ c \notin recv_block
  BY <1>0, RunningIn
<1>1. /\ alarms' = Insert([task |-> c, time |-> d])
      /\ StopTask(c, task_queue, AlarmSet(timer, d), waiters)
      /\ UNCHANGED <<spawned, killed, recv_block, waiters, cur_task>>
  BY DEF Sleep
<1>2. task_queue' = task_queue /\ all_tasks' = all_tasks /\ Run' = {}
  BY <1>0, <1>1, StoppedPlace
<1>3. Asleep' = Asleep \cup {c} /\ OneAlarmEach'
  <2> DEFINE e == [task |-> c, time |-> d]
  <2>1. e \in Entries /\ e.task = c
    BY <1>r, EntryOf
  <2> HIDE DEF e
  <2>2. alarms' = Insert(e)
    BY <1>1 DEF e
  <2>3. /\ Asleep' = Asleep \cup {e.task}
        /\ OneAlarmEach /\ e.task \notin Asleep => OneAlarmEach'
    BY <2>1, <2>2, <1>c, InsertPlaced
  <2> QED BY <2>1, <2>3, <1>r, <1>c DEF Single
<1>4. Queued' = Queued
  BY <1>2 DEF Queued
<1>5. Single'
  BY <1>1, <1>2, <1>3, <1>c DEF Single
<1>6. PlacesApart'
  BY <1>r, <1>1, <1>2, <1>3, <1>4, <1>c DEF Places, PlacesApart
<1>7. Placed' = Placed
  BY <1>r, <1>1, <1>2, <1>3, <1>4 DEF Placed
<1>8. Places' /\ DoneKept
  BY <1>1, <1>2, <1>6, <1>7, <1>c, Shuffled DEF Places, Active
<1>9. Free'
  BY <1>2 DEF Free
<1> QED BY <1>r, <1>2, <1>3, <1>4, <1>5, <1>8, <1>9 DEF PlaceInv

LEMMA PlacePass ==
  ASSUME PlaceContext, NEW c \in Task, Pass(c)
  PROVE  /\ PlaceInv' /\ DoneKept /\ Run = {c} /\ Run' = {}
         /\ Asleep' = Asleep /\ Queued' = Queued \cup {c}
<1>c. Places /\ Single /\ Free /\ task_queue \in Seq(spawned)
  BY ContextParts
<1>0. Running(c)
  BY DEF Pass, Op
<1>r. /\ Run = {c} /\ c \in spawned /\ c \in all_tasks /\ c \notin Queued /\ c \notin Asleep
      /\ c \notin recv_block
  BY <1>0, RunningIn
<1>1. /\ StopTask(c, Append(task_queue, c), timer, waiters)
      /\ UNCHANGED <<alarms, spawned, killed, recv_block, waiters, cur_task>>
  BY DEF Pass
<1>2. task_queue' = Append(task_queue, c) /\ all_tasks' = all_tasks /\ Run' = {}
  BY <1>0, <1>1, StoppedPlace
<1>3. Elems(Append(task_queue, c)) = Queued \cup {c} /\ Injective(Append(task_queue, c))
  BY <1>r, <1>c, ElemsAppend DEF Queued, Single
<1>4. Queued' = Queued \cup {c} /\ Asleep' = Asleep
  BY <1>1, <1>2, <1>3 DEF Queued, Asleep
<1>5. Single'
  BY <1>1, <1>2, <1>3, <1>c, SingleKept
<1>6. PlacesApart'
  BY <1>r, <1>1, <1>2, <1>4, <1>c DEF Places, PlacesApart
<1>7. Placed' = Placed
  BY <1>r, <1>1, <1>2, <1>4 DEF Placed
<1>8. Places' /\ DoneKept
  BY <1>1, <1>2, <1>6, <1>7, <1>c, Shuffled DEF Places, Active
<1>9. Free'
  BY <1>2 DEF Free
<1> QED BY <1>r, <1>2, <1>4, <1>5, <1>8, <1>9 DEF PlaceInv

LEMMA PlaceBlock ==
  ASSUME PlaceContext, NEW c \in Task, ReceiveBlock(c)
  PROVE  /\ PlaceInv' /\ DoneKept /\ Run = {c} /\ Run' = {}
         /\ Asleep' = Asleep /\ Queued' = Queued
<1>c. Places /\ Single /\ Free
  BY ContextParts
<1>0. Running(c)
  BY DEF ReceiveBlock
<1>r. /\ Run = {c} /\ c \in spawned /\ c \in all_tasks /\ c \notin Queued /\ c \notin Asleep
      /\ c \notin recv_block
  BY <1>0, RunningIn
<1>1. /\ StopTask(c, task_queue, timer, waiters) /\ recv_block' = recv_block \cup {c}
      /\ UNCHANGED <<alarms, spawned, killed, waiters, cur_task>>
  BY DEF ReceiveBlock
<1>2. task_queue' = task_queue /\ all_tasks' = all_tasks /\ Run' = {}
  BY <1>0, <1>1, StoppedPlace
<1>4. Queued' = Queued /\ Asleep' = Asleep
  BY <1>1, <1>2 DEF Queued, Asleep
<1>5. Single'
  BY <1>1, <1>2, <1>c, SingleKept DEF Single
<1>6. PlacesApart'
  BY <1>r, <1>1, <1>2, <1>4, <1>c DEF Places, PlacesApart
<1>7. Placed' = Placed
  BY <1>r, <1>1, <1>2, <1>4 DEF Placed
<1>8. Places' /\ DoneKept
  BY <1>r, <1>1, <1>2, <1>6, <1>7, <1>c, Shuffled DEF Places, Active
<1>9. Free'
  BY <1>2 DEF Free
<1> QED BY <1>r, <1>2, <1>4, <1>5, <1>8, <1>9 DEF PlaceInv

LEMMA PlaceWait ==
  ASSUME PlaceContext, NEW c \in Task, NEW t \in Task, Wait(c, t)
  PROVE  /\ PlaceInv' /\ DoneKept /\ ~Done(t) /\ Run = {c} /\ Run' = {}
         /\ Asleep' = Asleep /\ Queued' = Queued
         /\ \A u \in Task : Waiters(u)' = IF u = t THEN Waiters(u) \cup {c} ELSE Waiters(u)
<1>c. Places /\ Single /\ Free /\ waiters \in [Task -> Seq(spawned)]
  BY ContextParts
<1>0. Running(c)
  BY DEF Wait, Op
<1>r. Run = {c} /\ c \in spawned /\ c \in Placed
  BY <1>0, RunningIn DEF Placed
<1>1. /\ waiters' = [waiters EXCEPT ![t] = Append(@, c)] /\ StopTask(c, task_queue, timer, waiters')
      /\ UNCHANGED <<alarms, spawned, killed, recv_block, cur_task>>
  BY DEF Wait
<1>d. ~Done(t)
  BY DEF Wait, PlaceContext, Plain
<1>2. task_queue' = task_queue /\ all_tasks' = all_tasks /\ Run' = {}
  BY <1>0, <1>1, StoppedPlace
<1>3. c \notin Elems(waiters[t])
  BY <1>r, <1>d, <1>c DEF Places, WaitersApart, Waiters
<1>4. /\ Elems(Append(waiters[t], c)) = Elems(waiters[t]) \cup {c}
      /\ Injective(Append(waiters[t], c))
  BY <1>r, <1>3, <1>c, ElemsAppend DEF Single
<1>5. \A u \in Task : Waiters(u)' = IF u = t THEN Waiters(u) \cup {c} ELSE Waiters(u)
  BY <1>1, <1>4, <1>c DEF Waiters
<1>6. \A u \in Task : Injective(waiters'[u])
  BY <1>1, <1>4, <1>c DEF Single
<1>7. Queued' = Queued /\ Asleep' = Asleep
  BY <1>1, <1>2 DEF Queued, Asleep
<1>8. Single'
  BY <1>1, <1>2, <1>6, <1>c DEF Single, OneAlarmEach
<1>9. Places' /\ DoneKept
  BY <1>r, <1>d, <1>1, <1>2, <1>5, <1>7, <1>c, WaitedPlaced
<1>10. Free'
  BY <1>2 DEF Free
<1> QED BY <1>r, <1>d, <1>2, <1>5, <1>7, <1>8, <1>9, <1>10 DEF PlaceInv

\* The effects of a task that comes to its end.
Ends(t) ==
  /\ t \in spawned /\ ~Done(t) /\ Done(t)'
  /\ \A u \in Task \ {t} : Done(u)' <=> Done(u)
  /\ t \in Queued \cup Run /\ Run \subseteq {t} /\ Run' = {}
  /\ Queued' = (Queued \ {t}) \cup Waiters(t) /\ Asleep' = Asleep
  /\ Waiters(t) \cap Placed = {} /\ t \notin Waiters(t)

LEMMA PlaceReturn ==
  ASSUME PlaceContext, NEW c \in Task, Return(c)
  PROVE  PlaceInv' /\ Ends(c) /\ Run = {c}
<1>c. /\ Places /\ Single /\ Free /\ task_queue \in Seq(spawned) /\ waiters \in [Task -> Seq(spawned)]
      /\ Queued \subseteq spawned
  BY ContextParts
<1>0. Running(c)
  BY DEF Return, Op
<1>r. /\ Run = {c} /\ c \in spawned /\ c \in all_tasks /\ c \notin Queued /\ c \in Placed /\ ~Done(c)
      /\ c \notin in_preempt
  BY <1>0, RunningIn DEF Placed
<1>1. /\ phase' = "back" /\ FinishTask(c, task_queue, timer, waiters)
      /\ UNCHANGED <<alarms, spawned, killed, in_preempt, recv_block, waiters, cur_task>>
  BY <1>r DEF Return, taskVars
<1>2. task_queue' = task_queue \o waiters[c] /\ all_tasks' = all_tasks \ {c} /\ Run' = {}
  BY <1>1 DEF FinishTask, ScheduleTasks, Run
<1>3. waiters[c] \in Seq(spawned) /\ Injective(waiters[c]) /\ Elems(waiters[c]) = Waiters(c)
  BY <1>c DEF Single, Waiters
<1>4. Waiters(c) \cap Queued = {}
  BY <1>r, <1>c DEF Places, WaitersApart, Placed
<1>5. Elems(task_queue \o waiters[c]) = Queued \cup Waiters(c) /\ Injective(task_queue \o waiters[c])
  BY <1>3, <1>4, <1>c, ElemsConcat DEF Queued, Single
<1>6. Queued' = (Queued \ {c}) \cup Waiters(c) /\ Asleep' = Asleep
  BY <1>r, <1>1, <1>2, <1>5 DEF Queued, Asleep
<1>7. Single'
  BY <1>1, <1>2, <1>5, <1>c, SingleKept
<1>8. /\ Places' /\ ~Done(c) /\ Done(c)'
      /\ \A u \in Task \ {c} : Done(u)' <=> Done(u)
      /\ Waiters(c) \cap Placed = {} /\ c \notin Waiters(c)
  BY <1>r, <1>1, <1>2, <1>6, <1>c, EndedPlaced
<1>9. Free'
  BY <1>2 DEF Free
<1> QED BY <1>r, <1>2, <1>6, <1>7, <1>8, <1>9 DEF PlaceInv, Ends

LEMMA PlaceSchedule ==
  ASSUME PlaceContext, NEW c \in Task, NEW t \in Task, Schedule(c, t)
  PROVE  /\ PlaceInv' /\ DoneKept /\ t \notin spawned /\ spawned' = spawned \cup {t}
         /\ Run = {c} /\ Run' = Run /\ Asleep' = Asleep /\ Queued' = Queued \cup {t}
<1>c. /\ Places /\ Single /\ Free /\ task_queue \in Seq(spawned) /\ ListsType
      /\ Queued \subseteq spawned /\ Asleep \subseteq spawned /\ spawned \subseteq Task
  BY ContextParts
<1>0. Running(c)
  BY DEF Schedule, Op
<1>r. Run = {c}
  BY <1>0, RunningIn
<1>1. /\ t \notin spawned /\ spawned' = spawned \cup {t} /\ ScheduleTasks(task_queue, <<t>>, timer)
      /\ UNCHANGED <<alarms, all_tasks, killed, in_preempt, recv_block, waiters, phase, cur_task>>
  BY DEF Schedule
<1>2. task_queue' = task_queue \o <<t>>
  BY <1>1 DEF ScheduleTasks
<1>3. task_queue \in Seq(Task)
  BY <1>c, SeqWider
<1>q. t \notin Elems(task_queue)
  BY <1>1, <1>c DEF Queued
<1>4. <<t>> \in Seq(Task) /\ Elems(<<t>>) = {t} /\ Injective(<<t>>)
  BY ElemsOne
<1>5. Elems(task_queue \o <<t>>) = Queued \cup {t} /\ Injective(task_queue \o <<t>>)
  <2>1. Injective(task_queue) /\ Elems(task_queue) \cap Elems(<<t>>) = {}
    <3>1. Injective(task_queue)
      BY <1>c DEF Single
    <3> QED BY <3>1, <1>q, <1>4
  <2>2. /\ Elems(task_queue \o <<t>>) = Elems(task_queue) \cup Elems(<<t>>)
        /\ Injective(task_queue \o <<t>>)
    <3> DEFINE one == <<t>>
    <3>1. one \in Seq(Task) /\ Injective(one) /\ Elems(task_queue) \cap Elems(one) = {}
      BY <1>4, <2>1
    <3> HIDE DEF one
    <3>2. /\ Elems(task_queue \o one) = Elems(task_queue) \cup Elems(one)
          /\ Injective(task_queue \o one)
      BY <1>3, <2>1, <3>1, ElemsConcat
    <3> QED BY <3>2 DEF one
  <2> QED BY <2>2, <1>4 DEF Queued
<1>6. Queued' = Queued \cup {t} /\ Asleep' = Asleep /\ Run' = Run
  BY <1>1, <1>2, <1>5, RunUnchanged DEF Queued, Asleep
<1>7. Single'
  BY <1>1, <1>2, <1>5, <1>c, SingleKept
<1>8. Queued' \cap Asleep' = {} /\ Queued' \cup Asleep' = Queued \cup Asleep \cup {t}
  BY <1>1, <1>6, <1>c DEF Places, PlacesApart
<1>9. Places' /\ DoneKept
  BY <1>1, <1>8, <1>c, SpawnedPlaced
<1>10. Free'
  BY <1>1, <1>6, <1>c DEF Free
<1> QED BY <1>r, <1>1, <1>6, <1>7, <1>9, <1>10 DEF PlaceInv

LEMMA PlaceSetAlarm ==
  ASSUME PlaceContext, NEW c \in Task, NEW t \in Task, NEW d \in Sleeps, SetAlarm(c, t, d)
  PROVE  /\ PlaceInv' /\ DoneKept /\ t \notin spawned /\ spawned' = spawned \cup {t}
         /\ Run = {c} /\ Run' = Run /\ Asleep' = Asleep \cup {t} /\ Queued' = Queued
<1>c. /\ Places /\ Single /\ Free /\ ListsType /\ alarms \in Seq(Entries)
      /\ Queued \subseteq spawned /\ Asleep \subseteq spawned /\ spawned \subseteq Task
  BY ContextParts
<1>0. Running(c)
  BY DEF SetAlarm, Op
<1>r. Run = {c}
  BY <1>0, RunningIn
<1>1. /\ t \notin spawned /\ spawned' = spawned \cup {t}
      /\ alarms' = Insert([task |-> t, time |-> d])
      /\ UNCHANGED <<task_queue, all_tasks, killed, in_preempt, recv_block, waiters, phase, cur_task>>
  BY DEF SetAlarm
<1>2. Asleep' = Asleep \cup {t} /\ OneAlarmEach'
  <2> DEFINE e == [task |-> t, time |-> d]
             S == Entries \cup {e}
  <2>1. e \in S /\ e.task = t /\ alarms \in Seq(S)
    BY <1>c, SeqWider
  <2>2. alarms' = Insert(e)
    BY <1>1
  <2> HIDE DEF e, S
  <2>3. /\ Asleep' = Asleep \cup {e.task}
        /\ OneAlarmEach /\ e.task \notin Asleep => OneAlarmEach'
    BY <2>1, <2>2, InsertPlaced
  <2> QED BY <2>1, <2>3, <1>1, <1>c DEF Single
<1>3. Queued' = Queued /\ Run' = Run
  BY <1>1, RunUnchanged DEF Queued
<1>4. Single'
  BY <1>1, <1>2, <1>c DEF Single
<1>5. Queued' \cap Asleep' = {} /\ Queued' \cup Asleep' = Queued \cup Asleep \cup {t}
  BY <1>1, <1>2, <1>3, <1>c DEF Places, PlacesApart
<1>6. Places' /\ DoneKept
  BY <1>1, <1>5, <1>c, SpawnedPlaced
<1>7. Free'
  BY <1>1, <1>3, <1>c DEF Free
<1> QED BY <1>r, <1>1, <1>2, <1>3, <1>4, <1>6, <1>7 DEF PlaceInv

\* A receiver that is blocked becomes ready; another is where it was.
LEMMA PlaceSend ==
  ASSUME PlaceContext, NEW c \in Task, NEW t \in Task, Send(c, t)
  PROVE  /\ PlaceInv' /\ DoneKept /\ Run = {c} /\ Run' = Run /\ Asleep' = Asleep
         /\ Queued' = Queued \cup ({t} \cap recv_block)
<1>c. Places /\ Single /\ Free /\ task_queue \in Seq(spawned) /\ recv_block \subseteq spawned
  BY ContextParts DEF ListsType
<1>0. Running(c)
  BY DEF Send, Op
<1>r. Run = {c}
  BY <1>0, RunningIn
<1> DEFINE ts == IF t \in recv_block THEN <<t>> ELSE <<>>
<1>1. /\ recv_block' = recv_block \ {t} /\ ScheduleTasks(task_queue, ts, timer)
      /\ UNCHANGED <<alarms, all_tasks, spawned, killed, in_preempt, waiters, phase, cur_task>>
  BY DEF Send
<1>2. ts \in Seq(spawned) /\ Elems(ts) = {t} \cap recv_block /\ Injective(ts)
  <2>1. CASE t \in recv_block
    <3>1. <<t>> \in Seq(spawned) /\ Elems(<<t>>) = {t} /\ Injective(<<t>>)
      BY <2>1, <1>c, ElemsOne
    <3> QED BY <2>1, <3>1
  <2>2. CASE t \notin recv_block
    <3>1. ts = <<>> /\ <<>> \in Seq(spawned)
      BY <2>2
    <3> HIDE DEF ts
    <3> QED BY <2>2, <3>1, ElemsNone
  <2> QED BY <2>1, <2>2
<1> HIDE DEF ts
<1>3. task_queue' = task_queue \o ts
  BY <1>1 DEF ScheduleTasks
<1>4. Elems(ts) \cap Elems(task_queue) = {}
  BY <1>2, <1>c DEF Places, PlacesApart, Queued
<1>5. /\ Elems(task_queue \o ts) = Queued \cup ({t} \cap recv_block)
      /\ Injective(task_queue \o ts)
  BY <1>2, <1>4, <1>c, ElemsConcat DEF Queued, Single
<1>6. Queued' = Queued \cup ({t} \cap recv_block) /\ Asleep' = Asleep /\ Run' = Run
  BY <1>1, <1>3, <1>5, RunUnchanged DEF Queued, Asleep
<1>7. Single'
  BY <1>1, <1>3, <1>5, <1>c, SingleKept
<1>8. PlacesApart'
  BY <1>1, <1>6, <1>c DEF Places, PlacesApart
<1>9. Placed' = Placed
  BY <1>1, <1>6 DEF Placed
<1>10. Places' /\ DoneKept
  BY <1>1, <1>6, <1>8, <1>9, <1>c, Shuffled DEF Places, Active
<1>11. Free'
  BY <1>1, <1>6, <1>c DEF Free
<1> QED BY <1>r, <1>6, <1>7, <1>10, <1>11 DEF PlaceInv

\* Steps that move no task.
LEMMA PlaceKept ==
  ASSUME PlaceContext, UNCHANGED <<queueVars, spawned, recv_block, waiters>>, Run' = Run,
         Run \cap (killed' \cup in_preempt') = {}
  PROVE  PlaceInv' /\ DoneKept /\ Queued' = Queued /\ Asleep' = Asleep
<1>c. Places /\ Single /\ Free
  BY ContextParts
<1>1. UNCHANGED <<task_queue, alarms, all_tasks, spawned, recv_block, waiters>>
  BY DEF queueVars
<1>2. Queued' = Queued /\ Asleep' = Asleep
  BY <1>1 DEF Queued, Asleep
<1>3. PlacesApart'
  BY <1>1, <1>2, <1>c DEF Places, PlacesApart
<1>4. Placed' = Placed
  BY <1>1, <1>2 DEF Placed
<1>5. Places' /\ DoneKept
  BY <1>1, <1>2, <1>3, <1>4, <1>c, Shuffled DEF Places, Active
<1>6. Single'
  BY <1>1, <1>c, SingleKept DEF Single
<1>7. Free'
  BY DEF Free
<1> QED BY <1>2, <1>5, <1>6, <1>7 DEF PlaceInv

LEMMA PlaceReceive ==
  ASSUME PlaceContext, NEW c \in Task, Receive(c)
  PROVE  /\ PlaceInv' /\ DoneKept /\ Queued' = Queued /\ Asleep' = Asleep
         /\ Run = {c} /\ Run' = Run
<1>0. Running(c) /\ Free
  BY ContextParts DEF Receive
<1>1. UNCHANGED <<queueVars, spawned, recv_block, waiters, killed, in_preempt, phase, cur_task>>
  BY DEF Receive
<1>2. Run' = Run /\ Run \cap (killed' \cup in_preempt') = {}
  BY <1>0, <1>1, RunUnchanged DEF Free
<1> QED BY <1>0, <1>1, <1>2, PlaceKept, RunningIn

LEMMA PlaceKill ==
  ASSUME PlaceContext, NEW c \in Task, NEW t \in Task, Kill(c, t)
  PROVE  /\ PlaceInv' /\ DoneKept /\ Queued' = Queued /\ Asleep' = Asleep
         /\ Run = {c} /\ Run' = Run /\ t # c
<1>0. Running(c) /\ Free
  BY ContextParts DEF Kill, Op
<1>1. t # c
  BY DEF Kill, PlaceContext, Plain
<1>2. killed' = killed \cup {t}
      /\ UNCHANGED <<queueVars, spawned, recv_block, waiters, in_preempt, phase, cur_task>>
  BY DEF Kill
<1>3. Run' = Run /\ Run = {c}
  BY <1>0, <1>2, RunUnchanged, RunningIn
<1>4. Run \cap (killed' \cup in_preempt') = {}
  BY <1>0, <1>1, <1>2, <1>3 DEF Free
<1> QED BY <1>1, <1>2, <1>3, <1>4, PlaceKept

\* The first task of the queue runs, unless it has been killed: then it ends.
LEMMA PlaceNextTask ==
  ASSUME PlaceContext, NextTask
  PROVE  /\ PlaceInv' /\ Run = {}
         /\ \E t \in Queued :
              \/ t \in killed /\ Ends(t)
              \/ /\ t \notin killed /\ DoneKept
                 /\ Run' = {t} /\ Queued' = Queued \ {t} /\ Asleep' = Asleep
<1>c. /\ Places /\ Single /\ Free /\ task_queue \in Seq(spawned) /\ waiters \in [Task -> Seq(spawned)]
      /\ Queued \subseteq spawned /\ spawned \subseteq Task
  BY ContextParts
<1>t. PICK t : t = Head(task_queue)
  OBVIOUS
<1> DEFINE r == Tail(task_queue)
<1>1. /\ phase = "loop" /\ task_queue # <<>> /\ cur_task' = t /\ in_preempt' = in_preempt \ {t}
      /\ UNCHANGED <<alarms, spawned, killed, recv_block, waiters>>
  BY <1>t DEF NextTask
<1>2. Run = {}
  BY <1>1 DEF Run
<1>3. t \in Queued /\ r \in Seq(spawned) /\ Elems(r) = Queued \ {t} /\ Injective(r)
  BY <1>t, <1>1, <1>c, ElemsTail DEF Queued, Single
<1>4. t \in spawned /\ t \in Task
  BY <1>3, <1>c
<1>5. Asleep' = Asleep
  BY <1>1 DEF Asleep
<1>6. CASE t \in killed
  <2>1. phase' = "back" /\ all_tasks' = all_tasks \ {t} /\ task_queue' = r \o waiters[t]
    BY <1>t, <1>6 DEF NextTask, Dead
  <2> HIDE DEF r
  <2>2. Run' = {}
    BY <2>1 DEF Run
  <2>3. waiters[t] \in Seq(spawned) /\ Injective(waiters[t]) /\ Elems(waiters[t]) = Waiters(t)
    BY <1>4, <1>c DEF Single, Waiters
  <2>4. Waiters(t) \cap Queued = {}
    BY <1>3, <1>4, <1>c DEF Places, WaitersApart, Placed, Done
  <2>5. Elems(r \o waiters[t]) = (Queued \ {t}) \cup Waiters(t) /\ Injective(r \o waiters[t])
    <3>1. Elems(r) \cap Elems(waiters[t]) = {}
      BY <1>3, <2>3, <2>4
    <3>2. /\ Elems(r \o waiters[t]) = Elems(r) \cup Elems(waiters[t])
          /\ Injective(r \o waiters[t])
      BY <1>3, <2>3, <3>1, ElemsConcat
    <3> QED BY <1>3, <2>3, <3>2
  <2>6. Queued' = (Queued \ {t}) \cup Waiters(t)
    BY <2>1, <2>5 DEF Queued
  <2>7. Single'
    BY <1>1, <2>1, <2>5, <1>c, SingleKept
  <2>8. t \in Queued \cup Run /\ Run \subseteq {t}
    BY <1>2, <1>3
  <2>9. /\ Places' /\ ~Done(t) /\ Done(t)'
        /\ \A u \in Task \ {t} : Done(u)' <=> Done(u)
        /\ Waiters(t) \cap Placed = {} /\ t \notin Waiters(t)
    <3>1. /\ Places /\ t \in Task /\ t \in spawned /\ Asleep' = Asleep
          /\ all_tasks' = all_tasks \ {t} /\ UNCHANGED <<waiters, spawned, recv_block>>
      BY <1>1, <1>4, <1>5, <2>1, <1>c
    <3> QED BY <3>1, <2>2, <2>6, <2>8, EndedPlaced
  <2>10. Free'
    BY <2>2 DEF Free
  <2>11. Ends(t)
    BY <1>4, <1>5, <2>2, <2>6, <2>8, <2>9 DEF Ends
  <2> QED BY <1>2, <1>3, <1>6, <2>7, <2>9, <2>10, <2>11 DEF PlaceInv
<1>7. CASE t \notin killed
  <2>1. phase' = "task" /\ all_tasks' = all_tasks \cup {t} /\ task_queue' = r
    BY <1>t, <1>7 DEF NextTask, Dead
  <2> HIDE DEF r
  <2>2. Run' = {t} /\ Queued' = Queued \ {t}
    BY <1>1, <1>3, <2>1 DEF Run, Queued
  <2>3. Places' /\ DoneKept
    BY <1>1, <1>2, <1>3, <1>5, <2>1, <2>2, <1>c, StartedPlaced
  <2>4. Single'
    BY <1>1, <1>3, <2>1, <1>c, SingleKept
  <2>5. Free'
    BY <1>1, <1>7, <2>2 DEF Free
  <2> QED BY <1>2, <1>3, <1>5, <1>7, <2>2, <2>3, <2>4, <2>5 DEF PlaceInv
<1> QED BY <1>6, <1>7

\* Runloops that are entered or left are nested, and there are none.
LEMMA NoNesting ==
  ASSUME PlaceContext, NEW c \in Task
  PROVE  ~EnterRunloop(c) /\ ~LeaveRunloop(c)
<1>1. MaxLevel = 1 /\ PhaseType
  BY ContextParts
<1> QED BY <1>1 DEF EnterRunloop, LeaveRunloop, Op, Running, PhaseType

LEMMA PlaceOutside ==
  ASSUME PlaceContext, Idle \/ Pause \/ Exit \/ Terminated \/ UNCHANGED vars
  PROVE  /\ PlaceInv' /\ DoneKept /\ Queued' = Queued /\ Asleep' = Asleep /\ Run' = Run
         /\ UNCHANGED taskVars
<1>1. UNCHANGED <<queueVars, taskVars, cur_task>>
  BY DEF Idle, Pause, Exit, Terminated, vars
<1>2. Run' = Run
  BY <1>1 DEF Idle, Pause, Exit, Terminated, vars, Run
<1>3. UNCHANGED <<spawned, recv_block, waiters, killed, in_preempt>>
  BY <1>1 DEF taskVars
<1>4. Run \cap (killed' \cup in_preempt') = {}
  BY <1>3, ContextParts DEF Free
<1> QED BY <1>1, <1>2, <1>3, <1>4, PlaceKept

LEMMA PlaceStep == PlaceContext /\ [Next]_vars => PlaceInv'
<1> SUFFICES ASSUME PlaceContext, [Next]_vars PROVE PlaceInv'
  OBVIOUS
<1>1. CASE Tick  BY <1>1, PlaceTick
<1>2. CASE OuterRunloop \/ Terminated \/ UNCHANGED vars
  BY <1>2, PlaceNextTask, PlaceCheckAlarms, PlaceOutside DEF OuterRunloop
<1>3. ASSUME NEW c \in Task, Program(c) PROVE PlaceInv'
  <2>1. CASE Branch(c) \/ Return(c)  BY <2>1, PlaceBranch, PlaceReturn
  <2>2. CASE Pass(c) \/ Receive(c) \/ ReceiveBlock(c)
    BY <2>2, PlacePass, PlaceReceive, PlaceBlock
  <2>3. ASSUME NEW d \in Sleeps, Sleep(c, d) PROVE PlaceInv'  BY <2>3, PlaceSleep
  <2>4. ASSUME NEW t \in Task, Schedule(c, t) PROVE PlaceInv'  BY <2>4, PlaceSchedule
  <2>5. ASSUME NEW t \in Task, Send(c, t) PROVE PlaceInv'  BY <2>5, PlaceSend
  <2>6. ASSUME NEW t \in Task, Wait(c, t) PROVE PlaceInv'  BY <2>6, PlaceWait
  <2>7. ASSUME NEW t \in Task, Kill(c, t) PROVE PlaceInv'  BY <2>7, PlaceKill
  <2>8. ASSUME NEW t \in Task, NEW d \in Sleeps, SetAlarm(c, t, d) PROVE PlaceInv'
    BY <2>8, PlaceSetAlarm
  <2> QED BY <1>3, <2>1, <2>2, <2>3, <2>4, <2>5, <2>6, <2>7, <2>8, NoNesting DEF Program
<1> QED BY <1>1, <1>2, <1>3 DEF Next

LEMMA PlaceInit == Init => PlaceInv
<1> SUFFICES ASSUME Init PROVE PlaceInv
  OBVIOUS
<1>1. /\ task_queue = <<Main>> /\ alarms = <<>> /\ all_tasks = {} /\ recv_block = {}
      /\ phase = "loop" /\ spawned = {Main} /\ waiters = [t \in Task |-> <<>>]
  BY DEF Init
<1>2. Run = {} /\ Queued = {Main} /\ Asleep = {} /\ Injective(task_queue)
  <2>1. Elems(<<Main>>) = {Main} /\ Injective(<<Main>>)
    BY ElemsOne
  <2>2. Asleep = {}
    BY <1>1 DEF Asleep, Elems
  <2> QED BY <1>1, <2>1, <2>2 DEF Run, Queued
<1>3. \A t \in Task : waiters[t] = <<>> /\ Waiters(t) = {}
  BY <1>1, ElemsNone DEF Waiters
<1>4. Single
  BY <1>1, <1>2, <1>3, ElemsNone DEF Single, OneAlarmEach
<1>5. Places
  BY <1>1, <1>2, <1>3 DEF Places, PlacesApart, WaitersApart, Active
<1>6. Free
  BY <1>2 DEF Free
<1> QED BY <1>4, <1>5, <1>6 DEF PlaceInv

LEMMA PlacesAlways == ASSUME Plain PROVE Spec => [](PlaceInv /\ ListsInv /\ PhaseType)
<1>1. Spec => []ListsInv
  BY ListsInit, ListsStep, PTL DEF Spec
<1>2. Spec => []PhaseType
  BY PhaseInit, PhaseStep, PTL DEF Spec
<1>3. PlaceInv /\ ListsInv /\ PhaseType /\ [Next]_vars => PlaceInv'
  BY PlaceStep DEF PlaceContext
<1> QED BY <1>1, <1>2, <1>3, PlaceInit, PTL DEF Spec

\* A program without nested runloops, in which no task kills itself or waits for
\* one that is done, never has a task in two places: each list names a task once,
\* and a task is ready, asleep, blocked, waiting for one task or running.
THEOREM OnePlaceAlways == ASSUME Plain PROVE Spec => []OnePlace
<1>1. PlaceInv => OnePlace
  <2> SUFFICES ASSUME PlaceInv PROVE OnePlace
    OBVIOUS
  <2>1. Places /\ Single
    BY DEF PlaceInv
  <2>2. Waiting = UNION {Waiters(t) : t \in {u \in Task : ~Done(u)}}
    BY DEF Waiting, Waiters
  <2>3. Waiting \cap Placed = {}
    BY <2>1, <2>2 DEF Places, WaitersApart
  <2>4. Injective(task_queue) /\ OneAlarmEach /\ \A t \in Task : Injective(waiters[t])
    BY <2>1 DEF Single
  <2>5. \A t, u \in Task : t # u /\ ~Done(t) /\ ~Done(u) => Elems(waiters[t]) \cap Elems(waiters[u]) = {}
    BY <2>1 DEF Places, WaitersApart, Waiters
  <2>6. phase = "task" => cur_task \in Run
    BY DEF Run
  <2>7. PlacesApart
    BY <2>1 DEF Places
  <2>8. /\ Queued \cap Asleep = {}
        /\ Waiting \cap (Queued \cup Asleep \cup recv_block) = {}
        /\ recv_block \cap (Queued \cup Asleep) = {}
    BY <2>3, <2>7 DEF PlacesApart, Placed
  <2>9. phase = "task" => cur_task \notin Queued \cup Asleep \cup Waiting \cup recv_block
    BY <2>3, <2>6, <2>7 DEF PlacesApart, Placed
  <2> QED BY <2>4, <2>5, <2>8, <2>9 DEF OnePlace, OneAlarmEach
<1> QED BY <1>1, PlacesAlways, PTL

\* Nor does the scheduler of such a program lose an active task: there is always
\* a place from which it will go on.
THEOREM ActivePlacedAlways == ASSUME Plain PROVE Spec => []ActivePlaced
<1>1. PlaceInv => ActivePlaced
  <2> SUFFICES ASSUME PlaceInv, NEW w \in all_tasks
               PROVE  w \in Queued \cup Asleep \cup recv_block \cup Waiting \cup Run
    BY DEF ActivePlaced, Run
  <2>1. w \in Placed \/ \E t \in Task : ~Done(t) /\ w \in Waiters(t)
    BY DEF PlaceInv, Places, Active
  <2> QED BY <2>1 DEF Placed, Waiting, Waiters
<1> QED BY <1>1, PlacesAlways, PTL

-----------------------------------------------------------------------------
(***************************************************************************)
(* What green threads promise is implemented.                              *)
(***************************************************************************)
StatusPlace(u) ==
  IF u \notin spawned THEN "new"
  ELSE IF u \in Run THEN "running"
  ELSE IF u \in Queued THEN "ready"
  ELSE IF u \in Asleep THEN "asleep"
  ELSE IF u \in recv_block THEN "receiving"
  ELSE IF Done(u) THEN "done" ELSE "waiting"

Awaited(u) == IF Done(u) THEN {} ELSE Waiters(u)

\* The places exclude each other, so that the order of the cases does not matter.
LEMMA StatusIs == PlaceContext => \A t \in Task : Status(t) = StatusPlace(t)
<1> SUFFICES ASSUME PlaceContext, NEW t \in Task PROVE Status(t) = StatusPlace(t)
  OBVIOUS
<1>c. Places /\ ListsType /\ Queued \subseteq spawned /\ Asleep \subseteq spawned
  BY ContextParts
<1>1. Running(t) <=> t \in Run
  BY DEF Running, Run
<1>2. Run \subseteq spawned /\ recv_block \subseteq spawned /\ recv_block \subseteq all_tasks /\ Run \subseteq all_tasks
  BY <1>c DEF Run, ListsType, Places, Active
<1>3. t \notin spawned => ~Running(t) /\ t \notin Queued /\ t \notin Asleep /\ t \notin recv_block /\ ~Done(t)
  BY <1>1, <1>2, <1>c DEF Done
<1>4. Running(t) => t \notin Queued /\ t \notin Asleep /\ t \notin recv_block /\ ~Done(t)
  BY <1>1, <1>2, <1>c DEF Done, Places, PlacesApart
<1>5. t \in Queued => t \notin Asleep /\ t \notin recv_block /\ ~Done(t)
  BY <1>c DEF Done, Places, PlacesApart
<1>6. t \in Asleep => t \notin recv_block /\ ~Done(t)
  BY <1>c DEF Done, Places, PlacesApart
<1>7. t \in recv_block => ~Done(t)
  BY <1>2 DEF Done
<1> QED BY <1>1, <1>3, <1>4, <1>5, <1>6, <1>7 DEF Status, StatusPlace

LEMMA StatusIsNext == PlaceContext' => \A t \in Task : Status(t)' = StatusPlace(t)'
<1>1. \A t \in Task : Status(t)' = StatusPlace(t)' <=> (Status(t) = StatusPlace(t))'
  OBVIOUS
<1>2. PlaceContext' => (\A t \in Task : Status(t) = StatusPlace(t))'
  BY StatusIs, PTL
<1> QED BY <1>2

\* A task that is running or asleep is seen as that.
LEMMA StatusSeen ==
  ASSUME PlaceContext
  PROVE  /\ Threads!In("running") = Run /\ Threads!In("asleep") = Asleep
         /\ Run \subseteq spawned
<1>c. /\ Places /\ ListsType /\ Queued \subseteq spawned /\ Asleep \subseteq spawned
      /\ spawned \subseteq Task
  BY ContextParts
<1>1. Run \subseteq spawned
  BY <1>c DEF Run, ListsType
<1>2. ASSUME NEW u \in Task
      PROVE  (StatusPlace(u) = "running" <=> u \in Run) /\ (StatusPlace(u) = "asleep" <=> u \in Asleep)
  <2>1. u \in Run => u \in spawned
    BY <1>1
  <2>2. u \in Asleep => u \in spawned /\ u \notin Run /\ u \notin Queued
    BY <1>c DEF Places, PlacesApart
  <2> QED BY <2>1, <2>2 DEF StatusPlace
<1>3. Threads!In("running") = {u \in Task : StatusPlace(u) = "running"}
      /\ Threads!In("asleep") = {u \in Task : StatusPlace(u) = "asleep"}
  BY StatusIs DEF Threads!In
<1>4. {u \in Task : StatusPlace(u) = "running"} = Run /\ {u \in Task : StatusPlace(u) = "asleep"} = Asleep
  BY <1>1, <1>2, <1>c
<1> QED BY <1>1, <1>3, <1>4

\* Nothing is said of lists that stay: who waits for whom.
LEMMA AwaitedKept ==
  ASSUME DoneKept, UNCHANGED waiters
  PROVE  [t \in Task |-> IF Done(t) THEN {} ELSE Elems(waiters[t])]'
           = [t \in Task |-> IF Done(t) THEN {} ELSE Elems(waiters[t])]
BY DEF DoneKept

\* Sleepers become ready, and the running task may make room.
LEMMA WakeStep ==
  ASSUME PlaceContext, PlaceContext', DoneKept, NEW S, S \subseteq Asleep \cup Run,
         Run' = Run \ S, Asleep' = Asleep \ S, Queued' = Queued \cup S,
         UNCHANGED <<spawned, recv_block, waiters, mailbox, killed>>
  PROVE  Threads!Wake
<1>c. Asleep \subseteq spawned /\ Run \subseteq spawned /\ spawned \subseteq Task
  BY ContextParts, StatusSeen
<1>1. \A t \in Task : Status(t) = StatusPlace(t) /\ Status(t)' = StatusPlace(t)'
  BY StatusIs, StatusIsNext
<1>2. \A t \in Task : StatusPlace(t)' = IF t \in S THEN "ready" ELSE StatusPlace(t)
  BY <1>c DEF StatusPlace, DoneKept
<1>3. S \in SUBSET (Threads!In("asleep") \cup Threads!In("running"))
  BY StatusSeen
<1>4. [t \in Task |-> Status(t)]'
        = [t \in Task |-> IF t \in S THEN "ready" ELSE [u \in Task |-> Status(u)][t]]
  BY <1>1, <1>2
<1> QED BY <1>3, <1>4, AwaitedKept DEF Threads!Wake

LEMMA DispatchStep ==
  ASSUME PlaceContext, PlaceContext', DoneKept, NEW t \in Task, t \in Queued, t \notin killed,
         Run = {}, Run' = {t}, Queued' = Queued \ {t}, Asleep' = Asleep,
         UNCHANGED <<spawned, recv_block, waiters, mailbox, killed>>
  PROVE  Threads!Dispatch(t)
<1>c. /\ Queued \subseteq spawned /\ Asleep \subseteq spawned /\ Run \subseteq spawned
      /\ spawned \subseteq Task /\ Places
  BY ContextParts, StatusSeen
<1>1. \A u \in Task : Status(u) = StatusPlace(u) /\ Status(u)' = StatusPlace(u)'
  BY StatusIs, StatusIsNext
<1>2. StatusPlace(t) = "ready" /\ StatusPlace(t)' = "running"
  BY <1>c DEF StatusPlace
<1>3. \A u \in Task \ {t} : StatusPlace(u)' = StatusPlace(u)
  BY DEF StatusPlace, DoneKept
<1>4. /\ [u \in Task |-> Status(u)]' = [[u \in Task |-> Status(u)] EXCEPT ![t] = "running"]
      /\ [u \in Task |-> Status(u)][t] = "ready"
  BY <1>1, <1>2, <1>3
<1> QED BY <1>4, StatusSeen, AwaitedKept DEF Threads!Dispatch

LEMMA EndStep ==
  ASSUME PlaceContext, PlaceContext', NEW t \in Task, Ends(t), t \in killed \/ Run = {t},
         UNCHANGED <<spawned, recv_block, waiters, mailbox, killed>>
  PROVE  Threads!End(t)
<1>c. /\ Queued \subseteq spawned /\ Asleep \subseteq spawned /\ Run \subseteq spawned
      /\ spawned \subseteq Task /\ Places
  BY ContextParts, StatusSeen
<1>1. \A u \in Task : Status(u) = StatusPlace(u) /\ Status(u)' = StatusPlace(u)'
  BY StatusIs, StatusIsNext
<1>2. /\ t \in spawned /\ ~Done(t) /\ Done(t)' /\ Run \subseteq {t} /\ Run' = {}
      /\ \A u \in Task \ {t} : Done(u)' <=> Done(u)
      /\ t \in Queued \cup Run /\ Queued' = (Queued \ {t}) \cup Waiters(t) /\ Asleep' = Asleep
      /\ Waiters(t) \cap Placed = {} /\ t \notin Waiters(t)
  BY DEF Ends
<1>3. t \notin Asleep /\ t \notin recv_block
  BY <1>2, <1>c DEF Places, PlacesApart
<1>4. Waiters(t) \subseteq spawned
  <2>1. waiters[t] \in Seq(spawned)
    BY ContextParts
  <2> QED BY <2>1, ElemsIn DEF Waiters
<1>5. StatusPlace(t)' = "done"
  BY <1>2, <1>3 DEF StatusPlace
<1>6. ASSUME NEW u \in Waiters(t) PROVE StatusPlace(u)' = "ready"
  BY <1>2, <1>4 DEF StatusPlace
<1>7. ASSUME NEW u \in Task \ {t}, u \notin Waiters(t) PROVE StatusPlace(u)' = StatusPlace(u)
  <2>1. /\ u \notin Run /\ u \notin Run'
        /\ u \in Queued' <=> u \in Queued
        /\ u \in Asleep' <=> u \in Asleep
    BY <1>2, <1>7
  <2>2. Done(u)' <=> Done(u)
    BY <1>2, <1>7
  <2> QED BY <2>1, <2>2 DEF StatusPlace
<1> DEFINE aw == [u \in Task |-> IF Done(u) THEN {} ELSE Elems(waiters[u])]
           st == [u \in Task |-> Status(u)]
<1>8. aw[t] = Waiters(t) /\ aw' = [aw EXCEPT ![t] = {}]
  BY <1>2 DEF Waiters
<1>9. st' = [u \in Task |-> IF u = t THEN "done" ELSE IF u \in Waiters(t) THEN "ready" ELSE st[u]]
  BY <1>1, <1>5, <1>6, <1>7
<1>10. \/ st[t] = "running"
       \/ st[t] = "ready" /\ t \in killed /\ Run = {}
  <2>1. CASE Run = {t}
    BY <2>1, <1>1, <1>2 DEF StatusPlace
  <2>2. CASE Run = {}
    BY <2>2, <1>1, <1>2 DEF StatusPlace
  <2> QED BY <2>1, <2>2, <1>2
<1> QED BY <1>8, <1>9, <1>10, StatusSeen DEF Threads!End

LEMMA BlockStep ==
  ASSUME PlaceContext, PlaceContext', DoneKept, NEW c \in Task, Run = {c}, Run' = {},
         Queued' = Queued,
         \/ Asleep' = Asleep \cup {c} /\ recv_block' = recv_block
         \/ Asleep' = Asleep /\ recv_block' = recv_block \cup {c} /\ mailbox[c] = 0,
         UNCHANGED <<spawned, waiters, mailbox, killed>>
  PROVE  Threads!Block(c)
<1>c. /\ Queued \subseteq spawned /\ Asleep \subseteq spawned /\ Run \subseteq spawned
      /\ spawned \subseteq Task /\ Places
  BY ContextParts, StatusSeen
<1>1. \A u \in Task : Status(u) = StatusPlace(u) /\ Status(u)' = StatusPlace(u)'
  BY StatusIs, StatusIsNext
<1>2. c \notin Queued /\ c \notin Asleep /\ c \in spawned
  BY <1>c DEF Places, PlacesApart
<1>3. \A u \in Task \ {c} : StatusPlace(u)' = StatusPlace(u)
  BY DEF StatusPlace, DoneKept
<1>4. \/ StatusPlace(c)' = "asleep"
      \/ StatusPlace(c)' = "receiving" /\ mailbox[c] = 0
  BY <1>2 DEF StatusPlace
<1>5. \/ [u \in Task |-> Status(u)]' = [[u \in Task |-> Status(u)] EXCEPT ![c] = "asleep"]
      \/ /\ [u \in Task |-> Status(u)]' = [[u \in Task |-> Status(u)] EXCEPT ![c] = "receiving"]
         /\ mailbox[c] = 0
  BY <1>1, <1>3, <1>4
<1> QED BY <1>5, AwaitedKept DEF Threads!Block

LEMMA SpawnStep ==
  ASSUME PlaceContext, PlaceContext', DoneKept, NEW t \in Task, t \notin spawned,
         spawned' = spawned \cup {t}, Run' = Run, recv_block' = recv_block,
         \/ Queued' = Queued \cup {t} /\ Asleep' = Asleep
         \/ Queued' = Queued /\ Asleep' = Asleep \cup {t},
         UNCHANGED <<waiters, mailbox, killed>>
  PROVE  Threads!Spawn(t)
<1>c. /\ Queued \subseteq spawned /\ Asleep \subseteq spawned /\ Run \subseteq spawned
      /\ spawned \subseteq Task /\ Places
  BY ContextParts, StatusSeen
<1>1. \A u \in Task : Status(u) = StatusPlace(u) /\ Status(u)' = StatusPlace(u)'
  BY StatusIs, StatusIsNext
<1>2. StatusPlace(t) = "new" /\ StatusPlace(t)' \in {"ready", "asleep"}
  BY <1>c DEF StatusPlace
<1>3. \A u \in Task \ {t} : StatusPlace(u)' = StatusPlace(u)
  BY DEF StatusPlace, DoneKept
<1>4. [u \in Task |-> Status(u)][t] = "new"
  BY <1>1, <1>2
<1>5. \E st \in {"ready", "asleep"} :
        [u \in Task |-> Status(u)]' = [[u \in Task |-> Status(u)] EXCEPT ![t] = st]
  <2>1. [u \in Task |-> Status(u)]' = [[u \in Task |-> Status(u)] EXCEPT ![t] = StatusPlace(t)']
    BY <1>1, <1>3
  <2> QED BY <2>1, <1>2
<1> QED BY <1>4, <1>5, AwaitedKept DEF Threads!Spawn

LEMMA SendStep ==
  ASSUME PlaceContext, PlaceContext', DoneKept, NEW t \in Task,
         Run' = Run, Asleep' = Asleep, Queued' = Queued \cup ({t} \cap recv_block),
         recv_block' = recv_block \ {t}, mailbox' = [mailbox EXCEPT ![t] = @ + 1],
         UNCHANGED <<spawned, waiters, killed>>
  PROVE  Threads!Send(t)
<1>c. /\ Places /\ recv_block \subseteq spawned /\ Queued \subseteq spawned /\ Run \subseteq spawned
      /\ Asleep \subseteq spawned
  BY ContextParts, StatusSeen DEF ListsType
<1>1. \A u \in Task : Status(u) = StatusPlace(u) /\ Status(u)' = StatusPlace(u)'
  BY StatusIs, StatusIsNext
<1>2. StatusPlace(t)' = IF StatusPlace(t) = "receiving" THEN "ready" ELSE StatusPlace(t)
  <2>1. CASE t \in recv_block
    <3>1. t \in spawned /\ t \notin Run /\ t \notin Queued /\ t \notin Asleep
      BY <2>1, <1>c DEF Places, PlacesApart
    <3>2. StatusPlace(t) = "receiving"
      BY <2>1, <3>1 DEF StatusPlace
    <3>3. StatusPlace(t)' = "ready"
      BY <2>1, <3>1 DEF StatusPlace
    <3> QED BY <3>2, <3>3
  <2>2. CASE t \notin recv_block
    <3>1. StatusPlace(t)' = StatusPlace(t) /\ StatusPlace(t) # "receiving"
      BY <2>2 DEF StatusPlace, DoneKept
    <3> QED BY <3>1
  <2> QED BY <2>1, <2>2
<1>3. \A u \in Task \ {t} : StatusPlace(u)' = StatusPlace(u)
  BY DEF StatusPlace, DoneKept
<1>4. [u \in Task |-> Status(u)]'
        = [[u \in Task |-> Status(u)] EXCEPT ![t] = IF @ = "receiving" THEN "ready" ELSE @]
  BY <1>1, <1>2, <1>3
<1> QED BY <1>4, AwaitedKept DEF Threads!Send

\* The mail and the killed tasks change, and no task moves.
LEMMA StatusKept ==
  ASSUME PlaceContext, PlaceContext', DoneKept, Run' = Run, Asleep' = Asleep, Queued' = Queued,
         UNCHANGED <<spawned, recv_block>>
  PROVE  [t \in Task |-> Status(t)]' = [t \in Task |-> Status(t)]
<1>1. \A u \in Task : Status(u) = StatusPlace(u) /\ Status(u)' = StatusPlace(u)'
  BY StatusIs, StatusIsNext
<1>2. \A u \in Task : StatusPlace(u)' = StatusPlace(u)
  BY DEF StatusPlace, DoneKept
<1> QED BY <1>1, <1>2

LEMMA WaitStep ==
  ASSUME PlaceContext, PlaceContext', DoneKept, NEW c \in Task, NEW t \in Task, ~Done(t),
         Run = {c}, Run' = {}, Asleep' = Asleep, Queued' = Queued,
         \A u \in Task : Waiters(u)' = IF u = t THEN Waiters(u) \cup {c} ELSE Waiters(u),
         UNCHANGED <<spawned, recv_block, mailbox, killed>>
  PROVE  Threads!Wait(c, t)
<1>c. /\ Queued \subseteq spawned /\ Asleep \subseteq spawned /\ Run \subseteq spawned
      /\ spawned \subseteq Task /\ Places
  BY ContextParts, StatusSeen
<1>1. \A u \in Task : Status(u) = StatusPlace(u) /\ Status(u)' = StatusPlace(u)'
  BY StatusIs, StatusIsNext
<1>2. ~Done(c) /\ c \in spawned /\ c \notin Queued /\ c \notin Asleep /\ c \notin recv_block
  BY <1>c DEF Places, PlacesApart, Active, Done
<1>3. StatusPlace(c)' = "waiting"
  BY <1>2 DEF StatusPlace, DoneKept
<1>4. \A u \in Task \ {c} : StatusPlace(u)' = StatusPlace(u)
  BY DEF StatusPlace, DoneKept
<1> DEFINE aw == [u \in Task |-> IF Done(u) THEN {} ELSE Elems(waiters[u])]
           st == [u \in Task |-> Status(u)]
<1>5. st' = [st EXCEPT ![c] = "waiting"]
  BY <1>1, <1>3, <1>4
<1>6. \A u \in Task : Elems(waiters[u])' = IF u = t THEN Elems(waiters[u]) \cup {c} ELSE Elems(waiters[u])
  BY DEF Waiters
<1>7. aw' = [aw EXCEPT ![t] = @ \cup {c}]
  BY <1>6 DEF DoneKept
<1>8. st[t] # "done"
  BY <1>1 DEF StatusPlace
<1> QED BY <1>5, <1>7, <1>8 DEF Threads!Wait

\* One step of the outer runloop, or time passing.
LEMMA ThreadsOutside ==
  ASSUME PlaceContext, PlaceContext', Tick \/ OuterRunloop \/ Terminated \/ UNCHANGED vars
  PROVE  Threads!Next
<1>0. Places
  BY ContextParts
<1>1. CASE Tick \/ Idle \/ Pause \/ Exit \/ Terminated \/ UNCHANGED vars
  <2>1. DoneKept /\ Queued' = Queued /\ Asleep' = Asleep /\ Run' = Run
    BY <1>1, PlaceTick, PlaceOutside
  <2>2. UNCHANGED taskVars
    BY <1>1 DEF Tick, Idle, Pause, Exit, Terminated, vars
  <2>3. UNCHANGED <<spawned, recv_block, waiters, mailbox, killed>>
    BY <2>2 DEF taskVars
  <2>4. Run' = Run \ {} /\ Asleep' = Asleep \ {} /\ Queued' = Queued \cup {}
    BY <2>1
  <2>5. Threads!Wake
    BY <2>1, <2>3, <2>4, WakeStep
  <2> QED BY <2>5 DEF Threads!Next
<1>2. CASE CheckAlarms
  <2>1. PICK S : S = DueTasks
    OBVIOUS
  <2>2. /\ DoneKept /\ S \subseteq Asleep /\ Queued' = Queued \cup S /\ Asleep' = Asleep \ S
        /\ Run = {} /\ Run' = {}
    BY <1>2, <2>1, PlaceCheckAlarms
  <2>3. UNCHANGED <<spawned, recv_block, waiters, mailbox, killed>>
    BY <1>2 DEF CheckAlarms, taskVars
  <2>4. Run' = Run \ S /\ S \subseteq Asleep \cup Run
    BY <2>2
  <2>5. Threads!Wake
    BY <2>2, <2>3, <2>4, WakeStep
  <2> QED BY <2>5 DEF Threads!Next
<1>3. CASE NextTask
  <2>1. /\ Run = {}
        /\ \E t \in Queued :
             \/ t \in killed /\ Ends(t)
             \/ /\ t \notin killed /\ DoneKept
                /\ Run' = {t} /\ Queued' = Queued \ {t} /\ Asleep' = Asleep
    BY <1>3, PlaceNextTask
  <2>2. UNCHANGED <<spawned, recv_block, waiters, mailbox, killed>>
    BY <1>3 DEF NextTask
  <2>3. PICK t \in Queued :
             \/ t \in killed /\ Ends(t)
             \/ /\ t \notin killed /\ DoneKept
                /\ Run' = {t} /\ Queued' = Queued \ {t} /\ Asleep' = Asleep
    BY <2>1
  <2>4. t \in Task
    BY ContextParts
  <2>5. CASE t \in killed /\ Ends(t)
    <3>1. Threads!End(t)
      BY <2>2, <2>4, <2>5, EndStep
    <3> QED BY <2>4, <3>1 DEF Threads!Next
  <2>6. CASE t \notin killed /\ DoneKept
             /\ Run' = {t} /\ Queued' = Queued \ {t} /\ Asleep' = Asleep
    <3>1. Threads!Dispatch(t)
      BY <2>1, <2>2, <2>4, <2>6, DispatchStep
    <3> QED BY <2>4, <3>1 DEF Threads!Next
  <2> QED BY <2>3, <2>5, <2>6
<1> QED BY <1>1, <1>2, <1>3 DEF OuterRunloop

\* One op of the running task.
LEMMA ThreadsProgram ==
  ASSUME PlaceContext, PlaceContext', NEW c \in Task, Program(c)
  PROVE  Threads!Next
<1>0. Run = {c} => c \in Threads!In("running")
  BY StatusSeen
<1>c. Places
  BY ContextParts
<1>1. CASE Branch(c)
  <2>1. /\ DoneKept /\ Run = {c} /\ DueTasks \subseteq Asleep /\ Asleep' = Asleep \ DueTasks
        /\ \/ Run' = {} /\ Queued' = Queued \cup DueTasks \cup {c}
           \/ Run' = {c} /\ Queued' = Queued \cup DueTasks
    BY <1>1, PlaceBranch
  <2>2. UNCHANGED <<spawned, recv_block, waiters, mailbox, killed>>
    BY <1>1 DEF Branch
  <2>3. c \notin Asleep
    BY <2>1, <1>c DEF Places, PlacesApart
  <2>4. PICK S : S = IF Run' = {} THEN DueTasks \cup {c} ELSE DueTasks
    OBVIOUS
  <2>5. /\ S \subseteq Asleep \cup Run /\ Run' = Run \ S /\ Asleep' = Asleep \ S
        /\ Queued' = Queued \cup S
    BY <2>1, <2>3, <2>4
  <2>6. Threads!Wake
    BY <2>1, <2>2, <2>5, WakeStep
  <2> QED BY <2>6 DEF Threads!Next
<1>2. CASE Return(c)
  <2>1. Ends(c) /\ Run = {c}
    BY <1>2, PlaceReturn
  <2>2. UNCHANGED <<spawned, recv_block, waiters, mailbox, killed>>
    BY <1>2 DEF Return, taskVars
  <2>3. Threads!End(c)
    BY <2>1, <2>2, EndStep
  <2> QED BY <2>3 DEF Threads!Next
<1>3. CASE Pass(c)
  <2>1. DoneKept /\ Run = {c} /\ Run' = {} /\ Asleep' = Asleep /\ Queued' = Queued \cup {c}
    BY <1>3, PlacePass
  <2>2. UNCHANGED <<spawned, recv_block, waiters, mailbox, killed>>
    BY <1>3 DEF Pass
  <2>3. Run' = Run \ {c} /\ Asleep' = Asleep \ {c} /\ {c} \subseteq Asleep \cup Run
    BY <2>1, <1>c DEF Places, PlacesApart
  <2>4. Threads!Wake
    BY <2>1, <2>2, <2>3, WakeStep
  <2> QED BY <2>4 DEF Threads!Next
<1>4. CASE Receive(c)
  <2>1. DoneKept /\ Queued' = Queued /\ Asleep' = Asleep /\ Run = {c} /\ Run' = Run
    BY <1>4, PlaceReceive
  <2>2. /\ UNCHANGED <<spawned, recv_block, waiters, killed>>
        /\ mailbox[c] > 0 /\ mailbox' = [mailbox EXCEPT ![c] = @ - 1]
    BY <1>4 DEF Receive
  <2>3. Threads!Receive(c)
    BY <2>1, <2>2, StatusKept, AwaitedKept DEF Threads!Receive
  <2> QED BY <2>1, <2>3, <1>0 DEF Threads!Next
<1>5. CASE ReceiveBlock(c)
  <2>1. DoneKept /\ Run = {c} /\ Run' = {} /\ Asleep' = Asleep /\ Queued' = Queued
    BY <1>5, PlaceBlock
  <2>2. /\ UNCHANGED <<spawned, waiters, mailbox, killed>>
        /\ mailbox[c] = 0 /\ recv_block' = recv_block \cup {c}
    BY <1>5 DEF ReceiveBlock
  <2>3. Threads!Block(c)
    BY <2>1, <2>2, BlockStep
  <2> QED BY <2>1, <2>3, <1>0 DEF Threads!Next
<1>6. ASSUME NEW d \in Sleeps, Sleep(c, d) PROVE Threads!Next
  <2>1. DoneKept /\ Run = {c} /\ Run' = {} /\ Asleep' = Asleep \cup {c} /\ Queued' = Queued
    BY <1>6, PlaceSleep
  <2>2. UNCHANGED <<spawned, recv_block, waiters, mailbox, killed>>
    BY <1>6 DEF Sleep
  <2>3. Threads!Block(c)
    BY <2>1, <2>2, BlockStep
  <2> QED BY <2>1, <2>3, <1>0 DEF Threads!Next
<1>7. ASSUME NEW t \in Task, Schedule(c, t) PROVE Threads!Next
  <2>1. /\ DoneKept /\ t \notin spawned /\ spawned' = spawned \cup {t} /\ Run = {c} /\ Run' = Run
        /\ Asleep' = Asleep /\ Queued' = Queued \cup {t}
    BY <1>7, PlaceSchedule
  <2>2. UNCHANGED <<recv_block, waiters, mailbox, killed>>
    BY <1>7 DEF Schedule
  <2>3. Threads!Spawn(t)
    BY <2>1, <2>2, SpawnStep
  <2> QED BY <2>1, <2>3, <1>0 DEF Threads!Next
<1>8. ASSUME NEW t \in Task, NEW d \in Sleeps, SetAlarm(c, t, d) PROVE Threads!Next
  <2>1. /\ DoneKept /\ t \notin spawned /\ spawned' = spawned \cup {t} /\ Run = {c} /\ Run' = Run
        /\ Asleep' = Asleep \cup {t} /\ Queued' = Queued
    BY <1>8, PlaceSetAlarm
  <2>2. UNCHANGED <<recv_block, waiters, mailbox, killed>>
    BY <1>8 DEF SetAlarm
  <2>3. Threads!Spawn(t)
    BY <2>1, <2>2, SpawnStep
  <2> QED BY <2>1, <2>3, <1>0 DEF Threads!Next
<1>9. ASSUME NEW t \in Task, Send(c, t) PROVE Threads!Next
  <2>1. /\ DoneKept /\ Run = {c} /\ Run' = Run /\ Asleep' = Asleep
        /\ Queued' = Queued \cup ({t} \cap recv_block)
    BY <1>9, PlaceSend
  <2>2. /\ recv_block' = recv_block \ {t} /\ mailbox' = [mailbox EXCEPT ![t] = @ + 1]
        /\ UNCHANGED <<spawned, waiters, killed>>
    BY <1>9 DEF Send
  <2>3. Threads!Send(t)
    BY <2>1, <2>2, SendStep
  <2> QED BY <2>1, <2>3, <1>0 DEF Threads!Next
<1>10. ASSUME NEW t \in Task, Wait(c, t) PROVE Threads!Next
  <2>1. /\ DoneKept /\ ~Done(t) /\ Run = {c} /\ Run' = {} /\ Asleep' = Asleep /\ Queued' = Queued
        /\ \A u \in Task : Waiters(u)' = IF u = t THEN Waiters(u) \cup {c} ELSE Waiters(u)
    BY <1>10, PlaceWait
  <2>2. UNCHANGED <<spawned, recv_block, mailbox, killed>>
    BY <1>10 DEF Wait
  <2>3. Threads!Wait(c, t)
    BY <2>1, <2>2, WaitStep
  <2> QED BY <2>1, <2>3, <1>0 DEF Threads!Next
<1>11. ASSUME NEW t \in Task, Kill(c, t) PROVE Threads!Next
  <2>1. /\ DoneKept /\ Queued' = Queued /\ Asleep' = Asleep /\ Run = {c} /\ Run' = Run /\ t # c
    BY <1>11, PlaceKill
  <2>2. UNCHANGED <<spawned, recv_block, waiters, mailbox>> /\ killed' = killed \cup {t}
    BY <1>11 DEF Kill
  <2>3. Threads!Kill(c, t)
    BY <2>1, <2>2, StatusKept, AwaitedKept DEF Threads!Kill
  <2> QED BY <2>1, <2>3, <1>0 DEF Threads!Next
<1> QED BY <1>1, <1>2, <1>3, <1>4, <1>5, <1>6, <1>7, <1>8, <1>9, <1>10, <1>11, NoNesting DEF Program

LEMMA ThreadsInit == Plain /\ Init => Threads!Init
<1> SUFFICES ASSUME Plain, Init PROVE Threads!Init
  OBVIOUS
<1>1. PlaceContext
  BY PlaceInit, ListsInit, PhaseInit DEF PlaceContext
<1>2. /\ task_queue = <<Main>> /\ alarms = <<>> /\ recv_block = {} /\ spawned = {Main}
      /\ phase = "loop" /\ waiters = [t \in Task |-> <<>>] /\ killed = {}
      /\ mailbox = [t \in Task |-> 0]
  BY DEF Init
<1>3. Queued = {Main} /\ Run = {}
  BY <1>2, ElemsOne DEF Queued, Run
<1>4. \A t \in Task : Status(t) = IF t = Main THEN "ready" ELSE "new"
  BY <1>1, <1>2, <1>3, StatusIs DEF StatusPlace
<1>5. \A t \in Task : (IF Done(t) THEN {} ELSE Elems(waiters[t])) = {}
  BY <1>2, ElemsNone
<1> QED BY <1>2, <1>4, <1>5 DEF Threads!Init

\* The scheduler of such a program implements green threads: one task runs at a
\* time, a task that stops goes on when what it stopped for has happened, a killed
\* task does not go on and a task that has ended stays ended.
THEOREM ThreadsImplementedAlways == ASSUME Plain PROVE Spec => ThreadsImplemented
<1>1. Spec => [](PlaceInv /\ ListsInv /\ PhaseType)
  BY PlacesAlways
<1>2. ASSUME PlaceInv, ListsInv, PhaseType, (PlaceInv /\ ListsInv /\ PhaseType)', [Next]_vars
      PROVE  [Threads!Next]_(Threads!threadVars)
  <2>1. PlaceContext /\ PlaceContext'
    BY <1>2 DEF PlaceContext, Plain
  <2>2. CASE Tick \/ OuterRunloop \/ Terminated \/ UNCHANGED vars
    BY <2>1, <2>2, ThreadsOutside
  <2>3. ASSUME NEW c \in Task, Program(c) PROVE Threads!Next
    BY <2>1, <2>3, ThreadsProgram
  <2> QED BY <1>2, <2>2, <2>3 DEF Next
<1>3. Init => Threads!Init
  BY ThreadsInit
<1> QED BY <1>1, <1>2, <1>3, PTL DEF Spec, ThreadsImplemented, Threads!Spec
=============================================================================
