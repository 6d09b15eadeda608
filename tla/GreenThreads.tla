---------------------------- MODULE GreenThreads -----------------------------
(***************************************************************************)
(* What green threads promise to a program, with no queue, alarm list,     *)
(* timer or flags: one task runs at a time, a task that stops goes on only *)
(* when what it stopped for has happened, a killed task does not go on at  *)
(* all, and a task that has ended stays ended.  The Scheduler module is    *)
(* shown to implement this one.                                            *)
(***************************************************************************)
EXTENDS Naturals

CONSTANTS Task, Main

VARIABLES
  status,       \* what each task is doing
  mail,         \* the number of messages it has not received
  awaited,      \* awaited[t]: the tasks that wait for t to end
  killed

threadVars == <<status, mail, awaited, killed>>

Statuses == {"new", "ready", "running", "asleep", "receiving", "waiting", "done"}
In(st) == {t \in Task : status[t] = st}

Init ==
  /\ status = [t \in Task |-> IF t = Main THEN "ready" ELSE "new"]
  /\ mail = [t \in Task |-> 0]
  /\ awaited = [t \in Task |-> {}]
  /\ killed = {}

Dispatch(t) ==
  /\ status[t] = "ready" /\ t \notin killed /\ In("running") = {}
  /\ status' = [status EXCEPT ![t] = "running"]
  /\ UNCHANGED <<mail, awaited, killed>>

\* A task ends by itself, or because it was killed before it could go on.
End(t) ==
  /\ \/ status[t] = "running"
     \/ status[t] = "ready" /\ t \in killed /\ In("running") = {}
  /\ status' = [u \in Task |-> IF u = t THEN "done"
                               ELSE IF u \in awaited[t] THEN "ready" ELSE status[u]]
  /\ awaited' = [awaited EXCEPT ![t] = {}]
  /\ UNCHANGED <<mail, killed>>

\* What the running task can do: c below is that task.
Spawn(t) ==
  /\ status[t] = "new"
  /\ \E st \in {"ready", "asleep"} : status' = [status EXCEPT ![t] = st]
  /\ UNCHANGED <<mail, awaited, killed>>

Send(t) ==
  /\ mail' = [mail EXCEPT ![t] = @ + 1]
  /\ status' = [status EXCEPT ![t] = IF @ = "receiving" THEN "ready" ELSE @]
  /\ UNCHANGED <<awaited, killed>>

Receive(c) ==
  /\ mail[c] > 0
  /\ mail' = [mail EXCEPT ![c] = @ - 1]
  /\ UNCHANGED <<status, awaited, killed>>

Block(c) ==
  /\ \/ status' = [status EXCEPT ![c] = "asleep"]
     \/ mail[c] = 0 /\ status' = [status EXCEPT ![c] = "receiving"]
  /\ UNCHANGED <<mail, awaited, killed>>

Wait(c, t) ==
  /\ status[t] # "done"
  /\ awaited' = [awaited EXCEPT ![t] = @ \cup {c}]
  /\ status' = [status EXCEPT ![c] = "waiting"]
  /\ UNCHANGED <<mail, killed>>

Kill(c, t) ==
  /\ t # c
  /\ killed' = killed \cup {t}
  /\ UNCHANGED <<status, mail, awaited>>

\* Sleepers wake up, and the running task may have to make room.
Wake ==
  /\ \E S \in SUBSET (In("asleep") \cup In("running")) :
       status' = [t \in Task |-> IF t \in S THEN "ready" ELSE status[t]]
  /\ UNCHANGED <<mail, awaited, killed>>

Next ==
  \/ \E t \in Task : Dispatch(t) \/ End(t)
  \/ \E c \in In("running") :
       \/ Receive(c) \/ Block(c)
       \/ \E t \in Task : Spawn(t) \/ Send(t) \/ Wait(c, t) \/ Kill(c, t)
  \/ Wake

Spec == Init /\ [][Next]_threadVars
=============================================================================
