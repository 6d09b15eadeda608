------------------------------ MODULE Scheduler ------------------------------
(***************************************************************************)
(* Green threads of Parrot: the scheduler (parrot/src/scheduler.c), the    *)
(* one timer of the process that it shares between time slices and sleeps  *)
(* (parrot/src/alarm.c), the Task PMC (parrot/src/pmc/task.pmc) and the    *)
(* ops that tasks use (schedule, pass, wait, receive, sleep, branch).      *)
(*                                                                         *)
(* One interpreter thread runs either the outer runloop or a task; SIGALRM *)
(* can arrive between any two of their steps.                              *)
(*                                                                         *)
(* Time is counted in the 0.0001 seconds by which Parrot_alarm_set is late *)
(* on purpose, and every time is kept relative to now.                     *)
(***************************************************************************)
EXTENDS Integers, Sequences, FiniteSets

CONSTANTS
  Task, Main,        \* the Task PMCs of the program, and the main task
  Quantum,           \* PARROT_TASK_SWITCH_QUANTUM
  Sleeps,            \* bound: the durations that sleep and Alarm are given
  MaxMail,           \* bound: messages in a mailbox
  MaxLevel,          \* bound: nesting of runloops
  MaxReady,          \* bound: length of the queue when a runloop is entered
  Habits,            \* what the program does besides scheduling tasks
  SignalInWindow     \* can SIGALRM arrive just before pause()?

ASSUME TasksAssumption == Main \in Task

ASSUME TimesAssumption ==
  Quantum \in Nat \ {0} /\ Sleeps \subseteq Nat /\ IsFiniteSet(Sleeps) /\ MaxMail \in Nat /\ MaxLevel \in Nat \ {0} /\ MaxReady \in Nat

ASSUME HabitsAssumption ==
  /\ Habits \subseteq {"pass", "sleep", "mail", "wait", "late wait", "kill", "kill self"}
  /\ SignalInWindow \in BOOLEAN

VARIABLES
  \* the Scheduler PMC
  task_queue,             \* the tasks that are ready to run
  alarms,                 \* what to do later, ordered by time
  all_tasks,              \* the active tasks
  enable_preemption, wake_requested, resched_requested,
  \* the Task PMCs
  spawned,                \* the tasks the program has scheduled, at once or by an alarm
  killed, in_preempt, recv_block,
  at_receive,             \* tasks whose continuation is a receive op to be repeated
  mailbox, waiters,
  \* the interpreter
  phase,                  \* where the outer runloop is
  cur_task,
  runloop_level,          \* current_runloop_level
  \* time
  quantum_done,           \* relative to now; overdue times are not told apart
  timer                   \* alarm_set_to, the kernel's timer, alarm_serial # last_alarm

queueVars == <<task_queue, alarms, all_tasks>>
flagVars == <<enable_preemption, wake_requested, resched_requested>>
taskVars == <<spawned, killed, in_preempt, recv_block, at_receive, mailbox, waiters>>
timeVars == <<quantum_done, timer>>
vars == <<queueVars, flagVars, taskVars, phase, cur_task, runloop_level, timeVars>>

Elems(s) == {s[i] : i \in DOMAIN s}
Queued == Elems(task_queue)
Asleep == {a.task : a \in Elems(alarms)}

Init ==
  /\ task_queue = <<Main>> /\ alarms = <<>> /\ all_tasks = {}
  /\ enable_preemption = FALSE /\ wake_requested = TRUE /\ resched_requested = TRUE
  /\ spawned = {Main} /\ killed = {} /\ in_preempt = {} /\ recv_block = {}
  /\ at_receive = {}
  /\ mailbox = [t \in Task |-> 0] /\ waiters = [t \in Task |-> <<>>]
  /\ phase = "loop" /\ cur_task = Main /\ runloop_level = 0
  /\ quantum_done = Quantum /\ timer = [set_to |-> 0, left |-> 0, fired |-> FALSE]

-----------------------------------------------------------------------------
(***************************************************************************)
(* The timer.                                                              *)
(***************************************************************************)

\* Parrot_alarm_set, for a time relative to now: an earlier alarm that is still
\* to come is left alone, a time that is past raises the flag at once
\* (setitimer fails with EINVAL), and exactly now turns the timer off.
\* (Variant: the later of two alarms wins.)
AlarmSetLast(tm, when) ==
  [tm EXCEPT !.set_to = when + 1, !.left = when + 1]

AlarmSet(tm, when) ==
  IF 0 < tm.set_to /\ tm.set_to < when + 1 THEN tm
  ELSE IF when + 1 < 0 THEN [tm EXCEPT !.set_to = 0, !.fired = TRUE]
  ELSE [tm EXCEPT !.set_to = when + 1, !.left = when + 1]

\* Parrot_pmc_list_insert_by_number: behind the alarms that are not later.
\* (Variant: at the end.)
InsertLast(entry) == Append(alarms, entry)

Insert(entry) ==
  LET n == Cardinality({i \in DOMAIN alarms : alarms[i].time <= entry.time})
  IN  SubSeq(alarms, 1, n) \o <<entry>> \o SubSeq(alarms, n + 1, Len(alarms))

\* Parrot_cx_check_alarms: the tasks of expired alarms go to the front of the
\* queue one by one, the timer is set for the first that is not expired.
\* (Variants: they stay in the list, the timer is not set again.)
Due == {i \in DOMAIN alarms : \A j \in 1 .. i : alarms[j].time < 0}
LaterAll == alarms
Later == SubSeq(alarms, Cardinality(Due) + 1, Len(alarms))
QueueAfterAlarms ==
  [i \in 1 .. Cardinality(Due) |-> alarms[Cardinality(Due) + 1 - i].task] \o task_queue

TimerAfterAlarmsUnset == timer
TimerAfterAlarms ==
  IF Later = <<>> THEN timer ELSE AlarmSet(timer, Head(Later).time)

Decayed(time, low) == IF time > low THEN time - 1 ELSE low

\* Time passes, and the kernel's timer may run out.  While nothing is ready,
\* a signal that comes before pause() is one that pause() does not see.
Tick ==
  /\ phase # "exited"
  /\ ~SignalInWindow /\ timer.left = 1 =>
       phase # "pausing" /\ (phase = "loop" => task_queue # <<>>)
  /\ quantum_done' = Decayed(quantum_done, -2)
  /\ alarms' = [i \in DOMAIN alarms |-> [alarms[i] EXCEPT !.time = Decayed(@, -1)]]
  /\ timer' = [set_to |-> Decayed(timer.set_to, 0),
               left |-> Decayed(timer.left, 0),
               fired |-> timer.fired \/ timer.left = 1]
  /\ phase' = IF phase = "paused" /\ timer.left = 1 THEN "woken" ELSE phase
  /\ UNCHANGED <<task_queue, all_tasks, flagVars, taskVars, cur_task, runloop_level>>

-----------------------------------------------------------------------------
(***************************************************************************)
(* Scheduling.  q, tm and wt stand for the queue, the timer and the lists  *)
(* of waiters as a step has left them so far.                              *)
(***************************************************************************)

EnablePreemption(tm) ==
  /\ enable_preemption' = TRUE
  /\ quantum_done' = Quantum
  /\ timer' = AlarmSet(tm, Quantum)

\* Parrot_cx_schedule_task, for several tasks in turn: preemption is enabled
\* when the queue goes from none to one.  (Variant: it is left as it was.)
ScheduleTasksQuietly(q, ts, tm) ==
  /\ task_queue' = q \o ts
  /\ timer' = tm
  /\ UNCHANGED <<enable_preemption, quantum_done>>

ScheduleTasks(q, ts, tm) ==
  /\ task_queue' = q \o ts
  /\ IF q = <<>> /\ ts # <<>> THEN EnablePreemption(tm)
     ELSE timer' = tm /\ UNCHANGED <<enable_preemption, quantum_done>>

\* The end of Task.invoke for a task that is done.
FinishTask(t, q, tm, wt) ==
  /\ all_tasks' = all_tasks \ {t}
  /\ ScheduleTasks(q, wt[t], tm)

\* The end of Task.invoke otherwise.
LeaveTask(q, tm) ==
  /\ task_queue' = q
  /\ timer' = tm
  /\ UNCHANGED <<all_tasks, enable_preemption, quantum_done>>

\* "Dead tasks don't get run": the test in Task.invoke.  (Variant: there is none.)
DeadNever(t) == FALSE
Dead(t) == t \in killed

\* Parrot_cx_next_task and Task.invoke.
NextTask ==
  /\ phase = "loop" /\ task_queue # <<>>
  /\ LET t == Head(task_queue) IN
       /\ cur_task' = t
       /\ in_preempt' = in_preempt \ {t}
       /\ IF Dead(t)
            THEN /\ phase' = "back" /\ runloop_level' = 0
                 /\ all_tasks' = all_tasks \ {t}
                 /\ task_queue' = Tail(task_queue) \o waiters[t]
            ELSE /\ phase' = "task" /\ runloop_level' = 1
                 /\ all_tasks' = all_tasks \cup {t}
                 /\ task_queue' = Tail(task_queue)
       /\ IF Tail(task_queue) # <<>> \/ (Dead(t) /\ waiters[t] # <<>>)
            THEN EnablePreemption(timer)
            ELSE enable_preemption' = FALSE /\ UNCHANGED <<quantum_done, timer>>
  /\ UNCHANGED <<alarms, wake_requested, resched_requested, spawned, killed,
                 recv_block, at_receive, mailbox, waiters>>

\* Parrot_cx_outer_runloop checks the alarms after every task and every pause.
CheckAlarms ==
  /\ phase \in {"back", "woken"}
  /\ phase' = "loop"
  /\ task_queue' = QueueAfterAlarms
  /\ alarms' = Later
  /\ timer' = TimerAfterAlarms
  /\ wake_requested' = (wake_requested \/ Due # {})
  /\ resched_requested' = (resched_requested \/ Due # {})
  /\ UNCHANGED <<all_tasks, enable_preemption, taskVars, cur_task, runloop_level, quantum_done>>

Idle ==
  /\ phase = "loop" /\ task_queue = <<>> /\ alarms # <<>>
  /\ phase' = "pausing"
  /\ UNCHANGED <<queueVars, flagVars, taskVars, cur_task, runloop_level, timeVars>>

Pause ==
  /\ phase = "pausing"
  /\ phase' = "paused"
  /\ UNCHANGED <<queueVars, flagVars, taskVars, cur_task, runloop_level, timeVars>>

Exit ==
  /\ phase = "loop" /\ task_queue = <<>> /\ alarms = <<>>
  /\ phase' = "exited"
  /\ UNCHANGED <<queueVars, flagVars, taskVars, cur_task, runloop_level, timeVars>>

-----------------------------------------------------------------------------
(***************************************************************************)
(* The ops of the running task.                                            *)
(***************************************************************************)
Running(c) == phase = "task" /\ cur_task = c

\* A resumed task repeats its receive op before anything else, unless the op was
\* abandoned with a nested runloop, in which case the task is already past it.
Op(c) == Running(c) /\ (c \in at_receive => c \in in_preempt)

\* Parrot_cx_stop_task and a jump to address 0, which leaves the innermost
\* runloop, whichever it is.  (Variant: the level is not counted down.)
StopTaskInside(c, q, tm, wt) ==
  /\ in_preempt' = in_preempt \cup {c}
  /\ runloop_level' = runloop_level
  /\ phase' = IF runloop_level = 1 THEN "back" ELSE "task"
  /\ LeaveTask(q, tm)

StopTask(c, q, tm, wt) ==
  /\ in_preempt' = in_preempt \cup {c}
  /\ runloop_level' = runloop_level - 1
  /\ phase' = IF runloop_level = 1 THEN "back" ELSE "task"
  /\ IF runloop_level = 1 /\ c \in killed THEN FinishTask(c, q, tm, wt)
     ELSE LeaveTask(q, tm)

\* The branch op: Parrot_cx_check_scheduler, Parrot_cx_run_scheduler.
\* (Variant: it does not look whether the time slice is over.)
SwitchWithoutQuantum == resched_requested \/ Due # {}
SwitchRequested ==
  resched_requested \/ Due # {} \/ (enable_preemption /\ quantum_done <= 0)

Branch(c) ==
  /\ Op(c)
  /\ timer.fired \/ wake_requested
  /\ wake_requested' = (Due # {})
  /\ resched_requested' = FALSE
  /\ alarms' = Later
  /\ LET tm == [TimerAfterAlarms EXCEPT !.fired = FALSE] IN
       IF SwitchRequested /\ runloop_level <= 1
         THEN /\ StopTask(c, Append(QueueAfterAlarms, c), tm, waiters)
              /\ at_receive' = at_receive \ {c}
         ELSE /\ LeaveTask(QueueAfterAlarms,
                           IF enable_preemption THEN AlarmSet(tm, quantum_done) ELSE tm)
              /\ UNCHANGED <<in_preempt, runloop_level, phase, at_receive>>
  /\ UNCHANGED <<spawned, killed, recv_block, mailbox, waiters, cur_task>>

\* The sub that the task runs returns.
Return(c) ==
  /\ Op(c) /\ runloop_level = 1
  /\ phase' = "back" /\ runloop_level' = 0
  /\ IF c \in killed \/ c \notin in_preempt THEN FinishTask(c, task_queue, timer, waiters)
     ELSE LeaveTask(task_queue, timer)
  /\ UNCHANGED <<alarms, wake_requested, resched_requested, taskVars, cur_task>>

\* A C function called by the task runs PIR code, which returns.
EnterRunloop(c) ==
  /\ Op(c) /\ runloop_level < MaxLevel /\ Len(task_queue) < MaxReady
  /\ runloop_level' = runloop_level + 1
  /\ UNCHANGED <<queueVars, flagVars, taskVars, phase, cur_task, timeVars>>

LeaveRunloop(c) ==
  /\ Op(c) /\ runloop_level > 1
  /\ runloop_level' = runloop_level - 1
  /\ UNCHANGED <<queueVars, flagVars, taskVars, phase, cur_task, timeVars>>

\* The schedule op, for a task that was not scheduled before.
Schedule(c, t) ==
  /\ Op(c) /\ t \notin spawned
  /\ spawned' = spawned \cup {t}
  /\ ScheduleTasks(task_queue, <<t>>, timer)
  /\ UNCHANGED <<alarms, all_tasks, wake_requested, resched_requested, killed, in_preempt,
                 recv_block, at_receive, mailbox, waiters, phase, cur_task, runloop_level>>

\* An Alarm PMC for a task that was not scheduled before.
SetAlarm(c, t, d) ==
  /\ Op(c) /\ "sleep" \in Habits /\ t \notin spawned
  /\ spawned' = spawned \cup {t}
  /\ alarms' = Insert([task |-> t, time |-> d])
  /\ timer' = AlarmSet(timer, d)
  /\ UNCHANGED <<task_queue, all_tasks, flagVars, killed, in_preempt, recv_block, at_receive,
                 mailbox, waiters, phase, cur_task, runloop_level, quantum_done>>

\* Parrot_cx_schedule_sleep.
Sleep(c, d) ==
  /\ Op(c) /\ "sleep" \in Habits
  /\ alarms' = Insert([task |-> c, time |-> d])
  /\ StopTask(c, task_queue, AlarmSet(timer, d), waiters)
  /\ at_receive' = at_receive \ {c}
  /\ UNCHANGED <<wake_requested, resched_requested, spawned, killed, recv_block,
                 mailbox, waiters, cur_task>>

Pass(c) ==
  /\ Op(c) /\ "pass" \in Habits
  /\ StopTask(c, Append(task_queue, c), timer, waiters)
  /\ at_receive' = at_receive \ {c}
  /\ UNCHANGED <<alarms, wake_requested, resched_requested, spawned, killed, recv_block,
                 mailbox, waiters, cur_task>>

\* Task.send.  (Variants: the flag of the receiver stays set; the receiver is
\* not scheduled.)
SendUnheard(c, t) ==
  /\ Op(c) /\ "mail" \in Habits
  /\ mailbox[t] < MaxMail
  /\ mailbox' = [mailbox EXCEPT ![t] = @ + 1]
  /\ recv_block' = recv_block \ {t}
  /\ UNCHANGED <<queueVars, flagVars, spawned, killed, in_preempt, at_receive, waiters,
                 phase, cur_task, runloop_level, timeVars>>

SendAgain(c, t) ==
  /\ Op(c) /\ "mail" \in Habits
  /\ mailbox[t] < MaxMail
  /\ mailbox' = [mailbox EXCEPT ![t] = @ + 1]
  /\ ScheduleTasks(task_queue, IF t \in recv_block THEN <<t>> ELSE <<>>, timer)
  /\ UNCHANGED <<alarms, all_tasks, wake_requested, resched_requested, spawned, killed,
                 in_preempt, recv_block, at_receive, waiters, phase, cur_task, runloop_level>>

Send(c, t) ==
  /\ Op(c) /\ "mail" \in Habits
  /\ mailbox[t] < MaxMail
  /\ mailbox' = [mailbox EXCEPT ![t] = @ + 1]
  /\ recv_block' = recv_block \ {t}
  /\ ScheduleTasks(task_queue, IF t \in recv_block THEN <<t>> ELSE <<>>, timer)
  /\ UNCHANGED <<alarms, all_tasks, wake_requested, resched_requested, spawned, killed,
                 in_preempt, at_receive, waiters, phase, cur_task, runloop_level>>

\* The receive op, which is repeated when the task runs again.
Receive(c) ==
  /\ Running(c) /\ "mail" \in Habits
  /\ mailbox[c] > 0
  /\ mailbox' = [mailbox EXCEPT ![c] = @ - 1]
  /\ at_receive' = at_receive \ ({c} \ in_preempt)
  /\ UNCHANGED <<queueVars, flagVars, spawned, killed, in_preempt, recv_block, waiters,
                 phase, cur_task, runloop_level, timeVars>>

ReceiveBlock(c) ==
  /\ Running(c) /\ "mail" \in Habits
  /\ mailbox[c] = 0
  /\ recv_block' = recv_block \cup {c}
  /\ at_receive' = at_receive \cup {c}
  /\ StopTask(c, task_queue, timer, waiters)
  /\ UNCHANGED <<alarms, wake_requested, resched_requested, spawned, killed, mailbox,
                 waiters, cur_task>>

\* A task that has run and will not be run again.
Done(t) == t \in spawned \ (all_tasks \cup Queued \cup Asleep)

\* The wait op does not look whether the task is done.
Wait(c, t) ==
  /\ Op(c) /\ "wait" \in Habits
  /\ Done(t) => "late wait" \in Habits
  /\ waiters' = [waiters EXCEPT ![t] = Append(@, c)]
  /\ StopTask(c, task_queue, timer, waiters')
  /\ at_receive' = at_receive \ {c}
  /\ UNCHANGED <<alarms, wake_requested, resched_requested, spawned, killed, recv_block,
                 mailbox, cur_task>>

Kill(c, t) ==
  /\ Op(c) /\ "kill" \in Habits
  /\ t = c => "kill self" \in Habits
  /\ killed' = killed \cup {t}
  /\ UNCHANGED <<queueVars, flagVars, spawned, in_preempt, recv_block, at_receive, mailbox,
                 waiters, phase, cur_task, runloop_level, timeVars>>

-----------------------------------------------------------------------------
OuterRunloop == NextTask \/ CheckAlarms \/ Idle \/ Pause \/ Exit

Program(c) ==
  \/ Branch(c) \/ Return(c) \/ EnterRunloop(c) \/ LeaveRunloop(c)
  \/ Pass(c) \/ Receive(c) \/ ReceiveBlock(c)
  \/ \E d \in Sleeps : Sleep(c, d)
  \/ \E t \in Task : \/ Schedule(c, t) \/ Send(c, t) \/ Wait(c, t) \/ Kill(c, t)
                     \/ \E d \in Sleeps : SetAlarm(c, t, d)

Terminated == phase = "exited" /\ UNCHANGED vars

Next == Tick \/ OuterRunloop \/ (\E c \in Task : Program(c)) \/ Terminated

Spec == Init /\ [][Next]_vars

\* Time passes, the runloop goes on, and a task that goes on running comes to
\* a branch or ends.
FairSpec ==
  /\ Spec /\ WF_vars(Tick) /\ WF_vars(OuterRunloop)
  /\ \A c \in Task : WF_vars(Branch(c)) /\ WF_vars(Receive(c) \/ ReceiveBlock(c))

-----------------------------------------------------------------------------
(***************************************************************************)
(* Properties.                                                             *)
(***************************************************************************)
\* Nothing is set for later than a time slice or a sleep lasts.
Soon(time) == \E d \in Sleeps \cup {Quantum} : time <= d

\* Types, and what the outer runloop does between tasks: it is at level 0 and
\* starts a pause only when there is an alarm to wait for.
TypeOK ==
  /\ task_queue \in Seq(spawned)
  /\ alarms \in Seq([task : spawned, time : Int])
  /\ \A i \in DOMAIN alarms : alarms[i].time >= -1 /\ Soon(alarms[i].time)
  /\ all_tasks \subseteq spawned
  /\ {enable_preemption, wake_requested, resched_requested} \subseteq BOOLEAN
  /\ spawned \subseteq Task /\ killed \subseteq Task /\ in_preempt \subseteq Task
  /\ recv_block \subseteq spawned /\ at_receive \subseteq Task
  /\ mailbox \in [Task -> 0 .. MaxMail] /\ waiters \in [Task -> Seq(spawned)]
  /\ phase \in {"loop", "task", "back", "pausing", "paused", "woken", "exited"}
  /\ cur_task \in spawned /\ runloop_level \in 0 .. MaxLevel
  /\ runloop_level = 0 <=> phase # "task"
  /\ quantum_done \in -2 .. Quantum
  /\ timer \in [set_to : Nat, left : Nat, fired : BOOLEAN]
  /\ Soon(timer.set_to - 1) /\ Soon(timer.left - 1)

\* The alarms are in order of time.
AlarmsOrdered ==
  \A i, j \in DOMAIN alarms : i < j => alarms[i].time <= alarms[j].time

\* Tasks that wait for one that has still to end.
Waiting == UNION {Elems(waiters[t]) : t \in {u \in Task : ~Done(u)}}

\* Where a task can be: it is ready once, asleep once, blocked in receive,
\* waiting for one task, or running.  Were it in two places, it would be resumed
\* twice from the same continuation.
Injective(s) == \A i, j \in DOMAIN s : s[i] = s[j] => i = j

OnePlace ==
  /\ Injective(task_queue)
  /\ \A i, j \in DOMAIN alarms : alarms[i].task = alarms[j].task => i = j
  /\ \A t \in Task : Injective(waiters[t])
  /\ \A t, u \in Task :
       t # u /\ ~Done(t) /\ ~Done(u) => Elems(waiters[t]) \cap Elems(waiters[u]) = {}
  /\ Queued \cap Asleep = {}
  /\ Waiting \cap (Queued \cup Asleep \cup recv_block) = {}
  /\ recv_block \cap (Queued \cup Asleep) = {}
  /\ phase = "task" => cur_task \notin Queued \cup Asleep \cup Waiting \cup recv_block

\* An active task is somewhere: it is running, will run, or is blocked.
ActivePlaced ==
  all_tasks \subseteq Queued \cup Asleep \cup recv_block \cup Waiting
                      \cup (IF phase = "task" THEN {cur_task} ELSE {})

\* A task that is blocked in receive has no mail: no message is missed between
\* the look into the mailbox and the block.
NoMessageMissed == \A t \in recv_block : mailbox[t] = 0

\* The scheduler keeps the promise of green threads, as long as runloops are not
\* nested and no task kills itself or waits for a task that is done.
Status(t) ==
  CASE t \notin spawned  -> "new"
    [] Running(t)        -> "running"
    [] t \in Queued      -> "ready"
    [] t \in Asleep      -> "asleep"
    [] t \in recv_block  -> "receiving"
    [] Done(t)           -> "done"
    [] OTHER             -> "waiting"

Threads == INSTANCE GreenThreads WITH
  status <- [t \in Task |-> Status(t)],
  mail <- mailbox,
  awaited <- [t \in Task |-> IF Done(t) THEN {} ELSE Elems(waiters[t])]

ThreadsImplemented == Threads!Spec

\* The timer will raise the flag, or the scheduler has been told already.
Armed(time) == 0 < timer.left /\ timer.left <= time + 1
Noticed == timer.fired \/ wake_requested

\* While a task runs, every other ready task has the end of the time slice to
\* count on, whatever alarms have used the timer in the meantime.
PreemptionArmed ==
  phase = "task" /\ Queued \ {cur_task} # {} =>
    \/ Noticed
    \/ enable_preemption /\ quantum_done >= 0 /\ Armed(quantum_done)

\* The first alarm has the timer, or an earlier alarm has it.
AlarmArmed ==
  phase \in {"task", "paused"} /\ alarms # <<>> =>
    Armed(Head(alarms).time) \/ (phase = "task" /\ Noticed)

\* "Nothing to do except to wait for the next alarm to expire": there is one.
PauseEnds == phase = "paused" => timer.left > 0

\* The wait op: "Block and wait for a task to complete."
NoWaitForDone ==
  \A t \in Task : Done(t) =>
    \A w \in Elems(waiters[t]) \cap all_tasks :
      \/ w \in Queued \cup Asleep \cup recv_block \cup Waiting
      \/ phase = "task" /\ w = cur_task

\* Every ready task runs, or is found to be killed, once there are no alarms any
\* more: their tasks overtake the others.
ReadyRuns ==
  <>[](alarms = <<>>) => \A t \in Task : t \in Queued ~> Running(t) \/ Done(t)

\* A task sleeps for a time and is then made ready.
SleeperWakes == \A t \in Task : t \in Asleep ~> t \notin Asleep

=============================================================================
