# A verification development for Rakudo Star

Rakudo Star is a distribution: the Parrot virtual machine (C, with its own
languages for ops and PMCs), NQP (a small Perl 6 with an object system in C on
top of Parrot), the Rakudo compiler and its setting, the module installer panda
and some twenty modules. This directory holds TLA+ models of the parts of it
that keep state in ways that are hard to test, TLC configurations that check
them on small instances, and proofs checked by TLAPS for every value of the
constants. Paths below are relative to `src/rakudo-star/`.

Two components are modelled in depth: the generational garbage collector of Parrot,
on which every other part of the system relies, and the scheduler of green
threads, the one concurrent part of the system. Nine smaller models follow the
other places where state is kept over many calls: exceptions across nested
runloops, hash tables, file buffers and the memory of strings in Parrot; arrays
and multiple dispatch in NQP; lazy lists in Rakudo; and two of panda, what it
installs and in which order it compiles.

## Inventory

| part | state it keeps | operations | what is hard |
| --- | --- | --- | --- |
| collector `parrot/src/gc/gc_gms.c`, `mark_sweep.c`, `system.c` | arrays per generation, dirty list, work list, header flags, block levels, number of runs | allocate, free, write barrier, block, mark and sweep | runs at any allocation, between any two statements of the C code that uses it; the order of the dirty list; ages drift over many collections |
| write barriers: `parrot/lib/Parrot/Pmc2c/PMC.pm`, `hash.c` and other C code | none | store, then barrier | a collection between the two |
| string storage `parrot/src/gc/string_gc.c` | blocks of memory that live buffers are moved between | allocate, grow, compact | pointers kept over an allocation; the choice of blocks is made twice |
| green threads `parrot/src/scheduler.c`, `alarm.c`, `pmc/task.pmc`, `pmc/scheduler.pmc`, `pmc/alarm.pmc`, `ops/experimental.ops` | queue, alarms, active tasks, request flags, mailboxes, waiters, one timer | schedule, pass, sleep, send, receive, wait, kill, task switch | SIGALRM between any two instructions; one timer for time slices and sleeps; nested runloops |
| exceptions `parrot/src/exceptions.c`, `events.c`, `ops/core.ops`, phasers in `rakudo/src/ops/perl6.ops` | handlers per context, the chain of jump points, the place of an exception among the handlers | throw, rethrow, resume, finalize, catch in C | handlers run in the innermost runloop and belong to outer ones; longjmp past C functions that keep jump buffers |
| calls and contexts `parrot/src/call/*.c`, `sub.c` | contexts, runloops, continuations | invoke, return, tailcall, yield | runloops nested in C calls |
| hash tables `parrot/src/hash.c` | buckets, free list | put, delete, iterate, expand | change while iterating; growth |
| I/O `parrot/src/io/*.c` | one buffer for reading and writing, position | read, peek, readline, write, seek, flush | the buffer changes its role; short reads |
| dispatch, classes `parrot/src/multidispatch.c`, `oo.c` | tables | find a candidate, C3 | ordering |
| IMCC, bytecode, runcores, embedding, NCI, debugger, strings | - | - | sequential, or thin layers over the system |
| 6model `nqp/src/6model/*.c` | objects with a serialization context, tables of roots, repossessions | serialize, deserialize, repossess | blocks the collector while it works |
| NQP dispatch `nqp/src/guts/multi_dispatch.c` | sorted candidates, cache per arity | dispatch, add to cache | stale entries, saturation, topological sort |
| NQP arrays `nqp/src/pmc/qrpa.pmc` | slots, start, number of elements | push, pop, shift, unshift, resize, splice | what the slots outside the elements hold |
| NQP meta-objects, QRegex, QAST, NQP compiler | - | - | compile-time algorithms |
| Rakudo binder and dispatcher `rakudo/src/binder/*.c` | as NQP dispatch, with constraints | bind, dispatch | as NQP dispatch |
| Rakudo lists `rakudo/src/core/List.pm`, `ListIter.pm`, `GatherIter.pm` | reified items, next iterator | reify, shift, gather | lists that share an iterator |
| Rakudo compiler, metamodel, setting | - | - | a compiler |
| panda `modules/panda/lib/` | states of projects, in memory and in a file | resolve, fetch, build, test, install | failures between stages, cycles, crash while the state file is written |
| bundled modules, build tools, CPAN wrapper `src/lib/Rakudo/Star.pm` | - | - | libraries and scripts |

The parts meet in a few places. Every allocation may call the collector, which
calls back VTABLE_mark and VTABLE_destroy of each PMC type. The collector finds
its roots in the interpreter structure, the scheduler among them, and by
looking at every word of the C stack. Ops run in a runloop; a C function that
calls back into Parrot code starts a nested one. The branch ops of a runloop
call the scheduler, which leaves the runloop by handing it address 0. NQP and
Rakudo sit on the same PMCs and must run the same write barriers.

What makes the modelled components correct:

- collector: nothing reachable is freed; garbage is freed eventually; a header
  is in one array and its flags agree with it (the collector asserts this); no
  assertion fails;
- green threads: a task that stops is resumed exactly once, when what it
  stopped for has happened; a sleep ends; a ready task runs; no message is
  missed; a dead task does not run and those who wait for it go on;
- exceptions: no jump goes to a C function that has returned; code returns from
  the C function that it was called by; each handler has an exception at most
  once, in the order of the handlers;
- hash tables: a lookup finds what was stored last; no bucket is lost or in two
  chains;
- file buffers: each operation gives the bytes and puts the bytes that it should,
  however far the buffer has read ahead, but for a few exceptions (below);
- string storage: no two strings overlap, except those that share on purpose,
  and no block is freed with a string in it;
- arrays: each operation does to the sequence what it is asked to, however its elements are moved;
- multiple dispatch: the narrowest candidate, from a cache that is never stale;
- lazy lists: every list that shares an iterator gives all values once, and
  nothing is computed before it is asked for;
- panda: what is recorded as installed was complete, but for failed copies, a
  requested project stays requested, every run ends; a module is compiled after those it uses.

## Modules

| module | what it is |
| --- | --- |
| `Heap` | abstract: what a collected heap promises to the interpreter |
| `GcGms` | the collector and the code that uses it; its properties; the refinement to `Heap` |
| `GcGmsInv` | extends `GcGms` by the inductive invariants |
| `GreenThreads` | abstract: what green threads promise to a program |
| `Scheduler` | scheduler, timer, tasks and ops; its properties; the refinement to `GreenThreads` |
| `Scheduler_proofs` | theorems about `Scheduler`: messages and alarms; types and the timer; the places of tasks and the refinement |
| `Exceptions`, `Exceptions_proofs` | contexts, handlers, runloops and C functions that catch; its theorems |
| `Hash` | buckets, chains and the free list of a hash table |
| `File` | abstract: what a file handle promises |
| `IoBuffer`, `IoBuffer_proofs` | the buffer of a FileHandle, the refinement to `File`, and its theorems |
| `StringGc` | storage of strings in blocks, and its compaction |
| `Gc_proofs` | theorems about `GcGms` and `StringGc` |
| `Array` | abstract: a sequence of items |
| `Qrpa` | NQP's array PMC, and the refinement to `Array` |
| `Containers_proofs` | theorems about `Qrpa`, `Hash` and `LazyList` |
| `MultiDispatch`, `MultiDispatch_proofs` | NQP's dispatcher and its cache, and the theorems about the cache and the answer |
| `LazyList` | lists, list iterators and gather of Rakudo |
| `Panda` | installation by panda with kills and restarts |
| `BuildOrder` | the order of compilation in panda |
| `Panda_proofs` | theorems about `Panda` and `BuildOrder` |
| `Induction_proofs` | induction over numbers and finite sets, and sums over finite sets |
| `MCGcGms`, `MCScheduler`, `MCIoBuffer` | symmetry sets and data of the runs |
| `MCComponents` | the nine smaller models side by side, and their data |

Constants that a comment calls a bound exist for TLC only. Operators whose comment
says "variant" are the same definition with a plausible bug; `mutants` in
PROJECT.json names the property each of them breaks.

### GcGms and the code

| code | model |
| --- | --- |
| `objects[g]`, `strings[g]` | `objects[g]`: the generation a header is filed under; strings and PMCs are told apart by `Str` and `Pmc` |
| `dirty_list`, `work_list` | sets: the pointer arrays reuse cells, so that any order of iteration can occur |
| generation bits, live, soil_root, dirty, sealed flags | `generation`, `live`, `soil_root`, `on_dirty_list`, `need_write_barrier` |
| what VTABLE_mark of a PMC visits, its metadata included | `refs` |
| registers, namespaces, scheduler, constant tables | `roots` |
| pointers in C locals and machine registers | `stack` |
| a VTABLE function between its body and its barrier | `pending` |
| Hash.clone while it fills the new hash | `filling` |
| `gc_mark_runs` | the same, modulo the period after which the choice of generation repeats |

A collection is the sequence of steps of `gc_gms_mark_and_sweep`: `StartRun`;
for each dirty PMC `CleanDirty` or `AgeDirty`; `TraceRoots`; `ProcessDirtyList`;
`ScanWork` until the work list is done; `RestoreWorkList`; `Sweep` for each
generation from the oldest; `SweepNursery`. Nothing of the program runs in
between. `Confess` is the failure of an assertion, after which nothing runs.

Abstractions, and why they do not hide what is checked:

- a run may start in any state of the program, instead of at the allocation
  that crosses a threshold: every real schedule of runs is among them;
- the program is any program that reaches headers through what it holds, keeps
  a receiver and the value it passes until the call is over, and stores through
  VTABLE functions (barrier after the body) or as Hash.clone does. What C code
  does with a header that has been freed is undefined behaviour in C: the model
  stops at it (`Load`), and the properties say it is not reached;
- the scan of the C stack finds every pointer there. The code can also take
  other words for pointers, which keeps more alive; `stack` may hold any header,
  so this is covered;
- VTABLE_destroy and the storage of attributes and strings are left out, and
  with them `gc_gms_compact_memory_pool`; so is `gc_gms_validate_objects`,
  which does nothing but confess, in debug builds; its test is `ReachableAllocated`.

### Scheduler and the code

| code | model |
| --- | --- |
| `task_queue`, `alarms`, `all_tasks` | the same names; an alarm is a task and a time |
| `SCHEDULER_wake_requested`, `_resched_requested`, `enable_preemption` | the same names |
| `TASK_in_preempt`, `TASK_recv_block`, `killed`, `mailbox`, `waiters` | sets of tasks; the number of messages; the list of waiters |
| the continuation of a stopped task | `at_receive` for one that repeats its receive op, nothing for others: they go on after the op |
| `Parrot_cx_outer_runloop` | `phase`: between tasks, in a task, back from one, about to pause, in pause(), woken |
| `current_runloop_level` | `runloop_level` |
| `quantum_done`, `alarm_set_to` and the kernel's timer | times relative to now; overdue ones are not told apart beyond what a comparison needs |
| `alarm_serial # last_alarm` | `timer.fired` |

Time is counted in ticks of 0.0001 seconds, by which `Parrot_alarm_set` is late
on purpose. `Tick` can come between any two steps and runs the signal handler
when the timer has run out. Branch ops look at the flags, as in
`Parrot_cx_check_scheduler`; all other ops do what their code does in one step,
since the interpreter is one thread and the handler only counts.

The constant `Habits` says what the program does. Two habits are left out of
the passing runs because the code does not support them: a wait for a task that
is already done (`late wait`, the violation run below), and a task that kills
itself and goes on (`kill self`): `Task.invoke` takes it for done when it next
stops, while the queue or an alarm still holds it. `SignalInWindow` says whether
SIGALRM may come between the last test of the outer runloop and `pause()`.

Left out: exception handlers and SchedulerMessages, freezing and thawing of
tasks, and Windows, where the code is a list of TODOs. A program schedules each
Task at most once, as the tests in `parrot/t/pmc/task*.t` do. `check_alarms`
reads the clock once, and is one step here.

### Exceptions and the code

| code | model |
| --- | --- |
| contexts, their callers and handlers | `contexts` in the order of the calls; `ctx` is the current one |
| `runops`, `run_leave_phasers`, `Parrot_ext_try` on the C stack | `c_stack`; the frame of a runloop has the id of its jump point, the others whether they are inside their `setjmp` |
| `current_runloop` and its `prev` | `runloops`, the ids, outermost first |
| `runloop_id` of an ExceptionHandler, its jump buffer if it is a C handler | `runloop_id`, `frame` |
| `handled`, `handlers_left`, the context pointer and `handler` of an Exception | `handled`, `handlers_left`, `context`, `handler` (the runloop id of the handler, all that finalize reads) |
| `resume` | the context the continuation leads to, 0 for exceptions from C |

`Found` is the search of `Parrot_cx_find_handler_local`, `Deliver` both throws:
it runs a handler of Parrot code in the innermost runloop (`RunHandler`) or jumps
to C code (`CatchInC`), which then cleans up as `run_leave_phasers` and
`Parrot_ext_try` do. `had`, `before`, `origin`, `pushed` and the fields of a context
but its caller and its handlers are ghosts, written for the properties and to
say what a well-behaved program does.

Types of exceptions are two, errors and warnings; a handler takes errors or
both. C code that runs phasers is entered with the current context as that of
the block that is left; the phasers of several blocks are those of one, tried in
turn. Warnings are not rethrown. A continuation is taken only from an exception
that is being handled and was not rethrown. Left out: an exception that is
thrown while a handler is searched (`already_doing`), handlers and exceptions of
other classes, backtraces, and `pop_upto_eh` of a handler that is not there (events.c:112),
which pops all and throws: pops and a throw are actions of their own. `TaskSwitch` is the end of a time slice in the
outermost runloop, after which ids are counted from 1 again.

`Habits` names what programs may do beyond what the code supports. The run has
none; with each of them alone, and seven events instead of five, TLC finds a property
violated, and what happens is this:

- `"C throws past C"`: C code called in a context below throws to a handler of
  `run_leave_phasers`. A throw from C does not go back to the context of a C
  handler; the handler is then deleted from the wrong context, which has none,
  and that error is thrown to the same `setjmp`, for ever;
- `"runloop in ext_try"`: `Parrot_ext_try` frees no runloops. If the function it
  calls has run Parrot code that throws, the chain keeps a runloop whose C function is gone;
- `"handler in handler"`: a handler that is pushed before the handler it is in is
  finalized gets the id of the inner runloop; finalizing it later finds no such
  runloop ("missing runloop");
- `"rethrow past C"`: a handler's rethrow goes on behind itself, past the handlers
  of C functions that have been entered since; finalize then unwinds these C
  functions and leaves their handlers in their contexts;
- `"throw again"`: nothing resets `handled` after a rethrow, so that a later throw of
  the same exception starts its search at the old place. Nor may an exception be
  thrown again that `run_leave_phasers` keeps to rethrow it: the rethrow starts where the
  last search ended, in a context that is gone by then, whose handlers name runloops that
  have ended. It takes a dozen events, so that the run is too short to show it.

The PIR that NQP and Rakudo generate keeps to the rest: handlers finalize before
they leave, and blocks pop what they push.

### The smaller components and the code

- `Hash`: a table is its slab, index and free list as in `hash.c`; `used_freed` is set
  when `Parrot_hash_update` on an emptied hash has kept free buckets of a slab that
  was freed (hash.c:1509), after which C promises nothing. Keys are told apart
  by their hash values only where the code does so. Conversions of keys and values are left out.
- `IoBuffer`: one record for handle, buffer and operating system, since its
  functions call each other; `operation` is what was called last, with its arguments.
  Encodings have one byte per character; the system answers reads in full.
  `File` says what each operation does with these arguments: which bytes it
  returns, what becomes of the file, of the position that is told (`pos`) and of the
  place where the next byte is taken or put (`at`). It knows of the buffer only how
  many bytes are held (`ahead`), and says where that shows: a flush or a close of a handle
  that was reading goes on behind what was read ahead, for the code does not
  seek back (buffer.c:212); a handle that is opened again starts at the front and tells the
  position of before, for nothing resets `file_pos` but `init` (api.c:229); the distance of
  the two positions that these leave is kept by reads, by writes that find nothing read
  ahead, and by seeks within the block, and gone after a seek that leaves it; a write that drops
  read-ahead goes to the position that is told; and peek gives any byte if a block
  is held of which no byte is left (run `io_peek`).
- `StringGc`: storages in words; the reference counts that string headers share are
  the header sets themselves. A collection runs inside an allocation, as in the code.
- `Qrpa`: slots, start and number of elements, `memmove` included; `call` is the operation
  called last, with its arguments, and `Array` what it does to a sequence of items with
  these arguments. An array that was made longer shows whatever its slots hold; `Array` leaves
  open what these items are, and nothing else.
- `MultiDispatch`: `Groups` is the topological sort, `Dispatch` the choice, the caches
  are lists of type ids with results. Dispatchers share lists and caches by name,
  as references do; `aliased` says that a list has been extended that a clone uses
  as well, whose cache the code does not reset. Slurpy and optional parameters are left out,
  and with them calls of more arguments than `MD_CACHE_MAX_ARITY`, which the code does not check for.
- `LazyList`: an iterator keeps what its reification gave; lists share iterators by
  number; the gather block takes one value after another. Reification reifies other
  iterators in its loop: `Pull(n)` is that loop with at most n rounds, nested ones
  included, and `Gimme` repeats at most `Rounds` times. Rounds end since each takes a
  value or goes past an iterator; TLC, told to fail where a loop was cut short, found
  none in the instance of `components` nor in the larger one with 4 values and 3 lists, as far as that was explored.
- `Panda`: `frames` are the calls of `resolve-helper`, `statefile` is what the file holds
  when the process is killed between two lines. A failing stage unwinds all calls. A
  file that cannot be copied is no such failure: `IO.copy` catches the error and returns a
  Failure (IO.pm:213), which `install` drops, so that the project is recorded without
  it (`Onward`); only mkpath and chmod throw. Installing empties each file and writes it
  again, also of a project that is recorded already (`PdOpenFile`, `PdInstallFile`).
  `whole` are the files that are there in full; `spoilt` is a ghost, the projects of which a
  copy failed, or that had all files and are written over, until they are recorded with
  all files again. `PandaRecordedComplete` says that nothing else makes a recorded project
  incomplete: no stage that failed, no failure in a dependency, no kill before the record.
  The files are those that the build left in blib, bin and doc.
  `MaxDepth` stands for the memory that a cycle of dependencies exhausts.
- `BuildOrder`: the depth first search over uses, one use at a time.

## Runs

All runs finish within four minutes on two workers, `components` being the longest.

| run | instance | shows |
| --- | --- | --- |
| `gms_safety` | 2 PMCs with up to 2 children, 1 string, 3 generations | type invariant, assertions of the collector, old-to-young invariant, completeness of marking, nothing reachable freed, the inductive invariant `HeapInv`, no failing assertion, refinement to `Heap` |
| `gms_asserts` | 3 PMCs (one a temporary, one a clone target), 4 generations, blocking | `ArraysInv`: arrays and flags agree whatever the program does |
| `gms_liveness` | 2 PMCs with one child each, 1 string, 3 generations | garbage is reclaimed: chains, circles, and what died dirty with something younger below it |
| `gms_dead_object` | 3 PMCs, 4 generations | violation: a PMC that is pointed to is freed |
| `sched_safety` | 3 tasks; sleep, mail, wait | types, order of alarms, a task is in one place, the timer serves time slices and alarms |
| `sched_nested` | 3 tasks; pass, mail; runloops nested twice | active tasks are somewhere, no message is missed |
| `sched_threads` | 3 tasks; mail, wait, kill | refinement to `GreenThreads` |
| `sched_live` | 3 tasks; pass, sleep, wait | sleeps end, ready tasks run |
| `sched_window` | 3 tasks; sleep | violation: the outer runloop pauses with no timer set |
| `sched_late_wait` | 3 tasks; wait | violation: waiting for a task that is done |
| `components` | see below | the invariants and refinements of the nine smaller models |
| `io_peek` | a file of 3 bytes, a buffer of 3 | violation: peek returns a byte that was read before |

Bounds. The interesting structure in a heap is a chain of three: an object, the
dirty object it refers to, and a young one; two PMCs and a string, or three
PMCs, have it, and two children per PMC give shared children. The number of
generations is not a bound but a parameter: 4 in the code. `RunBase` is 10 in
the code; 2 keeps the period at 8 runs and has every order of two successive
depths that 10 has, a collection of generation k being followed by less deep
ones and, sooner, by another one. The C stack holds two headers, as many as a
store needs, in `gms_liveness` too, so that PMCs come to refer to each other and to
strings, and PMCs die that were dirty for the sake of something younger (`AgeDirty`). For the scheduler three tasks are needed for a task that waits
behind another, and one to make the difference between "all waiters" and "one
waiter". `Quantum` is one tick where the code has 200; what matters is the
order of the end of a time slice and of the alarms, and sleeps of 0 and 1 ticks
end before, with and after it. `MaxReady` only limits where runloops are nested.

`components` is a sum: `subject` chooses one of the nine models, which takes all
the steps of the behaviour while the others stay in their initial states. They
share no state in the code either. An invariant of one model is checked over all
its behaviours, and holds of the others because it holds initially; likewise
their refinements, by stuttering. States are told apart by the view `Deciding`,
without the last call on an array or a handle and its result, on which no later step
depends; every step that is found is checked, with its call and its result. What it leaves out is a
call that is repeated with the same result and changes nothing, from a state that was
reached in another way as well; the proofs of the two refinements have no such gap. Its bounds:

- hash: five keys, of which four collide in the smallest table, in pairs in the next,
  and none in one of eight buckets (`MaxSlab`), so that there are two expansions
  and chains that are split both ways;
- io: a buffer of two bytes, reads of up to two and writes of up to three, lines,
  files of up to three bytes in four modes: there are reads and writes within, at
  the end of, and beyond the buffer;
- arrays: up to three elements; the growth policy is scaled from 8 / 8192 / 4096 to
  2 / 4 / 2, so that all its branches are met; spliced arrays of 0, 1 and 3 items
  in place of up to four, from the front, in the middle, at and behind the end;
- dispatch: three candidates of three parameters over four types with multiple
  inheritance; two routines; a cache of one entry, so that it is full at once;
- strings: three headers, two blocks and storages of two sizes, with which blocks
  are sparse, full, shared and compacted;
- panda: five projects with a diamond, a cycle and an unknown dependency, three
  requests, two starts, files copied in two steps;
- order: every relation of use over three modules, and one with a module elsewhere;
- lists: three values, two lists, up to two values asked for at once;
- exceptions: four C frames, two exceptions, and five events, that is calls,
  exceptions, handlers pushed and popped: enough for a runloop inside phasers
  inside a runloop, or for two handlers and an exception that is rethrown after a change.

Deadlock is checked everywhere but in `components`, where panda, the sort, a process
that an exception has ended and anything at its bound may stop, and in
`gms_asserts`, in which the program can
end up holding a blocked collector and a failed assertion, after which there is
no step.

Fairness. `GcGms!FairSpec` asks for weak fairness of `Collector`: a program
that goes on allocating crosses the threshold of `gc_gms_maybe_mark_and_sweep`
again and again, and a run that has begun ends, since nothing else executes.
It is not assumed that the program lets go of anything: garbage is what is
unreachable whatever the program does. `Scheduler!FairSpec` asks for weak
fairness of `Tick` (time passes), of `OuterRunloop` (the thread goes on), and
for each task of its branch ops (loops contain branches; a task without one is
not preempted by design) and of a receive op it has reached. Nothing is assumed
of returning, sending or any other choice of the program. `components` asks for
weak fairness of `PdStep`, the steps of a panda that runs: the process goes on
until it ends or is killed; nothing is assumed of kills and starts. Panda computes
without waiting for anything but the tools it calls, which are assumed to end.

### What the violations show

- `gms_dead_object`: the clean-up of the dirty list decides on one PMC at a time
  with the generations reached so far. Let A be dirty in generation 2 and point
  to B, dirty in generation 1, which points to a young C. If B is visited first,
  it ages to 2; A has no younger child any more, is cleaned, and is promoted to 3
  by a collection of generation 2 while B stays in 2. This is the situation the
  comment at gc_gms.c:945 sets out to avoid. With three generations it cannot
  arise, because a dirty PMC that survives a clean-up is already in the oldest
  one; that is what `DirtyAged` says and where the proof needs it.
- `sched_window`: `pause()` is called with SIGALRM unblocked after the tests.
- `sched_late_wait`: `wait` does not look whether the task is done.
- `io_peek`: `Parrot_io_read_buffer` refills the buffer and then compares the position
  with the end the buffer had before (buffer.c:353). A read that empties what it
  has just refilled leaves the buffer marked as holding bytes, and peek returns
  the one behind the end.

Some more places where the code does less than its comments or names say, which
the passing runs leave out by a constant or a condition of the property:

- collector: Hash.clone can lose a value when three collections happen while it
  runs (`CloneTarget`; `FillingYoung` in `GcGmsInv`); freeing a temporary PMC that a
  collection has made dirty fails the assertion at gc_gms.c:1435 (`Temporary`;
  action `FreeDirtyTemporary`); `Parrot_block_GC_sweep` has no effect;
- green threads: in a nested runloop a request for a task switch is dropped
  (scheduler.c:271) and pass, sleep, wait and receive do not stop the task, and
  an alarm set for exactly now turns off the timer (`MaxLevel`); a task killed
  while blocked in receive never ends;
- exceptions: the `Habits` above;
- hash: `used_freed`; dispatch: `aliased`; buffers: the exceptions of `File`; arrays:
  what reused slots show;
- panda: a kill while the state file is written loses states;
  files may have been copied for projects that are not recorded; a file that could not be
  copied is not missed; what is installed is written over in place when it is installed
  again.

## What is proved

`tlapm Gc_proofs.tla` checks what is proved about memory. Of the collector, for all `Pmc`, `Str`, `Temporary`, `CloneTarget` and all bounds:

- `ArraysInvariant`: `Spec => []ArraysInv`. The assertions of the collector
  (`CheckSanity`) are not inductive: that the work list can be put back into the
  arrays needs to know that it holds exactly the marked PMCs (`LivePlaced`), that
  they are clean and of the generations collected (`MarkedClean`), where the
  headers still to be visited are (`TodoPlaced`), and that what the program holds
  is marked when the sweep comes (`HeldMarked`), so that nothing held is freed.
  `TypeCorrect` and `SanityAlways` follow.

That nothing reachable is freed is not true of the code with its four generations
(run `gms_dead_object`), nor of Hash.clone. What is proved is that two situations are
the only ways to it, for two to four generations and any clone targets, in every
behaviour in which neither comes about (`[]Untroubled`):

- `NoneOvertakes` excludes a PMC that has been marked and is about to be promoted while it
  refers to a dirty PMC of its own age, which stays behind;
- `FillingYoung` excludes a clone target that is still being filled when it is old and off the
  dirty list.

The theorems of this kind are:

- `HeapInvariant`: `Spec /\ []Untroubled => []HeapInv`. The old-to-young invariant holds
  between collections only; during one it is carried by `DirtyAged` and `NoYoungerChild`
  through the clean-up, by `Tricolour` (no scanned PMC has an unmarked child)
  through the marking, and by `NoYoungerSurvivor` through the sweep, which speaks
  of the generation in which each survivor will end up (`Settling`). `NoneOvertakes` is needed
  in one step, from marking to sweep (`RestoreWorkListHeap`), and `FillingYoung` in another, the
  store without a barrier (`FillCloneHeap`).
  `OldToYoungAlways` and `ReachableAllocatedAlways` follow.
- `MarkCompleteAlways`: from `Tricolour`, by the definition of reachability as
  the least closed set: the marked and spared objects are closed.
- `NeverConfessesUntroubled`, if besides no collection comes while the owner of a temporary
  PMC still uses it (`TemporaryBrief`); then temporary PMCs are young and clean
  when they are freed.
- `CollectorImplementsHeap`: `Spec /\ []Untroubled => AbstractHeap!Spec`. Each step of the
  program maps to one of the heap, the sweep of a generation to `Reclaim`, everything else
  to a stutter. `FreeEmpty` (free headers refer to nothing) is needed for `New`.

That a program without clone targets is untroubled with up to three generations is proved as
well (`UntroubledUpToThree`), by `DirtyAged`: what survives the clean-up is of the oldest
generation already. This is what makes the runs with three generations pass without
the condition; it does not carry over to the code's four.

`tlapm Scheduler_proofs.tla` proves about the scheduler, for all tasks, durations,
habits and any nesting of runloops:

- `NoMessageMissedAlways`: `NoMessageMissed` is inductive once mailboxes hold
  numbers (`MailInv`); receive looks and blocks in one op, and send clears the flag.
- `AlarmsOrderedAlways`: the alarms are a sequence ordered by time (`AlarmsInv`). The
  indices that `Insert` and `Later` count form an initial segment of the list, so
  that their number is a position in it (`InitialSegment`); time passes for all
  alarms alike, and those that are overdue are equally so.

Of the timer:

- `SchedulerTypeCorrect`, in four parts that are inductive one after the other:
  the lists (`ListsInv`), the flags, the phases (a runloop is entered exactly in a
  task), and the times (`TimeType`: nothing is set further ahead than the longest
  time slice or sleep).
- With `MaxLevel = 1`: `PreemptionArmedAlways`, and, with no signal just before
  `pause()`, `AlarmArmedAlways` and `PauseEndsWithoutSignals`. The invariant is
  `TimerInv`: the kernel's timer is the one the program remembers (`Synced`); a
  running task with others behind it has its slice's end noticed or armed
  (`SliceArmed`); the first alarm is covered by the timer or about to be looked at
  (`WaitArmed`). Both assumptions are needed: in a nested runloop an alarm for
  exactly now disarms the timer, and the signal in the window is the violation
  run `sched_window`.

Of the places of tasks, for programs that are `Plain` (no nested runloops, no task
that kills itself or waits for a finished one):

- `OnePlaceAlways`, `ActivePlacedAlways` from `PlaceInv`: the queue, the alarms, the
  blocked, the running task and the waiters of tasks that are not done are apart
  from each other and hold every active task (`Places`); no list names a task twice
  (`Single`); the running task is neither killed nor stopped (`Free`).
- `ThreadsImplementedAlways`: `Spec => ThreadsImplemented`. The status of a task is
  its place (`StatusIs`), so that each step is that of one task or of none.

The other proof modules, each for all values of its constants:

- `MultiDispatch_proofs`: `MdCacheFreshAlways` from `MdInv`: types; dispatchers that share
  a cache have equal lists as long as nothing is `aliased` (`SharedAlike`); a cache
  that nobody uses is empty (`UnusedEmpty`), so that adding a candidate starts from
  nothing. The id of an argument determines what the choice depends on, since type
  numbers leave the low bits alone. `MdAnswerRightAlways`: the loop that takes the
  candidates of one group at a time ends with each of them in a group (`GroupsIs`),
  groups are in the order of narrowness and within a group nobody is narrower
  (`GroupsAreInOrder`), so the applicable candidates of the first group that has any
  have none narrower among the applicable ones (`DispatchRight`). The converse does not hold, of
  the code either: an applicable candidate stands in a later group if all that are
  narrower do not apply, so that one of two such candidates can be chosen without an
  ambiguity.
- `IoBuffer_proofs`: `IoEofAtEndAlways` and `IoRefines`, both from `IoInv`: what a buffer has
  read ahead are the bytes of the file just before the offset of the system; what
  it has yet to write goes behind what was given out; eof is said only at the end
  of the file. There are lemmas on parts of a file and on writing over it
  (`SliceJoin`, `OverlayTwice`), one on each function of the buffer, and one on each
  operation, as the operation of `File` with the same arguments. A scan for a line ends since fewer
  bytes are left with each round (`OnwardNearer`), so that `LineAnswer` is defined
  (`LinesExist`) and takes a line (`LineAnswerTakes`).
- `Gc_proofs`, on strings: `SgStoragesApartAlways`, `SgCountsCoverAlways` and `SgSharingKeptAlways`
  from `SgInv`: storages lie within what their block has given out, are the same or
  apart, and a block's count of freed words is at most what no live storage
  covers. Compaction moves the storages of one block after the other (`MovedIs`); the
  sum of the sizes of what lives bounds what it fills (`TotalSuffices`).
- `Exceptions_proofs`, for programs without the `Habits`: `JumpTargetsLiveAlways` and
  `CodeAtHomeAlways`, from `ExInv`. The chain of runloops is the one on the C stack (`Chain`),
  and a C function that is in its `setjmp` has its handler in its context, the others have
  none (`FramesRight`). That is not inductive: control comes back to states of long ago, by
  a return, a continuation, the end of C code, or a throw that unwinds, and must find them
  fit. So `ExInv` says that there is a set of points to which control can come back, of
  which one is where it is. Each point has a context, the depth of the C stack, the
  exceptions that callers are handling, and a bound on the contexts that existed when the
  point was left (its time); each is right for the stack (`Placed`), and each way back
  from it leads to a point of the set that is no later (`Returns`, `Resumes`, `Leaves`,
  `Catches`, `Unwinds`). There is a lemma per action, which says what points it adds and
  that those it takes away are no longer needed, and one for a throw (`DeliverKeeps`).

  `HandlersInOrderAlways` has an invariant of its own, `OrdInv`, on top of that. A context
  numbers its handlers as they are pushed, and pushes and pops keep them sorted
  (`Numbered`). What an exception has noted fits the lists (`HadRight`): the handlers that
  had it belong to the sub where it was caught last and to those that this one has called
  since; in that sub, the place that is counted from the end of the list divides the
  handlers that the search has passed from those that have not had it yet; in the subs inside,
  everything that takes it has had it. That a handler pushed later may not spoil this is
  because control does not come back to a sub that the throw has left, before the exception
  is resumed. Again this is a matter of what control can come back to, and there is a
  set for each exception, and one for exceptions that are yet to be thrown (`Guided`): its spots are
  closed under returns, unwinding, and resumption of the other exceptions (`Closed`), and none
  of them is inside what the throw has left (`Avoids`). The C stack does not matter here. An
  exception that phasers keep was caught, and one that ended the process was offered to all
  (`Exhausted`). The search itself is in two lemmas, on what is found (`CaughtHad`) and
  on nothing being found (`NoneAble`).
- `Panda_proofs`: `PandaRecordedCompleteAlways` from `PdInv`: calls are nested
  (`CallsNested`), a dependency of a call is complete or still on its list
  (`DependenciesDue`), the records are complete (`RecordedComplete`).
  `PandaKeepsRequestedAlways` from `OnlyForOthers`: what is resolved for the sake of
  others was not recorded as requested. `BuildOrderSortedAlways` from `BoInv`: a visited
  module is in the open visits or in the order, once (`PlacedOnce`); what it uses is
  visited or still to be looked at (`LookedAtVisited`); an open visit reaches those above
  it (`CallsReach`).
- `Containers_proofs`, on arrays: `QrpaWithinSlotsAlways` and `QrpaIsArray`, the refinement.
  Each operation is one of three on slots, and there is a lemma on what each does to the
  elements: `ResizeRight`, `SlideRight`, `ReplaceRight`.
- `Containers_proofs`, on hash tables: `HashFindsStoredAlways` and `HashBucketsAccountedAlways` from
  `HashInv`, which speaks of a hash that has used no bucket of a freed slab: each chain names
  exactly the buckets with a key of its hash value (`ChainsRight`), the free list the others
  (`FreeRight`), no two buckets have the same key (`KeysApart`), and `entries` counts those that
  have one (`Counted`); the keys and values are the ones that were stored (`Agrees`). A
  bucket of a freed slab that got into a chain stays in one (`Tainted`), so that it is
  noticed. When the table doubles, a bucket stays or moves up by the old size, depending on
  the next bit of its hash value (`NextBit`); a clone and an update go through buckets and
  pairs by induction (`CloneIs`, `PutAllIs`).

- `Containers_proofs`, on lazy lists: `LazyListsCompleteAlways` and `LazyNoFurtherAlways` from
  `LlInv`: there are a place for each iterator (how many values of the source come
  before what it gives) and an owner (the list it was made for, none for gather blocks) such that
  the objects are `Consistent`. What an iterator was reified to is a run of values
  from its place on, and behind it either the end of the source or a later iterator of the
  same owner that stands there; what it has yet to reify ends likewise, but in an iterator
  of an earlier owner; each list goes on with one iterator not yet reified, of its own,
  which stands where its elements end; and one gather block is not yet run, standing where the
  coroutine is. A reification may reify others on its way, but these belong to earlier
  lists, so that it finds its own list as it left it (`Carried`); that is shown for any number
  of rounds (`RoundRight`, `PullRight`). What is asked of an inner iterator stays within what
  is asked of the outer one (`Wants`), which bounds the coroutine. That a list, followed through its
  iterators, comes to an end is by `Rank`.

Several of these need induction: over numbers, over the subsets of a finite set, or
over what a loop has still to do. `Induction_proofs` has it for sets of
numbers and of subsets, from the fact that a set of numbers that is not empty has a least
element; the library's theorems about operators cannot be instantiated by the provers. It also
proves what sums over finite sets are, which the proofs of `StringGc` need.

Only model-checked:

- `GarbageReclaimed`, the liveness of the scheduler and `PandaEnds`: liveness under fairness
  is out of the prover's reach.
- That `Rounds` cuts no loop of `LazyList` short: explored as said there; the theorems hold
  whether it does or not.

## Plan

Done: the collector with its proofs; the scheduler with its proofs; panda; file
buffers; arrays and dispatch; string storage; hash tables; lazy lists; exceptions.

Next, in this order:

1. Ownership and repossession in `nqp/src/6model/serialization_context.c`, together
   with `serialization.c`, which blocks marking while it works: an exception in
   between (serialization.c:1792) leaves it blocked, which would join `Exceptions`
   and `GcGms`.
2. Parrot's own multiple dispatch and C3, as operators.

## Not modelled

- The compilers (IMCC, NQP, QAST, Rakudo) and meta-objects: their correctness is a
  question of the language, and they keep no state between steps that others see.
- Formats and conversions without state between calls: packfiles, strings,
  encodings, formatting, marshalling of arguments, the layout of representations.
- Generated and vendored code: `core_ops.c` repeats `ops/*.ops` (which the map names
  where they are modelled), the lexer and parser of IMCC, `extra_thunks.c`, and
  `gc/malloc.c`, Doug Lea's allocator, which no default build uses.
- The other collectors, which this release does not use; fixed-size pools, which
  are free lists without another actor.
- Debugger, profilers, platform code, native calls, bundled modules, build scripts.

These are by far the larger part of the repository: the lines that the map names
are the ones with state, and their share of the whole stays small for that reason.

Three hazards are outside of what is modelled, and no property is about them.
`Parrot_block_GC_sweep` promises what this collector does not look at. An exception while
a module is deserialized leaves marking blocked: `GcGms` has the blocking, `Exceptions`
the throw, and nothing joins them yet. The loop of File.copy ends only at the end of the
file (file.pmc:159), so that an error in reading keeps it going for ever; `PandaEnds`
assumes that calls to the system and to the tools end.
