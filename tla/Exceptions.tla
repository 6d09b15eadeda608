------------------------------ MODULE Exceptions ------------------------------
(***************************************************************************)
(* Exceptions of Parrot across nested runloops: the contexts of calls with *)
(* their handlers, the C stack with its frames of runops and of C code     *)
(* that catches, the jump points of the interpreter, throw, rethrow,       *)
(* resume and finalize (parrot/src/exceptions.c, events.c, call/ops.c,     *)
(* ops/core.ops; rakudo/src/ops/perl6.ops).                                *)
(***************************************************************************)
EXTENDS Integers, Sequences, SequencesExt

CONSTANTS
  Habits,          \* what programs do: see README.md
  MaxFrames,       \* bound: the depth of the C stack
  MaxExceptions,   \* bound: the exceptions of a behaviour
  MaxEvents        \* bound: calls, exceptions, handlers pushed and popped, in a behaviour

VARIABLES
  contexts,               \* the contexts, in the order of the calls
  ctx,                    \* the current one
  exceptions,             \* the Exception PMCs
  c_stack,                \* the C functions that run, the innermost last
  runloops,               \* current_runloop and its chain of prev: the ids
  current_runloop_id,
  current_runloop_level,
  runloop_id_counter,
  ended                   \* 0; the exception that ended the process; -1: it hangs

exVars == <<contexts, ctx, exceptions, c_stack, runloops, current_runloop_id,
            current_runloop_level, runloop_id_counter, ended>>
runloopVars == <<runloops, current_runloop_id, current_runloop_level, runloop_id_counter>>

Types == {"error", "warning"}

Innermost(kind) == ended = 0 /\ c_stack # <<>> /\ Last(c_stack).kind = kind
InOp == Innermost("runops")

MayGoOn ==
  Len(contexts) + Len(exceptions) + FoldSeq(LAMBDA c, n : 2 * c.pushed - Len(c.handlers) + n, 0, contexts) <= MaxEvents

(* A context.  "runloop" (ghost) is the one that runs its code, "entry" says
   that C called it, "handling" that a handler of it is not finalized. *)
Context(caller, id, entry) ==
  [caller |-> caller, runloop |-> id, entry |-> entry, handlers |-> <<>>, pushed |-> 0,
   exception |-> 0, handling |-> FALSE]

Handlers(c) == contexts[c].handlers
Handler(c, takes, frame) ==
  [n |-> contexts[c].pushed + 1, takes |-> takes, runloop_id |-> current_runloop_id, frame |-> frame]

(* A context and all that called it. *)
Callers(c) ==
  LET up[d \in 0 .. Len(contexts)] == IF d = 0 THEN {} ELSE {d} \cup up[contexts[d].caller]
  IN  up[c]

Push(h) == contexts' = [contexts EXCEPT ![ctx].handlers = <<h>> \o @, ![ctx].pushed = @ + 1]
-----------------------------------------------------------------------------
(* Runloops: the chain cut at its head, or back to the one with an id. *)
SetRunloops(ids) ==
  /\ runloops' = ids
  /\ current_runloop_id' = IF ids = <<>> THEN 0 ELSE Last(ids)
  /\ current_runloop_level' = current_runloop_level + Len(ids) - Len(runloops)

FreeRunloopsUntil(id) ==
  IF id \in ToSet(runloops) THEN SubSeq(runloops, 1, SelectLastInSeq(runloops, LAMBDA r : r = id)) ELSE <<>>

(* longjmp to the frame of a runloop. *)
JumpTo(id) == SubSeq(c_stack, 1, SelectLastInSeq(c_stack, LAMBDA f : f.kind = "runops" /\ f.id = id))

(* Parrot_cx_find_handler_local: from the newest handler of the context, or
   from behind the one that had the exception, to the oldest; then the callers. *)
CanHandle(h, e) == e.type \in h.takes
Places(start) == UNION {{c} \X DOMAIN Handlers(c) : c \in Callers(start)}

(* Variant: the number of handlers up to the one that had it. *)
FoundAgain(e) ==
  LET start == IF e.handled = -1 THEN e.context ELSE ctx
      pos   == IF e.handled = -1 THEN Len(Handlers(start)) - e.handlers_left - 1 ELSE 0
      has(c, i) == CanHandle(Handlers(c)[i], e) /\ (c = start => i > pos)
      all   == {p \in Places(start) : has(p[1], p[2])}
  IN  {p \in all : \A q \in all : q[1] < p[1] \/ (q[1] = p[1] /\ q[2] >= p[2])}

Found(e) ==
  LET start == IF e.handled = -1 THEN e.context ELSE ctx
      left  == Len(Handlers(start)) - e.handlers_left
      pos   == IF e.handled = -1 /\ left > 0 THEN left ELSE 0
      has(c, i) == CanHandle(Handlers(c)[i], e) /\ (c = start => i > pos)
      all   == {p \in Places(start) : has(p[1], p[2])}
  IN  {p \in all : \A q \in all : q[1] < p[1] \/ (q[1] = p[1] /\ q[2] >= p[2])}

(* What the search stores in the exception for a rethrow; "had" (ghost) lists
   the handlers that had it. *)
Caught(e, c, i) ==
  [e EXCEPT !.context = c, !.handlers_left = Len(Handlers(c)) - i, !.handler = Handlers(c)[i].runloop_id,
            !.had = Append(@, <<c, Handlers(c)[i].n>>), !.before = <<contexts[c].exception, contexts[c].handling>>]

(* The handler runs in the innermost runloop, which a throw from C is left for. *)
RunHandler(x, c, op) ==
  /\ contexts' = [contexts EXCEPT ![c].exception = x, ![c].handling = TRUE]
  /\ ctx' = c
  /\ c_stack' = IF op THEN c_stack ELSE JumpTo(current_runloop_id)
  /\ UNCHANGED <<runloopVars, ended>>

(* Variant: the runloops are left as they are. *)
CatchInCOnly(x, c, frame, op) ==
  LET f == c_stack[frame]
      at == IF op THEN c ELSE ctx
  IN  /\ contexts' = [contexts EXCEPT ![at].handlers = Tail(@)]
      /\ ctx' = f.ctx
      /\ c_stack' = Append(SubSeq(c_stack, 1, frame - 1), [f EXCEPT !.trying = FALSE, !.caught = Append(@, x)])
      /\ UNCHANGED <<runloopVars, ended>>

(* C code has caught: run_leave_phasers notes the exception, frees the
   runloops that were left, and deletes its handler from the current context,
   which is the one of the handler if VTABLE_invoke has rewound to it;
   Parrot_ext_try restores the context and frees no runloop.  To delete a
   handler where there is none throws to the same place again, without end. *)
CatchInC(x, c, frame, op) ==
  LET f == c_stack[frame]
      at == IF f.kind = "ext" THEN f.ctx ELSE IF op THEN c ELSE ctx
  IN  IF Handlers(at) = <<>>
      THEN ended' = -1 /\ UNCHANGED <<contexts, ctx, c_stack, runloopVars>>
      ELSE /\ contexts' = [contexts EXCEPT ![at].handlers = Tail(@)]
           /\ ctx' = f.ctx
           /\ IF f.kind = "ext"
              THEN c_stack' = SubSeq(c_stack, 1, frame - 1) /\ UNCHANGED runloopVars
              ELSE /\ c_stack' = Append(SubSeq(c_stack, 1, frame - 1),
                                        [f EXCEPT !.trying = FALSE, !.caught = Append(@, x)])
                   /\ SetRunloops(FreeRunloopsUntil(f.runloop_id))
                   /\ UNCHANGED runloop_id_counter
           /\ UNCHANGED ended

(* No handler: a warning thrown by an op goes on behind it, anything else is
   the end (die_from_exception). *)
Unhandled(x, e, op) ==
  /\ IF op /\ e.type = "warning" /\ e.resume # 0
     THEN ctx' = e.resume /\ UNCHANGED ended
     ELSE ended' = x /\ UNCHANGED ctx
  /\ UNCHANGED <<contexts, c_stack, runloopVars>>

(* Parrot_ex_throw_from_op and Parrot_ex_throw_from_c of exception x. *)
Deliver(x, e, op) ==
  LET found == Found(e)
      put(v) == exceptions' = IF x \in DOMAIN exceptions THEN [exceptions EXCEPT ![x] = v] ELSE Append(exceptions, v)
  IN  \/ found = {} /\ put(e) /\ Unhandled(x, e, op)
      \/ \E p \in found :
           LET c == p[1]
               h == Handlers(c)[p[2]]
           IN  /\ put(Caught(e, c, p[2]))
               /\ IF h.frame = 0 THEN RunHandler(x, c, op)
                  ELSE /\ op \/ c = ctx \/ "C throws past C" \in Habits
                       /\ CatchInC(x, c, h.frame, op)

New(type, op) ==
  [type |-> type, handled |-> 0, context |-> 0, handlers_left |-> 0, handler |-> 0,
   resume |-> IF op THEN ctx ELSE 0, origin |-> ctx, had |-> <<>>, before |-> <<0, FALSE>>]

ThrowNew(type, op) ==
  /\ MayGoOn /\ Len(exceptions) < MaxExceptions
  /\ Deliver(Len(exceptions) + 1, New(type, op), op)
-----------------------------------------------------------------------------
ExInit ==
  /\ contexts = <<Context(0, 1, FALSE)>> /\ ctx = 1
  /\ exceptions = <<>> /\ ended = 0
  /\ c_stack = <<[kind |-> "runops", id |-> 1]>>
  /\ runloops = <<1>> /\ current_runloop_id = 1 /\ current_runloop_level = 1
  /\ runloop_id_counter = 1

(* An op calls a sub. *)
CallSub ==
  /\ InOp /\ MayGoOn
  /\ contexts' = Append(contexts, Context(ctx, current_runloop_id, FALSE))
  /\ ctx' = Len(contexts) + 1
  /\ UNCHANGED <<exceptions, c_stack, runloopVars, ended>>

(* C code calls a sub, which is run by a new runloop. *)
CallFromC ==
  LET id == runloop_id_counter + 1 IN
  /\ \/ InOp
     \/ Innermost("phasers") /\ Last(c_stack).trying
     \/ Innermost("ext") /\ "runloop in ext_try" \in Habits
  /\ MayGoOn /\ Len(c_stack) < MaxFrames
  /\ contexts' = Append(contexts, Context(ctx, id, TRUE))
  /\ ctx' = Len(contexts) + 1
  /\ c_stack' = Append(c_stack, [kind |-> "runops", id |-> id])
  /\ runloop_id_counter' = id
  /\ SetRunloops(Append(runloops, id))
  /\ UNCHANGED <<exceptions, ended>>

(* A handler leaves its sub finalized, unless there is nothing to leave. *)
AtHome(c) == contexts[c].handling => contexts[c].runloop = current_runloop_id

(* A sub returns to its caller; if that is C code, the runloop ends. *)
Return ==
  /\ InOp /\ ctx # 1 /\ AtHome(ctx)
  /\ ctx' = contexts[ctx].caller
  /\ IF contexts[ctx].entry
     THEN c_stack' = Front(c_stack) /\ SetRunloops(Front(runloops)) /\ UNCHANGED runloop_id_counter
     ELSE UNCHANGED <<c_stack, runloopVars>>
  /\ UNCHANGED <<contexts, exceptions, ended>>

(* push_eh.  A handler that is not finalized pushes none. *)
PushEh ==
  /\ InOp /\ MayGoOn
  /\ AtHome(ctx) \/ "handler in handler" \in Habits
  /\ \E takes \in {{"error"}, Types} : Push(Handler(ctx, takes, 0))
  /\ UNCHANGED <<ctx, exceptions, c_stack, runloopVars, ended>>

(* pop_eh; without a handler it throws. *)
PopEh ==
  /\ InOp /\ MayGoOn
  /\ \/ /\ Handlers(ctx) # <<>>
        /\ contexts' = [contexts EXCEPT ![ctx].handlers = Tail(@)]
        /\ UNCHANGED <<ctx, exceptions, c_stack, runloopVars, ended>>
     \/ Handlers(ctx) = <<>> /\ ThrowNew("error", FALSE)

(* throw and die; an exception thrown by the C code of an op, or by C code
   that runs phasers or a function under Parrot_ext_try. *)
ThrowAny ==
  \E type \in Types, op \in BOOLEAN :
    /\ op \/ type = "error"
    /\ InOp \/ (~op /\ \E kind \in {"phasers", "ext"} : Innermost(kind) /\ Last(c_stack).trying)
    /\ ThrowNew(type, op)

(* The exceptions that subs of this call chain have caught. *)
Held == {contexts[c].exception : c \in Callers(ctx)} \ {0}

(* rethrow, of the handler or of a sub that it calls. *)
NoCatchInside(c) == \A i \in DOMAIN c_stack : c_stack[i].kind # "runops" => c_stack[i].ctx < c

Rethrow ==
  \E x \in Held :
    /\ InOp /\ exceptions[x].type # "warning" /\ exceptions[x].had # <<>>
    /\ exceptions[x].context \in Callers(ctx) \/ "throw again" \in Habits
    /\ NoCatchInside(exceptions[x].context) \/ "rethrow past C" \in Habits
    /\ Deliver(x, [exceptions[x] EXCEPT !.handled = -1], TRUE)

(* The exceptions that C code keeps while it tries the other phasers. *)
Pending ==
  {x \in DOMAIN exceptions : \E i \in DOMAIN c_stack :
     c_stack[i].kind = "phasers" /\ x \in ToSet(c_stack[i].caught)}

(* throw of an exception that was caught before, and is no longer handled nor
   kept to be rethrown.  Nothing resets its mark as rethrown. *)
ThrowAgain ==
  \E x \in Held :
    /\ InOp
    /\ \/ "throw again" \in Habits
       \/ /\ exceptions[x].handled = 0 /\ x \notin Pending
          /\ \A c \in Callers(ctx) : ~contexts[c].handling
    /\ Deliver(x, [exceptions[x] EXCEPT !.resume = ctx, !.origin = ctx, !.had = <<>>], TRUE)

(* The continuation in the exception takes the program back to the throw. *)
Resume ==
  LET x == contexts[ctx].exception IN
  /\ InOp /\ contexts[ctx].handling
  /\ exceptions[x].handled = 0 /\ exceptions[x].resume # 0
  /\ ctx' = exceptions[x].resume
  /\ contexts' = [contexts EXCEPT ![ctx].exception = exceptions[x].before[1],
                                  ![ctx].handling = exceptions[x].before[2]]
  /\ exceptions' = [exceptions EXCEPT ![x].had = <<>>]
  /\ UNCHANGED <<c_stack, runloopVars, ended>>

(* Variant: the handler goes on in the runloop it was called in. *)
FinalizeHere ==
  /\ InOp /\ contexts[ctx].handling
  /\ contexts' = [contexts EXCEPT ![ctx].handling = FALSE]
  /\ UNCHANGED <<ctx, exceptions, c_stack, runloopVars, ended>>

(* finalize: back to the runloop in which the handler was made. *)
Finalize ==
  LET rid == exceptions[contexts[ctx].exception].handler IN
  /\ InOp /\ contexts[ctx].handling
  /\ IF rid \in ToSet(runloops)
     THEN /\ contexts' = [contexts EXCEPT ![ctx].handling = FALSE]
          /\ c_stack' = JumpTo(rid)
          /\ SetRunloops(FreeRunloopsUntil(rid))
          /\ UNCHANGED <<ctx, exceptions, runloop_id_counter, ended>>
     ELSE ThrowNew("error", FALSE)

(* pop_upto_eh: deletes the handlers above the one that has the exception.
   A program that has popped that one before does not call it. *)
PopUptoEh ==
  LET x == contexts[ctx].exception
      below == SelectInSeq(Handlers(ctx), LAMBDA h : <<ctx, h.n>> = Last(exceptions[x].had))
  IN  /\ InOp /\ contexts[ctx].handling
      /\ below # 0
      /\ contexts' = [contexts EXCEPT ![ctx].handlers = SubSeq(@, below, Len(@))]
      /\ UNCHANGED <<ctx, exceptions, c_stack, runloopVars, ended>>

(* C code that catches: run_leave_phasers tries phaser after phaser, and
   Parrot_ext_try calls one function. *)
BeginCatching ==
  /\ InOp /\ Len(c_stack) < MaxFrames /\ MayGoOn
  /\ \E kind \in {"phasers", "ext"} :
       c_stack' = Append(c_stack, [kind |-> kind, ctx |-> ctx, runloop_id |-> current_runloop_id,
                                   trying |-> TRUE, caught |-> <<>>])
  /\ Push(Handler(ctx, Types, Len(c_stack) + 1))
  /\ UNCHANGED <<ctx, exceptions, runloopVars, ended>>

NextPhaser ==
  /\ Innermost("phasers") /\ ~Last(c_stack).trying /\ MayGoOn
  /\ c_stack' = [c_stack EXCEPT ![Len(c_stack)].trying = TRUE]
  /\ Push(Handler(ctx, Types, Len(c_stack)))
  /\ UNCHANGED <<ctx, exceptions, runloopVars, ended>>

EndTry ==
  /\ Innermost("phasers") \/ Innermost("ext")
  /\ Last(c_stack).trying
  /\ contexts' = [contexts EXCEPT ![ctx].handlers = Tail(@)]
  /\ c_stack' = IF Innermost("ext") THEN Front(c_stack)
                ELSE [c_stack EXCEPT ![Len(c_stack)].trying = FALSE]
  /\ UNCHANGED <<ctx, exceptions, runloopVars, ended>>

(* After the phasers: the first exception is rethrown, from C. *)
EndPhasers ==
  LET f == Last(c_stack) IN
  /\ Innermost("phasers") /\ ~f.trying
  /\ IF f.caught = <<>>
     THEN c_stack' = Front(c_stack) /\ UNCHANGED <<contexts, ctx, exceptions, runloopVars, ended>>
     ELSE Deliver(Head(f.caught), [exceptions[Head(f.caught)] EXCEPT !.handled = -1], FALSE)

(* The scheduler stops the task at its outermost runloop; other tasks run, and
   it goes on in a new one.  The ids are counted from 0 for each. *)
TaskSwitch ==
  /\ InOp /\ current_runloop_level <= 1
  /\ runloop_id_counter' = 1
  /\ c_stack' = Append(Front(c_stack), [kind |-> "runops", id |-> 1])
  /\ SetRunloops(Append(Front(runloops), 1))
  /\ UNCHANGED <<contexts, ctx, exceptions, ended>>

ExNext ==
  \/ CallSub \/ CallFromC \/ Return \/ PushEh \/ PopEh \/ PopUptoEh
  \/ ThrowAny \/ Rethrow \/ ThrowAgain \/ Resume \/ Finalize
  \/ BeginCatching \/ NextPhaser \/ EndTry \/ EndPhasers \/ TaskSwitch

ExSpec == ExInit /\ [][ExNext]_exVars
-----------------------------------------------------------------------------
(* Every jump buffer that may be used belongs to a C function that has not
   returned: the chain of the interpreter has exactly the runloops on the C
   stack, in their order, which is that of their ids; a C handler that a search
   can find is that of a frame which is trying, in its own context; and a
   handler finds its runloop when it is finalized.  longjmp to anything else is undefined behaviour.  What has
   caught finds its handler to delete. *)
JumpTargetsLive ==
  LET loops == {i \in DOMAIN c_stack : c_stack[i].kind = "runops"} IN
  /\ ToSet(runloops) = {c_stack[i].id : i \in loops}
  /\ \A i, j \in loops : i < j => c_stack[i].id < c_stack[j].id
  /\ \A i, j \in DOMAIN runloops : i < j => runloops[i] < runloops[j]
  /\ ended # -1
  /\ current_runloop_level = Len(runloops) /\ current_runloop_id = Last(runloops)
  /\ \A c \in Callers(ctx) : \A h \in ToSet(Handlers(c)) :
       IF h.frame = 0 THEN h.runloop_id \in ToSet(runloops)
       ELSE h.frame \in DOMAIN c_stack /\ c_stack[h.frame].kind # "runops"
              /\ c_stack[h.frame].ctx = c /\ c_stack[h.frame].trying

(* The code of a sub is run by the runloop that its caller has called it in,
   except from the moment a handler of it is invoked until that is finalized:
   otherwise its end returns from the wrong C function. *)
CodeAtHome ==
  InOp => \/ contexts[ctx].handling
          \/ contexts[ctx].runloop = current_runloop_id

(* No handler has an exception twice, however often it is rethrown, and none
   that takes it is passed over: it ends the process only when all have had it.
   A handler that is pushed after the search has passed it does not count. *)
Handling(x) ==
  /\ exceptions[x].had # <<>>
  /\ \E c \in Callers(ctx) : contexts[c].handling /\ contexts[c].exception = x /\ exceptions[x].context = c

HandlersInOrder ==
  \A x \in DOMAIN exceptions :
    LET e == exceptions[x] IN
    /\ IsInjective(e.had)
    /\ Handling(x) \/ ended = x =>
         \A c \in Callers(e.origin) : \A h \in ToSet(Handlers(c)) :
           \/ ~CanHandle(h, e)
           \/ \E g \in ToSet(e.had) : g[1] = c /\ g[2] <= h.n
           \/ Handling(x) /\ c <= e.context /\ (c = e.context => h.n < Last(e.had)[2])
=============================================================================
