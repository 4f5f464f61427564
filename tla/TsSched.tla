------------------------------- MODULE TsSched -------------------------------
(***************************************************************************)
(* The SCHED_TS scheduling class (kernel/sched/ts.c) driven by the core    *)
(* scheduler (kernel/sched/core.c) on the run queue of one CPU.            *)
(*                                                                         *)
(* An action is what one critical section of rq->lock does, or one store   *)
(* outside the lock that others see (->state in set_current_state() and    *)
(* do_task_dead(), the two halves of fork()); a caller may be on another   *)
(* CPU.  The tasks are affine to this CPU, RT bandwidth control is off and *)
(* no task is SCHED_DEADLINE.  The fair class (fair.c) and the idle class  *)
(* are not in the repository: their choices are nondeterministic.          *)
(***************************************************************************)
EXTENDS Integers, Sequences, FiniteSets

CONSTANTS
    Task,        \* the task_structs other than rq->idle
    Idle,        \* rq->idle
    Nice,        \* the nice values that callers ask for
    RtPriority,  \* the sched_priority values that callers ask for
    ResetOnFork, \* the values of SCHED_FLAG_RESET_ON_FORK that callers ask for
    Donor,       \* the ->prio values of tasks that block on an rt_mutex
    SliceUnit,   \* the 4 ticks that ts.c multiplies a slice by
    UINT_MAX     \* largest value of sched_ts_entity.time_slice

ASSUME ConstAssumption ==
    /\ Idle \notin Task
    /\ Nice \subseteq -20..19
    /\ RtPriority \subseteq 1..99
    /\ ResetOnFork \subseteq BOOLEAN
    /\ Donor \subseteq 0..139
    /\ SliceUnit \in Nat \ {0}
    /\ UINT_MAX \in Nat
    /\ 4 * SliceUnit <= UINT_MAX

VARIABLES
    task,  \* the task_struct of every task
    rq     \* the struct rq of the CPU

vars == <<task, rq>>

MAX_RT_PRIO == 100
MAX_PRIO == 140   \* also the prio of rq->idle, and pi_prio when there is no donor
Level == 0..39    \* indices of ts_rq.queue

Policy == {"NORMAL", "FIFO", "TS"}

\* ->state; "DEAD" off the queues is an unused task_struct, "COPIED" one that
\* copy_process() has copied from the parent and nobody else knows yet.
State == {"COPIED", "NEW", "RUNNING", "INTERRUPTIBLE", "DEAD"}

task_struct ==
    [policy : Policy, rt_priority : 0..99, sched_reset_on_fork : BOOLEAN,
     static_prio : MAX_RT_PRIO..MAX_PRIO - 1,
     normal_prio : 0..MAX_PRIO - 1, prio : 0..MAX_PRIO - 1,
     pi_prio : 0..MAX_PRIO,          \* ->prio of ->pi_top_task
     sched_class : {"rt", "ts", "fair"},
     child : Task \cup {Idle},       \* the task being forked; Idle if none
     state : State, on_rq : BOOLEAN, time_slice : 0..UINT_MAX]

\* struct rq: the three queues, rq->nr_running and rq->curr with its
\* TIF_NEED_RESCHED.  cfs.h_nr_running is Cardinality(cfs).
run_queue ==
    [ts : [Level -> Seq(Task)], rt : SUBSET Task, cfs : SUBSET Task,
     nr_running : Int, curr : Task \cup {Idle}, need_resched : BOOLEAN]

-----------------------------------------------------------------------------
(* Priorities. *)

NICE_TO_PRIO(nice) == nice + 120

rt_prio(prio) == prio < MAX_RT_PRIO

normal_prio(t) ==
    IF t.policy = "FIFO" THEN MAX_RT_PRIO - 1 - t.rt_priority ELSE t.static_prio

\* rt_effective_prio(): the better of prio and the donor's.
rt_effective_prio(t, prio) == IF t.pi_prio < prio THEN t.pi_prio ELSE prio

\* effective_prio() keeps a priority boosted into the RT range.
effective_prio(t) == IF rt_prio(t.prio) THEN t.prio ELSE normal_prio(t)

\* Slip: the class follows the policy, a boosted priority is overlooked.
class_of_slip(t) ==
    IF t.policy = "FIFO" THEN "rt" ELSE IF t.policy = "TS" THEN "ts" ELSE "fair"

\* The class that __setscheduler() and sched_fork() give to a task.
class_of(t) ==
    IF rt_prio(t.prio) THEN "rt" ELSE IF t.policy = "TS" THEN "ts" ELSE "fair"

PrioOf(T, p) == IF p = Idle THEN MAX_PRIO ELSE T[p].prio

ClassOf(T, p) == IF p = Idle THEN "idle" ELSE T[p].sched_class

\* The rank of a class in the chain of ->next pointers: rt, ts, fair, idle.
Rank(class) ==
    CASE class = "rt" -> 1 [] class = "ts" -> 2
      [] class = "fair" -> 3 [] class = "idle" -> 4

-----------------------------------------------------------------------------
(* ts.c *)

ts_level(t) == 139 - t.prio

\* The queue a task sleeping in queue i wakes up in.
SleepPrioLUT ==
    [i \in Level |->
        CASE i \in 0..9 -> 30   [] i \in 10..19 -> 31 [] i = 20 -> 32
          [] i = 21 -> 33       [] i = 22 -> 34       [] i = 23 -> 35
          [] i \in 24..25 -> 36 [] i \in 26..27 -> 37 [] i \in 28..29 -> 38
          [] OTHER -> 39]

\* list_del on one of the lists: the list without p.
list_del(list, p) ==
    IF \E i \in DOMAIN list : list[i] = p
    THEN LET k == CHOOSE i \in DOMAIN list : list[i] = p
         IN  [i \in 1..Len(list) - 1 |-> IF i < k THEN list[i] ELSE list[i + 1]]
    ELSE list

\* list_del(&p->ts.list), on whichever list p is.
dequeue_task_ts(ts, p) == [i \in Level |-> list_del(ts[i], p)]

\* list_add_tail(&p->ts.list, &rq->ts.queue[level]).
list_add_tail(ts, level, p) == [ts EXCEPT ![level] = Append(@, p)]

\* Slip: the node is not taken off its old list.
list_move_tail_slip(ts, level, p) == list_add_tail(ts, level, p)

\* Slip: list_move(), to the head of the list.
list_move_slip(ts, level, p) ==
    [dequeue_task_ts(ts, p) EXCEPT ![level] = <<p>> \o @]

list_move_tail(ts, level, p) == list_add_tail(dequeue_task_ts(ts, p), level, p)

\* The task_struct after ->enqueue_task(flags): with ENQUEUE_WAKEUP a TS task
\* comes back at a better priority.  flags is a set of ENQUEUE_ names.
enqueued(t, flags) ==
    IF t.sched_class = "ts" /\ "WAKEUP" \in flags
    THEN [t EXCEPT !.prio = 139 - SleepPrioLUT[ts_level(t)]]
    ELSE t

enqueue_task_ts(ts, p, t, flags) == list_add_tail(ts, ts_level(enqueued(t, flags)), p)

yield_task_ts(ts, p, t) == list_move_tail(ts, ts_level(t), p)

\* Slip: "ts tasks are never preempted".
check_preempt_curr_ts_slip(T, curr, p) == FALSE

check_preempt_curr_ts(T, curr, p) == T[p].prio < T[curr].prio

\* The head of the highest nonempty queue; empty when there is none.
pick_next_task_ts(ts) ==
    {Head(ts[i]) : i \in {i \in Level : /\ ts[i] # <<>>
                                        /\ \A j \in Level : j > i => ts[j] = <<>>}}

\* Slip: the better the list, the longer the slice.
get_rr_interval_ts_slip(level) == (level \div 10) * SliceUnit

\* The default time slice of a queue.
get_rr_interval_ts(level) == (4 - level \div 10) * SliceUnit

decrement(n) == IF n = 0 THEN UINT_MAX ELSE n - 1

\* Slip: no lowest list.
demoted_slip(level) == level - 10

demoted(level) == IF level > 10 THEN level - 10 ELSE 0

task_tick_ts(p) ==
    LET t     == task[p]
        left  == decrement(t.time_slice)
        after == demoted(ts_level(t))
    IN  IF t.policy # "TS" THEN UNCHANGED vars
        ELSE IF left # 0
        THEN /\ task' = [task EXCEPT ![p].time_slice = left]
             /\ rq' = rq
        ELSE /\ task' = [task EXCEPT ![p] =
                            [t EXCEPT !.prio = 139 - after,
                                      !.time_slice = get_rr_interval_ts(after)]]
             /\ rq' = [rq EXCEPT !.ts = list_move_tail(@, after, p),
                                 !.need_resched = TRUE]

-----------------------------------------------------------------------------
(* The class-independent queue operations of core.c.  q is a struct rq, p  *)
(* a task and t its task_struct.  ts.c does not touch nr_running.          *)

enqueue_task(q, p, t, flags) ==
    CASE t.sched_class = "ts" -> [q EXCEPT !.ts = enqueue_task_ts(@, p, t, flags)]
      [] t.sched_class = "rt" ->
            [q EXCEPT !.rt = @ \cup {p}, !.nr_running = @ + 1]
      [] t.sched_class = "fair" ->
            [q EXCEPT !.cfs = @ \cup {p}, !.nr_running = @ + 1]

dequeue_task(q, p, t) ==
    CASE t.sched_class = "ts" -> [q EXCEPT !.ts = dequeue_task_ts(@, p)]
      [] t.sched_class = "rt" ->
            [q EXCEPT !.rt = @ \ {p}, !.nr_running = @ - 1]
      [] t.sched_class = "fair" ->
            [q EXCEPT !.cfs = @ \ {p}, !.nr_running = @ - 1]

\* Dequeue p as it was (old) and enqueue it as it is now (new), if queued.
requeue(q, p, old, new, flags) ==
    IF old.on_rq THEN enqueue_task(dequeue_task(q, p, old), p, new, flags) ELSE q

\* The task_struct after that.
requeued(old, new, flags) == IF old.on_rq THEN enqueued(new, flags) ELSE new

resched(q, yes) == [q EXCEPT !.need_resched = @ \/ yes]

\* check_preempt_curr(): the answers possible to "is curr to be rescheduled".
check_preempt_curr(T, q, p) ==
    LET class == T[p].sched_class IN
    IF class = ClassOf(T, q.curr)
    THEN CASE class = "ts" -> {check_preempt_curr_ts(T, q.curr, p)}
           [] class = "rt" -> {T[p].prio < T[q.curr].prio}
           [] class = "fair" -> BOOLEAN
    ELSE {Rank(class) < Rank(ClassOf(T, q.curr))}

\* ->switched_to(): ts_sched_class does nothing.
switched_to(T, q, p) ==
    CASE T[p].sched_class = "ts" -> {FALSE}
      [] T[p].sched_class = "rt" ->
            {T[p].on_rq /\ q.curr # p /\ T[p].prio < PrioOf(T, q.curr)}
      [] T[p].sched_class = "fair" ->
            IF ~ T[p].on_rq THEN {FALSE}
            ELSE IF q.curr = p THEN {TRUE} ELSE check_preempt_curr(T, q, p)

\* ->prio_changed(): ts_sched_class does nothing.
prio_changed(T, q, p, oldprio) ==
    CASE T[p].sched_class = "ts" \/ ~ T[p].on_rq -> {FALSE}
      [] T[p].sched_class = "rt" /\ T[p].on_rq ->
            IF q.curr = p THEN {\E r \in q.rt : T[r].prio < T[p].prio}
            ELSE {T[p].prio < PrioOf(T, q.curr)}
      [] T[p].sched_class = "fair" /\ T[p].on_rq ->
            IF q.curr = p THEN {T[p].prio > oldprio}
            ELSE check_preempt_curr(T, q, p)

\* old is p's task_struct before the change, T and q are the state after it.
check_class_changed(T, q, p, old) ==
    IF old.sched_class # T[p].sched_class THEN switched_to(T, q, p)
    ELSE IF old.prio # T[p].prio THEN prio_changed(T, q, p, old.prio)
    ELSE {FALSE}

pick_next_task_rt(T, q) == {p \in q.rt : \A r \in q.rt : T[p].prio <= T[r].prio}

\* fair_sched_class.pick_next_task(), then idle's: any queued fair task.
pick_next_task_fair_idle(q) == IF q.cfs = {} THEN {Idle} ELSE q.cfs

\* The tasks that pick_next_task() may return.  The first test takes a queue
\* without rt tasks for a queue with fair tasks only.
pick_next_task(T, q, prev) ==
    IF ClassOf(T, prev) \in {"idle", "fair"} /\ q.nr_running = Cardinality(q.cfs)
    THEN pick_next_task_fair_idle(q)
    ELSE IF q.rt # {} THEN pick_next_task_rt(T, q)
    ELSE IF pick_next_task_ts(q.ts) # {} THEN pick_next_task_ts(q.ts)
    ELSE pick_next_task_fair_idle(q)

\* The task_struct of a task that fork() may use.
unused_task ==
    [policy |-> "NORMAL", rt_priority |-> 0, sched_reset_on_fork |-> FALSE,
     static_prio |-> NICE_TO_PRIO(0), normal_prio |-> NICE_TO_PRIO(0),
     prio |-> NICE_TO_PRIO(0), pi_prio |-> MAX_PRIO, sched_class |-> "fair",
     child |-> Idle, state |-> "DEAD", on_rq |-> FALSE, time_slice |-> 3 * SliceUnit]

\* finish_task_switch(): the task_struct of a dead prev is freed.
finish_task_switch(T, prev) ==
    IF prev # Idle /\ T[prev].state = "DEAD" THEN [T EXCEPT ![prev] = unused_task] ELSE T

\* __schedule(preempt) from the state T, q.  An interruptible sleeper with a
\* pending signal stays runnable.
switch(T, q, preempt) ==
    LET prev   == q.curr
        blocks == ~ preempt /\ prev # Idle /\ T[prev].state # "RUNNING"
        deactivated == [T EXCEPT ![prev].on_rq = FALSE]
        woken       == [T EXCEPT ![prev].state = "RUNNING"]
    IN  \E signal_pending \in BOOLEAN :
          LET T1 == IF ~ blocks THEN T ELSE IF signal_pending THEN woken ELSE deactivated
              q1 == IF blocks /\ ~ signal_pending THEN dequeue_task(q, prev, T[prev]) ELSE q
          IN  /\ signal_pending => blocks /\ T[prev].state = "INTERRUPTIBLE"
              /\ task' = finish_task_switch(T1, prev)
              /\ \E next \in pick_next_task(T1, q1, prev) :
                   rq' = [q1 EXCEPT !.curr = next, !.need_resched = FALSE]

-----------------------------------------------------------------------------
(* The operations. *)

\* schedule(), schedule_idle(), preempt_schedule*(): preempt is the argument
\* of __schedule().  A task calls schedule() to sleep, to exit or to yield;
\* a wakeup may have come before the call.  A dying task is not preempted.
schedule(preempt) ==
    /\ rq.need_resched \/ (~ preempt /\ rq.curr # Idle)
    /\ preempt /\ rq.curr # Idle => task[rq.curr].state # "DEAD"
    /\ switch(task, rq, preempt)

scheduler_tick ==
    CASE ClassOf(task, rq.curr) = "ts" -> task_tick_ts(rq.curr)
      [] ClassOf(task, rq.curr) = "fair" ->
            /\ \E r \in BOOLEAN : rq' = resched(rq, r)
            /\ task' = task
      [] OTHER -> UNCHANGED vars

\* The running task may enter a system call: it is not in the middle of fork().
InUserMode ==
    /\ rq.curr # Idle
    /\ task[rq.curr].state = "RUNNING"
    /\ task[rq.curr].child = Idle

\* sched_yield() under rq->lock: the caller goes to the end of its list.  The
\* schedule() that follows takes the lock again and is an action of its own.
do_sched_yield ==
    /\ InUserMode
    /\ task[rq.curr].sched_class = "ts"
    /\ rq' = [rq EXCEPT !.ts = yield_task_ts(@, rq.curr, task[rq.curr])]
    /\ task' = task

set_current_state ==
    /\ rq.curr # Idle
    /\ task[rq.curr].state = "RUNNING"
    /\ task' = [task EXCEPT ![rq.curr].state = "INTERRUPTIBLE"]
    /\ rq' = rq

\* set_special_state(TASK_DEAD), under ->pi_lock only; the task holds no
\* rt_mutex.  Its last __schedule(false) is schedule(FALSE).
do_task_dead ==
    /\ InUserMode
    /\ task[rq.curr].pi_prio = MAX_PRIO
    /\ task' = [task EXCEPT ![rq.curr].state = "DEAD"]
    /\ rq' = rq

\* Slip: ->on_rq is not set.
activated_slip(t) == [t EXCEPT !.state = "RUNNING"]

\* The task_struct of a task activated as t: queued and runnable.
activated(t) == [t EXCEPT !.on_rq = TRUE, !.state = "RUNNING"]

\* activate_task(flags) of p with the task_struct t, then check_preempt_curr().
activate_task(T0, p, t, flags) ==
    LET T == [T0 EXCEPT ![p] = activated(enqueued(t, flags))]
        q == enqueue_task(rq, p, t, flags)
    IN  \E r \in check_preempt_curr(T, q, p) : task' = T /\ rq' = resched(q, r)

try_to_wake_up(p) ==
    /\ task[p].state = "INTERRUPTIBLE"
    /\ IF task[p].on_rq
       THEN \* ttwu_remote
            \E r \in check_preempt_curr(task, rq, p) :
               /\ task' = [task EXCEPT ![p].state = "RUNNING"]
               /\ rq' = resched(rq, r)
       ELSE activate_task(task, p, task[p], {"WAKEUP", "NOCLOCK"})

\* Slip: the child starts with the effective priority of its parent.
child_prio_slip(child, parent, static_prio) ==
    IF child.sched_reset_on_fork THEN static_prio ELSE parent.prio

\* The child's prio: the parent's normal_prio as it is now, not as copied.
child_prio(child, parent, static_prio) ==
    IF child.sched_reset_on_fork THEN static_prio ELSE parent.normal_prio

\* What sched_fork() makes of child, a copy of parent taken before.
forked(child, parent) ==
    LET reset == child.sched_reset_on_fork
        rt    == child.policy = "FIFO"
        static_prio == IF reset /\ (rt \/ child.static_prio < NICE_TO_PRIO(0))
                       THEN NICE_TO_PRIO(0) ELSE child.static_prio
        t == [child EXCEPT !.policy = IF reset /\ rt THEN "NORMAL" ELSE @,
                           !.rt_priority = IF reset /\ rt THEN 0 ELSE @,
                           !.sched_reset_on_fork = FALSE,
                           !.static_prio = static_prio,
                           !.normal_prio = IF reset THEN static_prio ELSE @,
                           !.prio = child_prio(child, parent, static_prio),
                           !.state = "NEW", !.time_slice = 3 * SliceUnit]
    IN  [t EXCEPT !.sched_class = class_of(t)]

\* dup_task_struct(): fork() copies the running task.  The copy is off the
\* queues and has no donor.
dup_task_struct(p) ==
    /\ InUserMode
    /\ task[p].state = "DEAD" /\ ~ task[p].on_rq
    /\ task' = [task EXCEPT ![p] = [task[rq.curr] EXCEPT !.state = "COPIED", !.on_rq = FALSE,
                                                        !.pi_prio = MAX_PRIO],
                            ![rq.curr].child = p]
    /\ rq' = rq

\* The running task is in the middle of fork(), with the child p.
Forking(p, state) ==
    /\ rq.curr # Idle
    /\ task[rq.curr].state = "RUNNING"
    /\ task[rq.curr].child = p
    /\ task[p].state = state

\* No lock is held against a change of the parent since dup_task_struct().
sched_fork(p) ==
    /\ Forking(p, "COPIED")
    /\ task' = [task EXCEPT ![p] = forked(@, task[rq.curr])]
    /\ rq' = rq

\* Slip: the child is enqueued as a task that slept.
wake_up_new_task_slip(p) ==
    /\ Forking(p, "NEW")
    /\ activate_task([task EXCEPT ![rq.curr].child = Idle], p, task[p], {"WAKEUP", "NOCLOCK"})

wake_up_new_task(p) ==
    /\ Forking(p, "NEW")
    /\ activate_task([task EXCEPT ![rq.curr].child = Idle], p, task[p], {"NOCLOCK"})

\* The tasks that others can name, a dying one before its last switch included.
Alive(p) ==
    \/ task[p].state \in {"RUNNING", "INTERRUPTIBLE"}
    \/ task[p].state = "DEAD" /\ task[p].on_rq

\* p's task_struct becomes t and p is requeued; then check_class_changed().
change(p, t) ==
    LET flags == {"RESTORE", "MOVE", "NOCLOCK"}
        T == [task EXCEPT ![p] = requeued(@, t, flags)]
        q == requeue(rq, p, task[p], t, flags)
    IN  \E r \in check_class_changed(T, q, p, task[p]) : task' = T /\ rq' = resched(q, r)

\* __setscheduler() on t.
setscheduler(t, policy, priority, nice, reset) ==
    LET t1 == [t EXCEPT !.policy = policy, !.rt_priority = priority,
                        !.sched_reset_on_fork = reset,
                        !.static_prio = IF policy = "NORMAL" THEN NICE_TO_PRIO(nice) ELSE @]
        t2 == [t1 EXCEPT !.normal_prio = normal_prio(t1),
                         !.prio = rt_effective_prio(t1, normal_prio(t1))]
    IN  [t2 EXCEPT !.sched_class = class_of(t2)]

sched_setscheduler(p, policy, priority, nice, reset) ==
    LET t == task[p]
        unchanged == /\ policy = t.policy
                     /\ policy = "NORMAL" => NICE_TO_PRIO(nice) = t.static_prio
                     /\ policy = "FIFO" => priority = t.rt_priority
    IN  /\ Alive(p)
        /\ (policy = "FIFO") <=> (priority # 0)
        /\ IF unchanged
           THEN /\ task' = [task EXCEPT ![p].sched_reset_on_fork = reset]
                /\ rq' = rq
           ELSE change(p, setscheduler(t, policy, priority, nice, reset))

set_user_nice(p, nice) ==
    LET old == task[p]
        t1  == [old EXCEPT !.static_prio = NICE_TO_PRIO(nice)]
        t   == [t1 EXCEPT !.normal_prio = normal_prio(t1), !.prio = effective_prio(t1)]
        r   == old.on_rq /\ \/ t.prio < old.prio
                            \/ t.prio > old.prio /\ rq.curr = p
    IN  /\ Alive(p)
        /\ NICE_TO_PRIO(nice) # old.static_prio
        /\ IF old.policy = "FIFO"
           THEN task' = [task EXCEPT ![p] = t1] /\ rq' = rq
           ELSE /\ task' = [task EXCEPT ![p] = requeued(old, t, {"RESTORE", "NOCLOCK"})]
                /\ rq' = resched(requeue(rq, p, old, t, {"RESTORE", "NOCLOCK"}), r)

\* donor is the prio of the new top waiter, MAX_PRIO when there is none.
\* A task that leaves the RT range goes to the fair class.
rt_mutex_setprio(p, donor) ==
    LET prio == IF donor < task[p].normal_prio THEN donor ELSE task[p].normal_prio
        t1   == [task[p] EXCEPT !.pi_prio = donor]
        t    == [t1 EXCEPT !.prio = prio,
                           !.sched_class = IF rt_prio(prio) THEN "rt" ELSE "fair"]
    IN  /\ Alive(p) /\ task[p].state # "DEAD"
        /\ task[p].pi_prio # MAX_PRIO \/ donor # MAX_PRIO
        /\ IF prio = task[p].prio
           THEN task' = [task EXCEPT ![p] = t1] /\ rq' = rq
           ELSE change(p, t)

\* Dequeue, then enqueue; the affinity itself is not modelled.
do_set_cpus_allowed(p) ==
    /\ Alive(p)
    /\ rq' = requeue(rq, p, task[p], task[p], {"RESTORE", "NOCLOCK"})
    /\ task' = [task EXCEPT ![p] = requeued(@, @, {"RESTORE", "NOCLOCK"})]

-----------------------------------------------------------------------------
(* The specification.  At first one SCHED_NORMAL task of nice 0 runs.      *)

first_task == [unused_task EXCEPT !.state = "RUNNING", !.on_rq = TRUE]

Init ==
    \E first \in Task :
      /\ task = [p \in Task |-> IF p = first THEN first_task ELSE unused_task]
      /\ rq = [ts |-> [i \in Level |-> <<>>], rt |-> {}, cfs |-> {first},
               nr_running |-> 1, curr |-> first, need_resched |-> FALSE]

Next ==
    \/ \E preempt \in BOOLEAN : schedule(preempt)
    \/ scheduler_tick
    \/ do_sched_yield
    \/ set_current_state
    \/ do_task_dead
    \/ \E p \in Task :
         \/ try_to_wake_up(p)
         \/ dup_task_struct(p)
         \/ sched_fork(p)
         \/ wake_up_new_task(p)
         \/ \E policy \in Policy, priority \in RtPriority \cup {0},
               nice \in Nice, reset \in ResetOnFork :
              sched_setscheduler(p, policy, priority, nice, reset)
         \/ \E nice \in Nice : set_user_nice(p, nice)
         \/ \E donor \in Donor \cup {MAX_PRIO} : rt_mutex_setprio(p, donor)
         \/ do_set_cpus_allowed(p)

Spec == Init /\ [][Next]_vars

-----------------------------------------------------------------------------
(* A CPU whose tasks are all SCHED_TS and neither sleep nor exit: the      *)
(* first task has set its nice value and SCHED_TS on itself, then forks.   *)
(* Every task may worsen its own nice value, as any user may.              *)

BusyInit ==
    \E first \in Task, nice \in Nice :
      LET prio == NICE_TO_PRIO(nice)
          t == [first_task EXCEPT !.policy = "TS", !.sched_class = "ts", !.prio = prio,
                                  !.static_prio = prio, !.normal_prio = prio]
      IN  /\ task = [p \in Task |-> IF p = first THEN t ELSE unused_task]
          /\ rq = [ts |-> [i \in Level |-> IF i = ts_level(t) THEN <<first>> ELSE <<>>],
                   rt |-> {}, cfs |-> {}, nr_running |-> 0,
                   curr |-> first, need_resched |-> FALSE]

worsen_nice(nice) ==
    /\ InUserMode
    /\ NICE_TO_PRIO(nice) > task[rq.curr].static_prio
    /\ set_user_nice(rq.curr, nice)

BusyNext ==
    \/ \E preempt \in BOOLEAN : schedule(preempt)
    \/ scheduler_tick
    \/ do_sched_yield
    \/ \E nice \in Nice : worsen_nice(nice)
    \/ \E p \in Task : dup_task_struct(p) \/ sched_fork(p) \/ wake_up_new_task(p)

\* The timer interrupt keeps coming, and TIF_NEED_RESCHED is acted on.
BusySpec ==
    /\ BusyInit /\ [][BusyNext]_vars
    /\ WF_vars(scheduler_tick)
    /\ WF_vars(rq.need_resched /\ \E preempt \in BOOLEAN : schedule(preempt))

-----------------------------------------------------------------------------
(* Properties. *)

TypeOK == task \in [Task -> task_struct] /\ rq \in run_queue

\* Every task of the TS lists is a queued TS task, on the list its prio
\* selects: whoever changes ->prio of a queued task moves it.
ListedAtPrio ==
    \A i \in Level : \A k \in DOMAIN rq.ts[i] :
      LET t == task[rq.ts[i][k]]
      IN  t.sched_class = "ts" /\ t.on_rq /\ ts_level(t) = i

\* No task is twice on a list.
ListedOnce ==
    \A i \in Level : \A k, l \in DOMAIN rq.ts[i] : rq.ts[i][k] = rq.ts[i][l] => k = l

\* Every queued TS task is on the list its prio selects.
QueuedIsListed ==
    \A p \in Task : task[p].sched_class = "ts" /\ task[p].on_rq =>
      \E k \in DOMAIN rq.ts[ts_level(task[p])] : rq.ts[ts_level(task[p])][k] = p

\* Whatever sequence of wakeups, ticks, yields, forks and parameter changes
\* runs, ->on_rq, ->sched_class and ->prio say where a task is queued:
\* list_del() and list_move_tail() of ts.c never meet an unlinked node, and
\* list_add_tail() never a linked one.
RunQueueConsistent ==
    /\ ListedAtPrio /\ ListedOnce /\ QueuedIsListed
    /\ rq.rt = {p \in Task : task[p].on_rq /\ task[p].sched_class = "rt"}
    /\ rq.cfs = {p \in Task : task[p].on_rq /\ task[p].sched_class = "fair"}

\* The class and the priority of a task agree, so that 139 - prio is an index
\* of SleepPrioLUT and of ts_rq.queue whenever a function of ts.c computes it.
TsIndexInRange ==
    \A p \in Task :
      /\ task[p].sched_class = "rt" <=> rt_prio(task[p].prio)
      /\ task[p].sched_class = "ts" => task[p].policy = "TS" /\ ts_level(task[p]) \in Level

\* task_tick_ts(): "If set correctly this should never go pass 0".  No
\* operation lets a slice reach the tick as 0, and no slice exceeds the
\* longest one.
SliceNeverPassesZero ==
    \A p \in Task : task[p].time_slice \in 1..4 * SliceUnit

\* A runnable task is on a run queue, one that is being created is on none, a
\* dead one only while it still runs, and the running task is queued: no
\* wakeup racing with the sleeper's schedule() loses a task, and no change of
\* its parameters brings a dead one back.
NoLostTask ==
    /\ \A p \in Task : /\ task[p].state = "RUNNING" => task[p].on_rq
                       /\ task[p].state \in {"COPIED", "NEW"} => ~ task[p].on_rq
                       /\ task[p].state = "DEAD" /\ task[p].on_rq => p = rq.curr
    /\ rq.curr # Idle => task[rq.curr].on_rq

\* What sched_fork() may read of a parent that changed after the copy.
SamePrio(t, u) ==
    /\ t.policy = u.policy /\ t.rt_priority = u.rt_priority
    /\ t.static_prio = u.static_prio

\* sched_fork(): "Make sure we do not leak PI boosting priority to the child".
\* Whatever boost, demotion or reset-on-fork flag the parent has, the child
\* gets a class that fits its prio, and a prio that is the normal one of its
\* own policy and nice value, or of the parent's if another CPU has changed
\* them since dup_task_struct().
ForkDropsBoost ==
    [][\A p \in Task : task[p].state = "COPIED" /\ task'[p].state = "NEW" =>
         LET parent == task[rq.curr]
             own    == normal_prio(task'[p])
         IN  /\ task'[p].sched_class = class_of(task'[p])
             /\ task'[p].prio \in {own, normal_prio(parent)}
             /\ SamePrio(task[p], parent) => task'[p].prio = own]_vars

\* A queued TS task is better than the running one and nothing is under way
\* to give it the CPU.
BetterWaits(T, q) ==
    /\ ClassOf(T, q.curr) = "ts" /\ ~ q.need_resched
    /\ \E p \in Task : /\ T[p].on_rq /\ T[p].sched_class = "ts"
                       /\ T[p].prio < T[q.curr].prio

\* Only switched_to_ts(), which does nothing, can leave a better TS task
\* waiting behind the running one: wakeups, forks, ticks, yields, nice values,
\* boosts and switches either keep the better one running or ask for a
\* reschedule.
BetterTaskNoticed ==
    [][BetterWaits(task', rq') =>
         \/ BetterWaits(task, rq)
         \/ \E p \in Task : /\ task[p].on_rq /\ task[p].sched_class # "ts"
                            /\ task'[p].sched_class = "ts"]_vars

\* A TS task improves its priority only by sleeping (ENQUEUE_WAKEUP) or by a
\* new nice value, which resets it to the static one: ticks, yields, requeues,
\* boosts that end, and the first activation of a child never raise it.
PrioGainNeedsSleep ==
    [][\A p \in Task :
         /\ task[p].sched_class = "ts" /\ task'[p].sched_class = "ts"
         /\ task[p].state # "COPIED"
         /\ task'[p].prio < task[p].prio
         => \/ task[p].state = "INTERRUPTIBLE" /\ ~ task[p].on_rq /\ task'[p].on_rq
            \/ task'[p].prio = task'[p].static_prio]_vars

\* Among TS tasks that do not sleep nobody starves: a queued task runs again
\* (task_tick_ts demotes whoever uses up a slice, down to one round-robin list).
QueuedTsRuns ==
    \A p \in Task :
      (task[p].sched_class = "ts" /\ task[p].on_rq) ~> (rq.curr = p)

\* core.c, pick_next_task(): "Pick up the highest-prio task".  The task that
\* gets the CPU is of the highest class that has a queued task.
PicksHighestClass ==
    [][rq'.curr # rq.curr =>
         \A p \in Task : task'[p].on_rq =>
           Rank(ClassOf(task', rq'.curr)) <= Rank(task'[p].sched_class)]_vars

\* ts.c, check_preempt_curr_ts(): "ts tasks are never preempted".  A TS task
\* that becomes queued does not make the running TS task reschedule.
TsNeverPreempted ==
    [][\A p \in Task :
         /\ ~ task[p].on_rq /\ task'[p].on_rq /\ task'[p].sched_class = "ts"
         /\ ClassOf(task, rq.curr) = "ts" /\ ~ rq.need_resched
         => ~ rq'.need_resched]_vars

\* core.c, __sched_setscheduler(): the class of a boosted task is set "when
\* the task deboost itself".  A task without a donor is in the class that its
\* policy and priority give it.
DeboostRestoresClass ==
    \A p \in Task : task[p].pi_prio = MAX_PRIO => task[p].sched_class = class_of(task[p])

\* sched.h: SAVE/RESTORE pairs "should preserve as much state as possible",
\* only MOVE "does not preserve the location in the runqueue".  A change of
\* affinity (no MOVE) keeps the order of the TS lists.
RestoreKeepsPlace ==
    [][(\E p \in Task : do_set_cpus_allowed(p)) => rq'.ts = rq.ts]_vars
=============================================================================
