---------------------------- MODULE TsSchedProofs ----------------------------
(***************************************************************************)
(* TsSched for every set of tasks and every range of arguments: its type   *)
(* invariant, the consistency of the run queue, the range of the TS queue  *)
(* index, the range of a time slice, and that no task is lost.             *)
(***************************************************************************)
EXTENDS TsSched, TLAPS

-----------------------------------------------------------------------------
(* Lists. *)

In(p, list) == \E k \in DOMAIN list : list[k] = p

Injective(list) == \A k, l \in DOMAIN list : list[k] = list[l] => k = l

\* list_del() of ts.c on a list without duplicates removes p and nothing else.
LEMMA ListDel ==
  ASSUME NEW S, NEW list \in Seq(S), Injective(list), NEW p
  PROVE  /\ list_del(list, p) \in Seq(S)
         /\ Injective(list_del(list, p))
         /\ \A q : In(q, list_del(list, p)) <=> In(q, list) /\ q # p
<1>1. CASE ~ \E i \in DOMAIN list : list[i] = p
  BY <1>1 DEF list_del, In
<1>2. CASE \E i \in DOMAIN list : list[i] = p
  <2> DEFINE k == CHOOSE i \in DOMAIN list : list[i] = p
             new == [i \in 1..Len(list) - 1 |-> IF i < k THEN list[i] ELSE list[i + 1]]
  <2>1. k \in DOMAIN list /\ list[k] = p
    BY <1>2
  <2>2. list_del(list, p) = new
    BY <1>2 DEF list_del
  <2> HIDE DEF k
  <2>3. Len(list) \in Nat /\ DOMAIN list = 1..Len(list) /\ \A i \in 1..Len(list) : list[i] \in S
    OBVIOUS
  <2>4. k \in 1..Len(list) /\ Len(list) - 1 \in Nat
    BY <2>1, <2>3
  <2>5. /\ DOMAIN new = 1..Len(list) - 1
        /\ \A i \in 1..Len(list) - 1 : new[i] = IF i < k THEN list[i] ELSE list[i + 1]
    OBVIOUS
  <2>6. new \in Seq(S)
    <3>1. new \in [1..Len(list) - 1 -> S]
      BY <2>3, <2>4
    <3> QED
      BY <3>1, <2>4
  <2>7. Injective(new)
    BY <2>1, <2>3, <2>4, <2>5 DEF Injective
  <2>8. ASSUME NEW q, In(q, new) PROVE In(q, list) /\ q # p
    BY <2>1, <2>3, <2>4, <2>5, <2>8 DEF Injective, In
  <2>9. ASSUME NEW q, In(q, list), q # p PROVE In(q, new)
    <3>1. PICK j \in 1..Len(list) : list[j] = q
      BY <2>3, <2>9 DEF In
    <3>2. CASE j < k
      BY <3>1, <3>2, <2>4, <2>5 DEF In
    <3>3. CASE j > k
      <4>1. j - 1 \in 1..Len(list) - 1 /\ ~ (j - 1 < k) /\ (j - 1) + 1 = j
        BY <3>3, <2>4
      <4>2. new[j - 1] = q
        BY <4>1, <3>1, <2>5
      <4> QED
        BY <4>1, <4>2, <2>5 DEF In
    <3>4. j # k
      BY <3>1, <2>1, <2>9
    <3> QED
      BY <3>2, <3>3, <3>4, <2>4
  <2> HIDE DEF new
  <2> QED
    BY <2>2, <2>6, <2>7, <2>8, <2>9
<1> QED
  BY <1>1, <1>2

\* list_add_tail() adds p and nothing else.
LEMMA ListAdd ==
  ASSUME NEW S, NEW list \in Seq(S), Injective(list), NEW p \in S, ~ In(p, list)
  PROVE  /\ Append(list, p) \in Seq(S)
         /\ Injective(Append(list, p))
         /\ \A q : In(q, Append(list, p)) <=> In(q, list) \/ q = p
<1>1. /\ Append(list, p) \in Seq(S)
      /\ DOMAIN list = 1..Len(list) /\ Len(list) \in Nat
      /\ DOMAIN Append(list, p) = 1..Len(list) + 1
      /\ \A i \in 1..Len(list) : Append(list, p)[i] = list[i]
      /\ Append(list, p)[Len(list) + 1] = p
  OBVIOUS
<1>2. Injective(Append(list, p))
  BY <1>1 DEF Injective, In
<1>3. ASSUME NEW q PROVE In(q, Append(list, p)) <=> In(q, list) \/ q = p
  BY <1>1 DEF In
<1> QED
  BY <1>1, <1>2, <1>3

-----------------------------------------------------------------------------
(* The run queue. *)

\* A task_struct that core.c and ts.c leave behind.
TaskOK(t) ==
    /\ t \in task_struct
    /\ t.sched_class = "rt" <=> rt_prio(t.prio)
    /\ t.sched_class = "ts" => t.policy = "TS"
    /\ t.time_slice \in 1..4 * SliceUnit

\* The states of a task that is being forked.
Fresh == {"COPIED", "NEW"}

\* Whether a task_struct is queued agrees with its ->state.
RunOK(t) ==
    /\ t.state = "RUNNING" => t.on_rq
    /\ t.state \in Fresh => ~ t.on_rq

\* The TS lists hold exactly the queued TS tasks, each where its prio says.
ListsOK(T, ts) ==
    /\ ts \in [Level -> Seq(Task)]
    /\ \A i \in Level : Injective(ts[i])
    /\ \A i \in Level, p \in Task :
         In(p, ts[i]) <=> T[p].sched_class = "ts" /\ T[p].on_rq /\ ts_level(T[p]) = i

\* The three queues hold exactly the queued tasks of their class.
QueuesOK(T, q) ==
    /\ q \in run_queue
    /\ ListsOK(T, q.ts)
    /\ q.rt = {p \in Task : T[p].on_rq /\ T[p].sched_class = "rt"}
    /\ q.cfs = {p \in Task : T[p].on_rq /\ T[p].sched_class = "fair"}

\* Two run queues that differ in their queues at most.
SameCurr(q1, q2) == q1.curr = q2.curr /\ q1.need_resched = q2.need_resched

\* 139 - prio of a TS task indexes ts_rq.queue.
LEMMA LevelFact ==
  ASSUME NEW t, TaskOK(t), t.sched_class = "ts"
  PROVE  ts_level(t) \in Level
BY DEF TaskOK, task_struct, ts_level, Level, rt_prio, MAX_RT_PRIO, MAX_PRIO

\* dequeue_task_ts() leaves the lists of a state in which p is not queued.
LEMMA DequeueLists ==
  ASSUME NEW T, NEW ts, ListsOK(T, ts), NEW p \in Task, NEW U,
         \A r \in Task \ {p} : U[r] = T[r],
         ~ (U[p].sched_class = "ts" /\ U[p].on_rq)
  PROVE  ListsOK(U, dequeue_task_ts(ts, p))
<1> DEFINE new == dequeue_task_ts(ts, p)
<1>1. /\ DOMAIN new = Level
      /\ \A i \in Level : new[i] = list_del(ts[i], p)
  BY DEF dequeue_task_ts
<1>2. ASSUME NEW i \in Level
      PROVE  /\ new[i] \in Seq(Task)
             /\ Injective(new[i])
             /\ \A q : In(q, new[i]) <=> In(q, ts[i]) /\ q # p
  <2>1. ts[i] \in Seq(Task) /\ Injective(ts[i])
    BY DEF ListsOK
  <2> QED
    BY <1>1, <2>1, ListDel
<1>3. new \in [Level -> Seq(Task)]
  BY <1>1, <1>2 DEF dequeue_task_ts
<1> HIDE DEF new
<1>4. ASSUME NEW i \in Level, NEW q \in Task
      PROVE  In(q, new[i]) <=> U[q].sched_class = "ts" /\ U[q].on_rq /\ ts_level(U[q]) = i
  <2>1. CASE q = p
    BY <1>2, <2>1
  <2>2. CASE q # p
    BY <1>2, <2>2 DEF ListsOK
  <2> QED
    BY <2>1, <2>2
<1> QED
  BY <1>2, <1>3, <1>4 DEF ListsOK, new

\* list_add_tail() on the list of p's prio gives the lists of a state in which
\* p is a queued TS task.
LEMMA EnqueueLists ==
  ASSUME NEW T, NEW ts, ListsOK(T, ts), NEW p \in Task, NEW U,
         ~ (T[p].sched_class = "ts" /\ T[p].on_rq),
         \A r \in Task \ {p} : U[r] = T[r],
         NEW level \in Level, U[p].sched_class = "ts", U[p].on_rq, ts_level(U[p]) = level
  PROVE  ListsOK(U, list_add_tail(ts, level, p))
<1> DEFINE new == list_add_tail(ts, level, p)
<1>1. ts \in [Level -> Seq(Task)] /\ \A i \in Level : Injective(ts[i])
  BY DEF ListsOK
<1>2. /\ new = [ts EXCEPT ![level] = Append(ts[level], p)]
      /\ \A i \in Level : i # level => new[i] = ts[i]
      /\ new[level] = Append(ts[level], p)
  BY <1>1 DEF list_add_tail
<1>3. ~ In(p, ts[level])
  BY DEF ListsOK
<1>4. ts[level] \in Seq(Task) /\ Injective(ts[level])
  BY <1>1
<1>5. /\ new[level] \in Seq(Task)
      /\ Injective(new[level])
      /\ \A q : In(q, new[level]) <=> In(q, ts[level]) \/ q = p
  BY <1>2, <1>3, <1>4, ListAdd
<1> HIDE DEF new
<1>6. new \in [Level -> Seq(Task)]
  BY <1>1, <1>2, <1>5
<1>7. ASSUME NEW i \in Level PROVE Injective(new[i])
  BY <1>1, <1>2, <1>5
<1>8. ASSUME NEW i \in Level, NEW q \in Task
      PROVE  In(q, new[i]) <=> U[q].sched_class = "ts" /\ U[q].on_rq /\ ts_level(U[q]) = i
  <2>1. In(q, ts[i]) <=> T[q].sched_class = "ts" /\ T[q].on_rq /\ ts_level(T[q]) = i
    BY DEF ListsOK
  <2>2. CASE i = level /\ q = p
    BY <1>5, <2>2
  <2>3. CASE i = level /\ q # p
    BY <1>5, <2>1, <2>3
  <2>4. CASE i # level /\ q = p
    BY <1>2, <2>1, <2>4
  <2>5. CASE i # level /\ q # p
    BY <1>2, <2>1, <2>5
  <2> QED
    BY <2>2, <2>3, <2>4, <2>5
<1> QED
  BY <1>6, <1>7, <1>8 DEF ListsOK, new

\* An update of the lists of struct rq.
LEMMA UpdateTs ==
  ASSUME NEW q \in run_queue, NEW x \in [Level -> Seq(Task)], NEW new, new = [q EXCEPT !.ts = x]
  PROVE  /\ new \in run_queue /\ SameCurr(q, new)
         /\ new.ts = x /\ new.rt = q.rt /\ new.cfs = q.cfs
<1>1. new \in run_queue
  BY Zenon DEF run_queue
<1>2. new.curr = q.curr /\ new.ts = x /\ new.rt = q.rt /\ new.cfs = q.cfs
  BY DEF run_queue
<1>3. new.need_resched = q.need_resched
  BY DEF run_queue
<1> QED
  BY <1>1, <1>2, <1>3 DEF SameCurr

\* The types of the fields that the queue operations update.
LEMMA FieldTypes ==
  ASSUME NEW q \in run_queue, NEW p \in Task
  PROVE  /\ q.nr_running + 1 \in Int /\ q.nr_running - 1 \in Int
         /\ q.rt \ {p} \in SUBSET Task /\ q.rt \cup {p} \in SUBSET Task
         /\ q.cfs \ {p} \in SUBSET Task /\ q.cfs \cup {p} \in SUBSET Task
BY DEF run_queue

\* The tasks that a class has queued, when only p changes: the set stays, gains
\* p or loses p.
LEMMA QueuedOfClass ==
  ASSUME NEW T, NEW U, NEW p \in Task, \A r \in Task \ {p} : U[r] = T[r], NEW class
  PROVE  LET old == {r \in Task : T[r].on_rq /\ T[r].sched_class = class}
             cur == {r \in Task : U[r].on_rq /\ U[r].sched_class = class}
             was == T[p].on_rq /\ T[p].sched_class = class
             is  == U[p].on_rq /\ U[p].sched_class = class
         IN  /\ ~ was /\ ~ is => old = cur
             /\ is => old \cup {p} = cur
             /\ ~ is => old \ {p} = cur
<1> DEFINE old == {r \in Task : T[r].on_rq /\ T[r].sched_class = class}
           cur == {r \in Task : U[r].on_rq /\ U[r].sched_class = class}
           was == T[p].on_rq /\ T[p].sched_class = class
           is  == U[p].on_rq /\ U[p].sched_class = class
<1>1. ASSUME NEW r, r # p PROVE r \in old <=> r \in cur
  BY <1>1
<1>2. (p \in old <=> was) /\ (p \in cur <=> is)
  OBVIOUS
<1> HIDE DEF old, cur, was, is
<1>3. ~ was /\ ~ is => old = cur
  BY <1>1, <1>2
<1>4. is => old \cup {p} = cur
  BY <1>1, <1>2
<1>5. ~ is => old \ {p} = cur
  BY <1>1, <1>2
<1> QED
  BY <1>3, <1>4, <1>5 DEF old, cur, was, is

\* dequeue_task() of a queued task, whatever its class.
LEMMA Dequeue ==
  ASSUME NEW T, NEW q, QueuesOK(T, q), NEW p \in Task, TaskOK(T[p]), T[p].on_rq,
         NEW U, \A r \in Task \ {p} : U[r] = T[r], U[p].on_rq = FALSE
  PROVE  /\ QueuesOK(U, dequeue_task(q, p, T[p]))
         /\ SameCurr(q, dequeue_task(q, p, T[p]))
<1> DEFINE new == dequeue_task(q, p, T[p])
<1>1. T[p].sched_class \in {"rt", "ts", "fair"}
  BY DEF TaskOK, task_struct
<1>2. /\ q \in run_queue /\ ListsOK(T, q.ts)
      /\ q.rt = {r \in Task : T[r].on_rq /\ T[r].sched_class = "rt"}
      /\ q.cfs = {r \in Task : T[r].on_rq /\ T[r].sched_class = "fair"}
  BY DEF QueuesOK
<1>3. CASE T[p].sched_class = "ts"
  <2>1. new = [q EXCEPT !.ts = dequeue_task_ts(q.ts, p)]
    BY <1>3 DEF dequeue_task
  <2>2. ListsOK(U, dequeue_task_ts(q.ts, p))
    BY <1>2, DequeueLists
  <2>3. /\ new \in run_queue /\ SameCurr(q, new) /\ new.ts = dequeue_task_ts(q.ts, p)
        /\ new.rt = q.rt /\ new.cfs = q.cfs
    BY <1>2, <2>1, <2>2, UpdateTs DEF ListsOK
  <2>4. /\ q.rt = {r \in Task : U[r].on_rq /\ U[r].sched_class = "rt"}
        /\ q.cfs = {r \in Task : U[r].on_rq /\ U[r].sched_class = "fair"}
    <3>1. T[p].sched_class = "ts" /\ T[p].on_rq /\ ~ U[p].on_rq
      BY <1>3
    <3>2. q.rt = {r \in Task : U[r].on_rq /\ U[r].sched_class = "rt"}
      BY <1>2, <3>1, QueuedOfClass
    <3>3. q.cfs = {r \in Task : U[r].on_rq /\ U[r].sched_class = "fair"}
      BY <1>2, <3>1, QueuedOfClass
    <3> QED
      BY <3>2, <3>3
  <2> QED
    BY <2>2, <2>3, <2>4 DEF QueuesOK
<1>4. ASSUME T[p].sched_class # "ts"
      PROVE  ListsOK(U, q.ts)
  <2>1. ASSUME NEW i \in Level, NEW r \in Task
        PROVE  In(r, q.ts[i]) <=> U[r].sched_class = "ts" /\ U[r].on_rq /\ ts_level(U[r]) = i
    <3>1. CASE r = p
      BY <1>2, <1>4, <3>1 DEF ListsOK
    <3>2. CASE r # p
      BY <1>2, <3>2 DEF ListsOK
    <3> QED
      BY <3>1, <3>2
  <2> QED
    BY <1>2, <2>1 DEF ListsOK
<1>5. CASE T[p].sched_class = "rt"
  <2>1. new = [q EXCEPT !.rt = q.rt \ {p}, !.nr_running = q.nr_running - 1]
    BY <1>5 DEF dequeue_task
  <2>2. /\ new \in run_queue /\ SameCurr(q, new) /\ new.ts = q.ts
        /\ new.rt = q.rt \ {p} /\ new.cfs = q.cfs
    <3> DEFINE x == q.rt \ {p}
               n == q.nr_running - 1
    <3>1. x \in SUBSET Task /\ n \in Int
      BY <1>2, FieldTypes
    <3>2. new = [q EXCEPT !.rt = x, !.nr_running = n]
      BY <2>1
    <3> HIDE DEF x, n, new
    <3>3. new \in run_queue
      BY <1>2, <3>1, <3>2, Zenon DEF run_queue
    <3>4. new.curr = q.curr /\ new.ts = q.ts /\ new.rt = x /\ new.cfs = q.cfs
      BY <1>2, <3>1, <3>2 DEF run_queue
    <3>5. new.need_resched = q.need_resched
      BY <1>2, <3>1, <3>2 DEF run_queue
    <3> QED
      BY <3>3, <3>4, <3>5 DEF x, SameCurr
  <2>3. /\ q.rt \ {p} = {r \in Task : U[r].on_rq /\ U[r].sched_class = "rt"}
        /\ q.cfs = {r \in Task : U[r].on_rq /\ U[r].sched_class = "fair"}
    <3>1. T[p].sched_class = "rt" /\ T[p].on_rq /\ ~ U[p].on_rq
      BY <1>5
    <3>2. q.rt \ {p} = {r \in Task : U[r].on_rq /\ U[r].sched_class = "rt"}
      BY <1>2, <3>1, QueuedOfClass
    <3>3. q.cfs = {r \in Task : U[r].on_rq /\ U[r].sched_class = "fair"}
      BY <1>2, <3>1, QueuedOfClass
    <3> QED
      BY <3>2, <3>3
  <2> QED
    BY <1>4, <1>5, <2>2, <2>3 DEF QueuesOK
<1>6. CASE T[p].sched_class = "fair"
  <2>1. new = [q EXCEPT !.cfs = q.cfs \ {p}, !.nr_running = q.nr_running - 1]
    BY <1>6 DEF dequeue_task
  <2>2. /\ new \in run_queue /\ SameCurr(q, new) /\ new.ts = q.ts
        /\ new.cfs = q.cfs \ {p} /\ new.rt = q.rt
    <3> DEFINE x == q.cfs \ {p}
               n == q.nr_running - 1
    <3>1. x \in SUBSET Task /\ n \in Int
      BY <1>2, FieldTypes
    <3>2. new = [q EXCEPT !.cfs = x, !.nr_running = n]
      BY <2>1
    <3> HIDE DEF x, n, new
    <3>3. new \in run_queue
      BY <1>2, <3>1, <3>2, Zenon DEF run_queue
    <3>4. new.curr = q.curr /\ new.ts = q.ts /\ new.cfs = x /\ new.rt = q.rt
      BY <1>2, <3>1, <3>2 DEF run_queue
    <3>5. new.need_resched = q.need_resched
      BY <1>2, <3>1, <3>2 DEF run_queue
    <3> QED
      BY <3>3, <3>4, <3>5 DEF x, SameCurr
  <2>3. /\ q.rt = {r \in Task : U[r].on_rq /\ U[r].sched_class = "rt"}
        /\ q.cfs \ {p} = {r \in Task : U[r].on_rq /\ U[r].sched_class = "fair"}
    <3>1. T[p].sched_class = "fair" /\ T[p].on_rq /\ ~ U[p].on_rq
      BY <1>6
    <3>2. q.rt = {r \in Task : U[r].on_rq /\ U[r].sched_class = "rt"}
      BY <1>2, <3>1, QueuedOfClass
    <3>3. q.cfs \ {p} = {r \in Task : U[r].on_rq /\ U[r].sched_class = "fair"}
      BY <1>2, <3>1, QueuedOfClass
    <3> QED
      BY <3>2, <3>3
  <2> QED
    BY <1>4, <1>6, <2>2, <2>3 DEF QueuesOK
<1> QED
  BY <1>1, <1>3, <1>5, <1>6

\* ->enqueue_task() without ENQUEUE_WAKEUP leaves the task_struct alone.
LEMMA NoBoost ==
  ASSUME NEW t, NEW flags, "WAKEUP" \notin flags
  PROVE  enqueued(t, flags) = t
BY DEF enqueued

\* enqueue_task() of a task that was not queued; U[p] is p's task_struct when the
\* operation is over, t the one enqueue_task() reads.
LEMMA Enqueue ==
  ASSUME NEW T, NEW q, QueuesOK(T, q), NEW p \in Task, T[p].on_rq = FALSE,
         NEW U, \A r \in Task \ {p} : U[r] = T[r], TaskOK(U[p]), U[p].on_rq,
         NEW t, NEW flags, t.sched_class = U[p].sched_class,
         enqueued(t, flags).prio = U[p].prio
  PROVE  /\ QueuesOK(U, enqueue_task(q, p, t, flags))
         /\ SameCurr(q, enqueue_task(q, p, t, flags))
<1> DEFINE new == enqueue_task(q, p, t, flags)
<1>1. t.sched_class \in {"rt", "ts", "fair"}
  BY DEF TaskOK, task_struct
<1>2. /\ q \in run_queue /\ ListsOK(T, q.ts)
      /\ q.rt = {r \in Task : T[r].on_rq /\ T[r].sched_class = "rt"}
      /\ q.cfs = {r \in Task : T[r].on_rq /\ T[r].sched_class = "fair"}
  BY DEF QueuesOK
<1>3. CASE t.sched_class = "ts"
  <2>1. new = [q EXCEPT !.ts = list_add_tail(q.ts, ts_level(enqueued(t, flags)), p)]
    BY <1>3 DEF enqueue_task, enqueue_task_ts
  <2>2. ts_level(enqueued(t, flags)) = ts_level(U[p]) /\ ts_level(U[p]) \in Level
    BY <1>3, LevelFact, Zenon DEF ts_level
  <2>3. ListsOK(U, list_add_tail(q.ts, ts_level(enqueued(t, flags)), p))
    BY <1>2, <1>3, <2>2, EnqueueLists, Zenon
  <2>4. /\ new \in run_queue /\ SameCurr(q, new)
        /\ new.ts = list_add_tail(q.ts, ts_level(enqueued(t, flags)), p)
        /\ new.rt = q.rt /\ new.cfs = q.cfs
    BY <1>2, <2>1, <2>3, UpdateTs DEF ListsOK
  <2>5. /\ q.rt = {r \in Task : U[r].on_rq /\ U[r].sched_class = "rt"}
        /\ q.cfs = {r \in Task : U[r].on_rq /\ U[r].sched_class = "fair"}
    <3>1. U[p].sched_class = "ts" /\ U[p].on_rq /\ ~ T[p].on_rq
      BY <1>3
    <3>2. q.rt = {r \in Task : U[r].on_rq /\ U[r].sched_class = "rt"}
      BY <1>2, <3>1, QueuedOfClass
    <3>3. q.cfs = {r \in Task : U[r].on_rq /\ U[r].sched_class = "fair"}
      BY <1>2, <3>1, QueuedOfClass
    <3> QED
      BY <3>2, <3>3
  <2> QED
    BY <2>3, <2>4, <2>5 DEF QueuesOK
<1>4. ASSUME t.sched_class # "ts"
      PROVE  ListsOK(U, q.ts)
  <2>1. ASSUME NEW i \in Level, NEW r \in Task
        PROVE  In(r, q.ts[i]) <=> U[r].sched_class = "ts" /\ U[r].on_rq /\ ts_level(U[r]) = i
    <3>1. CASE r = p
      BY <1>2, <1>4, <3>1 DEF ListsOK
    <3>2. CASE r # p
      BY <1>2, <3>2 DEF ListsOK
    <3> QED
      BY <3>1, <3>2
  <2> QED
    BY <1>2, <2>1 DEF ListsOK
<1>5. CASE t.sched_class = "rt"
  <2>1. new = [q EXCEPT !.rt = q.rt \cup {p}, !.nr_running = q.nr_running + 1]
    BY <1>5 DEF enqueue_task
  <2>2. /\ new \in run_queue /\ SameCurr(q, new) /\ new.ts = q.ts
        /\ new.rt = q.rt \cup {p} /\ new.cfs = q.cfs
    <3> DEFINE x == q.rt \cup {p}
               n == q.nr_running + 1
    <3>1. x \in SUBSET Task /\ n \in Int
      BY <1>2, FieldTypes
    <3>2. new = [q EXCEPT !.rt = x, !.nr_running = n]
      BY <2>1
    <3> HIDE DEF x, n, new
    <3>3. new \in run_queue
      BY <1>2, <3>1, <3>2, Zenon DEF run_queue
    <3>4. new.curr = q.curr /\ new.ts = q.ts /\ new.rt = x /\ new.cfs = q.cfs
      BY <1>2, <3>1, <3>2 DEF run_queue
    <3>5. new.need_resched = q.need_resched
      BY <1>2, <3>1, <3>2 DEF run_queue
    <3> QED
      BY <3>3, <3>4, <3>5 DEF x, SameCurr
  <2>3. /\ q.rt \cup {p} = {r \in Task : U[r].on_rq /\ U[r].sched_class = "rt"}
        /\ q.cfs = {r \in Task : U[r].on_rq /\ U[r].sched_class = "fair"}
    <3>1. U[p].sched_class = "rt" /\ U[p].on_rq /\ ~ T[p].on_rq
      BY <1>5
    <3>2. q.rt \cup {p} = {r \in Task : U[r].on_rq /\ U[r].sched_class = "rt"}
      BY <1>2, <3>1, QueuedOfClass
    <3>3. q.cfs = {r \in Task : U[r].on_rq /\ U[r].sched_class = "fair"}
      BY <1>2, <3>1, QueuedOfClass
    <3> QED
      BY <3>2, <3>3
  <2> QED
    BY <1>4, <1>5, <2>2, <2>3 DEF QueuesOK
<1>6. CASE t.sched_class = "fair"
  <2>1. new = [q EXCEPT !.cfs = q.cfs \cup {p}, !.nr_running = q.nr_running + 1]
    BY <1>6 DEF enqueue_task
  <2>2. /\ new \in run_queue /\ SameCurr(q, new) /\ new.ts = q.ts
        /\ new.cfs = q.cfs \cup {p} /\ new.rt = q.rt
    <3> DEFINE x == q.cfs \cup {p}
               n == q.nr_running + 1
    <3>1. x \in SUBSET Task /\ n \in Int
      BY <1>2, FieldTypes
    <3>2. new = [q EXCEPT !.cfs = x, !.nr_running = n]
      BY <2>1
    <3> HIDE DEF x, n, new
    <3>3. new \in run_queue
      BY <1>2, <3>1, <3>2, Zenon DEF run_queue
    <3>4. new.curr = q.curr /\ new.ts = q.ts /\ new.cfs = x /\ new.rt = q.rt
      BY <1>2, <3>1, <3>2 DEF run_queue
    <3>5. new.need_resched = q.need_resched
      BY <1>2, <3>1, <3>2 DEF run_queue
    <3> QED
      BY <3>3, <3>4, <3>5 DEF x, SameCurr
  <2>3. /\ q.rt = {r \in Task : U[r].on_rq /\ U[r].sched_class = "rt"}
        /\ q.cfs \cup {p} = {r \in Task : U[r].on_rq /\ U[r].sched_class = "fair"}
    <3>1. U[p].sched_class = "fair" /\ U[p].on_rq /\ ~ T[p].on_rq
      BY <1>6
    <3>2. q.rt = {r \in Task : U[r].on_rq /\ U[r].sched_class = "rt"}
      BY <1>2, <3>1, QueuedOfClass
    <3>3. q.cfs \cup {p} = {r \in Task : U[r].on_rq /\ U[r].sched_class = "fair"}
      BY <1>2, <3>1, QueuedOfClass
    <3> QED
      BY <3>2, <3>3
  <2> QED
    BY <1>4, <1>6, <2>2, <2>3 DEF QueuesOK
<1> QED
  BY <1>1, <1>3, <1>5, <1>6

\* A change of p's task_struct that keeps ->on_rq, with p requeued.
LEMMA Requeue ==
  ASSUME NEW T, NEW q, QueuesOK(T, q), NEW p \in Task, TaskOK(T[p]),
         T \in [Task -> task_struct], NEW t, TaskOK(t), t.on_rq = T[p].on_rq,
         NEW flags, "WAKEUP" \notin flags
  PROVE  /\ QueuesOK([T EXCEPT ![p] = t], requeue(q, p, T[p], t, flags))
         /\ SameCurr(q, requeue(q, p, T[p], t, flags))
<1> DEFINE U == [T EXCEPT ![p] = t]
<1>1. U[p] = t /\ \A r \in Task \ {p} : U[r] = T[r]
  OBVIOUS
<1>2. CASE T[p].on_rq
  <2> DEFINE V == [T EXCEPT ![p].on_rq = FALSE]
             mid == dequeue_task(q, p, T[p])
  <2>1. V[p].on_rq = FALSE /\ \A r \in Task \ {p} : V[r] = T[r]
    BY DEF task_struct
  <2>2. QueuesOK(V, mid) /\ SameCurr(q, mid)
    BY <1>2, <2>1, Dequeue, Zenon
  <2>3. \A r \in Task \ {p} : U[r] = V[r]
    BY <1>1, <2>1
  <2> HIDE DEF V, mid
  <2> HIDE DEF U
  <2>4. enqueued(t, flags) = t
    BY NoBoost
  <2>5. QueuesOK(U, enqueue_task(mid, p, t, flags)) /\ SameCurr(mid, enqueue_task(mid, p, t, flags))
    BY <1>1, <1>2, <2>1, <2>2, <2>3, <2>4, Enqueue, Zenon
  <2> QED
    BY <1>2, <2>2, <2>5 DEF requeue, SameCurr, mid, U
<1>3. CASE ~ T[p].on_rq
  <2>1. requeue(q, p, T[p], t, flags) = q
    BY <1>3 DEF requeue
  <2>2. T[p].on_rq = FALSE /\ U[p].on_rq = FALSE
    BY <1>1, <1>3 DEF TaskOK, task_struct
  <2> HIDE DEF U
  <2>3. ASSUME NEW i \in Level, NEW r \in Task
        PROVE  In(r, q.ts[i]) <=> U[r].sched_class = "ts" /\ U[r].on_rq /\ ts_level(U[r]) = i
    <3>1. CASE r = p
      BY <2>2, <3>1 DEF QueuesOK, ListsOK
    <3>2. CASE r # p
      BY <1>1, <3>2 DEF QueuesOK, ListsOK
    <3> QED
      BY <3>1, <3>2
  <2>4. ListsOK(U, q.ts)
    BY <2>3 DEF QueuesOK, ListsOK
  <2>5. /\ q.rt = {r \in Task : U[r].on_rq /\ U[r].sched_class = "rt"}
        /\ q.cfs = {r \in Task : U[r].on_rq /\ U[r].sched_class = "fair"}
    BY <1>1, <2>2 DEF QueuesOK
  <2> QED
    BY <2>1, <2>4, <2>5 DEF QueuesOK, SameCurr, U
<1> QED
  BY <1>2, <1>3

\* Changes that move no queued task.
LEMMA KeepQueues ==
  ASSUME NEW T, NEW q, QueuesOK(T, q), NEW U,
         \A r \in Task :
           /\ U[r].on_rq = T[r].on_rq
           /\ T[r].on_rq => U[r].sched_class = T[r].sched_class /\ U[r].prio = T[r].prio
  PROVE  QueuesOK(U, q)
<1>1. ASSUME NEW i \in Level, NEW r \in Task
      PROVE  In(r, q.ts[i]) <=> U[r].sched_class = "ts" /\ U[r].on_rq /\ ts_level(U[r]) = i
  BY DEF QueuesOK, ListsOK, ts_level
<1>2. ListsOK(U, q.ts)
  BY <1>1 DEF QueuesOK, ListsOK
<1>3. /\ q.rt = {r \in Task : U[r].on_rq /\ U[r].sched_class = "rt"}
      /\ q.cfs = {r \in Task : U[r].on_rq /\ U[r].sched_class = "fair"}
  BY DEF QueuesOK
<1> QED
  BY <1>2, <1>3 DEF QueuesOK

\* resched_curr() touches no queue.
LEMMA SetNeedResched ==
  ASSUME NEW T, NEW q, QueuesOK(T, q), NEW b
  PROVE  QueuesOK(T, resched(q, b)) /\ resched(q, b).curr = q.curr
<1> DEFINE new == resched(q, b)
<1>1. q \in run_queue
  BY DEF QueuesOK
<1>2. (q.need_resched \/ b) \in BOOLEAN
  OBVIOUS
<1>3. new \in run_queue
  BY <1>1, <1>2, Zenon DEF resched, run_queue
<1>4. new.curr = q.curr /\ new.ts = q.ts /\ new.rt = q.rt /\ new.cfs = q.cfs
  BY <1>1 DEF resched, run_queue
<1> QED
  BY <1>3, <1>4 DEF QueuesOK

\* Neither does making p the running task.
LEMMA SetCurr ==
  ASSUME NEW T, NEW q, QueuesOK(T, q), NEW p \in Task \cup {Idle}
  PROVE  LET new == [q EXCEPT !.curr = p, !.need_resched = FALSE]
         IN  QueuesOK(T, new) /\ new.curr = p
<1> DEFINE new == [q EXCEPT !.curr = p, !.need_resched = FALSE]
<1>1. q \in run_queue
  BY DEF QueuesOK
<1>2. new \in run_queue
  BY <1>1, Zenon DEF run_queue
<1>3. new.curr = p /\ new.ts = q.ts /\ new.rt = q.rt /\ new.cfs = q.cfs
  BY <1>1 DEF run_queue
<1> QED
  BY <1>2, <1>3 DEF QueuesOK

\* pick_next_task() returns rq->idle or a queued task.
LEMMA PickQueued ==
  ASSUME NEW T, NEW q, QueuesOK(T, q), NEW prev, NEW next \in pick_next_task(T, q, prev)
  PROVE  next \in Task \cup {Idle} /\ (next # Idle => T[next].on_rq)
<1>1. /\ q \in run_queue
      /\ q.rt = {p \in Task : T[p].on_rq /\ T[p].sched_class = "rt"}
      /\ q.cfs = {p \in Task : T[p].on_rq /\ T[p].sched_class = "fair"}
  BY DEF QueuesOK
<1>2. CASE next \in pick_next_task_fair_idle(q)
  BY <1>1, <1>2 DEF pick_next_task_fair_idle
<1>3. CASE next \in pick_next_task_rt(T, q)
  BY <1>1, <1>3 DEF pick_next_task_rt
<1>4. CASE next \in pick_next_task_ts(q.ts)
  <2>1. PICK i \in Level : q.ts[i] # <<>> /\ next = Head(q.ts[i])
    BY <1>4 DEF pick_next_task_ts
  <2>2. q.ts[i] \in Seq(Task)
    BY DEF QueuesOK, ListsOK
  <2>3. Len(q.ts[i]) \in Nat \ {0} /\ 1 \in DOMAIN q.ts[i] /\ next = q.ts[i][1] /\ next \in Task
    BY <2>1, <2>2
  <2>4. In(next, q.ts[i])
    BY <2>3 DEF In
  <2> QED
    BY <2>3, <2>4 DEF QueuesOK, ListsOK
<1> QED
  BY <1>2, <1>3, <1>4 DEF pick_next_task

-----------------------------------------------------------------------------
(* The inductive invariant.                                                *)

\* The child of a task in fork() is being created, and the child of no other task.
ForkOK(T) ==
    /\ \A p \in Task : T[p].child # Idle => T[T[p].child].state \in Fresh
    /\ \A p, r \in Task : T[p].child = T[r].child /\ T[p].child # Idle => p = r

\* A dead task is not in fork(), and is queued only while it is the running one.
DeadOK(T, curr) ==
    \A p \in Task : T[p].state = "DEAD" =>
      T[p].child = Idle /\ (T[p].on_rq => p = curr)

StateOK(T, q) ==
    /\ T \in [Task -> task_struct]
    /\ \A p \in Task : TaskOK(T[p]) /\ RunOK(T[p])
    /\ QueuesOK(T, q)
    /\ q.curr # Idle => T[q.curr].on_rq
    /\ ForkOK(T)
    /\ DeadOK(T, q.curr)

IInv == StateOK(task, rq)

\* The task_struct of an unused slot, and a task_struct whose ->state and
\* ->on_rq change.
LEMMA UnusedTask == TaskOK(unused_task) /\ RunOK(unused_task) /\ unused_task.child = Idle
                    /\ unused_task.state = "DEAD" /\ unused_task.on_rq = FALSE
BY ConstAssumption
   DEF TaskOK, RunOK, Fresh, unused_task, task_struct, Policy, State, NICE_TO_PRIO, rt_prio,
       MAX_RT_PRIO, MAX_PRIO

\* A task_struct stays sound when ->state changes.
LEMMA StateChange ==
  ASSUME NEW t, TaskOK(t), NEW s \in State
  PROVE  LET u == [t EXCEPT !.state = s]
         IN  /\ TaskOK(u) /\ u.state = s /\ u.on_rq = t.on_rq /\ u.child = t.child
             /\ u.prio = t.prio /\ u.sched_class = t.sched_class
<1> DEFINE u == [t EXCEPT !.state = s]
<1>1. t \in task_struct
  BY DEF TaskOK
<1>2. u \in task_struct
  BY <1>1 DEF task_struct
<1>3. /\ u.state = s /\ u.child = t.child /\ u.prio = t.prio /\ u.sched_class = t.sched_class
      /\ u.policy = t.policy /\ u.time_slice = t.time_slice
  BY <1>1 DEF task_struct
<1>4. u.on_rq = t.on_rq
  BY <1>1 DEF task_struct
<1> QED
  BY <1>2, <1>3, <1>4 DEF TaskOK

\* A task_struct stays sound when ->on_rq changes.
LEMMA OnRqChange ==
  ASSUME NEW t, TaskOK(t), NEW b \in BOOLEAN
  PROVE  LET u == [t EXCEPT !.on_rq = b]
         IN  /\ TaskOK(u) /\ u.state = t.state /\ u.on_rq = b /\ u.child = t.child
             /\ u.prio = t.prio /\ u.sched_class = t.sched_class
<1> DEFINE u == [t EXCEPT !.on_rq = b]
<1>1. t \in task_struct
  BY DEF TaskOK
<1>2. u \in task_struct
  BY <1>1 DEF task_struct
<1>3. /\ u.state = t.state /\ u.child = t.child /\ u.prio = t.prio /\ u.sched_class = t.sched_class
      /\ u.policy = t.policy /\ u.time_slice = t.time_slice
  BY <1>1 DEF task_struct
<1>4. u.on_rq = b
  BY <1>1 DEF task_struct
<1> QED
  BY <1>2, <1>3, <1>4 DEF TaskOK

\* Replacing the task_struct of a task, which stays one that is being created
\* if it is one.
LEMMA ForkKeep ==
  ASSUME NEW T \in [Task -> task_struct], ForkOK(T), NEW p \in Task, NEW t,
         t.child = T[p].child, T[p].state \in Fresh => t.state \in Fresh
  PROVE  ForkOK([T EXCEPT ![p] = t])
<1> DEFINE U == [T EXCEPT ![p] = t]
<1>1. U[p] = t /\ \A r \in Task \ {p} : U[r] = T[r]
  OBVIOUS
<1>2. \A r \in Task : U[r].child = T[r].child
  BY <1>1
<1>3. \A r \in Task : T[r].child \in Task \cup {Idle}
  BY DEF task_struct
<1> HIDE DEF U
<1>4. ASSUME NEW r \in Task, U[r].child # Idle PROVE U[U[r].child].state \in Fresh
  BY <1>1, <1>2, <1>3, <1>4 DEF ForkOK
<1> QED
  BY <1>2, <1>4 DEF ForkOK, U

\* __schedule(): a dead task, which is not preempted, leaves the run queue.
LEMMA Switch ==
  ASSUME NEW T \in [Task -> task_struct], NEW q, NEW preempt \in BOOLEAN,
         QueuesOK(T, q), ForkOK(T), DeadOK(T, q.curr),
         \A p \in Task : TaskOK(T[p]) /\ RunOK(T[p]),
         q.curr # Idle => T[q.curr].on_rq /\ (T[q.curr].state = "DEAD" => ~ preempt),
         switch(T, q, preempt)
  PROVE  StateOK(task', rq')
<1> DEFINE prev == q.curr
           blocks == ~ preempt /\ prev # Idle /\ T[prev].state # "RUNNING"
           off == [T EXCEPT ![prev].on_rq = FALSE]
           up  == [T EXCEPT ![prev].state = "RUNNING"]
           T1(sig) == IF ~ blocks THEN T ELSE IF sig THEN up ELSE off
           q1(sig) == IF blocks /\ ~ sig THEN dequeue_task(q, prev, T[prev]) ELSE q
<1>1. PICK sig \in BOOLEAN :
        /\ sig => blocks /\ T[prev].state = "INTERRUPTIBLE"
        /\ task' = finish_task_switch(T1(sig), prev)
        /\ \E next \in pick_next_task(T1(sig), q1(sig), prev) :
             rq' = [q1(sig) EXCEPT !.curr = next, !.need_resched = FALSE]
  BY Zenon DEF switch
<1>2. PICK next \in pick_next_task(T1(sig), q1(sig), prev) :
        rq' = [q1(sig) EXCEPT !.curr = next, !.need_resched = FALSE]
  BY <1>1, Zenon
<1> DEFINE U == T1(sig)
           qq == q1(sig)
<1>a. prev \in Task \cup {Idle}
  BY DEF QueuesOK, run_queue
<1>c. prev # Idle => prev \in Task /\ T[prev].state \notin Fresh
  BY <1>a DEF RunOK
<1>3. /\ U \in [Task -> task_struct] /\ QueuesOK(U, qq) /\ ForkOK(U)
      /\ \A p \in Task : TaskOK(U[p]) /\ RunOK(U[p])
      /\ \A p \in Task : U[p].state = "DEAD" => U[p].child = Idle /\ ~ U[p].on_rq
  <2>1. CASE ~ blocks
    <3>1. U = T /\ qq = q
      BY <2>1
    <3>2. prev # Idle => T[prev].state # "DEAD"
      BY <2>1
    <3>3. \A p \in Task : T[p].state = "DEAD" => T[p].child = Idle /\ ~ T[p].on_rq
      BY <3>2, ConstAssumption DEF DeadOK
    <3> QED
      BY <3>1, <3>3, Zenon
  <2>2. CASE blocks /\ sig
    <3>1. /\ U = up /\ qq = q /\ prev \in Task /\ T[prev].state = "INTERRUPTIBLE"
          /\ T[prev].on_rq
      BY <2>2, <1>1, <1>a
    <3> DEFINE u == [T[prev] EXCEPT !.state = "RUNNING"]
    <3>2. /\ TaskOK(u) /\ u.state = "RUNNING" /\ u.on_rq = T[prev].on_rq /\ u.child = T[prev].child
          /\ u.prio = T[prev].prio /\ u.sched_class = T[prev].sched_class
      BY <3>1, StateChange, Zenon DEF State
    <3>3. U = [T EXCEPT ![prev] = u]
      BY <3>1
    <3> HIDE DEF u
    <3>4. U[prev] = u /\ \A r \in Task \ {prev} : U[r] = T[r]
      BY <3>1, <3>3
    <3>5. U \in [Task -> task_struct]
      BY <3>2, <3>3, Zenon DEF TaskOK
    <3>6. ForkOK(U)
      BY <1>c, <3>1, <3>2, <3>3, ForkKeep, Zenon
    <3> HIDE DEF U, qq
    <3>7. QueuesOK(U, q)
      <4>1. \A r \in Task : /\ U[r].on_rq = T[r].on_rq
                            /\ U[r].sched_class = T[r].sched_class /\ U[r].prio = T[r].prio
        BY <3>2, <3>4
      <4> QED
        BY <4>1, KeepQueues
    <3>8. RunOK(u)
      BY <3>1, <3>2 DEF RunOK, Fresh
    <3>9. \A p \in Task : U[p].state = "DEAD" => U[p].child = Idle /\ ~ U[p].on_rq
      BY <3>2, <3>4 DEF DeadOK
    <3> QED
      BY <3>1, <3>2, <3>4, <3>5, <3>6, <3>7, <3>8, <3>9
  <2>3. CASE blocks /\ ~ sig
    <3>1. U = off /\ qq = dequeue_task(q, prev, T[prev]) /\ prev \in Task /\ T[prev].on_rq
      BY <2>3, <1>a
    <3> DEFINE u == [T[prev] EXCEPT !.on_rq = FALSE]
    <3>2. /\ TaskOK(u) /\ u.state = T[prev].state /\ u.on_rq = FALSE /\ u.child = T[prev].child
      BY <3>1, OnRqChange, Zenon
    <3>3. U = [T EXCEPT ![prev] = u]
      BY <3>1
    <3> HIDE DEF u
    <3>4. U[prev] = u /\ \A r \in Task \ {prev} : U[r] = T[r]
      BY <3>1, <3>3
    <3>5. U \in [Task -> task_struct]
      BY <3>2, <3>3, Zenon DEF TaskOK
    <3>6. ForkOK(U)
      BY <3>1, <3>2, <3>3, ForkKeep, Zenon
    <3>7. T[prev].state # "RUNNING"
      BY <2>3
    <3> HIDE DEF U, qq
    <3>8. QueuesOK(U, qq)
      BY <3>1, <3>2, <3>4, Dequeue, Zenon
    <3>9. RunOK(u)
      BY <3>2, <3>7 DEF RunOK
    <3>10. \A p \in Task : U[p].state = "DEAD" => U[p].child = Idle /\ ~ U[p].on_rq
      BY <3>1, <3>2, <3>4 DEF DeadOK
    <3> QED
      BY <3>1, <3>2, <3>4, <3>5, <3>6, <3>8, <3>9, <3>10, Zenon
  <2> QED
    BY <2>1, <2>2, <2>3, Zenon
<1>4. task' = finish_task_switch(U, prev) /\ rq' = [qq EXCEPT !.curr = next, !.need_resched = FALSE]
  BY <1>1, <1>2
<1>b. next \in pick_next_task(U, qq, prev)
  OBVIOUS
<1> HIDE DEF U, qq, T1, q1
<1>5. next \in Task \cup {Idle} /\ (next # Idle => U[next].on_rq)
  BY <1>3, <1>b, PickQueued
<1>6. QueuesOK(U, rq') /\ rq'.curr = next
  BY <1>3, <1>4, <1>5, SetCurr, Zenon
<1>7. CASE prev # Idle /\ U[prev].state = "DEAD"
  <2>1. task' = [U EXCEPT ![prev] = unused_task] /\ prev \in Task
    BY <1>4, <1>7, <1>a DEF finish_task_switch
  <2>2. task'[prev] = unused_task /\ \A r \in Task \ {prev} : task'[r] = U[r]
    BY <1>3, <2>1
  <2>3. task' \in [Task -> task_struct]
    BY <1>3, <2>1, UnusedTask DEF TaskOK
  <2>4. unused_task.child = U[prev].child /\ U[prev].state \notin Fresh /\ ~ U[prev].on_rq
    BY <1>3, <1>7, <2>1, UnusedTask DEF Fresh
  <2>5. ForkOK(task')
    BY <1>3, <2>1, <2>4, ForkKeep, Zenon
  <2>6. QueuesOK(task', rq')
    <3>1. U[prev].on_rq = FALSE
      BY <1>3, <2>1, <2>4 DEF TaskOK, task_struct
    <3>2. \A r \in Task :
            /\ task'[r].on_rq = U[r].on_rq
            /\ U[r].on_rq => task'[r].sched_class = U[r].sched_class /\ task'[r].prio = U[r].prio
      BY <2>2, <3>1, UnusedTask, Zenon
    <3> QED
      BY <1>6, <3>2, KeepQueues
  <2>7. next # Idle => task'[next].on_rq
    BY <1>5, <2>2, <2>4
  <2>8. \A r \in Task : TaskOK(task'[r]) /\ RunOK(task'[r])
    BY <1>3, <2>2, UnusedTask
  <2>9. DeadOK(task', rq'.curr)
    BY <1>3, <2>2, UnusedTask DEF DeadOK
  <2> QED
    BY <1>6, <2>3, <2>5, <2>6, <2>7, <2>8, <2>9 DEF StateOK
<1>8. CASE ~ (prev # Idle /\ U[prev].state = "DEAD")
  <2>1. task' = U
    BY <1>4, <1>8 DEF finish_task_switch
  <2>2. DeadOK(U, rq'.curr)
    BY <1>3 DEF DeadOK
  <2> QED
    BY <1>3, <1>5, <1>6, <2>1, <2>2 DEF StateOK
<1> QED
  BY <1>7, <1>8

\* A change of one task_struct, with the run queue it leads to.
LEMMA Replace ==
  ASSUME NEW T, NEW q, StateOK(T, q), NEW p \in Task, NEW t, TaskOK(t), RunOK(t),
         t.child = T[p].child, T[p].state \in Fresh => t.state \in Fresh,
         t.state = "DEAD" => t.child = Idle /\ (t.on_rq => p = q.curr),
         NEW q2, QueuesOK([T EXCEPT ![p] = t], q2), q2.curr = q.curr,
         T[p].on_rq => t.on_rq
  PROVE  StateOK([T EXCEPT ![p] = t], q2)
<1> DEFINE U == [T EXCEPT ![p] = t]
<1>1. T \in [Task -> task_struct] /\ ForkOK(T)
  BY DEF StateOK
<1>2. U[p] = t /\ \A r \in Task \ {p} : U[r] = T[r]
  BY <1>1
<1>3. U \in [Task -> task_struct]
  BY <1>1 DEF TaskOK
<1>4. ForkOK(U)
  BY <1>1, ForkKeep, Zenon
<1> HIDE DEF U
<1>5. \A r \in Task : TaskOK(U[r]) /\ RunOK(U[r])
  BY <1>2 DEF StateOK
<1>6. q2.curr # Idle => U[q2.curr].on_rq
  <2>1. q2.curr \in Task \cup {Idle}
    BY DEF QueuesOK, run_queue
  <2> QED
    BY <1>2, <2>1 DEF StateOK
<1>7. DeadOK(U, q2.curr)
  BY <1>2 DEF StateOK, DeadOK
<1> QED
  BY <1>3, <1>4, <1>5, <1>6, <1>7 DEF StateOK, U

\* list_move_tail() of a queued TS task to the list of its new prio.
LEMMA MoveTail ==
  ASSUME NEW T \in [Task -> task_struct], NEW ts, ListsOK(T, ts), NEW p \in Task,
         NEW t, t.sched_class = "ts", t.on_rq, NEW level \in Level, ts_level(t) = level
  PROVE  ListsOK([T EXCEPT ![p] = t], list_move_tail(ts, level, p))
<1> DEFINE U == [T EXCEPT ![p] = t]
           V == [T EXCEPT ![p].on_rq = FALSE]
           mid == dequeue_task_ts(ts, p)
<1>1. U[p] = t /\ \A r \in Task \ {p} : U[r] = T[r] /\ U[r] = V[r]
  OBVIOUS
<1>2. V[p].on_rq = FALSE /\ \A r \in Task \ {p} : V[r] = T[r]
  BY DEF task_struct
<1> HIDE DEF U, V, mid
<1>3. ListsOK(V, mid)
  BY <1>2, DequeueLists DEF mid
<1>4. ListsOK(U, list_add_tail(mid, level, p))
  BY <1>1, <1>2, <1>3, EnqueueLists
<1> QED
  BY <1>4 DEF list_move_tail, mid, U

\* What the inductive invariant says, in the form that the steps below use.
LEMMA Types ==
  ASSUME IInv
  PROVE  /\ task \in [Task -> task_struct] /\ rq \in run_queue
         /\ rq.curr \in Task \cup {Idle}
         /\ \A p \in Task : TaskOK(task[p]) /\ RunOK(task[p])
         /\ QueuesOK(task, rq) /\ ForkOK(task) /\ DeadOK(task, rq.curr)
         /\ rq.curr # Idle => rq.curr \in Task /\ task[rq.curr].on_rq
BY DEF IInv, StateOK, QueuesOK, run_queue

\* schedule() preserves the invariant.
LEMMA ScheduleStep ==
  ASSUME IInv, NEW preempt \in BOOLEAN, schedule(preempt)
  PROVE  IInv'
<1>1. rq.curr # Idle /\ task[rq.curr].state = "DEAD" => ~ preempt
  BY DEF schedule
<1>2. switch(task, rq, preempt)
  BY DEF schedule
<1> QED
  BY <1>1, <1>2, Types, Switch DEF IInv

\* scheduler_tick(), with task_tick_ts(), preserves the invariant.
LEMMA TickStep ==
  ASSUME IInv, scheduler_tick
  PROVE  IInv'
<1>1. CASE UNCHANGED vars
  BY <1>1 DEF IInv, vars, StateOK, QueuesOK, ListsOK, ForkOK, DeadOK
<1>2. CASE \E r \in BOOLEAN : rq' = resched(rq, r) /\ task' = task
  <2>1. PICK r \in BOOLEAN : rq' = resched(rq, r) /\ task' = task
    BY <1>2
  <2>2. QueuesOK(task, resched(rq, r)) /\ resched(rq, r).curr = rq.curr
    BY Types, SetNeedResched
  <2>3. QueuesOK(task, rq') /\ rq'.curr = rq.curr
    BY <2>1, <2>2
  <2>4. StateOK(task, rq')
    BY <2>3 DEF IInv, StateOK
  <2> QED
    BY <2>1, <2>4 DEF IInv
<1>3. CASE ClassOf(task, rq.curr) = "ts" /\ task_tick_ts(rq.curr)
  <2> DEFINE p == rq.curr
             t == task[p]
             left == decrement(t.time_slice)
             after == demoted(ts_level(t))
  <2>1. p \in Task /\ t.sched_class = "ts"
    BY <1>3, Types DEF ClassOf
  <2>2. TaskOK(t) /\ RunOK(t) /\ t \in task_struct /\ t.on_rq
    BY <2>1, Types, ConstAssumption DEF TaskOK
  <2>a. t.state = "DEAD" => t.child = Idle
    BY <2>1, Types DEF DeadOK
  <2>3. left \in 0..4 * SliceUnit /\ left # t.time_slice
    BY <2>2, ConstAssumption DEF TaskOK, decrement
  <2>4. CASE left # 0 /\ task' = [task EXCEPT ![p].time_slice = left] /\ rq' = rq
    <3> DEFINE u == [t EXCEPT !.time_slice = left]
    <3>1. left \in 1..4 * SliceUnit /\ left \in 0..UINT_MAX
      BY <2>3, <2>4, ConstAssumption
    <3> HIDE DEF left
    <3>2. /\ u \in task_struct /\ u.time_slice = left /\ u.child = t.child /\ u.state = t.state
          /\ u.prio = t.prio /\ u.sched_class = t.sched_class /\ u.policy = t.policy
      BY <2>2, <3>1 DEF task_struct
    <3>3. u.on_rq = t.on_rq
      BY <2>2, <3>1, Zenon DEF task_struct
    <3>4. TaskOK(u) /\ RunOK(u)
      BY <2>2, <3>1, <3>2, <3>3 DEF TaskOK, RunOK
    <3>5. task' = [task EXCEPT ![p] = u]
      BY <2>1, <2>4
    <3> HIDE DEF u
    <3>6. QueuesOK([task EXCEPT ![p] = u], rq)
      <4>1. \A r \in Task : /\ [task EXCEPT ![p] = u][r].on_rq = task[r].on_rq
                            /\ [task EXCEPT ![p] = u][r].sched_class = task[r].sched_class
                            /\ [task EXCEPT ![p] = u][r].prio = task[r].prio
        BY <2>1, <3>2, <3>3, Types
      <4> QED
        BY <4>1, Types, KeepQueues, Zenon
    <3>7. StateOK([task EXCEPT ![p] = u], rq)
      BY <2>1, <2>2, <2>a, <3>2, <3>3, <3>4, <3>6, Replace, Zenon DEF IInv
    <3> QED
      BY <2>4, <3>5, <3>7, Zenon DEF IInv
  <2>5. CASE /\ task' = [task EXCEPT ![p] = [t EXCEPT !.prio = 139 - after,
                                               !.time_slice = get_rr_interval_ts(after)]]
             /\ rq' = [rq EXCEPT !.ts = list_move_tail(@, after, p), !.need_resched = TRUE]
    <3> DEFINE slice == get_rr_interval_ts(after)
               prio == 139 - after
               u == [t EXCEPT !.prio = prio, !.time_slice = slice]
    <3>1. ts_level(t) \in Level
      BY <2>1, <2>2, LevelFact
    <3>2. after \in 0..29
      BY <3>1 DEF demoted, Level
    <3>3. slice \in 1..4 * SliceUnit /\ slice \in 0..UINT_MAX
      <4>1. after \div 10 \in 0..2
        BY <3>2
      <4>2. 4 - after \div 10 \in {2, 3, 4}
        BY <4>1
      <4> QED
        BY <4>2, ConstAssumption DEF get_rr_interval_ts
    <3>4. prio \in 100..139 /\ prio \in 0..MAX_PRIO - 1 /\ 139 - prio = after /\ after \in Level
      BY <3>2 DEF Level, MAX_PRIO
    <3> HIDE DEF slice, after, prio
    <3>5. /\ u \in task_struct /\ u.time_slice = slice /\ u.child = t.child /\ u.state = t.state
          /\ u.prio = prio /\ u.sched_class = t.sched_class /\ u.policy = t.policy
      BY <2>2, <3>3, <3>4, Zenon DEF task_struct
    <3>6. u.on_rq = t.on_rq
      BY <2>2, <3>3, <3>4, Zenon DEF task_struct
    <3>7. TaskOK(u) /\ RunOK(u)
      BY <2>1, <2>2, <3>3, <3>4, <3>5, <3>6 DEF TaskOK, RunOK, rt_prio, MAX_RT_PRIO
    <3> HIDE DEF u
    <3> DEFINE U == [task EXCEPT ![p] = u]
               lists == list_move_tail(rq.ts, after, p)
    <3>8. ts_level(u) = after
      BY <3>4, <3>5 DEF ts_level
    <3>9. ListsOK(U, lists)
      BY <2>1, <2>2, <3>4, <3>5, <3>6, <3>8, Types, MoveTail, Zenon DEF QueuesOK
    <3>10. task' = U /\ rq' = [rq EXCEPT !.ts = lists, !.need_resched = TRUE]
      BY <2>5 DEF u, slice, prio
    <3>11. lists \in [Level -> Seq(Task)]
      BY <3>9 DEF ListsOK
    <3>12. U[p] = u /\ \A r \in Task \ {p} : U[r] = task[r]
      BY <2>1, Types
    <3> HIDE DEF lists, U
    <3>13. rq' \in run_queue
      BY <3>10, <3>11, Types, Zenon DEF run_queue
    <3>14. rq'.ts = lists /\ rq'.rt = rq.rt /\ rq'.cfs = rq.cfs /\ rq'.curr = rq.curr
      BY <3>10, <3>11, Types DEF run_queue
    <3>15. /\ rq.rt = {r \in Task : U[r].on_rq /\ U[r].sched_class = "rt"}
           /\ rq.cfs = {r \in Task : U[r].on_rq /\ U[r].sched_class = "fair"}
      BY <2>1, <3>5, <3>12, Types DEF QueuesOK
    <3>16. QueuesOK(U, rq')
      BY <3>9, <3>13, <3>14, <3>15 DEF QueuesOK
    <3>17. StateOK(U, rq')
      BY <2>1, <2>2, <2>a, <3>5, <3>6, <3>7, <3>14, <3>16, Replace, Zenon DEF IInv, U
    <3> QED
      BY <3>10, <3>17 DEF IInv
  <2> QED
    BY <1>1, <1>3, <2>4, <2>5 DEF task_tick_ts
<1> QED
  BY <1>1, <1>2, <1>3 DEF scheduler_tick

\* do_sched_yield() preserves the invariant.
LEMMA YieldStep ==
  ASSUME IInv, do_sched_yield
  PROVE  IInv'
<1> DEFINE p == rq.curr
           t == task[p]
           lists == yield_task_ts(rq.ts, p, t)
           q == [rq EXCEPT !.ts = lists]
<1>1. p \in Task /\ t.on_rq /\ t.state = "RUNNING" /\ TaskOK(t) /\ t \in task_struct
  BY Types DEF do_sched_yield, InUserMode, TaskOK
<1>2. t.sched_class = "ts" /\ task' = task /\ rq' = q
  BY DEF do_sched_yield
<1>3. ts_level(t) \in Level
  BY <1>1, <1>2, LevelFact
<1>4. task = [task EXCEPT ![p] = t]
  BY <1>1, Types
<1>5. ListsOK(task, rq.ts)
  BY Types DEF QueuesOK
<1>6. ListsOK([task EXCEPT ![p] = t], list_move_tail(rq.ts, ts_level(t), p))
  BY <1>1, <1>2, <1>3, <1>5, Types, MoveTail, Zenon
<1>7. ListsOK(task, lists)
  BY <1>4, <1>6 DEF yield_task_ts
<1>8. lists \in [Level -> Seq(Task)]
  BY <1>7 DEF ListsOK
<1> HIDE DEF lists
<1>9. /\ q \in run_queue /\ SameCurr(rq, q)
      /\ q.ts = lists /\ q.rt = rq.rt /\ q.cfs = rq.cfs
  BY <1>8, Types, UpdateTs
<1> HIDE DEF q
<1>10. QueuesOK(task, q) /\ q.curr = rq.curr
  BY <1>7, <1>9, Types DEF QueuesOK, SameCurr
<1>11. StateOK(task, q)
  BY <1>10 DEF IInv, StateOK
<1> QED
  BY <1>2, <1>11 DEF IInv

\* A step that changes ->state of one task in a way that keeps it queued.
LEMMA StateStep ==
  ASSUME IInv, NEW p \in Task, task[p].on_rq, NEW s \in State, s \notin Fresh,
         s = "DEAD" => p = rq.curr /\ task[p].child = Idle,
         NEW q, QueuesOK(task, q), q.curr = rq.curr
  PROVE  StateOK([task EXCEPT ![p].state = s], q)
<1> DEFINE u == [task[p] EXCEPT !.state = s]
<1>1. TaskOK(task[p]) /\ task[p].state \notin Fresh
  BY Types DEF RunOK
<1>2. /\ TaskOK(u) /\ u.state = s /\ u.on_rq = task[p].on_rq /\ u.child = task[p].child
      /\ u.prio = task[p].prio /\ u.sched_class = task[p].sched_class
  BY <1>1, StateChange, Zenon
<1>3. RunOK(u)
  BY <1>2 DEF RunOK
<1>4. [task EXCEPT ![p].state = s] = [task EXCEPT ![p] = u]
  OBVIOUS
<1> HIDE DEF u
<1> DEFINE U == [task EXCEPT ![p] = u]
<1>5. \A r \in Task :
        /\ U[r].on_rq = task[r].on_rq
        /\ task[r].on_rq => U[r].sched_class = task[r].sched_class /\ U[r].prio = task[r].prio
  BY <1>2, Types, Zenon
<1>6. QueuesOK(U, q)
  <2> HIDE DEF U
  <2> QED
    BY <1>5, KeepQueues, Zenon
<1>7. StateOK(task, rq) /\ u.on_rq
  BY <1>2 DEF IInv
<1>8. StateOK(U, q)
  BY <1>1, <1>2, <1>3, <1>6, <1>7, Replace
<1> QED
  BY <1>4, <1>8

\* set_current_state() preserves the invariant.
LEMMA SetStateStep ==
  ASSUME IInv, set_current_state
  PROVE  IInv'
<1>1. rq.curr \in Task /\ task[rq.curr].on_rq
  BY Types DEF set_current_state
<1>2. StateOK([task EXCEPT ![rq.curr].state = "INTERRUPTIBLE"], rq)
  BY <1>1, Types, StateStep, Zenon DEF State, Fresh
<1> QED
  BY <1>2 DEF set_current_state, IInv

\* do_task_dead() preserves the invariant.
LEMMA DeadStep ==
  ASSUME IInv, do_task_dead
  PROVE  IInv'
<1>1. rq.curr \in Task /\ task[rq.curr].on_rq /\ task[rq.curr].child = Idle
  BY Types DEF do_task_dead, InUserMode
<1>2. StateOK([task EXCEPT ![rq.curr].state = "DEAD"], rq)
  BY <1>1, Types, StateStep, Zenon DEF State, Fresh
<1> QED
  BY <1>2 DEF do_task_dead, IInv

\* activate_task() and check_preempt_curr(), from the task_structs T.
LEMMA ActivateStep ==
  ASSUME NEW T \in [Task -> task_struct], QueuesOK(T, rq),
         \A r \in Task : TaskOK(T[r]) /\ RunOK(T[r]),
         rq.curr # Idle => T[rq.curr].on_rq, DeadOK(T, rq.curr),
         NEW p \in Task, T[p].on_rq = FALSE, NEW t0, NEW flags,
         TaskOK(enqueued(t0, flags)), enqueued(t0, flags).sched_class = t0.sched_class,
         ForkOK([T EXCEPT ![p] = activated(enqueued(t0, flags))]),
         activate_task(T, p, t0, flags)
  PROVE  StateOK(task', rq')
<1> DEFINE t == enqueued(t0, flags)
           u == activated(t)
           U == [T EXCEPT ![p] = u]
           q == enqueue_task(rq, p, t0, flags)
<1>1. PICK r \in check_preempt_curr(U, q, p) : task' = U /\ rq' = resched(q, r)
  BY DEF activate_task
<1>2. t \in task_struct /\ TaskOK(t) /\ t.sched_class = t0.sched_class
  BY DEF TaskOK
<1>a. /\ task' = U /\ ForkOK(U)
  BY <1>1
<1> HIDE DEF t
<1>3. u \in task_struct
  BY <1>2, Zenon DEF activated, task_struct, State
<1>4. /\ u.state = "RUNNING" /\ u.prio = t.prio /\ u.sched_class = t.sched_class
      /\ u.policy = t.policy /\ u.time_slice = t.time_slice
  BY <1>2 DEF activated, task_struct
<1>5. u.on_rq
  BY <1>2 DEF activated, task_struct
<1>6. TaskOK(u) /\ RunOK(u)
  BY <1>2, <1>3, <1>4, <1>5 DEF TaskOK, RunOK, Fresh
<1> HIDE DEF u
<1>7. U[p] = u /\ \A s \in Task \ {p} : U[s] = T[s]
  BY Zenon
<1>8. U \in [Task -> task_struct]
  BY <1>3
<1> HIDE DEF U
<1>10. QueuesOK(U, q) /\ SameCurr(rq, q)
  <2>1. t0.sched_class = U[p].sched_class /\ enqueued(t0, flags).prio = U[p].prio
    BY <1>2, <1>4, <1>7 DEF t
  <2> QED
    BY <1>5, <1>6, <1>7, <2>1, Enqueue, Zenon
<1> HIDE DEF q
<1>11. QueuesOK(U, rq') /\ rq'.curr = rq.curr
  BY <1>1, <1>10, SetNeedResched DEF SameCurr
<1>12. rq'.curr # Idle => U[rq'.curr].on_rq
  <2>1. rq.curr \in Task \cup {Idle}
    BY DEF QueuesOK, run_queue
  <2> QED
    BY <1>5, <1>7, <1>11, <2>1
<1>13. \A s \in Task : TaskOK(U[s]) /\ RunOK(U[s])
  BY <1>6, <1>7
<1>14. DeadOK(U, rq'.curr)
  BY <1>4, <1>7, <1>11 DEF DeadOK
<1> QED
  BY <1>a, <1>8, <1>11, <1>12, <1>13, <1>14 DEF StateOK

\* Waking up from any list leads to one of the ten best ones.
LEMMA LUTRange == \A i \in Level : SleepPrioLUT[i] \in 30..39
BY DEF SleepPrioLUT, Level

\* ->enqueue_task(), with or without the wakeup boost, yields a sound task_struct.
LEMMA Enqueued ==
  ASSUME NEW t, TaskOK(t), NEW flags
  PROVE  /\ TaskOK(enqueued(t, flags))
         /\ enqueued(t, flags).child = t.child
         /\ enqueued(t, flags).sched_class = t.sched_class
<1>1. CASE t.sched_class # "ts" \/ "WAKEUP" \notin flags
  BY <1>1 DEF enqueued
<1>2. CASE t.sched_class = "ts" /\ "WAKEUP" \in flags
  <2> DEFINE prio == 139 - SleepPrioLUT[ts_level(t)]
             u == [t EXCEPT !.prio = prio]
  <2>1. enqueued(t, flags) = u
    BY <1>2 DEF enqueued
  <2>2. ts_level(t) \in Level
    BY <1>2, LevelFact
  <2>3. prio \in 100..109 /\ prio \in 0..MAX_PRIO - 1 /\ ~ rt_prio(prio)
    BY <2>2, LUTRange DEF MAX_PRIO, rt_prio, MAX_RT_PRIO
  <2> HIDE DEF prio
  <2>4. t \in task_struct
    BY DEF TaskOK
  <2>5. /\ u \in task_struct /\ u.prio = prio /\ u.sched_class = t.sched_class
        /\ u.policy = t.policy /\ u.time_slice = t.time_slice /\ u.child = t.child
    BY <2>3, <2>4 DEF task_struct
  <2> HIDE DEF u
  <2> QED
    BY <1>2, <2>1, <2>3, <2>5 DEF TaskOK
<1> QED
  BY <1>1, <1>2

\* try_to_wake_up() preserves the invariant, in both of its branches.
LEMMA WakeStep ==
  ASSUME IInv, NEW p \in Task, try_to_wake_up(p)
  PROVE  IInv'
<1>1. TaskOK(task[p]) /\ task[p].state = "INTERRUPTIBLE" /\ task[p].on_rq \in BOOLEAN
  BY Types DEF try_to_wake_up, TaskOK, task_struct
<1>2. CASE task[p].on_rq
  <2>1. PICK r \in check_preempt_curr(task, rq, p) :
          task' = [task EXCEPT ![p].state = "RUNNING"] /\ rq' = resched(rq, r)
    BY <1>2 DEF try_to_wake_up
  <2>2. QueuesOK(task, rq') /\ rq'.curr = rq.curr
    BY <2>1, Types, SetNeedResched
  <2>3. StateOK([task EXCEPT ![p].state = "RUNNING"], rq')
    BY <1>2, <2>2, StateStep, Zenon DEF State, Fresh
  <2> QED
    BY <2>1, <2>3 DEF IInv
<1>3. CASE ~ task[p].on_rq
  <2> DEFINE flags == {"WAKEUP", "NOCLOCK"}
             t == enqueued(task[p], flags)
  <2>1. TaskOK(t) /\ t.child = task[p].child /\ t.sched_class = task[p].sched_class
    BY <1>1, Enqueued
  <2>2. activate_task(task, p, task[p], flags)
    BY <1>3 DEF try_to_wake_up
  <2> HIDE DEF flags
  <2>3. activated(t).child = t.child
    BY <2>1 DEF activated, TaskOK, task_struct
  <2>4. ForkOK([task EXCEPT ![p] = activated(t)])
    <3>1. task[p].state \notin Fresh
      BY <1>1 DEF Fresh
    <3> QED
      BY <2>1, <2>3, <3>1, Types, ForkKeep, Zenon
  <2>5. task[p].on_rq = FALSE
    BY <1>1, <1>3
  <2> QED
    BY <2>1, <2>2, <2>4, <2>5, Types, ActivateStep, Zenon DEF IInv
<1> QED
  BY <1>2, <1>3

\* A task_struct stays sound when its fork begins or ends.
LEMMA ChildChange ==
  ASSUME NEW t, TaskOK(t), NEW c \in Task \cup {Idle}
  PROVE  LET u == [t EXCEPT !.child = c]
         IN  /\ TaskOK(u) /\ u.state = t.state /\ u.on_rq = t.on_rq /\ u.child = c
             /\ u.prio = t.prio /\ u.sched_class = t.sched_class
<1> DEFINE u == [t EXCEPT !.child = c]
<1>1. t \in task_struct
  BY DEF TaskOK
<1>2. u \in task_struct
  BY <1>1 DEF task_struct
<1>3. /\ u.state = t.state /\ u.child = c /\ u.prio = t.prio /\ u.sched_class = t.sched_class
      /\ u.policy = t.policy /\ u.time_slice = t.time_slice
  BY <1>1 DEF task_struct
<1>4. u.on_rq = t.on_rq
  BY <1>1 DEF task_struct
<1> QED
  BY <1>2, <1>3, <1>4 DEF TaskOK

\* wake_up_new_task() preserves the invariant: no other task forks p.
LEMMA WakeNewStep ==
  ASSUME IInv, NEW p \in Task, wake_up_new_task(p)
  PROVE  IInv'
<1> DEFINE c == rq.curr
           u == [task[c] EXCEPT !.child = Idle]
           T == [task EXCEPT ![c] = u]
<1>1. /\ c \in Task /\ task[c].state = "RUNNING" /\ task[c].child = p /\ task[c].on_rq
      /\ TaskOK(task[c]) /\ RunOK(task[c])
  BY Types DEF wake_up_new_task, Forking
<1>2. p # Idle
  BY ConstAssumption
<1>3. task[p].state = "NEW" /\ p # c
  BY <1>1 DEF wake_up_new_task, Forking
<1>4. task[p].on_rq = FALSE
  BY <1>3, Types DEF RunOK, Fresh, TaskOK, task_struct
<1>5. /\ TaskOK(u) /\ u.state = task[c].state /\ u.on_rq = task[c].on_rq /\ u.child = Idle
      /\ u.prio = task[c].prio /\ u.sched_class = task[c].sched_class
  BY <1>1, ChildChange, Zenon
<1>6. activate_task(T, p, task[p], {"NOCLOCK"}) /\ enqueued(task[p], {"NOCLOCK"}) = task[p]
  BY <1>1, NoBoost DEF wake_up_new_task
<1> HIDE DEF u
<1>7. T[c] = u /\ \A r \in Task \ {c} : T[r] = task[r]
  BY <1>1, Types
<1>8. T \in [Task -> task_struct]
  BY <1>5, Types, Zenon DEF TaskOK
<1> HIDE DEF T
<1>9. \A r \in Task : TaskOK(T[r]) /\ RunOK(T[r])
  BY <1>1, <1>5, <1>7, Types, Zenon DEF RunOK
<1>10. QueuesOK(T, rq)
  <2>1. \A r \in Task : /\ T[r].on_rq = task[r].on_rq
                        /\ T[r].sched_class = task[r].sched_class /\ T[r].prio = task[r].prio
    BY <1>5, <1>7
  <2> QED
    BY <2>1, Types, KeepQueues
<1> DEFINE v == activated(task[p])
           U == [T EXCEPT ![p] = v]
<1>11. v.child = task[p].child
  BY Types DEF activated, TaskOK, task_struct
<1> HIDE DEF v
<1>12. U[p] = v /\ \A r \in Task \ {p} : U[r] = T[r]
  BY <1>8
<1> HIDE DEF U
<1>13. \A r \in Task : U[r].child = IF r = c THEN Idle ELSE task[r].child
  BY <1>3, <1>5, <1>7, <1>11, <1>12
<1>14. ASSUME NEW r \in Task, U[r].child # Idle
       PROVE  U[U[r].child].state \in Fresh
  <2>1. r # c /\ U[r].child = task[r].child /\ task[r].child # Idle
    BY <1>13, <1>14
  <2>2. task[r].child # p
    BY <1>1, <1>2, <2>1, Types DEF ForkOK
  <2>3. task[r].child \in Task /\ task[task[r].child].state \in Fresh
    BY <2>1, Types DEF ForkOK, task_struct
  <2>4. task[r].child # c
    BY <1>1, <2>3 DEF Fresh
  <2> QED
    BY <1>7, <1>12, <2>1, <2>2, <2>3, <2>4
<1>15. \A r, s \in Task : U[r].child = U[s].child /\ U[r].child # Idle => r = s
  BY <1>13, Types DEF ForkOK
<1>16. ForkOK([T EXCEPT ![p] = activated(task[p])])
  BY <1>14, <1>15 DEF ForkOK, U, v
<1>17. T[p].on_rq = FALSE /\ T[rq.curr].on_rq /\ TaskOK(task[p])
  BY <1>1, <1>3, <1>4, <1>5, <1>7, Types, Zenon
<1>18. DeadOK(T, rq.curr)
  BY <1>1, <1>5, <1>7, Types DEF DeadOK
<1> QED
  BY <1>6, <1>8, <1>9, <1>10, <1>16, <1>17, <1>18, ActivateStep, Zenon DEF IInv

\* The parts of a task_struct that parameter changes leave alone.
SameRun(t, u) == u.child = t.child /\ u.state = t.state /\ u.on_rq = t.on_rq

\* New scheduling parameters for one task, with the requeue they need.
LEMMA Change ==
  ASSUME IInv, NEW p \in Task, NEW t, TaskOK(t), SameRun(task[p], t), NEW b,
         NEW flags, "WAKEUP" \notin flags
  PROVE  /\ StateOK([task EXCEPT ![p] = t], resched(requeue(rq, p, task[p], t, flags), b))
         /\ requeued(task[p], t, flags) = t
<1> DEFINE U == [task EXCEPT ![p] = t]
           q == requeue(rq, p, task[p], t, flags)
           q2 == resched(q, b)
<1>1. t.child = task[p].child /\ t.state = task[p].state /\ t.on_rq = task[p].on_rq
  BY DEF SameRun
<1>2. RunOK(t)
  BY <1>1, Types DEF RunOK
<1>3. QueuesOK(U, q) /\ SameCurr(rq, q)
  BY <1>1, Types, Requeue, Zenon
<1> HIDE DEF q
<1>4. QueuesOK(U, q2) /\ q2.curr = rq.curr
  BY <1>3, SetNeedResched DEF SameCurr
<1> HIDE DEF q2
<1>5. /\ StateOK(task, rq) /\ (task[p].on_rq => t.on_rq)
      /\ t.state = "DEAD" => t.child = Idle /\ (t.on_rq => p = rq.curr)
  BY <1>1, Types DEF IInv, DeadOK
<1>6. StateOK([task EXCEPT ![p] = t], q2)
  BY <1>1, <1>2, <1>4, <1>5, Replace
<1>7. requeued(task[p], t, flags) = t
  BY NoBoost DEF requeued
<1> QED
  BY <1>6, <1>7 DEF q2, q

\* The same for change(), whatever check_class_changed() answers.
LEMMA ChangeStep ==
  ASSUME IInv, NEW p \in Task, NEW t, TaskOK(t), SameRun(task[p], t), change(p, t)
  PROVE  IInv'
<1> DEFINE flags == {"RESTORE", "MOVE", "NOCLOCK"}
<1>1. "WAKEUP" \notin flags
  OBVIOUS
<1>2. PICK r : /\ task' = [task EXCEPT ![p] = requeued(task[p], t, flags)]
               /\ rq' = resched(requeue(rq, p, task[p], t, flags), r)
  BY Types, Zenon DEF change
<1> HIDE DEF flags
<1>3. /\ StateOK([task EXCEPT ![p] = t], resched(requeue(rq, p, task[p], t, flags), r))
      /\ requeued(task[p], t, flags) = t
  BY <1>1, Change
<1> QED
  BY <1>2, <1>3 DEF IInv

\* A change of fields that neither the queues nor the priorities depend on.
LEMMA Harmless ==
  ASSUME IInv, NEW p \in Task, NEW t, TaskOK(t), SameRun(task[p], t),
         t.prio = task[p].prio, t.sched_class = task[p].sched_class
  PROVE  StateOK([task EXCEPT ![p] = t], rq)
<1> DEFINE U == [task EXCEPT ![p] = t]
<1>1. t.child = task[p].child /\ t.state = task[p].state /\ t.on_rq = task[p].on_rq
  BY DEF SameRun
<1>2. RunOK(t)
  BY <1>1, Types DEF RunOK
<1>3. \A r \in Task : /\ U[r].on_rq = task[r].on_rq
                      /\ U[r].sched_class = task[r].sched_class /\ U[r].prio = task[r].prio
  BY <1>1, Types
<1>4. QueuesOK([task EXCEPT ![p] = t], rq)
  BY <1>3, Types, KeepQueues, Zenon
<1>5. /\ StateOK(task, rq) /\ (task[p].on_rq => t.on_rq)
      /\ t.state = "DEAD" => t.child = Idle /\ (t.on_rq => p = rq.curr)
  BY <1>1, Types DEF IInv, DeadOK
<1> QED
  BY <1>1, <1>2, <1>4, <1>5, Replace

\* normal_prio() is a priority.
LEMMA NormalPrio ==
  ASSUME NEW t \in task_struct
  PROVE  /\ normal_prio(t) \in 0..MAX_PRIO - 1
         /\ rt_effective_prio(t, normal_prio(t)) \in 0..MAX_PRIO - 1
<1>1. /\ t.rt_priority \in 0..99 /\ t.static_prio \in MAX_RT_PRIO..MAX_PRIO - 1
      /\ t.pi_prio \in 0..MAX_PRIO
  BY DEF task_struct
<1>2. normal_prio(t) \in 0..MAX_PRIO - 1
  BY <1>1 DEF normal_prio, MAX_RT_PRIO, MAX_PRIO
<1> QED
  BY <1>1, <1>2 DEF rt_effective_prio, MAX_PRIO

\* A nice value is a static priority.
LEMMA NicePrio == \A nice \in Nice : NICE_TO_PRIO(nice) \in MAX_RT_PRIO..MAX_PRIO - 1
BY ConstAssumption DEF NICE_TO_PRIO, MAX_RT_PRIO, MAX_PRIO

\* class_of() gives a task the class of its priority.
LEMMA ClassOK ==
  ASSUME NEW t \in task_struct, t.time_slice \in 1..4 * SliceUnit
  PROVE  LET u == [t EXCEPT !.sched_class = class_of(t)]
         IN  TaskOK(u) /\ SameRun(t, u) /\ u.prio = t.prio
<1> DEFINE c == class_of(t)
           u == [t EXCEPT !.sched_class = c]
<1>1. /\ c \in {"rt", "ts", "fair"} /\ (c = "rt" <=> rt_prio(t.prio))
      /\ (c = "ts" => t.policy = "TS")
  BY DEF class_of
<1> HIDE DEF c
<1>2. u \in task_struct
  BY <1>1 DEF task_struct
<1>3. /\ u.prio = t.prio /\ u.sched_class = c /\ u.policy = t.policy
      /\ u.time_slice = t.time_slice /\ u.child = t.child /\ u.state = t.state
  BY DEF task_struct
<1>4. u.on_rq = t.on_rq
  BY DEF task_struct
<1>5. TaskOK(u) /\ SameRun(t, u)
  BY <1>1, <1>2, <1>3, <1>4 DEF TaskOK, SameRun
<1> QED
  BY <1>3, <1>5 DEF c

\* __setscheduler() yields a sound task_struct.
LEMMA SetschedulerOK ==
  ASSUME NEW t, TaskOK(t), NEW policy \in Policy, NEW priority \in RtPriority \cup {0},
         NEW nice \in Nice, NEW reset \in ResetOnFork
  PROVE  LET u == setscheduler(t, policy, priority, nice, reset)
         IN  TaskOK(u) /\ SameRun(t, u)
<1> DEFINE static == IF policy = "NORMAL" THEN NICE_TO_PRIO(nice) ELSE t.static_prio
           t1 == [t EXCEPT !.policy = policy, !.rt_priority = priority,
                           !.sched_reset_on_fork = reset, !.static_prio = static]
           n == normal_prio(t1)
           e == rt_effective_prio(t1, n)
           t2 == [t1 EXCEPT !.normal_prio = n, !.prio = e]
<1>1. t \in task_struct /\ t.time_slice \in 1..4 * SliceUnit
  BY DEF TaskOK
<1>2. t.static_prio \in MAX_RT_PRIO..MAX_PRIO - 1
  BY <1>1 DEF task_struct
<1>3. /\ static \in MAX_RT_PRIO..MAX_PRIO - 1 /\ priority \in 0..99 /\ reset \in BOOLEAN
  BY <1>2, NicePrio, ConstAssumption
<1>4. setscheduler(t, policy, priority, nice, reset) = [t2 EXCEPT !.sched_class = class_of(t2)]
  BY <1>1 DEF setscheduler, task_struct
<1> HIDE DEF static
<1>5. t1 \in task_struct
  BY <1>1, <1>3, Zenon DEF task_struct
<1>6. t1.child = t.child /\ t1.state = t.state /\ t1.time_slice = t.time_slice
  BY <1>1 DEF task_struct
<1>7. t1.on_rq = t.on_rq
  BY <1>1 DEF task_struct
<1> HIDE DEF t1
<1>8. n \in 0..MAX_PRIO - 1 /\ e \in 0..MAX_PRIO - 1
  BY <1>5, NormalPrio
<1> HIDE DEF n, e
<1>9. t2 \in task_struct
  BY <1>5, <1>8, Zenon DEF task_struct
<1>10. t2.child = t1.child /\ t2.state = t1.state /\ t2.time_slice = t1.time_slice
  BY <1>5 DEF task_struct
<1>11. t2.on_rq = t1.on_rq
  BY <1>5 DEF task_struct
<1> HIDE DEF t2
<1>12. t2.time_slice \in 1..4 * SliceUnit
  BY <1>1, <1>6, <1>10
<1> DEFINE u == [t2 EXCEPT !.sched_class = class_of(t2)]
<1>13. TaskOK(u) /\ SameRun(t2, u)
  BY <1>9, <1>12, ClassOK
<1> HIDE DEF u
<1>14. SameRun(t, u)
  BY <1>6, <1>7, <1>10, <1>11, <1>13 DEF SameRun
<1> QED
  BY <1>4, <1>13, <1>14 DEF u

\* __sched_setscheduler() preserves the invariant.
LEMMA SetschedulerStep ==
  ASSUME IInv, NEW p \in Task, NEW policy \in Policy, NEW priority \in RtPriority \cup {0},
         NEW nice \in Nice, NEW reset \in ResetOnFork,
         sched_setscheduler(p, policy, priority, nice, reset)
  PROVE  IInv'
<1> DEFINE t == setscheduler(task[p], policy, priority, nice, reset)
           v == [task[p] EXCEPT !.sched_reset_on_fork = reset]
<1>1. TaskOK(task[p]) /\ task[p] \in task_struct /\ reset \in BOOLEAN
  BY Types, ConstAssumption DEF TaskOK
<1>2. CASE change(p, t)
  <2>1. TaskOK(t) /\ SameRun(task[p], t)
    BY <1>1, SetschedulerOK
  <2> HIDE DEF t
  <2> QED
    BY <1>2, <2>1, ChangeStep
<1>3. CASE task' = [task EXCEPT ![p].sched_reset_on_fork = reset] /\ rq' = rq
  <2>1. v \in task_struct
    BY <1>1 DEF task_struct
  <2>2. /\ v.prio = task[p].prio /\ v.sched_class = task[p].sched_class
        /\ v.policy = task[p].policy /\ v.time_slice = task[p].time_slice
        /\ v.child = task[p].child /\ v.state = task[p].state
    BY <1>1 DEF task_struct
  <2>3. v.on_rq = task[p].on_rq
    BY <1>1 DEF task_struct
  <2>4. task' = [task EXCEPT ![p] = v]
    BY <1>3
  <2> HIDE DEF v
  <2>5. TaskOK(v) /\ SameRun(task[p], v)
    BY <1>1, <2>1, <2>2, <2>3 DEF TaskOK, SameRun
  <2>6. StateOK([task EXCEPT ![p] = v], rq)
    BY <2>2, <2>5, Harmless
  <2> QED
    BY <1>3, <2>4, <2>6, Zenon DEF IInv
<1> QED
  BY <1>2, <1>3 DEF sched_setscheduler

\* set_user_nice() preserves the invariant.
LEMMA NiceStep ==
  ASSUME IInv, NEW p \in Task, NEW nice \in Nice, set_user_nice(p, nice)
  PROVE  IInv'
<1> DEFINE old == task[p]
           t1 == [old EXCEPT !.static_prio = NICE_TO_PRIO(nice)]
           n == normal_prio(t1)
           e == effective_prio(t1)
           t == [t1 EXCEPT !.normal_prio = n, !.prio = e]
           r == old.on_rq /\ (\/ t.prio < old.prio
                              \/ t.prio > old.prio /\ rq.curr = p)
           flags == {"RESTORE", "NOCLOCK"}
<1>1. TaskOK(old) /\ old \in task_struct
  BY Types DEF TaskOK
<1>2. NICE_TO_PRIO(nice) \in MAX_RT_PRIO..MAX_PRIO - 1
  BY NicePrio
<1>3. t1 \in task_struct
  BY <1>1, <1>2 DEF task_struct
<1>4. /\ t1.prio = old.prio /\ t1.sched_class = old.sched_class /\ t1.policy = old.policy
      /\ t1.time_slice = old.time_slice /\ t1.child = old.child /\ t1.state = old.state
      /\ t1.static_prio = NICE_TO_PRIO(nice)
  BY <1>1 DEF task_struct
<1>5. t1.on_rq = old.on_rq
  BY <1>1 DEF task_struct
<1>6. \/ old.policy = "FIFO" /\ task' = [task EXCEPT ![p] = t1] /\ rq' = rq
      \/ /\ old.policy # "FIFO" /\ task' = [task EXCEPT ![p] = requeued(old, t, flags)]
         /\ rq' = resched(requeue(rq, p, old, t, flags), r)
  BY Zenon DEF set_user_nice
<1>10. "WAKEUP" \notin flags
  OBVIOUS
<1> HIDE DEF t1, r, flags
<1>7. TaskOK(t1) /\ SameRun(old, t1)
  BY <1>1, <1>3, <1>4, <1>5 DEF TaskOK, SameRun
<1>8. CASE old.policy = "FIFO" /\ task' = [task EXCEPT ![p] = t1] /\ rq' = rq
  <2>1. StateOK([task EXCEPT ![p] = t1], rq)
    BY <1>4, <1>7, Harmless
  <2> QED
    BY <1>8, <2>1 DEF IInv
<1>9. CASE /\ old.policy # "FIFO" /\ task' = [task EXCEPT ![p] = requeued(old, t, flags)]
           /\ rq' = resched(requeue(rq, p, old, t, flags), r)
  <2>1. old.prio \in 0..MAX_PRIO - 1 /\ n = NICE_TO_PRIO(nice)
    BY <1>1, <1>4, <1>9 DEF normal_prio, task_struct
  <2>2. /\ n \in 0..MAX_PRIO - 1 /\ e \in 0..MAX_PRIO - 1
        /\ rt_prio(e) <=> rt_prio(old.prio)
    BY <1>2, <1>4, <2>1 DEF effective_prio, rt_prio, MAX_PRIO, MAX_RT_PRIO
  <2> HIDE DEF n, e
  <2>3. t \in task_struct
    BY <1>3, <2>2, Zenon DEF task_struct
  <2>4. /\ t.prio = e /\ t.sched_class = t1.sched_class /\ t.policy = t1.policy
        /\ t.time_slice = t1.time_slice /\ t.child = t1.child /\ t.state = t1.state
    BY <1>3 DEF task_struct
  <2>5. t.on_rq = t1.on_rq
    BY <1>3 DEF task_struct
  <2> HIDE DEF t
  <2>6. TaskOK(t) /\ SameRun(old, t)
    BY <1>1, <1>4, <1>5, <2>2, <2>3, <2>4, <2>5 DEF TaskOK, SameRun
  <2>7. /\ StateOK([task EXCEPT ![p] = t], resched(requeue(rq, p, old, t, flags), r))
        /\ requeued(old, t, flags) = t
    BY <1>10, <2>6, Change
  <2> QED
    BY <1>9, <2>7 DEF IInv
<1> QED
  BY <1>6, <1>8, <1>9

\* rt_mutex_setprio() preserves the invariant.
LEMMA PiStep ==
  ASSUME IInv, NEW p \in Task, NEW donor \in Donor \cup {MAX_PRIO},
         rt_mutex_setprio(p, donor)
  PROVE  IInv'
<1> DEFINE old == task[p]
           prio == IF donor < old.normal_prio THEN donor ELSE old.normal_prio
           t1 == [old EXCEPT !.pi_prio = donor]
           class == IF rt_prio(prio) THEN "rt" ELSE "fair"
           t == [t1 EXCEPT !.prio = prio, !.sched_class = class]
<1>1. TaskOK(old) /\ old \in task_struct
  BY Types DEF TaskOK
<1>2. donor \in 0..MAX_PRIO
  BY ConstAssumption DEF MAX_PRIO
<1>3. old.normal_prio \in 0..MAX_PRIO - 1
  BY <1>1 DEF task_struct
<1>4. prio \in 0..MAX_PRIO - 1 /\ class \in {"rt", "fair"} /\ (class = "rt" <=> rt_prio(prio))
  BY <1>2, <1>3 DEF MAX_PRIO
<1>5. t1 \in task_struct
  BY <1>1, <1>2 DEF task_struct
<1>6. /\ t1.prio = old.prio /\ t1.sched_class = old.sched_class /\ t1.policy = old.policy
      /\ t1.time_slice = old.time_slice /\ t1.child = old.child /\ t1.state = old.state
  BY <1>1 DEF task_struct
<1>7. t1.on_rq = old.on_rq
  BY <1>1 DEF task_struct
<1>8. (task' = [task EXCEPT ![p] = t1] /\ rq' = rq) \/ change(p, t)
  BY DEF rt_mutex_setprio
<1> HIDE DEF t1, prio, class
<1>9. TaskOK(t1) /\ SameRun(old, t1)
  BY <1>1, <1>5, <1>6, <1>7 DEF TaskOK, SameRun
<1>10. CASE task' = [task EXCEPT ![p] = t1] /\ rq' = rq
  <2>1. StateOK([task EXCEPT ![p] = t1], rq)
    BY <1>6, <1>9, Harmless
  <2> QED
    BY <1>10, <2>1 DEF IInv
<1>11. CASE change(p, t)
  <2>1. t \in task_struct
    BY <1>4, <1>5, Zenon DEF task_struct
  <2>2. /\ t.prio = prio /\ t.sched_class = class
        /\ t.time_slice = t1.time_slice /\ t.child = t1.child /\ t.state = t1.state
    BY <1>5 DEF task_struct
  <2>3. t.on_rq = t1.on_rq
    BY <1>5 DEF task_struct
  <2> HIDE DEF t
  <2>4. TaskOK(t) /\ SameRun(old, t)
    BY <1>1, <1>4, <1>6, <1>7, <2>1, <2>2, <2>3 DEF TaskOK, SameRun
  <2> QED
    BY <1>11, <2>4, ChangeStep
<1> QED
  BY <1>8, <1>10, <1>11

\* do_set_cpus_allowed() preserves the invariant.
LEMMA AffinityStep ==
  ASSUME IInv, NEW p \in Task, do_set_cpus_allowed(p)
  PROVE  IInv'
<1> DEFINE flags == {"RESTORE", "NOCLOCK"}
           q == requeue(rq, p, task[p], task[p], flags)
<1>1. task = [task EXCEPT ![p] = task[p]] /\ TaskOK(task[p]) /\ "WAKEUP" \notin flags
  BY Types
<1>2. task' = [task EXCEPT ![p] = requeued(task[p], task[p], flags)] /\ rq' = q
  BY Types DEF do_set_cpus_allowed
<1> HIDE DEF flags
<1>3. requeued(task[p], task[p], flags) = task[p]
  BY <1>1, NoBoost DEF requeued
<1>4. QueuesOK([task EXCEPT ![p] = task[p]], q) /\ SameCurr(rq, q)
  BY <1>1, Types, Requeue, Zenon
<1>5. QueuesOK(task, q) /\ q.curr = rq.curr
  BY <1>1, <1>4 DEF SameCurr
<1>6. task' = task
  BY <1>1, <1>2, <1>3
<1> HIDE DEF q
<1> QED
  BY <1>2, <1>5, <1>6, Types DEF IInv, StateOK

\* sched_fork() yields a sound task_struct.
LEMMA ForkedOK ==
  ASSUME NEW t, TaskOK(t), NEW parent \in task_struct
  PROVE  /\ TaskOK(forked(t, parent)) /\ forked(t, parent).state = "NEW"
         /\ forked(t, parent).on_rq = t.on_rq /\ forked(t, parent).child = t.child
<1> DEFINE reset == t.sched_reset_on_fork
           rt == t.policy = "FIFO"
           static == IF reset /\ (rt \/ t.static_prio < NICE_TO_PRIO(0))
                     THEN NICE_TO_PRIO(0) ELSE t.static_prio
           prio == child_prio(t, parent, static)
           norm == IF reset THEN static ELSE t.normal_prio
           pol == IF reset /\ rt THEN "NORMAL" ELSE t.policy
           rtp == IF reset /\ rt THEN 0 ELSE t.rt_priority
           c == [t EXCEPT !.policy = pol, !.rt_priority = rtp,
                          !.sched_reset_on_fork = FALSE, !.static_prio = static,
                          !.normal_prio = norm, !.prio = prio,
                          !.state = "NEW", !.time_slice = 3 * SliceUnit]
<1>1. t \in task_struct
  BY DEF TaskOK
<1>2. /\ t.static_prio \in MAX_RT_PRIO..MAX_PRIO - 1 /\ t.normal_prio \in 0..MAX_PRIO - 1
      /\ t.policy \in Policy /\ t.rt_priority \in 0..99 /\ parent.normal_prio \in 0..MAX_PRIO - 1
  BY <1>1 DEF task_struct
<1>3. /\ static \in MAX_RT_PRIO..MAX_PRIO - 1 /\ prio \in 0..MAX_PRIO - 1
      /\ norm \in 0..MAX_PRIO - 1
  BY <1>2 DEF child_prio, NICE_TO_PRIO, MAX_RT_PRIO, MAX_PRIO
<1>4. pol \in Policy /\ rtp \in 0..99
  BY <1>2 DEF Policy
<1>5. 3 * SliceUnit \in 0..UINT_MAX /\ 3 * SliceUnit \in 1..4 * SliceUnit
  BY ConstAssumption
<1>6. forked(t, parent) = [c EXCEPT !.sched_class = class_of(c)]
  BY <1>1 DEF forked, task_struct
<1> HIDE DEF static, prio, norm, pol, rtp
<1>7. c \in task_struct
  BY <1>1, <1>3, <1>4, <1>5, Zenon DEF task_struct, State
<1>8. c.state = "NEW" /\ c.child = t.child /\ c.time_slice = 3 * SliceUnit
  BY <1>1 DEF task_struct
<1>9. c.on_rq = t.on_rq
  BY <1>1 DEF task_struct
<1> HIDE DEF c
<1> DEFINE u == [c EXCEPT !.sched_class = class_of(c)]
<1>10. TaskOK(u) /\ SameRun(c, u)
  BY <1>5, <1>7, <1>8, ClassOK
<1> HIDE DEF u
<1> QED
  BY <1>6, <1>8, <1>9, <1>10 DEF u, SameRun

\* sched_fork() preserves the invariant.
LEMMA ForkStep ==
  ASSUME IInv, NEW p \in Task, sched_fork(p)
  PROVE  IInv'
<1> DEFINE f == forked(task[p], task[rq.curr])
           U == [task EXCEPT ![p] = f]
<1>1. /\ rq.curr \in Task /\ task[p].state = "COPIED" /\ task' = U /\ rq' = rq
      /\ TaskOK(task[p]) /\ task[rq.curr] \in task_struct
  BY Types DEF sched_fork, Forking
<1>2. task[p].on_rq = FALSE
  BY <1>1, Types, Zenon DEF RunOK, Fresh, TaskOK, task_struct
<1>3. TaskOK(f) /\ f.state = "NEW" /\ f.on_rq = FALSE /\ f.child = task[p].child
  BY <1>1, <1>2, ForkedOK
<1> HIDE DEF f
<1>4. RunOK(f) /\ f.state \in Fresh /\ f.state # "DEAD"
  BY <1>3 DEF RunOK, Fresh
<1>5. QueuesOK(U, rq)
  <2>1. \A r \in Task :
          /\ U[r].on_rq = task[r].on_rq
          /\ task[r].on_rq => U[r].sched_class = task[r].sched_class /\ U[r].prio = task[r].prio
    BY <1>2, <1>3, Types, Zenon
  <2> QED
    BY <2>1, Types, KeepQueues, Zenon
<1>6. StateOK(U, rq)
  BY <1>2, <1>3, <1>4, <1>5, Replace DEF IInv
<1> QED
  BY <1>1, <1>6 DEF IInv

\* The copy of the running task is a sound task_struct.
LEMMA CopyOK ==
  ASSUME NEW t, TaskOK(t)
  PROVE  LET u == [t EXCEPT !.state = "COPIED", !.on_rq = FALSE, !.pi_prio = MAX_PRIO]
         IN  TaskOK(u) /\ u.state = "COPIED" /\ u.on_rq = FALSE /\ u.child = t.child
<1> DEFINE u == [t EXCEPT !.state = "COPIED", !.on_rq = FALSE, !.pi_prio = MAX_PRIO]
<1>1. t \in task_struct /\ MAX_PRIO \in 0..MAX_PRIO /\ "COPIED" \in State
  BY DEF TaskOK, MAX_PRIO, State
<1>2. u \in task_struct
  BY <1>1, Zenon DEF task_struct
<1>3. /\ u.state = "COPIED" /\ u.child = t.child /\ u.prio = t.prio
      /\ u.sched_class = t.sched_class /\ u.policy = t.policy /\ u.time_slice = t.time_slice
  BY <1>1 DEF task_struct
<1>4. u.on_rq = FALSE
  BY <1>1 DEF task_struct
<1> QED
  BY <1>2, <1>3, <1>4 DEF TaskOK

\* dup_task_struct() preserves the invariant.
LEMMA CopyStep ==
  ASSUME IInv, NEW p \in Task, dup_task_struct(p)
  PROVE  IInv'
<1> DEFINE c == rq.curr
           u == [task[c] EXCEPT !.child = p]
           f == [task[c] EXCEPT !.state = "COPIED", !.on_rq = FALSE, !.pi_prio = MAX_PRIO]
           T == [task EXCEPT ![p] = f, ![c].child = p]
<1>1. /\ c \in Task /\ task[c].state = "RUNNING" /\ task[c].child = Idle /\ task[c].on_rq
      /\ TaskOK(task[c]) /\ RunOK(task[c]) /\ task[p].state = "DEAD" /\ p # c
  BY Types DEF dup_task_struct, InUserMode
<1>2. p # Idle /\ task[p].on_rq = FALSE
  BY Types, ConstAssumption DEF dup_task_struct, TaskOK, task_struct
<1>3. task' = T /\ rq' = rq
  BY DEF dup_task_struct
<1>4. TaskOK(f) /\ f.state = "COPIED" /\ f.on_rq = FALSE /\ f.child = Idle
  BY <1>1, CopyOK, Zenon
<1>5. /\ TaskOK(u) /\ u.state = task[c].state /\ u.on_rq = task[c].on_rq /\ u.child = p
      /\ u.prio = task[c].prio /\ u.sched_class = task[c].sched_class
  BY <1>1, ChildChange, Zenon
<1> HIDE DEF f
<1>6. T = [[task EXCEPT ![p] = f] EXCEPT ![c] = u]
  BY <1>1, Types, Zenon
<1> HIDE DEF u, T
<1>7. /\ T \in [Task -> task_struct] /\ T[p] = f /\ T[c] = u
      /\ \A r \in Task \ {p, c} : T[r] = task[r]
  BY <1>1, <1>4, <1>5, <1>6, Types, Zenon DEF TaskOK
<1>8. RunOK(f) /\ RunOK(u)
  BY <1>1, <1>4, <1>5 DEF RunOK
<1>9. \A r \in Task : TaskOK(T[r]) /\ RunOK(T[r])
  BY <1>4, <1>5, <1>7, <1>8, Types
<1>10. QueuesOK(T, rq)
  <2>1. \A r \in Task :
          /\ T[r].on_rq = task[r].on_rq
          /\ task[r].on_rq => T[r].sched_class = task[r].sched_class /\ T[r].prio = task[r].prio
    BY <1>2, <1>4, <1>5, <1>7, Zenon
  <2> QED
    BY <2>1, Types, KeepQueues
<1>11. \A r \in Task : T[r].child = IF r = c THEN p ELSE IF r = p THEN Idle ELSE task[r].child
  BY <1>4, <1>5, <1>7
<1>12. \A r \in Task : task[r].child # p
  BY <1>1, <1>2, Types DEF ForkOK, Fresh
<1>13. ASSUME NEW r \in Task, T[r].child # Idle
       PROVE  T[T[r].child].state \in Fresh
  <2>1. CASE r = c
    BY <1>4, <1>7, <1>11, <2>1 DEF Fresh
  <2>2. CASE r # c
    <3>1. T[r].child = task[r].child /\ task[r].child # p
      BY <1>11, <1>12, <1>13, <2>2
    <3>2. task[r].child \in Task /\ task[task[r].child].state \in Fresh
      BY <1>13, <3>1, Types DEF ForkOK, task_struct
    <3>3. task[r].child # c
      BY <1>1, <3>2 DEF Fresh
    <3> QED
      BY <1>7, <3>1, <3>2, <3>3
  <2> QED
    BY <2>1, <2>2
<1>14. ASSUME NEW r \in Task, NEW s \in Task, T[r].child = T[s].child, T[r].child # Idle
       PROVE  r = s
  <2>1. ASSUME NEW x \in Task, T[x].child # Idle, x # c
        PROVE  T[x].child = task[x].child /\ task[x].child # p
    BY <1>11, <1>12, <2>1
  <2>2. T[c].child = p
    BY <1>1, <1>11
  <2>3. CASE r = c \/ s = c
    BY <1>14, <2>1, <2>2, <2>3
  <2>4. CASE r # c /\ s # c
    <3>1. task[r].child = task[s].child /\ task[r].child # Idle
      BY <1>14, <2>1, <2>4
    <3> QED
      BY <3>1, Types DEF ForkOK
  <2> QED
    BY <2>3, <2>4
<1>15. ForkOK(T)
  BY <1>13, <1>14 DEF ForkOK
<1>16. rq.curr # Idle => T[rq.curr].on_rq
  BY <1>1, <1>5, <1>7, Zenon
<1>17. DeadOK(T, rq.curr)
  BY <1>1, <1>4, <1>5, <1>7, Types DEF DeadOK
<1> QED
  BY <1>3, <1>7, <1>9, <1>10, <1>15, <1>16, <1>17 DEF IInv, StateOK

-----------------------------------------------------------------------------
(* The theorems. *)

\* The state that the first task finds satisfies the inductive invariant.
LEMMA InitInv == Init => IInv
<1> SUFFICES ASSUME Init PROVE IInv
  OBVIOUS
<1>1. PICK first \in Task :
        /\ task = [p \in Task |-> IF p = first THEN first_task ELSE unused_task]
        /\ rq = [ts |-> [i \in Level |-> <<>>], rt |-> {}, cfs |-> {first},
                 nr_running |-> 1, curr |-> first, need_resched |-> FALSE]
  BY Zenon DEF Init
<1> DEFINE u == [unused_task EXCEPT !.state = "RUNNING"]
           f == [u EXCEPT !.on_rq = TRUE]
<1>2. TaskOK(u) /\ u.state = "RUNNING" /\ u.child = Idle /\ u.sched_class = "fair"
  <2>1. unused_task.sched_class = "fair"
    BY DEF unused_task
  <2> QED
    BY <2>1, UnusedTask, StateChange, Zenon DEF State
<1>3. first_task = f
  BY DEF first_task
<1> HIDE DEF u
<1>4. TaskOK(f) /\ f.state = "RUNNING" /\ f.on_rq = TRUE /\ f.child = Idle /\ f.sched_class = "fair"
  BY <1>2, OnRqChange, Zenon
<1>5. RunOK(f)
  BY <1>4 DEF RunOK, Fresh
<1> HIDE DEF f
<1>6. task[first] = f /\ \A p \in Task \ {first} : task[p] = unused_task
  BY <1>1, <1>3
<1>7. task \in [Task -> task_struct]
  BY <1>1, <1>3, <1>4, UnusedTask DEF TaskOK
<1>8. \A p \in Task : TaskOK(task[p]) /\ RunOK(task[p]) /\ task[p].child = Idle
  BY <1>4, <1>5, <1>6, UnusedTask
<1>9. rq \in run_queue
  BY <1>1 DEF run_queue
<1>10. ListsOK(task, rq.ts)
  <2>1. \A i \in Level : rq.ts[i] = <<>>
    BY <1>1
  <2>2. \A p \in Task : ~ (task[p].sched_class = "ts" /\ task[p].on_rq)
    BY <1>4, <1>6, UnusedTask
  <2>3. rq.ts \in [Level -> Seq(Task)]
    BY <1>9 DEF run_queue
  <2> QED
    BY <2>1, <2>2, <2>3 DEF ListsOK, In, Injective
<1>11. /\ rq.rt = {p \in Task : task[p].on_rq /\ task[p].sched_class = "rt"}
       /\ rq.cfs = {p \in Task : task[p].on_rq /\ task[p].sched_class = "fair"}
  <2>1. rq.rt = {} /\ rq.cfs = {first}
    BY <1>1
  <2>2. \A p \in Task : ~ (task[p].on_rq /\ task[p].sched_class = "rt")
    BY <1>4, <1>6, UnusedTask
  <2>3. \A p \in Task : (task[p].on_rq /\ task[p].sched_class = "fair") <=> p = first
    BY <1>4, <1>6, UnusedTask
  <2> QED
    BY <2>1, <2>2, <2>3
<1>12. rq.curr = first
  BY <1>1
<1>13. DeadOK(task, rq.curr)
  BY <1>4, <1>6, <1>8, UnusedTask DEF DeadOK
<1> QED
  BY <1>4, <1>6, <1>7, <1>8, <1>9, <1>10, <1>11, <1>12, <1>13
     DEF IInv, StateOK, QueuesOK, ForkOK

\* Every operation of ts.c and core.c preserves the inductive invariant.
LEMMA NextInv == IInv /\ [Next]_vars => IInv'
<1> SUFFICES ASSUME IInv, [Next]_vars PROVE IInv'
  OBVIOUS
<1>1. CASE UNCHANGED vars
  BY <1>1, Zenon DEF vars, IInv, StateOK, QueuesOK, ListsOK, ForkOK, DeadOK
<1>2. CASE \E preempt \in BOOLEAN : schedule(preempt)
  BY <1>2, ScheduleStep
<1>3. CASE scheduler_tick
  BY <1>3, TickStep
<1>4. CASE do_sched_yield
  BY <1>4, YieldStep
<1>5. CASE set_current_state
  BY <1>5, SetStateStep
<1>6. CASE do_task_dead
  BY <1>6, DeadStep
<1>7. ASSUME NEW p \in Task, try_to_wake_up(p) PROVE IInv'
  BY <1>7, WakeStep
<1>8. ASSUME NEW p \in Task, sched_fork(p) PROVE IInv'
  BY <1>8, ForkStep
<1>14. ASSUME NEW p \in Task, dup_task_struct(p) PROVE IInv'
  BY <1>14, CopyStep
<1>9. ASSUME NEW p \in Task, wake_up_new_task(p) PROVE IInv'
  BY <1>9, WakeNewStep
<1>10. ASSUME NEW p \in Task, NEW policy \in Policy, NEW priority \in RtPriority \cup {0},
              NEW nice \in Nice, NEW reset \in ResetOnFork,
              sched_setscheduler(p, policy, priority, nice, reset)
       PROVE  IInv'
  BY <1>10, SetschedulerStep
<1>11. ASSUME NEW p \in Task, NEW nice \in Nice, set_user_nice(p, nice) PROVE IInv'
  BY <1>11, NiceStep
<1>12. ASSUME NEW p \in Task, NEW donor \in Donor \cup {MAX_PRIO}, rt_mutex_setprio(p, donor)
       PROVE  IInv'
  BY <1>12, PiStep
<1>13. ASSUME NEW p \in Task, do_set_cpus_allowed(p) PROVE IInv'
  BY <1>13, AffinityStep
<1> QED
  BY <1>1, <1>2, <1>3, <1>4, <1>5, <1>6, <1>7, <1>8, <1>9, <1>10, <1>11, <1>12, <1>13,
     <1>14 DEF Next

\* The inductive invariant holds in every reachable state.
LEMMA InvHolds == Spec => []IInv
BY InitInv, NextInv, PTL DEF Spec

\* Type correctness: in particular prio stays in 0..139 and a slice in the
\* range of unsigned int, whatever core.c and ts.c do to a task_struct.
THEOREM TypeCorrect == Spec => []TypeOK
<1>1. IInv => TypeOK
  BY Types DEF TypeOK
<1> QED
  BY <1>1, InvHolds, PTL

\* The run queue and the task_structs agree after every operation: enqueue,
\* dequeue, requeue and list_move_tail never touch a wrong list.
THEOREM QueuesAgree == Spec => []RunQueueConsistent
<1>1. IInv => RunQueueConsistent
  <2> SUFFICES ASSUME IInv PROVE RunQueueConsistent
    OBVIOUS
  <2>1. QueuesOK(task, rq)
    BY Types
  <2>2. ASSUME NEW i \in Level, NEW k \in DOMAIN rq.ts[i]
        PROVE  LET t == task[rq.ts[i][k]]
               IN  t.sched_class = "ts" /\ t.on_rq /\ ts_level(t) = i
    <3>1. rq.ts[i] \in Seq(Task)
      BY <2>1 DEF QueuesOK, ListsOK
    <3>2. rq.ts[i][k] \in Task
      BY <3>1
    <3>3. In(rq.ts[i][k], rq.ts[i])
      BY DEF In
    <3> QED
      BY <2>1, <3>2, <3>3 DEF QueuesOK, ListsOK
  <2>3. ListedAtPrio
    BY <2>2 DEF ListedAtPrio
  <2>4. ListedOnce
    BY <2>1 DEF ListedOnce, QueuesOK, ListsOK, Injective
  <2>5. ASSUME NEW p \in Task, task[p].sched_class = "ts", task[p].on_rq
        PROVE  \E k \in DOMAIN rq.ts[ts_level(task[p])] : rq.ts[ts_level(task[p])][k] = p
    <3>1. ts_level(task[p]) \in Level
      BY <2>5, Types, LevelFact
    <3>2. In(p, rq.ts[ts_level(task[p])])
      BY <2>1, <2>5, <3>1 DEF QueuesOK, ListsOK
    <3> QED
      BY <3>2 DEF In
  <2>6. QueuedIsListed
    BY <2>5 DEF QueuedIsListed
  <2> QED
    BY <2>1, <2>3, <2>4, <2>6 DEF RunQueueConsistent, QueuesOK
<1> QED
  BY <1>1, InvHolds, PTL

\* ts.c never indexes SleepPrioLUT or ts_rq.queue out of bounds.
THEOREM IndexInRange == Spec => []TsIndexInRange
<1>1. IInv => TsIndexInRange
  BY Types, LevelFact DEF TsIndexInRange, TaskOK
<1> QED
  BY <1>1, InvHolds, PTL

\* task_tick_ts(): "If set correctly this should never go pass 0".
THEOREM SliceInRange == Spec => []SliceNeverPassesZero
<1>1. IInv => SliceNeverPassesZero
  BY Types DEF SliceNeverPassesZero, TaskOK
<1> QED
  BY <1>1, InvHolds, PTL

\* Neither a wakeup that races with the sleeper's schedule(), nor fork, exit
\* or a parameter change, leaves a runnable task off the run queue.
THEOREM NothingLost == Spec => []NoLostTask
<1>1. IInv => NoLostTask
  BY Types DEF NoLostTask, RunOK, Fresh, DeadOK
<1> QED
  BY <1>1, InvHolds, PTL
=============================================================================
