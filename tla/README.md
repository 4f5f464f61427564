# A TLA+ model of the kernel-learning repository

The repository is a collection of operating-system assignments. Two of them
have state that several actors change at once, and they are the core of this
project:

* **SCHED_TS**, a time-sharing scheduling class added to Linux
  (`temp/kernel/sched/ts.c`, hooked into `core.c`, `rt.c` and three headers);
* **jankersh**, a shell with pipelines and job control
  (`assignment3-1/jankersh.c`).

Paths below are relative to `src/`.

## Parts of the system

| Part | Source | Module | Status |
|---|---|---|---|
| SCHED_TS class | `temp/kernel/sched/ts.c` | `TsSched`, `TsSchedProofs` | modelled |
| core scheduler, one CPU | `temp/kernel/sched/core.c`, `sched.h`, `temp/include/...` | `TsSched` | partly |
| SCHED_FIFO/RR class | `temp/kernel/sched/rt.c` | `TsSched` | partly: choice of task, `switched_to_rt`, `prio_changed_rt` |
| jankersh job control | `assignment3-1/jankersh.c` | `JobControl` | modelled |
| jankersh tokenizer, pipe descriptors | `assignment3-1/jankersh.c` | | planned |
| flow rate limiter, flow byte budget | `rate_limit.c`, `drop_flow_byte.c` | | planned |
| xmerge system call and its test program | `assignment4-1/` | | planned |
| myfirst character device | `myfirst.c` | | planned |
| lab4 child counter, myshell, mysum | `lab4.c`, `myshell.c`, `mysum.c` | | planned |
| myuname, info, myps | `myuname.c`, `assignment 1/` | | not modelled: they print, and keep no state |

The scheduler and the programs meet only through the kernel's interface; the
models do not share variables.

## TsSched: the SCHED_TS class on one CPU

`task` holds a `task_struct` per task (policy, the three priorities, the
priority of the top waiter on its rt_mutexes, class, `->state`, `->on_rq`, time
slice, the child it is forking). `rq` holds the 40 lists of `ts_rq`, the sets
of queued RT and fair tasks, `nr_running`, `curr` and TIF_NEED_RESCHED.

An action is what one critical section of `rq->lock` does, with all the class
callbacks it makes (`schedule`, `scheduler_tick`, `do_sched_yield`,
`try_to_wake_up`, `wake_up_new_task`, `sched_setscheduler`, `set_user_nice`,
`rt_mutex_setprio`, `do_set_cpus_allowed`), or a store outside the lock that
others see (`set_current_state`, `do_task_dead`, `dup_task_struct`,
`sched_fork`). A sleep is two actions (`set_current_state`, then `schedule`), an
exit and a yield too; a fork is three: the copy of the parent, `sched_fork`,
which reads the parent's `normal_prio` as it is by then, and `wake_up_new_task`.
Ticks, wakeups and parameter changes from other CPUs come in between. Every
enqueue carries its ENQUEUE_ flags, and `enqueued` applies the wakeup boost
where `enqueue_task_ts()` tests for it.

External: `fair.c`, `idle.c`, `list.h`, `prio.h`. The fair class picks any of
its tasks. Left out: RT bandwidth throttling, SCHED_DEADLINE, other CPUs.

## JobControl: jankersh

`joblist` and `job` are the shell's list of `struct Job`; `group` counts the
children of each process group by state, as the kernel sees them, with the
shell's own group split into the child just forked (`New`) and those that no
`groupId` names (`NoJob`); `main` is the program counter and locals of the main
thread; `sys` is `nJobs`, the pending SIGCHLD, the signal mask and the
terminal's foreground group.

`execJob2()` is cut into `start_job`, `fork_child`, `setpgid`, `set_count`,
`set_group`, `reset_count`, `continue_job`, `route`, `block_sigchld`,
`wait_foreground`, `unblock_sigchld`, `block_sigttou`, `take_terminal`,
`unblock_sigttou`: the places where the SIGCHLD handler `theReaper` or a child
can come in with a visible effect. A child moves itself to its group
(`child_setpgid`) or is moved by the shell, whoever is first, and execs, exits,
stops and is continued at any time. `Addressed` says which children `waitpid()`
and `kill()` of a group id mean, 0 and the -1 of a failed `fork()` included.
The user's commands are `addJobs`, `builtin`, `exit`, `bg_fg_current` and
`bg_fg_id`. The kernel's process states and SIGCHLD generation are external.

## Runs

| Run | Checks | Result |
|---|---|---|
| `ts_sched` | `TypeOK`, `TsIndexInRange`, `SliceNeverPassesZero`, `NoLostTask`, `RunQueueConsistent`, `BetterTaskNoticed`, `PrioGainNeedsSleep` | hold, 145,486 states |
| `ts_fork` | `ForkDropsBoost` | holds, 56,645 states |
| `ts_busy` | `QueuedTsRuns` (liveness) | holds, 64,857 states |
| `job_control` | `TypeOK`, `NoOrphan`, `TerminalReturned`, `SigchldOpen`, `JobIdsDistinct`, `NoPendingAtPrompt` | hold, 1,632,038 states |
| `job_live` | `BackToPrompt`, `FgEndsJob` (liveness) | hold, 335,576 states |
| `job_signal` | `SignalledJobIsDone` (liveness) | holds, 335,576 states |
| `ts_pick` | `PicksHighestClass` | violated |
| `ts_preempt` | `TsNeverPreempted` | violated |
| `ts_deboost` | `DeboostRestoresClass` | violated |
| `ts_restore` | `RestoreKeepsPlace` | violated |
| `job_exec` | `ExecDoneAtWait` | violated |
| `job_done` | `AllChildrenDone` | violated |

The six violated properties are statements of comments in the source that the
code does not keep:

* `core.c:3369` "Pick up the highest-prio task": `ts.c` does not count its
  tasks in `nr_running`, so the fair-only fast path (`core.c:3383`) passes over
  a queued SCHED_TS task.
* `ts.c:64` "ts tasks are never preempted": the lines above it reschedule the
  running task.
* `core.c:4389-4394`, the class of a boosted task is settled "when the task
  deboost itself": `rt_mutex_setprio()` then puts a SCHED_TS task in the fair
  class.
* `sched.h:1500-1505`, SAVE/RESTORE pairs "should preserve as much state as
  possible": `enqueue_task_ts()` always appends.
* `jankersh.c:753` "At this time the exec should be doen (properties of
  vfork)": the children come from `fork()`.
* `jankersh.c:764` "If all children done": after a first `fork()` that fails,
  the next child stays in the shell's process group, and the foreground wait,
  which asks for group 1, marks the job DONE while the child runs.

What the handler of jankersh does not do. It loses exits: one that comes before
`groupId` is stored (`jankersh.c:726`) or while the job is taken for suspended
is not found then, and one that it counts between lines 726 and 727 is erased
from `finishCount`. A background job may so stay RUNNING for ever although all
its processes have exited; the same happens when a later `fork()` of a pipeline
fails, since `nPipe` counts it (line 725). No text of the repository promises
more, so no property says that a finished job becomes DONE. Two properties bound
the loss: `SignalledJobIsDone` (if nothing was erased, the next SIGCHLD, of
whichever child, finishes the job) and `FgEndsJob` (in every case `fg` does).

`BetterTaskNoticed` also tells where the code does not preempt: a queued task
that becomes SCHED_TS waits, because `switched_to_ts()` (`ts.c:143`) does
nothing; no other operation leaves a better SCHED_TS task waiting without
TIF_NEED_RESCHED. `ForkDropsBoost` allows what `sched_fork()` does when another
CPU changes the parent after the copy: the child keeps the copied policy and
gets the priority of the parent's new one.

### Bounds

* TsSched: two tasks give every pair of running, queued, sleeping and forking;
  the busy run has three, so that two wait. `SliceUnit = 1` replaces the factor
  4 of a slice: slices are 1 to 4 ticks instead of 4 to 16, and every demotion
  still happens. One RT priority, one donor. `ts_sched` and `ts_busy` have the
  nice values 0 and 19. In `ts_sched` a reniced task is followed up to the next
  tick of a SCHED_TS task (`RenicedIsFresh`), and one task at a time is in the
  middle of a slice (`OneSliceBegun`); the busy run has neither bound.
  `ts_fork` has nice values -20 and 0 and both reset-on-fork flags, and stops at
  the first tick of a SCHED_TS task (`BeforeFirstTick`).
* JobControl: two jobs, pipelines of two processes. `MaxJobId` bounds `nJobs`:
  at 4 two numbered jobs and a renumbering meet. `MaxFault` bounds the forks
  that fail and the signals that hit a child before its `setpgid()`.
  `job_control` allows one such fault and lets only the first job on the list
  have two processes (`LaterJobsAreShort`). Outside the kept runs,
  `NoOrphan`, `JobIdsDistinct` and `NoPendingAtPrompt` were also checked without
  that bound and without faults (1,420,201 states), and `TypeOK`,
  `TerminalReturned` and `SigchldOpen` with two faults at `MaxJobId = 3`
  (2,321,236 states). The
  liveness runs have pipelines of two, no faults and `MaxJobId = 3`.
* `addJobs` takes some free `struct Job` objects; which ones does not matter.
* Symmetry over tasks is used in safety runs only.
* The jankersh runs do not check deadlock: `exit` ends the shell.

### Fairness

* `BusySpec`: weak fairness of `scheduler_tick` (the timer interrupt keeps
  coming) and of `schedule` (TIF_NEED_RESCHED is acted on when the kernel
  returns from the interrupt).
* `FairSpec`: weak fairness of the shell's own steps, because the kernel runs
  it. Nothing is assumed of the user or of the children.
* `SignalSpec`: also strong fairness of the handler, because a pending signal
  is delivered when it is unblocked, however briefly.

## Proofs

`TsSchedProofs` proves for every set of tasks and every argument range allowed
by `ConstAssumption`:

| Theorem | Property |
|---|---|
| `TypeCorrect` | `TypeOK` |
| `QueuesAgree` | `RunQueueConsistent` |
| `IndexInRange` | `TsIndexInRange` |
| `SliceInRange` | `SliceNeverPassesZero` |
| `NothingLost` | `NoLostTask` |

`RunQueueConsistent` is not inductive: moving a task to the list of its new
priority is right only if that priority is an index, which depends on the class
agreeing with the priority (`TaskOK`); a new task can be queued only if no list
holds it yet, which depends on `->state` agreeing with `->on_rq` (`RunOK`), on a
dead task being queued only while it runs (`DeadOK`) and on a child being COPIED
or NEW and having one parent (`ForkOK`). The inductive invariant `IInv` is the
conjunction of these with `QueuesOK` (each queue holds exactly the tasks that
say so). `ListDel` and `ListAdd` say what the list operations do, `Enqueued`
what an enqueue does to the task; there is one `...Step` lemma per action;
`NextInv` collects them.

Only model-checked: `BetterTaskNoticed`, `PrioGainNeedsSleep`, `ForkDropsBoost`,
all of JobControl, and the three liveness runs (liveness under fairness is out
of the proof system's reach).

## Plan

1. JobControl: prove `NoOrphan`, `TerminalReturned` and `SigchldOpen`; an abstract job life cycle that JobControl implements.
2. TsSched: prove the three action properties.
3. Flow tables (`rate_limit.c`, `drop_flow_byte.c`): packets on two CPUs,
   recycled entries, counter wrap; prove the bound on accepted bytes.
4. xmerge: descriptors and error codes over every failing call.
5. jankersh: pipe descriptors of a pipeline; the tokenizer as a function.
6. Core scheduler across CPUs: `try_to_wake_up()` with `->on_cpu`, affinity and
   migration, hotplug (`migrate_tasks()` relies on `nr_running`).
7. `rt.c`: priority array and round robin, bandwidth throttling, push and pull.
8. myfirst (registration and unwinding), lab4, myshell, mysum.
