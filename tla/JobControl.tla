----------------------------- MODULE JobControl -----------------------------
(***************************************************************************)
(* The job control of jankersh (assignment3-1/jankersh.c): the main thread *)
(* of the shell, its SIGCHLD handler theReaper(), and the processes of the *)
(* pipelines it starts.                                                    *)
(*                                                                         *)
(* The main thread is cut wherever the handler or a child may come in      *)
(* between with a visible effect.  The handler itself is one action: it    *)
(* interrupts the main thread and runs to its end.  Every pointer store of *)
(* the TAILQ macros leaves a list that the handler can traverse, so        *)
(* inserting and removing a job are one step each.                         *)
(***************************************************************************)
EXTENDS Integers, Sequences, FiniteSets, FiniteSetsExt, Functions

CONSTANTS
    Job,       \* struct Job objects; also the process groups they start
    NoJob,     \* groupId 0: the process group of the shell; also "no job"
    Failed,    \* groupId -1: what a failed fork() returns
    New,       \* the child that the shell has forked and not yet moved
    MaxPipe,   \* longest pipeline
    MaxJobId,  \* bound on nJobs
    MaxFault   \* bound on failed forks and on signals that hit the new child

ASSUME ConstAssumption ==
    /\ Cardinality({NoJob, Failed, New}) = 3
    /\ {NoJob, Failed, New} \cap Job = {}
    /\ MaxPipe \in Nat \ {0}
    /\ MaxJobId \in Nat /\ MaxFault \in Nat

VARIABLES
    joblist,  \* joblist_head
    job,      \* the contents of every struct Job
    group,    \* how many processes of a group are in each state (kernel)
    main,     \* program counter and local variables of the main thread
    sys       \* nJobs, signal state of the shell, foreground group of the tty

vars == <<joblist, job, group, main, sys>>

\* The groups of children.  The shell's own process group holds those of NoJob,
\* which no job has a groupId for, and the one of New.
Group == Job \cup {NoJob, New}

ShellGroup == {NoJob, New}

\* Children that are ever in one group: those of a pipeline, and in the shell's
\* group those that each fault leaves there.
MaxChildren == MaxPipe * (MaxFault + 1)

Status == {"PENDING", "RUNNING", "HIATUS", "DONE"}

Signal == {"SIGCHLD", "SIGTTOU"}

\* forked: before exec; stopped: the stop is not yet reported by waitpid();
\* reported: it is; zombie: exited and not yet reported.
ProcState == {"forked", "running", "stopped", "reported", "zombie"}

\* The main thread has ended: exit, a null pointer access, or the shell itself
\* stopped by SIGTTOU.
Halted == {"exited", "crashed", "ttou"}

Pc == {"prompt", "exec", "start", "fork", "setpgid", "count", "group", "reset", "cont",
       "route", "block", "wait", "unblock", "block_ttou", "tcsetpgrp", "restore",
       "clean"} \cup Halted

job_struct ==
    [status : Status, isBackground : BOOLEAN,
     token : {"word", "blank", "none"},      \* the first one; blank is ""
     groupId : Job \cup {NoJob, Failed}, nPipe : 0..MaxPipe,
     finishCount : 0..MaxChildren, jobId : 0..MaxJobId]

NoProcess == [s \in ProcState |-> 0]

\* The processes of a group that waitpid() has not reaped.
Children(g) == g["forked"] + g["running"] + g["stopped"] + g["reported"] + g["zombie"]

\* A process of a group changes its state.
moved(g, from, to) == [g EXCEPT ![from] = @ - 1, ![to] = @ + 1]

Listed(j) == \E k \in DOMAIN joblist : joblist[k] = j

-----------------------------------------------------------------------------
(* The processes, and the kernel's side of job control. *)

ShellAlive == main.pc \notin Halted

\* A signal for the new child before its setpgid(), or a fork() that fails.
faulty(y, isFault) == [y EXCEPT !.faults = IF isFault THEN @ + 1 ELSE @]

\* A child changes state: SIGCHLD to the shell (SA_NOCLDSTOP is not set).
child_changes(p, from, to) ==
    /\ ShellAlive
    /\ group[p][from] > 0
    /\ p = New => sys.faults < MaxFault
    /\ group' = [group EXCEPT ![p] = moved(@, from, to)]
    /\ sys' = [faulty(sys, p = New) EXCEPT !.pending = TRUE]
    /\ UNCHANGED <<joblist, job, main>>

\* setpgid() of the new child to new_gpid succeeds: it becomes the leader of the
\* group, or the group has not died out.
Joinable ==
    main.gid = main.cur /\ (main.left = main.width \/ Children(group[main.cur]) > 0)

\* The new child is in the group of the job, or stays in the shell's.
joined ==
    LET to == IF Joinable THEN main.cur ELSE NoJob
    IN  [group EXCEPT ![to] = [s \in ProcState |-> @[s] + group[New][s]], ![New] = NoProcess]

\* The setpgid() in the child, which comes before its execvp().
child_setpgid ==
    /\ ShellAlive
    /\ group[New]["forked"] > 0 /\ Joinable
    /\ group' = joined
    /\ UNCHANGED <<joblist, job, main, sys>>

child_exec(p) ==
    /\ ShellAlive
    /\ group[p]["forked"] > 0 /\ p # New
    /\ group' = [group EXCEPT ![p] = moved(@, "forked", "running")]
    /\ UNCHANGED <<joblist, job, main, sys>>

\* Exit, a failed execvp(), or a fatal signal.
child_exit(p) == \E s \in ProcState \ {"zombie"} : child_changes(p, s, "zombie")

\* SIGTSTP, SIGTTIN or SIGSTOP, and a SIGCONT from elsewhere; a child that was
\* stopped before its execvp() goes on as a running one.
child_stop(p) == \E s \in {"forked", "running"} : child_changes(p, s, "stopped")

child_continue(p) == \E s \in {"stopped", "reported"} : child_changes(p, s, "running")

\* SIGCONT for a group.
continued(g) ==
    [g EXCEPT !["running"] = @ + g["stopped"] + g["reported"],
              !["stopped"] = 0, !["reported"] = 0]

\* The groups that kill() and waitpid() of -gid mean: 0 is the caller's own
\* process group, and 1, for the gid of a failed fork(), is no child.
Addressed(gid) ==
    IF gid = NoJob THEN ShellGroup ELSE IF gid = Failed THEN {} ELSE {gid}

-----------------------------------------------------------------------------
(* theReaper *)

\* How many of the children that a job's groupId addresses are in a state.
Found(j, state) ==
    LET gid == job[j].groupId
    IN  IF gid = Failed THEN 0
        ELSE group[gid][state] + (IF gid = NoJob THEN group[New][state] ELSE 0)

\* Slip: the first exit finishes the job.
reaped_slip(r, exits, stops, stopLast) ==
    [r EXCEPT !.finishCount = @ + exits,
              !.status = IF exits > 0 THEN "DONE" ELSE IF stops > 0 THEN "HIATUS" ELSE @]

\* Slip: finishCount++ instead of ++finishCount.
reaped_post_slip(r, exits, stops, stopLast) ==
    [r EXCEPT !.finishCount = @ + exits,
              !.status = IF r.finishCount <= r.nPipe /\ r.nPipe < r.finishCount + exits
                         THEN "DONE" ELSE IF stops > 0 THEN "HIATUS" ELSE @]

\* What the loop around waitpid(WNOHANG | WUNTRACED) makes of a job for which it
\* finds so many exits and stops: a stop suspends it, the exit that brings
\* ++finishCount to nPipe finishes it, and the later of the two counts.
reaped(r, exits, stops, stopLast) ==
    LET count == r.finishCount + exits
        done == r.finishCount < r.nPipe /\ r.nPipe <= count
    IN  [r EXCEPT !.finishCount = count,
                  !.status = IF done /\ ~ (stops > 0 /\ stopLast) THEN "DONE"
                             ELSE IF stops > 0 THEN "HIATUS" ELSE @]

\* waitpid() has reported every stop and every exit.
waited(g) ==
    [g EXCEPT !["reported"] = @ + g["stopped"], !["stopped"] = 0, !["zombie"] = 0]

\* The running jobs of the list, in the order of the list; of those that have
\* no group, the first finds all that waitpid(0) can find.
Reaping(k) ==
    /\ job[joblist[k]].status = "RUNNING"
    /\ job[joblist[k]].groupId = NoJob =>
         \A l \in 1..(k - 1) : ~ (/\ job[joblist[l]].status = "RUNNING"
                                 /\ job[joblist[l]].groupId = NoJob)

theReaper ==
    LET Reapers == {joblist[k] : k \in {l \in DOMAIN joblist : Reaping(l)}}
        Reaped == UNION {Addressed(job[j].groupId) : j \in Reapers}
    IN  /\ ShellAlive
        /\ sys.pending /\ "SIGCHLD" \notin sys.mask
        /\ \E stopLast \in BOOLEAN :
             job' = [j \in Job |->
                       IF j \in Reapers
                       THEN reaped(job[j], Found(j, "zombie"), Found(j, "stopped"), stopLast)
                       ELSE job[j]]
        /\ group' = [p \in Group |-> IF p \in Reaped THEN waited(group[p]) ELSE group[p]]
        /\ sys' = [sys EXCEPT !.pending = FALSE]
        /\ UNCHANGED <<joblist, main>>

-----------------------------------------------------------------------------
(* The command line: main(), addJobs(), execJobs() and the builtins. *)

new_job(kind) ==
    [status |-> "PENDING", isBackground |-> kind \in {"bg", "bare"},
     token |-> CASE kind = "blank" -> "blank" [] kind = "bare" -> "none" [] OTHER -> "word",
     groupId |-> NoJob, nPipe |-> 0, finishCount |-> 0, jobId |-> 0]

\* A struct Job that is not allocated; its contents mean nothing.
freed == [new_job("fg") EXCEPT !.status = "DONE"]

\* What a line asks for: commands ended by &, then at most one that is not; a
\* bare & has no command before it.
Line == {<<"blank">>, <<"bare">>, <<"fg">>, <<"bg">>, <<"bg", "bg">>, <<"bg", "fg">>}

IsPending(j) == job'[j].status = "PENDING"

\* Struct Job objects for a line: any that are free, since they differ only in
\* their names.  A pid in use as a group is not given to a new process.
Free == {j \in Job : ~ Listed(j) /\ Children(group[j]) = 0}

Allocated(line) == CHOOSE new \in Injection(DOMAIN line, Free) : TRUE

\* A line that is no builtin: addJobs() appends a job for every command, then
\* execJobs() goes through the pending ones.
addJobs(line) ==
    LET new == Allocated(line)
    IN  /\ main.pc = "prompt"
        /\ sys.nJobs + Len(line) <= MaxJobId
        /\ Len(line) <= Cardinality(Free)
        /\ joblist' = joblist \o new
        /\ job' = [j \in Job |-> IF \E k \in DOMAIN line : new[k] = j
                                 THEN new_job(line[CHOOSE k \in DOMAIN line : new[k] = j])
                                 ELSE job[j]]
        /\ main' = [main EXCEPT !.pc = "exec", !.passes = 1,
                                !.todo = SelectSeq(joblist', IsPending)]
        /\ UNCHANGED <<group, sys>>

\* cleanJobList() starts, for the given number of times.
cleaning(m, passes) == [m EXCEPT !.pc = "clean", !.todo = joblist, !.passes = passes]

\* The return from execJob2(), whose local variables die: to execJobs() or, from
\* a builtin, to main().
returned(m) ==
    LET r == [m EXCEPT !.cur = NoJob, !.gid = NoJob, !.width = 0, !.prev = {}]
    IN  IF m.passes = 2 THEN cleaning(r, 2) ELSE [r EXCEPT !.pc = "exec"]

\* Slip: only the first pending job is executed.
execJobs_slip ==
    /\ main.pc = "exec"
    /\ main' = IF main.todo = <<>> THEN cleaning(main, 1)
               ELSE [main EXCEPT !.pc = "start", !.cur = Head(main.todo), !.todo = <<>>]
    /\ UNCHANGED <<joblist, job, group, sys>>

execJobs ==
    /\ main.pc = "exec"
    /\ main' = IF main.todo = <<>> THEN cleaning(main, 1)
               ELSE [main EXCEPT !.pc = "start", !.cur = Head(main.todo),
                                 !.todo = Tail(main.todo)]
    /\ UNCHANGED <<joblist, job, group, sys>>

\* jobs, cd, and the error paths of bg and fg.
builtin ==
    /\ main.pc = "prompt"
    /\ main' = cleaning(main, 2)
    /\ UNCHANGED <<joblist, job, group, sys>>

\* exit, and the end of the input.
exit ==
    /\ main.pc = "prompt"
    /\ main' = [main EXCEPT !.pc = "exited"]
    /\ UNCHANGED <<joblist, job, group, sys>>

\* The last suspended job, else the last job; called on a nonempty list.
currentJob ==
    LET stopped == {k \in DOMAIN joblist : job[joblist[k]].status = "HIATUS"}
    IN  IF stopped = {} THEN joblist[Len(joblist)]
        ELSE joblist[CHOOSE k \in stopped : \A l \in stopped : l <= k]

\* The first job with this id; NoJob if there is none.
findJobByJobId(id) ==
    LET found == {k \in DOMAIN joblist : job[joblist[k]].jobId = id}
    IN  IF found = {} THEN NoJob
        ELSE joblist[CHOOSE k \in found : \A l \in found : k <= l]

\* bg and fg call execJob2(j).
resume(j, background) ==
    /\ job' = [job EXCEPT ![j].isBackground = background]
    /\ main' = [main EXCEPT !.pc = "start", !.cur = j, !.passes = 2]
    /\ UNCHANGED <<joblist, group, sys>>

\* bg and fg without an argument.
bg_fg_current(background) ==
    /\ main.pc = "prompt"
    /\ sys.nJobs < MaxJobId
    /\ IF joblist = <<>>
       THEN /\ main' = [main EXCEPT !.pc = "crashed"]
            /\ UNCHANGED <<joblist, job, group, sys>>
       ELSE /\ job[currentJob].status \notin {"PENDING", "DONE"}
            /\ background => job[currentJob].status # "RUNNING"
            /\ resume(currentJob, background)

\* bg %id and fg %id.
bg_fg_id(background, id) ==
    /\ main.pc = "prompt"
    /\ sys.nJobs < MaxJobId
    /\ findJobByJobId(id) # NoJob
    /\ resume(findJobByJobId(id), background)

\* Slip: nJobs is reset whatever is left on the list.
renumbered_slip == 1

\* nJobs starts again at 1 when no job is left.
renumbered == IF joblist = <<>> THEN 1 ELSE sys.nJobs

\* cleanJobList() removes and frees one job after the other, then resets nJobs.
cleanJobList ==
    /\ main.pc = "clean"
    /\ IF main.todo # <<>>
       THEN LET IsOther(j) == j # Head(main.todo)
                removes == job[Head(main.todo)].status = "DONE"
            IN  /\ joblist' = IF removes THEN SelectSeq(joblist, IsOther) ELSE joblist
                /\ job' = IF removes THEN [job EXCEPT ![Head(main.todo)] = freed] ELSE job
                /\ main' = [main EXCEPT !.todo = Tail(@)]
                /\ sys' = sys
       ELSE /\ main' = IF main.passes = 2 THEN cleaning(main, 1)
                       ELSE [main EXCEPT !.pc = "prompt", !.passes = 0]
            /\ sys' = [sys EXCEPT !.nJobs = renumbered]
            /\ UNCHANGED <<joblist, job>>
    /\ group' = group

-----------------------------------------------------------------------------
(* execJob2(main.cur) *)

\* The status of the current job and the next statement.
step(status, m) ==
    /\ job' = [job EXCEPT ![main.cur].status = status]
    /\ main' = m

goto(label) == [main EXCEPT !.pc = label]

\* The first test, and the branch on ->status: a new job is parsed, which
\* fails if a file cannot be opened; a suspended one is to be continued.
start_job ==
    LET j == main.cur
        status == job[j].status
        resumed(label) == [main EXCEPT !.pc = label, !.gid = job[j].groupId]
    IN  /\ main.pc = "start"
        /\ \/ /\ job[j].token = "none"
              /\ step(status, goto("crashed"))
           \/ /\ job[j].token = "blank"
              /\ job' = [job EXCEPT ![j].status = "DONE", ![j].isBackground = FALSE]
              /\ main' = returned(main)
           \/ /\ job[j].token = "word" /\ status = "PENDING"
              /\ \/ step("RUNNING", returned(main))
                 \/ \E n \in 1..MaxPipe :
                      step("RUNNING", [main EXCEPT !.pc = "fork", !.width = n, !.left = n])
           \/ /\ job[j].token = "word" /\ status = "HIATUS"
              /\ step("RUNNING", resumed("cont"))
           \/ /\ job[j].token = "word" /\ status \in {"RUNNING", "DONE"}
              /\ step(status, IF status = "DONE" THEN returned(main) ELSE resumed("route"))
        /\ UNCHANGED <<joblist, group, sys>>

\* kill(-new_gpid, SIGCONT).
continue_job ==
    LET to == Addressed(main.gid)
    IN  /\ main.pc = "cont"
        /\ group' = [p \in Group |-> IF p \in to THEN continued(group[p]) ELSE group[p]]
        /\ sys' = [sys EXCEPT !.pending =
                      @ \/ \E p \in to : group[p]["stopped"] + group[p]["reported"] > 0]
        /\ main' = goto("route")
        /\ UNCHANGED <<joblist, job>>

\* Slip: one turn too many.
next_child_slip(m) ==
    [m EXCEPT !.left = @ - 1, !.pc = IF m.left = 0 THEN "count" ELSE "fork"]

\* The next turn of the loop over the pipeline.
next_child(m) ==
    [m EXCEPT !.left = @ - 1, !.pc = IF m.left = 1 THEN "count" ELSE "fork"]

\* fork() of the next process of the pipeline; the first names the group.  A
\* failure is not looked at.
fork_child ==
    LET leads(pid) == [main EXCEPT !.gid = IF main.left = main.width THEN pid ELSE @]
    IN  /\ main.pc = "fork"
        /\ \/ /\ group' = [group EXCEPT ![New]["forked"] = @ + 1]
              /\ main' = [leads(main.cur) EXCEPT !.pc = "setpgid"]
              /\ sys' = sys
           \/ /\ sys.faults < MaxFault
              /\ main' = next_child(leads(Failed))
              /\ sys' = faulty(sys, TRUE)
              /\ group' = group
        /\ UNCHANGED <<joblist, job>>

\* The setpgid() in the shell.
setpgid ==
    /\ main.pc = "setpgid"
    /\ group' = joined
    /\ main' = next_child(main)
    /\ UNCHANGED <<joblist, job, sys>>

\* job->nPipe: what was asked for, forked or not.
set_count ==
    /\ main.pc = "count"
    /\ job' = [job EXCEPT ![main.cur].nPipe = main.width]
    /\ main' = goto("group")
    /\ UNCHANGED <<joblist, group, sys>>

\* job->groupId: from here on the handler sees the group.
set_group ==
    /\ main.pc = "group"
    /\ job' = [job EXCEPT ![main.cur].groupId = main.gid]
    /\ main' = goto("reset")
    /\ UNCHANGED <<joblist, group, sys>>

\* job->finishCount = 0: what the handler has counted by now is lost.
reset_count ==
    /\ main.pc = "reset"
    /\ job' = [job EXCEPT ![main.cur].finishCount = 0]
    /\ main' = goto("route")
    /\ UNCHANGED <<joblist, group, sys>>

\* A background job gets its number.  A foreground job gets the terminal,
\* unless its group is gone.
route ==
    LET j == main.cur
    IN  /\ main.pc = "route"
        /\ IF job[j].isBackground
           THEN /\ job' = [job EXCEPT ![j].jobId = sys.nJobs]
                /\ sys' = [sys EXCEPT !.nJobs = @ + 1]
                /\ main' = returned(main)
           ELSE /\ sys' = IF main.gid = j /\ Children(group[j]) > 0
                          THEN [sys EXCEPT !.tty = j] ELSE sys
                /\ main' = goto("block")
                /\ job' = job
        /\ UNCHANGED <<joblist, group>>

\* Slip: the old mask is not asked for.
blockSig_slip(sig, label) ==
    /\ sys' = [sys EXCEPT !.mask = @ \cup {sig}]
    /\ main' = [main EXCEPT !.pc = label]
    /\ UNCHANGED <<joblist, job, group>>

\* blockSig(sig): the old mask is kept in prev.
blockSig(sig, label) ==
    /\ sys' = [sys EXCEPT !.mask = @ \cup {sig}]
    /\ main' = [main EXCEPT !.prev = sys.mask, !.pc = label]
    /\ UNCHANGED <<joblist, job, group>>

\* sigprocmask(SIG_UNBLOCK, prev): unblocks what was blocked before.
unblockPrev(m) ==
    /\ sys' = [sys EXCEPT !.mask = @ \ main.prev]
    /\ main' = m
    /\ UNCHANGED <<joblist, job, group>>

block_sigchld == main.pc = "block" /\ blockSig("SIGCHLD", "wait")

\* Slip: a foreground job that is over is not marked.
wait_foreground_slip ==
    /\ main.pc = "wait"
    /\ \/ \E p \in Addressed(main.gid) :
            /\ group[p]["zombie"] > 0
            /\ group' = [group EXCEPT ![p]["zombie"] = @ - 1]
            /\ main' = main
       \/ /\ \A p \in Addressed(main.gid) : Children(group[p]) = 0
          /\ main' = goto("unblock")
          /\ group' = group
    /\ UNCHANGED <<joblist, job, sys>>

\* waitpid(-new_gpid, WUNTRACED), blocking: reaps an exit without counting it,
\* suspends the job at a stop, and fails when there is no child left.
wait_foreground ==
    LET j == main.cur
    IN  /\ main.pc = "wait"
        /\ \/ \E p \in Addressed(main.gid) :
                /\ group[p]["zombie"] > 0
                /\ group' = [group EXCEPT ![p]["zombie"] = @ - 1]
                /\ UNCHANGED <<job, main, sys>>
           \/ \E p \in Addressed(main.gid) :
                /\ group[p]["stopped"] > 0
                /\ group' = [group EXCEPT ![p] = moved(@, "stopped", "reported")]
                /\ job' = [job EXCEPT ![j].isBackground = TRUE, ![j].status = "HIATUS",
                                      ![j].jobId = sys.nJobs]
                /\ sys' = [sys EXCEPT !.nJobs = @ + 1]
                /\ main' = goto("unblock")
           \/ /\ \A p \in Addressed(main.gid) : Children(group[p]) = 0
              /\ step("DONE", goto("unblock"))
              /\ UNCHANGED <<group, sys>>
        /\ joblist' = joblist

unblock_sigchld == main.pc = "unblock" /\ unblockPrev(goto("block_ttou"))

\* Slip: SIGTTOU stays deliverable.
block_sigttou_slip ==
    /\ main.pc = "block_ttou"
    /\ main' = goto("tcsetpgrp")
    /\ UNCHANGED <<joblist, job, group, sys>>

block_sigttou == main.pc = "block_ttou" /\ blockSig("SIGTTOU", "tcsetpgrp")

\* tcsetpgrp() in a background process group stops the caller, unless it
\* blocks SIGTTOU.
take_terminal ==
    /\ main.pc = "tcsetpgrp"
    /\ IF sys.tty = NoJob \/ "SIGTTOU" \in sys.mask
       THEN sys' = [sys EXCEPT !.tty = NoJob] /\ main' = goto("restore")
       ELSE sys' = sys /\ main' = goto("ttou")
    /\ UNCHANGED <<joblist, job, group>>

unblock_sigttou == main.pc = "restore" /\ unblockPrev(returned(main))

-----------------------------------------------------------------------------
(* The specification. *)

Init ==
    /\ joblist = <<>>
    /\ job = [j \in Job |-> freed]
    /\ group = [p \in Group |-> NoProcess]
    /\ main = [pc |-> "prompt", cur |-> NoJob, todo |-> <<>>, passes |-> 0,
               gid |-> NoJob, width |-> 0, left |-> 0, prev |-> {}]
    /\ sys = [nJobs |-> 1, pending |-> FALSE, mask |-> {}, tty |-> NoJob, faults |-> 0]

\* The user at the prompt.
UserCommand ==
    \/ \E line \in Line : addJobs(line)
    \/ builtin
    \/ exit
    \/ \E background \in BOOLEAN : bg_fg_current(background)
    \/ \E background \in BOOLEAN, id \in 0..MaxJobId : bg_fg_id(background, id)

\* The steps that the shell takes on its own.
ShellStep ==
    \/ execJobs \/ cleanJobList \/ start_job \/ fork_child \/ setpgid \/ set_count
    \/ set_group \/ reset_count \/ continue_job \/ route \/ block_sigchld
    \/ wait_foreground \/ unblock_sigchld \/ block_sigttou \/ take_terminal
    \/ unblock_sigttou

ChildStep ==
    \/ child_setpgid
    \/ \E p \in Group : child_exec(p) \/ child_exit(p) \/ child_stop(p) \/ child_continue(p)

Next == UserCommand \/ ShellStep \/ theReaper \/ ChildStep

Spec == Init /\ [][Next]_vars

\* The kernel runs the shell; nothing is assumed of the user and the children.
FairSpec == Spec /\ WF_vars(ShellStep)

\* It also delivers a pending SIGCHLD when it is unblocked.
SignalSpec == FairSpec /\ SF_vars(theReaper)

-----------------------------------------------------------------------------
(* Properties. *)

TypeOK ==
    /\ joblist \in Seq(Job)
    /\ job \in [Job -> job_struct]
    /\ group \in [Group -> [ProcState -> 0..MaxChildren]]
    /\ main \in [pc : Pc, cur : Job \cup {NoJob}, todo : Seq(Job), passes : 0..2,
                 gid : Job \cup {NoJob, Failed}, width : 0..MaxPipe, left : 0..MaxPipe,
                 prev : SUBSET Signal]
    /\ sys \in [nJobs : Nat, pending : BOOLEAN, mask : SUBSET Signal,
                tty : Job \cup {NoJob}, faults : 0..MaxFault]

\* However the handler and the foreground wait share the exits of a pipeline, a
\* job is marked DONE, or freed, only when none of its processes is left; and
\* a child in the process group of the shell is one that it is about to move.
\* After a fault it is otherwise (AllChildrenDone).
NoOrphan ==
    sys.faults = 0 =>
      /\ \A j \in Job : Children(group[j]) > 0 => Listed(j) /\ job[j].status # "DONE"
      /\ Children(group[NoJob]) = 0
      /\ Children(group[New]) > 0 => main.pc = "setpgid"

\* The terminal belongs to a job only while execJob2() waits for that job, and
\* taking it back never stops the shell.
TerminalReturned ==
    /\ sys.tty # NoJob =>
         /\ main.cur = sys.tty
         /\ main.pc \in {"block", "wait", "unblock", "block_ttou", "tcsetpgrp"}
    /\ main.pc # "ttou"

\* The two pairs of blockSig() and SIG_UNBLOCK of the old mask leave SIGCHLD
\* unblocked: at the prompt, and whenever a child is forked.
SigchldOpen ==
    "SIGCHLD" \in sys.mask =>
      main.pc \in {"wait", "unblock", "block_ttou", "tcsetpgrp", "restore"}

\* A job number names one job, in spite of the reset in cleanJobList().
JobIdsDistinct ==
    \A j, k \in Job : Listed(j) /\ Listed(k) /\ job[j].jobId # 0 =>
      /\ job[j].jobId < sys.nJobs
      /\ job[j].jobId = job[k].jobId => j = k

\* bg and fg on a PENDING job: "congrat, you've seen a bug".  At the prompt
\* every job has been started.
NoPendingAtPrompt ==
    main.pc = "prompt" => \A j \in Job : Listed(j) => job[j].status # "PENDING"

\* The shell is back at its prompt after the last process of the foreground
\* job has exited.
BackToPrompt ==
    (main.pc = "wait" /\ Children(group[main.cur]) = group[main.cur]["zombie"])
      ~> (main.pc = "prompt")

\* The handler loses exits: those it counts before finishCount is reset, and
\* those that come while it takes the job for suspended or without a group.
\* fg makes up for all of them: a job whose processes have exited, brought to
\* the foreground, is taken off the list.
FgEndsJob ==
    \A j \in Job :
      (/\ main.pc = "start" /\ main.cur = j
       /\ job[j].status \in {"RUNNING", "HIATUS"} /\ ~ job[j].isBackground
       /\ Children(group[j]) = group[j]["zombie"])
      ~> ~ Listed(j)

\* An exit that came before its groupId was stored is found at the next SIGCHLD,
\* whichever child that is for: a job whose processes have exited, all of them
\* counted or still to be waited for, becomes DONE then, unless the shell ends
\* or stays in the wait for a foreground job.  The one state left out has
\* finishCount = 0 before it.
SignalledJobIsDone ==
    \A j \in Job :
      (/\ sys.pending /\ main.pc # "reset"
       /\ Listed(j) /\ job[j].status = "RUNNING" /\ job[j].groupId = j
       /\ Children(group[j]) = group[j]["zombie"]
       /\ job[j].finishCount + group[j]["zombie"] = job[j].nPipe)
      ~> (job[j].status = "DONE" \/ ~ ShellAlive \/ [](main.pc = "wait"))

\* execJob2(), after the foreground wait: "If all children done".  A job that is
\* marked DONE there has no process left, in its own group or the shell's.
AllChildrenDone ==
    main.pc = "unblock" /\ job[main.cur].status = "DONE" =>
      Children(group[main.cur]) + Children(group[NoJob]) = 0

\* execJob2(), at the foreground wait: "At this time the exec should be doen
\* (properties of vfork)".
ExecDoneAtWait == main.pc = "wait" => group[main.cur]["forked"] = 0
=============================================================================
