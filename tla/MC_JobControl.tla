---------------------------- MODULE MC_JobControl ----------------------------
(* JobControl with a few jobs and short pipelines. *)
EXTENDS JobControl

\* Bound: a pipeline of several processes is started first on the list; a job
\* that is started after it has one.
LaterJobsAreShort == main.width > 1 => main.cur = joblist[1]
=============================================================================
