----------------------------- MODULE MC_TsSched -----------------------------
(* Instances of TsSched for TLC. *)
EXTENDS TsSched, TLC

\* Tasks are interchangeable: any of them may be the first one.
TaskSymmetry == Permutations(Task)

\* Nice values: the default alone, with the best, and with the worst.
NiceSmall == {0}
NiceTwo == {-20, 0}
NiceWorse == {0, 19}

\* Bound: after a change of a nice value, only up to the next tick of a SCHED_TS task.
RenicedIsFresh ==
    \A p \in Task : task[p].static_prio # NICE_TO_PRIO(0) =>
      \A q \in Task : task[q].time_slice = 3 * SliceUnit

\* Bound: one task at a time has used part of its time slice.
OneSliceBegun ==
    \A p, q \in Task : task[p].time_slice # 3 * SliceUnit /\ task[q].time_slice # 3 * SliceUnit
                      => p = q

\* Bound of the fork run: no TS task has met a tick yet.
BeforeFirstTick == \A p \in Task : task[p].time_slice = 3 * SliceUnit
=============================================================================
