---------------------------- MODULE MCReportQueue ----------------------------
(***************************************************************************)
(* Small instances of ReportQueue for TLC.                                 *)
(***************************************************************************)
EXTENDS ReportQueue, TLC

CONSTANTS u1, u2, r1, r2, r3

TwoUsers     == {u1, u2}
UserSymmetry == Permutations(TwoUsers)

\* r1 is scheduled and wants a notification, r2 is manual and for the same stock,
\* r3 is manual and for another stock.
KindKey    == [r \in Request |-> IF r = r3 THEN 2 ELSE 1]
KindManual == {r2, r3} \cap Request
KindNotify == {r1} \cap Request

\* Nobody polls or cancels: after the enqueue calls that create the tasks the queue
\* is on its own.  (The report lock may still be refused: Admit may always fail.)
UnattendedNext ==
  \/ \E u \in User, r \in Request : EnqueueNew(u, r)
  \/ \E u \in Thread : ThreadStep(u)
  \/ \E t \in Task : RunStep(t)

UnattendedSpec ==
  Init /\ [][UnattendedNext]_vars /\ ThreadFairness /\ RunFairness

==============================================================================
