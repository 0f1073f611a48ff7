------------------------ MODULE OpenClawCallsProofs ------------------------
(***************************************************************************)
(* For every set of calls and of cancelling threads: the types, and that   *)
(* no process of the gateway's command line is left behind.                *)
(***************************************************************************)
EXTENDS OpenClawCalls, TLAPS

\* What bounds the processes of a call: none before it is started, one before a second.
Attempts ==
  \A c \in Calls : /\ at[c] \in {"idle", "enter"} => tries[c] = 0
                   /\ at[c] = "spawn" => tries[c] \in 0 .. 1

IInv == TypeOK /\ Attempts /\ NoProcessLeft

LEMMA InitHolds == Init => IInv
<1> SUFFICES ASSUME Init PROVE IInv
  OBVIOUS
<1>1. TypeOK
  <2>1. /\ cut \in BOOLEAN /\ active \subseteq Calls /\ marked \subseteq Calls
        /\ alive \subseteq Calls /\ missed \subseteq Calls
    BY DEF Init
  <2>2. cancel \in [Cancellers -> [Calls -> {"none", "mark", "kill", "abort"}]]
    BY Zenon DEF Init
  <2>3. held \in [Cancellers -> [Calls -> 0 .. 2]]
    <3>1. 0 \in 0 .. 2
      OBVIOUS
    <3> QED
      BY <3>1, Zenon DEF Init
  <2> QED
    BY <2>1, <2>2, <2>3 DEF Init, TypeOK
<1>2. Attempts /\ NoProcessLeft
  BY DEF Init, Attempts, NoProcessLeft
<1> QED
  BY <1>1, <1>2 DEF IInv

-----------------------------------------------------------------------------
\* Types: the processes of a call are counted only as far as Attempts allows.
LEMMA TypesKept == TypeOK /\ Attempts /\ [Next]_vars => TypeOK'
<1> SUFFICES ASSUME TypeOK, Attempts, [Next]_vars PROVE TypeOK'
  OBVIOUS
<1> USE DEF TypeOK, Attempts, procVars, clientVars, runnerVars, gatewayVars, cancelVars
<1>1. ASSUME NEW c \in Calls, Submit(c) PROVE TypeOK'
  BY <1>1 DEF Submit, Goto
<1>2. ASSUME NEW c \in Calls, Enter(c) PROVE TypeOK'
  BY <1>2 DEF Enter, Goto
<1>3. ASSUME NEW c \in Calls, Spawn(c) PROVE TypeOK'
  BY <1>3, SMTT(30) DEF Spawn, Goto
<1>4. ASSUME NEW c \in Calls, Register(c) PROVE TypeOK'
  BY <1>4, ZenonT(60) DEF Register, Goto, CancelledBeforeRegister
<1>5. ASSUME NEW c \in Calls, Slay(c) PROVE TypeOK'
  BY <1>5 DEF Slay, Goto, Kill
<1>6. ASSUME NEW c \in Calls, Communicate(c) PROVE TypeOK'
  BY <1>6 DEF Communicate, Goto
<1>7. ASSUME NEW c \in Calls, Unregister(c) PROVE TypeOK'
  BY <1>7 DEF Unregister, Goto, MayTryAgain
<1>8. ASSUME NEW c \in Calls, Except(c) PROVE TypeOK'
  BY <1>8 DEF Except, Goto, CancellationAlreadyRequested
<1>9. ASSUME NEW c \in Calls, OwnMark(c) PROVE TypeOK'
  BY <1>9 DEF OwnMark, Goto
<1>10. ASSUME NEW c \in Calls, OwnAbort(c) PROVE TypeOK'
  BY <1>10 DEF OwnAbort, Goto, Abort
<1>11. ASSUME NEW c \in Calls, Finally(c) PROVE TypeOK'
  BY <1>11 DEF Finally, Goto
<1>12. ASSUME NEW c \in Calls, Leave(c) PROVE TypeOK'
  BY <1>12 DEF Leave, Goto
<1>13. ASSUME NEW c \in Calls, TimeOut(c) PROVE TypeOK'
  BY <1>13 DEF TimeOut, Goto, KillOverdue, Kill
<1>14. ASSUME NEW c \in Calls, Arrive(c) PROVE TypeOK'
  BY <1>14 DEF Arrive
<1>15. ASSUME NEW c \in Calls, ProcessExit(c) PROVE TypeOK'
  BY <1>15 DEF ProcessExit
<1>16. ASSUME NEW k \in Cancellers, CancelRun(k) PROVE TypeOK'
  BY <1>16 DEF CancelRun
<1>17. ASSUME NEW k \in Cancellers, NEW c \in Calls, CancelMark(k, c) PROVE TypeOK'
  BY <1>17 DEF CancelMark
<1>18. ASSUME NEW k \in Cancellers, NEW c \in Calls, CancelKill(k, c) PROVE TypeOK'
  BY <1>18 DEF CancelKill, Kill
<1>19. ASSUME NEW k \in Cancellers, NEW c \in Calls, CancelAbort(k, c) PROVE TypeOK'
  BY <1>19 DEF CancelAbort, Abort
<1>20. ASSUME Release PROVE TypeOK'
  BY <1>20 DEF Release
<1>21. CASE UNCHANGED vars
  BY <1>21 DEF vars
<1> QED
  BY <1>1, <1>2, <1>3, <1>4, <1>5, <1>6, <1>7, <1>8, <1>9, <1>10, <1>11, <1>12, <1>13, <1>14, <1>15, <1>16, <1>17, <1>18, <1>19, <1>20, <1>21 DEF Next, Proceed, CancelWorker

\* A second process is started only after the first.
LEMMA AttemptsKept == TypeOK /\ Attempts /\ [Next]_vars => Attempts'
<1> SUFFICES ASSUME TypeOK, Attempts, [Next]_vars PROVE Attempts'
  OBVIOUS
<1> USE DEF TypeOK, Attempts, procVars, clientVars, runnerVars, gatewayVars, cancelVars
<1>1. ASSUME NEW c \in Calls, Submit(c) PROVE Attempts'
  BY <1>1 DEF Submit, Goto
<1>2. ASSUME NEW c \in Calls, Enter(c) PROVE Attempts'
  BY <1>2 DEF Enter, Goto
<1>3. ASSUME NEW c \in Calls, Spawn(c) PROVE Attempts'
  BY <1>3 DEF Spawn, Goto
<1>4. ASSUME NEW c \in Calls, Register(c) PROVE Attempts'
  BY <1>4 DEF Register, Goto, CancelledBeforeRegister
<1>5. ASSUME NEW c \in Calls, Slay(c) PROVE Attempts'
  BY <1>5 DEF Slay, Goto, Kill
<1>6. ASSUME NEW c \in Calls, Communicate(c) PROVE Attempts'
  BY <1>6 DEF Communicate, Goto
<1>7. ASSUME NEW c \in Calls, Unregister(c) PROVE Attempts'
  BY <1>7 DEF Unregister, Goto, MayTryAgain
<1>8. ASSUME NEW c \in Calls, Except(c) PROVE Attempts'
  BY <1>8 DEF Except, Goto, CancellationAlreadyRequested
<1>9. ASSUME NEW c \in Calls, OwnMark(c) PROVE Attempts'
  BY <1>9 DEF OwnMark, Goto
<1>10. ASSUME NEW c \in Calls, OwnAbort(c) PROVE Attempts'
  BY <1>10 DEF OwnAbort, Goto, Abort
<1>11. ASSUME NEW c \in Calls, Finally(c) PROVE Attempts'
  BY <1>11 DEF Finally, Goto
<1>12. ASSUME NEW c \in Calls, Leave(c) PROVE Attempts'
  BY <1>12 DEF Leave, Goto
<1>13. ASSUME NEW c \in Calls, TimeOut(c) PROVE Attempts'
  BY <1>13 DEF TimeOut, Goto, KillOverdue, Kill
<1>14. ASSUME NEW c \in Calls, Arrive(c) PROVE Attempts'
  BY <1>14 DEF Arrive
<1>15. ASSUME NEW c \in Calls, ProcessExit(c) PROVE Attempts'
  BY <1>15 DEF ProcessExit
<1>16. ASSUME NEW k \in Cancellers, CancelRun(k) PROVE Attempts'
  BY <1>16 DEF CancelRun
<1>17. ASSUME NEW k \in Cancellers, NEW c \in Calls, CancelMark(k, c) PROVE Attempts'
  BY <1>17 DEF CancelMark
<1>18. ASSUME NEW k \in Cancellers, NEW c \in Calls, CancelKill(k, c) PROVE Attempts'
  BY <1>18 DEF CancelKill, Kill
<1>19. ASSUME NEW k \in Cancellers, NEW c \in Calls, CancelAbort(k, c) PROVE Attempts'
  BY <1>19 DEF CancelAbort, Abort
<1>20. ASSUME Release PROVE Attempts'
  BY <1>20 DEF Release
<1>21. CASE UNCHANGED vars
  BY <1>21 DEF vars
<1> QED
  BY <1>1, <1>2, <1>3, <1>4, <1>5, <1>6, <1>7, <1>8, <1>9, <1>10, <1>11, <1>12, <1>13, <1>14, <1>15, <1>16, <1>17, <1>18, <1>19, <1>20, <1>21 DEF Next, Proceed, CancelWorker

\* Every way out of the wait for a process has seen its end.
LEMMA NoProcessLeftKept == TypeOK /\ NoProcessLeft /\ [Next]_vars => NoProcessLeft'
<1> SUFFICES ASSUME TypeOK, NoProcessLeft, [Next]_vars PROVE NoProcessLeft'
  OBVIOUS
<1> USE DEF TypeOK, NoProcessLeft, procVars, clientVars, runnerVars, gatewayVars, cancelVars
<1>1. ASSUME NEW c \in Calls, Submit(c) PROVE NoProcessLeft'
  BY <1>1 DEF Submit, Goto
<1>2. ASSUME NEW c \in Calls, Enter(c) PROVE NoProcessLeft'
  BY <1>2 DEF Enter, Goto
<1>3. ASSUME NEW c \in Calls, Spawn(c) PROVE NoProcessLeft'
  BY <1>3 DEF Spawn, Goto
<1>4. ASSUME NEW c \in Calls, Register(c) PROVE NoProcessLeft'
  BY <1>4 DEF Register, Goto, CancelledBeforeRegister
<1>5. ASSUME NEW c \in Calls, Slay(c) PROVE NoProcessLeft'
  BY <1>5 DEF Slay, Goto, Kill
<1>6. ASSUME NEW c \in Calls, Communicate(c) PROVE NoProcessLeft'
  BY <1>6 DEF Communicate, Goto
<1>7. ASSUME NEW c \in Calls, Unregister(c) PROVE NoProcessLeft'
  BY <1>7 DEF Unregister, Goto, MayTryAgain
<1>8. ASSUME NEW c \in Calls, Except(c) PROVE NoProcessLeft'
  BY <1>8 DEF Except, Goto, CancellationAlreadyRequested
<1>9. ASSUME NEW c \in Calls, OwnMark(c) PROVE NoProcessLeft'
  BY <1>9 DEF OwnMark, Goto
<1>10. ASSUME NEW c \in Calls, OwnAbort(c) PROVE NoProcessLeft'
  BY <1>10 DEF OwnAbort, Goto, Abort
<1>11. ASSUME NEW c \in Calls, Finally(c) PROVE NoProcessLeft'
  BY <1>11 DEF Finally, Goto
<1>12. ASSUME NEW c \in Calls, Leave(c) PROVE NoProcessLeft'
  BY <1>12 DEF Leave, Goto
<1>13. ASSUME NEW c \in Calls, TimeOut(c) PROVE NoProcessLeft'
  BY <1>13 DEF TimeOut, Goto, KillOverdue, Kill
<1>14. ASSUME NEW c \in Calls, Arrive(c) PROVE NoProcessLeft'
  BY <1>14 DEF Arrive
<1>15. ASSUME NEW c \in Calls, ProcessExit(c) PROVE NoProcessLeft'
  BY <1>15 DEF ProcessExit
<1>16. ASSUME NEW k \in Cancellers, CancelRun(k) PROVE NoProcessLeft'
  BY <1>16 DEF CancelRun
<1>17. ASSUME NEW k \in Cancellers, NEW c \in Calls, CancelMark(k, c) PROVE NoProcessLeft'
  BY <1>17 DEF CancelMark
<1>18. ASSUME NEW k \in Cancellers, NEW c \in Calls, CancelKill(k, c) PROVE NoProcessLeft'
  BY <1>18 DEF CancelKill, Kill
<1>19. ASSUME NEW k \in Cancellers, NEW c \in Calls, CancelAbort(k, c) PROVE NoProcessLeft'
  BY <1>19 DEF CancelAbort, Abort
<1>20. ASSUME Release PROVE NoProcessLeft'
  BY <1>20 DEF Release
<1>21. CASE UNCHANGED vars
  BY <1>21 DEF vars
<1> QED
  BY <1>1, <1>2, <1>3, <1>4, <1>5, <1>6, <1>7, <1>8, <1>9, <1>10, <1>11, <1>12, <1>13, <1>14, <1>15, <1>16, <1>17, <1>18, <1>19, <1>20, <1>21 DEF Next, Proceed, CancelWorker

LEMMA Inductive == Spec => []IInv
<1>1. IInv /\ [Next]_vars => IInv'
  <2> SUFFICES ASSUME IInv, [Next]_vars PROVE IInv'
    OBVIOUS
  <2>1. TypeOK'
    BY TypesKept DEF IInv
  <2>2. Attempts'
    BY AttemptsKept DEF IInv
  <2>3. NoProcessLeft'
    BY NoProcessLeftKept DEF IInv
  <2> QED
    BY <2>1, <2>2, <2>3 DEF IInv
<1> QED
  BY InitHolds, <1>1, PTL DEF Spec

\* Every state of the calls has the types of the module; a call starts no third process.
THEOREM TypeCorrect == Spec => []TypeOK
<1>1. IInv => TypeOK
  BY DEF IInv
<1> QED
  BY Inductive, <1>1, PTL

\* A living process belongs to a thread that registers it, waits for it or kills it.
THEOREM NoProcessLeftCorrect == Spec => []NoProcessLeft
<1>1. IInv => NoProcessLeft
  BY DEF IInv
<1> QED
  BY Inductive, <1>1, PTL

=============================================================================
