------------------------ MODULE SyncManager_proofs -------------------------
(***************************************************************************)
(* Proofs about SyncManager for every set of phases and every number of    *)
(* triggers.  The lock of a phase is proved exclusive from where its task  *)
(* is, whatever has become of the handle; the record of the run from who   *)
(* is inside a report and who has made the first one.                      *)
(***************************************************************************)
EXTENDS SyncManager, TLAPS

\* The task is between its start and the end of its work; it has made its
\* first report; it is inside a report; it will still make its last one.
Active == {"start", "start_sent", "work", "progress", "progress_sent"}
Entered == {"start_sent", "work", "progress", "progress_sent"}
Reporting == {"start_sent", "progress_sent", "save", "report_sent"}
Unreported == Active \cup {"clear", "report"}

\* A trigger that was given the lock, and then its task, owns the document.
LockInv ==
  \A p \in Phases :
    /\ task[p] # "none" \/ trigger[p] = "inserted" => lockdoc[p] = count[p] /\ count[p] # 0
    /\ trigger[p] = "inserted" => task[p] = "none"
    /\ trigger[p] = "asking" => count[p] < MaxTriggers
    /\ p \in elsewhere => lockdoc[p] = Other

\* The status and the broadcast lock follow the task.
StageInv ==
  \A p \in Phases :
    /\ status[p] = "running" <=> task[p] \in Active
    /\ mutex = p <=> task[p] \in Reporting

\* The record runs for who has reported, is final only while it is saved,
\* and always has a task that will finalise it.
RunInv ==
  /\ \A p \in Phases : task[p] \in Entered => run = "running"
  /\ (\A p \in Phases : task[p] # "save") <=> run \in {NoRun, "running"}
  /\ run = "running" => \E p \in Phases : task[p] \in Unreported

\* Without errors in clear_checkpoint() the statuses are those of this run.
OutcomeInv ==
  "clear_error" \notin faults =>
    \A p \in Phases :
      /\ status[p] \in Ends => run # NoRun /\ outcome[p] = status[p]
      /\ status[p] = "idle" => outcome[p] = "none"

IInv == TypeOK /\ LockInv /\ StageInv /\ RunInv /\ OutcomeInv

LEMMA InitInv == Init => IInv
  BY ManagerAssumption
  DEF Init, IInv, TypeOK, LockInv, StageInv, RunInv, OutcomeInv, Active, Entered, Reporting,
      Unreported, Ends, Tasks, NoRun, Nobody, Free, NoHandle, Other, FaultKinds

-----------------------------------------------------------------------------
(* Types *)

LEMMA TypeStep == TypeOK /\ LockInv /\ [Next]_vars => TypeOK'
<1> SUFFICES ASSUME TypeOK, LockInv, [Next]_vars PROVE TypeOK'
  OBVIOUS
<1> USE ManagerAssumption DEF TypeOK, Ends, Tasks, NoRun, Nobody, Free, NoHandle, Other, Goto
<1>1. ASSUME NEW p \in Phases, Trigger(p) PROVE TypeOK'
  BY <1>1 DEF Trigger
<1>2. ASSUME NEW p \in Phases, InsertLock(p) PROVE TypeOK'
  <2>1. count[p] + 1 \in 0 .. MaxTriggers /\ count[p] + 1 \in 0 .. MaxTriggers + 1
    BY <1>2 DEF InsertLock, LockInv
  <2> QED
    BY <1>2, <2>1 DEF InsertLock
<1>3. ASSUME NEW p \in Phases, Refused(p) PROVE TypeOK'
  BY <1>3 DEF Refused
<1>4. ASSUME NEW p \in Phases, StartTask(p) PROVE TypeOK'
  BY <1>4 DEF StartTask
<1>5. ASSUME NEW p \in Phases, Progress(p) PROVE TypeOK'
  BY <1>5 DEF Progress
<1>6. ASSUME NEW p \in Phases, End(p) PROVE TypeOK'
  BY <1>6 DEF End, Ended
<1>7. ASSUME NEW p \in Phases, Clear(p) PROVE TypeOK'
  BY <1>7 DEF Clear
<1>8. ASSUME NEW p \in Phases, ClearFails(p) PROVE TypeOK'
  BY <1>8 DEF ClearFails, Ended
<1>9. ASSUME NEW p \in Phases, Release(p) PROVE TypeOK'
  BY <1>9 DEF Release
<1>10. ASSUME NEW p \in Phases, Return(p) PROVE TypeOK'
  <2>1. leaving[p] - 1 \in Nat /\ NoHandle \in 0 .. MaxTriggers
    BY <1>10 DEF Return
  <2>2. leaving' \in [Phases -> Nat] /\ handle' \in [Phases -> 0 .. MaxTriggers]
    BY <1>10, <2>1 DEF Return
  <2>3. UNCHANGED <<status, trigger, lockdoc, elsewhere, count, task, mutex, run, history,
                    outcome, faults>>
    BY <1>10 DEF Return
  <2> QED
    BY <2>2, <2>3
<1>11. ASSUME NEW p \in Phases, Report(p) PROVE TypeOK'
  BY <1>11 DEF Report, Created
<1>12. ASSUME NEW p \in Phases, ReportEnd(p) PROVE TypeOK'
  <2>1. /\ task' \in [Phases -> Tasks] /\ mutex' \in Phases
        /\ run' \in {NoRun, "running", "completed", "failed"}
    BY <1>12 DEF ReportEnd, Created
  <2>2. history' \in Seq({"completed", "failed"})
    <3>1. CASE history' = history
      BY <3>1
    <3>2. CASE history' # history
      <4>1. history' = Append(history, run') /\ run' \in {"completed", "failed"}
        BY <1>12, <3>2 DEF ReportEnd
      <4>2. history \in Seq({"completed", "failed"})
        OBVIOUS
      <4> HIDE DEF TypeOK
      <4> QED
        BY <4>1, <4>2
    <3> QED
      BY <3>1, <3>2
  <2> QED
    BY <1>12, <2>1, <2>2 DEF ReportEnd
<1>13. ASSUME NEW p \in Phases, Saved(p) PROVE TypeOK'
  BY <1>13 DEF Saved
<1>14. ASSUME NEW p \in Phases, Sent(p) PROVE TypeOK'
  BY <1>14 DEF Sent
<1>15. ASSUME NEW p \in Phases, OtherTakes(p) PROVE TypeOK'
  BY <1>15 DEF OtherTakes
<1>16. ASSUME NEW p \in Phases, OtherReleases(p) PROVE TypeOK'
  BY <1>16 DEF OtherReleases
<1>17. CASE UNCHANGED vars
  BY <1>17 DEF vars
<1> QED
  BY <1>1, <1>2, <1>3, <1>4, <1>5, <1>6, <1>7, <1>8, <1>9, <1>10, <1>11, <1>12, <1>13,
     <1>14, <1>15, <1>16, <1>17
  DEF Next, Ask, Enter, Proceed

-----------------------------------------------------------------------------
(* The lock *)

LEMMA LockStep == TypeOK /\ LockInv /\ [Next]_vars => LockInv'
<1> SUFFICES ASSUME TypeOK, LockInv, [Next]_vars PROVE LockInv'
  OBVIOUS
<1> USE ManagerAssumption DEF TypeOK, Ends, Tasks, NoRun, Nobody, Free, NoHandle, Other,
        LockInv
<1>1. ASSUME NEW p \in Phases, Trigger(p) PROVE LockInv'
  BY <1>1 DEF Trigger
<1>2. ASSUME NEW p \in Phases, InsertLock(p) PROVE LockInv'
  BY <1>2 DEF InsertLock
<1>3. ASSUME NEW p \in Phases, Refused(p) PROVE LockInv'
  BY <1>3 DEF Refused
<1>4. ASSUME NEW p \in Phases, StartTask(p) PROVE LockInv'
  BY <1>4 DEF StartTask
<1>5. ASSUME NEW p \in Phases, Progress(p) PROVE LockInv'
  BY <1>5 DEF Progress, Goto
<1>6. ASSUME NEW p \in Phases, End(p) PROVE LockInv'
  BY <1>6 DEF End, Ended, Goto
<1>7. ASSUME NEW p \in Phases, Clear(p) PROVE LockInv'
  BY <1>7 DEF Clear, Goto
<1>8. ASSUME NEW p \in Phases, ClearFails(p) PROVE LockInv'
  BY <1>8 DEF ClearFails, Ended, Goto
<1>9. ASSUME NEW p \in Phases, Release(p) PROVE LockInv'
  BY <1>9 DEF Release, Goto
<1>10. ASSUME NEW p \in Phases, Return(p) PROVE LockInv'
  BY <1>10 DEF Return
<1>11. ASSUME NEW p \in Phases, Report(p) PROVE LockInv'
  BY <1>11 DEF Report, Created, AnyRunning, Goto
<1>12. ASSUME NEW p \in Phases, ReportEnd(p) PROVE LockInv'
  BY <1>12 DEF ReportEnd, Created, AnyRunning, Goto
<1>13. ASSUME NEW p \in Phases, Saved(p) PROVE LockInv'
  BY <1>13 DEF Saved, Goto
<1>14. ASSUME NEW p \in Phases, Sent(p) PROVE LockInv'
  BY <1>14 DEF Sent, Goto
<1>15. ASSUME NEW p \in Phases, OtherTakes(p) PROVE LockInv'
  BY <1>15 DEF OtherTakes
<1>16. ASSUME NEW p \in Phases, OtherReleases(p) PROVE LockInv'
  BY <1>16 DEF OtherReleases
<1>17. CASE UNCHANGED vars
  BY <1>17 DEF vars
<1> QED
  BY <1>1, <1>2, <1>3, <1>4, <1>5, <1>6, <1>7, <1>8, <1>9, <1>10, <1>11, <1>12, <1>13,
     <1>14, <1>15, <1>16, <1>17
  DEF Next, Ask, Enter, Proceed

-----------------------------------------------------------------------------
(* Statuses and the broadcast lock *)

LEMMA StageStep == TypeOK /\ LockInv /\ StageInv /\ [Next]_vars => StageInv'
<1> SUFFICES ASSUME TypeOK, LockInv, StageInv, [Next]_vars PROVE StageInv'
  OBVIOUS
<1> USE ManagerAssumption DEF TypeOK, Ends, Tasks, NoRun, Nobody, Free, NoHandle, Other,
        LockInv, StageInv, Active, Reporting
<1>1. ASSUME NEW p \in Phases, Trigger(p) PROVE StageInv'
  BY <1>1 DEF Trigger
<1>2. ASSUME NEW p \in Phases, InsertLock(p) PROVE StageInv'
  BY <1>2 DEF InsertLock
<1>3. ASSUME NEW p \in Phases, Refused(p) PROVE StageInv'
  BY <1>3 DEF Refused
<1>4. ASSUME NEW p \in Phases, StartTask(p) PROVE StageInv'
  BY <1>4 DEF StartTask
<1>5. ASSUME NEW p \in Phases, Progress(p) PROVE StageInv'
  BY <1>5 DEF Progress, Goto
<1>6. ASSUME NEW p \in Phases, End(p) PROVE StageInv'
  BY <1>6 DEF End, Ended, Goto
<1>7. ASSUME NEW p \in Phases, Clear(p) PROVE StageInv'
  BY <1>7 DEF Clear, Goto
<1>8. ASSUME NEW p \in Phases, ClearFails(p) PROVE StageInv'
  BY <1>8 DEF ClearFails, Ended, Goto
<1>9. ASSUME NEW p \in Phases, Release(p) PROVE StageInv'
  BY <1>9 DEF Release, Goto
<1>10. ASSUME NEW p \in Phases, Return(p) PROVE StageInv'
  BY <1>10 DEF Return
<1>11. ASSUME NEW p \in Phases, Report(p) PROVE StageInv'
  BY <1>11 DEF Report, Created, AnyRunning, Goto
<1>12. ASSUME NEW p \in Phases, ReportEnd(p) PROVE StageInv'
  BY <1>12 DEF ReportEnd, Created, AnyRunning, Goto
<1>13. ASSUME NEW p \in Phases, Saved(p) PROVE StageInv'
  BY <1>13 DEF Saved, Goto
<1>14. ASSUME NEW p \in Phases, Sent(p) PROVE StageInv'
  BY <1>14 DEF Sent, Goto
<1>15. ASSUME NEW p \in Phases, OtherTakes(p) PROVE StageInv'
  BY <1>15 DEF OtherTakes
<1>16. ASSUME NEW p \in Phases, OtherReleases(p) PROVE StageInv'
  BY <1>16 DEF OtherReleases
<1>17. CASE UNCHANGED vars
  BY <1>17 DEF vars
<1> QED
  BY <1>1, <1>2, <1>3, <1>4, <1>5, <1>6, <1>7, <1>8, <1>9, <1>10, <1>11, <1>12, <1>13,
     <1>14, <1>15, <1>16, <1>17
  DEF Next, Ask, Enter, Proceed

-----------------------------------------------------------------------------
(* The record of the run *)

LEMMA RunStep == TypeOK /\ LockInv /\ StageInv /\ RunInv /\ [Next]_vars => RunInv'
<1> SUFFICES ASSUME TypeOK, LockInv, StageInv, RunInv, [Next]_vars PROVE RunInv'
  OBVIOUS
<1> USE ManagerAssumption DEF TypeOK, Ends, Tasks, NoRun, Nobody, Free, NoHandle, Other,
        LockInv, StageInv, RunInv, Active, Entered, Reporting, Unreported
<1>1. ASSUME NEW p \in Phases, Trigger(p) PROVE RunInv'
  BY <1>1 DEF Trigger
<1>2. ASSUME NEW p \in Phases, InsertLock(p) PROVE RunInv'
  BY <1>2 DEF InsertLock
<1>3. ASSUME NEW p \in Phases, Refused(p) PROVE RunInv'
  BY <1>3 DEF Refused
<1>4. ASSUME NEW p \in Phases, StartTask(p) PROVE RunInv'
  BY <1>4 DEF StartTask
<1>5. ASSUME NEW p \in Phases, Progress(p) PROVE RunInv'
  BY <1>5 DEF Progress, Goto
<1>6. ASSUME NEW p \in Phases, End(p) PROVE RunInv'
  BY <1>6 DEF End, Ended, Goto
<1>7. ASSUME NEW p \in Phases, Clear(p) PROVE RunInv'
  BY <1>7 DEF Clear, Goto
<1>8. ASSUME NEW p \in Phases, ClearFails(p) PROVE RunInv'
  BY <1>8 DEF ClearFails, Ended, Goto
<1>9. ASSUME NEW p \in Phases, Release(p) PROVE RunInv'
  BY <1>9 DEF Release, Goto
<1>10. ASSUME NEW p \in Phases, Return(p) PROVE RunInv'
  BY <1>10 DEF Return
<1>11. ASSUME NEW p \in Phases, Report(p) PROVE RunInv'
  BY <1>11 DEF Report, Created, AnyRunning, Goto
<1>12. ASSUME NEW p \in Phases, ReportEnd(p) PROVE RunInv'
  <2>1. task[p] = "report" /\ \A q \in Phases : task[q] \notin Reporting
    BY <1>12 DEF ReportEnd
  <2>2. run \in {NoRun, "running"}
    BY <2>1
  <2>3. CASE Created # NoRun /\ ~AnyRunning
    <3>1. run' \in {"completed", "failed"} /\ task' = [task EXCEPT ![p] = "save"]
      BY <1>12, <2>3 DEF ReportEnd, Goto
    <3>2. \A q \in Phases : task[q] \notin Active
      BY <2>3 DEF AnyRunning
    <3> QED
      BY <2>1, <3>1, <3>2
  <2>4. CASE ~(Created # NoRun /\ ~AnyRunning)
    <3>1. run' = Created /\ task' = [task EXCEPT ![p] = "report_sent"]
      BY <1>12, <2>4 DEF ReportEnd, Goto
    <3>2. CASE AnyRunning
      <4>1. PICK q \in Phases : task[q] \in Active
        BY <3>2 DEF AnyRunning
      <4>2. run' = "running"
        BY <2>2, <3>1, <3>2 DEF Created
      <4> QED
        BY <2>1, <3>1, <4>1, <4>2
    <3>3. CASE ~AnyRunning
      <4>1. run = NoRun /\ run' = NoRun
        BY <2>2, <2>4, <3>1, <3>3 DEF Created
      <4> QED
        BY <2>1, <3>1, <4>1
    <3> QED
      BY <3>2, <3>3
  <2> QED
    BY <2>3, <2>4
<1>13. ASSUME NEW p \in Phases, Saved(p) PROVE RunInv'
  BY <1>13 DEF Saved, Goto
<1>14. ASSUME NEW p \in Phases, Sent(p) PROVE RunInv'
  BY <1>14 DEF Sent, Goto
<1>15. ASSUME NEW p \in Phases, OtherTakes(p) PROVE RunInv'
  BY <1>15 DEF OtherTakes
<1>16. ASSUME NEW p \in Phases, OtherReleases(p) PROVE RunInv'
  BY <1>16 DEF OtherReleases
<1>17. CASE UNCHANGED vars
  BY <1>17 DEF vars
<1> QED
  BY <1>1, <1>2, <1>3, <1>4, <1>5, <1>6, <1>7, <1>8, <1>9, <1>10, <1>11, <1>12, <1>13,
     <1>14, <1>15, <1>16, <1>17
  DEF Next, Ask, Enter, Proceed

-----------------------------------------------------------------------------
(* The statuses of the run *)

LEMMA OutcomeStep == TypeOK /\ StageInv /\ RunInv /\ OutcomeInv /\ [Next]_vars => OutcomeInv'
<1> SUFFICES ASSUME TypeOK, StageInv, RunInv, OutcomeInv, [Next]_vars PROVE OutcomeInv'
  OBVIOUS
<1> USE ManagerAssumption DEF TypeOK, Ends, Tasks, NoRun, Nobody, Free, NoHandle, Other,
        StageInv, RunInv, OutcomeInv, Active, Entered, Reporting
<1>1. ASSUME NEW p \in Phases, Trigger(p) PROVE OutcomeInv'
  BY <1>1 DEF Trigger
<1>2. ASSUME NEW p \in Phases, InsertLock(p) PROVE OutcomeInv'
  BY <1>2 DEF InsertLock
<1>3. ASSUME NEW p \in Phases, Refused(p) PROVE OutcomeInv'
  BY <1>3 DEF Refused
<1>4. ASSUME NEW p \in Phases, StartTask(p) PROVE OutcomeInv'
  BY <1>4 DEF StartTask
<1>5. ASSUME NEW p \in Phases, Progress(p) PROVE OutcomeInv'
  BY <1>5 DEF Progress, Goto
<1>6. ASSUME NEW p \in Phases, End(p) PROVE OutcomeInv'
  BY <1>6 DEF End, Ended, Goto
<1>7. ASSUME NEW p \in Phases, Clear(p) PROVE OutcomeInv'
  BY <1>7 DEF Clear, Goto
<1>8. ASSUME NEW p \in Phases, ClearFails(p) PROVE OutcomeInv'
  BY <1>8 DEF ClearFails, Ended, Goto
<1>9. ASSUME NEW p \in Phases, Release(p) PROVE OutcomeInv'
  BY <1>9 DEF Release, Goto
<1>10. ASSUME NEW p \in Phases, Return(p) PROVE OutcomeInv'
  BY <1>10 DEF Return
<1>11. ASSUME NEW p \in Phases, Report(p) PROVE OutcomeInv'
  BY <1>11 DEF Report, Created, AnyRunning, Goto
<1>12. ASSUME NEW p \in Phases, ReportEnd(p) PROVE OutcomeInv'
  BY <1>12 DEF ReportEnd, Created, AnyRunning, Goto
<1>13. ASSUME NEW p \in Phases, Saved(p) PROVE OutcomeInv'
  BY <1>13 DEF Saved, Goto
<1>14. ASSUME NEW p \in Phases, Sent(p) PROVE OutcomeInv'
  BY <1>14 DEF Sent, Goto
<1>15. ASSUME NEW p \in Phases, OtherTakes(p) PROVE OutcomeInv'
  BY <1>15 DEF OtherTakes
<1>16. ASSUME NEW p \in Phases, OtherReleases(p) PROVE OutcomeInv'
  BY <1>16 DEF OtherReleases
<1>17. CASE UNCHANGED vars
  BY <1>17 DEF vars
<1> QED
  BY <1>1, <1>2, <1>3, <1>4, <1>5, <1>6, <1>7, <1>8, <1>9, <1>10, <1>11, <1>12, <1>13,
     <1>14, <1>15, <1>16, <1>17
  DEF Next, Ask, Enter, Proceed

-----------------------------------------------------------------------------
LEMMA InvariantStep == IInv /\ [Next]_vars => IInv'
  BY TypeStep, LockStep, StageStep, RunStep, OutcomeStep DEF IInv

LEMMA Invariant == Spec => []IInv
  BY InitInv, InvariantStep, PTL DEF Spec

\* The variables keep their types: no trigger is counted past the bound, and
\* the record of a run has one of its four states.
THEOREM TypeCorrect == Spec => []TypeOK
<1>1. IInv => TypeOK
  BY DEF IInv
<1> QED
  BY <1>1, Invariant, PTL

\* A phase works only while its own trigger's document is in the collection,
\* so no other worker works on it and no second task of this one does, even
\* when the handle of the lock was taken from the task (phase_runner.py,
\* _acquire_dist_lock and _release_dist_lock).
THEOREM WorkIsExclusiveHolds == Spec => []WorkIsExclusive
<1>1. IInv => WorkIsExclusive
  <2> SUFFICES ASSUME IInv, NEW p \in Phases, Working(p)
               PROVE  lockdoc[p] = count[p] /\ p \notin elsewhere
    BY DEF WorkIsExclusive
  <2>1. lockdoc[p] = count[p]
    BY DEF IInv, LockInv, Working
  <2>2. count[p] \in 0 .. MaxTriggers /\ MaxTriggers \in Nat
    BY ManagerAssumption DEF IInv, TypeOK
  <2> QED
    BY <2>1, <2>2 DEF IInv, LockInv, Other
<1> QED
  BY <1>1, Invariant, PTL

\* The record of the run is there, and runs, while any phase works, whatever
\* the order in which phases start, end and save (manager.py,
\* _phase_broadcast_inner).
THEOREM WorkIsRecordedHolds == Spec => []WorkIsRecorded
<1>1. IInv => WorkIsRecorded
  BY DEF IInv, StageInv, RunInv, WorkIsRecorded, Working, Active, Entered
<1> QED
  BY <1>1, Invariant, PTL

\* Between runs nothing of a run is left (manager.py, the reset).
THEOREM NothingIsLeftHolds == Spec => []NothingIsLeft
<1>1. IInv => NothingIsLeft
  <2> SUFFICES ASSUME IInv, "clear_error" \notin faults, Quiet
               PROVE  run = NoRun /\ \A p \in Phases : status[p] = "idle"
    BY DEF NothingIsLeft
  <2>1. \A p \in Phases : task[p] = "none"
    BY DEF Quiet
  <2>2. run = NoRun
    BY <2>1 DEF IInv, RunInv, Unreported, Active
  <2>3. ASSUME NEW p \in Phases PROVE status[p] = "idle"
    BY <2>1, <2>2 DEF IInv, TypeOK, StageInv, OutcomeInv, Active
  <2> QED
    BY <2>2, <2>3
<1> QED
  BY <1>1, Invariant, PTL

\* A run is recorded as failed just when one of its phases has failed
\* (manager.py, any_failed), unless clear_checkpoint() raises.
THEOREM StatusIsRightHolds == Spec => StatusIsRight
<1>1. IInv /\ [Next]_vars => [("clear_error" \notin faults) => RightStatus]_vars
  <2> SUFFICES ASSUME IInv, Next, "clear_error" \notin faults, history' # history
               PROVE  history'[Len(history')] = "failed"
                        <=> \E p \in Phases : outcome[p] = "failed"
    BY DEF RightStatus, vars
  <2>1. PICK p \in Phases : ReportEnd(p)
    BY DEF Next, Ask, Enter, Proceed, Trigger, InsertLock, Refused, StartTask, Progress, End,
           Clear, ClearFails, Release, Return, Report, Saved, Sent, OtherTakes, OtherReleases
  <2>2. /\ ~AnyRunning
        /\ run' = IF AnyFailed THEN "failed" ELSE "completed"
        /\ history' = Append(history, run')
    BY <2>1 DEF ReportEnd
  <2>3. history'[Len(history')] = run'
    <3>1. history \in Seq({"completed", "failed"})
      BY DEF IInv, TypeOK
    <3> QED
      BY <2>2, <3>1
  <2>4. \A q \in Phases : status[q] = "failed" <=> outcome[q] = "failed"
    BY <2>2 DEF AnyRunning, IInv, TypeOK, OutcomeInv, Ends
  <2> QED
    BY <2>2, <2>3, <2>4 DEF AnyFailed
<1> QED
  BY <1>1, Invariant, PTL DEF Spec, StatusIsRight
=============================================================================
