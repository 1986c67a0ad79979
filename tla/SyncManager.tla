---------------------------- MODULE SyncManager -----------------------------
(***************************************************************************)
(* domains/sync/manager.py and phase_runner.py in one worker process: the  *)
(* phases are triggered one by one, each takes its distributed lock, runs  *)
(* as a task of its own and reports to the manager, which keeps one record *)
(* of the run for all of them and finalises it with the last report.       *)
(*                                                                         *)
(* The tasks share one event loop: an action is what runs between two      *)
(* awaits.  What a phase does to the data is AgentSync's; here it ends     *)
(* completed, failed or cancelled.  The lock's document is free, held by a *)
(* trigger of this process, or held by another worker; leases do not       *)
(* expire here (DistributedLock).  Two concurrent triggers of a phase wait *)
(* for its asyncio lock, so one is modelled at a time.                     *)
(***************************************************************************)
EXTENDS Naturals, Sequences

CONSTANTS
  Phases,       \* SyncManager.ALL_PHASES
  MaxTriggers,  \* bound: runs of each phase
  Environments  \* the sets of faults to consider

NoRun == "none"
Nobody == "nobody"   \* nobody has the manager's _broadcast_lock
Free == 0            \* no document in distributed_locks
NoHandle == 0        \* _dist_lock is None
Other == MaxTriggers + 1 \* the document is another worker's

FaultKinds == {"other_worker", \* another worker runs the phases too
               "clear_error"}  \* clear_checkpoint() raises

ASSUME ManagerAssumption ==
  /\ Nobody \notin Phases
  /\ MaxTriggers \in Nat
  /\ Environments \subseteq SUBSET FaultKinds

VARIABLES
  status,   \* each runner's _status
  trigger,  \* where its trigger() is
  lockdoc,  \* the trigger that owns the phase's lock document
  elsewhere,\* the phases another worker runs
  handle,   \* the trigger whose lock _dist_lock is
  count,    \* triggers that got the lock so far
  task,     \* where the phase's task is
  leaving,  \* tasks that have released the lock and not yet returned
  mutex,    \* the phase whose report has _broadcast_lock
  run,      \* _current_run.status
  history,  \* the statuses of _history
  outcome,  \* history: how each phase ended in the current run
  faults    \* what may go wrong in this behaviour

vars == <<status, trigger, lockdoc, elsewhere, handle, count, task, leaving, mutex, run,
          history, outcome, faults>>

Ends == {"completed", "failed", "cancelled"}

\* A task: its first report, the work, a report from the work, the
\* checkpoint cleared, the last report, the run being saved, the lock
\* released.  "..._sent" is a report that has been taken and is being sent.
Tasks == {"none", "start", "start_sent", "work", "progress", "progress_sent", "clear",
          "report", "save", "report_sent", "release"}

TypeOK ==
  /\ status \in [Phases -> Ends \cup {"idle", "running"}]
  /\ trigger \in [Phases -> {"none", "asking", "inserted"}]
  /\ lockdoc \in [Phases -> 0 .. Other]
  /\ elsewhere \subseteq Phases
  /\ handle \in [Phases -> 0 .. MaxTriggers]
  /\ count \in [Phases -> 0 .. MaxTriggers]
  /\ task \in [Phases -> Tasks]
  /\ leaving \in [Phases -> Nat]
  /\ mutex \in Phases \cup {Nobody}
  /\ run \in {NoRun, "running", "completed", "failed"}
  /\ history \in Seq({"completed", "failed"})
  /\ outcome \in [Phases -> Ends \cup {"none"}]
  /\ faults \subseteq FaultKinds

Init ==
  /\ status = [p \in Phases |-> "idle"]
  /\ trigger = [p \in Phases |-> "none"]
  /\ lockdoc = [p \in Phases |-> Free]
  /\ elsewhere = {}
  /\ handle = [p \in Phases |-> NoHandle]
  /\ count = [p \in Phases |-> 0]
  /\ task = [p \in Phases |-> "none"]
  /\ leaving = [p \in Phases |-> 0]
  /\ mutex = Nobody
  /\ run = NoRun
  /\ history = <<>>
  /\ outcome = [p \in Phases |-> "none"]
  /\ faults \in Environments

AnyRunning == \E p \in Phases : status[p] = "running"

-----------------------------------------------------------------------------
(* trigger() and resume() *)

Trigger(p) ==
  /\ trigger[p] = "none" /\ status[p] # "running" /\ count[p] < MaxTriggers
  /\ trigger' = [trigger EXCEPT ![p] = "asking"]
  /\ UNCHANGED <<status, lockdoc, elsewhere, handle, count, task, leaving, mutex,
                 run, history, outcome, faults>>

\* Mutant: the lock is taken whoever has it.
InsertAnyway(p) ==
  /\ trigger[p] = "asking"
  /\ count' = [count EXCEPT ![p] = @ + 1]
  /\ lockdoc' = [lockdoc EXCEPT ![p] = count'[p]]
  /\ trigger' = [trigger EXCEPT ![p] = "inserted"]
  /\ UNCHANGED <<status, elsewhere, handle, task, leaving, mutex, run, history,
                 outcome, faults>>

\* acquire() has inserted the document; its answer is on the way.
InsertLock(p) ==
  /\ trigger[p] = "asking" /\ lockdoc[p] = Free
  /\ count' = [count EXCEPT ![p] = @ + 1]
  /\ lockdoc' = [lockdoc EXCEPT ![p] = count'[p]]
  /\ trigger' = [trigger EXCEPT ![p] = "inserted"]
  /\ UNCHANGED <<status, elsewhere, handle, task, leaving, mutex, run, history,
                 outcome, faults>>

Refused(p) ==
  /\ trigger[p] = "asking" /\ lockdoc[p] # Free
  /\ trigger' = [trigger EXCEPT ![p] = "none"]
  /\ UNCHANGED <<status, lockdoc, elsewhere, handle, count, task, leaving, mutex,
                 run, history, outcome, faults>>

StartTask(p) ==
  /\ trigger[p] = "inserted"
  /\ handle' = [handle EXCEPT ![p] = count[p]]
  /\ status' = [status EXCEPT ![p] = "running"]
  /\ task' = [task EXCEPT ![p] = "start"]
  /\ trigger' = [trigger EXCEPT ![p] = "none"]
  /\ UNCHANGED <<lockdoc, elsewhere, count, leaving, mutex, run, history, outcome,
                 faults>>

-----------------------------------------------------------------------------
(* _safe_run() *)

Goto(p, step) == task' = [task EXCEPT ![p] = step]

\* The work reports its progress.
Progress(p) ==
  /\ task[p] = "work"
  /\ Goto(p, "progress")
  /\ UNCHANGED <<status, trigger, lockdoc, elsewhere, handle, count, leaving, mutex,
                 run, history, outcome, faults>>

Ended(p, end) ==
  /\ status' = [status EXCEPT ![p] = end]
  /\ outcome' = IF run = "running" THEN [outcome EXCEPT ![p] = end] ELSE outcome

\* _execute() returns, or raises.
End(p) ==
  /\ task[p] = "work"
  /\ \E end \in Ends :
       /\ Ended(p, end)
       /\ Goto(p, IF end = "completed" THEN "clear" ELSE "report")
  /\ UNCHANGED <<trigger, lockdoc, elsewhere, handle, count, leaving, mutex, run,
                 history, faults>>

Clear(p) ==
  /\ task[p] = "clear"
  /\ Goto(p, "report")
  /\ UNCHANGED <<status, trigger, lockdoc, elsewhere, handle, count, leaving, mutex,
                 run, history, outcome, faults>>

ClearFails(p) ==
  /\ "clear_error" \in faults /\ task[p] = "clear"
  /\ Ended(p, "failed")
  /\ Goto(p, "report")
  /\ UNCHANGED <<trigger, lockdoc, elsewhere, handle, count, leaving, mutex, run,
                 history, faults>>

\* _release_dist_lock() deletes the document its handle owns.
Release(p) ==
  /\ task[p] = "release"
  /\ lockdoc' = IF handle[p] # NoHandle /\ lockdoc[p] = handle[p]
                THEN [lockdoc EXCEPT ![p] = Free] ELSE lockdoc
  /\ leaving' = [leaving EXCEPT ![p] = @ + 1]
  /\ Goto(p, "none")
  /\ UNCHANGED <<status, trigger, elsewhere, handle, count, mutex, run, history,
                 outcome, faults>>

\* The answer has come: the finally clause forgets the handle there is now.
Return(p) ==
  /\ leaving[p] > 0
  /\ leaving' = [leaving EXCEPT ![p] = @ - 1]
  /\ handle' = [handle EXCEPT ![p] = NoHandle]
  /\ UNCHANGED <<status, trigger, lockdoc, elsewhere, count, task, mutex, run,
                 history, outcome, faults>>

-----------------------------------------------------------------------------
(* _phase_broadcast(), under _broadcast_lock *)

Created == IF run = NoRun /\ AnyRunning THEN "running" ELSE run

\* A first report or one from the work creates the record if there is none.
Report(p) ==
  /\ task[p] \in {"start", "progress"} /\ mutex = Nobody
  /\ mutex' = p
  /\ run' = Created
  /\ Goto(p, IF task[p] = "start" THEN "start_sent" ELSE "progress_sent")
  /\ UNCHANGED <<status, trigger, lockdoc, elsewhere, handle, count, leaving,
                 history, outcome, faults>>

\* Mutant: a cancelled phase counts as failed.
AnyNotCompleted == \E p \in Phases : status[p] \in {"failed", "cancelled"}

AnyFailed == \E p \in Phases : status[p] = "failed"

\* Mutant: the first phase that ends finalises the run.
ReportEndFirst(p) ==
  /\ task[p] = "report" /\ mutex = Nobody
  /\ mutex' = p
  /\ IF Created # NoRun
     THEN /\ run' = IF AnyFailed THEN "failed" ELSE "completed"
          /\ history' = Append(history, run')
          /\ Goto(p, "save")
     ELSE /\ run' = Created
          /\ Goto(p, "report_sent")
          /\ UNCHANGED history
  /\ UNCHANGED <<status, trigger, lockdoc, elsewhere, handle, count, leaving,
                 outcome, faults>>

\* The last report of a phase.
ReportEnd(p) ==
  /\ task[p] = "report" /\ mutex = Nobody
  /\ mutex' = p
  /\ IF Created # NoRun /\ ~AnyRunning
     THEN /\ run' = IF AnyFailed THEN "failed" ELSE "completed"
          /\ history' = Append(history, run')
          /\ Goto(p, "save")
     ELSE /\ run' = Created
          /\ Goto(p, "report_sent")
          /\ UNCHANGED history
  /\ UNCHANGED <<status, trigger, lockdoc, elsewhere, handle, count, leaving,
                 outcome, faults>>

\* Mutant: the phases keep their statuses.
SavedNoReset(p) ==
  /\ task[p] = "save"
  /\ run' = NoRun
  /\ status' = status
  /\ outcome' = [q \in Phases |-> "none"]
  /\ Goto(p, "report_sent")
  /\ UNCHANGED <<trigger, lockdoc, elsewhere, handle, count, leaving, mutex,
                 history, faults>>

\* Mutant: the record stays the current one.
SavedKeepsRun(p) ==
  /\ task[p] = "save"
  /\ run' = run
  /\ status' = [q \in Phases |-> IF status[q] \in Ends THEN "idle" ELSE status[q]]
  /\ outcome' = [q \in Phases |-> "none"]
  /\ Goto(p, "report_sent")
  /\ UNCHANGED <<trigger, lockdoc, elsewhere, handle, count, leaving, mutex,
                 history, faults>>

\* The run is saved: it is over, and its phases are idle again.
Saved(p) ==
  /\ task[p] = "save"
  /\ run' = NoRun
  /\ status' = [q \in Phases |-> IF status[q] \in Ends THEN "idle" ELSE status[q]]
  /\ outcome' = [q \in Phases |-> "none"]
  /\ Goto(p, "report_sent")
  /\ UNCHANGED <<trigger, lockdoc, elsewhere, handle, count, leaving, mutex,
                 history, faults>>

Sent(p) ==
  /\ task[p] \in {"start_sent", "progress_sent", "report_sent"}
  /\ mutex' = Nobody
  /\ Goto(p, IF task[p] = "report_sent" THEN "release" ELSE "work")
  /\ UNCHANGED <<status, trigger, lockdoc, elsewhere, handle, count, leaving, run,
                 history, outcome, faults>>

-----------------------------------------------------------------------------
(* The other worker *)

OtherTakes(p) ==
  /\ "other_worker" \in faults /\ lockdoc[p] = Free
  /\ lockdoc' = [lockdoc EXCEPT ![p] = Other]
  /\ elsewhere' = elsewhere \cup {p}
  /\ UNCHANGED <<status, trigger, handle, count, task, leaving, mutex,
                 run, history, outcome, faults>>

OtherReleases(p) ==
  /\ p \in elsewhere
  /\ lockdoc' = IF lockdoc[p] = Other THEN [lockdoc EXCEPT ![p] = Free] ELSE lockdoc
  /\ elsewhere' = elsewhere \ {p}
  /\ UNCHANGED <<status, trigger, handle, count, task, leaving, mutex,
                 run, history, outcome, faults>>

-----------------------------------------------------------------------------
Ask(p) == InsertLock(p) \/ Refused(p) \/ StartTask(p)
Proceed(p) == Clear(p) \/ ClearFails(p) \/ Saved(p) \/ Sent(p) \/ Release(p)
Enter(p) == Report(p) \/ ReportEnd(p)

Next == \E p \in Phases : \/ Trigger(p) \/ Ask(p) \/ Enter(p)
                          \/ Progress(p) \/ End(p) \/ Proceed(p) \/ Return(p)
                          \/ OtherTakes(p) \/ OtherReleases(p)

Spec == Init /\ [][Next]_vars

\* The event loop runs every task that can run; asyncio.Lock serves those
\* who wait in order; the work of a phase ends.
FairSpec ==
  /\ Spec
  /\ \A p \in Phases : /\ WF_vars(Ask(p)) /\ WF_vars(Proceed(p)) /\ WF_vars(Return(p))
                       /\ SF_vars(Enter(p)) /\ SF_vars(End(p))

-----------------------------------------------------------------------------
Working(p) == task[p] \in {"work", "progress", "progress_sent"}

\* Whoever works on a phase has its lock document: no other worker, and no
\* second task of this one, is working on the phase.
WorkIsExclusive ==
  \A p \in Phases : Working(p) => lockdoc[p] = count[p] /\ p \notin elsewhere

\* The record of a run is never finalised, nor missing, while a phase works:
\* a phase that starts while the last run is being saved gets a new one.
WorkIsRecorded ==
  \A p \in Phases : Working(p) => run = "running" /\ status[p] = "running"

Quiet == \A p \in Phases : trigger[p] = "none" /\ task[p] = "none" /\ leaving[p] = 0

\* When no phase runs, nothing of the run is left: no record, and no status
\* that a later run would take for its own.
NothingIsLeft ==
  "clear_error" \notin faults /\ Quiet => run = NoRun /\ \A p \in Phases : status[p] = "idle"

RightStatus ==
  history' # history =>
    (history'[Len(history')] = "failed" <=> \E p \in Phases : outcome[p] = "failed")

\* A run is recorded as failed when one of its phases has failed, and only
\* then.
StatusIsRight == [][("clear_error" \notin faults) => RightStatus]_vars

\* A run of the manager comes to an end.
RunEnds == (run # NoRun) ~> (run = NoRun)

\* phase_runner.py, check_cancelled(): "Also abort if the distributed lock
\* was stolen by another worker": the work has the handle of its lock.
WorkKnowsItsLock == \A p \in Phases : Working(p) => handle[p] = count[p]

\* manager.py: the reset after a run keeps what is stale out of a later one.
NoStaleFailure == [][RightStatus]_vars
=============================================================================
