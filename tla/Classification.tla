--------------------------- MODULE Classification ---------------------------
(***************************************************************************)
(* domains/classification/classifier.py: the runs of the classification    *)
(* pipeline, from the trigger of a request to the release of the lock, in  *)
(* several workers, beside a collection of agents that a sync changes.     *)
(*                                                                         *)
(* A run is known by the request that triggers it and so is the lock       *)
(* handle it gets.  What a result says is left out: a result names the     *)
(* run that wrote it.  The heartbeat of a handle keeps its lock as long as *)
(* the worker lives (DistributedLock).                                     *)
(***************************************************************************)
EXTENDS Integers, FiniteSets

CONSTANTS
  Workers,    \* worker processes
  Runs,       \* requests
  Agents,     \* source_ids
  BatchSize,  \* _BATCH_SIZE
  MaxEvents,  \* bound: faults, and agents that come or go
  Nobody,     \* no run
  Gone        \* the owner of a lock nobody refreshes

ClassificationAssumption ==
  /\ IsFiniteSet(Agents) /\ {Nobody, Gone} \cap Runs = {} /\ Nobody # Gone
  /\ BatchSize \in Nat \ {0} /\ MaxEvents \in Nat

VARIABLES
  pc,       \* where a run is
  home,     \* the worker that received the request
  work,     \* what a run has got, and its figures
  record,   \* status of the ClassificationRun
  running,  \* workers with the flag _running
  handle,   \* _dist_lock of a worker
  lock,     \* the owner of the lock document
  ids,      \* _id of an agent, 0 when it is not there
  results,  \* the run that wrote the result of an agent
  next,     \* the next _id
  up,       \* workers that are alive
  steady,   \* history: agents that were there all the time since the count
  events    \* events so far

runs == <<pc, home, work, record>>
locks == <<running, handle, lock>>
agents == <<ids, next>>
vars == <<runs, locks, agents, results, up, steady, events>>

MaxId == Cardinality(Agents) + MaxEvents

Nothing == [last |-> 0, batch |-> {}, short |-> FALSE, classified |-> 0, errors |-> 0, cut |-> FALSE]

InBlock == {"fetching", "writing", "finishing", "failing", "leaving", "releasing", "returning"}
Ended == {"new", "over", "stuck"}

TypeOK ==
  /\ pc \in [Runs -> {"asking", "saving", "queued"} \cup InBlock \cup Ended]
  /\ home \in [Runs -> Workers]
  /\ work \in [Runs -> [last : 0 .. MaxId, batch : SUBSET Agents, short : BOOLEAN,
                        classified : 0 .. MaxId, errors : 0 .. MaxId + 2, cut : BOOLEAN]]
  /\ record \in [Runs -> {"none", "running", "completed", "failed"}]
  /\ running \subseteq Workers /\ up \subseteq Workers
  /\ handle \in [Workers -> Runs \cup {Nobody}] /\ lock \in Runs \cup {Nobody, Gone}
  /\ ids \in [Agents -> 0 .. MaxId] /\ next \in 1 .. MaxId + 1
  /\ results \in [Agents -> Runs \cup {Nobody}]
  /\ steady \in [Runs -> SUBSET Agents] /\ events \in 0 .. MaxEvents

\* The order in which the agents of the first sync were inserted.
FirstIds ==
  CHOOSE f \in [Agents -> 1 .. Cardinality(Agents)] : \A a, b \in Agents : f[a] = f[b] => a = b

Init ==
  /\ pc = [r \in Runs |-> "new"] /\ home = [r \in Runs |-> CHOOSE w \in Workers : TRUE]
  /\ work = [r \in Runs |-> Nothing] /\ record = [r \in Runs |-> "none"]
  /\ running = {} /\ handle = [w \in Workers |-> Nobody] /\ lock = Nobody
  /\ \E there \in SUBSET Agents : ids = [a \in Agents |-> IF a \in there THEN FirstIds[a] ELSE 0]
  /\ results = [a \in Agents |-> Nobody] /\ next = Cardinality(Agents) + 1
  /\ up = Workers /\ steady = [r \in Runs |-> {}] /\ events = 0

Event == events < MaxEvents /\ events' = events + 1
Goto(r, step) == pc' = [pc EXCEPT ![r] = step]
Become(r, status) == record' = [record EXCEPT ![r] = status]

-----------------------------------------------------------------------------
(* The trigger *)

\* The local flag is tested before the lock is asked for.
Ask(r) ==
  /\ pc[r] = "new"
  /\ \E w \in up \ running : home' = [home EXCEPT ![r] = w]
  /\ Goto(r, "asking")
  /\ UNCHANGED <<work, record, locks, agents, results, up, steady, events>>

\* The lock, the handle and then the flag.
Acquire(r) ==
  /\ pc[r] = "asking"
  /\ IF lock = Nobody
     THEN /\ lock' = r
          /\ handle' = [handle EXCEPT ![home[r]] = r]
          /\ running' = running \cup {home[r]}
          /\ Goto(r, "saving")
     ELSE Goto(r, "over") /\ UNCHANGED locks
  /\ UNCHANGED <<home, work, record, agents, results, up, steady, events>>

\* An error of the driver refuses the request; the insert may have happened.
AcquireRaises(r) ==
  /\ pc[r] = "asking" /\ Event
  /\ Goto(r, "over")
  /\ lock' \in IF lock = Nobody THEN {Nobody, Gone} ELSE {lock}
  /\ UNCHANGED <<home, work, record, running, handle, agents, results, up, steady>>

Save(r) ==
  /\ pc[r] = "saving"
  /\ Become(r, "running") /\ Goto(r, "queued")
  /\ UNCHANGED <<home, work, locks, agents, results, up, steady, events>>

\* save_run raises out of the trigger: the flag, the lock and its heartbeat stay.
SaveRaises(r) ==
  /\ pc[r] = "saving" /\ Event
  /\ Goto(r, "stuck")
  /\ record' \in {record, [record EXCEPT ![r] = "running"]}
  /\ UNCHANGED <<home, work, locks, agents, results, up, steady>>

-----------------------------------------------------------------------------
(* The pipeline *)

Present == {a \in Agents : ids[a] # 0}

\* Only one task of a worker is inside self._lock.
CanEnter(r) ==
  pc[r] = "queued" /\ \A s \in Runs : home[s] = home[r] => pc[s] \notin InBlock

\* count_documents; without agents the run is completed.
Enter(r) ==
  /\ CanEnter(r)
  /\ steady' = [steady EXCEPT ![r] = Present]
  /\ IF Present = {} THEN Become(r, "completed") /\ Goto(r, "leaving")
     ELSE Goto(r, "fetching") /\ UNCHANGED record
  /\ UNCHANGED <<home, work, locks, agents, results, up, events>>

CountFails(r) ==
  /\ CanEnter(r) /\ Event
  /\ Goto(r, "failing")
  /\ UNCHANGED <<home, work, record, locks, agents, results, up, steady>>

\* Mutant: skip and limit, as many agents as have been seen are skipped.
DocsSkip(last) ==
  {a \in Present : Cardinality({b \in Present : ids[b] < ids[a]}) \in last .. last + BatchSize - 1}

\* The agents after _id last, in the order of _id, BatchSize at the most.
Docs(last) ==
  LET rest == {a \in Agents : ids[a] > last}
  IN {a \in rest : Cardinality({b \in rest : ids[b] < ids[a]}) < BatchSize}

LastId(docs) == CHOOSE i \in {ids[a] : a \in docs} : \A a \in docs : ids[a] <= i

\* A batch is read and its agents are classified, but for those that raise.
Fetch(r) ==
  /\ pc[r] = "fetching"
  /\ LET docs == Docs(work[r].last) IN
     IF docs = {} THEN Goto(r, "finishing") /\ UNCHANGED <<work, events>>
     ELSE \E failed \in SUBSET docs :
       /\ IF failed = {} THEN UNCHANGED events ELSE Event
       /\ work' = [work EXCEPT ![r].last = LastId(docs), ![r].batch = docs \ failed,
                               ![r].short = Cardinality(docs) < BatchSize,
                               ![r].classified = @ + Cardinality(docs \ failed),
                               ![r].errors = @ + Cardinality(failed)]
       /\ Goto(r, "writing")
  /\ UNCHANGED <<home, record, locks, agents, results, up, steady>>

\* The pages end at a batch that cannot be read.
FetchFails(r) ==
  /\ pc[r] = "fetching" /\ Event
  /\ work' = [work EXCEPT ![r].errors = @ + 1, ![r].cut = TRUE]
  /\ Goto(r, "finishing")
  /\ UNCHANGED <<home, record, locks, agents, results, up, steady>>

Discount(w, lost) ==
  [w EXCEPT !.batch = {}, !.classified = @ - Cardinality(lost), !.errors = @ + Cardinality(lost)]

\* bulk_upsert_results writes what it can; the count of the run is reduced by
\* what was not written, or by the whole batch when the call raises.
Write(r) ==
  /\ pc[r] = "writing"
  /\ \E written \in SUBSET work[r].batch :
       /\ results' = [a \in Agents |-> IF a \in written THEN r ELSE results[a]]
       /\ \/ /\ IF written = work[r].batch THEN UNCHANGED events ELSE Event
             /\ work' = [work EXCEPT ![r] = Discount(work[r], work[r].batch \ written)]
          \/ Event /\ work' = [work EXCEPT ![r] = Discount(work[r], work[r].batch)]
  /\ Goto(r, IF work[r].short THEN "finishing" ELSE "fetching")
  /\ UNCHANGED <<home, record, locks, agents, up, steady>>

Finish(r) ==
  /\ pc[r] = "finishing"
  /\ Become(r, "completed") /\ Goto(r, "leaving")
  /\ UNCHANGED <<home, work, locks, agents, results, up, steady, events>>

FinishRaises(r) ==
  /\ pc[r] = "finishing" /\ Event
  /\ record' \in {record, [record EXCEPT ![r] = "completed"]}
  /\ Goto(r, "failing")
  /\ UNCHANGED <<home, work, locks, agents, results, up, steady>>

Fail(r) ==
  /\ pc[r] = "failing"
  /\ work' = [work EXCEPT ![r].errors = @ + 1]
  /\ Become(r, "failed") /\ Goto(r, "leaving")
  /\ UNCHANGED <<home, locks, agents, results, up, steady, events>>

\* The record stays what it was.
FailRaises(r) ==
  /\ pc[r] = "failing" /\ Event
  /\ Goto(r, "leaving")
  /\ UNCHANGED <<home, work, record, locks, agents, results, up, steady>>

-----------------------------------------------------------------------------
(* The end *)

\* Mutant: the lock is kept when the run has failed.
LeaveFailed(r) ==
  /\ pc[r] = "leaving"
  /\ running' = running \ {home[r]}
  /\ Goto(r, IF handle[home[r]] = Nobody \/ record[r] = "failed" THEN "over" ELSE "releasing")
  /\ UNCHANGED <<home, work, record, handle, lock, agents, results, up, steady, events>>

\* The flag is reset before the lock is released.
Leave(r) ==
  /\ pc[r] = "leaving"
  /\ running' = running \ {home[r]}
  /\ Goto(r, IF handle[home[r]] = Nobody THEN "over" ELSE "releasing")
  /\ UNCHANGED <<home, work, record, handle, lock, agents, results, up, steady, events>>

\* The heartbeat is cancelled and the document deleted.
Delete(r) ==
  /\ pc[r] = "releasing"
  /\ lock' = IF lock = handle[home[r]] THEN Nobody ELSE lock
  /\ Goto(r, "returning")
  /\ UNCHANGED <<home, work, record, running, handle, agents, results, up, steady, events>>

\* An error of the driver leaves the document, and nobody refreshes it.
DeleteRaises(r) ==
  /\ pc[r] = "releasing" /\ Event
  /\ lock' = IF lock = handle[home[r]] THEN Gone ELSE lock
  /\ Goto(r, "returning")
  /\ UNCHANGED <<home, work, record, running, handle, agents, results, up, steady>>

\* The answer: whatever handle the worker has by now is forgotten.
Return(r) ==
  /\ pc[r] = "returning"
  /\ handle' = [handle EXCEPT ![home[r]] = Nobody]
  /\ Goto(r, "over")
  /\ UNCHANGED <<home, work, record, running, lock, agents, results, up, steady, events>>

-----------------------------------------------------------------------------
(* The surroundings *)

\* The lock document of a dead worker expires.
Expire ==
  /\ lock = Gone
  /\ lock' = Nobody
  /\ UNCHANGED <<runs, running, handle, agents, results, up, steady, events>>

Crash(w) ==
  /\ w \in up /\ Event
  /\ up' = up \ {w}
  /\ pc' = [r \in Runs |-> IF home[r] = w /\ pc[r] # "new" THEN "over" ELSE pc[r]]
  /\ running' = running \ {w} /\ handle' = [handle EXCEPT ![w] = Nobody]
  /\ lock' = IF lock \in Runs /\ home[lock] = w THEN Gone ELSE lock
  /\ UNCHANGED <<home, work, record, agents, results, steady>>

\* A worker that starts marks every run that is running as failed.
Start(w) ==
  /\ w \notin up
  /\ up' = up \cup {w}
  /\ record' = [r \in Runs |-> IF record[r] = "running" THEN "failed" ELSE record[r]]
  /\ UNCHANGED <<pc, home, work, locks, agents, results, steady, events>>

\* A sync deletes an agent, or inserts one with a new _id.
Remove(a) ==
  /\ a \in Present /\ Event
  /\ ids' = [ids EXCEPT ![a] = 0]
  /\ steady' = [r \in Runs |-> steady[r] \ {a}]
  /\ UNCHANGED <<runs, locks, next, results, up>>

Add(a) ==
  /\ a \notin Present /\ Event
  /\ ids' = [ids EXCEPT ![a] = next] /\ next' = next + 1
  /\ UNCHANGED <<runs, locks, results, up, steady>>

Step(r) ==
  \/ Ask(r) \/ Acquire(r) \/ Save(r) \/ Enter(r) \/ Fetch(r) \/ Write(r)
  \/ Finish(r) \/ Fail(r) \/ Leave(r) \/ Delete(r) \/ Return(r)

Fault(r) ==
  \/ AcquireRaises(r) \/ SaveRaises(r) \/ CountFails(r) \/ FetchFails(r)
  \/ FinishRaises(r) \/ FailRaises(r) \/ DeleteRaises(r)

Next ==
  \/ \E r \in Runs : Step(r) \/ Fault(r)
  \/ \E w \in Workers : Crash(w) \/ Start(w)
  \/ \E a \in Agents : Remove(a) \/ Add(a)
  \/ Expire

Spec == Init /\ [][Next]_vars

\* Tasks go on, and a lock that is not refreshed expires.
FairSpec == Spec /\ WF_vars(Expire) /\ \A r \in Runs : WF_vars(Step(r))

-----------------------------------------------------------------------------
(* Properties *)

Uncovered(r) == {a \in steady[r] : results[a] # r}

\* Agents that come and go between the batches make the pages skip nobody: a
\* run that is completed has a result, or has counted an error, for every agent
\* that was there all the time, unless a batch could not be read, which is an
\* error too; and what it counts as classified it has not left unwritten.
RunCovers ==
  \A r \in Runs : pc[r] = "leaving" /\ record[r] = "completed" =>
    /\ ~work[r].cut => Cardinality(Uncovered(r)) <= work[r].errors
    /\ work[r].errors = 0 => Uncovered(r) = {}

\* Whatever fails inside a run, in the workers that go on and in those that
\* crash, the lock of the pipeline comes back, unless save_run raised or the
\* return of an earlier release has taken the handle.
LockComesBack ==
  \A r \in Runs : (lock = r) ~> (lock # r \/ pc[r] = "stuck" \/ handle[home[r]] # r)

\* Does not hold: the return of a release takes the handle of the next run.
LockAlwaysComesBack == \A r \in Runs : (lock = r) ~> (lock # r \/ pc[r] = "stuck")
=============================================================================
