--------------------------- MODULE LibraryIngest ---------------------------
(***************************************************************************)
(* domains/library: the ingestion of one public source into the shared     *)
(* library (source_runner.py, and the paging of adapters/nist_cpe.py).     *)
(*                                                                         *)
(* Every worker has a runner for the source, and they share the lock, the  *)
(* checkpoint, the ingestion runs and the library.  The source offers the  *)
(* entries 1 .. Size in pages; its content as a whole has a version, and   *)
(* the library remembers of each entry which version it was taken from.    *)
(* The callers' configurations only carry the key of the API (router.py),  *)
(* so that every run has the maximum of entries of the adapter.            *)
(* Each entry stands on one page.  (In the code one whose versions are     *)
(* spread over several is recognised within a run, not by a resumed one,   *)
(* which may count further ones again.)                                    *)
(*                                                                         *)
(* The lock's lease is an hour and refreshed every half; that it ends      *)
(* under a living runner is not considered here.                           *)
(***************************************************************************)
EXTENDS Integers, FiniteSets

CONSTANTS
  Workers,      \* worker processes
  Configured,   \* those whose callers bring a configuration
  Size,         \* entries the source has
  PageSize,     \* results_per_page
  MaxResults,   \* max_results, the entries after which an iteration ends
  Interval,     \* _CHECKPOINT_INTERVAL
  MaxVersion,   \* versions of the source's content considered
  MaxFaults,    \* faults and cancellations considered
  Environments, \* the sets of events considered together
  Nobody,       \* no worker
  Gone,         \* owner of a lock document that nobody refreshes
  NoCheckpoint  \* no checkpoint document

EventKinds == {"publish",  \* the source gets new content
               "cancel",   \* runs are cancelled
               "crash",    \* workers die
               "raise",    \* a call of the API or the database raises
               "skip"}     \* an entry raises

ASSUME IngestAssumption ==
  /\ IsFiniteSet(Workers) /\ Configured \subseteq Workers /\ Nobody \notin Workers
  /\ Gone \notin Workers /\ Gone # Nobody
  /\ Size \in Nat \ {0} /\ PageSize \in Nat \ {0} /\ Interval \in Nat \ {0}
  /\ MaxResults \in Nat \ {0}
  /\ MaxVersion \in Nat \ {0} /\ MaxFaults \in Nat /\ Environments \subseteq SUBSET EventKinds

VARIABLES
  upstream,   \* the version of the source's content
  library,    \* library_entries: the version each entry was taken from, or 0
  cp,         \* the checkpoint document
  lock,       \* the worker whose heartbeat keeps the distributed lock
  handle,     \* the workers whose runner has a _dist_lock
  ask,        \* where the trigger() or resume() call of a worker is
  asked,      \* the checkpoint it has loaded
  pc,         \* where the run of a worker is, while its status is "running"
  tail,       \* where the coroutine of its last run is after that
  job,        \* its run and how far it is; at first the checkpoint to resume, if any
  item,       \* the entry its adapter yields next
  data,       \* the version of the page it has fetched
  cancelled,  \* workers whose runner has _cancelled set
  faults,     \* faults so far
  events      \* what this behaviour may meet; never changed

calls == <<ask, asked>>
cursor == <<job, item, data>>
locks == <<lock, handle>>
chances == <<faults, events>>
vars == <<upstream, library, cp, locks, calls, pc, tail, cursor, cancelled, chances>>

Entries == 1 .. Size
PageOf(e) == (e - 1) \div PageSize + 1
LastPage == PageOf(Size)
FirstOf(p) == (p - 1) * PageSize + 1

\* A run: _current_start_index as a page number, _total_fetched (the entries
\* counted before the one at hand), total_processed modulo the checkpoint
\* interval and, as history, the source's version when the run was created and
\* whether it has skipped an entry or the API failed.
\* A checkpoint document is the run as it was when it was saved.
Jobs == [goal : 1 .. MaxVersion, flawed : BOOLEAN, page : 1 .. LastPage,
         fetched : 0 .. MaxResults - 1, done : 0 .. Interval - 1]
Fresh(v) == [goal |-> v, flawed |-> FALSE, page |-> 1, fetched |-> 0, done |-> 0]

ASSUME CheckpointAssumption == NoCheckpoint \notin Jobs

Active == {"create", "fetch", "entry", "save", "persist"}

TypeOK ==
  /\ upstream \in 1 .. MaxVersion
  /\ library \in [Entries -> 0 .. MaxVersion]
  /\ cp \in Jobs \cup {NoCheckpoint}
  /\ lock \in Workers \cup {Nobody, Gone} /\ handle \subseteq Workers
  /\ ask \in [Workers -> {"none", "fresh", "merge", "load", "resume"}]
  /\ asked \in [Workers -> Jobs \cup {NoCheckpoint}]
  /\ pc \in [Workers -> Active \cup {"off"}]
  /\ tail \in [Workers -> {"none", "clear", "release", "drop"}]
  /\ job \in [Workers -> Jobs \cup {NoCheckpoint}]
  /\ item \in [Workers -> Entries]
  /\ data \in [Workers -> 0 .. MaxVersion]
  /\ cancelled \subseteq Workers /\ faults \in 0 .. MaxFaults
  /\ events \in Environments

Init ==
  /\ upstream = 1
  /\ library = [e \in Entries |-> 0]
  /\ cp = NoCheckpoint
  /\ lock = Nobody /\ handle = {}
  /\ ask = [w \in Workers |-> "none"] /\ asked = [w \in Workers |-> NoCheckpoint]
  /\ pc = [w \in Workers |-> "off"] /\ tail = [w \in Workers |-> "none"]
  /\ job = [w \in Workers |-> Fresh(1)]
  /\ item = [w \in Workers |-> 1] /\ data = [w \in Workers |-> 0]
  /\ cancelled = {} /\ faults = 0 /\ events \in Environments

\* The source publishes new content.
Publish ==
  /\ "publish" \in events /\ upstream < MaxVersion
  /\ upstream' = upstream + 1
  /\ UNCHANGED <<library, cp, locks, calls, pc, tail, cursor, cancelled, chances>>

IsRunning(w) == pc[w] \in Active

Goto(w, step) == pc' = [pc EXCEPT ![w] = step]
Await(w, step) == ask' = [ask EXCEPT ![w] = step]

Fault(kind) ==
  /\ kind \in events /\ faults < MaxFaults
  /\ faults' = faults + 1 /\ UNCHANGED events

-----------------------------------------------------------------------------
(* trigger() and resume() *)

\* trigger: load_checkpoint.  With a checkpoint it resumes, and a caller's
\* configuration is merged into the checkpoint first.
Trigger(w) ==
  /\ ask[w] = "none"
  /\ \/ cp = NoCheckpoint /\ Await(w, "fresh") /\ UNCHANGED asked
     \/ cp # NoCheckpoint /\ Await(w, "load") /\ UNCHANGED asked
     \/ /\ cp # NoCheckpoint /\ w \in Configured /\ Await(w, "merge")
        /\ asked' = [asked EXCEPT ![w] = cp]
  /\ UNCHANGED <<upstream, library, cp, locks, pc, tail, cursor, cancelled, chances>>

\* save_checkpoint of the copy loaded before.
MergeConfig(w) ==
  /\ ask[w] = "merge"
  /\ cp' = asked[w]
  /\ Await(w, "load") /\ asked' = [asked EXCEPT ![w] = NoCheckpoint]
  /\ UNCHANGED <<upstream, library, locks, pc, tail, cursor, cancelled, chances>>

\* resume: load_checkpoint.
LoadCheckpoint(w) ==
  /\ ask[w] = "load"
  /\ asked' = [asked EXCEPT ![w] = cp]
  /\ Await(w, IF cp = NoCheckpoint THEN "none" ELSE "resume")
  /\ UNCHANGED <<upstream, library, cp, locks, pc, tail, cursor, cancelled, chances>>

Answer(w) == Await(w, "none") /\ asked' = [asked EXCEPT ![w] = NoCheckpoint]

\* Under the runner's own lock: refused if it runs or the lock is held,
\* otherwise _safe_run is started with the checkpoint.  The coroutine of the
\* runner's last run may still be at its tail.
Start(w) ==
  /\ ask[w] \in {"fresh", "resume"}
  /\ Answer(w)
  /\ IF IsRunning(w) \/ lock # Nobody
     THEN UNCHANGED <<locks, pc, job, cancelled>>
     ELSE /\ lock' = w /\ handle' = handle \cup {w}
          /\ Goto(w, "create")
          /\ job' = [job EXCEPT ![w] = asked[w]]
          /\ cancelled' = cancelled \ {w}
  /\ UNCHANGED <<upstream, library, cp, tail, item, data, chances>>

\* _acquire_dist_lock: the insert took effect and raised, which is a refusal.
StartRaises(w) ==
  /\ ask[w] \in {"fresh", "resume"} /\ ~IsRunning(w) /\ lock = Nobody /\ Fault("raise")
  /\ Answer(w)
  /\ lock' = Gone
  /\ UNCHANGED <<upstream, library, cp, handle, pc, tail, cursor, cancelled>>

Cancel(w) ==
  /\ IsRunning(w) /\ w \notin cancelled /\ Fault("cancel")
  /\ cancelled' = cancelled \cup {w}
  /\ UNCHANGED <<upstream, library, cp, locks, calls, pc, tail, cursor>>

-----------------------------------------------------------------------------
(* _execute *)

\* Mutant: a resumed run goes on with the page after that of the checkpoint.
CreateNext(w) ==
  /\ pc[w] = "create"
  /\ job' = [job EXCEPT ![w] =
       IF @ = NoCheckpoint THEN Fresh(upstream)
       ELSE [@ EXCEPT !.page = IF @ < LastPage THEN @ + 1 ELSE @]]
  /\ item' = [item EXCEPT ![w] = FirstOf(job'[w].page)]
  /\ Goto(w, "fetch")
  /\ UNCHANGED <<upstream, library, cp, locks, calls, tail, data, cancelled, chances>>

\* _restore_or_create_run: a resumed run goes on with the counters and the
\* page of the checkpoint.
CreateRun(w) ==
  /\ pc[w] = "create"
  /\ job' = [job EXCEPT ![w] = IF @ = NoCheckpoint THEN Fresh(upstream) ELSE @]
  /\ item' = [item EXCEPT ![w] = FirstOf(job'[w].page)]
  /\ Goto(w, "fetch")
  /\ UNCHANGED <<upstream, library, cp, locks, calls, tail, data, cancelled, chances>>

FetchPage(w) ==
  /\ pc[w] = "fetch"
  /\ data' = [data EXCEPT ![w] = upstream]
  /\ Goto(w, "entry")
  /\ UNCHANGED <<upstream, library, cp, locks, calls, tail, job, item, cancelled, chances>>

Skipped(w) == [job EXCEPT ![w].flawed = TRUE]

\* An error of the API ends the iteration as if the source were exhausted.
FetchFails(w) ==
  /\ pc[w] = "fetch" /\ Fault("raise")
  /\ job' = Skipped(w) /\ Goto(w, "persist")
  /\ UNCHANGED <<upstream, library, cp, locks, calls, tail, item, data, cancelled>>

\* The adapter counts the entry and goes on to the next one, the next page, or
\* the end, which is that of the source or the maximum; the runner's job is
\* "now" but for that.
Advance(w, now) ==
  IF item[w] = Size \/ now[w].fetched + 1 >= MaxResults
  THEN job' = now /\ Goto(w, "persist") /\ UNCHANGED <<item, data>>
  ELSE LET next == item[w] + 1
       IN /\ item' = [item EXCEPT ![w] = next]
          /\ job' = [now EXCEPT ![w].fetched = @ + 1, ![w].page = PageOf(next)]
          /\ IF PageOf(next) = now[w].page
             THEN Goto(w, "entry") /\ UNCHANGED data
             ELSE Goto(w, "fetch") /\ data' = [data EXCEPT ![w] = 0]

\* The entry is upserted; or it raises and is skipped.
Process(w) ==
  /\ pc[w] = "entry" /\ w \notin cancelled
  /\ \E skip \in BOOLEAN :
       /\ IF skip THEN Fault("skip") /\ UNCHANGED library
          ELSE library' = [library EXCEPT ![item[w]] = data[w]] /\ UNCHANGED chances
       /\ LET now == [job EXCEPT ![w].done = (@ + 1) % Interval, ![w].flawed = @ \/ skip]
          IN IF now[w].done = 0
             THEN job' = now /\ Goto(w, "save") /\ UNCHANGED <<item, data>>
             ELSE Advance(w, now)
  /\ UNCHANGED <<upstream, cp, locks, calls, tail, cancelled>>

\* Beyond the limit of errors the iteration ends.
TooManyErrors(w) ==
  /\ pc[w] = "entry" /\ w \notin cancelled /\ Fault("skip")
  /\ job' = Skipped(w)
  /\ Goto(w, "persist")
  /\ UNCHANGED <<upstream, library, cp, locks, calls, tail, item, data, cancelled>>

\* Mutant: the checkpoint names the page after the one in progress.
SaveNextPage(w) ==
  /\ pc[w] = "save"
  /\ cp' = [job[w] EXCEPT !.page = IF @ < LastPage THEN @ + 1 ELSE @]
  /\ Advance(w, job)
  /\ UNCHANGED <<upstream, library, locks, calls, tail, cancelled, chances>>

\* _save_progress_checkpoint; get_resume_state is that of the page in
\* progress, and of the entries before, until the iteration moves on.
SaveProgress(w) ==
  /\ pc[w] = "save"
  /\ cp' = job[w]
  /\ Advance(w, job)
  /\ UNCHANGED <<upstream, library, locks, calls, tail, cancelled, chances>>

-----------------------------------------------------------------------------
(* The end of _execute, and the rest of _safe_run *)

\* The status becomes a terminal one, and another run may be started while the
\* coroutine goes on to its end.  What a runner knows is of no use any more.
\* (A run does not end before the coroutine of the one before has.)
Leave(w, step) ==
  /\ tail[w] = "none" /\ tail' = [tail EXCEPT ![w] = step]
  /\ Goto(w, "off")
  /\ job' = [job EXCEPT ![w] = Fresh(1)]
  /\ item' = [item EXCEPT ![w] = 1] /\ data' = [data EXCEPT ![w] = 0]
  /\ cancelled' = cancelled \ {w}

\* check_cancelled raises, and the checkpoint is saved.
SaveCancelled(w) ==
  /\ pc[w] = "entry" /\ w \in cancelled
  /\ cp' = job[w]
  /\ Leave(w, "release")
  /\ UNCHANGED <<upstream, library, locks, calls, chances>>

\* _finalize_run and _persist_run: the run is recorded as completed.
Persist(w) ==
  /\ pc[w] = "persist"
  /\ Leave(w, "clear")
  /\ UNCHANGED <<upstream, library, cp, locks, calls, chances>>

\* Any other call of a run raises, of the adapter or the database.
Fail(w) ==
  /\ IsRunning(w) /\ Fault("raise")
  /\ Leave(w, "release")
  /\ UNCHANGED <<upstream, library, cp, locks, calls>>

At(w, step, next) == tail[w] = step /\ tail' = [tail EXCEPT ![w] = next]

\* Mutant: a completed run keeps its checkpoint.
ClearNothing(w) ==
  /\ At(w, "clear", "release")
  /\ UNCHANGED <<upstream, library, cp, locks, calls, pc, cursor, cancelled, chances>>

ClearCheckpoint(w) ==
  /\ At(w, "clear", "release")
  /\ cp' = NoCheckpoint
  /\ UNCHANGED <<upstream, library, locks, calls, pc, cursor, cancelled, chances>>

ClearRaises(w) ==
  /\ Fault("raise")
  /\ At(w, "clear", "release")
  /\ UNCHANGED <<upstream, library, cp, locks, calls, pc, cursor, cancelled>>

\* _release_dist_lock, up to the delete_one of the lock document, after which
\* the lock may be taken again while the call has not returned.
Release(w) ==
  /\ IF w \in handle
     THEN At(w, "release", "drop") /\ lock' = IF lock = w THEN Nobody ELSE lock
     ELSE At(w, "release", "none") /\ UNCHANGED lock
  /\ UNCHANGED <<upstream, library, cp, handle, calls, pc, cursor, cancelled, chances>>

\* The heartbeat has been cancelled and the delete raises.
ReleaseRaises(w) ==
  /\ w \in handle /\ Fault("raise")
  /\ At(w, "release", "drop")
  /\ lock' = IF lock = w THEN Gone ELSE lock
  /\ UNCHANGED <<upstream, library, cp, handle, calls, pc, cursor, cancelled>>

\* The call has returned: _dist_lock = None, whichever lock that is by now.
DropHandle(w) ==
  /\ At(w, "drop", "none")
  /\ handle' = handle \ {w}
  /\ UNCHANGED <<upstream, library, cp, lock, calls, pc, cursor, cancelled, chances>>

-----------------------------------------------------------------------------
(* Faults *)

\* The worker dies, and starts again with a new runner.
Crash(w) ==
  /\ Fault("crash")
  /\ pc' = [pc EXCEPT ![w] = "off"] /\ tail' = [tail EXCEPT ![w] = "none"]
  /\ job' = [job EXCEPT ![w] = Fresh(1)]
  /\ item' = [item EXCEPT ![w] = 1] /\ data' = [data EXCEPT ![w] = 0]
  /\ cancelled' = cancelled \ {w}
  /\ Answer(w)
  /\ handle' = handle \ {w}
  /\ lock' = IF lock = w THEN Gone ELSE lock
  /\ UNCHANGED <<upstream, library, cp>>

\* A lock that nobody refreshes expires.
LockExpires ==
  /\ lock = Gone
  /\ lock' = Nobody
  /\ UNCHANGED <<upstream, library, cp, handle, calls, pc, tail, cursor, cancelled, chances>>

-----------------------------------------------------------------------------
Call(w) == Trigger(w) \/ MergeConfig(w) \/ LoadCheckpoint(w) \/ Start(w)

Runner(w) ==
  \/ CreateRun(w) \/ FetchPage(w) \/ Process(w) \/ SaveProgress(w)
  \/ SaveCancelled(w) \/ Persist(w)

Tail(w) == ClearCheckpoint(w) \/ Release(w) \/ DropHandle(w)

Failure(w) ==
  \/ Cancel(w) \/ Crash(w) \/ StartRaises(w) \/ FetchFails(w) \/ TooManyErrors(w)
  \/ Fail(w) \/ ClearRaises(w) \/ ReleaseRaises(w)

Next ==
  \/ Publish \/ LockExpires
  \/ \E w \in Workers : Call(w) \/ Runner(w) \/ Tail(w) \/ Failure(w)

Spec == Init /\ [][Next]_vars

\* Coroutines are scheduled, locks expire, and the ingestion of the source is
\* triggered again and again.
FairSpec ==
  /\ Spec
  /\ WF_vars(LockExpires)
  /\ \A w \in Workers : WF_vars(Runner(w)) /\ WF_vars(Tail(w)) /\ WF_vars(Call(w))

-----------------------------------------------------------------------------
\* The entries before a page have been taken from content at least as new as
\* when the run was created.
Covered(j, p) == \A e \in Entries : PageOf(e) < p => library[e] >= j.goal

\* What a checkpoint says is done is done: whoever saved it last, a running
\* or a cancelled run or a trigger that merges its configuration into an
\* older copy, a run resumed from it skips nothing that it owes.
CheckpointIsSound ==
  cp # NoCheckpoint => cp.flawed \/ Covered(cp, cp.page)

\* What _total_fetched has counted before the entry at hand, over the entries
\* before it: a resumed run fetches its page again.
CountedAgain(w) == job[w].fetched - (item[w] - 1)

\* A run that is about to be recorded as completed has brought the entries up
\* to the content the source had when the run was created, through however many
\* interruptions and resumptions: all of them, or the first MaxResults, or, if
\* it was resumed in the middle of pages, short of that just by what it has
\* counted again.
CompletedCovers ==
  \A w \in Workers : pc[w] = "persist" =>
    job[w].flawed \/ \A e \in Entries : e <= MaxResults - CountedAgain(w) => library[e] >= job[w].goal

\* "skip already-processed entries on resume" (adapters/base.py) costs nothing
\* of the "total max entries to fetch" (nist_cpe.py).
ResumeCostsNothing ==
  \A w \in Workers : pc[w] = "persist" =>
    job[w].flawed \/ \A e \in Entries : e <= MaxResults => library[e] >= job[w].goal

\* The return of a release has taken the handle of a run that was started in
\* between: its lock is kept by a heartbeat that nobody will cancel.
Forgotten(w) == lock = w /\ w \notin handle

\* A call holds a copy of a checkpoint that was cleared since.
Outdated(w) == asked[w] # NoCheckpoint /\ cp = NoCheckpoint

CatchesUp == <>[](\A e \in Entries : e <= MaxResults => library[e] = upstream)

\* Whatever runs were cut, cancelled, lost or resumed from a checkpoint that
\* was left behind, in the end what the adapter may take of the source is as
\* new as the source, provided that calls do not for ever bring cleared
\* checkpoints back, and that no lock is forgotten.
KeepsUp == <>[](\A w \in Workers : ~Outdated(w) /\ ~Forgotten(w)) => CatchesUp

\* The same without the second condition: a run releases the lock it took.
LockIsReleased == <>[](\A w \in Workers : ~Outdated(w)) => CatchesUp

\* The same without the first one: cleared checkpoints have no effect.
ClearedIsGone == <>[](\A w \in Workers : ~Forgotten(w)) => CatchesUp
=============================================================================
