----------------------------- MODULE AgentSync ------------------------------
(***************************************************************************)
(* domains/sync/phases/agents.py under the lifecycle of phase_runner.py    *)
(* and the paged queries of s1_client.py: the agents phase copies the      *)
(* active agents of SentinelOne into the collection `agents`, in full or   *)
(* from the last timestamp on, saves a checkpoint every SaveAt agents,     *)
(* writes its buffer every FlushAt agents, and starts from the checkpoint  *)
(* when one is found.                                                      *)
(*                                                                         *)
(* The collection is shared with the CrowdStrike phase, whose documents    *)
(* are `others`.  A version of an agent is the time it was last changed.   *)
(* The phase's lock makes runs exclusive (DistributedLock), so one run is  *)
(* modelled at a time: pc is "idle" when the lock is free, which after a   *)
(* crash it is when the lease has expired.                                 *)
(***************************************************************************)
EXTENDS Integers, FiniteSets

CONSTANTS
  N,           \* SentinelOne's agents are 1 .. N, the order of its cursors
  Enrolled,    \* those enrolled before the first run
  Others,      \* the agents CrowdStrike has
  PageSize,    \* page_size_agents
  FlushAt,     \* 500: agents in the buffer that make it be written
  SaveAt,      \* 100: agents between two checkpoints
  MaxChanges,  \* bound: changes of agents in a behaviour
  MaxRuns,     \* bound: runs in a behaviour
  Environments \* the sets of faults to consider

Agents == 1 .. N
Modes == {"full", "incremental"}
FaultKinds == {"interrupt",   \* cancelled, lock lost, an error, or a crash
               "crowdstrike"} \* CrowdStrike's phase runs too

ASSUME SyncAssumption ==
  /\ N \in Nat
  /\ PageSize \in Nat \ {0}
  /\ FlushAt \in Nat \ {0}
  /\ SaveAt \in Nat \ {0}
  /\ Enrolled \subseteq Agents
  /\ MaxChanges \in Nat
  /\ MaxRuns \in Nat
  /\ Environments \subseteq SUBSET FaultKinds

VARIABLES
  source,     \* SentinelOne: the state and the last change of each agent
  docs,       \* collection agents: the documents of SentinelOne's agents
  others,     \* collection agents: the CrowdStrike agents with a document
  meta,       \* sync_meta.agents_synced_at, 0 when absent
  checkpoint, \* sync_checkpoint's document phase:agents, or NoCheckpoint
  request,    \* the checkpoint that trigger() or resume() has read
  pc,         \* where the run is
  mode,       \* its mode, resolved
  resumed,    \* its is_resume
  since,      \* its last_sync_at, 0 when None
  started,    \* its sync_started_at
  last,       \* the last agent taken: next page's cursor and last_id
  page,       \* the items of the page not taken yet
  more,       \* the page came with a nextCursor
  buffer,     \* full_sync_buffer
  synced,     \* agents_synced % SaveAt
  clock,      \* time
  changes,    \* changes of agents so far
  runs,       \* runs so far
  faults,     \* what may go wrong in this behaviour
  sound       \* history: see Unsound

run == <<mode, resumed, since, started, last, page, more, buffer, synced>>
vars == <<source, docs, others, meta, checkpoint, request, pc, run, clock, changes, runs, faults, sound>>

NoCheckpoint == [last_id |-> 0, mode |-> "none"]
NoRequest == [last_id |-> 0, mode |-> "no request"]
Checkpoints == [last_id : Agents, mode : Modes] \cup {NoCheckpoint}
Items == [id : Agents, changed : Nat]

PCs == {"idle", "fetch", "take", "store", "count", "rest", "stale", "decommissioned",
        "record", "clear"}

TypeOK ==
  /\ source \in [Agents -> [state : {"absent", "active", "gone"}, changed : Nat]]
  /\ DOMAIN docs \subseteq Agents
  /\ docs \in [DOMAIN docs -> [changed : Nat, synced_at : Nat]]
  /\ others \subseteq Others
  /\ meta \in Nat
  /\ checkpoint \in Checkpoints
  /\ request \in Checkpoints \cup {NoRequest}
  /\ pc \in PCs
  /\ mode \in Modes
  /\ resumed \in BOOLEAN
  /\ since \in Nat
  /\ started \in Nat
  /\ last \in 0 .. N
  /\ pc \in {"store", "count"} => last # 0
  /\ page \subseteq Items
  /\ more \in BOOLEAN
  /\ buffer \subseteq Items
  /\ synced \in 0 .. SaveAt - 1
  /\ clock \in Nat
  /\ changes \in 0 .. MaxChanges
  /\ runs \in 0 .. MaxRuns
  /\ faults \subseteq FaultKinds
  /\ sound \in BOOLEAN

Init ==
  /\ source = [a \in Agents |->
                 [state |-> IF a \in Enrolled THEN "active" ELSE "absent", changed |-> 0]]
  /\ docs = [a \in {} |-> 0]
  /\ others = {}
  /\ meta = 0
  /\ checkpoint = NoCheckpoint
  /\ request = NoRequest
  /\ pc = "idle"
  /\ mode = "full" /\ resumed = FALSE /\ since = 0 /\ started = 0
  /\ last = 0 /\ page = {} /\ more = FALSE /\ buffer = {} /\ synced = 0
  /\ clock = 0 /\ changes = 0 /\ runs = 0
  /\ faults \in Environments
  /\ sound = TRUE

-----------------------------------------------------------------------------
(* SentinelOne and CrowdStrike *)

\* Time may have passed since the last step that looked at it.
Upstream(a, state) ==
  /\ changes < MaxChanges
  /\ changes' = changes + 1
  /\ clock' \in {clock, clock + 1}
  /\ source' = [source EXCEPT ![a] = [state |-> state, changed |-> clock']]
  /\ UNCHANGED <<docs, others, meta, checkpoint, request, pc, run, runs,
                 faults, sound>>

\* An agent is enrolled, or a field of it changes.
Change(a) == source[a].state \in {"absent", "active"} /\ Upstream(a, "active")

Decommission(a) == source[a].state = "active" /\ Upstream(a, "gone")

\* A run of sources/crowdstrike/sync_agents.py: it writes its agents, and
\* deletes only documents of its own source.
CrowdStrikeSync ==
  /\ "crowdstrike" \in faults
  /\ others' = Others
  /\ UNCHANGED <<source, docs, meta, checkpoint, request, pc, run, clock,
                 changes, runs, faults, sound>>

-----------------------------------------------------------------------------
(* trigger() and resume() *)

\* The checkpoint is read before the lock is asked for.  (trigger() leaves a
\* checkpoint it found to resume(), which reads it again and gives up when
\* it is gone.)
LoadCheckpoint ==
  /\ request = NoRequest
  /\ request' = checkpoint
  /\ UNCHANGED <<source, docs, others, meta, checkpoint, pc, run, clock,
                 changes, runs, faults, sound>>

\* The phase is running here or in another worker.
Busy ==
  /\ request # NoRequest /\ pc # "idle"
  /\ request' = NoRequest
  /\ UNCHANGED <<source, docs, others, meta, checkpoint, pc, run, clock,
                 changes, runs, faults, sound>>

\* History: a run that starts from a checkpoint, or that is incremental
\* without a timestamp to start from, may leave the copy wrong; a full run
\* from the start that reaches its end makes it right again.
Unsound(resumes, m) == resumes \/ (m = "incremental" /\ meta = 0 /\ DOMAIN docs # {})

\* The lock is free: _execute() reads the time and the timestamp of the last
\* run and resolves the mode; it takes the mode of the checkpoint if any.
Begin(m) ==
  /\ request # NoRequest /\ pc = "idle" /\ runs < MaxRuns
  /\ request.mode \in Modes => m = request.mode
  /\ request' = NoRequest
  /\ runs' = runs + 1
  /\ clock' = clock + 1
  /\ started' = clock'
  /\ mode' = IF m = "auto" THEN IF meta = 0 THEN "full" ELSE "incremental" ELSE m
  /\ since' = meta
  /\ last' = request.last_id
  /\ resumed' = (request # NoCheckpoint)
  /\ sound' = (sound /\ ~Unsound(resumed', mode'))
  /\ pc' = "fetch"
  /\ UNCHANGED <<source, docs, others, meta, checkpoint, page, more, buffer,
                 synced, changes, faults>>

-----------------------------------------------------------------------------
(* _sync_agents() *)

\* Mutant: only agents changed after the last timestamp, not at it.
MatchingLater ==
  {a \in Agents : /\ a > last
                  /\ source[a].state = "active"
                  /\ mode = "incremental" => source[a].changed > since}

\* GET /agents: isDecommissioned false, updatedAt__gte, after the cursor.
Matching ==
  {a \in Agents : /\ a > last
                  /\ source[a].state = "active"
                  /\ mode = "incremental" => source[a].changed >= since}

FetchPage ==
  /\ pc = "fetch"
  /\ LET First == {a \in Matching : Cardinality({b \in Matching : b =< a}) =< PageSize}
     IN /\ page' = {[id |-> a, changed |-> source[a].changed] : a \in First}
        /\ more' = (First # Matching)
  /\ pc' = "take"
  /\ UNCHANGED <<source, docs, others, meta, checkpoint, request, mode,
                 resumed, since, started, last, buffer, synced, clock,
                 changes, runs, faults, sound>>

TakeItem ==
  /\ pc = "take"
  /\ \E d \in page :
       /\ \A e \in page : d.id =< e.id
       /\ page' = page \ {d}
       /\ buffer' = buffer \cup {d}
       /\ last' = d.id
  /\ pc' = IF Cardinality(buffer') >= FlushAt THEN "store" ELSE "count"
  /\ UNCHANGED <<source, docs, others, meta, checkpoint, request, mode,
                 resumed, since, started, more, synced, clock, changes, runs,
                 faults, sound>>

EndPage ==
  /\ pc = "take" /\ page = {}
  /\ pc' = IF more THEN "fetch" ELSE "rest"
  /\ UNCHANGED <<source, docs, others, meta, checkpoint, request, run, clock,
                 changes, runs, faults, sound>>

\* bulk_write of ReplaceOne(upsert=True): the collection with these items.
Replaced(items) ==
  [a \in DOMAIN docs \cup {d.id : d \in items} |->
     IF \E d \in items : d.id = a
     THEN [changed |-> (CHOOSE d \in items : d.id = a).changed, synced_at |-> started]
     ELSE docs[a]]

Only(f, S) == [a \in S |-> f[a]]

Flush ==
  /\ pc = "store"
  /\ docs' = Replaced(buffer)
  /\ buffer' = {}
  /\ pc' = "count"
  /\ UNCHANGED <<source, others, meta, checkpoint, request, mode, resumed,
                 since, started, last, page, more, synced, clock, changes,
                 runs, faults, sound>>

\* Every SaveAt agents the checkpoint is saved, whatever the buffer holds.
Count ==
  /\ pc = "count"
  /\ synced' = (synced + 1) % SaveAt
  /\ checkpoint' = IF synced' = 0 THEN [last_id |-> last, mode |-> mode] ELSE checkpoint
  /\ pc' = "take"
  /\ UNCHANGED <<source, docs, others, meta, request, mode, resumed, since,
                 started, last, page, more, buffer, clock, changes, runs,
                 faults, sound>>

\* Mutant: what the buffer holds after the last page is dropped.
FlushRestNever ==
  /\ pc = "rest"
  /\ docs' = docs
  /\ buffer' = {}
  /\ pc' = IF mode = "full" THEN "stale"
           ELSE IF since > 0 THEN "decommissioned" ELSE "record"
  /\ UNCHANGED <<source, others, meta, checkpoint, request, mode, resumed, since,
                 started, last, page, more, synced, clock, changes, runs, faults, sound>>

FlushRest ==
  /\ pc = "rest"
  /\ docs' = Replaced(buffer)
  /\ buffer' = {}
  /\ pc' = IF mode = "full" THEN "stale"
           ELSE IF since > 0 THEN "decommissioned" ELSE "record"
  /\ UNCHANGED <<source, others, meta, checkpoint, request, mode, resumed,
                 since, started, last, page, more, synced, clock, changes,
                 runs, faults, sound>>

Stale == {a \in DOMAIN docs : docs[a].synced_at # started}

\* A full run: delete_many({"synced_at": {"$ne": sync_started_at}}).
DeleteStale ==
  /\ pc = "stale"
  /\ docs' = Only(docs, DOMAIN docs \ Stale)
  /\ others' = {}
  /\ pc' = "record"
  /\ UNCHANGED <<source, meta, checkpoint, request, run, clock, changes, runs,
                 faults, sound>>

\* Mutant: the filter on isDecommissioned is missing.
NotOnlyDecommissioned == {a \in Agents : source[a].changed >= since}

\* get_decommissioned_agent_ids(updated_since=last_sync_at)
Decommissioned == {a \in Agents : source[a].state = "gone" /\ source[a].changed >= since}

RemoveDecommissioned ==
  /\ pc = "decommissioned"
  /\ docs' = Only(docs, DOMAIN docs \ Decommissioned)
  /\ pc' = "record"
  /\ UNCHANGED <<source, others, meta, checkpoint, request, run, clock,
                 changes, runs, faults, sound>>

RecordTimestamp ==
  /\ pc = "record"
  /\ meta' = started
  /\ sound' = (sound \/ (mode = "full" /\ ~resumed))
  /\ pc' = "clear"
  /\ UNCHANGED <<source, docs, others, checkpoint, request, run, clock,
                 changes, runs, faults>>

\* The locals of the run are gone.
ResetRun ==
  /\ mode' = "full" /\ resumed' = FALSE /\ since' = 0 /\ started' = 0
  /\ last' = 0 /\ page' = {} /\ more' = FALSE /\ buffer' = {} /\ synced' = 0

\* _safe_run(): completed.
ClearCheckpoint ==
  /\ pc = "clear"
  /\ checkpoint' = NoCheckpoint
  /\ pc' = "idle"
  /\ ResetRun
  /\ UNCHANGED <<source, docs, others, meta, request, clock, changes, runs,
                 faults, sound>>

\* The run ends at any step; a write of many documents may be partly done.
Interrupt ==
  /\ "interrupt" \in faults /\ pc # "idle"
  /\ \/ /\ pc \in {"store", "rest"}
        /\ \E items \in SUBSET buffer : docs' = Replaced(items)
        /\ others' = others
     \/ /\ pc = "stale"
        /\ \E S \in SUBSET Stale : docs' = Only(docs, DOMAIN docs \ S)
        /\ others' \in SUBSET others
     \/ /\ pc = "decommissioned"
        /\ \E S \in SUBSET Decommissioned : docs' = Only(docs, DOMAIN docs \ S)
        /\ others' = others
     \/ /\ pc \notin {"store", "rest", "stale", "decommissioned"}
        /\ UNCHANGED <<docs, others>>
  /\ pc' = "idle"
  /\ ResetRun
  /\ UNCHANGED <<source, meta, checkpoint, request, clock, changes, runs,
                 faults, sound>>

Step == \/ FetchPage \/ TakeItem \/ EndPage \/ Flush \/ Count \/ FlushRest
        \/ DeleteStale \/ RemoveDecommissioned \/ RecordTimestamp \/ ClearCheckpoint

Next == \/ \E a \in Agents : Change(a) \/ Decommission(a)
        \/ CrowdStrikeSync
        \/ LoadCheckpoint \/ Busy
        \/ \E m \in Modes \cup {"auto"} : Begin(m)
        \/ Step
        \/ Interrupt

Spec == Init /\ [][Next]_vars

\* The coroutine of a run is scheduled until it ends.
FairSpec == Spec /\ WF_vars(Step)

-----------------------------------------------------------------------------
\* After a run has recorded its timestamp, whatever SentinelOne changed
\* before that time is in the collection, and no agent decommissioned before
\* it is there -- unless a resumed run, or an incremental one with nothing to
\* start from, came after the last full run.  Interruptions alone, between
\* any two steps and in the middle of a write, never break it.
CaughtUp ==
  sound => \A a \in Agents : source[a].changed < meta =>
    /\ source[a].state = "active" =>
         a \in DOMAIN docs /\ docs[a].changed = source[a].changed
    /\ source[a].state = "gone" => a \notin DOMAIN docs

\* A full run from the start makes the copy right whatever happened before:
\* when it records its timestamp, what SentinelOne held at its start and has
\* not changed since is what is stored.
FullRunHeals ==
  [][RecordTimestamp /\ mode = "full" /\ ~resumed =>
       \A a \in Agents : source[a].changed < started =>
         /\ a \in DOMAIN docs <=> source[a].state = "active"
         /\ a \in DOMAIN docs => docs[a].changed = source[a].changed]_vars

\* A run that was not resumed never removes an agent that was active when it
\* started and still is.
ActiveAgentStays ==
  [][~resumed => \A a \in DOMAIN docs \ DOMAIN docs' :
       source[a].state = "active" => source[a].changed >= started]_vars

\* Every run ends.
RunEnds == (pc # "idle") ~> (pc = "idle")

\* phase_runner.py: an interrupted sync "continues from 5M"; the agents
\* fetched before the interruption are still there when it has completed.
ResumedRunKeepsAgents ==
  [][resumed => \A a \in DOMAIN docs \ DOMAIN docs' : source[a].state # "active"]_vars

\* Stale-record deletion does not touch the other source's documents.
OtherSourceStays == [][others \subseteq others']_vars
=============================================================================
