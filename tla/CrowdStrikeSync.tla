--------------------------- MODULE CrowdStrikeSync ---------------------------
(***************************************************************************)
(* sources/crowdstrike/sync_agents.py and sync_apps.py under the lifecycle *)
(* of phase_runner.py: the two phases that copy the hosts and the          *)
(* applications of CrowdStrike, side by side.  Each run takes what was     *)
(* changed after `since`, writes its buffer document by document, cleans   *)
(* up if it is full, and records its start as the phase's timestamp.       *)
(*                                                                         *)
(* A scroll's cursor does not outlive a run.  A hosts run that finds a     *)
(* checkpoint goes on from the time of its last batch; an applications run *)
(* starts over.  Times are distinct; the phase's lock keeps its runs apart.*)
(***************************************************************************)
EXTENDS Integers, FiniteSets

CONSTANTS
  Hosts, Programs,  \* what CrowdStrike has, or may come to have
  FlushAt,          \* 500: documents in the buffer that make it be written
  MaxRuns,          \* runs of the two phases in a behaviour
  MaxChanges,       \* changes in CrowdStrike
  MaxFaults         \* interruptions, failing calls, the licence missing

CrowdStrikeAssumption ==
  /\ Hosts \cap Programs = {} /\ IsFiniteSet(Hosts \cup Programs)
  /\ FlushAt \in Nat \ {0} /\ {MaxRuns, MaxChanges, MaxFaults} \subseteq Nat

VARIABLES
  falcon,      \* CrowdStrike: the state and the last change of each item
  copy,        \* the documents of agents and installed_apps
  job,         \* the run of each phase
  meta,        \* agents_synced_at and apps_synced_at, 0 when absent
  saved,       \* the checkpoint of each phase
  clock, left, \* time, and what is left of the bounds
  sound,       \* history: the phase's copy is owed to sound runs
  fullAt       \* history: the start of the last full run that ended

csVars == <<falcon, copy, job, meta, saved, clock, left, sound, fullAt>>

Phases == {"hosts", "apps"}
Items(p) == IF p = "hosts" THEN Hosts ELSE Programs
AllItems == Hosts \cup Programs
Absent == [there |-> FALSE, changed |-> 0, synced |-> 0, active |-> FALSE]
Unsaved == [mode |-> "none", at |-> 0]
NoJob == [pc |-> "idle", mode |-> "none", resumed |-> FALSE, spoiled |-> FALSE,
          started |-> 0, todo |-> {}, buffer |-> {}, flushed |-> 0]
Times == 0 .. 1 + 2 * MaxRuns * (1 + Cardinality(AllItems)) + MaxChanges

CrowdStrikeTypeOK ==
  /\ falcon \in [AllItems -> [state : {"absent", "active", "gone"}, changed : Times]]
  /\ copy \in [AllItems -> [there : BOOLEAN, changed : Times, synced : Times, active : BOOLEAN]]
  /\ job \in [Phases -> [pc : {"idle", "take", "flush", "save", "rest", "clean", "drop",
                               "record", "clear"},
                         mode : {"none", "full", "incremental"}, resumed : BOOLEAN,
                         spoiled : BOOLEAN, started : Times, flushed : Times,
                         todo : SUBSET AllItems, buffer : SUBSET (AllItems \X Times)]]
  /\ meta \in [Phases -> Times] /\ fullAt \in [Phases -> Times]
  /\ saved \in [Phases -> [mode : {"none", "full", "incremental"}, at : Times]]
  /\ clock \in Times /\ sound \in [Phases -> BOOLEAN]
  /\ left \in [runs : 0 .. MaxRuns, changes : 0 .. MaxChanges, faults : 0 .. MaxFaults]

\* Nothing is copied yet, or a full run of each phase has copied everything.
CrowdStrikeInit ==
  \E t \in {0, 1} :
    /\ falcon = [i \in AllItems |-> [state |-> "active", changed |-> 0]]
    /\ copy = [i \in AllItems |-> IF t = 0 THEN Absent ELSE
                [there |-> TRUE, changed |-> 0, synced |-> t, active |-> TRUE]]
    /\ job = [p \in Phases |-> NoJob]
    /\ meta = [p \in Phases |-> t] /\ saved = [p \in Phases |-> Unsaved]
    /\ clock = t /\ fullAt = [p \in Phases |-> t]
    /\ left = [runs |-> MaxRuns, changes |-> MaxChanges, faults |-> MaxFaults]
    /\ sound = [p \in Phases |-> TRUE]

Spend(what) == left[what] > 0 /\ left' = [left EXCEPT ![what] = @ - 1]
Tick == clock' = clock + 1
At(p, pc) == job[p].pc = pc
Goto(p, pc) == job' = [job EXCEPT ![p].pc = pc]

-----------------------------------------------------------------------------
Upstream(i, state) ==
  /\ Spend("changes") /\ Tick
  /\ falcon' = [falcon EXCEPT ![i] = [state |-> state, changed |-> clock']]
  /\ UNCHANGED <<copy, job, meta, saved, sound, fullAt>>

Modify(i) == falcon[i].state \in {"absent", "active"} /\ Upstream(i, "active")
Retire(i) == falcon[i].state = "active" /\ Upstream(i, "gone")

\* Mutant: an applications run goes on from its checkpoint like a hosts run.
SinceFlush(p, mode) ==
  IF saved[p] # Unsaved THEN saved[p].at
  ELSE IF mode = "incremental" THEN meta[p] ELSE 0

\* The timestamp in the filter of the scroll; 0 is no filter.
Since(p, mode) ==
  IF p = "hosts" /\ saved[p] # Unsaved THEN saved[p].at
  ELSE IF mode = "incremental" THEN meta[p] ELSE 0

Changed(p, since) ==
  {i \in Items(p) : falcon[i].state = "active" /\ (since = 0 \/ falcon[i].changed > since)}

\* trigger() resumes, in the checkpoint's mode, if there is a checkpoint;
\* "auto" is full until the phase has completed once.
BeginRun(p, m) ==
  LET resumed == saved[p] # Unsaved
      mode == IF resumed THEN saved[p].mode
              ELSE IF m # "auto" THEN m
              ELSE IF meta[p] = 0 THEN "full" ELSE "incremental"
  IN  /\ At(p, "idle") /\ Spend("runs") /\ Tick
      /\ job' = [job EXCEPT ![p] = [NoJob EXCEPT
           !.pc = "take", !.mode = mode, !.resumed = resumed, !.started = clock',
           !.todo = Changed(p, Since(p, mode))]]
      /\ sound' = [sound EXCEPT !["hosts"] = @ /\ ~(p = "hosts" /\ resumed)]
      /\ UNCHANGED <<falcon, copy, meta, saved, fullAt>>

\* The details of an item that is gone by now do not come.
Take(p, i) ==
  /\ At(p, "take") /\ i \in job[p].todo
  /\ LET buffer == IF falcon[i].state = "active"
                   THEN job[p].buffer \cup {<<i, falcon[i].changed>>} ELSE job[p].buffer
     IN  job' = [job EXCEPT ![p].todo = @ \ {i}, ![p].buffer = buffer,
           ![p].pc = IF Cardinality(buffer) >= FlushAt THEN "flush" ELSE "take"]
  /\ UNCHANGED <<falcon, copy, meta, saved, clock, left, sound, fullAt>>

LastPage(p) ==
  /\ At(p, "take") /\ job[p].todo = {}
  /\ Goto(p, "rest")
  /\ UNCHANGED <<falcon, copy, meta, saved, clock, left, sound, fullAt>>

\* bulk_write(ordered=False), in the middle of the scroll or at its end.
WriteOne(p) ==
  /\ job[p].pc \in {"flush", "rest"}
  /\ \E d \in job[p].buffer :
       /\ copy' = [copy EXCEPT ![d[1]] = [there |-> TRUE, changed |-> d[2],
                                          synced |-> job[p].started, active |-> TRUE]]
       /\ job' = [job EXCEPT ![p].buffer = @ \ {d}]
  /\ UNCHANGED <<falcon, meta, saved, clock, left, sound, fullAt>>

\* The time of the batch is taken after it was written, and saved.
Flushed(p) ==
  /\ At(p, "flush") /\ job[p].buffer = {}
  /\ Tick
  /\ job' = [job EXCEPT ![p] = [@ EXCEPT !.pc = "save", !.flushed = clock']]
  /\ UNCHANGED <<falcon, copy, meta, saved, left, sound, fullAt>>

SaveCheckpoint(p) ==
  /\ At(p, "save")
  /\ saved' = [saved EXCEPT ![p] = [mode |-> job[p].mode, at |-> job[p].flushed]]
  /\ Goto(p, "take")
  /\ UNCHANGED <<falcon, copy, meta, clock, left, sound, fullAt>>

Fetched(p) ==
  /\ At(p, "rest") /\ job[p].buffer = {}
  /\ Goto(p, IF job[p].mode = "full" THEN "clean" ELSE "record")
  /\ UNCHANGED <<falcon, copy, meta, saved, clock, left, sound, fullAt>>

\* A rate limit or an API error: the applications are scrolled again.
Retry ==
  /\ At("apps", "take") /\ Spend("faults")
  /\ LET mode == job["apps"].mode IN
     job' = [job EXCEPT !["apps"] = [@ EXCEPT !.buffer = {},
       !.todo = Changed("apps", IF mode = "incremental" THEN meta["apps"] ELSE 0)]]
  /\ UNCHANGED <<falcon, copy, meta, saved, clock, sound, fullAt>>

\* Falcon Discover is not licensed: the run is over, without a timestamp.
Unlicensed ==
  /\ At("apps", "take") /\ Spend("faults")
  /\ Goto("apps", "clear")
  /\ UNCHANGED <<falcon, copy, meta, saved, clock, sound, fullAt>>

-----------------------------------------------------------------------------
\* A full hosts run deletes the hosts it has not written, and if there were
\* any, the applications that do not have its own timestamp: all of them.
DeleteHost(h) ==
  /\ At("hosts", "clean") /\ copy[h].there /\ copy[h].synced # job["hosts"].started
  /\ copy' = [copy EXCEPT ![h] = Absent]
  /\ job' = [job EXCEPT !["hosts"].spoiled = TRUE]
  /\ UNCHANGED <<falcon, meta, saved, clock, left, sound, fullAt>>

HostsCleaned ==
  /\ At("hosts", "clean")
  /\ \A h \in Hosts : copy[h].there => copy[h].synced = job["hosts"].started
  /\ job' = [job EXCEPT !["hosts"] =
       IF job["hosts"].spoiled
       THEN [@ EXCEPT !.pc = "drop", !.todo = {a \in Programs : copy[a].there}]
       ELSE [@ EXCEPT !.pc = "record"]]
  /\ UNCHANGED <<falcon, copy, meta, saved, clock, left, sound, fullAt>>

DropProgram(a) ==
  /\ At("hosts", "drop") /\ a \in job["hosts"].todo
  /\ copy' = [copy EXCEPT ![a] = Absent]
  /\ job' = [job EXCEPT !["hosts"].todo = @ \ {a}, !["apps"].spoiled = ~At("apps", "idle")]
  /\ sound' = [sound EXCEPT !["apps"] = FALSE]
  /\ UNCHANGED <<falcon, meta, saved, clock, left, fullAt>>

ProgramsDropped ==
  /\ At("hosts", "drop") /\ job["hosts"].todo = {}
  /\ Goto("hosts", "record")
  /\ UNCHANGED <<falcon, copy, meta, saved, clock, left, sound, fullAt>>

\* A full applications run deactivates what it has not written.
Deactivate(a) ==
  /\ At("apps", "clean") /\ copy[a].active /\ copy[a].synced < job["apps"].started
  /\ copy' = [copy EXCEPT ![a].active = FALSE]
  /\ UNCHANGED <<falcon, job, meta, saved, clock, left, sound, fullAt>>

ProgramsCleaned ==
  /\ At("apps", "clean")
  /\ \A a \in Programs : copy[a].active => copy[a].synced >= job["apps"].started
  /\ Goto("apps", "record")
  /\ UNCHANGED <<falcon, copy, meta, saved, clock, left, sound, fullAt>>

\* A sound full run makes up for whatever was wrong before.
Heals(p) == job[p].mode = "full" /\ ~(IF p = "hosts" THEN job[p].resumed ELSE job[p].spoiled)

Record(p) ==
  /\ At(p, "record")
  /\ meta' = [meta EXCEPT ![p] = job[p].started]
  /\ fullAt' = IF job[p].mode = "full" THEN [fullAt EXCEPT ![p] = job[p].started] ELSE fullAt
  /\ sound' = [sound EXCEPT ![p] = @ \/ Heals(p)]
  /\ Goto(p, "clear")
  /\ UNCHANGED <<falcon, copy, saved, clock, left>>

ClearCheckpoint(p) ==
  /\ At(p, "clear")
  /\ saved' = [saved EXCEPT ![p] = Unsaved]
  /\ job' = [job EXCEPT ![p] = NoJob]
  /\ UNCHANGED <<falcon, copy, meta, clock, left, sound, fullAt>>

\* The run is cancelled, fails, or its process dies.
Interrupt(p) ==
  /\ ~At(p, "idle") /\ Spend("faults")
  /\ job' = [job EXCEPT ![p] = NoJob]
  /\ UNCHANGED <<falcon, copy, meta, saved, clock, sound, fullAt>>

CrowdStrikeNext ==
  \/ \E i \in AllItems : Modify(i) \/ Retire(i)
  \/ \E p \in Phases :
       \/ \E m \in {"auto", "full", "incremental"} : BeginRun(p, m)
       \/ \E i \in Items(p) : Take(p, i)
       \/ WriteOne(p) \/ LastPage(p) \/ Flushed(p) \/ SaveCheckpoint(p) \/ Fetched(p)
       \/ Record(p) \/ ClearCheckpoint(p) \/ Interrupt(p)
  \/ Retry \/ Unlicensed
  \/ HostsCleaned \/ ProgramsDropped \/ ProgramsCleaned
  \/ \E h \in Hosts : DeleteHost(h)
  \/ \E a \in Programs : Deactivate(a) \/ DropProgram(a)

CrowdStrikeSpec == CrowdStrikeInit /\ [][CrowdStrikeNext]_csVars

-----------------------------------------------------------------------------
Current(p) ==
  \A i \in Items(p) :
    /\ falcon[i].state = "active" /\ falcon[i].changed < meta[p] =>
         copy[i].there /\ copy[i].active /\ copy[i].changed = falcon[i].changed
    /\ falcon[i].state = "gone" /\ falcon[i].changed < fullAt[p] => ~copy[i].active

\* What CrowdStrike changed before the start of the last run of a phase that
\* ended is in the copy, and what it no longer had at the start of the last
\* full one is not, whatever runs were interrupted, retried or left without a
\* licence -- for the hosts until a run is resumed, for the applications,
\* whose runs may be resumed, until a full hosts run has dropped them; a
\* sound full run makes up for both.
CrowdStrikeCurrent == \A p \in Phases : sound[p] => Current(p)

\* sync_agents.py: "Resume after interruption: fetch hosts modified since last
\* successful batch", which would make a resumed run as good as another.
ResumedHostsCurrent == Current("hosts")
=============================================================================
