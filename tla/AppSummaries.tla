---------------------------- MODULE AppSummaries -----------------------------
(***************************************************************************)
(* domains/agents/app_cache.py and what is written on its summaries by the *)
(* end-of-life matching: `app_summaries` is rebuilt from the active        *)
(* applications into a temporary collection that is renamed over it, by    *)
(* one task at a time in a process; the chain after a sync waits for the   *)
(* rebuild and then matches the summaries one by one, and an administrator *)
(* confirms or dismisses matches.                                          *)
(***************************************************************************)
EXTENDS Integers, FiniteSets

CONSTANTS
  Apps,        \* normalized names
  Matchable,   \* those the matching finds a product for
  Processes,
  Slots,       \* what tells the tasks of a process apart
  MaxEvents,   \* rebuilds asked for, changes of applications and failures
  NoTask

\* The tasks that rebuild or match.
Tasks == Processes \X Slots
Home(t) == t[1]

SummaryAssumption ==
  /\ Matchable \subseteq Apps /\ IsFiniteSet(Processes \cup Slots)
  /\ MaxEvents \in Nat /\ NoTask \notin Tasks

VARIABLES
  active,     \* applications that are installed somewhere and active
  main,       \* the collection app_summaries: how many documents of each name
  tmp,        \* app_summaries_tmp, and whether it has its unique index
  matched,    \* eol_match.match_source on the summary of each name
  holder,     \* _rebuild_lock of each process
  task,       \* what each task does next
  events,
  published   \* history: what the rebuild that renamed last had read

summaryVars == <<active, main, tmp, matched, holder, task, events, published>>

None == [a \in Apps |-> 0]
NoTmp == [there |-> FALSE, unique |-> FALSE, docs |-> None]
AtRest == [pc |-> "rest", rows |-> {}, todo |-> {}, match |-> FALSE]
Docs == [Apps -> 0 .. Cardinality(Tasks)]

SummaryTypeOK ==
  /\ active \subseteq Apps /\ published \subseteq Apps
  /\ main \in Docs
  /\ tmp \in [there : BOOLEAN, unique : BOOLEAN, docs : Docs]
  /\ matched \in [Apps -> {"none", "auto", "manual"}]
  /\ holder \in [Processes -> Tasks \cup {NoTask}]
  /\ task \in [Tasks -> [pc : {"rest", "wait", "drop", "insert", "index", "rename",
                               "queue", "match"},
                         rows : SUBSET Apps, todo : SUBSET Apps, match : BOOLEAN]]
  /\ events \in 0 .. MaxEvents

SummaryInit ==
  /\ active \in SUBSET Apps /\ published = {}
  /\ main = None /\ tmp = NoTmp
  /\ matched = [a \in Apps |-> "none"]
  /\ holder = [p \in Processes |-> NoTask]
  /\ task = [t \in Tasks |-> AtRest] /\ events = 0

Event == events < MaxEvents /\ events' = events + 1
To(t, step) == task' = [task EXCEPT ![t].pc = step]

\* A rebuild is over, well or not: its lock is released, and the chain of a
\* sync goes on to the matching.
AfterRebuild(t) == [AtRest EXCEPT !.pc = IF task[t].match THEN "queue" ELSE "rest"]
Release(t) ==
  /\ holder' = [holder EXCEPT ![Home(t)] = NoTask]
  /\ task' = [task EXCEPT ![t] = AfterRebuild(t)]

-----------------------------------------------------------------------------
Install(a) ==
  /\ Event
  /\ active' = IF a \in active THEN active \ {a} ELSE active \cup {a}
  /\ UNCHANGED <<main, tmp, matched, holder, task, published>>

\* The endpoint and the start of a worker rebuild; a sync of the applications
\* rebuilds and then matches; another sync, or one of the products, matches.
Ask(t) ==
  /\ task[t].pc = "rest" /\ Event
  /\ \E pc \in {"wait", "queue"}, match \in BOOLEAN :
       task' = [task EXCEPT ![t] = [AtRest EXCEPT !.pc = pc, !.match = match]]
  /\ UNCHANGED <<active, main, tmp, matched, holder, published>>

ReadRows(t) ==
  /\ task[t].pc = "wait" /\ holder[Home(t)] = NoTask
  /\ IF active = {}
     THEN task' = [task EXCEPT ![t] = AfterRebuild(t)] /\ UNCHANGED holder
     ELSE /\ holder' = [holder EXCEPT ![Home(t)] = t]
          /\ task' = [task EXCEPT ![t] = [@ EXCEPT !.pc = "drop", !.rows = active,
                                                   !.todo = active]]
  /\ UNCHANGED <<active, main, tmp, matched, events, published>>

\* Mutant: what a rebuild that failed has left is not dropped.
DropTmpNever(t) ==
  /\ task[t].pc = "drop"
  /\ tmp' = [tmp EXCEPT !.unique = FALSE]
  /\ To(t, "insert")
  /\ UNCHANGED <<active, main, matched, holder, events, published>>

DropTmp(t) ==
  /\ task[t].pc = "drop"
  /\ tmp' = NoTmp
  /\ To(t, "insert")
  /\ UNCHANGED <<active, main, matched, holder, events, published>>

\* insert_many, which creates the collection if there is none.
Insert(t, a) ==
  /\ task[t].pc = "insert" /\ a \in task[t].todo
  /\ IF tmp.unique /\ tmp.docs[a] > 0 THEN Release(t) /\ UNCHANGED tmp
     ELSE /\ tmp' = [tmp EXCEPT !.there = TRUE, !.docs[a] = @ + 1]
          /\ task' = [task EXCEPT ![t].todo = @ \ {a},
                                  ![t].pc = IF task[t].todo = {a} THEN "index" ELSE @]
          /\ UNCHANGED holder
  /\ UNCHANGED <<active, main, matched, events, published>>

\* create_index, which creates the collection too.
CreateIndex(t) ==
  /\ task[t].pc = "index"
  /\ IF \E a \in Apps : tmp.docs[a] > 1 THEN Release(t) /\ UNCHANGED tmp
     ELSE /\ tmp' = [tmp EXCEPT !.there = TRUE, !.unique = TRUE]
          /\ To(t, "rename") /\ UNCHANGED holder
  /\ UNCHANGED <<active, main, matched, events, published>>

\* Rename with dropTarget: the new summaries have no eol_match.
Rename(t) ==
  /\ task[t].pc = "rename"
  /\ IF tmp.there
     THEN /\ main' = tmp.docs /\ tmp' = NoTmp
          /\ matched' = [a \in Apps |-> "none"]
          /\ published' = task[t].rows
     ELSE UNCHANGED <<main, tmp, matched, published>>
  /\ Release(t)
  /\ UNCHANGED <<active, events>>

-----------------------------------------------------------------------------
\* _eol_and_apps_dashboard waits for the lock, then reads the summaries.
BeginMatch(t) ==
  /\ task[t].pc = "queue" /\ holder[Home(t)] = NoTask
  /\ task' = [task EXCEPT ![t] = [AtRest EXCEPT !.pc = "match",
                                                !.todo = {a \in Apps : main[a] > 0}]]
  /\ UNCHANGED <<active, main, tmp, matched, holder, events, published>>

Match(t, a) ==
  /\ task[t].pc = "match" /\ a \in task[t].todo
  /\ matched' = [matched EXCEPT ![a] =
       IF main[a] = 0 \/ a \notin Matchable THEN "none" ELSE "auto"]
  /\ task' = [task EXCEPT ![t].todo = @ \ {a}]
  /\ UNCHANGED <<active, main, tmp, holder, events, published>>

EndMatch(t) ==
  /\ task[t].pc = "match" /\ task[t].todo = {}
  /\ task' = [task EXCEPT ![t] = AtRest]
  /\ UNCHANGED <<active, main, tmp, matched, holder, events, published>>

Confirm(a) ==
  /\ matched[a] = "auto"
  /\ matched' = [matched EXCEPT ![a] = "manual"]
  /\ UNCHANGED <<active, main, tmp, holder, task, events, published>>

Dismiss(a) ==
  /\ matched[a] # "none" /\ Event
  /\ matched' = [matched EXCEPT ![a] = "none"]
  /\ UNCHANGED <<active, main, tmp, holder, task, published>>

-----------------------------------------------------------------------------
\* A database operation raises: the lock is released on the way out.
Raise(t) ==
  /\ task[t].pc # "rest" /\ Event
  /\ \/ holder[Home(t)] = t /\ Release(t)
     \/ /\ holder[Home(t)] # t
        /\ task' = [task EXCEPT ![t] = AtRest] /\ UNCHANGED holder
  /\ UNCHANGED <<active, main, tmp, matched, published>>

\* A process dies: its tasks are gone, and what it has written stays.
Crash(p) ==
  /\ Event
  /\ holder' = [holder EXCEPT ![p] = NoTask]
  /\ task' = [t \in Tasks |-> IF Home(t) = p THEN AtRest ELSE task[t]]
  /\ UNCHANGED <<active, main, tmp, matched, published>>

SummaryNext ==
  \/ \E a \in Apps : Install(a) \/ Confirm(a) \/ Dismiss(a)
  \/ \E p \in Processes : Crash(p)
  \/ \E t \in Tasks :
       \/ Ask(t) \/ ReadRows(t) \/ DropTmp(t) \/ CreateIndex(t) \/ Rename(t)
       \/ BeginMatch(t) \/ EndMatch(t) \/ Raise(t)
       \/ \E a \in Apps : Insert(t, a) \/ Match(t, a)

SummarySpec == SummaryInit /\ [][SummaryNext]_summaryVars

-----------------------------------------------------------------------------
\* app_cache.py: "atomic swap -- write to temp, then rename".  Whatever fails
\* in the middle of a rebuild, a reader sees all the applications one rebuild
\* has read, each once, and nothing a rebuild before it has left.  (It holds
\* for the tasks of one process; two processes share the temporary collection.)
SummariesWhole == \A a \in Apps : main[a] = IF a \in published THEN 1 ELSE 0

\* docs/EOL.md: "Confirmed matches are promoted to `manual` source"; only a
\* dismissal takes that back.  (A rebuild or a matching does, too.)
ConfirmedStays ==
  [][\A a \in Apps : matched[a] = "manual" /\ matched'[a] # "manual" => Dismiss(a)]_summaryVars
=============================================================================
