-------------------------------- MODULE Jobs ---------------------------------
(***************************************************************************)
(* The components that work in the background and share no state here, side *)
(* by side: a behaviour is one of the component its `part` names, and the  *)
(* others stay as they are.                                                *)
(***************************************************************************)
EXTENDS Integers, FiniteSets

CONSTANTS
  Managed, Foreign, Appliers, BatchSize, MaxTagFaults, NoFetch,
  Deliveries, MaxFailures, MaxDispatches,
  Checks, One, Fleet, System, CheckRuns, MaxCheckRuns, MaxViolationChanges, MaxUpsets,
  Apps, Matchable, Processes, Slots, MaxEvents, NoTask,
  Hosts, Programs, FlushAt, MaxRuns, MaxChanges, MaxFaults,
  BackupTasks, Ids, Retention, MaxMishaps, MaxRestores, NoLock, Forgotten,
  Requests, KeyIds, MaxLosses,
  Keys, Windows, LimiterTtl, Limits, MaxMoment, Unasked,
  Workers, Pipelines, Agents, AgentBatch, MaxIncidents, Nobody, Gone,
  Groups, Subscribes, GroupOf, AutoUpdates, Unsubscribes, Syncers, Scopes, MaxUpserts, MaxDeaths

VARIABLES
  part,
  status, apply, tags, known, tagged, local, tagsPage, page, faults,
  hook, delivery, admin, dispatched, streak,
  domain, violating, enabled, latest, run, now, count, word, steady, wronged,
  active, main, tmp, matched, holder, task, events, published,
  falcon, copy, job, meta, saved, clock, left, sound, fullAt,
  history, files, content, lock, work, made, mishaps, restores,
  key, change, keys, held, losses, spoilt, revoked,
  moment, limit, limiter, asked, accepted,
  stage, home, progress, record, running, handle, pipeline, ids, verdicts, next, up, lasting, incidents,
  callers, item, deleted, subs, subscribers, markers, changes, call, seen, pending, copied, deaths,
  disputed

Tags == INSTANCE TagRules WITH MaxFaults <- MaxTagFaults

Hooks == INSTANCE Webhooks WITH task <- delivery

Alerts == INSTANCE ViolationAlerts WITH
  Hosts <- Fleet, Runs <- CheckRuns, MaxRuns <- MaxCheckRuns, MaxChanges <- MaxViolationChanges

Summaries == INSTANCE AppSummaries

Falcon == INSTANCE CrowdStrikeSync

Dumps == INSTANCE Backups WITH
  Jobs <- BackupTasks, MaxFaults <- MaxMishaps, job <- work, faults <- mishaps

KeyRing == INSTANCE ApiKeys WITH Changes <- Requests

Limiting == INSTANCE RateLimit

Classifier == INSTANCE Classification WITH
  Runs <- Pipelines, BatchSize <- AgentBatch, MaxEvents <- MaxIncidents,
  pc <- stage, work <- progress, lock <- pipeline, results <- verdicts, steady <- lasting,
  events <- incidents

Library == INSTANCE LibrarySubscriptions WITH
  MaxChanges <- MaxUpserts, scope <- callers, count <- subscribers, pc <- call, todo <- pending,
  now <- copied, spoilt <- disputed, entry <- item

ASSUME JobsAssumption ==
  /\ Tags!TagAssumption /\ Hooks!WebhookAssumption
  /\ Alerts!AlertAssumption /\ Summaries!SummaryAssumption /\ Falcon!CrowdStrikeAssumption
  /\ Dumps!BackupAssumption /\ KeyRing!ApiKeyAssumption /\ Limiting!LimitAssumption
  /\ Classifier!ClassificationAssumption /\ Library!SubscriptionAssumption

Parts == {"tags", "webhooks", "alerts", "summaries", "crowdstrike", "backups", "keys", "limits",
          "classification", "library"}

tagVars == <<status, apply, tags, known, tagged, local, tagsPage, page, faults>>
hookVars == <<hook, delivery, admin, dispatched, streak>>
alertVars == <<domain, violating, enabled, latest, run, now, count, word, steady, wronged>>
summaryVars == <<active, main, tmp, matched, holder, task, events, published>>
csVars == <<falcon, copy, job, meta, saved, clock, left, sound, fullAt>>
dumpVars == <<history, files, content, lock, work, made, mishaps, restores>>
keyVars == <<key, change, keys, held, losses, spoilt, revoked>>
limitVars == <<moment, limit, limiter, asked, accepted>>
classVars == <<stage, home, progress, record, running, handle, pipeline, ids, verdicts, next, up,
               lasting, incidents>>
libraryVars == <<callers, item, deleted, subs, subscribers, markers, changes, call, seen, pending,
                 copied, deaths, disputed>>

allVars == <<tagVars, hookVars, alertVars, summaryVars, csVars, dumpVars, keyVars, limitVars,
             classVars, libraryVars>>

JobsInit ==
  /\ part \in Parts
  /\ Tags!TagInit /\ Hooks!WebhookInit /\ Alerts!AlertInit /\ Summaries!SummaryInit
  /\ Falcon!CrowdStrikeInit /\ Dumps!BackupInit /\ KeyRing!ApiKeyInit /\ Limiting!LimitInit
  /\ Classifier!Init /\ Library!Init

JobsNext ==
  /\ UNCHANGED part
  /\ \/ /\ part = "tags" /\ Tags!TagNext
        /\ UNCHANGED <<hookVars, alertVars, summaryVars, csVars, dumpVars,
                       keyVars, limitVars, classVars, libraryVars>>
     \/ /\ part = "webhooks" /\ Hooks!WebhookNext
        /\ UNCHANGED <<tagVars, alertVars, summaryVars, csVars, dumpVars,
                       keyVars, limitVars, classVars, libraryVars>>
     \/ /\ part = "alerts" /\ Alerts!AlertNext
        /\ UNCHANGED <<tagVars, hookVars, summaryVars, csVars, dumpVars,
                       keyVars, limitVars, classVars, libraryVars>>
     \/ /\ part = "summaries" /\ Summaries!SummaryNext
        /\ UNCHANGED <<tagVars, hookVars, alertVars, csVars, dumpVars,
                       keyVars, limitVars, classVars, libraryVars>>
     \/ /\ part = "crowdstrike" /\ Falcon!CrowdStrikeNext
        /\ UNCHANGED <<tagVars, hookVars, alertVars, summaryVars, dumpVars,
                       keyVars, limitVars, classVars, libraryVars>>
     \/ /\ part = "backups" /\ Dumps!BackupNext
        /\ UNCHANGED <<tagVars, hookVars, alertVars, summaryVars, csVars,
                       keyVars, limitVars, classVars, libraryVars>>
     \/ /\ part = "keys" /\ KeyRing!ApiKeyNext
        /\ UNCHANGED <<tagVars, hookVars, alertVars, summaryVars, csVars,
                       dumpVars, limitVars, classVars, libraryVars>>
     \/ /\ part = "limits" /\ Limiting!LimitNext
        /\ UNCHANGED <<tagVars, hookVars, alertVars, summaryVars, csVars,
                       dumpVars, keyVars, classVars, libraryVars>>
     \/ /\ part = "classification" /\ Classifier!Next
        /\ UNCHANGED <<tagVars, hookVars, alertVars, summaryVars, csVars,
                       dumpVars, keyVars, limitVars, libraryVars>>
     \/ /\ part = "library" /\ Library!Next
        /\ UNCHANGED <<tagVars, hookVars, alertVars, summaryVars, csVars,
                       dumpVars, keyVars, limitVars, classVars>>

JobsSpec == JobsInit /\ [][JobsNext]_<<part, allVars>>

-----------------------------------------------------------------------------
\* TagRules: a local document shows no tag that the agent has not got upstream.
LocalTagsBacked == Tags!LocalTagsBacked

\* Webhooks: an endpoint that fails _MAX_FAILURES times in a row is disabled.
DeadEndpointIsDisabled == Hooks!DeadEndpointIsDisabled

\* ViolationAlerts: the last word about a violation agrees with the results.
LastWordIsRight == Alerts!LastWordIsRight

\* AppSummaries: readers see the summaries of one whole rebuild.
SummariesWhole == Summaries!SummariesWhole

\* CrowdStrikeSync: what changed before the last run began is in the copy.
CrowdStrikeCurrent == Falcon!CrowdStrikeCurrent

\* Backups: every directory of a backup has a record.
DumpsAreListed == Dumps!DumpsAreListed

\* ApiKeys: through rotations the client is served, and revocations last.
KeysServeUntilRevoked == KeyRing!KeysServeUntilRevoked

\* RateLimit: no window sees more requests than the limits say.
WithinLimits == Limiting!WithinLimits

\* Classification: a completed run has covered every agent, or counted an error.
RunCovers == Classifier!RunCovers

\* LibrarySubscriptions: the subscriber count is the number of subscriptions.
CountIsExact == Library!CountIsExact

\* LibrarySubscriptions: who has the version of an entry has its markers.
SyncedIsCurrent == Library!SyncedIsCurrent

\* The type invariants of all parts.
TypesOK ==
  /\ Tags!TagTypeOK /\ Hooks!WebhookTypeOK
  /\ Alerts!AlertTypeOK /\ Summaries!SummaryTypeOK /\ Falcon!CrowdStrikeTypeOK
  /\ Dumps!BackupTypeOK /\ KeyRing!ApiKeyTypeOK /\ Limiting!LimitTypeOK
  /\ Classifier!TypeOK /\ Library!TypeOK
=============================================================================
