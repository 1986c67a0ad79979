----------------------------- MODULE Jobs_proofs -----------------------------
(***************************************************************************)
(* What the components of Jobs promise for any number of agents, tasks and *)
(* requests and any bounds.  Each invariant is of one component, whose     *)
(* variables only change in the steps of its part.                         *)
(***************************************************************************)
EXTENDS Jobs, FiniteSetTheorems, FunctionTheorems, WellFoundedInduction, TLAPS

\* A step is one of the part it belongs to, and leaves the others alone.
LEMMA PartSteps ==
  ASSUME [JobsNext]_<<part, allVars>>
  PROVE  /\ [Tags!TagNext]_tagVars /\ [Hooks!WebhookNext]_hookVars
         /\ [Alerts!AlertNext]_alertVars /\ [Summaries!SummaryNext]_summaryVars
         /\ [Falcon!CrowdStrikeNext]_csVars /\ [Dumps!BackupNext]_dumpVars
         /\ [KeyRing!ApiKeyNext]_keyVars /\ [Limiting!LimitNext]_limitVars
         /\ [Classifier!Next]_classVars /\ [Library!Next]_libraryVars
  BY DEF JobsNext, allVars

-----------------------------------------------------------------------------
(* Tag rules *)

\* What an application has to do before it may write locally: every agent it
\* matched is tagged upstream or among those it has still to tag.
TagsInv ==
  /\ Tags!TagTypeOK
  /\ local \cap Managed \subseteq tagged
  /\ page # NoFetch => page \subseteq tagged
  /\ \A t \in Appliers :
       /\ apply[t].pc \in {"find", "create", "store", "tag"} =>
            apply[t].match \cap Managed \subseteq tagged \cup apply[t].todo
       /\ apply[t].pc = "local" => apply[t].match \cap Managed \subseteq tagged

LEMMA TagTypeStep == Tags!TagTypeOK /\ [Tags!TagNext]_tagVars => Tags!TagTypeOK'
<1> SUFFICES ASSUME Tags!TagTypeOK, [Tags!TagNext]_tagVars PROVE Tags!TagTypeOK'
  OBVIOUS
<1> USE JobsAssumption DEF Tags!TagTypeOK, Tags!TagAssumption
<1>f. Tags!TagFault => faults' \in 0 .. MaxTagFaults
  BY DEF Tags!TagFault
<1>0. CASE UNCHANGED tagVars
  BY <1>0 DEF tagVars
<1>1. CASE Tags!FetchAgents \/ Tags!WriteAgents \/ Tags!Recreate
  BY <1>1, <1>f DEF Tags!FetchAgents, Tags!WriteAgents, Tags!Recreate, Tags!TagAgents
<1>6. CASE Tags!FetchTags
  <2>1. tagsPage' \in BOOLEAN
    BY <1>6 DEF Tags!FetchTags
  <2> QED BY <1>6, <2>1 DEF Tags!FetchTags
<1>7. CASE Tags!WriteTags
  <2>1. known' \in BOOLEAN
    BY <1>7 DEF Tags!WriteTags
  <2> QED BY <1>7, <2>1 DEF Tags!WriteTags
<1>2. CASE Tags!StartWorker
  BY <1>2, <1>f DEF Tags!StartWorker, Tags!Resting
<1>3. ASSUME NEW t \in Appliers, Tags!Apply(t) \/ Tags!FindMatching(t) PROVE Tags!TagTypeOK'
  <2>1. CASE Tags!Apply(t)
    BY <2>1 DEF Tags!Apply, Tags!Turn
  <2>2. CASE Tags!FindMatching(t)
    BY <2>2, <1>f DEF Tags!FindMatching, Tags!Turn
  <2> QED BY <1>3, <2>1, <2>2
<1>8. ASSUME NEW t \in Appliers, Tags!FindTag(t) \/ Tags!CreateTag(t) \/ Tags!StoreTag(t)
      PROVE  Tags!TagTypeOK'
  <2>1. CASE Tags!FindTag(t)
    <3>1. PICK step \in {"tag", "create"} : Tags!Or(t, step)
      BY <2>1 DEF Tags!FindTag
    <3> QED BY <2>1, <3>1, <1>f DEF Tags!FindTag, Tags!Turn, Tags!Or
  <2>2. CASE Tags!CreateTag(t)
    BY <2>2, <1>f DEF Tags!CreateTag, Tags!Turn, Tags!Or
  <2>3. CASE Tags!StoreTag(t)
    <3>1. known' \in BOOLEAN /\ UNCHANGED <<status, tags, tagged, local, tagsPage, page>>
      BY <2>3 DEF Tags!StoreTag
    <3>2. PICK step \in {"tag", "fail"} : Tags!Turn(t, step) /\ (UNCHANGED faults \/ Tags!TagFault)
      BY <2>3 DEF Tags!StoreTag, Tags!Or
    <3> QED BY <3>1, <3>2, <1>f DEF Tags!Turn
  <2> QED BY <1>8, <2>1, <2>2, <2>3
<1>4. ASSUME NEW t \in Appliers, Tags!TagBatch(t) PROVE Tags!TagTypeOK'
  BY <1>4, <1>f DEF Tags!TagBatch, Tags!Turn, Tags!NextStep, Tags!TagAgents
<1>5. ASSUME NEW t \in Appliers, Tags!TagLocally(t) \/ Tags!Finish(t) PROVE Tags!TagTypeOK'
  BY <1>5, <1>f DEF Tags!TagLocally, Tags!Finish, Tags!Turn, Tags!Or, Tags!Resting
<1> QED BY <1>0, <1>1, <1>2, <1>3, <1>4, <1>5, <1>6, <1>7, <1>8 DEF Tags!TagNext

LEMMA TagsStep == TagsInv /\ [Tags!TagNext]_tagVars => TagsInv'
<1> SUFFICES ASSUME TagsInv, Tags!TagTypeOK, Tags!TagTypeOK', [Tags!TagNext]_tagVars PROVE TagsInv'
  BY TagTypeStep DEF TagsInv
<1> USE DEF TagsInv
<1>0. CASE UNCHANGED tagVars
  BY <1>0 DEF tagVars
<1>1. CASE \/ Tags!FetchTags \/ Tags!WriteTags \/ Tags!FetchAgents \/ Tags!WriteAgents
           \/ Tags!Recreate
  <2>1. Managed \cap Foreign = {}
    BY JobsAssumption DEF Tags!TagAssumption
  <2> QED
    BY <1>1, <2>1 DEF Tags!FetchTags, Tags!WriteTags, Tags!FetchAgents, Tags!WriteAgents,
       Tags!Recreate, Tags!TagTypeOK
<1>2. CASE Tags!StartWorker
  BY <1>2 DEF Tags!StartWorker, Tags!Resting, Tags!TagTypeOK
<1>3. ASSUME NEW t \in Appliers,
             \/ Tags!Apply(t) \/ Tags!FindMatching(t) \/ Tags!FindTag(t)
             \/ Tags!CreateTag(t) \/ Tags!StoreTag(t)
      PROVE  TagsInv'
  BY <1>3 DEF Tags!Apply, Tags!FindMatching, Tags!FindTag, Tags!CreateTag, Tags!StoreTag,
     Tags!Turn, Tags!Or, Tags!TagTypeOK
\* The agents of a batch are tagged before they leave the list.
<1>4. ASSUME NEW t \in Appliers, Tags!TagBatch(t) PROVE TagsInv'
  <2>1. tagged \subseteq tagged' /\ UNCHANGED <<local, page>>
    BY <1>4 DEF Tags!TagBatch
  <2>2. PICK b \in Tags!Batches(apply[t].todo) :
          \/ /\ tagged' = tagged \cup (b \cap Managed)
             /\ apply' = [apply EXCEPT ![t].todo = @ \ b,
                                       ![t].pc = Tags!NextStep(apply[t].todo \ b)]
          \/ Tags!Turn(t, "fail")
    BY <1>4 DEF Tags!TagBatch
  <2>3. \A s \in Appliers \ {t} : apply'[s] = apply[s]
    BY <2>2 DEF Tags!Turn, Tags!TagTypeOK
  <2>4. CASE Tags!Turn(t, "fail")
    BY <2>1, <2>3, <2>4 DEF Tags!Turn, Tags!TagTypeOK
  <2>5. CASE /\ tagged' = tagged \cup (b \cap Managed)
             /\ apply' = [apply EXCEPT ![t].todo = @ \ b,
                                       ![t].pc = Tags!NextStep(apply[t].todo \ b)]
    <3>1. /\ apply'[t].todo = apply[t].todo \ b /\ apply'[t].match = apply[t].match
          /\ apply'[t].pc = IF apply[t].todo \ b = {} THEN "local" ELSE "tag"
      BY <2>5 DEF Tags!NextStep, Tags!TagTypeOK
    <3>2. apply[t].match \cap Managed \subseteq tagged' \cup (apply[t].todo \ b)
      BY <1>4, <2>5 DEF Tags!TagBatch
    <3> QED BY <2>1, <2>3, <3>1, <3>2
  <2> QED BY <2>2, <2>4, <2>5
<1>5. ASSUME NEW t \in Appliers, Tags!TagLocally(t) \/ Tags!Finish(t) PROVE TagsInv'
  BY <1>5 DEF Tags!TagLocally, Tags!Finish, Tags!Turn, Tags!Or, Tags!Resting, Tags!TagTypeOK
<1> QED BY <1>0, <1>1, <1>2, <1>3, <1>4, <1>5 DEF Tags!TagNext

\* No local document of SentinelOne shows a tag that its agent has not got.
THEOREM LocalTagsBackedHolds == JobsSpec => []LocalTagsBacked
<1>1. JobsInit => TagsInv
  <2> SUFFICES ASSUME Tags!TagInit PROVE TagsInv
    BY DEF JobsInit
  <2>1. MaxTagFaults \in Nat
    BY JobsAssumption DEF Tags!TagAssumption
  <2>2. Tags!TagTypeOK
    <3>1. known \in BOOLEAN /\ tags \in Nat
      BY DEF Tags!TagInit
    <3>2. faults \in 0 .. MaxTagFaults
      BY <2>1 DEF Tags!TagInit
    <3> QED BY <3>1, <3>2 DEF Tags!TagInit, Tags!TagTypeOK, Tags!Resting
  <2> QED BY <2>2 DEF TagsInv, Tags!TagInit, Tags!Resting
<1>2. TagsInv => LocalTagsBacked
  BY DEF TagsInv, LocalTagsBacked, Tags!LocalTagsBacked
<1>3. TagsInv /\ [JobsNext]_<<part, allVars>> => TagsInv'
  BY PartSteps, TagsStep
<1> QED BY <1>1, <1>2, <1>3, PTL DEF JobsSpec

-----------------------------------------------------------------------------
(* Webhooks *)

\* Someone will disable the endpoint, or has yet to see how often it failed.
WillDisable(d) ==
  \/ delivery[d].pc = "read"
  \/ delivery[d].pc = "decide" /\ delivery[d].read >= MaxFailures

\* The counter may be ahead of the failures in a row, never behind.
HooksInv ==
  /\ hook \in [there : BOOLEAN, enabled : BOOLEAN, count : Nat]
  /\ delivery \in [Deliveries -> [pc : {"free", "post", "reset", "count", "read", "decide"},
                                  read : Nat]]
  /\ admin \in Nat \cup {-1} /\ streak \in Nat
  /\ hook.there => streak =< hook.count
  /\ hook.there /\ hook.enabled /\ streak >= MaxFailures => \E d \in Deliveries : WillDisable(d)

LEMMA HooksStep == HooksInv /\ [Hooks!WebhookNext]_hookVars => HooksInv'
<1> SUFFICES ASSUME HooksInv, [Hooks!WebhookNext]_hookVars PROVE HooksInv'
  OBVIOUS
<1> USE DEF HooksInv
<1>m. MaxFailures \in Nat /\ MaxFailures > 0
  BY JobsAssumption DEF Hooks!WebhookAssumption
<1>0. CASE UNCHANGED hookVars
  BY <1>0 DEF hookVars, WillDisable
<1>1. CASE Hooks!AskUpdate \/ Hooks!Delete
  BY <1>1 DEF Hooks!AskUpdate, Hooks!Delete, WillDisable
<1>2. CASE Hooks!Update
  <2>1. admin' = -1 /\ UNCHANGED delivery
    BY <1>2 DEF Hooks!Update, Hooks!NotAsking
  <2>2. hook' \in [there : BOOLEAN, enabled : BOOLEAN, count : Nat]
        /\ hook'.there = hook.there /\ streak' \in {0, streak}
    <3>1. CASE /\ Hooks!Write([hook EXCEPT !.enabled = TRUE,
                                          !.count = IF admin > 0 THEN 0 ELSE @])
               /\ streak' = 0
      <4> DEFINE n == IF admin > 0 THEN 0 ELSE hook.count
      <4>1. n \in Nat
        OBVIOUS
      <4>2. hook' = IF hook.there THEN [hook EXCEPT !.enabled = TRUE, !.count = n] ELSE hook
        BY <3>1 DEF Hooks!Write
      <4> HIDE DEF n
      <4> QED BY <3>1, <4>1, <4>2
    <3>2. CASE Hooks!Write([hook EXCEPT !.enabled = FALSE]) /\ UNCHANGED streak
      BY <3>2 DEF Hooks!Write
    <3> QED BY <1>2, <3>1, <3>2 DEF Hooks!Update
  <2>3. CASE streak' = 0
    BY <1>m, <2>1, <2>2, <2>3
  <2>4. CASE hook.there => ~hook'.enabled /\ hook'.count = hook.count /\ UNCHANGED streak
    BY <2>1, <2>2, <2>4
  <2>5. streak' = 0 \/ (hook.there => ~hook'.enabled /\ hook'.count = hook.count /\ UNCHANGED streak)
    BY <1>2 DEF Hooks!Update, Hooks!Write
  <2> QED BY <2>3, <2>4, <2>5
<1>3. ASSUME NEW d \in Deliveries, Hooks!Dispatch(d) \/ Hooks!Post(d) PROVE HooksInv'
  <2>1. PICK step \in {"post", "reset", "count"} : Hooks!To(d, step)
    BY <1>3 DEF Hooks!Dispatch, Hooks!Post
  <2>2. UNCHANGED <<hook, admin, streak>> /\ ~WillDisable(d)
    BY <1>3 DEF Hooks!Dispatch, Hooks!Post, WillDisable
  <2>3. \A c \in Deliveries \ {d} : delivery'[c] = delivery[c]
    BY <2>1 DEF Hooks!To
  <2>4. delivery' \in [Deliveries -> [pc : {"free", "post", "reset", "count", "read", "decide"},
                                     read : Nat]]
    BY <2>1 DEF Hooks!To
  <2> QED BY <2>2, <2>3, <2>4 DEF WillDisable
<1>4. ASSUME NEW d \in Deliveries, Hooks!Reset(d) PROVE HooksInv'
  <2>1. CASE streak' = 0
    BY <1>4, <2>1, <1>m DEF Hooks!Reset, Hooks!To, Hooks!Done, Hooks!Free, Hooks!Write
  <2>2. CASE Hooks!To(d, "count") /\ UNCHANGED <<hook, streak>>
    BY <1>4, <2>2 DEF Hooks!Reset, Hooks!To, WillDisable
  <2> QED BY <1>4, <2>1, <2>2 DEF Hooks!Reset
<1>5. ASSUME NEW d \in Deliveries, Hooks!CountFailure(d) PROVE HooksInv'
  <2>1. WillDisable(d)'
    BY <1>5 DEF Hooks!CountFailure, Hooks!To, WillDisable
  <2> QED BY <1>5, <2>1 DEF Hooks!CountFailure, Hooks!To, Hooks!Write
\* What is read is at least the number of failures in a row.
<1>6. ASSUME NEW d \in Deliveries, Hooks!ReadCount(d) PROVE HooksInv'
  <2>1. hook.there /\ streak >= MaxFailures => WillDisable(d)'
    BY <1>6, <1>m DEF Hooks!ReadCount, WillDisable
  <2> QED BY <1>6, <2>1 DEF Hooks!ReadCount
<1>7. ASSUME NEW d \in Deliveries, Hooks!Decide(d) PROVE HooksInv'
  <2>1. CASE delivery[d].read >= MaxFailures
    BY <1>7, <2>1 DEF Hooks!Decide, Hooks!TooMany, Hooks!Done, Hooks!Free, Hooks!Write
  <2>2. CASE ~(delivery[d].read >= MaxFailures)
    <3>1. ~WillDisable(d) /\ UNCHANGED <<hook, admin, streak>>
      BY <1>7, <2>2 DEF Hooks!Decide, Hooks!TooMany, WillDisable
    <3>2. \A c \in Deliveries \ {d} : delivery'[c] = delivery[c]
      BY <1>7 DEF Hooks!Decide, Hooks!Done
    <3> QED BY <1>7, <3>1, <3>2 DEF Hooks!Decide, Hooks!Done, Hooks!Free, WillDisable
  <2> QED BY <2>1, <2>2
<1>8. ASSUME NEW d \in Deliveries, Hooks!Abandon(d) PROVE HooksInv'
  <2>1. CASE streak' = 0
    BY <1>8, <2>1, <1>m DEF Hooks!Abandon, Hooks!Done, Hooks!Free
  <2>2. CASE UNCHANGED streak /\ delivery[d].pc \notin {"read", "decide"}
    BY <1>8, <2>2 DEF Hooks!Abandon, Hooks!Done, Hooks!Free, WillDisable
  <2> QED BY <1>8, <2>1, <2>2 DEF Hooks!Abandon
<1> QED BY <1>0, <1>1, <1>2, <1>3, <1>4, <1>5, <1>6, <1>7, <1>8 DEF Hooks!WebhookNext

\* An endpoint that has failed _MAX_FAILURES times in a row is disabled once
\* its deliveries have looked at the counter.
THEOREM DeadEndpointIsDisabledHolds == JobsSpec => []DeadEndpointIsDisabled
<1>1. JobsInit => HooksInv
  <2>1. MaxFailures \in Nat /\ MaxFailures > 0
    BY JobsAssumption DEF Hooks!WebhookAssumption
  <2> QED BY <2>1 DEF JobsInit, HooksInv, Hooks!WebhookInit, Hooks!Free, Hooks!NotAsking
<1>2. HooksInv => DeadEndpointIsDisabled
  BY DEF HooksInv, WillDisable, DeadEndpointIsDisabled, Hooks!DeadEndpointIsDisabled, Hooks!Settling
<1>3. HooksInv /\ [JobsNext]_<<part, allVars>> => HooksInv'
  BY PartSteps, HooksStep
<1> QED BY <1>1, <1>2, <1>3, PTL DEF JobsSpec

-----------------------------------------------------------------------------
(* Backups *)

LEMMA SmallestExists ==
  ASSUME NEW S \in SUBSET Nat, S # {}
  PROVE  \E m \in S : \A s \in S : m =< s
<1>1. PICK m \in S : \A s \in S : <<s, m>> \notin OpToRel(<, Nat)
  BY NatLessThanWellFounded, WFMin
<1>2. \A s \in S : ~(s < m)
  BY <1>1 DEF OpToRel
<1> QED BY <1>2

\* The definitions that Backups takes from FiniteSets are the ones used here.
LEMMA SameFiniteSets ==
  \A S : (Dumps!IsFiniteSet(S) <=> IsFiniteSet(S)) /\ Dumps!Cardinality(S) = Cardinality(S)
<1>1. \A S : Dumps!IsFiniteSet(S) <=> IsFiniteSet(S)
  BY DEF Dumps!IsFiniteSet, IsFiniteSet
<1>2. \A S : Dumps!Cardinality(S) = Cardinality(S)
  BY DEF Dumps!Cardinality, Cardinality
<1> QED BY <1>1, <1>2

LEMMA BackupIds == Ids \subseteq Nat \ {0} /\ IsFiniteSet(Ids) /\ Retention \in Nat
<1>1. IsFiniteSet(Ids) /\ Ids = 1 .. Cardinality(Ids) /\ Retention \in Nat
  BY JobsAssumption, SameFiniteSets DEF Dumps!BackupAssumption
<1>2. Cardinality(Ids) \in Nat
  BY <1>1, FS_CardinalityType
<1> QED BY <1>1, <1>2

LEMMA FirstIs ==
  ASSUME NEW S \in SUBSET Ids, S # {}
  PROVE  Dumps!First(S) \in S
<1>1. Ids \subseteq Nat
  BY BackupIds
<1>2. \E m \in S : \A s \in S : m =< s
  BY <1>1, SmallestExists
<1> QED BY <1>2 DEF Dumps!First

DumpSteps == {"rest", "make", "dump", "store", "count", "find", "prune", "unlist",
              "erase", "drop", "release"}

Works == [pc : DumpSteps, id : {0} \cup Ids, locked : BOOLEAN, excess : Nat, todo : SUBSET Ids]

Working(j) == work[j].pc \in {"make", "dump", "store"}

\* The record of a backup that is not being made.
Settled(i) == i =< made /\ history[i] # "running"

\* The backup a task makes has a record that nobody else writes; those it is
\* to remove are no longer being made, and their directories have gone
\* before their records go.
TaskInv(j) ==
  /\ Working(j) => work[j].id \in Ids /\ work[j].id =< made /\ history[work[j].id] = "running"
  /\ work[j].pc \in {"erase", "drop"} => work[j].id \in Ids /\ Settled(work[j].id)
  /\ work[j].pc \in {"prune", "unlist"} => \A i \in work[j].todo : Settled(i)
  /\ work[j].pc = "drop" => files[work[j].id] = "none"
  /\ work[j].pc = "unlist" => work[j].todo # {} /\ files[Dumps!First(work[j].todo)] = "none"

UnrestoredInv ==
  /\ made \in Nat
  /\ history \in [Ids -> Dumps!Status] /\ files \in [Ids -> {"none", "part", "whole"}]
  /\ work \in [BackupTasks -> Works]
  /\ \A i \in Ids : /\ files[i] # "none" => history[i] # "absent"
                    /\ i > made => history[i] = "absent"
  /\ \A j \in BackupTasks : TaskInv(j)
  /\ \A j, k \in BackupTasks :
       Working(j) /\ Working(k) /\ work[j].id = work[k].id => j = k

DumpsInv == restores \in Nat /\ (restores = 0 => UnrestoredInv)

\* A step of one task that only writes what it makes or removes.
LEMMA OneTask ==
  ASSUME UnrestoredInv, UNCHANGED made, NEW j \in BackupTasks,
         history' \in [Ids -> Dumps!Status], files' \in [Ids -> {"none", "part", "whole"}],
         NEW w \in Works, work' = [work EXCEPT ![j] = w],
         \A i \in Ids :
           /\ history'[i] = "running" => history[i] = "running"
           /\ history[i] = "running" /\ history'[i] # "running" => Working(j) /\ work[j].id = i
           /\ files[i] = "none" /\ files'[i] # "none" => Working(j) /\ work[j].id = i
           /\ files'[i] # "none" => history'[i] # "absent"
           /\ i > made => history'[i] = "absent",
         TaskInv(j)', Working(j)' => Working(j) /\ w.id = work[j].id
  PROVE  UnrestoredInv'
<1>1. work'[j] = w /\ \A k \in BackupTasks \ {j} : work'[k] = work[k]
  BY DEF UnrestoredInv
<1>2. work' \in [BackupTasks -> Works]
  BY DEF UnrestoredInv
<1>3. ASSUME NEW k \in BackupTasks \ {j} PROVE TaskInv(k)'
  <2>1. TaskInv(k) /\ (Working(k)' <=> Working(k)) /\ work[k] \in Works /\ work'[k] = work[k]
    BY <1>1 DEF UnrestoredInv, Working
  <2>2. Working(k) => history'[work[k].id] = "running"
    BY <2>1 DEF UnrestoredInv, TaskInv
  <2>3. \A i \in Ids : Settled(i) => Settled(i)'
    BY DEF Settled
  <2>4. \A i \in Ids : Settled(i) /\ files[i] = "none" => files'[i] = "none"
    BY DEF Settled, UnrestoredInv, TaskInv
  <2>5. work[k].pc = "unlist" => Dumps!First(work[k].todo) \in work[k].todo
    BY <2>1, FirstIs DEF TaskInv, Works
  <2> QED BY <2>1, <2>2, <2>3, <2>4, <2>5 DEF TaskInv, Works
<1>4. \A k, l \in BackupTasks : Working(k)' /\ Working(l)' /\ work'[k].id = work'[l].id => k = l
  BY <1>1 DEF UnrestoredInv, Working
<1> QED BY <1>2, <1>3, <1>4 DEF UnrestoredInv

LEMMA DumpsStep ==
  ASSUME UnrestoredInv, [Dumps!BackupNext]_dumpVars, restores' = 0, restores = 0
  PROVE  UnrestoredInv'
<1>i. Ids \subseteq Nat \ {0}
  BY BackupIds
<1>u. /\ made \in Nat /\ history \in [Ids -> Dumps!Status]
      /\ files \in [Ids -> {"none", "part", "whole"}] /\ work \in [BackupTasks -> Works]
      /\ \A i \in Ids : /\ files[i] # "none" => history[i] # "absent"
                        /\ i > made => history[i] = "absent"
      /\ \A j \in BackupTasks : TaskInv(j)
  BY DEF UnrestoredInv
<1>d. Dumps!Idle \in Works
  BY DEF Dumps!Idle, Works, DumpSteps
<1>t. ASSUME NEW j \in BackupTasks, NEW step \in DumpSteps, Dumps!Turn(j, step)
      PROVE  \E w \in Works : /\ w.pc = step /\ w.id = work[j].id /\ w.todo = work[j].todo
                              /\ work' = [work EXCEPT ![j] = w]
  <2> DEFINE w == [work[j] EXCEPT !.pc = step]
  <2>1. w \in Works /\ w.pc = step /\ w.id = work[j].id /\ w.todo = work[j].todo
    BY <1>u DEF Works
  <2>2. work' = [work EXCEPT ![j] = w]
    BY <1>t, <1>u DEF Dumps!Turn, Works
  <2> QED BY <2>1, <2>2
\* The task that ends has nothing that the invariant is about.
<1>e. ASSUME NEW j \in BackupTasks, Dumps!End(j)
      PROVE  \E w \in Works : w.pc \in {"rest", "release"} /\ work' = [work EXCEPT ![j] = w]
  <2>1. [work[j] EXCEPT !.pc = "release"] \in Works
    BY <1>u DEF Works, DumpSteps
  <2> QED BY <1>e, <1>d, <1>u, <2>1 DEF Dumps!End, Dumps!Turn, Dumps!Idle, Works
<1>0. CASE UNCHANGED dumpVars
  BY <1>0 DEF dumpVars, UnrestoredInv, TaskInv, Settled, Working
<1>1. CASE Dumps!StartWorker
  BY <1>1 DEF Dumps!StartWorker, Dumps!Idle, UnrestoredInv, TaskInv, Settled, Working, Works, DumpSteps
<1>2. ASSUME NEW j \in BackupTasks, Dumps!ScheduledBackup(j) \/ Dumps!ManualBackup(j)
      PROVE  UnrestoredInv'
  <2> DEFINE i == made + 1
  <2>1. /\ i \in Ids /\ made' = i /\ history' = [history EXCEPT ![i] = "running"]
        /\ UNCHANGED files
    BY <1>2 DEF Dumps!ScheduledBackup, Dumps!ManualBackup, Dumps!Create
  <2>2. PICK w \in Works : w.pc = "make" /\ w.id = i /\ work' = [work EXCEPT ![j] = w]
    <3>1. \A locked \in BOOLEAN :
            [Dumps!Idle EXCEPT !.pc = "make", !.id = i, !.locked = locked] \in Works
      BY <2>1 DEF Dumps!Idle, Works, DumpSteps
    <3> QED BY <1>2, <2>1, <3>1 DEF Dumps!ScheduledBackup, Dumps!ManualBackup, Dumps!Acquire,
                                    Dumps!Idle, Works
  <2>3. history[i] = "absent" /\ files[i] = "none"
    BY <1>u, <2>1
  <2>4. work'[j] = w /\ \A k \in BackupTasks \ {j} : work'[k] = work[k] /\ work[k] \in Works
    BY <1>u, <2>2
  <2>5. ASSUME NEW k \in BackupTasks \ {j} PROVE TaskInv(k)' /\ (Working(k)' => work'[k].id # i)
    <3>1. work[k].pc = "unlist" => Dumps!First(work[k].todo) \in work[k].todo
      BY <1>u, <2>4, FirstIs DEF TaskInv, Works
    <3>2. \A n \in Ids : Settled(n) => Settled(n)'
      BY <1>i, <1>u, <2>1 DEF Settled
    <3>3. TaskInv(k) /\ work[k] \in Works /\ work'[k] = work[k]
      BY <1>u, <2>4
    <3>4. \A n \in Ids \ {i} : history'[n] = history[n] /\ files'[n] = files[n]
      BY <1>u, <2>1
    <3>5. /\ work[k].pc \in {"prune", "unlist"} => work[k].todo \subseteq Ids
          /\ work[k].pc = "unlist" => files'[Dumps!First(work[k].todo)] = "none"
      BY <2>1, <3>1, <3>3 DEF TaskInv, Works
    <3>6. Working(k) => /\ work[k].id \in Ids /\ work[k].id =< made /\ work[k].id # i
                        /\ history[work[k].id] = "running"
      BY <1>u, <2>1, <3>3 DEF TaskInv
    <3>7. Working(k)' <=> Working(k)
      BY <3>3 DEF Working
    <3>13. made \in Nat /\ made' \in Nat /\ made =< made'
      BY <1>i, <1>u, <2>1
    <3> HIDE DEF i
    <3>8. Working(k)' => /\ work'[k].id \in Ids /\ work'[k].id =< made' /\ work'[k].id # i
                         /\ history'[work'[k].id] = "running"
      <4>1. ASSUME NEW n \in Ids, n =< made PROVE n =< made'
        <5>1. n \in Nat
          BY <1>i
        <5> QED BY <3>13, <4>1, <5>1
      <4> QED BY <3>3, <3>4, <3>6, <3>7, <4>1
    <3>9. work'[k].pc \in {"erase", "drop"} => work'[k].id \in Ids /\ Settled(work[k].id)'
      BY <3>2, <3>3 DEF TaskInv, Settled
    <3>10. work'[k].pc \in {"prune", "unlist"} => \A n \in work'[k].todo : Settled(n)'
      BY <3>2, <3>3, <3>5 DEF TaskInv
    <3>11. work'[k].pc = "drop" => files'[work'[k].id] = "none"
      BY <2>1, <3>3 DEF TaskInv
    <3>12. work'[k].pc = "unlist" => work'[k].todo # {} /\ files'[Dumps!First(work'[k].todo)] = "none"
      BY <3>3, <3>5 DEF TaskInv
    <3> QED BY <3>8, <3>9, <3>10, <3>11, <3>12 DEF TaskInv
  <2>6. TaskInv(j)' /\ Working(j)' /\ work'[j].id = i
    BY <1>u, <2>1, <2>2, <2>4 DEF TaskInv, Working
  <2>7. \A n \in Ids : /\ files'[n] # "none" => history'[n] # "absent"
                       /\ n > made' => history'[n] = "absent"
    BY <1>i, <1>u, <2>1
  <2>8. /\ work' \in [BackupTasks -> Works] /\ made' \in Nat
        /\ history' \in [Ids -> Dumps!Status] /\ files' \in [Ids -> {"none", "part", "whole"}]
    BY <1>u, <2>1, <2>2 DEF Dumps!Status
  <2>9. \A k, l \in BackupTasks : Working(k)' /\ Working(l)' /\ work'[k].id = work'[l].id => k = l
    BY <2>4, <2>5, <2>6 DEF UnrestoredInv, Working
  <2> QED BY <2>5, <2>6, <2>7, <2>8, <2>9 DEF UnrestoredInv
<1>3. ASSUME NEW j \in BackupTasks, Dumps!MakeDirectory(j) PROVE UnrestoredInv'
  <2>1. Working(j) /\ UNCHANGED made /\ work[j].id \in Ids /\ history[work[j].id] = "running"
    BY <1>3, <1>u DEF Dumps!MakeDirectory, Working, TaskInv
  <2>2. CASE files' = [files EXCEPT ![work[j].id] = "part"] /\ Dumps!Turn(j, "dump") /\ UNCHANGED history
    <3>1. PICK w \in Works : /\ w.pc = "dump" /\ w.id = work[j].id
                             /\ work' = [work EXCEPT ![j] = w]
      BY <2>2, <1>t DEF DumpSteps
    <3>2. TaskInv(j)'
      BY <1>u, <2>1, <2>2, <3>1 DEF TaskInv, Working
    <3> QED BY <1>u, <2>1, <2>2, <3>1, <3>2, OneTask DEF Working
  <2>3. CASE /\ history' = [history EXCEPT ![work[j].id] = IF @ = "absent" THEN @ ELSE "nowhere"]
             /\ Dumps!Turn(j, IF work[j].locked THEN "release" ELSE "count") /\ UNCHANGED files
    <3>1. PICK w \in Works : w.pc \in {"release", "count"} /\ work' = [work EXCEPT ![j] = w]
      BY <2>3, <1>t DEF DumpSteps
    <3>2. TaskInv(j)' /\ ~Working(j)'
      BY <1>u, <3>1 DEF TaskInv, Working
    <3> QED BY <1>u, <2>1, <2>3, <3>1, <3>2, OneTask DEF Dumps!Status
  <2> QED BY <1>3, <2>2, <2>3 DEF Dumps!MakeDirectory
<1>4. ASSUME NEW j \in BackupTasks, Dumps!Dump(j) PROVE UnrestoredInv'
  <2>1. /\ Working(j) /\ UNCHANGED <<made, history>>
        /\ work[j].id \in Ids /\ history[work[j].id] = "running"
        /\ files' = files \/ files' = [files EXCEPT ![work[j].id] = "whole"]
    BY <1>4, <1>u DEF Dumps!Dump, Working, TaskInv
  <2>2. PICK w \in Works : /\ w.pc = "store" /\ w.id = work[j].id
                           /\ work' = [work EXCEPT ![j] = w]
    BY <1>4, <1>t DEF Dumps!Dump, DumpSteps
  <2>3. TaskInv(j)'
    BY <1>u, <2>1, <2>2 DEF TaskInv, Working
  <2> QED BY <1>u, <2>1, <2>2, <2>3, OneTask DEF Working
<1>5. ASSUME NEW j \in BackupTasks, Dumps!Store(j) PROVE UnrestoredInv'
  <2>1. /\ Working(j) /\ UNCHANGED <<made, files>>
        /\ work[j].id \in Ids /\ history[work[j].id] = "running"
    BY <1>5, <1>u DEF Dumps!Store, Working, TaskInv
  <2>2. PICK w \in Works : w.pc \in {"release", "count"} /\ work' = [work EXCEPT ![j] = w]
    BY <1>5, <1>t DEF Dumps!Store, DumpSteps
  <2>3. TaskInv(j)' /\ ~Working(j)'
    BY <1>u, <2>2 DEF TaskInv, Working
  <2>4. PICK new \in {"completed", "failed"} : history' = [history EXCEPT ![work[j].id] = new]
    BY <1>5, <1>u, <2>1 DEF Dumps!Store
  <2> QED BY <1>u, <2>1, <2>2, <2>3, <2>4, OneTask DEF Dumps!Status
<1>6. ASSUME NEW j \in BackupTasks, Dumps!Count(j) PROVE UnrestoredInv'
  <2>1. PICK w \in Works : w.pc \in {"rest", "find"} /\ work' = [work EXCEPT ![j] = w]
    <3> DEFINE n == Dumps!Cardinality(Dumps!Listed)
    <3>1. IsFiniteSet(Dumps!Listed)
      BY BackupIds, FS_Subset DEF Dumps!Listed
    <3>2. n \in Nat
      BY <3>1, FS_CardinalityType, SameFiniteSets
    <3> HIDE DEF n
    <3>3. n > Retention => n - Retention \in Nat
      BY <3>2, BackupIds
    <3>4. \A e \in Nat : [Dumps!Idle EXCEPT !.pc = "find", !.excess = e] \in Works
      BY DEF Dumps!Idle, Works, DumpSteps
    <3>5. n <= Retention \/ n - Retention \in Nat
      BY <3>2, <3>3, BackupIds
    <3>6. \/ n <= Retention /\ work' = [work EXCEPT ![j] = Dumps!Idle]
          \/ /\ ~(n <= Retention)
             /\ work' = [work EXCEPT ![j] = [Dumps!Idle EXCEPT !.pc = "find", !.excess = n - Retention]]
      BY <1>6 DEF Dumps!Count, n
    <3>7. CASE work' = [work EXCEPT ![j] = Dumps!Idle]
      BY <1>d, <3>7 DEF Dumps!Idle
    <3>8. CASE /\ ~(n <= Retention)
               /\ work' = [work EXCEPT ![j] = [Dumps!Idle EXCEPT !.pc = "find", !.excess = n - Retention]]
      <4> DEFINE e == n - Retention
      <4>1. e \in Nat /\ work' = [work EXCEPT ![j] = [Dumps!Idle EXCEPT !.pc = "find", !.excess = e]]
        BY <3>5, <3>8
      <4> HIDE DEF e
      <4> QED BY <3>4, <4>1 DEF Dumps!Idle
    <3> QED BY <3>6, <3>7, <3>8
  <2>2. TaskInv(j)' /\ ~Working(j)'
    BY <1>u, <2>1 DEF TaskInv, Working
  <2> QED BY <1>6, <1>u, <2>1, <2>2, OneTask DEF Dumps!Count
<1>7. ASSUME NEW j \in BackupTasks, Dumps!FindOldest(j) PROVE UnrestoredInv'
  <2> DEFINE found == {i \in Dumps!Oldest(work[j].excess) : Dumps!HasPath(i)}
             w == [work[j] EXCEPT !.pc = "prune", !.todo = found]
  <2>1. found \subseteq Ids /\ \A i \in found : Settled(i)
    BY <1>i, <1>u DEF Dumps!Oldest, Dumps!Listed, Dumps!HasPath, Settled
  <2>2. w \in Works /\ work' = [work EXCEPT ![j] = w] /\ UNCHANGED <<made, history, files>>
    <3> HIDE DEF found
    <3>1. work[j] \in Works
      BY <1>u
    <3> QED BY <1>7, <1>u, <2>1, <3>1 DEF Dumps!FindOldest, found, Works, DumpSteps
  <2>3. w.pc = "prune" /\ w.todo = found
    BY <1>u DEF Works
  <2> HIDE DEF w, found
  <2>4. TaskInv(j)' /\ ~Working(j)'
    BY <1>u, <2>1, <2>2, <2>3 DEF TaskInv, Working, Settled
  <2> QED BY <1>u, <2>2, <2>4, OneTask
<1>8. ASSUME NEW j \in BackupTasks, Dumps!PruneFiles(j) PROVE UnrestoredInv'
  <2> DEFINE i == Dumps!First(work[j].todo)
  <2>1. /\ work[j].pc = "prune" /\ work[j].todo # {} /\ work[j].todo \subseteq Ids
        /\ UNCHANGED <<made, history>>
    BY <1>8, <1>u DEF Dumps!PruneFiles, Works
  <2>2. i \in work[j].todo /\ i \in Ids /\ \A n \in work[j].todo : Settled(n)
    BY <1>u, <2>1, FirstIs DEF TaskInv
  <2> HIDE DEF i
  <2>3. CASE files' = [files EXCEPT ![i] = "none"] /\ Dumps!Turn(j, "unlist")
    <3>1. PICK w \in Works : /\ w.pc = "unlist" /\ w.todo = work[j].todo
                             /\ work' = [work EXCEPT ![j] = w]
      BY <2>3, <1>t DEF DumpSteps
    <3>2. TaskInv(j)' /\ ~Working(j)'
      BY <1>u, <2>1, <2>2, <2>3, <3>1 DEF TaskInv, Working, Settled, i
    <3> QED BY <1>u, <2>1, <2>2, <2>3, <3>1, <3>2, OneTask
  <2>4. CASE /\ files[i] # "none" /\ files' = [files EXCEPT ![i] = "part"]
             /\ work' = [work EXCEPT ![j].todo = @ \ {i}]
    <3> DEFINE w == [work[j] EXCEPT !.todo = work[j].todo \ {i}]
    <3>1. /\ w \in Works /\ w.pc = "prune" /\ w.todo = work[j].todo \ {i}
          /\ work' = [work EXCEPT ![j] = w]
      BY <1>u, <2>1, <2>4 DEF Works
    <3> HIDE DEF w
    <3>2. TaskInv(j)' /\ ~Working(j)'
      BY <1>u, <2>1, <2>2, <3>1 DEF TaskInv, Working, Settled
    <3> QED BY <1>u, <2>1, <2>2, <2>4, <3>1, <3>2, OneTask
  <2> QED BY <1>8, <2>3, <2>4 DEF Dumps!PruneFiles, i
<1>9. ASSUME NEW j \in BackupTasks, Dumps!PruneRecord(j) PROVE UnrestoredInv'
  <2> DEFINE i == Dumps!First(work[j].todo)
             w == [work[j] EXCEPT !.pc = "prune", !.todo = work[j].todo \ {i}]
  <2>1. /\ work[j].pc = "unlist" /\ work[j] \in Works /\ UNCHANGED <<made, files>>
        /\ history' = [history EXCEPT ![i] = "absent"]
    BY <1>9, <1>u DEF Dumps!PruneRecord
  <2>2. work[j].todo # {} /\ files[i] = "none" /\ \A n \in work[j].todo : Settled(n)
    BY <1>u, <2>1 DEF TaskInv
  <2>3. i \in work[j].todo /\ i \in Ids
    BY <2>1, <2>2, FirstIs DEF Works
  <2>4. /\ w \in Works /\ w.pc = "prune" /\ w.todo = work[j].todo \ {i}
        /\ work' = [work EXCEPT ![j] = w]
    BY <1>9, <1>u, <2>1 DEF Dumps!PruneRecord, Works, DumpSteps
  <2> HIDE DEF w, i
  <2>5. TaskInv(j)' /\ ~Working(j)'
    BY <1>u, <2>1, <2>2, <2>3, <2>4 DEF TaskInv, Working, Settled, Works
  <2> QED BY <1>u, <2>1, <2>2, <2>3, <2>4, <2>5, OneTask DEF Settled, Dumps!Status
<1>10. ASSUME NEW j \in BackupTasks, Dumps!Pruned(j) \/ Dumps!Release(j) PROVE UnrestoredInv'
  <2>1. PICK w \in Works : w.pc \in {"rest", "release"} /\ work' = [work EXCEPT ![j] = w]
    BY <1>10, <1>e, <1>d DEF Dumps!Pruned, Dumps!Release, Dumps!Idle
  <2>2. TaskInv(j)' /\ ~Working(j)'
    BY <1>u, <2>1 DEF TaskInv, Working
  <2> QED BY <1>10, <1>u, <2>1, <2>2, OneTask DEF Dumps!Pruned, Dumps!Release
<1>11. ASSUME NEW j \in BackupTasks, Dumps!AskDelete(j) PROVE UnrestoredInv'
  <2>1. PICK i \in Ids : /\ Dumps!HasPath(i)
                         /\ work' = [work EXCEPT ![j] = [Dumps!Idle EXCEPT !.pc = "erase", !.id = i]]
    BY <1>11 DEF Dumps!AskDelete
  <2>2. PICK w \in Works : w.pc = "erase" /\ w.id = i /\ work' = [work EXCEPT ![j] = w]
    BY <2>1, <1>d DEF Dumps!Idle, Works, DumpSteps
  <2>3. UNCHANGED <<made, history, files>> /\ Settled(i)
    BY <1>11, <1>i, <1>u, <2>1 DEF Dumps!AskDelete, Dumps!HasPath, Settled
  <2>4. TaskInv(j)' /\ ~Working(j)'
    BY <1>u, <2>2, <2>3 DEF TaskInv, Working, Settled
  <2> QED BY <1>u, <2>2, <2>3, <2>4, OneTask
<1>12. ASSUME NEW j \in BackupTasks, Dumps!EraseFiles(j) PROVE UnrestoredInv'
  <2>1. /\ work[j].pc = "erase" /\ UNCHANGED <<made, history>>
        /\ work[j].id \in Ids /\ Settled(work[j].id)
    BY <1>12, <1>u DEF Dumps!EraseFiles, TaskInv
  <2>2. CASE files' = [files EXCEPT ![work[j].id] = "none"] /\ Dumps!Turn(j, "drop")
    <3>1. PICK w \in Works : w.pc = "drop" /\ w.id = work[j].id /\ work' = [work EXCEPT ![j] = w]
      BY <2>2, <1>t DEF DumpSteps
    <3>2. TaskInv(j)' /\ ~Working(j)'
      BY <1>u, <2>1, <2>2, <3>1 DEF TaskInv, Working, Settled
    <3> QED BY <1>u, <2>1, <2>2, <3>1, <3>2, OneTask
  <2>3. CASE /\ files[work[j].id] # "none" /\ files' = [files EXCEPT ![work[j].id] = "part"]
             /\ Dumps!End(j)
    <3>1. PICK w \in Works : w.pc \in {"rest", "release"} /\ work' = [work EXCEPT ![j] = w]
      BY <2>3, <1>e
    <3>2. TaskInv(j)' /\ ~Working(j)'
      BY <1>u, <3>1 DEF TaskInv, Working
    <3> QED BY <1>u, <2>1, <2>3, <3>1, <3>2, OneTask
  <2> QED BY <1>12, <2>2, <2>3 DEF Dumps!EraseFiles
<1>13. ASSUME NEW j \in BackupTasks, Dumps!EraseRecord(j) PROVE UnrestoredInv'
  <2>1. /\ UNCHANGED <<made, files>> /\ history' = [history EXCEPT ![work[j].id] = "absent"]
        /\ work[j].id \in Ids /\ Settled(work[j].id) /\ files[work[j].id] = "none"
    BY <1>13, <1>u DEF Dumps!EraseRecord, TaskInv
  <2>2. PICK w \in Works : w.pc \in {"rest", "release"} /\ work' = [work EXCEPT ![j] = w]
    BY <1>13, <1>e DEF Dumps!EraseRecord
  <2>3. TaskInv(j)' /\ ~Working(j)'
    BY <1>u, <2>2 DEF TaskInv, Working
  <2> QED BY <1>u, <2>1, <2>2, <2>3, OneTask DEF Settled, Dumps!Status
<1>14. ASSUME NEW j \in BackupTasks,
              \/ Dumps!AskRestore(j) \/ Dumps!CheckDump(j) \/ Dumps!RestoreHistory(j)
              \/ Dumps!RestoreLocks(j) \/ Dumps!Restored(j)
       PROVE  FALSE
  BY <1>14, <1>u DEF Dumps!AskRestore, Dumps!CheckDump, Dumps!RestoreHistory, Dumps!RestoreLocks,
     Dumps!Restored, Works, DumpSteps
<1> QED BY <1>0, <1>1, <1>2, <1>3, <1>4, <1>5, <1>6, <1>7, <1>8, <1>9, <1>10, <1>11, <1>12,
           <1>13, <1>14 DEF Dumps!BackupNext

LEMMA RestoresOnlyGrow ==
  ASSUME restores \in Nat, [Dumps!BackupNext]_dumpVars
  PROVE  restores' \in Nat /\ restores =< restores'
<1>1. UNCHANGED restores \/ \E j \in BackupTasks : Dumps!AskRestore(j)
  BY DEF dumpVars, Dumps!BackupNext, Dumps!StartWorker, Dumps!ScheduledBackup,
     Dumps!ManualBackup, Dumps!Create, Dumps!MakeDirectory, Dumps!Dump,
     Dumps!Store, Dumps!Count, Dumps!FindOldest, Dumps!PruneFiles, Dumps!PruneRecord,
     Dumps!Pruned, Dumps!AskDelete, Dumps!EraseFiles, Dumps!EraseRecord,
     Dumps!CheckDump, Dumps!RestoreHistory, Dumps!RestoreLocks, Dumps!Restored, Dumps!Release
<1> QED BY <1>1 DEF Dumps!AskRestore

\* Until a restore puts back an older history, every directory of a backup has
\* a record that names it.
THEOREM DumpsAreListedHolds == JobsSpec => []DumpsAreListed
<1>1. JobsInit => DumpsInv
  <2> SUFFICES ASSUME Dumps!BackupInit PROVE restores \in Nat /\ UnrestoredInv
    BY DEF JobsInit, DumpsInv
  <2>1. /\ made = 0 /\ restores = 0 /\ history = [i \in Ids |-> "absent"]
        /\ files = [i \in Ids |-> "none"] /\ work = [j \in BackupTasks |-> Dumps!Idle]
    BY DEF Dumps!BackupInit
  <2>2. Dumps!Idle \in Works /\ Dumps!Idle.pc = "rest"
    BY DEF Dumps!Idle, Works, DumpSteps
  <2>3. \A j \in BackupTasks : work[j].pc = "rest" /\ ~Working(j) /\ TaskInv(j)
    BY <2>1, <2>2 DEF TaskInv, Working
  <2> QED BY <2>1, <2>2, <2>3 DEF UnrestoredInv, Dumps!Status
<1>2. DumpsInv => DumpsAreListed
  BY DEF DumpsInv, UnrestoredInv, DumpsAreListed, Dumps!DumpsAreListed, Dumps!Listed, Dumps!Status
<1>3. DumpsInv /\ [JobsNext]_<<part, allVars>> => DumpsInv'
  BY PartSteps, DumpsStep, RestoresOnlyGrow DEF DumpsInv
<1> QED BY <1>1, <1>2, <1>3, PTL DEF JobsSpec

-----------------------------------------------------------------------------
(* API keys *)

LEMMA KeyNumbers == KeyIds \subseteq Nat \ {0} /\ 1 \in KeyIds
<1>1. \A S : KeyRing!IsFiniteSet(S) <=> IsFiniteSet(S)
  BY DEF KeyRing!IsFiniteSet, IsFiniteSet
<1>2. \A S : KeyRing!Cardinality(S) = Cardinality(S)
  BY DEF KeyRing!Cardinality, Cardinality
<1>3. IsFiniteSet(KeyIds) /\ 1 \in KeyIds /\ KeyIds = 1 .. Cardinality(KeyIds)
  BY <1>1, <1>2, JobsAssumption DEF KeyRing!ApiKeyAssumption
<1>4. Cardinality(KeyIds) \in Nat
  BY <1>3, FS_CardinalityType
<1> QED BY <1>3, <1>4

ChangeSteps == {"rest", "retire", "insert", "answer", "revoke", "update"}

\* The keys are those made so far, and a rotation leads to a later one.
KeyTypeInv ==
  /\ key \in [KeyIds -> KeyRing!Documents]
  /\ change \in [Requests -> [pc : ChangeSteps, id : KeyIds, new : KeyIds, entity : KeyRing!Documents]]
  /\ keys \in KeyIds /\ held \subseteq KeyIds /\ revoked \subseteq KeyIds /\ spoilt \in BOOLEAN
  /\ \A i \in KeyIds : key[i].there <=> i =< keys
  /\ \A c \in Requests : /\ change[c].id =< keys
                         /\ change[c].pc = "answer" => change[c].id < change[c].new

\* A revoked key was never in a grace period, and nobody can start one.
RevokedInv ==
  \A i \in revoked : /\ i =< keys /\ ~key[i].active /\ key[i].grace = "none"
                     /\ ~KeyRing!Rotating(i)

\* A key that is not active has a successor, or its grace period is running
\* until the successor has reached the client.
ServedInv ==
  /\ \A i \in KeyIds : i =< keys =>
       /\ key[i].expires # "past"
       /\ ~key[i].active => /\ key[i].grace # "none"
                            /\ i < keys \/ \E c \in Requests : change[c].pc = "insert" /\ change[c].id = i
       /\ i \in held \/ \E c \in Requests : change[c].pc = "answer" /\ change[c].new = i
  /\ \A c \in Requests :
       /\ change[c].pc # "rest" => change[c].entity.expires # "past"
       /\ change[c].pc \in {"insert", "answer"} => key[change[c].id].grace = "running"

KeysInv == KeyTypeInv /\ RevokedInv /\ (spoilt \/ ServedInv)

LEMMA KeysStep == KeysInv /\ [KeyRing!ApiKeyNext]_keyVars => KeysInv'
<1> SUFFICES ASSUME KeyTypeInv, RevokedInv, spoilt \/ ServedInv, [KeyRing!ApiKeyNext]_keyVars
             PROVE  KeyTypeInv' /\ RevokedInv' /\ (spoilt' \/ ServedInv')
  BY DEF KeysInv
<1>i. KeyIds \subseteq Nat \ {0}
  BY KeyNumbers
<1>a. /\ key \in [KeyIds -> KeyRing!Documents]
      /\ change \in [Requests -> [pc : ChangeSteps, id : KeyIds, new : KeyIds, entity : KeyRing!Documents]]
      /\ keys \in KeyIds /\ held \subseteq KeyIds /\ revoked \subseteq KeyIds /\ spoilt \in BOOLEAN
  BY DEF KeyTypeInv
<1>n. /\ KeyRing!NoKey \in KeyRing!Documents
      /\ KeyRing!NoChange \in [pc : ChangeSteps, id : KeyIds, new : KeyIds, entity : KeyRing!Documents]
      /\ KeyRing!NoChange.pc = "rest" /\ KeyRing!NoChange.id = 1
  BY KeyNumbers DEF KeyRing!NoKey, KeyRing!NoChange, KeyRing!Documents, ChangeSteps
<1>0. CASE UNCHANGED keyVars
  BY <1>0 DEF keyVars, KeyTypeInv, RevokedInv, ServedInv, KeyRing!Rotating
\* A request that ends, and is not one that has retired a key.
<1>e. ASSUME NEW c \in Requests, change' = [change EXCEPT ![c] = KeyRing!NoChange]
      PROVE  /\ change' \in [Requests -> [pc : ChangeSteps, id : KeyIds, new : KeyIds,
                                          entity : KeyRing!Documents]]
             /\ \A d \in Requests : d # c => change'[d] = change[d]
             /\ change'[c].pc = "rest" /\ change'[c].id = 1 /\ 1 =< keys
  BY <1>a, <1>e, <1>i, <1>n
<1>1. ASSUME NEW c \in Requests, NEW step \in {"retire", "revoke", "update"}, KeyRing!Ask(c, step)
      PROVE  KeyTypeInv' /\ RevokedInv' /\ (spoilt' \/ ServedInv')
  <2>1. PICK i \in KeyIds :
          /\ key[i].there /\ (step # "revoke" => key[i].active)
          /\ change' = [change EXCEPT ![c] = [KeyRing!NoChange EXCEPT !.pc = step, !.id = i,
                                                                      !.entity = key[i]]]
    BY <1>1 DEF KeyRing!Ask
  <2>2. PICK r \in [pc : ChangeSteps, id : KeyIds, new : KeyIds, entity : KeyRing!Documents] :
          r.pc = step /\ r.id = i /\ r.entity = key[i] /\ change' = [change EXCEPT ![c] = r]
    BY <2>1, <1>a, <1>n DEF KeyRing!NoChange, ChangeSteps
  <2>3. /\ change'[c] = r /\ \A d \in Requests : d # c => change'[d] = change[d]
        /\ UNCHANGED <<key, keys, held, spoilt, revoked>> /\ change[c].pc = "rest"
    BY <1>1, <1>a, <2>2 DEF KeyRing!Ask
  <2>4. KeyTypeInv'
    BY <2>1, <2>2, <2>3 DEF KeyTypeInv
  <2>5. RevokedInv'
    BY <2>1, <2>2, <2>3 DEF RevokedInv, KeyRing!Rotating
  <2>6. spoilt \/ ServedInv'
    BY <2>1, <2>2, <2>3 DEF ServedInv, KeyTypeInv
  <2> QED BY <2>3, <2>4, <2>5, <2>6
<1>2. ASSUME NEW c \in Requests, KeyRing!RetireOld(c)
      PROVE  KeyTypeInv' /\ RevokedInv' /\ (spoilt' \/ ServedInv')
  <2> DEFINE i == change[c].id
             k == [key[i] EXCEPT !.active = FALSE, !.grace = "running"]
  <2>1. /\ change[c].pc = "retire" /\ key' = [key EXCEPT ![i] = k]
        /\ change' = [change EXCEPT ![c].pc = "insert"]
        /\ UNCHANGED <<keys, held, spoilt, revoked>>
    BY <1>2 DEF KeyRing!RetireOld, KeyRing!Set
  <2>2. i \in KeyIds /\ i =< keys
    BY <1>a DEF KeyTypeInv
  <2>3. /\ k \in KeyRing!Documents /\ k.there = key[i].there /\ k.expires = key[i].expires
        /\ ~k.active /\ k.grace = "running"
    <3>1. key[i] \in KeyRing!Documents
      BY <1>a, <2>2
    <3> HIDE DEF i
    <3> QED BY <3>1 DEF KeyRing!Documents
  <2> HIDE DEF k
  <2>4. /\ change' \in [Requests -> [pc : ChangeSteps, id : KeyIds, new : KeyIds,
                                     entity : KeyRing!Documents]]
        /\ \A d \in Requests : d # c => change'[d] = change[d]
        /\ change'[c].pc = "insert" /\ change'[c].id = i /\ change'[c].entity = change[c].entity
    BY <1>a, <2>1 DEF ChangeSteps
  <2>5. key'[i] = k /\ \A n \in KeyIds : n # i => key'[n] = key[n]
    BY <1>a, <2>1, <2>2
  <2> HIDE DEF i
  <2>6. KeyTypeInv'
    <3>1. key' \in [KeyIds -> KeyRing!Documents]
      BY <1>a, <2>1, <2>2, <2>3
    <3>2. \A n \in KeyIds : key'[n].there = key[n].there
      BY <2>3, <2>5
    <3>3. \A d \in Requests : /\ change'[d].id =< keys
                              /\ change'[d].pc = "answer" => change'[d].id < change'[d].new
      BY <2>2, <2>4 DEF KeyTypeInv
    <3> QED BY <1>a, <2>1, <2>4, <3>1, <3>2, <3>3 DEF KeyTypeInv
  <2>7. RevokedInv'
    <3>1. i \notin revoked
      BY <2>1 DEF RevokedInv, KeyRing!Rotating, i
    <3> QED BY <1>a, <2>1, <2>4, <2>5, <3>1 DEF RevokedInv, KeyRing!Rotating
  <2>8. ServedInv => ServedInv'
    <3> SUFFICES ASSUME ServedInv PROVE ServedInv'
      OBVIOUS
    <3>1. \A n \in KeyIds : n =< keys => key'[n].expires # "past"
      BY <2>3, <2>5 DEF ServedInv
    <3>2. \A n \in KeyIds : n =< keys /\ ~key'[n].active =>
            /\ key'[n].grace # "none"
            /\ n < keys \/ \E d \in Requests : change'[d].pc = "insert" /\ change'[d].id = n
      BY <2>1, <2>3, <2>4, <2>5 DEF ServedInv
    <3>3. \A n \in KeyIds : n =< keys =>
            n \in held \/ \E d \in Requests : change'[d].pc = "answer" /\ change'[d].new = n
      BY <2>1, <2>4 DEF ServedInv
    <3>4. \A d \in Requests :
            /\ change'[d].pc # "rest" => change'[d].entity.expires # "past"
            /\ change'[d].pc \in {"insert", "answer"} => key'[change'[d].id].grace = "running"
      BY <1>a, <2>1, <2>3, <2>4, <2>5 DEF ServedInv
    <3> QED BY <2>1, <3>1, <3>2, <3>3, <3>4 DEF ServedInv
  <2> QED BY <2>1, <2>6, <2>7, <2>8
<1>3. ASSUME NEW c \in Requests, KeyRing!InsertNew(c)
      PROVE  KeyTypeInv' /\ RevokedInv' /\ (spoilt' \/ ServedInv')
  <2> DEFINE n == keys + 1
             k == KeyRing!NewKey(change[c].entity.expires)
  <2>1. /\ change[c].pc = "insert" /\ n \in KeyIds /\ keys' = n /\ key' = [key EXCEPT ![n] = k]
        /\ change' = [change EXCEPT ![c].pc = "answer", ![c].new = n]
        /\ UNCHANGED <<held, spoilt, revoked>>
    BY <1>3 DEF KeyRing!InsertNew, KeyRing!Set
  <2>2. /\ k \in KeyRing!Documents /\ k.there /\ k.active
        /\ k.expires = change[c].entity.expires
    BY <1>a DEF KeyRing!NewKey, KeyRing!Documents
  <2> HIDE DEF k
  <2>3. /\ change' \in [Requests -> [pc : ChangeSteps, id : KeyIds, new : KeyIds,
                                     entity : KeyRing!Documents]]
        /\ \A d \in Requests : d # c => change'[d] = change[d]
        /\ change'[c].pc = "answer" /\ change'[c].id = change[c].id /\ change'[c].new = n
        /\ change'[c].entity = change[c].entity
    BY <1>a, <2>1 DEF ChangeSteps
  <2>4. key'[n] = k /\ \A i \in KeyIds : i # n => key'[i] = key[i]
    BY <1>a, <2>1
  <2>5. keys \in Nat /\ n \in Nat /\ keys < n /\ \A i \in KeyIds : (i =< n <=> i =< keys \/ i = n)
    BY <1>a, <1>i
  <2> HIDE DEF n
  <2>6. KeyTypeInv'
    <3>1. key' \in [KeyIds -> KeyRing!Documents]
      BY <1>a, <2>1, <2>2
    <3>2. \A i \in KeyIds : key'[i].there <=> i =< keys'
      BY <2>1, <2>2, <2>4, <2>5 DEF KeyTypeInv
    <3>3. \A d \in Requests : change[d].id \in KeyIds /\ change[d].id =< keys
      BY <1>a DEF KeyTypeInv
    <3>4. ASSUME NEW d \in Requests PROVE change[d].id =< n /\ change[d].id < n
      <4>1. change[d].id \in Nat /\ change[d].id =< keys
        BY <1>i, <3>3
      <4> QED BY <2>5, <4>1
    <3>5. \A d \in Requests : /\ change'[d].id =< keys'
                              /\ change'[d].pc = "answer" => change'[d].id < change'[d].new
      BY <2>1, <2>3, <3>4 DEF KeyTypeInv
    <3> QED BY <1>a, <2>1, <2>3, <3>1, <3>2, <3>5 DEF KeyTypeInv
  <2>7. RevokedInv'
    <3>1. \A i \in revoked : i =< n /\ i # n
      BY <1>a, <1>i, <2>5 DEF RevokedInv
    <3> QED BY <1>a, <2>1, <2>3, <2>4, <3>1 DEF RevokedInv, KeyRing!Rotating
  <2>8. ServedInv => ServedInv'
    <3> SUFFICES ASSUME ServedInv PROVE ServedInv'
      OBVIOUS
    <3>1. \A i \in KeyIds : i =< n => key'[i].expires # "past"
      BY <2>1, <2>2, <2>4, <2>5 DEF ServedInv
    <3>2. \A i \in KeyIds : i =< n /\ ~key'[i].active => key'[i].grace # "none" /\ i < n
      <4>1. \A i \in KeyIds : i =< keys => i < n
        BY <1>i, <2>5
      <4> QED BY <2>1, <2>2, <2>4, <2>5, <4>1 DEF ServedInv
    <3>3. \A i \in KeyIds : i =< n =>
            i \in held \/ \E d \in Requests : change'[d].pc = "answer" /\ change'[d].new = i
      BY <2>1, <2>3, <2>5 DEF ServedInv
    <3>4. \A d \in Requests :
            /\ change'[d].pc # "rest" => change'[d].entity.expires # "past"
            /\ change'[d].pc \in {"insert", "answer"} => change'[d].id # n
                                                         /\ key[change'[d].id].grace = "running"
      <4>1. \A d \in Requests : change[d].id # n
        BY <1>a, <1>i, <2>5 DEF KeyTypeInv
      <4> QED BY <2>1, <2>3, <4>1 DEF ServedInv
    <3>5. \A d \in Requests : change'[d].pc \in {"insert", "answer"} =>
            key'[change'[d].id].grace = "running"
      BY <2>3, <2>4, <3>4
    <3> QED BY <2>1, <3>1, <3>2, <3>3, <3>4, <3>5 DEF ServedInv
  <2> QED BY <2>1, <2>6, <2>7, <2>8
<1>4. ASSUME NEW c \in Requests, KeyRing!AnswerRotation(c)
      PROVE  KeyTypeInv' /\ RevokedInv' /\ (spoilt' \/ ServedInv')
  <2>1. /\ change[c].pc = "answer" /\ held' = held \cup {change[c].new}
        /\ UNCHANGED <<key, keys, spoilt, revoked>>
        /\ change' = [change EXCEPT ![c] = KeyRing!NoChange]
    BY <1>4 DEF KeyRing!AnswerRotation
  <2>2. KeyTypeInv'
    BY ZenonT(60), <1>a, <2>1, <1>e DEF KeyTypeInv
  <2>3. RevokedInv'
    BY <2>1, <1>e DEF RevokedInv, KeyRing!Rotating
  <2>4. ServedInv => ServedInv'
    <3> SUFFICES ASSUME ServedInv PROVE ServedInv'
      OBVIOUS
    <3>1. change'[c].pc = "rest" /\ \A d \in Requests : d # c => change'[d] = change[d]
      BY <1>4, <1>e, <2>1
    <3>2. \A i \in KeyIds : i =< keys =>
            i \in held' \/ \E d \in Requests : change'[d].pc = "answer" /\ change'[d].new = i
      BY <2>1, <3>1 DEF ServedInv
    <3>3. \A i \in KeyIds : i =< keys /\ ~key[i].active =>
            i < keys \/ \E d \in Requests : change'[d].pc = "insert" /\ change'[d].id = i
      BY <2>1, <3>1 DEF ServedInv
    <3>4. \A d \in Requests :
            /\ change'[d].pc # "rest" => change'[d].entity.expires # "past"
            /\ change'[d].pc \in {"insert", "answer"} => key[change'[d].id].grace = "running"
      BY <3>1 DEF ServedInv
    <3> QED BY <2>1, <3>2, <3>3, <3>4 DEF ServedInv
  <2> QED BY <2>1, <2>2, <2>3, <2>4
<1>5. ASSUME NEW c \in Requests, KeyRing!Revoke(c)
      PROVE  KeyTypeInv' /\ RevokedInv' /\ (spoilt' \/ ServedInv')
  <2> DEFINE i == change[c].id
             k == [key[i] EXCEPT !.active = FALSE]
  <2>1. /\ change[c].pc = "revoke" /\ key' = [key EXCEPT ![i] = k] /\ UNCHANGED <<keys, held>>
        /\ spoilt' = TRUE /\ change' = [change EXCEPT ![c] = KeyRing!NoChange]
        /\ revoked' = IF KeyRing!Rotating(i) \/ key[i].grace # "none" THEN revoked ELSE revoked \cup {i}
    BY <1>5 DEF KeyRing!Revoke, KeyRing!Set
  <2>2. i \in KeyIds /\ i =< keys
    BY <1>a DEF KeyTypeInv
  <2>3. /\ k \in KeyRing!Documents /\ k.there = key[i].there /\ ~k.active /\ k.grace = key[i].grace
    <3>1. key[i] \in KeyRing!Documents
      BY <1>a, <2>2
    <3> HIDE DEF i
    <3> QED BY <3>1 DEF KeyRing!Documents
  <2> HIDE DEF k
  <2>4. key'[i] = k /\ \A n \in KeyIds : n # i => key'[n] = key[n]
    BY <1>a, <2>1, <2>2
  <2>5. change'[c].pc = "rest" /\ \A d \in Requests : d # c => change'[d] = change[d]
    BY <1>5, <1>e, <2>1
  <2>6. revoked' \subseteq KeyIds
    BY <1>a, <2>1, <2>2
  <2>7. \A n \in revoked' : n \in revoked \/ (n = i /\ ~KeyRing!Rotating(i) /\ key[i].grace = "none")
    BY <2>1
  <2> HIDE DEF i
  <2>8. KeyTypeInv'
    <3>1. key' \in [KeyIds -> KeyRing!Documents]
      BY <1>a, <2>1, <2>2, <2>3
    <3>2. \A n \in KeyIds : key'[n].there = key[n].there
      BY <2>3, <2>4
    <3>3. /\ change' \in [Requests -> [pc : ChangeSteps, id : KeyIds, new : KeyIds,
                                       entity : KeyRing!Documents]]
          /\ \A d \in Requests : /\ change'[d].id =< keys
                                 /\ change'[d].pc = "answer" => change'[d].id < change'[d].new
      BY <1>5, <1>e, <2>1 DEF KeyTypeInv
    <3> QED BY <1>a, <2>1, <2>6, <3>1, <3>2, <3>3 DEF KeyTypeInv
  <2>9. RevokedInv'
    <3>1. \A n : KeyRing!Rotating(n)' => KeyRing!Rotating(n)
      BY <2>5 DEF KeyRing!Rotating
    <3>2. \A n \in revoked : n \in KeyIds /\ n =< keys /\ ~key[n].active /\ key[n].grace = "none"
                             /\ ~KeyRing!Rotating(n)
      BY <1>a DEF RevokedInv
    <3> QED BY <2>1, <2>2, <2>3, <2>4, <2>7, <3>1, <3>2 DEF RevokedInv
  <2> QED BY <2>1, <2>8, <2>9
<1>6. ASSUME NEW c \in Requests, KeyRing!Update(c)
      PROVE  KeyTypeInv' /\ RevokedInv' /\ (spoilt' \/ ServedInv')
  <2> DEFINE i == change[c].id
             k == [key[i] EXCEPT !.expires = "later"]
  <2>1. /\ key' = [key EXCEPT ![i] = k] /\ UNCHANGED <<keys, held, spoilt, revoked>>
        /\ change' = [change EXCEPT ![c] = KeyRing!NoChange] /\ change[c].pc = "update"
    BY <1>6 DEF KeyRing!Update, KeyRing!Set
  <2>2. i \in KeyIds
    BY <1>a
  <2>3. /\ k \in KeyRing!Documents /\ k.there = key[i].there /\ k.active = key[i].active
        /\ k.grace = key[i].grace /\ k.expires = "later"
    <3>1. key[i] \in KeyRing!Documents
      BY <1>a, <2>2
    <3> HIDE DEF i
    <3> QED BY <3>1 DEF KeyRing!Documents
  <2> HIDE DEF k
  <2>4. key'[i] = k /\ \A n \in KeyIds : n # i => key'[n] = key[n]
    BY <1>a, <2>1, <2>2
  <2>5. change'[c].pc = "rest" /\ \A d \in Requests : d # c => change'[d] = change[d]
    BY <1>6, <1>e, <2>1
  <2> HIDE DEF i
  <2>6. \A n \in KeyIds : /\ key'[n].there = key[n].there /\ key'[n].active = key[n].active
                          /\ key'[n].grace = key[n].grace
                          /\ key'[n].expires \in {"later", key[n].expires}
    BY <2>3, <2>4
  <2>8. KeyTypeInv'
    <3>1. key' \in [KeyIds -> KeyRing!Documents]
      BY <1>a, <2>1, <2>2, <2>3
    <3>3. /\ change' \in [Requests -> [pc : ChangeSteps, id : KeyIds, new : KeyIds,
                                       entity : KeyRing!Documents]]
          /\ \A d \in Requests : /\ change'[d].id =< keys
                                 /\ change'[d].pc = "answer" => change'[d].id < change'[d].new
      BY <1>6, <1>e, <2>1 DEF KeyTypeInv
    <3> QED BY <1>a, <2>1, <2>6, <3>1, <3>3 DEF KeyTypeInv
  <2>9. RevokedInv'
    <3>1. \A n : KeyRing!Rotating(n)' => KeyRing!Rotating(n)
      BY <2>5 DEF KeyRing!Rotating
    <3> QED BY <1>a, <2>1, <2>6, <3>1 DEF RevokedInv
  <2>10. ServedInv => ServedInv'
    <3> SUFFICES ASSUME ServedInv PROVE ServedInv'
      OBVIOUS
    <3>1. \A n \in KeyIds : n =< keys => key'[n].expires # "past"
      BY <2>6 DEF ServedInv
    <3>2. \A n \in KeyIds : n =< keys /\ ~key'[n].active =>
            /\ key'[n].grace # "none"
            /\ n < keys \/ \E d \in Requests : change'[d].pc = "insert" /\ change'[d].id = n
      BY <2>1, <2>5, <2>6 DEF ServedInv
    <3>3. \A n \in KeyIds : n =< keys =>
            n \in held \/ \E d \in Requests : change'[d].pc = "answer" /\ change'[d].new = n
      BY <2>1, <2>5 DEF ServedInv
    <3>4. \A d \in Requests :
            /\ change'[d].pc # "rest" => change'[d].entity.expires # "past"
            /\ change'[d].pc \in {"insert", "answer"} => key'[change'[d].id].grace = "running"
      BY <1>a, <2>5, <2>6 DEF ServedInv
    <3> QED BY <2>1, <3>1, <3>2, <3>3, <3>4 DEF ServedInv
  <2> QED BY <2>1, <2>8, <2>9, <2>10
<1>7. ASSUME NEW c \in Requests, KeyRing!LoseRequest(c)
      PROVE  KeyTypeInv' /\ RevokedInv' /\ (spoilt' \/ ServedInv')
  <2>1. /\ spoilt' = (spoilt \/ change[c].pc \in {"insert", "answer"})
        /\ UNCHANGED <<key, keys, held, revoked>>
        /\ change' = [change EXCEPT ![c] = KeyRing!NoChange]
    BY <1>7 DEF KeyRing!LoseRequest
  <2>2. KeyTypeInv'
    BY <1>a, <2>1, <1>e DEF KeyTypeInv
  <2>3. RevokedInv'
    BY <2>1, <1>e DEF RevokedInv, KeyRing!Rotating
  <2>4. ServedInv /\ change[c].pc \notin {"insert", "answer"} => ServedInv'
    <3> SUFFICES ASSUME ServedInv, change[c].pc \notin {"insert", "answer"} PROVE ServedInv'
      OBVIOUS
    <3>1. change'[c].pc = "rest" /\ \A d \in Requests : d # c => change'[d] = change[d]
      BY <1>7, <1>e, <2>1
    <3>2. \A i \in KeyIds : i =< keys =>
            i \in held \/ \E d \in Requests : change'[d].pc = "answer" /\ change'[d].new = i
      BY <3>1 DEF ServedInv
    <3>3. \A i \in KeyIds : i =< keys /\ ~key[i].active =>
            i < keys \/ \E d \in Requests : change'[d].pc = "insert" /\ change'[d].id = i
      BY <3>1 DEF ServedInv
    <3>4. \A d \in Requests :
            /\ change'[d].pc # "rest" => change'[d].entity.expires # "past"
            /\ change'[d].pc \in {"insert", "answer"} => key[change'[d].id].grace = "running"
      BY <3>1 DEF ServedInv
    <3> QED BY <2>1, <3>2, <3>3, <3>4 DEF ServedInv
  <2> QED BY <2>1, <2>2, <2>3, <2>4
<1>8. ASSUME NEW i \in KeyIds, KeyRing!GraceEnds(i)
      PROVE  KeyTypeInv' /\ RevokedInv' /\ (spoilt' \/ ServedInv')
  <2> DEFINE k == [key[i] EXCEPT !.grace = "over"]
  <2>1. /\ key[i].grace = "running" /\ key' = [key EXCEPT ![i] = k]
        /\ \A c \in Requests : change[c].id = i => change[c].pc \notin {"insert", "answer"}
        /\ UNCHANGED <<change, keys, held, spoilt, revoked>>
    BY <1>8 DEF KeyRing!GraceEnds, KeyRing!Set
  <2>2. /\ k \in KeyRing!Documents /\ k.there = key[i].there /\ k.active = key[i].active
        /\ k.expires = key[i].expires /\ k.grace = "over"
    BY <1>a DEF KeyRing!Documents
  <2> HIDE DEF k
  <2>3. key'[i] = k /\ \A n \in KeyIds : n # i => key'[n] = key[n]
    BY <1>a, <2>1
  <2>4. KeyTypeInv'
    BY <1>a, <2>1, <2>2, <2>3 DEF KeyTypeInv
  <2>5. RevokedInv'
    BY <1>a, <2>1, <2>3 DEF RevokedInv, KeyRing!Rotating
  <2>6. ServedInv => ServedInv'
    BY <1>a, <2>1, <2>2, <2>3 DEF ServedInv
  <2> QED BY <2>1, <2>4, <2>5, <2>6
<1>9. ASSUME NEW i \in KeyIds, KeyRing!Expire(i)
      PROVE  KeyTypeInv' /\ RevokedInv' /\ (spoilt' \/ ServedInv')
  <2> DEFINE k == [key[i] EXCEPT !.expires = "past"]
  <2>1. /\ key' = [key EXCEPT ![i] = k] /\ spoilt' = TRUE
        /\ UNCHANGED <<change, keys, held, revoked>>
    BY <1>9 DEF KeyRing!Expire, KeyRing!Set
  <2>2. /\ k \in KeyRing!Documents /\ k.there = key[i].there /\ k.active = key[i].active
        /\ k.grace = key[i].grace
    BY <1>a DEF KeyRing!Documents
  <2> HIDE DEF k
  <2>3. key'[i] = k /\ \A n \in KeyIds : n # i => key'[n] = key[n]
    BY <1>a, <2>1
  <2>4. KeyTypeInv'
    BY <1>a, <2>1, <2>2, <2>3 DEF KeyTypeInv
  <2>5. RevokedInv'
    BY <1>a, <2>1, <2>2, <2>3 DEF RevokedInv, KeyRing!Rotating
  <2> QED BY <2>1, <2>4, <2>5
<1> QED BY <1>0, <1>1, <1>2, <1>3, <1>4, <1>5, <1>6, <1>7, <1>8, <1>9 DEF KeyRing!ApiKeyNext

\* The first of the keys that are accepted has reached the client: what it was
\* rotated from would be accepted as well.
LEMMA KeysServe == KeysInv => KeysServeUntilRevoked
<1> SUFFICES ASSUME KeysInv PROVE KeyRing!HolderIsServed /\ KeyRing!RevocationLasts
  BY DEF KeysServeUntilRevoked, KeyRing!KeysServeUntilRevoked
<1>1. KeyIds \subseteq Nat \ {0}
  BY KeyNumbers
<1>2. KeyRing!RevocationLasts
  BY DEF KeysInv, RevokedInv, KeyRing!RevocationLasts, KeyRing!Authenticates
<1>3. ASSUME ServedInv PROVE \E i \in held : KeyRing!Authenticates(i)
  <2> DEFINE S == {i \in KeyIds : i =< keys /\ KeyRing!Authenticates(i)}
  <2>1. \A i \in KeyIds : i =< keys /\ (key[i].active \/ key[i].grace = "running") => i \in S
    BY <1>3 DEF KeysInv, KeyTypeInv, ServedInv, KeyRing!Authenticates
  <2>2. keys \in S
    <3>1. keys \in KeyIds /\ keys \in Nat /\ keys =< keys /\ ~(keys < keys)
      BY <1>1 DEF KeysInv, KeyTypeInv
    <3>2. key[keys].active \/ key[keys].grace = "running"
      BY <1>3, <3>1 DEF ServedInv
    <3> QED BY <2>1, <3>1, <3>2
  <2>3. PICK m \in S : \A i \in S : m =< i
    BY <1>1, <2>2, SmallestExists
  <2>4. m \in held
    <3>1. SUFFICES ASSUME NEW c \in Requests, change[c].pc = "answer", change[c].new = m
                   PROVE  FALSE
      BY <1>3, <2>3 DEF ServedInv
    <3>2. change[c].id \in S /\ change[c].id < m /\ change[c].id \in Nat /\ m \in Nat
      BY <1>1, <1>3, <2>1, <2>3, <3>1 DEF KeysInv, KeyTypeInv, ServedInv
    <3> QED BY <2>3, <3>2
  <2> QED BY <2>3, <2>4
<1> QED BY <1>2, <1>3 DEF KeysInv, KeyRing!HolderIsServed

\* Through any rotations the client has a key that is accepted, unless one was
\* revoked, expired or a rotation was cut off; and a revoked key that no
\* rotation has to do with is refused from then on.
THEOREM KeysServeUntilRevokedHolds == JobsSpec => []KeysServeUntilRevoked
<1>1. JobsInit => KeysInv
  <2> SUFFICES ASSUME KeyRing!ApiKeyInit PROVE KeysInv
    BY DEF JobsInit
  <2>1. PICK e \in {"never", "later"} :
          key = [i \in KeyIds |-> IF i = 1 THEN KeyRing!NewKey(e) ELSE KeyRing!NoKey]
    BY DEF KeyRing!ApiKeyInit
  <2>2. /\ KeyRing!NewKey(e) \in KeyRing!Documents /\ KeyRing!NoKey \in KeyRing!Documents
        /\ KeyRing!NewKey(e).there /\ KeyRing!NewKey(e).active /\ KeyRing!NewKey(e).expires # "past"
        /\ ~KeyRing!NoKey.there
    BY DEF KeyRing!NewKey, KeyRing!NoKey, KeyRing!Documents
  <2>3. /\ change = [c \in Requests |-> KeyRing!NoChange]
        /\ keys = 1 /\ held = {1} /\ spoilt = FALSE /\ revoked = {}
    BY DEF KeyRing!ApiKeyInit
  <2>4. KeyRing!NoChange \in [pc : ChangeSteps, id : KeyIds, new : KeyIds, entity : KeyRing!Documents]
        /\ KeyRing!NoChange.pc = "rest" /\ KeyRing!NoChange.id = 1
    BY <2>2, KeyNumbers DEF KeyRing!NoChange, ChangeSteps
  <2>5. \A i \in KeyIds : i =< 1 <=> i = 1
    BY KeyNumbers
  <2>6. KeyTypeInv
    BY <2>1, <2>2, <2>3, <2>4, <2>5, KeyNumbers DEF KeyTypeInv
  <2>7. RevokedInv
    BY <2>3 DEF RevokedInv
  <2>8. ServedInv
    BY <2>1, <2>2, <2>3, <2>4, <2>5 DEF ServedInv
  <2> QED BY <2>6, <2>7, <2>8 DEF KeysInv
<1>2. KeysInv /\ [JobsNext]_<<part, allVars>> => KeysInv'
  BY PartSteps, KeysStep
<1> QED BY <1>1, <1>2, KeysServe, PTL DEF JobsSpec

-----------------------------------------------------------------------------
(* Application summaries *)

\* The summaries are rebuilt by the tasks of one process.
OneProcess == \A p, q \in Processes : p = q

SummaryTasks == [pc : {"rest", "wait", "drop", "insert", "index", "rename", "queue", "match"},
                 rows : SUBSET Apps, todo : SUBSET Apps, match : BOOLEAN]

Rebuilding(t) == task[t].pc \in {"drop", "insert", "index", "rename"}

Counts(docs, S) == \A a \in Apps : docs[a] = IF a \in S THEN 1 ELSE 0

\* The task that rebuilds, which holds the lock, finds in the temporary
\* collection what it has inserted itself.
SummaryInv ==
  /\ active \subseteq Apps
  /\ tmp \in [there : BOOLEAN, unique : BOOLEAN, docs : [Apps -> Nat]]
  /\ holder \in [Processes -> Summaries!Tasks \cup {NoTask}]
  /\ task \in [Summaries!Tasks -> SummaryTasks]
  /\ \A t \in Summaries!Tasks :
       /\ Rebuilding(t) <=> holder[Summaries!Home(t)] = t
       /\ task[t].pc = "drop" => task[t].todo = task[t].rows
       /\ task[t].pc = "insert" => /\ ~tmp.unique /\ task[t].todo \subseteq task[t].rows
                                   /\ Counts(tmp.docs, task[t].rows \ task[t].todo)
       /\ task[t].pc \in {"index", "rename"} => Counts(tmp.docs, task[t].rows)
       /\ task[t].pc = "rename" => tmp.there
  /\ Counts(main, published)

LEMMA SummaryStep ==
  ASSUME OneProcess, SummaryInv, [Summaries!SummaryNext]_summaryVars
  PROVE  SummaryInv'
<1>a. /\ active \subseteq Apps
      /\ tmp \in [there : BOOLEAN, unique : BOOLEAN, docs : [Apps -> Nat]]
      /\ holder \in [Processes -> Summaries!Tasks \cup {NoTask}]
      /\ task \in [Summaries!Tasks -> SummaryTasks]
      /\ Counts(main, published)
  BY DEF SummaryInv
<1>h. /\ \A t \in Summaries!Tasks : Summaries!Home(t) \in Processes
      /\ \A t, u \in Summaries!Tasks : Summaries!Home(t) = Summaries!Home(u)
      /\ NoTask \notin Summaries!Tasks
  BY JobsAssumption DEF OneProcess, Summaries!SummaryAssumption, Summaries!Tasks, Summaries!Home
<1>b. \A t \in Summaries!Tasks : Rebuilding(t) <=> holder[Summaries!Home(t)] = t
  BY DEF SummaryInv
\* Only one task rebuilds at a time.
<1>o. \A t, u \in Summaries!Tasks : Rebuilding(t) /\ Rebuilding(u) => t = u
  BY <1>b, <1>h
\* A step of a task that rebuilds neither before nor after it.
<1>q. ASSUME NEW t \in Summaries!Tasks, NEW r \in SummaryTasks, task' = [task EXCEPT ![t] = r],
             ~Rebuilding(t), r.pc \in {"rest", "wait", "queue", "match"}, active' \subseteq Apps,
             UNCHANGED <<main, tmp, holder, published>>
      PROVE  SummaryInv'
  <2>1. task'[t] = r /\ \A u \in Summaries!Tasks : u # t => task'[u] = task[u]
    BY <1>a, <1>q
  <2>2. task' \in [Summaries!Tasks -> SummaryTasks]
    BY <1>a, <1>q
  <2>3. \A u \in Summaries!Tasks :
          /\ Rebuilding(u)' <=> Rebuilding(u)
          /\ Rebuilding(u) => task'[u] = task[u]
    BY <1>q, <2>1 DEF Rebuilding
  <2> QED BY <1>a, <1>q, <2>2, <2>3 DEF SummaryInv, Rebuilding, Counts
\* The rebuild of a task ends, and its lock is released.
<1>r. ASSUME NEW t \in Summaries!Tasks, Rebuilding(t), Summaries!Release(t), Counts(main', published'),
             tmp' \in [there : BOOLEAN, unique : BOOLEAN, docs : [Apps -> Nat]], UNCHANGED active
      PROVE  SummaryInv'
  <2>0. Summaries!AfterRebuild(t) \in SummaryTasks /\ Summaries!AfterRebuild(t).pc \in {"rest", "queue"}
    BY DEF Summaries!AfterRebuild, Summaries!AtRest, SummaryTasks
  <2>1. PICK r \in SummaryTasks : r.pc \in {"rest", "queue"} /\ task' = [task EXCEPT ![t] = r]
    BY <1>r, <2>0 DEF Summaries!Release
  <2>2. task'[t] = r /\ \A u \in Summaries!Tasks : u # t => task'[u] = task[u]
    BY <1>a, <2>1
  <2>3. \A u \in Summaries!Tasks : ~Rebuilding(u)'
    BY <1>o, <1>r, <2>1, <2>2 DEF Rebuilding
  <2>4. holder' \in [Processes -> Summaries!Tasks \cup {NoTask}]
        /\ \A u \in Summaries!Tasks : holder'[Summaries!Home(u)] # u
    BY <1>a, <1>h, <1>r DEF Summaries!Release
  <2> QED BY <1>a, <1>r, <2>1, <2>3, <2>4 DEF SummaryInv, Rebuilding
\* A step of the task that rebuilds.
<1>s. ASSUME NEW t \in Summaries!Tasks, NEW r \in SummaryTasks, task' = [task EXCEPT ![t] = r],
             Rebuilding(t), r.pc \in {"insert", "index", "rename"},
             tmp' \in [there : BOOLEAN, unique : BOOLEAN, docs : [Apps -> Nat]],
             Counts(tmp'.docs, IF r.pc = "insert" THEN r.rows \ r.todo ELSE r.rows),
             r.pc = "insert" => ~tmp'.unique /\ r.todo \subseteq r.rows, r.pc = "rename" => tmp'.there,
             UNCHANGED <<active, main, holder, published>>
      PROVE  SummaryInv'
  <2>1. task'[t] = r /\ \A u \in Summaries!Tasks : u # t => task'[u] = task[u]
    BY <1>a, <1>s
  <2>2. task' \in [Summaries!Tasks -> SummaryTasks]
    BY <1>a, <1>s
  <2>3. \A u \in Summaries!Tasks : /\ Rebuilding(u)' <=> Rebuilding(u)
                                   /\ Rebuilding(u) => u = t
    BY <1>o, <1>s, <2>1 DEF Rebuilding
  <2>4. \A u \in Summaries!Tasks : Rebuilding(u)' <=> holder'[Summaries!Home(u)] = u
    BY <1>s, <2>3 DEF SummaryInv
  <2>5. \A u \in Summaries!Tasks :
          /\ task'[u].pc # "drop"
          /\ task'[u].pc = "insert" => /\ ~tmp'.unique /\ task'[u].todo \subseteq task'[u].rows
                                       /\ Counts(tmp'.docs, task'[u].rows \ task'[u].todo)
          /\ task'[u].pc \in {"index", "rename"} => Counts(tmp'.docs, task'[u].rows)
          /\ task'[u].pc = "rename" => tmp'.there
    BY <1>s, <2>1, <2>3 DEF Rebuilding
  <2> QED BY <1>a, <1>s, <2>2, <2>4, <2>5 DEF SummaryInv, Counts
<1>0. CASE UNCHANGED summaryVars
  BY <1>0 DEF summaryVars, SummaryInv, Rebuilding, Counts
<1>1. ASSUME NEW a \in Apps, Summaries!Install(a) \/ Summaries!Confirm(a) \/ Summaries!Dismiss(a)
      PROVE  SummaryInv'
  <2>1. active' \subseteq Apps /\ UNCHANGED <<main, tmp, holder, task, published>>
    BY <1>1, <1>a DEF Summaries!Install, Summaries!Confirm, Summaries!Dismiss
  <2> QED BY <1>a, <2>1 DEF SummaryInv, Rebuilding, Counts
<1>2. ASSUME NEW p \in Processes, Summaries!Crash(p) PROVE SummaryInv'
  <2>1. \A t \in Summaries!Tasks : task'[t] = Summaries!AtRest
    BY <1>2, <1>h DEF Summaries!Crash, OneProcess
  <2>2. Summaries!AtRest \in SummaryTasks /\ Summaries!AtRest.pc = "rest"
    BY DEF Summaries!AtRest, SummaryTasks
  <2>3. task' \in [Summaries!Tasks -> SummaryTasks] /\ \A t \in Summaries!Tasks : task'[t].pc = "rest"
    BY <1>2, <2>1, <2>2 DEF Summaries!Crash
  <2>4. holder' \in [Processes -> Summaries!Tasks \cup {NoTask}]
        /\ \A t \in Summaries!Tasks : holder'[Summaries!Home(t)] # t
    BY <1>2, <1>a, <1>h DEF Summaries!Crash, OneProcess
  <2>5. UNCHANGED <<active, main, tmp, published>>
    BY <1>2 DEF Summaries!Crash
  <2> QED BY <1>a, <2>3, <2>4, <2>5 DEF SummaryInv, Rebuilding, Counts
<1>3. ASSUME NEW t \in Summaries!Tasks, Summaries!Ask(t) PROVE SummaryInv'
  <2>1. PICK pc \in {"wait", "queue"}, match \in BOOLEAN :
          task' = [task EXCEPT ![t] = [Summaries!AtRest EXCEPT !.pc = pc, !.match = match]]
    BY <1>3 DEF Summaries!Ask
  <2>2. [Summaries!AtRest EXCEPT !.pc = pc, !.match = match] \in SummaryTasks
        /\ [Summaries!AtRest EXCEPT !.pc = pc, !.match = match].pc = pc
    BY DEF Summaries!AtRest, SummaryTasks
  <2>3. ~Rebuilding(t) /\ UNCHANGED <<active, main, tmp, holder, published>>
    BY <1>3 DEF Summaries!Ask, Rebuilding
  <2> QED BY <1>a, <1>q, <2>1, <2>2, <2>3
<1>4. ASSUME NEW t \in Summaries!Tasks, Summaries!ReadRows(t) PROVE SummaryInv'
  <2>1. /\ task[t].pc = "wait" /\ ~Rebuilding(t) /\ holder[Summaries!Home(t)] = NoTask
        /\ UNCHANGED <<active, main, tmp, published>>
    BY <1>4 DEF Summaries!ReadRows, Rebuilding
  <2>2. CASE task' = [task EXCEPT ![t] = Summaries!AfterRebuild(t)] /\ UNCHANGED holder
    <3>1. Summaries!AfterRebuild(t) \in SummaryTasks /\ Summaries!AfterRebuild(t).pc \in {"rest", "queue"}
      BY DEF Summaries!AfterRebuild, Summaries!AtRest, SummaryTasks
    <3> QED BY <1>a, <1>q, <2>1, <2>2, <3>1
  <2>3. CASE /\ holder' = [holder EXCEPT ![Summaries!Home(t)] = t]
             /\ task' = [task EXCEPT ![t] = [@ EXCEPT !.pc = "drop", !.rows = active, !.todo = active]]
    <3> DEFINE r == [task[t] EXCEPT !.pc = "drop", !.rows = active, !.todo = active]
    <3>1. /\ r \in SummaryTasks /\ r.pc = "drop" /\ r.todo = r.rows
          /\ task' = [task EXCEPT ![t] = r]
      <4>1. task[t] \in SummaryTasks
        BY <1>a
      <4> QED BY <1>a, <2>3, <4>1 DEF SummaryTasks
    <3> HIDE DEF r
    <3>2. task'[t] = r /\ \A u \in Summaries!Tasks : u # t => task'[u] = task[u]
      BY <1>a, <3>1
    <3>3. \A u \in Summaries!Tasks : ~Rebuilding(u)
      <4>1. \A u \in Summaries!Tasks : holder[Summaries!Home(u)] # u
        BY <1>h, <2>1
      <4> QED BY <1>b, <4>1
    <3>4. holder' \in [Processes -> Summaries!Tasks \cup {NoTask}]
          /\ \A u \in Summaries!Tasks : holder'[Summaries!Home(u)] = t
      BY <1>a, <1>h, <2>3
    <3>5. \A u \in Summaries!Tasks : /\ Rebuilding(u)' <=> u = t
                                     /\ task'[u].pc \notin {"insert", "index", "rename"}
                                     /\ task'[u].pc = "drop" => task'[u].todo = task'[u].rows
      BY <3>1, <3>2, <3>3 DEF Rebuilding
    <3> QED BY <1>a, <2>1, <3>1, <3>4, <3>5 DEF SummaryInv, Counts
  <2> QED BY <1>4, <2>2, <2>3 DEF Summaries!ReadRows
<1>5. ASSUME NEW t \in Summaries!Tasks, Summaries!DropTmp(t) PROVE SummaryInv'
  <2> DEFINE r == [task[t] EXCEPT !.pc = "insert"]
  <2>1. /\ r \in SummaryTasks /\ r.pc = "insert" /\ r.todo = r.rows
        /\ task' = [task EXCEPT ![t] = r] /\ Rebuilding(t)
    <3>1. task[t] \in SummaryTasks /\ task[t].todo = task[t].rows /\ Rebuilding(t)
      BY <1>5, <1>a DEF Summaries!DropTmp, SummaryInv, Rebuilding
    <3> QED BY <1>5, <3>1 DEF Summaries!DropTmp, Summaries!To, SummaryTasks
  <2> HIDE DEF r
  <2>2. /\ tmp' \in [there : BOOLEAN, unique : BOOLEAN, docs : [Apps -> Nat]]
        /\ ~tmp'.unique /\ \A a \in Apps : tmp'.docs[a] = 0
    BY <1>5 DEF Summaries!DropTmp, Summaries!NoTmp, Summaries!None
  <2>3. Counts(tmp'.docs, r.rows \ r.todo) /\ UNCHANGED <<active, main, holder, published>>
    BY <1>5, <2>1, <2>2 DEF Counts, Summaries!DropTmp
  <2> QED BY <1>s, <2>1, <2>2, <2>3
<1>6. ASSUME NEW t \in Summaries!Tasks, NEW a \in Apps, Summaries!Insert(t, a) PROVE SummaryInv'
  <2> DEFINE step == IF task[t].todo = {a} THEN "index" ELSE task[t].pc
             r == [task[t] EXCEPT !.todo = task[t].todo \ {a}, !.pc = step]
  <2>1. /\ task[t].pc = "insert" /\ a \in task[t].todo /\ task[t].todo \subseteq task[t].rows
        /\ ~tmp.unique /\ Counts(tmp.docs, task[t].rows \ task[t].todo) /\ Rebuilding(t)
        /\ task[t] \in SummaryTasks
    BY <1>6, <1>a DEF Summaries!Insert, SummaryInv, Rebuilding
  <2>2. /\ tmp' = [tmp EXCEPT !.there = TRUE, !.docs[a] = @ + 1]
        /\ task' = [task EXCEPT ![t].todo = @ \ {a}, ![t].pc = step]
        /\ UNCHANGED <<active, main, holder, published>>
    BY <1>6, <2>1 DEF Summaries!Insert
  <2>3. task' = [task EXCEPT ![t] = r]
    <3> HIDE DEF step
    <3> QED BY <1>a, <2>2 DEF SummaryTasks
  <2>4. /\ step \in {"insert", "index"} /\ (step = "index" => task[t].todo = {a})
        /\ step = "insert" \/ task[t].todo \ {a} = {}
    BY <2>1
  <2> HIDE DEF step
  <2>5. /\ r \in SummaryTasks /\ r.pc = step /\ r.rows = task[t].rows
        /\ r.todo = task[t].todo \ {a}
    BY <2>1, <2>4 DEF SummaryTasks
  <2> HIDE DEF r
  <2>6. /\ tmp' \in [there : BOOLEAN, unique : BOOLEAN, docs : [Apps -> Nat]]
        /\ ~tmp'.unique /\ tmp'.docs = [tmp.docs EXCEPT ![a] = tmp.docs[a] + 1]
    <3>1. tmp' = [there |-> TRUE, unique |-> tmp.unique, docs |-> [tmp.docs EXCEPT ![a] = @ + 1]]
      BY <1>a, <2>2
    <3>2. [tmp.docs EXCEPT ![a] = tmp.docs[a] + 1] \in [Apps -> Nat]
      BY <1>a
    <3> QED BY <1>a, <2>1, <3>1, <3>2
  <2>7. \A b \in Apps : tmp'.docs[b] = IF b \in r.rows \ r.todo THEN 1 ELSE 0
    BY <1>a, <2>1, <2>5, <2>6 DEF Counts
  <2>8. r.pc = "insert" \/ r.rows \ r.todo = r.rows
    BY <2>4, <2>5
  <2>9. Counts(tmp'.docs, IF r.pc = "insert" THEN r.rows \ r.todo ELSE r.rows)
    BY <2>7, <2>8 DEF Counts
  <2> QED BY <1>s, <2>1, <2>2, <2>3, <2>4, <2>5, <2>6, <2>9
<1>7. ASSUME NEW t \in Summaries!Tasks, Summaries!CreateIndex(t) PROVE SummaryInv'
  <2>1. /\ task[t].pc = "index" /\ Counts(tmp.docs, task[t].rows) /\ Rebuilding(t)
        /\ task[t] \in SummaryTasks /\ UNCHANGED <<active, main, published>>
    BY <1>7, <1>a DEF Summaries!CreateIndex, SummaryInv, Rebuilding
  <2>2. CASE Summaries!Release(t) /\ UNCHANGED tmp
    BY <1>a, <1>r, <2>1, <2>2
  <2>3. CASE /\ tmp' = [tmp EXCEPT !.there = TRUE, !.unique = TRUE]
             /\ Summaries!To(t, "rename") /\ UNCHANGED holder
    <3> DEFINE r == [task[t] EXCEPT !.pc = "rename"]
    <3>1. /\ r \in SummaryTasks /\ r.pc = "rename" /\ r.rows = task[t].rows
          /\ task' = [task EXCEPT ![t] = r]
      BY <1>a, <2>1, <2>3 DEF Summaries!To, SummaryTasks
    <3> HIDE DEF r
    <3>2. /\ tmp' \in [there : BOOLEAN, unique : BOOLEAN, docs : [Apps -> Nat]]
          /\ tmp'.there /\ tmp'.docs = tmp.docs
      BY <1>a, <2>3
    <3> QED BY <1>s, <2>1, <2>3, <3>1, <3>2
  <2> QED BY <1>7, <2>2, <2>3 DEF Summaries!CreateIndex
<1>8. ASSUME NEW t \in Summaries!Tasks, Summaries!Rename(t) PROVE SummaryInv'
  <2>1. /\ Counts(tmp.docs, task[t].rows) /\ tmp.there /\ Rebuilding(t)
        /\ Summaries!Release(t) /\ UNCHANGED active
    BY <1>8 DEF Summaries!Rename, SummaryInv, Rebuilding
  <2>2. main' = tmp.docs /\ published' = task[t].rows /\ tmp' = Summaries!NoTmp
    BY <1>8, <2>1 DEF Summaries!Rename
  <2>3. Counts(main', published')
    BY <2>1, <2>2
  <2>4. tmp' \in [there : BOOLEAN, unique : BOOLEAN, docs : [Apps -> Nat]]
    BY <2>2 DEF Summaries!NoTmp, Summaries!None
  <2> QED BY <1>r, <2>1, <2>3, <2>4
<1>9. ASSUME NEW t \in Summaries!Tasks, Summaries!BeginMatch(t) \/ Summaries!EndMatch(t)
      PROVE  SummaryInv'
  <2>1. PICK r \in SummaryTasks : r.pc \in {"rest", "match"} /\ task' = [task EXCEPT ![t] = r]
    BY <1>9, <1>a DEF Summaries!BeginMatch, Summaries!EndMatch, Summaries!AtRest, SummaryTasks
  <2>2. ~Rebuilding(t) /\ UNCHANGED <<active, main, tmp, holder, published>>
    BY <1>9 DEF Summaries!BeginMatch, Summaries!EndMatch, Rebuilding
  <2> QED BY <1>a, <1>q, <2>1, <2>2
<1>10. ASSUME NEW t \in Summaries!Tasks, NEW a \in Apps, Summaries!Match(t, a) PROVE SummaryInv'
  <2> DEFINE r == [task[t] EXCEPT !.todo = task[t].todo \ {a}]
  <2>1. r \in SummaryTasks /\ r.pc = "match" /\ task' = [task EXCEPT ![t] = r]
    <3>1. task[t] \in SummaryTasks
      BY <1>a
    <3> QED BY <1>10, <3>1 DEF Summaries!Match, SummaryTasks
  <2> HIDE DEF r
  <2>2. ~Rebuilding(t) /\ UNCHANGED <<active, main, tmp, holder, published>>
    BY <1>10 DEF Summaries!Match, Rebuilding
  <2> QED BY <1>a, <1>q, <2>1, <2>2
<1>11. ASSUME NEW t \in Summaries!Tasks, Summaries!Raise(t) PROVE SummaryInv'
  <2>1. UNCHANGED <<active, main, tmp, published>>
    BY <1>11 DEF Summaries!Raise
  <2>2. CASE holder[Summaries!Home(t)] = t /\ Summaries!Release(t)
    <3>1. Rebuilding(t)
      BY <2>2 DEF SummaryInv
    <3> QED BY <1>a, <1>r, <2>1, <2>2, <3>1
  <2>3. CASE /\ holder[Summaries!Home(t)] # t /\ UNCHANGED holder
             /\ task' = [task EXCEPT ![t] = Summaries!AtRest]
    <3>1. ~Rebuilding(t)
      BY <2>3 DEF SummaryInv
    <3>2. Summaries!AtRest \in SummaryTasks /\ Summaries!AtRest.pc = "rest"
      BY DEF Summaries!AtRest, SummaryTasks
    <3> QED BY <1>a, <1>q, <2>1, <2>3, <3>1, <3>2
  <2> QED BY <1>11, <2>2, <2>3 DEF Summaries!Raise
<1> QED BY <1>0, <1>1, <1>2, <1>3, <1>4, <1>5, <1>6, <1>7, <1>8, <1>9, <1>10, <1>11
    DEF Summaries!SummaryNext

\* In one process, readers see all the applications one rebuild has read, each
\* once, whatever fails or dies in the middle of a rebuild.
THEOREM SummariesWholeHolds ==
  ASSUME OneProcess
  PROVE  JobsSpec => []SummariesWhole
<1>1. JobsInit => SummaryInv
  <2> SUFFICES ASSUME Summaries!SummaryInit PROVE SummaryInv
    BY DEF JobsInit
  <2>1. Summaries!AtRest \in SummaryTasks /\ Summaries!AtRest.pc = "rest"
    BY DEF Summaries!AtRest, SummaryTasks
  <2>2. /\ task \in [Summaries!Tasks -> SummaryTasks]
        /\ \A t \in Summaries!Tasks : task[t].pc = "rest"
    BY <2>1 DEF Summaries!SummaryInit
  <2>3. tmp \in [there : BOOLEAN, unique : BOOLEAN, docs : [Apps -> Nat]]
    BY DEF Summaries!SummaryInit, Summaries!NoTmp, Summaries!None
  <2>4. Counts(main, published)
    BY DEF Summaries!SummaryInit, Summaries!None, Counts
  <2>5. \A t \in Summaries!Tasks : holder[Summaries!Home(t)] # t
    BY JobsAssumption DEF Summaries!SummaryAssumption, Summaries!SummaryInit, Summaries!Home,
       Summaries!Tasks
  <2> QED BY <2>2, <2>3, <2>4, <2>5 DEF SummaryInv, Rebuilding, Summaries!SummaryInit
<1>2. SummaryInv => SummariesWhole
  BY DEF SummaryInv, Counts, SummariesWhole, Summaries!SummariesWhole
<1>3. SummaryInv /\ [JobsNext]_<<part, allVars>> => SummaryInv'
  BY PartSteps, SummaryStep
<1> QED BY <1>1, <1>2, <1>3, PTL DEF JobsSpec

-----------------------------------------------------------------------------
(* Violation alerts *)

CheckResults == [Checks -> [at : Nat, found : SUBSET Alerts!Violations]]

AlertRuns ==
  [pc : {"free", "list", "check", "say"}, scope : SUBSET Checks,
   prev : SUBSET Alerts!Violations, todo : SUBSET Checks, result : CheckResults,
   new : SUBSET Alerts!Violations, gone : SUBSET Alerts!Violations, seen : SUBSET Alerts!Violations]

\* A result is about its check, and was stamped in the past.
Own(results, t) == \A c \in Checks : /\ results[c].at =< t
                                     /\ \A v \in results[c].found : v[1] = c

AlertTypeInv ==
  /\ domain \in {"enforcement", "compliance"} /\ now \in Nat
  /\ violating \subseteq Checks \X Fleet
  /\ latest \in CheckResults /\ Own(latest, now)
  /\ run \in [CheckRuns -> AlertRuns] /\ \A r \in CheckRuns : Own(run[r].result, now)

Stored(v) == v \in latest[v[1]].found

\* What a run compares with is what was announced so far; from then on, the
\* words yet to be said make up the difference.
RunInv(r) ==
  /\ run[r].pc \in {"list", "check"} =>
       /\ domain = "enforcement" => run[r].scope = Checks
       /\ \A v \in Alerts!Violations : /\ word[v] = "new" <=> Stored(v)
                                       /\ v \in run[r].prev <=> v[1] \in run[r].scope /\ Stored(v)
  /\ run[r].pc = "list" => run[r].result = Alerts!NoRun.result
  /\ run[r].pc = "check" =>
       /\ run[r].todo \subseteq run[r].scope
       /\ \A c \in Checks : IF c \in run[r].scope \ run[r].todo THEN run[r].result[c].at > latest[c].at
                            ELSE run[r].result[c] = Alerts!Nothing
  /\ run[r].pc = "say" =>
       \A v \in Alerts!Violations :
         /\ word[v] = "new" <=> (Stored(v) /\ v \notin run[r].new) \/ v \in run[r].gone
         /\ v \in run[r].new => Stored(v)
         /\ v \in run[r].gone => ~Stored(v)

SteadyInv ==
  /\ enabled = Checks
  /\ \A q, r \in CheckRuns : run[q].pc # "free" /\ run[r].pc # "free" => q = r
  /\ \A r \in CheckRuns : RunInv(r)
  /\ Alerts!Quiet => \A v \in Alerts!Violations : word[v] = "new" <=> Stored(v)

AlertsInv == AlertTypeInv /\ (steady => SteadyInv)

LEMMA AlertsStep == AlertsInv /\ [Alerts!AlertNext]_alertVars => AlertsInv'
<1> SUFFICES ASSUME AlertTypeInv, steady => SteadyInv, [Alerts!AlertNext]_alertVars
             PROVE  AlertTypeInv' /\ (steady' => SteadyInv')
  BY DEF AlertsInv
<1>a. /\ domain \in {"enforcement", "compliance"} /\ now \in Nat
      /\ violating \subseteq Checks \X Fleet
      /\ latest \in CheckResults /\ run \in [CheckRuns -> AlertRuns]
  BY DEF AlertTypeInv
<1>v. \A v \in Alerts!Violations : v[1] \in Checks
  BY DEF Alerts!Violations
<1>n. /\ Alerts!Nothing \in [at : Nat, found : SUBSET Alerts!Violations]
      /\ Alerts!Nothing.at = 0 /\ Alerts!Nothing.found = {}
      /\ Alerts!NoRun.result \in CheckResults
      /\ \A c \in Checks : Alerts!NoRun.result[c] = Alerts!Nothing
      /\ Alerts!NoRun \in AlertRuns /\ Alerts!NoRun.pc = "free"
  BY DEF Alerts!Nothing, Alerts!NoRun, AlertRuns, CheckResults
<1>m. Own(Alerts!NoRun.result, now)
  BY <1>a, <1>n DEF Own
\* A step of one run, while the others do nothing.
<1>w. ASSUME NEW r \in CheckRuns, NEW w \in AlertRuns, run' = [run EXCEPT ![r] = w]
      PROVE  /\ run' \in [CheckRuns -> AlertRuns]
             /\ run'[r] = w /\ \A q \in CheckRuns : q # r => run'[q] = run[q]
  BY <1>a, <1>w
<1>t. ASSUME NEW r \in CheckRuns, NEW w \in AlertRuns, run' = [run EXCEPT ![r] = w],
             Own(w.result, now'), Own(latest', now'), latest' \in CheckResults, now' \in Nat, now =< now',
             UNCHANGED <<domain, violating>>
      PROVE  AlertTypeInv'
  <2>1. run' \in [CheckRuns -> AlertRuns] /\ run'[r] = w
        /\ \A q \in CheckRuns : q # r => run'[q] = run[q]
    BY <1>w, <1>t
  <2>2. ASSUME NEW q \in CheckRuns, q # r PROVE Own(run'[q].result, now')
    <3>1. Own(run[q].result, now) /\ run[q].result \in CheckResults
      BY <1>a DEF AlertTypeInv, AlertRuns
    <3>2. \A c \in Checks : run[q].result[c].at \in Nat
      BY <3>1 DEF CheckResults
    <3>3. \A c \in Checks : run[q].result[c].at =< now'
      BY <1>a, <1>t, <3>1, <3>2 DEF Own
    <3> QED BY <2>1, <2>2, <3>1, <3>3 DEF Own
  <2>3. Own(run'[r].result, now')
    BY <1>t, <2>1 DEF Own
  <2>4. \A q \in CheckRuns : Own(run'[q].result, now')
    BY <2>2, <2>3
  <2> QED BY <1>a, <1>t, <2>1, <2>4 DEF AlertTypeInv
<1>s. ASSUME NEW r \in CheckRuns, NEW w \in AlertRuns, run' = [run EXCEPT ![r] = w],
             \A q \in CheckRuns : q # r => run[q].pc = "free", enabled' = Checks, RunInv(r)',
             w.pc = "free" => \A v \in Alerts!Violations : (word'[v] = "new" <=> Stored(v)')
      PROVE  SteadyInv'
  <2>1. run'[r] = w /\ \A q \in CheckRuns : q # r => run'[q].pc = "free"
    BY <1>w, <1>s
  <2>2. \A q \in CheckRuns : RunInv(q)'
    BY <1>s, <2>1 DEF RunInv
  <2>3. Alerts!Quiet' => w.pc = "free"
    BY <2>1 DEF Alerts!Quiet
  <2> QED BY <1>s, <2>1, <2>2, <2>3 DEF SteadyInv
\* The run that takes a step is the only one.
<1>o. ASSUME NEW r \in CheckRuns, SteadyInv, run[r].pc # "free"
      PROVE  /\ \A q \in CheckRuns : q # r => run[q].pc = "free"
             /\ enabled = Checks /\ RunInv(r)
  BY <1>o DEF SteadyInv
<1>0. CASE UNCHANGED alertVars
  <2>1. AlertTypeInv'
    BY <1>0 DEF alertVars, AlertTypeInv, Own
  <2>2. steady' => SteadyInv'
    BY <1>0 DEF alertVars, SteadyInv, RunInv, Stored, Alerts!Quiet
  <2> QED BY <2>1, <2>2
<1>1. ASSUME NEW v \in Checks \X Fleet, Alerts!Change(v) PROVE AlertTypeInv' /\ (steady' => SteadyInv')
  <2>1. /\ violating' \subseteq Checks \X Fleet
        /\ run' = [r \in CheckRuns |-> [run[r] EXCEPT !.seen = @ \ {v}]]
        /\ UNCHANGED <<domain, enabled, latest, now, word, steady>>
    BY <1>1, <1>a DEF Alerts!Change
  <2>2. ASSUME NEW r \in CheckRuns
        PROVE  /\ run'[r] \in AlertRuns
               /\ run'[r].pc = run[r].pc /\ run'[r].scope = run[r].scope
               /\ run'[r].prev = run[r].prev /\ run'[r].todo = run[r].todo
               /\ run'[r].result = run[r].result /\ run'[r].new = run[r].new
               /\ run'[r].gone = run[r].gone
    <3>1. run[r] \in AlertRuns
      BY <1>a
    <3>2. run'[r] = [run[r] EXCEPT !.seen = run[r].seen \ {v}]
      BY <2>1
    <3> QED BY <3>1, <3>2 DEF AlertRuns
  <2>3. AlertTypeInv'
    BY <1>a, <2>1, <2>2 DEF AlertTypeInv, Own
  <2>4. ASSUME SteadyInv PROVE SteadyInv'
    <3>1. \A r \in CheckRuns : RunInv(r)'
      BY <2>1, <2>2, <2>4 DEF SteadyInv, RunInv, Stored
    <3>2. Alerts!Quiet' => Alerts!Quiet
      BY <2>2 DEF Alerts!Quiet
    <3>3. \A q, p \in CheckRuns : run'[q].pc # "free" /\ run'[p].pc # "free" => q = p
      BY <2>2, <2>4 DEF SteadyInv
    <3>4. Alerts!Quiet => \A u \in Alerts!Violations : (word'[u] = "new" <=> Stored(u)')
      BY <2>1, <2>4 DEF SteadyInv, Stored
    <3> QED BY <2>1, <2>4, <3>1, <3>2, <3>3, <3>4 DEF SteadyInv
  <2> QED BY <2>1, <2>3, <2>4
<1>2. ASSUME NEW c \in Checks, Alerts!Toggle(c) PROVE AlertTypeInv' /\ (steady' => SteadyInv')
  BY <1>2 DEF Alerts!Toggle, AlertTypeInv, Own
<1>3. ASSUME NEW r \in CheckRuns, NEW scope \in {Checks, One}, Alerts!Begin(r, scope)
      PROVE  AlertTypeInv' /\ (steady' => SteadyInv')
  <2> DEFINE prev == Alerts!Previous(scope)
             w == [Alerts!NoRun EXCEPT !.pc = "list", !.scope = scope, !.prev = prev, !.seen = violating]
  <2>1. /\ run[r].pc = "free" /\ run' = [run EXCEPT ![r] = w]
        /\ steady' = (steady /\ (\A q \in CheckRuns : run[q].pc = "free")
                             /\ (domain = "compliance" \/ scope = Checks))
        /\ UNCHANGED <<domain, violating, enabled, latest, now, word>>
    BY <1>3 DEF Alerts!Begin
  <2>2. scope \subseteq Checks
    BY JobsAssumption DEF Alerts!AlertAssumption
  <2>3. prev = UNION {latest[c].found : c \in IF domain = "enforcement" THEN Checks ELSE scope}
    BY DEF Alerts!Previous
  <2>4. prev \subseteq Alerts!Violations
    BY <1>a, <2>2, <2>3 DEF CheckResults
  <2>5. violating \subseteq Alerts!Violations
    BY <1>a DEF Alerts!Violations
  <2> HIDE DEF prev
  <2>6. /\ w \in AlertRuns /\ w.pc = "list" /\ w.scope = scope /\ w.prev = prev
        /\ w.result = Alerts!NoRun.result
    BY <1>n, <2>2, <2>4, <2>5 DEF Alerts!NoRun, AlertRuns
  <2> HIDE DEF w
  <2>7. AlertTypeInv'
    <3>1. now' \in Nat /\ now =< now' /\ latest' \in CheckResults
      BY <1>a, <2>1
    <3>2. Own(w.result, now') /\ Own(latest', now')
      BY <1>m, <2>1, <2>6 DEF AlertTypeInv, Own
    <3> QED BY <1>t, <2>1, <2>6, <3>1, <3>2
  <2>8. ASSUME SteadyInv, steady' PROVE SteadyInv'
    <3>1. /\ \A q \in CheckRuns : run[q].pc = "free"
          /\ domain = "enforcement" => scope = Checks
          /\ enabled = Checks
      BY <1>a, <2>1, <2>8 DEF SteadyInv
    <3>2. \A v \in Alerts!Violations : (word[v] = "new" <=> Stored(v))
      BY <2>8, <3>1 DEF SteadyInv, Alerts!Quiet
    <3>3. prev = UNION {latest[c].found : c \in scope}
      BY <2>3, <3>1
    <3>4. \A v \in Alerts!Violations : v \in prev <=> v[1] \in scope /\ Stored(v)
      BY <2>2, <3>3 DEF AlertTypeInv, Own, Stored
    <3>5. run'[r] = w
      BY <1>w, <2>1, <2>6
    <3>6. RunInv(r)'
      BY <2>1, <2>6, <3>1, <3>2, <3>4, <3>5 DEF RunInv, Stored
    <3> QED BY <1>s, <2>1, <2>6, <3>1, <3>6
  <2> QED BY <2>1, <2>7, <2>8
<1>4. ASSUME NEW r \in CheckRuns, Alerts!ListChecks(r) PROVE AlertTypeInv' /\ (steady' => SteadyInv')
  <2>1. /\ run[r].pc = "list"
        /\ UNCHANGED <<domain, violating, enabled, latest, now, word, steady>>
    BY <1>4 DEF Alerts!ListChecks
  <2>2. run[r] \in AlertRuns
    BY <1>a
  <2>3. PICK todo \in SUBSET Checks :
          /\ run' = [run EXCEPT ![r] = [@ EXCEPT !.pc = "check", !.todo = todo]]
          /\ todo = run[r].scope \/ todo = run[r].scope \cap enabled
    <3>1. run[r].scope \subseteq Checks
      BY <2>2 DEF AlertRuns
    <3> QED BY <1>4, <3>1 DEF Alerts!ListChecks
  <2> DEFINE w == [run[r] EXCEPT !.pc = "check", !.todo = todo]
  <2>4. /\ w \in AlertRuns /\ w.pc = "check" /\ w.scope = run[r].scope /\ w.prev = run[r].prev
        /\ w.result = run[r].result /\ w.todo = todo
    BY <2>2 DEF AlertRuns
  <2>5. run' = [run EXCEPT ![r] = w]
    BY <1>a, <2>3
  <2> HIDE DEF w
  <2>6. AlertTypeInv'
    <3>1. now' \in Nat /\ now =< now' /\ latest' \in CheckResults
      BY <1>a, <2>1
    <3>2. Own(w.result, now') /\ Own(latest', now')
      BY <2>1, <2>4 DEF AlertTypeInv, Own
    <3> QED BY <1>t, <2>1, <2>4, <2>5, <3>1, <3>2
  <2>7. ASSUME SteadyInv PROVE SteadyInv'
    <3>1. /\ \A q \in CheckRuns : q # r => run[q].pc = "free"
          /\ enabled = Checks /\ RunInv(r)
      BY <1>o, <2>1, <2>7
    <3>2. todo = run[r].scope
      BY <2>2, <2>3, <3>1 DEF AlertRuns
    <3>3. \A c \in Checks : w.result[c] = Alerts!Nothing
      BY <1>n, <2>1, <2>4, <3>1 DEF RunInv
    <3>4. run'[r] = w
      BY <1>w, <2>4, <2>5
    <3>5. RunInv(r)'
      BY <2>1, <2>4, <3>1, <3>2, <3>3, <3>4 DEF RunInv, Stored
    <3> QED BY <1>s, <2>1, <2>4, <2>5, <3>1, <3>5
  <2> QED BY <2>1, <2>6, <2>7
<1>5. ASSUME NEW r \in CheckRuns, NEW c \in Checks, Alerts!Evaluate(r, c)
      PROVE  AlertTypeInv' /\ (steady' => SteadyInv')
  <2>1. /\ run[r].pc = "check" /\ c \in run[r].todo /\ now' = now + 1 /\ run[r] \in AlertRuns
        /\ UNCHANGED <<domain, violating, enabled, latest, word, steady>>
    BY <1>5, <1>a DEF Alerts!Evaluate
  <2>2. PICK found \in {Alerts!Found(c), Alerts!OnError(c)} :
          run' = [run EXCEPT ![r].todo = @ \ {c}, ![r].result[c] = [at |-> now', found |-> found]]
    BY <1>5 DEF Alerts!Evaluate
  <2>3. found \subseteq Alerts!Violations /\ \A v \in found : v[1] = c
    BY <1>a DEF Alerts!Found, Alerts!OnError, Alerts!Violations
  <2> DEFINE entry == [at |-> now', found |-> found]
             results == [run[r].result EXCEPT ![c] = entry]
             w == [run[r] EXCEPT !.todo = run[r].todo \ {c}, !.result = results]
  <2>4. run[r].result \in CheckResults
    BY <2>1 DEF AlertRuns
  <2>5. now' \in Nat /\ now =< now' /\ entry \in [at : Nat, found : SUBSET Alerts!Violations]
    BY <1>a, <2>1, <2>3
  <2>6. /\ results \in CheckResults /\ results[c] = entry
        /\ \A d \in Checks : d # c => results[d] = run[r].result[d]
    BY <2>4, <2>5 DEF CheckResults
  <2>7. run' = [run EXCEPT ![r] = w]
    <3> DEFINE u == [run EXCEPT ![r].todo = @ \ {c}, ![r].result[c] = entry]
    <3>1. u = [run EXCEPT ![r] = w]
      BY <1>a, <2>1 DEF AlertRuns
    <3>2. run' = u
      BY <2>2
    <3> HIDE DEF u, w
    <3> QED BY <3>1, <3>2
  <2>8. entry.at = now' /\ entry.found = found
    OBVIOUS
  <2> HIDE DEF results, entry
  <2>9. /\ w \in AlertRuns /\ w.pc = "check" /\ w.todo = run[r].todo \ {c} /\ w.result = results
        /\ w.scope = run[r].scope /\ w.prev = run[r].prev
    BY <2>1, <2>6 DEF AlertRuns
  <2> HIDE DEF w
  <2>10. \A d \in Checks : latest[d].at \in Nat /\ latest[d].at =< now /\ latest[d].at < now'
    BY <1>a, <2>1 DEF AlertTypeInv, Own, CheckResults
  <2>11. AlertTypeInv'
    <3>1. \A d \in Checks : run[r].result[d].at \in Nat /\ run[r].result[d].at =< now
      BY <2>4 DEF AlertTypeInv, Own, CheckResults
    <3>2. \A d \in Checks : results[d].at =< now'
      BY <1>a, <2>1, <2>5, <2>6, <2>8, <3>1
    <3>3. \A d \in Checks : \A v \in results[d].found : v[1] = d
      BY <2>3, <2>6, <2>8 DEF AlertTypeInv, Own
    <3>4. Own(w.result, now')
      BY <2>9, <3>2, <3>3 DEF Own
    <3>5. Own(latest', now') /\ latest' \in CheckResults
      BY <1>a, <2>1, <2>5, <2>10 DEF AlertTypeInv, Own
    <3> QED BY <1>t, <2>1, <2>5, <2>7, <2>9, <3>4, <3>5
  <2>12. ASSUME SteadyInv PROVE SteadyInv'
    <3>1. /\ \A q \in CheckRuns : q # r => run[q].pc = "free"
          /\ enabled = Checks /\ RunInv(r)
      BY <1>o, <2>1, <2>12
    <3>2. run'[r] = w
      BY <1>w, <2>7, <2>9
    <3>3. c \in run[r].scope /\ w.todo \subseteq w.scope
      BY <2>1, <2>9, <3>1 DEF RunInv
    <3>4. \A d \in Checks : IF d \in w.scope \ w.todo THEN results[d].at > latest[d].at
                            ELSE results[d] = Alerts!Nothing
      <4>1. results[c].at > latest[c].at
        BY <1>a, <2>1, <2>5, <2>6, <2>8, <2>10
      <4>2. \A d \in Checks : d # c => (d \in w.scope \ w.todo <=> d \in run[r].scope \ run[r].todo)
        BY <2>9
      <4>3. c \in w.scope \ w.todo
        BY <2>9, <3>3
      <4> QED BY <2>1, <2>6, <3>1, <4>1, <4>2, <4>3 DEF RunInv
    <3>5. RunInv(r)'
      BY <2>1, <2>9, <3>1, <3>2, <3>3, <3>4 DEF RunInv, Stored
    <3> QED BY <1>s, <2>1, <2>7, <2>9, <3>1, <3>5
  <2> QED BY <2>1, <2>11, <2>12
<1>6. ASSUME NEW r \in CheckRuns, Alerts!Store(r) PROVE AlertTypeInv' /\ (steady' => SteadyInv')
  <2> DEFINE found == UNION {run[r].result[c].found : c \in Checks}
             new == found \ run[r].prev
             gone == run[r].prev \ found
             w == [Alerts!NoRun EXCEPT !.pc = "say", !.seen = run[r].seen, !.new = new, !.gone = gone]
  <2>1. /\ run[r].pc = "check" /\ run[r].todo = {} /\ run[r] \in AlertRuns
        /\ run' = [run EXCEPT ![r] = w]
        /\ latest' = [c \in Checks |-> IF run[r].result[c].at > latest[c].at
                                       THEN run[r].result[c] ELSE latest[c]]
        /\ UNCHANGED <<domain, violating, enabled, now, word, steady>>
    BY <1>6, <1>a DEF Alerts!Store
  <2>2. /\ run[r].result \in CheckResults /\ Own(run[r].result, now)
        /\ run[r].prev \subseteq Alerts!Violations
    BY <2>1 DEF AlertRuns, AlertTypeInv
  <2>3. found \subseteq Alerts!Violations
    BY <2>2 DEF CheckResults
  <2>4. \A v \in Alerts!Violations : v \in found <=> v \in run[r].result[v[1]].found
    BY <1>v, <2>2 DEF Own
  <2> HIDE DEF found
  <2>5. new \subseteq Alerts!Violations /\ gone \subseteq Alerts!Violations
    BY <2>2, <2>3
  <2>6. \A v : (v \in new <=> v \in found /\ v \notin run[r].prev)
               /\ (v \in gone <=> v \in run[r].prev /\ v \notin found)
    OBVIOUS
  <2> HIDE DEF new, gone
  <2>7. /\ w \in AlertRuns /\ w.pc = "say" /\ w.new = new /\ w.gone = gone
        /\ w.result = Alerts!NoRun.result
    <3>1. run[r].seen \subseteq Alerts!Violations
      BY <2>1 DEF AlertRuns
    <3> QED BY <1>n, <2>5, <3>1 DEF Alerts!NoRun, AlertRuns
  <2> HIDE DEF w
  <2>8. AlertTypeInv'
    <3>1. now' \in Nat /\ now =< now'
      BY <1>a, <2>1
    <3>2. \A c \in Checks : latest'[c] \in {run[r].result[c], latest[c]}
      BY <2>1
    <3>3. latest' \in CheckResults
      BY <1>a, <2>1, <2>2 DEF CheckResults
    <3>4. Own(latest', now')
      BY <2>1, <2>2, <3>2 DEF AlertTypeInv, Own
    <3>5. Own(w.result, now')
      BY <1>m, <2>1, <2>7
    <3> QED BY <1>t, <2>1, <2>7, <3>1, <3>3, <3>4, <3>5
  <2>9. ASSUME SteadyInv PROVE SteadyInv'
    <3>1. /\ \A q \in CheckRuns : q # r => run[q].pc = "free"
          /\ enabled = Checks /\ RunInv(r)
      BY <1>o, <2>1, <2>9
    <3>2. run'[r] = w
      BY <1>w, <2>1, <2>7
    <3>3. \A c \in Checks : IF c \in run[r].scope THEN latest'[c] = run[r].result[c]
                            ELSE latest'[c] = latest[c] /\ run[r].result[c] = Alerts!Nothing
      <4>1. \A c \in Checks : latest[c].at \in Nat /\ ~(0 > latest[c].at)
        BY <1>a DEF CheckResults
      <4> QED BY <1>n, <2>1, <3>1, <4>1 DEF RunInv
    <3>4. \A v \in Alerts!Violations :
            Stored(v)' <=> v \in found \/ (v[1] \notin run[r].scope /\ Stored(v))
      BY <1>n, <1>v, <2>4, <3>3 DEF Stored
    <3>5. \A v \in Alerts!Violations : v[1] \notin run[r].scope => v \notin found
      BY <1>n, <1>v, <2>4, <3>3
    <3>6. \A v \in Alerts!Violations : /\ word[v] = "new" <=> Stored(v)
                                       /\ v \in run[r].prev <=> v[1] \in run[r].scope /\ Stored(v)
      BY <2>1, <3>1 DEF RunInv
    <3>7. \A v \in Alerts!Violations :
            /\ word[v] = "new" <=> (Stored(v)' /\ v \notin new) \/ v \in gone
            /\ v \in new => Stored(v)'
            /\ v \in gone => ~Stored(v)'
      BY <2>6, <3>4, <3>5, <3>6
    <3>8. RunInv(r)'
      BY <2>1, <2>7, <3>2, <3>7 DEF RunInv
    <3> QED BY <1>s, <2>1, <2>7, <3>1, <3>8
  <2> QED BY <2>1, <2>8, <2>9
<1>7. ASSUME NEW r \in CheckRuns, NEW c \in Checks, Alerts!Announce(r, c)
      PROVE  AlertTypeInv' /\ (steady' => SteadyInv')
  <2> DEFINE new == {v \in run[r].new : v[1] = c}
             gone == {v \in run[r].gone : v[1] = c}
  <2>1. /\ run[r].pc = "say" /\ run[r] \in AlertRuns
        /\ UNCHANGED <<domain, violating, enabled, latest, now, steady>>
    BY <1>7, <1>a DEF Alerts!Announce
  <2>2. /\ Own(run[r].result, now') /\ Own(latest', now') /\ latest' \in CheckResults
        /\ now' \in Nat /\ now =< now'
    BY <1>a, <2>1 DEF AlertTypeInv
  <2>3. new \subseteq run[r].new /\ gone \subseteq run[r].gone
    OBVIOUS
  <2>4. /\ \/ /\ run' = [run EXCEPT ![r].new = @ \ new]
              /\ word' = [v \in Alerts!Violations |-> IF v \in new THEN "new" ELSE word[v]]
           \/ /\ run' = [run EXCEPT ![r].gone = @ \ gone]
              /\ word' = [v \in Alerts!Violations |-> IF v \in gone THEN "resolved" ELSE word[v]]
    BY <1>7 DEF Alerts!Announce
  <2> HIDE DEF new, gone
  <2>5. CASE /\ run' = [run EXCEPT ![r].new = @ \ new]
             /\ word' = [v \in Alerts!Violations |-> IF v \in new THEN "new" ELSE word[v]]
    <3> DEFINE w == [run[r] EXCEPT !.new = run[r].new \ new]
    <3>1. /\ w \in AlertRuns /\ w.pc = "say" /\ w.new = run[r].new \ new /\ w.gone = run[r].gone
          /\ w.result = run[r].result
      BY <2>1 DEF AlertRuns
    <3>2. run' = [run EXCEPT ![r] = w]
      BY <1>a, <2>5
    <3> HIDE DEF w
    <3>3. AlertTypeInv'
      BY <1>t, <2>1, <2>2, <3>1, <3>2
    <3>4. ASSUME SteadyInv PROVE SteadyInv'
      <4>1. /\ \A q \in CheckRuns : q # r => run[q].pc = "free"
            /\ enabled = Checks /\ RunInv(r)
        BY <1>o, <2>1, <3>4
      <4>2. run'[r] = w
        BY <1>w, <3>1, <3>2
      <4>3. RunInv(r)'
        BY <2>1, <2>3, <2>5, <3>1, <4>1, <4>2 DEF RunInv, Stored
      <4> QED BY <1>s, <2>1, <3>1, <3>2, <4>1, <4>3
    <3> QED BY <2>1, <3>3, <3>4
  <2>6. CASE /\ run' = [run EXCEPT ![r].gone = @ \ gone]
             /\ word' = [v \in Alerts!Violations |-> IF v \in gone THEN "resolved" ELSE word[v]]
    <3> DEFINE w == [run[r] EXCEPT !.gone = run[r].gone \ gone]
    <3>1. /\ w \in AlertRuns /\ w.pc = "say" /\ w.new = run[r].new /\ w.gone = run[r].gone \ gone
          /\ w.result = run[r].result
      BY <2>1 DEF AlertRuns
    <3>2. run' = [run EXCEPT ![r] = w]
      BY <1>a, <2>6
    <3> HIDE DEF w
    <3>3. AlertTypeInv'
      BY <1>t, <2>1, <2>2, <3>1, <3>2
    <3>4. ASSUME SteadyInv PROVE SteadyInv'
      <4>1. /\ \A q \in CheckRuns : q # r => run[q].pc = "free"
            /\ enabled = Checks /\ RunInv(r)
        BY <1>o, <2>1, <3>4
      <4>2. run'[r] = w
        BY <1>w, <3>1, <3>2
      <4>3. RunInv(r)'
        BY <2>1, <2>3, <2>6, <3>1, <4>1, <4>2 DEF RunInv, Stored
      <4> QED BY <1>s, <2>1, <3>1, <3>2, <4>1, <4>3
    <3> QED BY <2>1, <3>3, <3>4
  <2> QED BY <2>4, <2>5, <2>6
<1>8. ASSUME NEW r \in CheckRuns, Alerts!AnnounceFails(r) PROVE AlertTypeInv' /\ (steady' => SteadyInv')
  <2>1. ~steady' /\ UNCHANGED <<domain, violating, latest, now>>
    BY <1>8 DEF Alerts!AnnounceFails
  <2>2. run[r] \in AlertRuns
    BY <1>a
  <2>3. PICK w \in AlertRuns : w.result = run[r].result /\ run' = [run EXCEPT ![r] = w]
    <3>1. [run[r] EXCEPT !.new = {}] \in AlertRuns /\ [run[r] EXCEPT !.new = {}, !.gone = {}] \in AlertRuns
          /\ [run[r] EXCEPT !.new = {}].result = run[r].result
          /\ [run[r] EXCEPT !.new = {}, !.gone = {}].result = run[r].result
      BY <2>2 DEF AlertRuns
    <3> QED BY <1>8, <1>a, <3>1 DEF Alerts!AnnounceFails
  <2>4. Own(w.result, now') /\ Own(latest', now')
    BY <2>1, <2>3 DEF AlertTypeInv, Own
  <2>5. now' \in Nat /\ now =< now' /\ latest' \in CheckResults
    BY <1>a, <2>1
  <2> QED BY <1>t, <2>1, <2>3, <2>4, <2>5
<1>9. ASSUME NEW r \in CheckRuns, Alerts!Finish(r) PROVE AlertTypeInv' /\ (steady' => SteadyInv')
  <2>1. /\ run[r].pc = "say" /\ run[r].new = {} /\ run[r].gone = {}
        /\ run' = [run EXCEPT ![r] = Alerts!NoRun]
        /\ UNCHANGED <<domain, violating, enabled, latest, now, word, steady>>
    BY <1>9 DEF Alerts!Finish
  <2>2. Own(Alerts!NoRun.result, now') /\ Own(latest', now')
    BY <1>m, <2>1 DEF AlertTypeInv, Own
  <2>3. AlertTypeInv'
    <3>1. now' \in Nat /\ now =< now' /\ latest' \in CheckResults
      BY <1>a, <2>1
    <3> QED BY <1>n, <1>t, <2>1, <2>2, <3>1
  <2>4. ASSUME SteadyInv PROVE SteadyInv'
    <3>1. \A v \in Alerts!Violations : word'[v] = "new" <=> Stored(v)'
      BY <1>o, <2>1, <2>4 DEF RunInv, Stored
    <3>2. RunInv(r)'
      BY <1>n, <1>w, <2>1 DEF RunInv
    <3> QED BY <1>n, <1>o, <1>s, <2>1, <2>4, <3>1, <3>2
  <2> QED BY <2>1, <2>3, <2>4
<1>10. ASSUME NEW r \in CheckRuns, Alerts!Die(r) PROVE AlertTypeInv' /\ (steady' => SteadyInv')
  <2>1. /\ run[r].pc # "free" /\ run' = [run EXCEPT ![r] = Alerts!NoRun]
        /\ steady' = (steady /\ run[r].pc # "say")
        /\ UNCHANGED <<domain, violating, enabled, latest, now, word>>
    BY <1>10 DEF Alerts!Die
  <2>2. Own(Alerts!NoRun.result, now') /\ Own(latest', now')
    BY <1>m, <2>1 DEF AlertTypeInv, Own
  <2>3. AlertTypeInv'
    <3>1. now' \in Nat /\ now =< now' /\ latest' \in CheckResults
      BY <1>a, <2>1
    <3> QED BY <1>n, <1>t, <2>1, <2>2, <3>1
  <2>4. ASSUME SteadyInv, run[r].pc # "say" PROVE SteadyInv'
    <3>1. run[r].pc \in {"list", "check"}
      BY <1>a, <2>1, <2>4 DEF AlertRuns
    <3>2. \A v \in Alerts!Violations : word'[v] = "new" <=> Stored(v)'
      BY <1>o, <2>1, <2>4, <3>1 DEF RunInv, Stored
    <3>3. RunInv(r)'
      BY <1>n, <1>w, <2>1 DEF RunInv
    <3> QED BY <1>n, <1>o, <1>s, <2>1, <2>4, <3>2, <3>3
  <2> QED BY <2>1, <2>3, <2>4
<1> QED BY <1>0, <1>1, <1>2, <1>3, <1>4, <1>5, <1>6, <1>7, <1>8, <1>9, <1>10 DEF Alerts!AlertNext

\* While runs do not overlap or fail, the last word about a violation is "new"
\* exactly if the newest result of its check has it.
THEOREM LastWordIsRightHolds == JobsSpec => []LastWordIsRight
<1>1. JobsInit => AlertsInv
  <2> SUFFICES ASSUME Alerts!AlertInit PROVE AlertsInv
    BY DEF JobsInit
  <2>1. /\ Alerts!Nothing \in [at : Nat, found : SUBSET Alerts!Violations]
        /\ Alerts!Nothing.at = 0 /\ Alerts!Nothing.found = {}
        /\ Alerts!NoRun \in AlertRuns /\ Alerts!NoRun.pc = "free"
        /\ \A c \in Checks : Alerts!NoRun.result[c] = Alerts!Nothing
    BY DEF Alerts!Nothing, Alerts!NoRun, AlertRuns, CheckResults
  <2>2. /\ latest = [c \in Checks |-> Alerts!Nothing] /\ now = 0 /\ enabled = Checks
        /\ run = [r \in CheckRuns |-> Alerts!NoRun] /\ violating = {}
        /\ domain \in {"enforcement", "compliance"}
        /\ word = [v \in Alerts!Violations |-> "none"]
    BY DEF Alerts!AlertInit
  <2>3. AlertTypeInv
    BY <2>1, <2>2 DEF AlertTypeInv, Own, CheckResults
  <2>4. \A v \in Alerts!Violations : word[v] # "new" /\ ~Stored(v)
    BY <2>1, <2>2 DEF Stored, Alerts!Violations
  <2>5. \A r \in CheckRuns : run[r].pc = "free"
    BY <2>1, <2>2
  <2> QED BY <2>2, <2>3, <2>4, <2>5 DEF AlertsInv, SteadyInv, RunInv
<1>2. AlertsInv => LastWordIsRight
  BY DEF AlertsInv, SteadyInv, Stored, LastWordIsRight, Alerts!LastWordIsRight
<1>3. AlertsInv /\ [JobsNext]_<<part, allVars>> => AlertsInv'
  BY PartSteps, AlertsStep
<1> QED BY <1>1, <1>2, <1>3, PTL DEF JobsSpec

-----------------------------------------------------------------------------
(* CrowdStrike *)

Modes == {"none", "full", "incremental"}

FalconJobs ==
  [pc : {"idle", "take", "flush", "save", "rest", "clean", "drop", "record", "clear"},
   mode : Modes, resumed : BOOLEAN, spoiled : BOOLEAN, started : Nat,
   todo : SUBSET Falcon!AllItems, buffer : SUBSET (Falcon!AllItems \X Nat), flushed : Nat]

FalconTypeInv ==
  /\ falcon \in [Falcon!AllItems -> [state : {"absent", "active", "gone"}, changed : Nat]]
  /\ copy \in [Falcon!AllItems -> [there : BOOLEAN, changed : Nat, synced : Nat, active : BOOLEAN]]
  /\ job \in [Falcon!Phases -> FalconJobs]
  /\ meta \in [Falcon!Phases -> Nat] /\ fullAt \in [Falcon!Phases -> Nat]
  /\ saved \in [Falcon!Phases -> [mode : Modes, at : Nat]]
  /\ clock \in Nat /\ sound \in [Falcon!Phases -> BOOLEAN]

\* The time is past all times, and nothing changes when a run starts.
TimesInv(p) ==
  /\ meta[p] =< clock /\ fullAt[p] =< clock
  /\ \A i \in Falcon!Items(p) :
       /\ falcon[i].changed =< clock /\ copy[i].synced =< clock
       /\ copy[i].active => copy[i].there
       /\ meta[p] = 0 \/ falcon[i].changed # meta[p]

\* Nothing was dropped under the run, and it did not go on in the middle.
Unharmed(p) == IF p = "hosts" THEN ~job[p].resumed ELSE ~job[p].spoiled

Copied(i) ==
  copy[i].there /\ copy[i].active /\ copy[i].changed = falcon[i].changed

\* What the run has to copy that was there when it started, it still has to
\* take or write, or has written.
Covers(p) ==
  \A i \in Falcon!Items(p) :
    /\ falcon[i].state = "active" /\ falcon[i].changed < job[p].started
    /\ job[p].mode = "full" \/ ~(falcon[i].changed < meta[p])
    => \/ i \in job[p].todo \/ <<i, falcon[i].changed>> \in job[p].buffer
       \/ Copied(i) /\ (job[p].mode = "full" => copy[i].synced = job[p].started)

\* What the run has read is as CrowdStrike had it when it started, or newer.
ReadsInv(p) ==
  /\ job[p].started > 0 /\ job[p].started =< clock
  /\ meta[p] =< job[p].started /\ fullAt[p] =< job[p].started
  /\ \A i \in Falcon!Items(p) :
       /\ falcon[i].changed # job[p].started /\ copy[i].synced =< job[p].started
       /\ copy[i].synced = job[p].started /\ falcon[i].changed < job[p].started =>
            falcon[i].state = "active" /\ Copied(i)
  /\ \A d \in job[p].buffer :
       /\ d[1] \in Falcon!Items(p)
       /\ falcon[d[1]].changed < job[p].started =>
            falcon[d[1]].state = "active" /\ d[2] = falcon[d[1]].changed

StepsInv(p) ==
  /\ job[p].pc # "drop" => job[p].todo \subseteq Falcon!Items(p)
  /\ job[p].pc = "drop" => p = "hosts" /\ job[p].todo \subseteq Programs
  /\ job[p].pc \in {"rest", "clean", "record"} => job[p].todo = {}
  /\ job[p].pc \in {"clean", "drop", "record"} => job[p].buffer = {}
  /\ job[p].pc \in {"clean", "drop"} => job[p].mode = "full"
  /\ job[p].pc \in {"drop", "record"} /\ job[p].mode = "full" =>
       \A i \in Falcon!Items(p) : copy[i].active => copy[i].synced = job[p].started

PhaseInv(p) ==
  /\ TimesInv(p)
  /\ job[p].pc # "idle" => /\ ReadsInv(p) /\ StepsInv(p)
                           /\ sound[p] => Unharmed(p)
                           /\ Unharmed(p) /\ job[p].pc # "clear" => Covers(p)
  /\ sound[p] => Falcon!Current(p)

FalconInv == FalconTypeInv /\ \A p \in Falcon!Phases : PhaseInv(p)

LEMMA FalconItems ==
  /\ Falcon!Phases = {"hosts", "apps"} /\ Falcon!AllItems = Hosts \cup Programs
  /\ Falcon!Items("hosts") = Hosts /\ Falcon!Items("apps") = Programs
  /\ Hosts \cap Programs = {}
  /\ \A p \in Falcon!Phases : Falcon!Items(p) \subseteq Falcon!AllItems
  /\ \A p, q \in Falcon!Phases : p # q => Falcon!Items(p) \cap Falcon!Items(q) = {}
BY JobsAssumption DEF Falcon!Phases, Falcon!AllItems, Falcon!Items, Falcon!CrowdStrikeAssumption

\* The run a step leaves behind.
LEMMA BeginIs ==
  ASSUME FalconTypeInv, NEW p \in Falcon!Phases, NEW m \in {"auto", "full", "incremental"},
         Falcon!BeginRun(p, m)
  PROVE  \E w \in FalconJobs :
           /\ job' = [job EXCEPT ![p] = w] /\ w.pc = "take" /\ w.started = clock + 1
           /\ w.resumed = (saved[p] # Falcon!Unsaved) /\ ~w.spoiled
           /\ w.todo = Falcon!Changed(p, Falcon!Since(p, w.mode)) /\ w.buffer = {}
<1> DEFINE resumed == saved[p] # Falcon!Unsaved
           mode == IF resumed THEN saved[p].mode
                   ELSE IF m # "auto" THEN m ELSE IF meta[p] = 0 THEN "full" ELSE "incremental"
           todo == Falcon!Changed(p, Falcon!Since(p, mode))
           w == [Falcon!NoJob EXCEPT !.pc = "take", !.mode = mode, !.resumed = resumed,
                                     !.started = clock + 1, !.todo = todo]
<1>1. job' = [job EXCEPT ![p] = w]
  BY DEF Falcon!BeginRun, Falcon!Tick
<1>2. mode \in Modes
  BY DEF FalconTypeInv, Modes
<1>3. todo \subseteq Falcon!AllItems
  BY FalconItems DEF Falcon!Changed
<1>4. resumed \in BOOLEAN /\ clock + 1 \in Nat
  BY DEF FalconTypeInv
<1>5. todo = Falcon!Changed(p, Falcon!Since(p, mode))
  OBVIOUS
<1>6. resumed = (saved[p] # Falcon!Unsaved)
  OBVIOUS
<1> HIDE DEF resumed, mode, todo
<1>7. /\ w \in FalconJobs /\ w.pc = "take" /\ w.started = clock + 1 /\ w.resumed = resumed
      /\ ~w.spoiled /\ w.todo = todo /\ w.buffer = {} /\ w.mode = mode
  BY <1>2, <1>3, <1>4 DEF Falcon!NoJob, FalconJobs
<1> HIDE DEF w
<1> QED BY <1>1, <1>5, <1>6, <1>7

\* A step of a run that keeps what the run is about.
SameRun(p, w) ==
  /\ w.started = job[p].started /\ w.mode = job[p].mode
  /\ w.resumed = job[p].resumed /\ w.spoiled = job[p].spoiled

LEMMA TakeIs ==
  ASSUME FalconTypeInv, NEW p \in Falcon!Phases, NEW i \in Falcon!Items(p), Falcon!Take(p, i)
  PROVE  \E w \in FalconJobs :
           /\ job' = [job EXCEPT ![p] = w] /\ w.pc \in {"take", "flush"} /\ SameRun(p, w)
           /\ w.todo = job[p].todo \ {i}
           /\ w.buffer = IF falcon[i].state = "active"
                         THEN job[p].buffer \cup {<<i, falcon[i].changed>>} ELSE job[p].buffer
<1> DEFINE buffer == IF falcon[i].state = "active"
                     THEN job[p].buffer \cup {<<i, falcon[i].changed>>} ELSE job[p].buffer
           pc == IF Falcon!Cardinality(buffer) >= FlushAt THEN "flush" ELSE "take"
           w == [job[p] EXCEPT !.todo = job[p].todo \ {i}, !.buffer = buffer, !.pc = pc]
<1>1. job[p] \in FalconJobs /\ i \in Falcon!AllItems
  BY FalconItems DEF FalconTypeInv
<1>2. buffer \subseteq Falcon!AllItems \X Nat
  BY <1>1 DEF FalconTypeInv, FalconJobs
<1>3. pc \in {"take", "flush"}
  OBVIOUS
<1>4. job' = [job EXCEPT ![p].todo = @ \ {i}, ![p].buffer = buffer, ![p].pc = pc]
  BY DEF Falcon!Take
<1>5. buffer = IF falcon[i].state = "active"
               THEN job[p].buffer \cup {<<i, falcon[i].changed>>} ELSE job[p].buffer
  OBVIOUS
<1> HIDE DEF buffer, pc
<1>6. job' = [job EXCEPT ![p] = w]
  BY <1>1, <1>4 DEF FalconTypeInv, FalconJobs
<1>7. /\ w \in FalconJobs /\ w.pc = pc /\ w.todo = job[p].todo \ {i} /\ w.buffer = buffer
      /\ w.started = job[p].started /\ w.mode = job[p].mode
      /\ w.resumed = job[p].resumed /\ w.spoiled = job[p].spoiled
  BY <1>1, <1>2, <1>3 DEF FalconJobs
<1> HIDE DEF w
<1> QED BY <1>3, <1>5, <1>6, <1>7 DEF SameRun

LEMMA WriteIs ==
  ASSUME FalconTypeInv, NEW p \in Falcon!Phases, Falcon!WriteOne(p)
  PROVE  \E d \in job[p].buffer, w \in FalconJobs :
           /\ job' = [job EXCEPT ![p] = w] /\ w.pc = job[p].pc /\ SameRun(p, w)
           /\ w.todo = job[p].todo /\ w.buffer = job[p].buffer \ {d}
           /\ d[1] \in Falcon!AllItems /\ d[2] \in Nat
           /\ copy' = [copy EXCEPT ![d[1]] = [there |-> TRUE, changed |-> d[2],
                                              synced |-> job[p].started, active |-> TRUE]]
<1>1. PICK d \in job[p].buffer :
        /\ copy' = [copy EXCEPT ![d[1]] = [there |-> TRUE, changed |-> d[2],
                                           synced |-> job[p].started, active |-> TRUE]]
        /\ job' = [job EXCEPT ![p].buffer = @ \ {d}]
  BY DEF Falcon!WriteOne
<1> DEFINE w == [job[p] EXCEPT !.buffer = job[p].buffer \ {d}]
<1>2. job[p] \in FalconJobs
  BY DEF FalconTypeInv
<1>3. d[1] \in Falcon!AllItems /\ d[2] \in Nat
  BY <1>2 DEF FalconJobs
<1>4. job' = [job EXCEPT ![p] = w]
  BY <1>1
<1>5. /\ w \in FalconJobs /\ w.pc = job[p].pc /\ w.todo = job[p].todo
      /\ w.buffer = job[p].buffer \ {d}
      /\ w.started = job[p].started /\ w.mode = job[p].mode
      /\ w.resumed = job[p].resumed /\ w.spoiled = job[p].spoiled
  BY <1>2 DEF FalconJobs
<1> HIDE DEF w
<1> QED BY <1>1, <1>3, <1>4, <1>5 DEF SameRun

LEMMA FalconTypeStep == FalconTypeInv /\ [Falcon!CrowdStrikeNext]_csVars => FalconTypeInv'
<1> SUFFICES ASSUME FalconTypeInv, [Falcon!CrowdStrikeNext]_csVars PROVE FalconTypeInv'
  OBVIOUS
<1>a. /\ falcon \in [Falcon!AllItems -> [state : {"absent", "active", "gone"}, changed : Nat]]
      /\ copy \in [Falcon!AllItems -> [there : BOOLEAN, changed : Nat, synced : Nat, active : BOOLEAN]]
      /\ job \in [Falcon!Phases -> FalconJobs]
      /\ meta \in [Falcon!Phases -> Nat] /\ fullAt \in [Falcon!Phases -> Nat]
      /\ saved \in [Falcon!Phases -> [mode : Modes, at : Nat]]
      /\ clock \in Nat /\ sound \in [Falcon!Phases -> BOOLEAN]
  BY DEF FalconTypeInv
<1>j. \A p \in Falcon!Phases : job[p] \in FalconJobs
  BY <1>a
<1>n. Falcon!NoJob \in FalconJobs /\ Falcon!Unsaved \in [mode : Modes, at : Nat]
      /\ Falcon!Absent \in [there : BOOLEAN, changed : Nat, synced : Nat, active : BOOLEAN]
  BY DEF Falcon!NoJob, Falcon!Unsaved, Falcon!Absent, FalconJobs, Modes
<1>i. "hosts" \in Falcon!Phases /\ "apps" \in Falcon!Phases /\ Programs \subseteq Falcon!AllItems
      /\ \A p \in Falcon!Phases : Falcon!Items(p) \subseteq Falcon!AllItems
  BY FalconItems
<1>c. clock + 1 \in Nat
  BY <1>a
\* The run of one phase changes.
<1>w. ASSUME NEW p \in Falcon!Phases, NEW w \in FalconJobs, job' = [job EXCEPT ![p] = w]
      PROVE  job' \in [Falcon!Phases -> FalconJobs]
  BY <1>a, <1>w
<1>g. ASSUME NEW p \in Falcon!Phases, NEW pc \in {"take", "rest", "clean", "record", "clear"},
             Falcon!Goto(p, pc)
      PROVE  job' \in [Falcon!Phases -> FalconJobs]
  <2>1. [job[p] EXCEPT !.pc = pc] \in FalconJobs
    BY <1>j DEF FalconJobs
  <2>2. job' = [job EXCEPT ![p] = [job[p] EXCEPT !.pc = pc]]
    BY <1>g DEF Falcon!Goto
  <2> QED BY <1>w, <2>1, <2>2
<1>0. CASE UNCHANGED csVars
  BY <1>0 DEF csVars, FalconTypeInv
<1>1. ASSUME NEW i \in Falcon!AllItems, NEW state \in {"active", "gone"}, Falcon!Upstream(i, state)
      PROVE  FalconTypeInv'
  BY <1>1, <1>a, <1>c DEF Falcon!Upstream, Falcon!Tick, FalconTypeInv
<1>2. ASSUME NEW p \in Falcon!Phases, NEW m \in {"auto", "full", "incremental"}, Falcon!BeginRun(p, m)
      PROVE  FalconTypeInv'
  <2>1. job' \in [Falcon!Phases -> FalconJobs]
    BY <1>2, <1>w, BeginIs
  <2>2. sound' \in [Falcon!Phases -> BOOLEAN] /\ clock' = clock + 1
        /\ UNCHANGED <<falcon, copy, meta, saved, fullAt>>
    BY <1>2, <1>a DEF Falcon!BeginRun, Falcon!Tick
  <2> QED BY <1>a, <1>c, <2>1, <2>2 DEF FalconTypeInv
<1>3. ASSUME NEW p \in Falcon!Phases, NEW i \in Falcon!Items(p), Falcon!Take(p, i) PROVE FalconTypeInv'
  <2>1. job' \in [Falcon!Phases -> FalconJobs]
    BY <1>3, <1>w, TakeIs
  <2> QED BY <1>3, <1>a, <2>1 DEF Falcon!Take, FalconTypeInv
<1>4. ASSUME NEW p \in Falcon!Phases, Falcon!WriteOne(p) PROVE FalconTypeInv'
  <2>1. PICK d \in job[p].buffer, w \in FalconJobs :
          /\ job' = [job EXCEPT ![p] = w] /\ d[1] \in Falcon!AllItems /\ d[2] \in Nat
          /\ copy' = [copy EXCEPT ![d[1]] = [there |-> TRUE, changed |-> d[2],
                                             synced |-> job[p].started, active |-> TRUE]]
    BY <1>4, WriteIs
  <2>2. job[p].started \in Nat
    BY <1>j DEF FalconJobs
  <2>3. copy' \in [Falcon!AllItems -> [there : BOOLEAN, changed : Nat, synced : Nat, active : BOOLEAN]]
    BY <1>a, <2>1, <2>2
  <2> QED BY <1>4, <1>a, <1>w, <2>1, <2>3 DEF Falcon!WriteOne, FalconTypeInv
<1>5. ASSUME NEW p \in Falcon!Phases, Falcon!LastPage(p) \/ Falcon!Fetched(p) PROVE FalconTypeInv'
  BY <1>5, <1>a, <1>g DEF Falcon!LastPage, Falcon!Fetched, FalconTypeInv
<1>6. ASSUME NEW p \in Falcon!Phases, Falcon!Flushed(p) PROVE FalconTypeInv'
  <2>1. [job[p] EXCEPT !.pc = "save", !.flushed = clock + 1] \in FalconJobs
    BY <1>c, <1>j DEF FalconJobs
  <2>2. job' = [job EXCEPT ![p] = [job[p] EXCEPT !.pc = "save", !.flushed = clock + 1]]
        /\ clock' = clock + 1
    BY <1>6 DEF Falcon!Flushed, Falcon!Tick
  <2> QED BY <1>6, <1>a, <1>c, <1>w, <2>1, <2>2 DEF Falcon!Flushed, FalconTypeInv
<1>7. ASSUME NEW p \in Falcon!Phases, Falcon!SaveCheckpoint(p) PROVE FalconTypeInv'
  <2>1. [mode |-> job[p].mode, at |-> job[p].flushed] \in [mode : Modes, at : Nat]
    BY <1>j DEF FalconJobs
  <2> QED BY <1>7, <1>a, <1>g, <2>1 DEF Falcon!SaveCheckpoint, FalconTypeInv
<1>8. ASSUME NEW p \in Falcon!Phases, Falcon!Record(p) PROVE FalconTypeInv'
  <2>1. sound' \in [Falcon!Phases -> BOOLEAN]
    BY <1>8, <1>a DEF Falcon!Record
  <2>2. job[p].started \in Nat
    BY <1>j DEF FalconJobs
  <2>3. fullAt' \in [Falcon!Phases -> Nat] /\ meta' \in [Falcon!Phases -> Nat]
    BY <1>8, <1>a, <2>2 DEF Falcon!Record
  <2> QED BY <1>8, <1>a, <1>g, <2>1, <2>3 DEF Falcon!Record, FalconTypeInv
<1>9. ASSUME NEW p \in Falcon!Phases, Falcon!ClearCheckpoint(p) \/ Falcon!Interrupt(p)
      PROVE  FalconTypeInv'
  BY <1>9, <1>a, <1>n, <1>w DEF Falcon!ClearCheckpoint, Falcon!Interrupt, FalconTypeInv
<1>10. CASE Falcon!Retry
  <2> DEFINE todo == Falcon!Changed("apps", IF job["apps"].mode = "incremental" THEN meta["apps"] ELSE 0)
  <2>1. todo \subseteq Falcon!AllItems
    BY <1>i DEF Falcon!Changed
  <2> HIDE DEF todo
  <2>2. [job["apps"] EXCEPT !.buffer = {}, !.todo = todo] \in FalconJobs
    BY <1>i, <1>j, <2>1 DEF FalconJobs
  <2>3. job' = [job EXCEPT !["apps"] = [job["apps"] EXCEPT !.buffer = {}, !.todo = todo]]
    BY <1>10 DEF Falcon!Retry, todo
  <2> QED BY <1>10, <1>a, <1>i, <1>w, <2>2, <2>3 DEF Falcon!Retry, FalconTypeInv
<1>11. CASE Falcon!Unlicensed \/ Falcon!ProgramsDropped \/ Falcon!ProgramsCleaned
  BY <1>11, <1>a, <1>g, <1>i DEF Falcon!Unlicensed, Falcon!ProgramsDropped, Falcon!ProgramsCleaned,
     FalconTypeInv
<1>12. CASE Falcon!HostsCleaned
  <2> DEFINE todo == {a \in Programs : copy[a].there}
  <2>1. todo \subseteq Falcon!AllItems
    BY <1>i
  <2> HIDE DEF todo
  <2>2. /\ [job["hosts"] EXCEPT !.pc = "drop", !.todo = todo] \in FalconJobs
        /\ [job["hosts"] EXCEPT !.pc = "record"] \in FalconJobs
    BY <1>i, <1>j, <2>1 DEF FalconJobs
  <2>3. \E w \in {[job["hosts"] EXCEPT !.pc = "drop", !.todo = todo],
                  [job["hosts"] EXCEPT !.pc = "record"]} : job' = [job EXCEPT !["hosts"] = w]
    BY <1>12 DEF Falcon!HostsCleaned, todo
  <2>4. job' \in [Falcon!Phases -> FalconJobs]
    BY <1>i, <1>w, <2>2, <2>3
  <2> QED BY <1>12, <1>a, <2>4 DEF Falcon!HostsCleaned, FalconTypeInv
<1>13. ASSUME NEW h \in Hosts, Falcon!DeleteHost(h) PROVE FalconTypeInv'
  <2>1. [job["hosts"] EXCEPT !.spoiled = TRUE] \in FalconJobs
    BY <1>i, <1>j DEF FalconJobs
  <2>2. job' = [job EXCEPT !["hosts"] = [job["hosts"] EXCEPT !.spoiled = TRUE]]
    BY <1>13 DEF Falcon!DeleteHost
  <2>3. job' \in [Falcon!Phases -> FalconJobs]
    BY <1>i, <1>w, <2>1, <2>2
  <2> QED BY <1>13, <1>a, <1>n, <2>3 DEF Falcon!DeleteHost, FalconTypeInv
<1>14. ASSUME NEW a \in Programs, Falcon!Deactivate(a) \/ Falcon!DropProgram(a) PROVE FalconTypeInv'
  <2>1. CASE Falcon!Deactivate(a)
    <3>1. copy[a] \in [there : BOOLEAN, changed : Nat, synced : Nat, active : BOOLEAN]
      BY <1>a, <1>i
    <3>2. [copy[a] EXCEPT !.active = FALSE] \in
            [there : BOOLEAN, changed : Nat, synced : Nat, active : BOOLEAN]
      BY <3>1
    <3>3. copy' = [copy EXCEPT ![a] = [copy[a] EXCEPT !.active = FALSE]]
      BY <2>1 DEF Falcon!Deactivate
    <3>4. copy' \in [Falcon!AllItems -> [there : BOOLEAN, changed : Nat, synced : Nat, active : BOOLEAN]]
      BY <1>a, <3>2, <3>3
    <3> QED BY <2>1, <1>a, <3>4 DEF Falcon!Deactivate, FalconTypeInv
  <2>2. CASE Falcon!DropProgram(a)
    <3>1. [job["hosts"] EXCEPT !.todo = job["hosts"].todo \ {a}] \in FalconJobs
          /\ \A b \in BOOLEAN : [job["apps"] EXCEPT !.spoiled = b] \in FalconJobs
      BY <1>i, <1>j DEF FalconJobs
    <3>2. job' = [job EXCEPT !["hosts"] = [job["hosts"] EXCEPT !.todo = job["hosts"].todo \ {a}],
                             !["apps"] = [job["apps"] EXCEPT !.spoiled = ~Falcon!At("apps", "idle")]]
      BY <2>2, <1>a, <1>i DEF Falcon!DropProgram
    <3>3. job' \in [Falcon!Phases -> FalconJobs]
      <4>1. (~Falcon!At("apps", "idle")) \in BOOLEAN
        BY DEF Falcon!At
      <4> QED BY <1>a, <3>1, <3>2, <4>1
    <3> QED BY <2>2, <1>a, <1>n, <3>3 DEF Falcon!DropProgram, FalconTypeInv
  <2> QED BY <1>14, <2>1, <2>2
<1> QED BY <1>0, <1>1, <1>2, <1>3, <1>4, <1>5, <1>6, <1>7, <1>8, <1>9, <1>10, <1>11, <1>12, <1>13,
           <1>14 DEF Falcon!CrowdStrikeNext, Falcon!Modify, Falcon!Retire

\* A step that leaves alone what the invariant of a phase is about.
Untouched(p) ==
  /\ job'[p] = job[p] /\ meta'[p] = meta[p] /\ fullAt'[p] = fullAt[p] /\ sound'[p] = sound[p]
  /\ clock =< clock'
  /\ \A i \in Falcon!Items(p) : falcon'[i] = falcon[i] /\ copy'[i] = copy[i]

LEMMA UntouchedPhase ==
  ASSUME NEW p \in Falcon!Phases, FalconTypeInv, clock' \in Nat, PhaseInv(p), Untouched(p)
  PROVE  PhaseInv(p)'
<1>1. TimesInv(p)'
  <2>1. \A n \in Nat : n =< clock => n =< clock'
    BY DEF Untouched, FalconTypeInv
  <2>2. /\ meta[p] \in Nat /\ fullAt[p] \in Nat
        /\ \A i \in Falcon!Items(p) : falcon[i].changed \in Nat /\ copy[i].synced \in Nat
    BY FalconItems DEF FalconTypeInv
  <2> QED BY <2>1, <2>2 DEF Untouched, TimesInv, PhaseInv
<1>2. ReadsInv(p) => ReadsInv(p)'
  <2>1. job[p].started \in Nat
    BY DEF FalconTypeInv, FalconJobs
  <2>2. job[p].started =< clock => job[p].started =< clock'
    BY <2>1 DEF Untouched, FalconTypeInv
  <2> QED BY <2>2 DEF Untouched, ReadsInv, Copied
<1>3. (StepsInv(p) => StepsInv(p)') /\ (Covers(p) => Covers(p)') /\ (Unharmed(p)' <=> Unharmed(p))
  BY DEF Untouched, StepsInv, Covers, Unharmed, Copied
<1>4. Falcon!Current(p) => Falcon!Current(p)'
  BY DEF Untouched, Falcon!Current
<1> QED BY <1>1, <1>2, <1>3, <1>4 DEF Untouched, PhaseInv

\* The numbers the invariant of a phase compares.
Numbered(p) ==
  /\ clock \in Nat /\ meta[p] \in Nat /\ fullAt[p] \in Nat /\ job[p].started \in Nat
  /\ job[p].mode \in Modes
  /\ \A i \in Falcon!Items(p) : falcon[i].changed \in Nat /\ copy[i].synced \in Nat

LEMMA FalconNumbered ==
  ASSUME NEW p \in Falcon!Phases, FalconTypeInv PROVE Numbered(p)
<1>1. job[p] \in FalconJobs /\ Falcon!Items(p) \subseteq Falcon!AllItems
  BY FalconItems DEF FalconTypeInv
<1> QED BY <1>1 DEF Numbered, FalconTypeInv, FalconJobs

\* A step of a run that reads, or turns to the next page: what it has to
\* copy stays in its hands, and what it takes is what CrowdStrike has.
GoesOn(p) ==
  /\ meta'[p] = meta[p] /\ fullAt'[p] = fullAt[p] /\ sound'[p] = sound[p] /\ clock =< clock'
  /\ \A i \in Falcon!Items(p) : falcon'[i] = falcon[i] /\ copy'[i] = copy[i]
  /\ job[p].pc # "idle"
  /\ job[p].pc = "clear" => job'[p].pc = "clear"
  /\ job'[p].started = job[p].started /\ job'[p].mode = job[p].mode
  /\ job'[p].resumed = job[p].resumed
  /\ p = "apps" => job'[p].spoiled = job[p].spoiled
  /\ \A d \in job'[p].buffer :
       \/ d \in job[p].buffer
       \/ /\ d[1] \in Falcon!Items(p)
          /\ falcon[d[1]].state = "active" /\ d[2] = falcon[d[1]].changed
  /\ \A i \in Falcon!Items(p) :
       /\ falcon[i].state = "active"
       /\ job[p].mode = "full" \/ ~(falcon[i].changed < meta[p])
       /\ i \in job[p].todo \/ <<i, falcon[i].changed>> \in job[p].buffer
       => i \in job'[p].todo \/ <<i, falcon[i].changed>> \in job'[p].buffer

LEMMA RunGoesOn ==
  ASSUME NEW p \in Falcon!Phases, FalconTypeInv, clock' \in Nat, PhaseInv(p), GoesOn(p), StepsInv(p)'
  PROVE  PhaseInv(p)'
<1>0. Numbered(p) /\ p \in {"hosts", "apps"}
  BY FalconNumbered, FalconItems
<1>t. \A n \in Nat : n =< clock => n =< clock'
  BY <1>0 DEF GoesOn, Numbered
<1>1. TimesInv(p)'
  BY <1>0, <1>t DEF GoesOn, TimesInv, PhaseInv, Numbered
<1>2. ReadsInv(p)'
  <2>1. ReadsInv(p)
    BY DEF PhaseInv, GoesOn
  <2>2. job[p].started =< clock'
    BY <1>0, <1>t, <2>1 DEF ReadsInv, Numbered
  <2>3. \A d \in job'[p].buffer :
          /\ d[1] \in Falcon!Items(p)
          /\ falcon[d[1]].changed < job[p].started =>
               falcon[d[1]].state = "active" /\ d[2] = falcon[d[1]].changed
    BY <2>1 DEF GoesOn, ReadsInv
  <2> QED BY <2>1, <2>2, <2>3 DEF GoesOn, ReadsInv, Copied
<1>3. Unharmed(p)' <=> Unharmed(p)
  BY <1>0 DEF GoesOn, Unharmed
<1>4. Unharmed(p)' /\ job'[p].pc # "clear" => Covers(p)'
  <2> SUFFICES ASSUME Unharmed(p)', job'[p].pc # "clear", NEW i \in Falcon!Items(p),
                      falcon[i].state = "active", falcon[i].changed < job[p].started,
                      job[p].mode = "full" \/ ~(falcon[i].changed < meta[p])
               PROVE  \/ i \in job'[p].todo \/ <<i, falcon[i].changed>> \in job'[p].buffer
                      \/ Copied(i) /\ (job[p].mode = "full" => copy[i].synced = job[p].started)
    BY DEF GoesOn, Covers, Copied
  <2>1. Covers(p)
    BY <1>3 DEF GoesOn, PhaseInv
  <2> QED BY <2>1 DEF GoesOn, Covers
<1>5. Falcon!Current(p) => Falcon!Current(p)'
  BY DEF GoesOn, Falcon!Current
<1> QED BY <1>1, <1>2, <1>3, <1>4, <1>5 DEF GoesOn, PhaseInv

\* A run that is over.
LEMMA RunStops ==
  ASSUME NEW p \in Falcon!Phases, FalconTypeInv, PhaseInv(p), job' = [job EXCEPT ![p] = Falcon!NoJob],
         UNCHANGED <<falcon, copy, meta, clock, sound, fullAt>>
  PROVE  PhaseInv(p)'
<1>1. job'[p].pc = "idle"
  BY DEF FalconTypeInv, Falcon!NoJob
<1>2. TimesInv(p)' /\ (Falcon!Current(p) => Falcon!Current(p)')
  BY DEF PhaseInv, TimesInv, Falcon!Current
<1> QED BY <1>1, <1>2 DEF PhaseInv

\* What changes in CrowdStrike is newer than anything a run has to have.
LEMMA UpstreamPhase ==
  ASSUME NEW p \in Falcon!Phases, FalconTypeInv, PhaseInv(p), NEW i \in Falcon!AllItems,
         NEW state \in {"active", "gone"}, Falcon!Upstream(i, state)
  PROVE  PhaseInv(p)'
<1>0. Numbered(p) /\ Falcon!Items(p) \subseteq Falcon!AllItems
  BY FalconNumbered, FalconItems
<1>1. /\ UNCHANGED <<copy, job, meta, sound, fullAt>> /\ clock' = clock + 1
      /\ falcon' = [falcon EXCEPT ![i] = [state |-> state, changed |-> clock + 1]]
  BY DEF Falcon!Upstream, Falcon!Tick
<1>2. \A j \in Falcon!Items(p) :
        \/ j # i /\ falcon'[j] = falcon[j]
        \/ j = i /\ falcon'[j].changed = clock + 1
  BY <1>0, <1>1 DEF FalconTypeInv
<1>3. \A n \in Nat : n =< clock => n =< clock' /\ n # clock + 1 /\ ~(clock + 1 < n)
  BY <1>0, <1>1 DEF Numbered
<1>4. TimesInv(p)'
  <2>1. \A j \in Falcon!Items(p) : falcon'[j].changed =< clock'
    BY <1>0, <1>1, <1>2, <1>3 DEF PhaseInv, TimesInv, Numbered
  <2>2. \A j \in Falcon!Items(p) : meta[p] = 0 \/ falcon'[j].changed # meta[p]
    BY <1>0, <1>2, <1>3 DEF PhaseInv, TimesInv, Numbered
  <2> QED BY <1>0, <1>1, <1>3, <2>1, <2>2 DEF PhaseInv, TimesInv, Numbered
<1>5. ReadsInv(p) => ReadsInv(p)'
  <2> SUFFICES ASSUME ReadsInv(p) PROVE ReadsInv(p)'
    OBVIOUS
  <2>1. job[p].started # clock + 1 /\ ~(clock + 1 < job[p].started) /\ job[p].started =< clock'
    BY <1>0, <1>3 DEF ReadsInv, Numbered
  <2>2. \A j \in Falcon!Items(p) :
          /\ falcon'[j].changed # job[p].started
          /\ falcon'[j].changed < job[p].started => falcon'[j] = falcon[j]
    BY <1>2, <2>1 DEF ReadsInv
  <2> QED BY <1>1, <2>1, <2>2 DEF ReadsInv, Copied
<1>6. ReadsInv(p) /\ Covers(p) => Covers(p)'
  <2> SUFFICES ASSUME ReadsInv(p), Covers(p) PROVE Covers(p)'
    OBVIOUS
  <2>1. ~(clock + 1 < job[p].started)
    BY <1>0, <1>3 DEF ReadsInv, Numbered
  <2>2. \A j \in Falcon!Items(p) : falcon'[j].changed < job[p].started => falcon'[j] = falcon[j]
    BY <1>2, <2>1
  <2> QED BY <1>1, <2>2 DEF Covers, Copied
<1>7. Falcon!Current(p) => Falcon!Current(p)'
  <2>1. ~(clock + 1 < meta[p]) /\ ~(clock + 1 < fullAt[p])
    BY <1>0, <1>3 DEF PhaseInv, TimesInv, Numbered
  <2>2. \A j \in Falcon!Items(p) :
          falcon'[j].changed < meta[p] \/ falcon'[j].changed < fullAt[p] => falcon'[j] = falcon[j]
    BY <1>2, <2>1
  <2> QED BY <1>1, <2>2 DEF Falcon!Current
<1>8. StepsInv(p)' = StepsInv(p) /\ Unharmed(p)' = Unharmed(p)
  BY <1>1 DEF StepsInv, Unharmed
<1> QED BY <1>1, <1>4, <1>5, <1>6, <1>7, <1>8 DEF PhaseInv

\* A run starts now, and has to copy what it finds changed.
LEMMA BeginPhase ==
  ASSUME NEW p \in Falcon!Phases, FalconTypeInv, PhaseInv(p),
         NEW m \in {"auto", "full", "incremental"}, Falcon!BeginRun(p, m)
  PROVE  PhaseInv(p)'
<1>0. Numbered(p) /\ p \in {"hosts", "apps"} /\ sound \in [Falcon!Phases -> BOOLEAN]
  BY FalconNumbered, FalconItems DEF FalconTypeInv
<1>1. /\ UNCHANGED <<falcon, copy, meta, saved, fullAt>> /\ clock' = clock + 1
      /\ sound' = [sound EXCEPT !["hosts"] = @ /\ ~(p = "hosts" /\ saved[p] # Falcon!Unsaved)]
  BY DEF Falcon!BeginRun, Falcon!Tick
<1>2. PICK w \in FalconJobs :
        /\ job' = [job EXCEPT ![p] = w] /\ w.pc = "take" /\ w.started = clock + 1
        /\ w.resumed = (saved[p] # Falcon!Unsaved) /\ ~w.spoiled
        /\ w.todo = Falcon!Changed(p, Falcon!Since(p, w.mode)) /\ w.buffer = {}
  BY BeginIs
<1>3. job'[p] = w
  BY <1>2 DEF FalconTypeInv
<1>4. \A n \in Nat : n =< clock => n =< clock' /\ n =< clock + 1 /\ n # clock + 1
  BY <1>0, <1>1 DEF Numbered
<1>5. TimesInv(p)'
  BY <1>0, <1>1, <1>4 DEF PhaseInv, TimesInv, Numbered
<1>6. ReadsInv(p)'
  <2>1. clock + 1 > 0 /\ clock + 1 =< clock'
    BY <1>0, <1>1 DEF Numbered
  <2>2. /\ meta[p] =< clock + 1 /\ fullAt[p] =< clock + 1
        /\ \A i \in Falcon!Items(p) :
             /\ falcon[i].changed # clock + 1 /\ copy[i].synced =< clock + 1
             /\ copy[i].synced # clock + 1
    BY <1>0, <1>4 DEF PhaseInv, TimesInv, Numbered
  <2> QED BY <1>1, <1>2, <1>3, <2>1, <2>2 DEF ReadsInv
<1>7. StepsInv(p)'
  <2>1. w.todo \subseteq Falcon!Items(p)
    BY <1>2 DEF Falcon!Changed
  <2> QED BY <1>2, <1>3, <2>1 DEF StepsInv
<1>8. Unharmed(p)' => Covers(p)'
  <2> SUFFICES ASSUME Unharmed(p)', NEW i \in Falcon!Items(p), falcon[i].state = "active",
                      w.mode = "full" \/ ~(falcon[i].changed < meta[p])
               PROVE  i \in w.todo
    BY <1>1, <1>3 DEF Covers
  <2>1. p = "hosts" => saved[p] = Falcon!Unsaved
    BY <1>2, <1>3 DEF Unharmed
  <2>2. Falcon!Since(p, w.mode) = IF w.mode = "incremental" THEN meta[p] ELSE 0
    BY <1>0, <2>1 DEF Falcon!Since
  <2>3. CASE w.mode # "incremental"
    BY <1>2, <2>2, <2>3 DEF Falcon!Changed
  <2>4. CASE w.mode = "incremental"
    <3>1. meta[p] = 0 \/ falcon[i].changed > meta[p]
      BY <1>0, <2>4 DEF PhaseInv, TimesInv, Numbered
    <3> QED BY <1>2, <2>2, <2>4, <3>1 DEF Falcon!Changed
  <2> QED BY <2>3, <2>4
<1>9. sound'[p] => sound[p] /\ Unharmed(p)'
  <2>1. CASE p = "hosts"
    BY <1>0, <1>1, <1>2, <1>3, <2>1 DEF Unharmed
  <2>2. CASE p = "apps"
    BY <1>0, <1>1, <1>2, <1>3, <2>2 DEF Unharmed
  <2> QED BY <1>0, <2>1, <2>2
<1>10. Falcon!Current(p) => Falcon!Current(p)'
  BY <1>1 DEF Falcon!Current
<1> QED BY <1>5, <1>6, <1>7, <1>8, <1>9, <1>10 DEF PhaseInv

\* A document is written as it was read.
LEMMA WritePhase ==
  ASSUME NEW p \in Falcon!Phases, FalconTypeInv, PhaseInv(p), Falcon!WriteOne(p)
  PROVE  PhaseInv(p)' /\ \A q \in Falcon!Phases \ {p} : Untouched(q)
<1>0. Numbered(p) /\ Falcon!Items(p) \subseteq Falcon!AllItems
  BY FalconNumbered, FalconItems
<1>1. UNCHANGED <<falcon, meta, clock, sound, fullAt>> /\ job[p].pc \in {"flush", "rest"}
  BY DEF Falcon!WriteOne
<1>2. PICK d \in job[p].buffer, w \in FalconJobs :
        /\ job' = [job EXCEPT ![p] = w] /\ w.pc = job[p].pc /\ SameRun(p, w)
        /\ w.todo = job[p].todo /\ w.buffer = job[p].buffer \ {d}
        /\ d[1] \in Falcon!AllItems /\ d[2] \in Nat
        /\ copy' = [copy EXCEPT ![d[1]] = [there |-> TRUE, changed |-> d[2],
                                           synced |-> job[p].started, active |-> TRUE]]
  BY WriteIs
<1>3. /\ job'[p] = w /\ w.started = job[p].started /\ w.mode = job[p].mode
      /\ w.resumed = job[p].resumed /\ w.spoiled = job[p].spoiled
  BY <1>2 DEF FalconTypeInv, SameRun
<1>r. ReadsInv(p) /\ StepsInv(p) /\ (sound[p] => Unharmed(p)) /\ (Unharmed(p) => Covers(p))
  BY <1>1 DEF PhaseInv
<1>i. d[1] \in Falcon!Items(p)
  BY <1>2, <1>r DEF ReadsInv
<1>e. /\ copy'[d[1]].there /\ copy'[d[1]].active /\ copy'[d[1]].changed = d[2]
      /\ copy'[d[1]].synced = job[p].started
      /\ \A j \in Falcon!AllItems : j # d[1] => copy'[j] = copy[j]
  BY <1>2 DEF FalconTypeInv
<1>d. falcon[d[1]].changed < job[p].started =>
        falcon[d[1]].state = "active" /\ d[2] = falcon[d[1]].changed
  BY <1>r DEF ReadsInv
<1>4. TimesInv(p)'
  <2>1. job[p].started =< clock
    BY <1>r DEF ReadsInv
  <2>2. \A j \in Falcon!Items(p) : copy'[j].synced =< clock /\ (copy'[j].active => copy'[j].there)
    BY <1>0, <1>e, <2>1 DEF PhaseInv, TimesInv
  <2> QED BY <1>1, <2>2 DEF PhaseInv, TimesInv
<1>5. ReadsInv(p)'
  <2>1. \A j \in Falcon!Items(p) :
          /\ copy'[j].synced =< job[p].started
          /\ copy'[j].synced = job[p].started /\ falcon[j].changed < job[p].started =>
               /\ falcon[j].state = "active"
               /\ copy'[j].there /\ copy'[j].active /\ copy'[j].changed = falcon[j].changed
    <3> SUFFICES ASSUME NEW j \in Falcon!Items(p)
                 PROVE  /\ copy'[j].synced =< job[p].started
                        /\ copy'[j].synced = job[p].started /\ falcon[j].changed < job[p].started =>
                             /\ falcon[j].state = "active"
                             /\ copy'[j].there /\ copy'[j].active
                             /\ copy'[j].changed = falcon[j].changed
      OBVIOUS
    <3>1. CASE j = d[1]
      BY <1>0, <1>d, <1>e, <3>1 DEF Numbered
    <3>2. CASE j # d[1]
      BY <1>0, <1>e, <1>r, <3>2 DEF ReadsInv, Copied
    <3> QED BY <3>1, <3>2
  <2> QED BY <1>1, <1>2, <1>3, <1>r, <2>1 DEF ReadsInv, Copied
<1>6. StepsInv(p)'
  BY <1>1, <1>2, <1>3, <1>r DEF StepsInv
<1>7. Unharmed(p)' = Unharmed(p)
  BY <1>3 DEF Unharmed
<1>8. Covers(p) => Covers(p)'
  <2> SUFFICES ASSUME Covers(p), NEW j \in Falcon!Items(p), falcon[j].state = "active",
                      falcon[j].changed < job[p].started,
                      job[p].mode = "full" \/ ~(falcon[j].changed < meta[p])
               PROVE  \/ j \in w.todo \/ <<j, falcon[j].changed>> \in w.buffer
                      \/ /\ copy'[j].there /\ copy'[j].active /\ copy'[j].changed = falcon[j].changed
                         /\ job[p].mode = "full" => copy'[j].synced = job[p].started
    BY <1>1, <1>3 DEF Covers, Copied
  <2>1. CASE j = d[1]
    BY <1>d, <1>e, <2>1
  <2>2. CASE j # d[1]
    BY <1>0, <1>2, <1>e, <2>2 DEF Covers, Copied
  <2> QED BY <2>1, <2>2
<1>9. Falcon!Current(p) => Falcon!Current(p)'
  <2> SUFFICES ASSUME Falcon!Current(p), NEW j \in Falcon!Items(p)
               PROVE  /\ falcon[j].state = "active" /\ falcon[j].changed < meta[p] =>
                           copy'[j].there /\ copy'[j].active /\ copy'[j].changed = falcon[j].changed
                      /\ falcon[j].state = "gone" /\ falcon[j].changed < fullAt[p] => ~copy'[j].active
    BY <1>1 DEF Falcon!Current
  <2>1. CASE j = d[1]
    <3>1. falcon[j].changed < meta[p] \/ falcon[j].changed < fullAt[p] =>
            falcon[j].changed < job[p].started
      BY <1>0, <1>r DEF ReadsInv, Numbered
    <3> QED BY <1>d, <1>e, <2>1, <3>1
  <2>2. CASE j # d[1]
    BY <1>0, <1>e, <2>2 DEF Falcon!Current
  <2> QED BY <2>1, <2>2
<1>10. PhaseInv(p)'
  BY <1>1, <1>2, <1>3, <1>4, <1>5, <1>6, <1>7, <1>8, <1>9, <1>r DEF PhaseInv
<1>11. ASSUME NEW q \in Falcon!Phases \ {p} PROVE Untouched(q)
  <2>1. \A j \in Falcon!Items(q) : j # d[1] /\ j \in Falcon!AllItems
    BY <1>i, FalconItems
  <2>2. job'[q] = job[q]
    BY <1>2 DEF FalconTypeInv
  <2> QED BY <1>0, <1>1, <1>e, <2>1, <2>2 DEF Untouched, Numbered
<1> QED BY <1>10, <1>11

\* A run that ends has copied what it had to, or what was copied before is.
LEMMA RecordPhase ==
  ASSUME NEW p \in Falcon!Phases, FalconTypeInv, PhaseInv(p), Falcon!Record(p)
  PROVE  PhaseInv(p)'
<1>0. Numbered(p) /\ p \in {"hosts", "apps"} /\ sound[p] \in BOOLEAN
  BY FalconNumbered, FalconItems DEF FalconTypeInv
<1>1. UNCHANGED <<falcon, copy, clock>> /\ job[p].pc = "record"
  BY DEF Falcon!Record, Falcon!At
<1>2. /\ meta'[p] = job[p].started
      /\ fullAt'[p] = IF job[p].mode = "full" THEN job[p].started ELSE fullAt[p]
      /\ sound'[p] = (sound[p] \/ Falcon!Heals(p))
  BY DEF Falcon!Record, FalconTypeInv
<1>3. /\ job'[p].pc = "clear" /\ job'[p].started = job[p].started /\ job'[p].mode = job[p].mode
      /\ job'[p].resumed = job[p].resumed /\ job'[p].spoiled = job[p].spoiled
      /\ job'[p].todo = job[p].todo /\ job'[p].buffer = job[p].buffer
  BY DEF Falcon!Record, Falcon!Goto, FalconTypeInv, FalconJobs
<1>r. /\ ReadsInv(p) /\ StepsInv(p) /\ (sound[p] => Unharmed(p)) /\ (Unharmed(p) => Covers(p))
      /\ (sound[p] => Falcon!Current(p)) /\ TimesInv(p)
  BY <1>1 DEF PhaseInv
<1>4. TimesInv(p)'
  BY <1>1, <1>2, <1>r DEF TimesInv, ReadsInv
<1>5. ReadsInv(p)'
  <2>1. job[p].started =< job[p].started
    BY <1>0 DEF Numbered
  <2> QED BY <1>1, <1>2, <1>3, <1>r, <2>1 DEF ReadsInv, Copied
<1>6. StepsInv(p)'
  BY <1>1, <1>3, <1>r DEF StepsInv
<1>7. Unharmed(p)' = Unharmed(p) /\ (Falcon!Heals(p) => Unharmed(p) /\ job[p].mode = "full")
  BY <1>0, <1>3 DEF Unharmed, Falcon!Heals
<1>8. sound'[p] => Unharmed(p) /\ (sound[p] \/ job[p].mode = "full")
  BY <1>2, <1>7, <1>r
<1>9. sound'[p] => Falcon!Current(p)'
  <2> SUFFICES ASSUME sound'[p], NEW i \in Falcon!Items(p)
               PROVE  /\ falcon[i].state = "active" /\ falcon[i].changed < job[p].started => Copied(i)
                      /\ falcon[i].state = "gone" /\ falcon[i].changed < fullAt'[p] => ~copy[i].active
    BY <1>1, <1>2 DEF Falcon!Current, Copied
  <2>1. Unharmed(p) /\ Covers(p) /\ (sound[p] \/ job[p].mode = "full")
    BY <1>8, <1>r
  <2>2. job[p].todo = {} /\ job[p].buffer = {}
    BY <1>1, <1>r DEF StepsInv
  <2>3. falcon[i].state = "active" /\ falcon[i].changed < job[p].started => Copied(i)
    <3>1. CASE job[p].mode = "full" \/ ~(falcon[i].changed < meta[p])
      BY <2>1, <2>2, <3>1 DEF Covers
    <3>2. CASE job[p].mode # "full" /\ falcon[i].changed < meta[p]
      BY <1>r, <2>1, <3>2 DEF Falcon!Current, Copied
    <3> QED BY <3>1, <3>2
  <2>4. falcon[i].state = "gone" /\ falcon[i].changed < fullAt'[p] => ~copy[i].active
    <3>1. CASE job[p].mode = "full"
      <4>1. copy[i].active => copy[i].synced = job[p].started
        BY <1>1, <1>r, <3>1 DEF StepsInv
      <4> QED BY <1>2, <1>r, <3>1, <4>1 DEF ReadsInv
    <3>2. CASE job[p].mode # "full"
      BY <1>2, <1>r, <2>1, <3>2 DEF Falcon!Current
    <3> QED BY <3>1, <3>2
  <2> QED BY <2>3, <2>4
<1> QED BY <1>3, <1>4, <1>5, <1>6, <1>7, <1>8, <1>9 DEF PhaseInv

\* A document is deleted or deactivated that no sound run owes to the copy.
LEMMA RemovePhase ==
  ASSUME NEW p \in Falcon!Phases, FalconTypeInv, PhaseInv(p), NEW i \in Falcon!Items(p),
         UNCHANGED <<falcon, meta, clock, sound, fullAt>>,
         job[p].pc = "clean", copy[i].synced # job[p].started,
         job'[p] = job[p] \/ (p = "hosts" /\ job'[p] = [job[p] EXCEPT !.spoiled = TRUE]),
         \A j \in Falcon!Items(p) : j # i => copy'[j] = copy[j],
         ~copy'[i].active, copy'[i].synced \in {0, copy[i].synced}
  PROVE  PhaseInv(p)'
<1>0. Numbered(p) /\ p \in {"hosts", "apps"} /\ job[p] \in FalconJobs
  BY FalconNumbered, FalconItems DEF FalconTypeInv
<1>1. /\ job'[p].pc = "clean" /\ job'[p].started = job[p].started /\ job'[p].mode = job[p].mode
      /\ job'[p].resumed = job[p].resumed /\ (p = "apps" => job'[p].spoiled = job[p].spoiled)
      /\ job'[p].todo = job[p].todo /\ job'[p].buffer = job[p].buffer
  BY <1>0 DEF FalconJobs
<1>r. /\ ReadsInv(p) /\ StepsInv(p) /\ (sound[p] => Unharmed(p)) /\ (Unharmed(p) => Covers(p))
      /\ (sound[p] => Falcon!Current(p)) /\ TimesInv(p)
  BY DEF PhaseInv
<1>2. copy'[i].synced =< clock /\ copy'[i].synced =< job[p].started /\ copy'[i].synced # job[p].started
  BY <1>0, <1>r DEF TimesInv, ReadsInv, Numbered
<1>3. TimesInv(p)'
  BY <1>2, <1>r DEF TimesInv
<1>4. ReadsInv(p)'
  <2>1. \A j \in Falcon!Items(p) :
          /\ copy'[j].synced =< job[p].started
          /\ copy'[j].synced = job[p].started => copy'[j] = copy[j]
    BY <1>2, <1>r DEF ReadsInv
  <2> QED BY <1>1, <1>r, <2>1 DEF ReadsInv, Copied
<1>5. StepsInv(p)'
  BY <1>1, <1>r DEF StepsInv
<1>6. Unharmed(p)' = Unharmed(p)
  BY <1>0, <1>1 DEF Unharmed
\* A sound run has written what it has to copy.
<1>7. Unharmed(p) => ~(falcon[i].state = "active" /\ falcon[i].changed < job[p].started)
  <2>1. job[p].todo = {} /\ job[p].buffer = {} /\ job[p].mode = "full"
    BY <1>r DEF StepsInv
  <2> QED BY <1>r, <2>1 DEF Covers
<1>8. Unharmed(p) => Covers(p)'
  BY <1>1, <1>7, <1>r DEF Covers, Copied
<1>9. sound[p] => Falcon!Current(p)'
  <2>1. falcon[i].changed < meta[p] => falcon[i].changed < job[p].started
    BY <1>0, <1>r DEF ReadsInv, Numbered
  <2> QED BY <1>7, <1>r, <2>1 DEF Falcon!Current
<1> QED BY <1>1, <1>3, <1>4, <1>5, <1>6, <1>8, <1>9, <1>r DEF PhaseInv

\* An application is dropped by the hosts run: its phase is no longer sound.
LEMMA DropPhase ==
  ASSUME FalconTypeInv, PhaseInv("apps"), NEW a \in Programs, Falcon!DropProgram(a)
  PROVE  PhaseInv("apps")'
<1>0. /\ Numbered("apps") /\ "apps" \in Falcon!Phases /\ "hosts" \in Falcon!Phases
      /\ Falcon!Items("apps") = Programs /\ Programs \subseteq Falcon!AllItems
      /\ job["apps"] \in FalconJobs
  BY FalconNumbered, FalconItems DEF FalconTypeInv
<1>1. UNCHANGED <<falcon, meta, clock, fullAt>> /\ ~sound'["apps"]
  BY <1>0 DEF Falcon!DropProgram, FalconTypeInv
<1>2. \A j \in Programs : IF j = a THEN copy'[j] = Falcon!Absent ELSE copy'[j] = copy[j]
  BY <1>0 DEF Falcon!DropProgram, FalconTypeInv
<1>3. job'["apps"] = [job["apps"] EXCEPT !.spoiled = job["apps"].pc # "idle"]
  BY <1>0 DEF Falcon!DropProgram, Falcon!At, FalconTypeInv
<1>4. /\ job'["apps"].pc = job["apps"].pc /\ job'["apps"].started = job["apps"].started
      /\ job'["apps"].mode = job["apps"].mode /\ job'["apps"].todo = job["apps"].todo
      /\ job'["apps"].buffer = job["apps"].buffer
      /\ job'["apps"].spoiled = (job["apps"].pc # "idle")
  BY <1>0, <1>3 DEF FalconJobs
<1>5. TimesInv("apps")'
  BY <1>0, <1>1, <1>2 DEF PhaseInv, TimesInv, Numbered, Falcon!Absent
<1>6. ASSUME job["apps"].pc # "idle" PROVE ReadsInv("apps")' /\ StepsInv("apps")' /\ ~Unharmed("apps")'
  <2>1. ReadsInv("apps") /\ StepsInv("apps")
    BY <1>6 DEF PhaseInv
  <2>2. \A j \in Programs :
          /\ copy'[j].synced =< job["apps"].started
          /\ copy'[j].synced = job["apps"].started => copy'[j] = copy[j]
          /\ copy'[j].active => copy'[j] = copy[j]
    <3> SUFFICES ASSUME NEW j \in Programs
                 PROVE  /\ copy'[j].synced =< job["apps"].started
                        /\ copy'[j].synced = job["apps"].started => copy'[j] = copy[j]
                        /\ copy'[j].active => copy'[j] = copy[j]
      OBVIOUS
    <3>1. CASE j = a
      <4>1. copy'[j].synced = 0 /\ ~copy'[j].active
        BY <1>2, <3>1 DEF Falcon!Absent
      <4>2. job["apps"].started > 0 /\ job["apps"].started \in Nat
        BY <1>0, <2>1 DEF ReadsInv, Numbered
      <4> QED BY <4>1, <4>2
    <3>2. CASE j # a
      BY <1>0, <1>2, <2>1, <3>2 DEF ReadsInv
    <3> QED BY <3>1, <3>2
  <2>3. ReadsInv("apps")'
    BY <1>0, <1>1, <1>4, <2>1, <2>2 DEF ReadsInv, Copied
  <2>4. StepsInv("apps")'
    BY <1>0, <1>4, <2>1, <2>2 DEF StepsInv
  <2> QED BY <1>4, <1>6, <2>3, <2>4 DEF Unharmed
<1> QED BY <1>1, <1>4, <1>5, <1>6 DEF PhaseInv

LEMMA FalconStep == FalconInv /\ [Falcon!CrowdStrikeNext]_csVars => FalconInv'
<1> SUFFICES ASSUME FalconInv, [Falcon!CrowdStrikeNext]_csVars PROVE FalconInv'
  OBVIOUS
<1>t. FalconTypeInv /\ FalconTypeInv' /\ clock \in Nat /\ clock' \in Nat
      /\ \A p \in Falcon!Phases : PhaseInv(p)
  BY FalconTypeStep DEF FalconInv, FalconTypeInv
<1>c. clock =< clock /\ clock =< clock + 1
  BY <1>t
<1>i. /\ "hosts" \in Falcon!Phases /\ "apps" \in Falcon!Phases
      /\ \A p \in Falcon!Phases : p = "hosts" \/ p = "apps"
      /\ Falcon!Items("hosts") = Hosts /\ Falcon!Items("apps") = Programs /\ Hosts \cap Programs = {}
  BY FalconItems
<1> SUFFICES \A p \in Falcon!Phases : PhaseInv(p)'
  BY <1>t DEF FalconInv
<1>j. \A p \in Falcon!Phases : job[p] \in FalconJobs
  BY <1>t DEF FalconTypeInv
\* The other phase does not see a step of this one.
<1>o. ASSUME NEW p \in Falcon!Phases, NEW q \in Falcon!Phases, q # p, job'[q] = job[q],
             meta'[q] = meta[q], fullAt'[q] = fullAt[q], sound'[q] = sound[q], clock =< clock',
             \A i \in Falcon!Items(q) : falcon'[i] = falcon[i] /\ copy'[i] = copy[i]
      PROVE  PhaseInv(q)'
  BY <1>o, <1>t, UntouchedPhase DEF Untouched
<1>g. ASSUME NEW p \in Falcon!Phases, GoesOn(p), StepsInv(p)', \A q \in Falcon!Phases : q # p => job'[q] = job[q],
             UNCHANGED <<falcon, copy, meta, sound, fullAt>>
      PROVE  \A q \in Falcon!Phases : PhaseInv(q)'
  <2>1. PhaseInv(p)'
    BY <1>g, <1>t, RunGoesOn
  <2>2. clock =< clock'
    BY <1>g DEF GoesOn
  <2> QED BY <1>g, <1>o, <2>1, <2>2
\* A run goes to another place with what it has.
<1>m. ASSUME NEW p \in Falcon!Phases, NEW pc, Falcon!Goto(p, pc), job[p].pc \notin {"idle", "clear"},
             UNCHANGED <<falcon, copy, meta, clock, sound, fullAt>>,
             StepsInv(p) => StepsInv(p)'
      PROVE  \A q \in Falcon!Phases : PhaseInv(q)'
  <2>1. /\ job'[p].started = job[p].started /\ job'[p].mode = job[p].mode
        /\ job'[p].resumed = job[p].resumed /\ job'[p].spoiled = job[p].spoiled
        /\ job'[p].todo = job[p].todo /\ job'[p].buffer = job[p].buffer
        /\ \A q \in Falcon!Phases : q # p => job'[q] = job[q]
    BY <1>m, <1>t DEF Falcon!Goto, FalconTypeInv, FalconJobs
  <2>2. StepsInv(p)'
    BY <1>m, <1>t DEF PhaseInv
  <2>3. GoesOn(p)
    BY <1>c, <1>m, <2>1 DEF GoesOn
  <2> QED BY <1>g, <1>m, <2>1, <2>2, <2>3
<1>p. ASSUME NEW p \in Falcon!Phases, NEW pc, Falcon!Goto(p, pc)
      PROVE  /\ job'[p].pc = pc /\ job'[p].mode = job[p].mode /\ job'[p].started = job[p].started
             /\ job'[p].todo = job[p].todo /\ job'[p].buffer = job[p].buffer
  BY <1>p, <1>t DEF Falcon!Goto, FalconTypeInv, FalconJobs
<1>0. CASE UNCHANGED csVars
  <2> SUFFICES ASSUME NEW p \in Falcon!Phases PROVE PhaseInv(p)'
    OBVIOUS
  <2>1. Untouched(p)
    BY <1>0, <1>c DEF csVars, Untouched
  <2> QED BY <1>t, <2>1, UntouchedPhase
<1>1. ASSUME NEW i \in Falcon!AllItems, Falcon!Modify(i) \/ Falcon!Retire(i)
      PROVE  \A p \in Falcon!Phases : PhaseInv(p)'
  BY <1>1, <1>t, UpstreamPhase DEF Falcon!Modify, Falcon!Retire
<1>2. ASSUME NEW p \in Falcon!Phases, NEW m \in {"auto", "full", "incremental"}, Falcon!BeginRun(p, m)
      PROVE  \A q \in Falcon!Phases : PhaseInv(q)'
  <2>1. PhaseInv(p)'
    BY <1>2, <1>t, BeginPhase
  <2>2. ASSUME NEW q \in Falcon!Phases, q # p PROVE PhaseInv(q)'
    <3>1. /\ job'[q] = job[q] /\ UNCHANGED <<falcon, copy, meta, fullAt>> /\ clock' = clock + 1
          /\ sound' = [sound EXCEPT !["hosts"] = @ /\ ~(p = "hosts" /\ saved[p] # Falcon!Unsaved)]
      BY <1>2, <1>t, <2>2 DEF Falcon!BeginRun, Falcon!Tick, FalconTypeInv
    <3>2. sound'[q] = sound[q]
      BY <1>i, <1>t, <2>2, <3>1 DEF FalconTypeInv
    <3> QED BY <1>c, <1>o, <2>2, <3>1, <3>2
  <2> QED BY <2>1, <2>2
<1>3. ASSUME NEW p \in Falcon!Phases, NEW i \in Falcon!Items(p), Falcon!Take(p, i)
      PROVE  \A q \in Falcon!Phases : PhaseInv(q)'
  <2>1. PICK w \in FalconJobs :
           /\ job' = [job EXCEPT ![p] = w] /\ w.pc \in {"take", "flush"} /\ SameRun(p, w)
           /\ w.todo = job[p].todo \ {i}
           /\ w.buffer = IF falcon[i].state = "active"
                         THEN job[p].buffer \cup {<<i, falcon[i].changed>>} ELSE job[p].buffer
    BY <1>3, <1>t, TakeIs
  <2>2. UNCHANGED <<falcon, copy, meta, clock, sound, fullAt>> /\ job[p].pc = "take"
    BY <1>3 DEF Falcon!Take, Falcon!At
  <2>3. job'[p] = w /\ \A q \in Falcon!Phases : q # p => job'[q] = job[q]
    BY <1>t, <2>1 DEF FalconTypeInv
  <2>4. StepsInv(p) /\ ReadsInv(p)
    BY <1>t, <2>2 DEF PhaseInv
  <2>5. StepsInv(p)'
    BY <2>1, <2>2, <2>3, <2>4 DEF StepsInv
  <2>6. GoesOn(p)
    <3>1. \A d \in w.buffer :
             \/ d \in job[p].buffer
             \/ /\ d[1] \in Falcon!Items(p)
                /\ falcon[d[1]].state = "active" /\ d[2] = falcon[d[1]].changed
      BY <2>1
    <3>2. \A j \in Falcon!Items(p) :
            /\ falcon[j].state = "active"
            /\ j \in job[p].todo \/ <<j, falcon[j].changed>> \in job[p].buffer
            => j \in w.todo \/ <<j, falcon[j].changed>> \in w.buffer
      BY <2>1
    <3> QED BY <1>c, <2>1, <2>2, <2>3, <3>1, <3>2 DEF GoesOn, SameRun
  <2> QED BY <1>g, <2>2, <2>3, <2>5, <2>6
<1>4. ASSUME NEW p \in Falcon!Phases, Falcon!WriteOne(p) PROVE \A q \in Falcon!Phases : PhaseInv(q)'
  BY <1>4, <1>t, WritePhase, UntouchedPhase
<1>5. ASSUME NEW p \in Falcon!Phases, Falcon!LastPage(p) PROVE \A q \in Falcon!Phases : PhaseInv(q)'
  <2>1. /\ Falcon!Goto(p, "rest") /\ job[p].pc = "take" /\ job[p].todo = {}
        /\ UNCHANGED <<falcon, copy, meta, clock, sound, fullAt>>
    BY <1>5 DEF Falcon!LastPage, Falcon!At
  <2>2. StepsInv(p) => StepsInv(p)'
    BY <1>p, <2>1 DEF StepsInv
  <2> QED BY <1>m, <2>1, <2>2
<1>6. ASSUME NEW p \in Falcon!Phases, Falcon!Flushed(p) PROVE \A q \in Falcon!Phases : PhaseInv(q)'
  <2>1. /\ job' = [job EXCEPT ![p] = [job[p] EXCEPT !.pc = "save", !.flushed = clock']]
        /\ job[p].pc = "flush" /\ clock' = clock + 1
        /\ UNCHANGED <<falcon, copy, meta, sound, fullAt>>
    BY <1>6 DEF Falcon!Flushed, Falcon!Tick, Falcon!At
  <2>2. /\ job'[p].started = job[p].started /\ job'[p].mode = job[p].mode
        /\ job'[p].resumed = job[p].resumed /\ job'[p].spoiled = job[p].spoiled
        /\ job'[p].todo = job[p].todo /\ job'[p].buffer = job[p].buffer /\ job'[p].pc = "save"
        /\ \A q \in Falcon!Phases : q # p => job'[q] = job[q]
    BY <1>j, <1>t, <2>1 DEF FalconTypeInv, FalconJobs
  <2>3. StepsInv(p)
    BY <1>t, <2>1 DEF PhaseInv
  <2>4. StepsInv(p)'
    BY <2>1, <2>2, <2>3 DEF StepsInv
  <2>5. GoesOn(p)
    BY <1>c, <2>1, <2>2 DEF GoesOn
  <2> QED BY <1>g, <2>1, <2>2, <2>4, <2>5
<1>7. ASSUME NEW p \in Falcon!Phases, Falcon!SaveCheckpoint(p)
      PROVE  \A q \in Falcon!Phases : PhaseInv(q)'
  <2>1. /\ Falcon!Goto(p, "take") /\ job[p].pc = "save"
        /\ UNCHANGED <<falcon, copy, meta, clock, sound, fullAt>>
    BY <1>7 DEF Falcon!SaveCheckpoint, Falcon!At
  <2>2. StepsInv(p) => StepsInv(p)'
    BY <1>p, <2>1 DEF StepsInv
  <2> QED BY <1>m, <2>1, <2>2
<1>8. ASSUME NEW p \in Falcon!Phases, Falcon!Fetched(p) PROVE \A q \in Falcon!Phases : PhaseInv(q)'
  <2>1. /\ Falcon!Goto(p, IF job[p].mode = "full" THEN "clean" ELSE "record")
        /\ job[p].pc = "rest" /\ job[p].buffer = {}
        /\ UNCHANGED <<falcon, copy, meta, clock, sound, fullAt>>
    BY <1>8 DEF Falcon!Fetched, Falcon!At
  <2>2. StepsInv(p) => StepsInv(p)'
    BY <1>p, <2>1 DEF StepsInv
  <2> QED BY <1>m, <2>1, <2>2
<1>9. ASSUME NEW p \in Falcon!Phases, Falcon!Record(p) PROVE \A q \in Falcon!Phases : PhaseInv(q)'
  <2>1. PhaseInv(p)'
    BY <1>9, <1>t, RecordPhase
  <2>2. ASSUME NEW q \in Falcon!Phases, q # p PROVE PhaseInv(q)'
    <3>1. /\ meta'[q] = meta[q] /\ fullAt'[q] = fullAt[q] /\ sound'[q] = sound[q]
          /\ job'[q] = job[q] /\ UNCHANGED <<falcon, copy, clock>>
      BY <1>9, <1>t, <2>2 DEF Falcon!Record, Falcon!Goto, FalconTypeInv
    <3> QED BY <1>c, <1>o, <2>2, <3>1
  <2> QED BY <2>1, <2>2
<1>10. ASSUME NEW p \in Falcon!Phases, Falcon!ClearCheckpoint(p) \/ Falcon!Interrupt(p)
       PROVE  \A q \in Falcon!Phases : PhaseInv(q)'
  <2>1. /\ job' = [job EXCEPT ![p] = Falcon!NoJob]
        /\ UNCHANGED <<falcon, copy, meta, clock, sound, fullAt>>
    BY <1>10 DEF Falcon!ClearCheckpoint, Falcon!Interrupt
  <2>2. PhaseInv(p)'
    BY <1>t, <2>1, RunStops
  <2>3. \A q \in Falcon!Phases : q # p => job'[q] = job[q]
    BY <1>t, <2>1 DEF FalconTypeInv
  <2> QED BY <1>c, <1>o, <2>1, <2>2, <2>3
<1>11. CASE Falcon!Retry
  <2> DEFINE since == IF job["apps"].mode = "incremental" THEN meta["apps"] ELSE 0
             w == [job["apps"] EXCEPT !.buffer = {}, !.todo = Falcon!Changed("apps", since)]
  <2>1. /\ job' = [job EXCEPT !["apps"] = w] /\ job["apps"].pc = "take"
        /\ UNCHANGED <<falcon, copy, meta, clock, sound, fullAt>>
    BY <1>11 DEF Falcon!Retry, Falcon!At
  <2>2. /\ w.started = job["apps"].started /\ w.mode = job["apps"].mode
        /\ w.resumed = job["apps"].resumed /\ w.spoiled = job["apps"].spoiled
        /\ w.pc = job["apps"].pc /\ w.buffer = {} /\ w.todo = Falcon!Changed("apps", since)
    BY <1>i, <1>j DEF FalconJobs
  <2> HIDE DEF w
  <2>3. job'["apps"] = w /\ \A q \in Falcon!Phases : q # "apps" => job'[q] = job[q]
    BY <1>i, <1>t, <2>1 DEF FalconTypeInv
  <2>4. StepsInv("apps")'
    <3>1. w.todo \subseteq Falcon!Items("apps")
      BY <2>2 DEF Falcon!Changed
    <3> QED BY <2>1, <2>2, <2>3, <3>1 DEF StepsInv
  <2>5. ASSUME NEW i \in Falcon!Items("apps"), falcon[i].state = "active",
               job["apps"].mode = "full" \/ ~(falcon[i].changed < meta["apps"])
        PROVE  i \in w.todo
    <3>1. Numbered("apps") /\ TimesInv("apps")
      BY <1>i, <1>t, FalconNumbered DEF PhaseInv
    <3>2. since = 0 \/ falcon[i].changed > since
      BY <2>5, <3>1 DEF Numbered, TimesInv
    <3> QED BY <2>2, <2>5, <3>2 DEF Falcon!Changed
  <2>6. GoesOn("apps")
    BY <1>c, <2>1, <2>2, <2>3, <2>5 DEF GoesOn
  <2> QED BY <1>g, <1>i, <2>1, <2>3, <2>4, <2>6
<1>12. CASE Falcon!Unlicensed
  <2>1. /\ Falcon!Goto("apps", "clear") /\ job["apps"].pc = "take"
        /\ UNCHANGED <<falcon, copy, meta, clock, sound, fullAt>>
    BY <1>12 DEF Falcon!Unlicensed, Falcon!At
  <2>2. StepsInv("apps") => StepsInv("apps")'
    BY <1>i, <1>p, <2>1 DEF StepsInv
  <2> QED BY <1>i, <1>m, <2>1, <2>2
<1>13. CASE Falcon!HostsCleaned
  <2> DEFINE todo == {a \in Programs : copy[a].there}
             w == IF job["hosts"].spoiled THEN [job["hosts"] EXCEPT !.pc = "drop", !.todo = todo]
                  ELSE [job["hosts"] EXCEPT !.pc = "record"]
  <2>1. /\ job' = [job EXCEPT !["hosts"] = w] /\ job["hosts"].pc = "clean"
        /\ UNCHANGED <<falcon, copy, meta, clock, sound, fullAt>>
        /\ \A h \in Hosts : copy[h].there => copy[h].synced = job["hosts"].started
    BY <1>13 DEF Falcon!HostsCleaned, Falcon!At
  <2>2. todo \subseteq Programs
    OBVIOUS
  <2> HIDE DEF todo
  <2>3. /\ w.started = job["hosts"].started /\ w.mode = job["hosts"].mode
        /\ w.resumed = job["hosts"].resumed /\ w.buffer = job["hosts"].buffer
        /\ \/ w.pc = "drop" /\ w.todo = todo
           \/ w.pc = "record" /\ w.todo = job["hosts"].todo
    BY <1>i, <1>j DEF FalconJobs
  <2> HIDE DEF w
  <2>4. job'["hosts"] = w /\ \A q \in Falcon!Phases : q # "hosts" => job'[q] = job[q]
    BY <1>i, <1>t, <2>1 DEF FalconTypeInv
  <2>5. StepsInv("hosts") /\ TimesInv("hosts")
    BY <1>i, <1>t, <2>1 DEF PhaseInv
  <2>6. job["hosts"].todo = {} /\ job["hosts"].buffer = {} /\ job["hosts"].mode = "full"
    BY <2>1, <2>5 DEF StepsInv
  <2>7. StepsInv("hosts")'
    <3>1. \A i \in Hosts : copy[i].active => copy[i].synced = job["hosts"].started
      BY <1>i, <2>1, <2>5 DEF TimesInv
    <3> QED BY <1>i, <2>1, <2>2, <2>3, <2>4, <2>6, <3>1 DEF StepsInv
  <2>8. GoesOn("hosts")
    BY <1>c, <2>1, <2>3, <2>4, <2>6 DEF GoesOn
  <2> QED BY <1>g, <1>i, <2>1, <2>4, <2>7, <2>8
<1>14. CASE Falcon!ProgramsDropped
  <2>1. /\ Falcon!Goto("hosts", "record") /\ job["hosts"].pc = "drop" /\ job["hosts"].todo = {}
        /\ UNCHANGED <<falcon, copy, meta, clock, sound, fullAt>>
    BY <1>14 DEF Falcon!ProgramsDropped, Falcon!At
  <2>2. StepsInv("hosts") => StepsInv("hosts")'
    BY <1>i, <1>p, <2>1 DEF StepsInv
  <2> QED BY <1>i, <1>m, <2>1, <2>2
<1>15. CASE Falcon!ProgramsCleaned
  <2>1. /\ Falcon!Goto("apps", "record") /\ job["apps"].pc = "clean"
        /\ UNCHANGED <<falcon, copy, meta, clock, sound, fullAt>>
        /\ \A a \in Programs : copy[a].active => copy[a].synced >= job["apps"].started
    BY <1>15 DEF Falcon!ProgramsCleaned, Falcon!At
  <2>2. ReadsInv("apps") /\ Numbered("apps")
    BY <1>i, <1>t, <2>1, FalconNumbered DEF PhaseInv
  <2>3. \A a \in Programs : copy[a].active => copy[a].synced = job["apps"].started
    BY <1>i, <2>1, <2>2 DEF ReadsInv, Numbered
  <2>4. StepsInv("apps") => StepsInv("apps")'
    BY <1>i, <1>p, <2>1, <2>3 DEF StepsInv
  <2> QED BY <1>i, <1>m, <2>1, <2>4
<1>16. ASSUME NEW h \in Hosts, Falcon!DeleteHost(h) PROVE \A q \in Falcon!Phases : PhaseInv(q)'
  <2>1. /\ job["hosts"].pc = "clean" /\ copy[h].synced # job["hosts"].started
        /\ copy' = [copy EXCEPT ![h] = Falcon!Absent]
        /\ job' = [job EXCEPT !["hosts"] = [job["hosts"] EXCEPT !.spoiled = TRUE]]
        /\ UNCHANGED <<falcon, meta, clock, sound, fullAt>>
    BY <1>16 DEF Falcon!DeleteHost, Falcon!At
  <2>2. /\ h \in Falcon!AllItems /\ job'["hosts"] = [job["hosts"] EXCEPT !.spoiled = TRUE]
        /\ job'["apps"] = job["apps"]
        /\ copy'[h] = Falcon!Absent /\ \A j \in Falcon!AllItems : j # h => copy'[j] = copy[j]
    BY <1>i, <1>t, <2>1 DEF FalconTypeInv, Falcon!AllItems
  <2>3. Falcon!Absent.synced = 0 /\ ~Falcon!Absent.active
    BY DEF Falcon!Absent
  <2>4. Hosts \subseteq Falcon!AllItems /\ Programs \subseteq Falcon!AllItems
    BY FalconItems
  <2>5. PhaseInv("hosts")'
    BY <1>i, <1>t, <2>1, <2>2, <2>3, <2>4, RemovePhase
  <2>6. PhaseInv("apps")'
    BY <1>c, <1>i, <1>o, <2>1, <2>2, <2>4
  <2> QED BY <1>i, <2>5, <2>6
<1>17. ASSUME NEW a \in Programs, Falcon!Deactivate(a) PROVE \A q \in Falcon!Phases : PhaseInv(q)'
  <2>0. Hosts \subseteq Falcon!AllItems /\ Programs \subseteq Falcon!AllItems /\ Numbered("apps")
    BY <1>i, <1>t, FalconItems, FalconNumbered
  <2>1. /\ job["apps"].pc = "clean" /\ copy[a].synced < job["apps"].started
        /\ copy' = [copy EXCEPT ![a] = [copy[a] EXCEPT !.active = FALSE]]
        /\ UNCHANGED <<falcon, job, meta, clock, sound, fullAt>>
    BY <1>17 DEF Falcon!Deactivate, Falcon!At
  <2>2. copy[a] \in [there : BOOLEAN, changed : Nat, synced : Nat, active : BOOLEAN]
    BY <1>t, <2>0 DEF FalconTypeInv
  <2>3. /\ ~copy'[a].active /\ copy'[a].synced = copy[a].synced
        /\ \A j \in Falcon!AllItems : j # a => copy'[j] = copy[j]
    BY <1>t, <2>0, <2>1, <2>2 DEF FalconTypeInv
  <2>4. copy[a].synced # job["apps"].started
    BY <1>i, <2>0, <2>1 DEF Numbered
  <2>5. PhaseInv("apps")'
    BY <1>i, <1>t, <2>0, <2>1, <2>3, <2>4, RemovePhase
  <2>6. PhaseInv("hosts")'
    BY <1>c, <1>i, <1>o, <2>0, <2>1, <2>3
  <2> QED BY <1>i, <2>5, <2>6
<1>18. ASSUME NEW a \in Programs, Falcon!DropProgram(a) PROVE \A q \in Falcon!Phases : PhaseInv(q)'
  <2>0. Hosts \subseteq Falcon!AllItems /\ Programs \subseteq Falcon!AllItems
    BY FalconItems
  <2>1. PhaseInv("apps")'
    BY <1>18, <1>i, <1>t, DropPhase
  <2>2. /\ job["hosts"].pc = "drop" /\ UNCHANGED <<falcon, meta, clock, fullAt>>
        /\ sound'["hosts"] = sound["hosts"]
        /\ \A j \in Hosts : copy'[j] = copy[j]
    BY <1>18, <1>i, <1>t, <2>0 DEF Falcon!DropProgram, Falcon!At, FalconTypeInv
  <2>3. job'["hosts"] = [job["hosts"] EXCEPT !.todo = job["hosts"].todo \ {a}]
    <3>1. job' = [job EXCEPT !["hosts"] = [job["hosts"] EXCEPT !.todo = job["hosts"].todo \ {a}],
                             !["apps"] = [job["apps"] EXCEPT !.spoiled = ~Falcon!At("apps", "idle")]]
      BY <1>18, <1>t, <1>i DEF Falcon!DropProgram, FalconTypeInv
    <3> QED BY <1>t, <1>i, <3>1 DEF FalconTypeInv
  <2>4. /\ job'["hosts"].started = job["hosts"].started /\ job'["hosts"].mode = job["hosts"].mode
        /\ job'["hosts"].resumed = job["hosts"].resumed /\ job'["hosts"].pc = "drop"
        /\ job'["hosts"].todo \subseteq job["hosts"].todo /\ job'["hosts"].buffer = job["hosts"].buffer
    BY <1>i, <1>j, <2>2, <2>3 DEF FalconJobs
  <2>5. StepsInv("hosts")
    BY <1>i, <1>t, <2>2 DEF PhaseInv
  <2>6. job["hosts"].todo \subseteq Programs /\ job["hosts"].buffer = {}
    BY <2>2, <2>5 DEF StepsInv
  <2>7. StepsInv("hosts")'
    BY <1>i, <2>2, <2>4, <2>5, <2>6 DEF StepsInv
  <2>8. GoesOn("hosts")
    BY <1>c, <1>i, <2>2, <2>4, <2>6 DEF GoesOn
  <2>9. PhaseInv("hosts")'
    BY <1>i, <1>t, <2>7, <2>8, RunGoesOn
  <2> QED BY <1>i, <2>1, <2>9
<1> QED BY <1>0, <1>1, <1>2, <1>3, <1>4, <1>5, <1>6, <1>7, <1>8, <1>9, <1>10, <1>11, <1>12, <1>13,
           <1>14, <1>15, <1>16, <1>17, <1>18 DEF Falcon!CrowdStrikeNext

LEMMA FalconStarts == Falcon!CrowdStrikeInit => FalconInv
<1> SUFFICES ASSUME Falcon!CrowdStrikeInit PROVE FalconInv
  OBVIOUS
<1>1. PICK t \in {0, 1} :
        /\ falcon = [i \in Falcon!AllItems |-> [state |-> "active", changed |-> 0]]
        /\ copy = [i \in Falcon!AllItems |-> IF t = 0 THEN Falcon!Absent ELSE
                    [there |-> TRUE, changed |-> 0, synced |-> t, active |-> TRUE]]
        /\ job = [p \in Falcon!Phases |-> Falcon!NoJob]
        /\ meta = [p \in Falcon!Phases |-> t] /\ saved = [p \in Falcon!Phases |-> Falcon!Unsaved]
        /\ clock = t /\ fullAt = [p \in Falcon!Phases |-> t]
        /\ sound = [p \in Falcon!Phases |-> TRUE]
  BY DEF Falcon!CrowdStrikeInit
<1>2. Falcon!NoJob \in FalconJobs /\ Falcon!Unsaved \in [mode : Modes, at : Nat]
      /\ Falcon!Absent \in [there : BOOLEAN, changed : Nat, synced : Nat, active : BOOLEAN]
      /\ Falcon!NoJob.pc = "idle" /\ Falcon!Absent.synced = 0 /\ ~Falcon!Absent.active
  BY DEF Falcon!NoJob, Falcon!Unsaved, Falcon!Absent, FalconJobs, Modes
<1>3. FalconTypeInv
  BY <1>1, <1>2 DEF FalconTypeInv
<1>4. ASSUME NEW p \in Falcon!Phases PROVE PhaseInv(p)
  <2>1. Falcon!Items(p) \subseteq Falcon!AllItems
    BY FalconItems
  <2>2. TimesInv(p)
    <3>1. CASE t = 0
      BY <1>1, <1>2, <2>1, <3>1 DEF TimesInv
    <3>2. CASE t = 1
      BY <1>1, <2>1, <3>2 DEF TimesInv
    <3> QED BY <3>1, <3>2
  <2>3. Falcon!Current(p)
    <3>1. CASE t = 0
      BY <1>1, <2>1, <3>1 DEF Falcon!Current
    <3>2. CASE t = 1
      BY <1>1, <2>1, <3>2 DEF Falcon!Current
    <3> QED BY <3>1, <3>2
  <2> QED BY <1>1, <1>2, <2>2, <2>3 DEF PhaseInv
<1> QED BY <1>3, <1>4 DEF FalconInv

\* What CrowdStrike changed before the start of the last run of a phase that
\* ended is in the copy, and what was gone by the last full one is not active
\* there, as long as sound runs owe it (sync_agents.py, sync_apps.py).
THEOREM CrowdStrikeCurrentHolds == JobsSpec => []CrowdStrikeCurrent
<1>1. JobsInit => FalconInv
  BY FalconStarts DEF JobsInit
<1>2. FalconInv => CrowdStrikeCurrent
  BY DEF FalconInv, PhaseInv, CrowdStrikeCurrent, Falcon!CrowdStrikeCurrent
<1>3. FalconInv /\ [JobsNext]_<<part, allVars>> => FalconInv'
  BY PartSteps, FalconStep
<1> QED BY <1>1, <1>2, <1>3, PTL DEF JobsSpec

-----------------------------------------------------------------------------
(* Rate limits *)

Limiters == [max : Limits \cup {0}, hits : SUBSET Limiting!Hits, used : Limiting!Moments]

LimitTypes ==
  /\ moment \in Limiting!Moments /\ limit \in [Keys -> Limiting!Pairs]
  /\ asked \in [Keys -> Limiting!Pairs \cup {Unasked}]
  /\ limiter \in [Limiting!LimiterKinds -> [Keys -> Limiters]]
  /\ accepted \in [Keys -> SUBSET Limiting!Hits]

\* The hits of a tick have the numbers from 1 on.
NumberedHits(S) ==
  /\ IsFiniteSet(S)
  /\ \A h \in S : h.no =< Cardinality(Limiting!During(S, h.at))

HitsSince(S, s) == {h \in S : h.at >= s}

\* The limiter l has as many hits as the requests S in the window w that ends
\* at the given instant, or in any later part of it; and if it is for other limits
\* than max, there are none of S.
Remembers(l, S, max, w, instant) ==
  /\ NumberedHits(l.hits) /\ l.used =< instant /\ \A h \in l.hits : h.at =< l.used
  /\ \A s \in Int : s > instant - w =>
       /\ Cardinality(HitsSince(S, s)) =< Cardinality(HitsSince(l.hits, s))
       /\ l.max # max => HitsSince(S, s) = {}

\* The requests S in the window w that ends at t.
InWindow(S, w, t) == {a \in S : a.at > t - w /\ a.at =< t}

Kept(k, kind) ==
  /\ Remembers(limiter[kind][k], accepted[k], limit[k][kind], Windows[kind], moment)
  /\ \A t \in Limiting!Moments :
       Cardinality(InWindow(accepted[k], Windows[kind], t)) =< limit[k][kind]

LimitInv ==
  /\ LimitTypes
  /\ \A k \in Keys : NumberedHits(accepted[k])
  /\ \A k \in Keys : \A kind \in Limiting!LimiterKinds : Kept(k, kind)

\* The definitions that RateLimit takes from FiniteSets are the ones used here.
LEMMA SameHitSets == \A S : Limiting!Cardinality(S) = Cardinality(S)
  BY DEF Limiting!Cardinality, Cardinality

LEMMA LimitsAre ==
  /\ Limits \subseteq Nat \ {0} /\ MaxMoment \in Nat /\ LimiterTtl \in Nat
  /\ \A kind \in Limiting!LimiterKinds :
       Windows[kind] \in Nat \ {0} /\ Windows[kind] =< LimiterTtl
  /\ Limiting!LimiterKinds = {"minute", "hour"}
  /\ Limiting!Moments \subseteq Nat
  BY JobsAssumption DEF Limiting!LimitAssumption, Limiting!LimiterKinds, Limiting!Moments

\* Parts of a finite set.
LEMMA HitsCounted ==
  ASSUME NEW S, IsFiniteSet(S), NEW T \in SUBSET S
  PROVE  /\ IsFiniteSet(T) /\ Cardinality(T) \in Nat /\ Cardinality(S) \in Nat
         /\ Cardinality(T) =< Cardinality(S)
  BY FS_Subset, FS_CardinalityType

\* A hit of now is a new one, and so every part that reaches to now has one more.
LEMMA HitIsNew ==
  ASSUME LimitTypes, NEW S \in SUBSET Limiting!Hits, NumberedHits(S)
  PROVE  /\ Limiting!WithHit(S) \in SUBSET Limiting!Hits /\ NumberedHits(Limiting!WithHit(S))
         /\ \A h \in Limiting!WithHit(S) : h \in S \/ h.at = moment
         /\ \A s \in Int : Cardinality(HitsSince(Limiting!WithHit(S), s)) =
              Cardinality(HitsSince(S, s)) + (IF s =< moment THEN 1 ELSE 0)
<1> DEFINE c == Cardinality(Limiting!During(S, moment))
           n == [at |-> moment, no |-> c + 1]
           W == S \cup {n}
<1>1. Limiting!WithHit(S) = W
  BY SameHitSets DEF Limiting!WithHit
<1>2. moment \in Nat /\ moment \in Limiting!Moments
  BY LimitsAre DEF LimitTypes
<1>3. c \in Nat
  BY HitsCounted DEF Limiting!During, NumberedHits
<1>4. n \in Limiting!Hits /\ n.at = moment /\ n.no = c + 1
  BY <1>2, <1>3 DEF Limiting!Hits
<1>5. n \notin S
  <2> SUFFICES ASSUME n \in S PROVE FALSE
    OBVIOUS
  <2>1. n.no =< c
    BY <1>4 DEF NumberedHits
  <2> QED BY <1>3, <1>4, <2>1
<1> HIDE DEF n
<1>6. IsFiniteSet(S) /\ IsFiniteSet(W)
  BY FS_AddElement DEF NumberedHits
<1>7. ASSUME NEW h \in W PROVE h.no =< Cardinality(Limiting!During(W, h.at))
  <2>1. CASE h.at = moment
    <3>1. Limiting!During(W, moment) = Limiting!During(S, moment) \cup {n}
      BY <1>4 DEF Limiting!During
    <3>2. IsFiniteSet(Limiting!During(S, moment)) /\ n \notin Limiting!During(S, moment)
      BY <1>5, <1>6, HitsCounted DEF Limiting!During
    <3>3. Cardinality(Limiting!During(W, moment)) = c + 1
      BY <3>1, <3>2, FS_AddElement
    <3>4. CASE h = n
      BY <1>3, <1>4, <2>1, <3>3, <3>4
    <3>5. CASE h \in S
      <4>1. h.no =< c /\ h.no \in Nat
        BY <2>1, <3>5 DEF NumberedHits, Limiting!Hits
      <4> QED BY <1>3, <2>1, <3>3, <4>1
    <3> QED BY <3>4, <3>5
  <2>2. CASE h.at # moment
    <3>1. h \in S /\ Limiting!During(W, h.at) = Limiting!During(S, h.at)
      BY <1>4, <2>2 DEF Limiting!During
    <3> QED BY <3>1 DEF NumberedHits
  <2> QED BY <2>1, <2>2
<1>8. ASSUME NEW s \in Int
      PROVE  Cardinality(HitsSince(W, s)) =
               Cardinality(HitsSince(S, s)) + (IF s =< moment THEN 1 ELSE 0)
  <2>1. IsFiniteSet(HitsSince(S, s)) /\ Cardinality(HitsSince(S, s)) \in Nat /\ n \notin HitsSince(S, s)
    BY <1>5, <1>6, HitsCounted DEF HitsSince
  <2>2. CASE s =< moment
    <3>1. HitsSince(W, s) = HitsSince(S, s) \cup {n}
      BY <1>2, <1>4, <2>2 DEF HitsSince
    <3>2. Cardinality(HitsSince(W, s)) = Cardinality(HitsSince(S, s)) + 1
      BY <2>1, <3>1, FS_AddElement
    <3> QED BY <2>2, <3>2
  <2>3. CASE ~(s =< moment)
    <3>1. HitsSince(W, s) = HitsSince(S, s)
      BY <1>2, <1>4, <2>3 DEF HitsSince
    <3> QED BY <2>1, <2>3, <3>1
  <2> QED BY <2>2, <2>3
<1>9. \A h \in W : h \in S \/ h.at = moment
  BY <1>4
<1>10. W \in SUBSET Limiting!Hits /\ NumberedHits(W)
  BY <1>4, <1>6, <1>7 DEF NumberedHits
<1> QED BY <1>1, <1>8, <1>9, <1>10

\* What is pruned is in no window that ends now or later.
LEMMA PruningKeeps ==
  ASSUME LimitTypes, NEW S \in SUBSET Limiting!Hits, NumberedHits(S), NEW w \in Nat
  PROVE  /\ Limiting!Recent(S, w) \in SUBSET S /\ NumberedHits(Limiting!Recent(S, w))
         /\ \A s \in Int : s > moment - w =>
              HitsSince(Limiting!Recent(S, w), s) = HitsSince(S, s)
         /\ HitsSince(S, moment - w + 1) = Limiting!Recent(S, w)
<1> DEFINE R == Limiting!Recent(S, w)
<1>1. moment \in Nat
  BY LimitsAre DEF LimitTypes
<1>2. \A h \in S : h.at \in Nat
  BY LimitsAre DEF Limiting!Hits
<1>3. R \in SUBSET S /\ \A h \in S : h \in R <=> h.at > moment - w
  BY DEF Limiting!Recent
<1> HIDE DEF R
<1>4. IsFiniteSet(R)
  BY <1>3, HitsCounted DEF NumberedHits
<1>5. \A h \in R : h.no =< Cardinality(Limiting!During(R, h.at))
  <2> TAKE h \in R
  <2>1. Limiting!During(R, h.at) = Limiting!During(S, h.at)
    BY <1>3 DEF Limiting!During
  <2> QED BY <1>3, <2>1 DEF NumberedHits
<1>6. \A s \in Int : s > moment - w => HitsSince(R, s) = HitsSince(S, s)
  BY <1>1, <1>2, <1>3 DEF HitsSince
<1>7. HitsSince(S, moment - w + 1) = R
  BY <1>1, <1>2, <1>3 DEF HitsSince
<1> QED BY <1>3, <1>4, <1>5, <1>6, <1>7 DEF R, NumberedHits

\* There is nothing to remember of no requests, whatever the limit.
LEMMA NothingToRemember ==
  ASSUME NEW l, NEW S, NEW max, NEW other, NEW w, NEW instant,
         Remembers(l, S, max, w, instant), l.hits \in SUBSET Limiting!Hits
  PROVE  Remembers(l, {}, other, w, instant)
<1>1. \A s \in Int : HitsSince({}, s) = {} /\ Cardinality(HitsSince({}, s)) = 0
  BY FS_EmptySet DEF HitsSince
<1>2. \A s \in Int : Cardinality(HitsSince(l.hits, s)) \in Nat
  BY HitsCounted DEF Remembers, NumberedHits, HitsSince
<1> QED BY <1>1, <1>2 DEF Remembers

\* A limiter is evicted when its hits are in no window any more.
LEMMA EvictedRemembers ==
  ASSUME LimitTypes, NEW l \in Limiters, NEW S \in SUBSET Limiting!Hits, NumberedHits(S), NEW max,
         NEW w \in Nat, w =< LimiterTtl, Remembers(l, S, max, w, moment)
  PROVE  Limiting!Evicted(l) \in Limiters /\ Remembers(Limiting!Evicted(l), S, max, w, moment)
<1>1. moment \in Nat /\ l.used \in Nat /\ \A h \in l.hits : h.at \in Nat
  BY LimitsAre DEF LimitTypes, Limiters, Limiting!Hits
<1>2. CASE ~(l.used < moment - LimiterTtl)
  BY <1>2 DEF Limiting!Evicted
<1>3. CASE l.used < moment - LimiterTtl
  <2>1. /\ Limiting!Evicted(l) = Limiting!None /\ Limiting!None \in Limiters
        /\ Limiting!None.hits = {} /\ Limiting!None.used = 0
    BY <1>3, LimitsAre DEF Limiting!Evicted, Limiting!None, Limiters, Limiting!Moments
  <2>2. ASSUME NEW s \in Int, s > moment - w
        PROVE  HitsSince(S, s) = {} /\ HitsSince({}, s) = {} /\ Cardinality({}) = 0
    <3>1. \A h \in l.hits : ~(h.at >= s)
      BY <1>1, <1>3, <2>2, LimitsAre DEF Remembers
    <3>2. HitsSince(l.hits, s) = {}
      BY <3>1 DEF HitsSince
    <3>3. IsFiniteSet(HitsSince(S, s)) /\ Cardinality(HitsSince(S, s)) \in Nat
      BY HitsCounted DEF NumberedHits, HitsSince
    <3>4. Cardinality(HitsSince(S, s)) =< Cardinality(HitsSince(l.hits, s))
      BY <2>2 DEF Remembers
    <3>5. Cardinality(HitsSince(l.hits, s)) = 0
      BY <3>2, FS_EmptySet
    <3>6. Cardinality(HitsSince(S, s)) = 0
      BY <3>3, <3>4, <3>5
    <3> QED BY <3>3, <3>6, FS_EmptySet DEF HitsSince
  <2>3. NumberedHits({})
    BY FS_EmptySet DEF NumberedHits
  <2>4. ASSUME NEW s \in Int, s > moment - w
        PROVE  Cardinality(HitsSince(S, s)) =< Cardinality(HitsSince({}, s)) /\ HitsSince(S, s) = {}
    <3>1. HitsSince(S, s) = {} /\ HitsSince({}, s) = {} /\ Cardinality({}) = 0
      BY <2>2, <2>4
    <3>2. Cardinality(HitsSince(S, s)) = 0 /\ Cardinality(HitsSince({}, s)) = 0
      BY <3>1
    <3> QED BY <3>1, <3>2
  <2>5. Remembers(Limiting!None, S, max, w, moment)
    BY <1>1, <2>1, <2>3, <2>4 DEF Remembers
  <2> QED BY <2>1, <2>5
<1> QED BY <1>2, <1>3

\* The limiter that a request gets is for the limits the request has read.
LEMMA GotRemembers ==
  ASSUME LimitTypes, NEW l \in Limiters, NEW S \in SUBSET Limiting!Hits, NEW max \in Limits,
         NEW w \in Nat, Remembers(l, S, max, w, moment)
  PROVE  /\ Limiting!Got(l, max) \in Limiters
         /\ Limiting!Got(l, max).max = max /\ Limiting!Got(l, max).used = moment
         /\ Remembers(Limiting!Got(l, max), S, max, w, moment)
<1> DEFINE g == Limiting!Got(l, max)
           hits == IF l.max = max THEN l.hits ELSE {}
<1>1. moment \in Nat /\ moment \in Limiting!Moments /\ l.used \in Nat
      /\ \A h \in l.hits : h.at \in Nat
  BY LimitsAre DEF LimitTypes, Limiters, Limiting!Hits
<1>2. /\ g \in Limiters /\ g.max = max /\ g.used = moment /\ g.hits = hits
  <2>1. g = [l EXCEPT !.max = max, !.hits = hits, !.used = moment]
    BY DEF Limiting!Got
  <2>2. hits \in SUBSET Limiting!Hits
    BY DEF Limiters
  <2> HIDE DEF g, hits
  <2> QED BY <1>1, <2>1, <2>2 DEF Limiters
<1> HIDE DEF g
<1>3. ASSUME l.max = max PROVE Remembers(g, S, max, w, moment)
  <2>1. g.hits = l.hits /\ \A h \in g.hits : h.at =< g.used
    BY <1>1, <1>2, <1>3 DEF Remembers
  <2> QED BY <1>1, <1>2, <1>3, <2>1 DEF Remembers
<1>4. ASSUME l.max # max PROVE Remembers(g, S, max, w, moment)
  <2>1. NumberedHits({}) /\ Cardinality({}) = 0
    BY FS_EmptySet DEF NumberedHits
  <2>2. \A s \in Int : s > moment - w => HitsSince(S, s) = {} /\ HitsSince({}, s) = {}
    BY <1>4 DEF Remembers, HitsSince
  <2>3. \A s \in Int : s > moment - w =>
          Cardinality(HitsSince(S, s)) =< Cardinality(HitsSince({}, s)) /\ HitsSince(S, s) = {}
    <3> SUFFICES ASSUME NEW s \in Int, s > moment - w
                 PROVE  Cardinality(HitsSince(S, s)) =< Cardinality(HitsSince({}, s)) /\ HitsSince(S, s) = {}
      OBVIOUS
    <3>1. HitsSince(S, s) = {} /\ HitsSince({}, s) = {}
      BY <2>2
    <3>2. Cardinality(HitsSince(S, s)) = 0 /\ Cardinality(HitsSince({}, s)) = 0
      BY <2>1, <3>1
    <3> QED BY <3>1, <3>2
  <2>4. g.hits = {}
    BY <1>2, <1>4
  <2> QED BY <1>1, <1>2, <2>1, <2>3, <2>4 DEF Remembers
<1> QED BY <1>2, <1>3, <1>4 DEF g

\* A limiter that lets a request through has it among its hits, and still no
\* more than its maximum in any window; one that does not has pruned its hits.
LEMMA HitRemembers ==
  ASSUME LimitTypes, NEW g \in Limiters, NEW S \in SUBSET Limiting!Hits, NumberedHits(S),
         g.max \in Nat, g.used = moment, NEW w \in Nat, Remembers(g, S, g.max, w, moment)
  PROVE  /\ Limiting!Hit(g, w) \in Limiters
         /\ Remembers(Limiting!Hit(g, w), S, g.max, w, moment)
         /\ ~Limiting!IsLimited(g, w) =>
              /\ Remembers(Limiting!Hit(g, w), Limiting!WithHit(S), g.max, w, moment)
              /\ \A t \in Limiting!Moments :
                   Cardinality(InWindow(S, w, t)) =< g.max =>
                     Cardinality(InWindow(Limiting!WithHit(S), w, t)) =< g.max
<1> DEFINE p == Limiting!Pruned(g, w)
           R == Limiting!Recent(g.hits, w)
           q == [p EXCEPT !.hits = Limiting!WithHit(p.hits)]
<1>1. moment \in Nat /\ \A h \in Limiting!Hits : h.at \in Nat
  BY LimitsAre DEF LimitTypes, Limiting!Hits
<1>2. g.hits \in SUBSET Limiting!Hits /\ NumberedHits(g.hits)
  BY DEF Limiters, Remembers
<1>3. /\ R \in SUBSET g.hits /\ NumberedHits(R)
      /\ \A s \in Int : s > moment - w => HitsSince(R, s) = HitsSince(g.hits, s)
      /\ HitsSince(g.hits, moment - w + 1) = R
  BY <1>2, PruningKeeps
<1>4. p \in Limiters /\ p.max = g.max /\ p.used = g.used /\ p.hits = R
  BY <1>2, <1>3 DEF Limiting!Pruned, Limiters
<1>5. R \in SUBSET Limiting!Hits
  BY <1>2, <1>3
<1> HIDE DEF p, R
<1>6. /\ Limiting!WithHit(R) \in SUBSET Limiting!Hits /\ NumberedHits(Limiting!WithHit(R))
      /\ \A h \in Limiting!WithHit(R) : h \in R \/ h.at = moment
      /\ \A s \in Int : Cardinality(HitsSince(Limiting!WithHit(R), s)) =
           Cardinality(HitsSince(R, s)) + (IF s =< moment THEN 1 ELSE 0)
  BY <1>3, <1>5, HitIsNew
<1>7. q \in Limiters /\ q.max = g.max /\ q.used = g.used /\ q.hits = Limiting!WithHit(R)
  BY <1>4, <1>6 DEF Limiters
<1>8. Limiting!Hit(g, w) = IF Limiting!IsLimited(g, w) THEN p ELSE q
  BY DEF Limiting!Hit, p
<1> HIDE DEF q
<1>9. \A s \in Int : /\ Cardinality(HitsSince(S, s)) \in Nat
                     /\ Cardinality(HitsSince(R, s)) \in Nat
  BY <1>3, HitsCounted DEF NumberedHits, HitsSince
<1>10. Remembers(p, S, g.max, w, moment)
  BY <1>1, <1>3, <1>4 DEF Remembers
<1>11. \A h \in Limiting!WithHit(R) : h.at =< moment
  BY <1>1, <1>3, <1>6 DEF Remembers
<1>12. Remembers(q, S, g.max, w, moment)
  BY <1>1, <1>3, <1>6, <1>7, <1>9, <1>11 DEF Remembers
<1>13. ASSUME ~Limiting!IsLimited(g, w)
       PROVE  /\ Remembers(q, Limiting!WithHit(S), g.max, w, moment)
              /\ \A t \in Limiting!Moments :
                   Cardinality(InWindow(S, w, t)) =< g.max =>
                     Cardinality(InWindow(Limiting!WithHit(S), w, t)) =< g.max
  <2>1. /\ Limiting!WithHit(S) \in SUBSET Limiting!Hits /\ NumberedHits(Limiting!WithHit(S))
        /\ \A h \in Limiting!WithHit(S) : h \in S \/ h.at = moment
        /\ \A s \in Int : Cardinality(HitsSince(Limiting!WithHit(S), s)) =
             Cardinality(HitsSince(S, s)) + (IF s =< moment THEN 1 ELSE 0)
    BY HitIsNew
  <2>2. ASSUME NEW s \in Int, s > moment - w
        PROVE  Cardinality(HitsSince(Limiting!WithHit(S), s)) =<
                 Cardinality(HitsSince(Limiting!WithHit(R), s))
    <3>1. Cardinality(HitsSince(S, s)) =< Cardinality(HitsSince(R, s))
      BY <1>3, <2>2 DEF Remembers
    <3>2. Cardinality(HitsSince(Limiting!WithHit(S), s)) =
            Cardinality(HitsSince(S, s)) + (IF s =< moment THEN 1 ELSE 0)
      BY <2>1
    <3>3. Cardinality(HitsSince(Limiting!WithHit(R), s)) =
            Cardinality(HitsSince(R, s)) + (IF s =< moment THEN 1 ELSE 0)
      BY <1>6
    <3> QED BY <1>9, <3>1, <3>2, <3>3
  <2>3. Remembers(q, Limiting!WithHit(S), g.max, w, moment)
    BY <1>1, <1>6, <1>7, <1>11, <2>2 DEF Remembers
  <2>4. ASSUME NEW t \in Limiting!Moments, Cardinality(InWindow(S, w, t)) =< g.max
        PROVE  Cardinality(InWindow(Limiting!WithHit(S), w, t)) =< g.max
    <3>0. t \in Nat
      BY LimitsAre
    <3>1. CASE t < moment
      <4>1. S \subseteq Limiting!WithHit(S)
        BY DEF Limiting!WithHit
      <4>2. InWindow(Limiting!WithHit(S), w, t) = InWindow(S, w, t)
        BY <1>1, <2>1, <3>0, <3>1, <4>1 DEF InWindow
      <4> QED BY <2>4, <4>2
    <3>2. CASE ~(t < moment)
      <4> DEFINE from == moment - w + 1
                 W == Limiting!WithHit(S)
      <4>1. from \in Int /\ from > moment - w
        BY <1>1
      <4>2. Cardinality(HitsSince(S, from)) =< Cardinality(R)
        <5>1. Cardinality(HitsSince(S, from)) =< Cardinality(HitsSince(g.hits, from))
          BY <4>1 DEF Remembers
        <5> QED BY <1>3, <5>1
      <4>3. Cardinality(R) < g.max /\ Cardinality(R) \in Nat
        <5>1. ~(Cardinality(R) >= g.max)
          BY <1>13, SameHitSets DEF Limiting!IsLimited, R
        <5>2. Cardinality(R) \in Nat
          BY <1>3, FS_CardinalityType DEF NumberedHits
        <5> QED BY <5>1, <5>2
      <4>4. Cardinality(HitsSince(W, from)) =< g.max
        <5>1. Cardinality(HitsSince(W, from)) =< Cardinality(HitsSince(S, from)) + 1
          BY <1>9, <2>1, <4>1
        <5>2. Cardinality(HitsSince(S, from)) \in Nat /\ Cardinality(HitsSince(W, from)) \in Nat
          BY <1>9, <2>1, <4>1
        <5> HIDE DEF from, W
        <5> QED BY <4>2, <4>3, <5>1, <5>2
      <4>5. InWindow(W, w, t) \in SUBSET HitsSince(W, from)
        BY <1>1, <2>1, <3>0, <3>2 DEF InWindow, HitsSince
      <4>6. Cardinality(InWindow(W, w, t)) =< Cardinality(HitsSince(W, from))
            /\ Cardinality(InWindow(W, w, t)) \in Nat /\ Cardinality(HitsSince(W, from)) \in Nat
        <5>1. IsFiniteSet(HitsSince(W, from))
          BY <2>1, HitsCounted DEF NumberedHits, HitsSince
        <5> QED BY <4>5, <5>1, HitsCounted
      <4> QED BY <4>4, <4>6
    <3> QED BY <3>1, <3>2
  <2> QED BY <2>3, <2>4
<1> QED BY <1>4, <1>7, <1>8, <1>10, <1>12, <1>13

\* What a request leaves of a limiter, and of the requests that were let through.
LEMMA AdmitKeeps ==
  ASSUME LimitTypes, NEW k \in Keys, Limiting!Admit(k), NumberedHits(accepted[k]),
         \A kind \in Limiting!LimiterKinds : Kept(k, kind)
  PROVE  /\ accepted'[k] \in SUBSET Limiting!Hits /\ NumberedHits(accepted'[k])
         /\ accepted' = [accepted EXCEPT ![k] = accepted'[k]]
         /\ limiter' \in [Limiting!LimiterKinds -> [Keys -> Limiters]]
         /\ \A kind \in Limiting!LimiterKinds :
              /\ Remembers(limiter'[kind][k], accepted'[k], limit[k][kind], Windows[kind], moment)
              /\ \A t \in Limiting!Moments :
                   Cardinality(InWindow(accepted'[k], Windows[kind], t)) =< limit[k][kind]
         /\ \A kind \in Limiting!LimiterKinds : \A i \in Keys \ {k} :
              \/ limiter'[kind][i] = limiter[kind][i]
              \/ limiter'[kind][i] = Limiting!Evicted(limiter[kind][i])
<1>1. PICK evict \in BOOLEAN :
       LET remaining == [kind \in Limiting!LimiterKinds |-> [i \in Keys |->
                      IF evict THEN Limiting!Evicted(limiter[kind][i]) ELSE limiter[kind][i]]]
           minute == Limiting!Got(remaining["minute"][k], asked[k]["minute"])
           hour == Limiting!Got(remaining["hour"][k], asked[k]["hour"])
           stopped == Limiting!IsLimited(minute, Windows["minute"])
           refused == stopped \/ Limiting!IsLimited(hour, Windows["hour"])
           before == IF asked[k] = limit[k] THEN accepted[k] ELSE {}
       IN  /\ limiter' = [remaining EXCEPT
                !["minute"][k] = Limiting!Hit(minute, Windows["minute"]),
                !["hour"][k] = IF stopped THEN hour ELSE Limiting!Hit(hour, Windows["hour"])]
           /\ accepted' = [accepted EXCEPT ![k] =
                IF refused \/ asked[k] # limit[k] THEN before ELSE Limiting!WithHit(before)]
  BY DEF Limiting!Admit
<1> DEFINE remaining(kind, i) == IF evict THEN Limiting!Evicted(limiter[kind][i]) ELSE limiter[kind][i]
           store == [kind \in Limiting!LimiterKinds |-> [i \in Keys |-> remaining(kind, i)]]
           taken(kind) == Limiting!Got(remaining(kind, k), asked[k][kind])
           stops(kind) == Limiting!IsLimited(taken(kind), Windows[kind])
           refuses == stops("minute") \/ stops("hour")
           struck(kind) == Limiting!Hit(taken(kind), Windows[kind])
           old == IF asked[k] = limit[k] THEN accepted[k] ELSE {}
           new == IF refuses \/ asked[k] # limit[k] THEN old ELSE Limiting!WithHit(old)
<1>k. Limiting!LimiterKinds = {"minute", "hour"}
  BY LimitsAre
<1>2. /\ limiter' = [store EXCEPT !["minute"][k] = struck("minute"),
                               !["hour"][k] = IF stops("minute") THEN taken("hour") ELSE struck("hour")]
      /\ accepted' = [accepted EXCEPT ![k] = new]
  BY <1>1, <1>k
<1>3. \A kind \in Limiting!LimiterKinds : \A i \in Keys :
        limiter[kind][i] \in Limiters /\ Limiting!Evicted(limiter[kind][i]) \in Limiters
  <2>1. Limiting!None \in Limiters
    BY LimitsAre DEF Limiting!None, Limiters, Limiting!Moments
  <2> QED BY <2>1 DEF LimitTypes, Limiting!Evicted
<1>4. /\ old \in SUBSET Limiting!Hits /\ NumberedHits(old)
  BY FS_EmptySet DEF LimitTypes, NumberedHits
<1>5. asked[k] \in Limiting!Pairs /\ limit[k] \in Limiting!Pairs
  BY DEF LimitTypes, Limiting!Admit
<1>6. ASSUME NEW kind \in Limiting!LimiterKinds
      PROVE  /\ taken(kind) \in Limiters /\ taken(kind).max = asked[k][kind] /\ taken(kind).used = moment
             /\ Remembers(taken(kind), old, asked[k][kind], Windows[kind], moment)
             /\ asked[k][kind] \in Limits /\ Windows[kind] \in Nat
  <2>0. /\ Windows[kind] \in Nat /\ Windows[kind] =< LimiterTtl
        /\ limiter[kind][k] \in Limiters /\ asked[k][kind] \in Limits
    BY <1>3, <1>5, LimitsAre DEF Limiting!Pairs
  <2>1. Remembers(limiter[kind][k], old, asked[k][kind], Windows[kind], moment)
    <3>1. Remembers(limiter[kind][k], accepted[k], limit[k][kind], Windows[kind], moment)
      BY DEF Kept
    <3>2. limiter[kind][k].hits \in SUBSET Limiting!Hits
      BY <2>0 DEF Limiters
    <3>3. Remembers(limiter[kind][k], {}, asked[k][kind], Windows[kind], moment)
      BY <3>1, <3>2, NothingToRemember
    <3> QED BY <3>1, <3>3
  <2>2. remaining(kind, k) \in Limiters /\ Remembers(remaining(kind, k), old, asked[k][kind], Windows[kind], moment)
    <3>1. CASE evict
      BY <1>4, <2>0, <2>1, <3>1, EvictedRemembers
    <3>2. CASE ~evict
      BY <2>0, <2>1, <3>2
    <3> QED BY <3>1, <3>2
  <2> HIDE DEF remaining, old
  <2> QED BY <1>4, <2>0, <2>2, GotRemembers
<1>7. ASSUME NEW kind \in Limiting!LimiterKinds
      PROVE  /\ struck(kind) \in Limiters
             /\ Remembers(struck(kind), old, asked[k][kind], Windows[kind], moment)
             /\ ~stops(kind) =>
                  /\ Remembers(struck(kind), Limiting!WithHit(old), asked[k][kind], Windows[kind], moment)
                  /\ \A t \in Limiting!Moments :
                       Cardinality(InWindow(old, Windows[kind], t)) =< asked[k][kind] =>
                         Cardinality(InWindow(Limiting!WithHit(old), Windows[kind], t)) =< asked[k][kind]
  <2> HIDE DEF taken, old
  <2>1. taken(kind).max \in Nat /\ taken(kind).max = asked[k][kind]
    BY <1>6, LimitsAre
  <2> QED BY <1>4, <1>6, <2>1, HitRemembers
<1>8. Limiting!WithHit(old) \in SUBSET Limiting!Hits /\ NumberedHits(Limiting!WithHit(old))
  <2> HIDE DEF old
  <2> QED BY <1>4, HitIsNew
<1>9. /\ new \in SUBSET Limiting!Hits /\ NumberedHits(new) /\ accepted'[k] = new
  <2>1. new \in SUBSET Limiting!Hits /\ NumberedHits(new)
    <3> HIDE DEF old
    <3> QED BY <1>4, <1>8
  <2> HIDE DEF new
  <2> QED BY <1>2, <2>1 DEF LimitTypes
<1>10. /\ limiter' \in [Limiting!LimiterKinds -> [Keys -> Limiters]]
       /\ limiter'["minute"][k] = struck("minute")
       /\ limiter'["hour"][k] = IF stops("minute") THEN taken("hour") ELSE struck("hour")
       /\ \A kind \in Limiting!LimiterKinds : \A i \in Keys \ {k} : limiter'[kind][i] = remaining(kind, i)
  <2>1. store \in [Limiting!LimiterKinds -> [Keys -> Limiters]]
    BY <1>3
  <2>2. struck("minute") \in Limiters /\ struck("hour") \in Limiters /\ taken("hour") \in Limiters
    <3> HIDE DEF struck, taken
    <3> QED BY <1>k, <1>6, <1>7
  <2>3. \A kind \in Limiting!LimiterKinds : \A i \in Keys : store[kind][i] = remaining(kind, i)
    OBVIOUS
  <2> HIDE DEF store, struck, taken, remaining, stops
  <2> QED BY <1>k, <1>2, <2>1, <2>2, <2>3
<1>11. \A t \in Limiting!Moments, kind \in Limiting!LimiterKinds :
         Cardinality(InWindow(old, Windows[kind], t)) =< limit[k][kind]
  <2>1. \A kind \in Limiting!LimiterKinds : limit[k][kind] \in Nat
    BY <1>5, LimitsAre DEF Limiting!Pairs
  <2>2. \A t \in Limiting!Moments, kind \in Limiting!LimiterKinds :
          Cardinality(InWindow({}, Windows[kind], t)) =< limit[k][kind]
    BY <2>1, FS_EmptySet DEF InWindow
  <2> QED BY <2>2 DEF Kept
<1>12. ASSUME NEW kind \in Limiting!LimiterKinds
       PROVE  /\ Remembers(limiter'[kind][k], new, limit[k][kind], Windows[kind], moment)
              /\ \A t \in Limiting!Moments :
                   Cardinality(InWindow(new, Windows[kind], t)) =< limit[k][kind]
  <2> HIDE DEF struck, taken, remaining, old, stops
  <2>1. limiter'[kind][k] \in {struck(kind), taken(kind)}
    BY <1>k, <1>10
  <2>2. Remembers(limiter'[kind][k], old, asked[k][kind], Windows[kind], moment)
    BY <1>6, <1>7, <2>1
  <2>3. CASE asked[k] # limit[k]
    <3>1. new = old /\ old = {}
      BY <2>3 DEF old
    <3>2. limiter'[kind][k].hits \in SUBSET Limiting!Hits
      BY <1>10 DEF Limiters
    <3>3. Remembers(limiter'[kind][k], {}, limit[k][kind], Windows[kind], moment)
      BY <2>2, <3>1, <3>2, NothingToRemember
    <3> QED BY <1>11, <3>1, <3>3
  <2>4. CASE asked[k] = limit[k] /\ refuses
    <3>1. new = old
      BY <2>4
    <3> QED BY <1>11, <2>2, <2>4, <3>1
  <2>5. CASE asked[k] = limit[k] /\ ~refuses
    <3>1. new = Limiting!WithHit(old) /\ ~stops("minute") /\ ~stops("hour")
      BY <2>5
    <3>2. ~stops(kind) /\ limiter'[kind][k] = struck(kind)
      BY <1>k, <1>10, <3>1
    <3> QED BY <1>7, <1>11, <2>5, <3>1, <3>2
  <2> QED BY <2>3, <2>4, <2>5
<1>13. \A kind \in Limiting!LimiterKinds : \A i \in Keys \ {k} :
         \/ limiter'[kind][i] = limiter[kind][i]
         \/ limiter'[kind][i] = Limiting!Evicted(limiter[kind][i])
  BY <1>10
<1>14. accepted' = [accepted EXCEPT ![k] = accepted'[k]]
  BY <1>2, <1>9
<1> HIDE DEF new
<1> QED BY <1>9, <1>10, <1>12, <1>13, <1>14

LEMMA LimitStep == LimitInv /\ [Limiting!LimitNext]_limitVars => LimitInv'
<1> SUFFICES ASSUME LimitInv, [Limiting!LimitNext]_limitVars PROVE LimitInv'
  OBVIOUS
<1>t. LimitTypes
  BY DEF LimitInv
<1>1. CASE UNCHANGED limitVars
  BY <1>1 DEF limitVars, LimitInv, LimitTypes, Kept
<1>2. CASE Limiting!Pass
  <2>1. /\ moment \in Nat /\ moment' = moment + 1 /\ moment' \in Limiting!Moments
        /\ UNCHANGED <<limit, limiter, asked, accepted>>
    BY <1>t, <1>2, LimitsAre DEF Limiting!Pass, LimitTypes, Limiting!Moments
  <2>2. ASSUME NEW k \in Keys, NEW kind \in Limiting!LimiterKinds PROVE Kept(k, kind)'
    <3>1. Kept(k, kind)
      BY DEF LimitInv
    <3>2. Windows[kind] \in Nat /\ limiter[kind][k].used \in Nat
      BY <1>t, LimitsAre DEF LimitTypes, Limiters
    <3>3. Remembers(limiter[kind][k], accepted[k], limit[k][kind], Windows[kind], moment + 1)
      <4>1. limiter[kind][k].used =< moment + 1
        BY <2>1, <3>1, <3>2 DEF Kept, Remembers
      <4>2. \A s \in Int : s > moment + 1 - Windows[kind] => s > moment - Windows[kind]
        BY <2>1, <3>2
      <4>3. \A s \in Int : s > moment + 1 - Windows[kind] =>
              /\ Cardinality(HitsSince(accepted[k], s)) =< Cardinality(HitsSince(limiter[kind][k].hits, s))
              /\ limiter[kind][k].max # limit[k][kind] => HitsSince(accepted[k], s) = {}
        BY <3>1, <4>2 DEF Kept, Remembers
      <4>4. NumberedHits(limiter[kind][k].hits)
            /\ \A h \in limiter[kind][k].hits : h.at =< limiter[kind][k].used
        BY <3>1 DEF Kept, Remembers
      <4> QED BY <2>1, <3>2, <4>1, <4>3, <4>4 DEF Remembers
    <3> QED BY <2>1, <3>1, <3>3 DEF Kept
  <2> QED BY <1>t, <2>1, <2>2 DEF LimitInv, LimitTypes
<1>3. ASSUME NEW k \in Keys, Limiting!AskLimits(k) PROVE LimitInv'
  BY <1>3 DEF Limiting!AskLimits, LimitInv, LimitTypes, Kept
<1>4. ASSUME NEW k \in Keys, Limiting!Admit(k) PROVE LimitInv'
  <2>1. /\ accepted'[k] \in SUBSET Limiting!Hits /\ NumberedHits(accepted'[k])
        /\ accepted' = [accepted EXCEPT ![k] = accepted'[k]]
        /\ limiter' \in [Limiting!LimiterKinds -> [Keys -> Limiters]]
        /\ \A kind \in Limiting!LimiterKinds :
             /\ Remembers(limiter'[kind][k], accepted'[k], limit[k][kind], Windows[kind], moment)
             /\ \A t \in Limiting!Moments :
                  Cardinality(InWindow(accepted'[k], Windows[kind], t)) =< limit[k][kind]
        /\ \A kind \in Limiting!LimiterKinds : \A i \in Keys \ {k} :
             \/ limiter'[kind][i] = limiter[kind][i]
             \/ limiter'[kind][i] = Limiting!Evicted(limiter[kind][i])
    BY <1>4, AdmitKeeps DEF LimitInv
  <2>2. UNCHANGED <<moment, limit>> /\ asked' = [asked EXCEPT ![k] = Unasked]
    BY <1>4 DEF Limiting!Admit
  <2>3. LimitTypes'
    BY <1>t, <2>1, <2>2 DEF LimitTypes
  <2>4. ASSUME NEW i \in Keys PROVE NumberedHits(accepted'[i])
    BY <1>t, <2>1 DEF LimitInv, LimitTypes
  <2>5. ASSUME NEW i \in Keys, NEW kind \in Limiting!LimiterKinds PROVE Kept(i, kind)'
    <3>1. CASE i = k
      BY <2>1, <2>2, <3>1 DEF Kept
    <3>2. CASE i # k
      <4>1. accepted'[i] = accepted[i] /\ accepted[i] \in SUBSET Limiting!Hits
        BY <1>t, <2>1, <3>2 DEF LimitTypes
      <4>2. limiter[kind][i] \in Limiters /\ Windows[kind] \in Nat /\ Windows[kind] =< LimiterTtl
        BY <1>t, LimitsAre DEF LimitTypes
      <4>3. Kept(i, kind) /\ NumberedHits(accepted[i])
        BY DEF LimitInv
      <4>4. Remembers(Limiting!Evicted(limiter[kind][i]), accepted[i], limit[i][kind], Windows[kind], moment)
        BY <1>t, <4>1, <4>2, <4>3, EvictedRemembers DEF Kept
      <4>5. Remembers(limiter'[kind][i], accepted[i], limit[i][kind], Windows[kind], moment)
        BY <2>1, <3>2, <4>3, <4>4 DEF Kept
      <4> QED BY <2>2, <4>1, <4>3, <4>5 DEF Kept
    <3> QED BY <3>1, <3>2
  <2> QED BY <2>3, <2>4, <2>5 DEF LimitInv
<1>5. ASSUME NEW k \in Keys, Limiting!ChangeLimits(k) PROVE LimitInv'
  <2>1. /\ accepted' = [accepted EXCEPT ![k] = {}] /\ UNCHANGED <<moment, limiter, asked>>
        /\ limit' \in [Keys -> Limiting!Pairs] /\ \A i \in Keys \ {k} : limit'[i] = limit[i]
    BY <1>t, <1>5 DEF Limiting!ChangeLimits, LimitTypes
  <2>2. LimitTypes'
    BY <1>t, <2>1 DEF LimitTypes
  <2>3. accepted'[k] = {} /\ \A i \in Keys \ {k} : accepted'[i] = accepted[i]
    BY <1>t, <2>1 DEF LimitTypes
  <2>4. ASSUME NEW i \in Keys PROVE NumberedHits(accepted'[i])
    BY <2>3, FS_EmptySet DEF LimitInv, NumberedHits
  <2>5. ASSUME NEW i \in Keys, NEW kind \in Limiting!LimiterKinds PROVE Kept(i, kind)'
    <3>0. Kept(i, kind)
      BY DEF LimitInv
    <3>1. CASE i = k
      <4>1. limiter[kind][k].hits \in SUBSET Limiting!Hits
        BY <1>t DEF LimitTypes, Limiters
      <4>2. Remembers(limiter[kind][k], {}, limit'[k][kind], Windows[kind], moment)
        BY <3>0, <3>1, <4>1, NothingToRemember DEF Kept
      <4>3. limit'[k][kind] \in Nat
        BY <2>1, LimitsAre DEF Limiting!Pairs
      <4>4. \A t \in Limiting!Moments : Cardinality(InWindow({}, Windows[kind], t)) =< limit'[k][kind]
        BY <4>3, FS_EmptySet DEF InWindow
      <4> QED BY <2>1, <2>3, <3>1, <4>2, <4>4 DEF Kept
    <3>2. CASE i # k
      BY <2>1, <2>3, <3>0, <3>2 DEF Kept
    <3> QED BY <3>1, <3>2
  <2> QED BY <2>2, <2>4, <2>5 DEF LimitInv
<1> QED BY <1>1, <1>2, <1>3, <1>4, <1>5 DEF Limiting!LimitNext

LEMMA LimitStarts == Limiting!LimitInit => LimitInv
<1> SUFFICES ASSUME Limiting!LimitInit PROVE LimitInv
  OBVIOUS
<1>1. Limiting!None \in Limiters /\ Limiting!None.hits = {} /\ Limiting!None.used = 0
      /\ 0 \in Limiting!Moments
  BY LimitsAre DEF Limiting!None, Limiters, Limiting!Moments
<1>2. LimitTypes
  BY <1>1 DEF Limiting!LimitInit, LimitTypes
<1>3. NumberedHits({}) /\ \A s \in Int : HitsSince({}, s) = {} /\ Cardinality({}) = 0
  BY FS_EmptySet DEF NumberedHits, HitsSince
<1>4. ASSUME NEW k \in Keys, NEW kind \in Limiting!LimiterKinds PROVE Kept(k, kind)
  <2>1. moment = 0 /\ limiter[kind][k] = Limiting!None /\ accepted[k] = {}
    BY DEF Limiting!LimitInit
  <2>2. \A s \in Int : Cardinality(HitsSince({}, s)) =< Cardinality(HitsSince({}, s))
    BY <1>3
  <2>3. Remembers(Limiting!None, {}, limit[k][kind], Windows[kind], 0)
    <3>1. \A s \in Int : /\ Cardinality(HitsSince({}, s)) =< Cardinality(HitsSince(Limiting!None.hits, s))
                         /\ HitsSince({}, s) = {}
      BY <1>1, <1>3, <2>2
    <3> QED BY <1>1, <1>3, <3>1 DEF Remembers
  <2>4. limit[k][kind] \in Nat
    <3>1. limit[k] \in [Limiting!LimiterKinds -> Limits]
      BY <1>2 DEF LimitTypes, Limiting!Pairs
    <3>2. limit[k][kind] \in Limits
      BY <3>1
    <3> QED BY <3>2, LimitsAre
  <2>5. \A t \in Limiting!Moments : Cardinality(InWindow({}, Windows[kind], t)) =< limit[k][kind]
    BY <2>4, FS_EmptySet DEF InWindow
  <2> QED BY <2>1, <2>3, <2>5 DEF Kept
<1> QED BY <1>2, <1>3, <1>4 DEF LimitInv, Limiting!LimitInit

\* However requests, changes of the limits and evictions follow each other, no
\* window of a minute or an hour sees more requests of a key than its limits say
\* (utils/rate_limit.py, domains/api_keys/middleware.py).
THEOREM WithinLimitsHolds == JobsSpec => []WithinLimits
<1>1. LimitInv => WithinLimits
  BY SameHitSets DEF LimitInv, Kept, InWindow, WithinLimits, Limiting!WithinLimits
<1>2. JobsInit => LimitInv
  BY LimitStarts DEF JobsInit
<1>3. LimitInv /\ [JobsNext]_<<part, allVars>> => LimitInv'
  BY PartSteps, LimitStep
<1> QED BY <1>1, <1>2, <1>3, PTL DEF JobsSpec

-----------------------------------------------------------------------------
(* Classification *)

\* The definitions that Classification takes from FiniteSets are the ones used here.
LEMMA SameAgentSets ==
  \A S : (Classifier!IsFiniteSet(S) <=> IsFiniteSet(S)) /\ Classifier!Cardinality(S) = Cardinality(S)
<1>1. \A S : Classifier!IsFiniteSet(S) <=> IsFiniteSet(S)
  BY DEF Classifier!IsFiniteSet, IsFiniteSet
<1>2. \A S : Classifier!Cardinality(S) = Cardinality(S)
  BY DEF Classifier!Cardinality, Cardinality
<1> QED BY <1>1, <1>2

LEMMA AgentsAre ==
  /\ IsFiniteSet(Agents) /\ Cardinality(Agents) \in Nat /\ AgentBatch \in Nat \ {0}
  /\ Nobody \notin Pipelines /\ Gone \notin Pipelines
<1>1. /\ IsFiniteSet(Agents) /\ AgentBatch \in Nat \ {0}
      /\ Nobody \notin Pipelines /\ Gone \notin Pipelines
  BY JobsAssumption, SameAgentSets DEF Classifier!ClassificationAssumption
<1> QED BY <1>1, FS_CardinalityType

\* The size of a set of agents, and of one that two others cover.
LEMMA AgentsCounted ==
  ASSUME NEW S \in SUBSET Agents, NEW T \in SUBSET Agents
  PROVE  /\ IsFiniteSet(S) /\ Cardinality(S) \in Nat /\ Cardinality(T) \in Nat
         /\ S \subseteq T => Cardinality(S) =< Cardinality(T)
         /\ Cardinality(S \cup T) =< Cardinality(S) + Cardinality(T)
<1>1. IsFiniteSet(S) /\ IsFiniteSet(T)
  BY AgentsAre, FS_Subset
<1>2. /\ Cardinality(S) \in Nat /\ Cardinality(T) \in Nat
      /\ IsFiniteSet(S \cap T) /\ Cardinality(S \cap T) \in Nat
  BY <1>1, FS_CardinalityType, FS_Intersection
<1>3. S \subseteq T => Cardinality(S) =< Cardinality(T)
  BY <1>1, FS_Subset
<1>4. Cardinality(S \cup T) = Cardinality(S) + Cardinality(T) - Cardinality(S \cap T)
  BY <1>1, FS_Union
<1> QED BY <1>1, <1>2, <1>3, <1>4

\* A page of agents: a batch that is not full leaves nobody behind, and none
\* leaves behind an agent before its last one.
LEMMA PagesSkipNobody ==
  ASSUME ids \in [Agents -> Nat], next \in Nat, \A a \in Agents : ids[a] < next,
         NEW last \in Nat
  PROVE  LET docs == Classifier!Docs(last) IN
         /\ docs \subseteq Agents
         /\ Cardinality(docs) < AgentBatch => \A a \in Agents : ids[a] > last => a \in docs
         /\ docs # {} =>
              /\ Classifier!LastId(docs) \in Nat
              /\ \A a \in docs : ids[a] =< Classifier!LastId(docs)
              /\ \A a \in Agents : last < ids[a] /\ ids[a] =< Classifier!LastId(docs) => a \in docs
<1> DEFINE docs == Classifier!Docs(last)
           rest == {a \in Agents : ids[a] > last}
           before(a) == {b \in rest : ids[b] < ids[a]}
<1>1. docs = {a \in rest : Cardinality(before(a)) < AgentBatch}
  BY SameAgentSets DEF Classifier!Docs
<1>2. docs \subseteq rest /\ rest \subseteq Agents
  BY <1>1
<1>3. ASSUME Cardinality(docs) < AgentBatch PROVE rest \subseteq docs
  <2> SUFFICES ASSUME rest \ docs # {} PROVE FALSE
    OBVIOUS
  <2> DEFINE I == {ids[a] : a \in rest \ docs}
  <2>1. I \subseteq Nat /\ I # {}
    OBVIOUS
  <2>2. PICK m \in I : \A i \in I : m =< i
    <3> HIDE DEF I
    <3> QED BY <2>1, SmallestExists
  <2>3. PICK a \in rest \ docs : m = ids[a]
    OBVIOUS
  <2>4. before(a) \subseteq docs
    BY <2>1, <2>2, <2>3
  <2>5. Cardinality(before(a)) =< Cardinality(docs) /\ Cardinality(before(a)) \in Nat
        /\ Cardinality(docs) \in Nat
    <3>1. before(a) \in SUBSET Agents /\ docs \in SUBSET Agents
      BY <1>2
    <3> HIDE DEF before, docs
    <3> QED BY <2>4, <3>1, AgentsCounted
  <2>6. Cardinality(before(a)) < AgentBatch
    BY <1>3, <2>5, AgentsAre
  <2> QED BY <1>1, <2>3, <2>6
<1>4. ASSUME docs # {}
      PROVE  /\ Classifier!LastId(docs) \in {ids[a] : a \in docs}
             /\ \A a \in docs : ids[a] =< Classifier!LastId(docs)
  <2> DEFINE I == {next - ids[a] : a \in docs}
  <2>1. I \subseteq Nat /\ I # {}
    BY <1>2, <1>4
  <2>2. PICK m \in I : \A i \in I : m =< i
    <3> HIDE DEF I
    <3> QED BY <2>1, SmallestExists
  <2>3. PICK a \in docs : m = next - ids[a]
    OBVIOUS
  <2>4. \A b \in docs : ids[b] =< ids[a]
    <3> SUFFICES ASSUME NEW b \in docs PROVE ids[b] =< ids[a]
      OBVIOUS
    <3>1. next - ids[a] =< next - ids[b]
      BY <2>2, <2>3
    <3>2. ids[a] \in Nat /\ ids[b] \in Nat
      BY <1>2
    <3> HIDE DEF docs
    <3> QED BY <3>1, <3>2
  <2>5. \E i \in {ids[c] : c \in docs} : \A b \in docs : ids[b] =< i
    BY <2>4
  <2> HIDE DEF docs
  <2> QED BY <2>5 DEF Classifier!LastId
<1>5. ASSUME docs # {}, NEW a \in Agents, last < ids[a], ids[a] =< Classifier!LastId(docs)
      PROVE  a \in docs
  <2>1. PICK b \in docs : Classifier!LastId(docs) = ids[b]
    BY <1>4, <1>5
  <2>2. a \in rest /\ before(a) \subseteq before(b)
    <3>1. ids[a] \in Nat /\ ids[b] \in Nat
      BY <1>2
    <3> QED BY <1>2, <1>5, <2>1, <3>1
  <2>3. Cardinality(before(b)) < AgentBatch
    BY <1>1
  <2>4. Cardinality(before(a)) =< Cardinality(before(b)) /\ Cardinality(before(a)) \in Nat
        /\ Cardinality(before(b)) \in Nat
    <3>1. before(a) \in SUBSET Agents /\ before(b) \in SUBSET Agents
      OBVIOUS
    <3> HIDE DEF before
    <3> QED BY <2>2, <3>1, AgentsCounted
  <2> QED BY <1>1, <2>2, <2>3, <2>4, AgentsAre
<1>6. docs # {} => Classifier!LastId(docs) \in Nat
  BY <1>2, <1>4
<1> QED BY <1>2, <1>3, <1>4, <1>5, <1>6

Steps == {"new", "asking", "saving", "queued", "fetching", "writing", "finishing", "failing", "leaving",
          "releasing", "returning", "over", "stuck"}

Figures == [last : Nat, batch : SUBSET Agents, short : BOOLEAN, classified : Int, errors : Nat,
            cut : BOOLEAN]

ClassTypes ==
  /\ stage \in [Pipelines -> Steps]
  /\ progress \in [Pipelines -> Figures]
  /\ record \in [Pipelines -> {"none", "running", "completed", "failed"}]
  /\ ids \in [Agents -> Nat] /\ next \in Nat \ {0} /\ \A a \in Agents : ids[a] < next
  /\ lasting \in [Pipelines -> SUBSET Agents]

\* From the lock to its release.
Exclusive ==
  {"saving", "queued", "fetching", "writing", "finishing", "failing", "leaving", "releasing"}

\* The agents the run r has passed without a result, but for a batch it has still to write.
Passed(r, batch) == {a \in lasting[r] : ids[a] =< progress[r].last /\ verdicts[a] # r} \ batch

\* The run is, or is about to be, a completed one.
Completing(r) ==
  \/ stage[r] = "finishing"
  \/ stage[r] \in {"failing", "leaving"} /\ record[r] = "completed"

\* Where a run stands: what it has passed it has counted as errors.
Covering(r) ==
  /\ \A a \in lasting[r] : ids[a] # 0
  /\ stage[r] \in {"new", "asking", "saving", "queued"} =>
       progress[r] = Classifier!Nothing /\ record[r] # "completed" /\ lasting[r] = {}
  /\ stage[r] \in {"fetching", "writing"} => ~progress[r].cut
  /\ stage[r] = "fetching" => Cardinality(Passed(r, {})) =< progress[r].errors
  /\ stage[r] = "writing" =>
       /\ Cardinality(Passed(r, progress[r].batch)) =< progress[r].errors
       /\ progress[r].short => \A a \in lasting[r] : ids[a] =< progress[r].last
  /\ Completing(r) =>
       /\ progress[r].cut => progress[r].errors > 0
       /\ ~progress[r].cut => Cardinality(Classifier!Uncovered(r)) =< progress[r].errors

ClassInv ==
  /\ ClassTypes
  /\ \A r \in Pipelines : stage[r] \in Exclusive => pipeline = r
  /\ \A r \in Pipelines : Covering(r)

\* The figures of a run after the batch docs was read, of which some failed.
HasFetched(r, docs, failed) ==
  /\ progress'[r].last = Classifier!LastId(docs)
  /\ progress'[r].batch = docs \ failed
  /\ progress'[r].short = (Cardinality(docs) < AgentBatch)
  /\ progress'[r].errors = progress[r].errors + Cardinality(failed)
  /\ progress'[r].cut = progress[r].cut

\* At the end of the pages the run finishes, otherwise it has a batch to write.
FetchesOn(r, docs) ==
  \/ docs = {} /\ progress' = progress /\ Classifier!Goto(r, "finishing")
  \/ /\ docs # {} /\ Classifier!Goto(r, "writing")
     /\ \E failed \in SUBSET docs : HasFetched(r, docs, failed)

\* Which figures a run has got after a batch was read.
LEMMA FetchFigures ==
  ASSUME ClassTypes, NEW r \in Pipelines, Classifier!Fetch(r)
  PROVE  /\ progress' \in [Pipelines -> Figures]
         /\ \A s \in Pipelines \ {r} : progress'[s] = progress[s]
         /\ FetchesOn(r, Classifier!Docs(progress[r].last))
<1> DEFINE docs == Classifier!Docs(progress[r].last)
<1>1. progress[r].last \in Nat
  BY DEF ClassTypes, Figures
<1>2. /\ docs \subseteq Agents
      /\ docs # {} => Classifier!LastId(docs) \in Nat
  BY <1>1, PagesSkipNobody DEF ClassTypes
<1>3. CASE docs = {}
  BY <1>3 DEF Classifier!Fetch, ClassTypes, FetchesOn
<1>4. CASE docs # {}
  <2>1. PICK failed \in SUBSET docs :
          progress' = [progress EXCEPT ![r].last = Classifier!LastId(docs), ![r].batch = docs \ failed,
                         ![r].short = Cardinality(docs) < AgentBatch,
                         ![r].classified = @ + Cardinality(docs \ failed),
                         ![r].errors = @ + Cardinality(failed)]
    BY <1>4, SameAgentSets DEF Classifier!Fetch
  <2>2. Classifier!Goto(r, "writing")
    BY <1>4 DEF Classifier!Fetch
  <2> DEFINE c == progress[r].classified + Cardinality(docs \ failed)
             e == progress[r].errors + Cardinality(failed)
             short == Cardinality(docs) < AgentBatch
             w == [progress[r] EXCEPT !.last = Classifier!LastId(docs), !.batch = docs \ failed,
                     !.short = short, !.classified = c, !.errors = e]
  <2>3. progress' = [progress EXCEPT ![r] = w]
    BY <2>1 DEF ClassTypes, Figures
  <2>4. w \in Figures
    <3>1. Cardinality(docs \ failed) \in Nat /\ Cardinality(failed) \in Nat
      BY <1>2, AgentsCounted
    <3>2. c \in Int /\ e \in Nat
      BY <3>1 DEF ClassTypes, Figures
    <3>3. short \in BOOLEAN /\ docs \ failed \in SUBSET Agents /\ Classifier!LastId(docs) \in Nat
      BY <1>2, <1>4
    <3> DEFINE p == progress[r]  last == Classifier!LastId(docs)  batch == docs \ failed
    <3>4. p \in Figures
      BY DEF ClassTypes
    <3>5. last \in Nat /\ batch \in SUBSET Agents
      BY <3>3
    <3> HIDE DEF c, e, short, docs, p, last, batch
    <3>6. [p EXCEPT !.last = last, !.batch = batch, !.short = short, !.classified = c,
             !.errors = e] \in Figures
      BY <3>2, <3>3, <3>4, <3>5 DEF Figures
    <3> QED BY <3>6 DEF p, last, batch
  <2>5. /\ w.last = Classifier!LastId(docs) /\ w.batch = docs \ failed /\ w.short = short
        /\ w.errors = e /\ w.cut = progress[r].cut
    <3> DEFINE p == progress[r]  last == Classifier!LastId(docs)  batch == docs \ failed
    <3>1. p \in Figures
      BY DEF ClassTypes
    <3> HIDE DEF c, e, short, docs, p, last, batch
    <3>2. \A q : q = [p EXCEPT !.last = last, !.batch = batch, !.short = short,
                         !.classified = c, !.errors = e] =>
            /\ q.last = last /\ q.batch = batch /\ q.short = short /\ q.errors = e /\ q.cut = p.cut
      BY <3>1 DEF Figures
    <3> QED BY <3>2 DEF p, last, batch
  <2>6. /\ progress' \in [Pipelines -> Figures] /\ progress'[r] = w
        /\ \A s \in Pipelines \ {r} : progress'[s] = progress[s]
    <3> HIDE DEF w
    <3> QED BY <2>3, <2>4 DEF ClassTypes
  <2> HIDE DEF w
  <2>7. /\ progress'[r].last = Classifier!LastId(docs) /\ progress'[r].batch = docs \ failed
        /\ progress'[r].short = short /\ progress'[r].errors = e
        /\ progress'[r].cut = progress[r].cut
    BY <2>5, <2>6
  <2>8. HasFetched(r, docs, failed)
    <3>1. progress'[r].short = (Cardinality(docs) < AgentBatch)
      BY <2>7
    <3>2. progress'[r].errors = progress[r].errors + Cardinality(failed)
      BY <2>7
    <3> HIDE DEF docs
    <3> QED BY <2>7, <3>1, <3>2 DEF HasFetched
  <2>9. FetchesOn(r, docs)
    <3> HIDE DEF docs
    <3> QED BY <1>4, <2>2, <2>8 DEF FetchesOn
  <2> QED BY <2>6, <2>9
<1> QED BY <1>3, <1>4

\* Which it has got when a batch was written: what was lost is an error each.
LEMMA WriteFigures ==
  ASSUME ClassTypes, NEW r \in Pipelines, Classifier!Write(r)
  PROVE  /\ progress' \in [Pipelines -> Figures]
         /\ \A s \in Pipelines \ {r} : progress'[s] = progress[s]
         /\ progress'[r].last = progress[r].last /\ progress'[r].short = progress[r].short
         /\ progress'[r].cut = progress[r].cut /\ progress'[r].batch = {}
         /\ \E written \in SUBSET progress[r].batch :
              /\ verdicts' = [a \in Agents |-> IF a \in written THEN r ELSE verdicts[a]]
              /\ progress'[r].errors >=
                   progress[r].errors + Cardinality(progress[r].batch \ written)
<1> DEFINE batch == progress[r].batch
<1>1. PICK written \in SUBSET batch :
        /\ verdicts' = [a \in Agents |-> IF a \in written THEN r ELSE verdicts[a]]
        /\ \E lost \in {batch \ written, batch} :
             progress' = [progress EXCEPT ![r] = Classifier!Discount(progress[r], lost)]
  BY DEF Classifier!Write
<1>2. PICK lost \in {batch \ written, batch} :
        progress' = [progress EXCEPT ![r] = Classifier!Discount(progress[r], lost)]
  BY <1>1
<1>3. batch \in SUBSET Agents /\ lost \in SUBSET Agents /\ batch \ written \subseteq lost
  BY <1>2 DEF ClassTypes, Figures
<1>4. Cardinality(lost) \in Nat /\ Cardinality(batch \ written) \in Nat
      /\ Cardinality(batch \ written) =< Cardinality(lost)
  BY <1>3, AgentsCounted
<1> DEFINE c == progress[r].classified - Cardinality(lost)
           e == progress[r].errors + Cardinality(lost)
           w == [progress[r] EXCEPT !.batch = {}, !.classified = c, !.errors = e]
<1>5. progress' = [progress EXCEPT ![r] = w]
  BY <1>2, SameAgentSets DEF Classifier!Discount, ClassTypes, Figures
<1>6. c \in Int /\ e \in Nat /\ e >= progress[r].errors + Cardinality(batch \ written)
  BY <1>4 DEF ClassTypes, Figures
<1>7. /\ w \in Figures /\ w.last = progress[r].last /\ w.short = progress[r].short
      /\ w.cut = progress[r].cut /\ w.batch = {} /\ w.errors = e
  <2> HIDE DEF c, e
  <2> QED BY <1>6 DEF ClassTypes, Figures
<1>8. progress'[r] = w /\ progress' \in [Pipelines -> Figures]
      /\ \A s \in Pipelines \ {r} : progress'[s] = progress[s]
  <2> HIDE DEF w
  <2> QED BY <1>5, <1>7 DEF ClassTypes
<1> HIDE DEF w, e
<1> QED BY <1>1, <1>6, <1>7, <1>8

\* Every value stays of its kind.
LEMMA ClassTypeStep == ClassTypes /\ [Classifier!Next]_classVars => ClassTypes'
<1> SUFFICES ASSUME ClassTypes, [Classifier!Next]_classVars PROVE ClassTypes'
  OBVIOUS
<1> USE DEF Classifier!runs, Classifier!locks, Classifier!agents, Classifier!Goto, Classifier!Become
<1>0. CASE UNCHANGED classVars
  BY <1>0 DEF classVars, ClassTypes
<1>1. ASSUME NEW r \in Pipelines,
             \/ Classifier!Ask(r) \/ Classifier!Acquire(r) \/ Classifier!Save(r)
             \/ Classifier!Finish(r) \/ Classifier!Leave(r) \/ Classifier!Delete(r)
             \/ Classifier!Return(r)
      PROVE  ClassTypes'
  BY <1>1 DEF ClassTypes, Steps, Classifier!Ask, Classifier!Acquire, Classifier!Save,
     Classifier!Finish, Classifier!Leave, Classifier!Delete, Classifier!Return
<1>2. ASSUME NEW r \in Pipelines,
             \/ Classifier!AcquireRaises(r) \/ Classifier!SaveRaises(r) \/ Classifier!CountFails(r)
             \/ Classifier!FinishRaises(r) \/ Classifier!FailRaises(r) \/ Classifier!DeleteRaises(r)
      PROVE  ClassTypes'
  BY <1>2 DEF ClassTypes, Steps, Classifier!AcquireRaises, Classifier!SaveRaises,
     Classifier!CountFails, Classifier!FinishRaises, Classifier!FailRaises, Classifier!DeleteRaises
<1>3. ASSUME NEW r \in Pipelines, Classifier!Enter(r) PROVE ClassTypes'
  <2>1. UNCHANGED <<progress, ids, next>> /\ lasting' = [lasting EXCEPT ![r] = Classifier!Present]
    BY <1>3 DEF Classifier!Enter
  <2>2. Classifier!Present \subseteq Agents
    BY DEF Classifier!Present
  <2>3. stage' \in [Pipelines -> Steps]
        /\ record' \in [Pipelines -> {"none", "running", "completed", "failed"}]
    BY <1>3 DEF Classifier!Enter, ClassTypes, Steps
  <2> QED BY <2>1, <2>2, <2>3 DEF ClassTypes
<1>4. ASSUME NEW r \in Pipelines, Classifier!Fetch(r) PROVE ClassTypes'
  <2>1. UNCHANGED <<record, ids, next, lasting>> /\ stage' \in [Pipelines -> Steps]
    BY <1>4 DEF Classifier!Fetch, ClassTypes, Steps
  <2>2. progress' \in [Pipelines -> Figures]
    BY <1>4, FetchFigures DEF ClassTypes
  <2> QED BY <2>1, <2>2 DEF ClassTypes
<1>5. ASSUME NEW r \in Pipelines, Classifier!FetchFails(r) \/ Classifier!Fail(r) PROVE ClassTypes'
  <2>1. UNCHANGED <<ids, next, lasting>> /\ stage' \in [Pipelines -> Steps]
        /\ record' \in [Pipelines -> {"none", "running", "completed", "failed"}]
    BY <1>5 DEF Classifier!FetchFails, Classifier!Fail, ClassTypes, Steps
  <2>2. progress' \in [Pipelines -> Figures]
    BY <1>5 DEF Classifier!FetchFails, Classifier!Fail, ClassTypes, Figures
  <2> QED BY <2>1, <2>2 DEF ClassTypes
<1>6. ASSUME NEW r \in Pipelines, Classifier!Write(r) PROVE ClassTypes'
  <2>1. UNCHANGED <<record, ids, next, lasting>> /\ stage' \in [Pipelines -> Steps]
    BY <1>6 DEF Classifier!Write, ClassTypes, Steps
  <2>2. progress' \in [Pipelines -> Figures]
    BY <1>6, WriteFigures DEF ClassTypes
  <2> QED BY <2>1, <2>2 DEF ClassTypes
<1>7. ASSUME NEW w \in Workers, Classifier!Crash(w) \/ Classifier!Start(w) PROVE ClassTypes'
  BY <1>7 DEF Classifier!Crash, Classifier!Start, ClassTypes, Steps
<1>8. ASSUME NEW a \in Agents, Classifier!Remove(a) \/ Classifier!Add(a) PROVE ClassTypes'
  <2>1. UNCHANGED <<stage, progress, record>>
    BY <1>8 DEF Classifier!Remove, Classifier!Add
  <2>2. lasting' \in [Pipelines -> SUBSET Agents]
    BY <1>8 DEF Classifier!Remove, Classifier!Add, ClassTypes
  <2>3. ids' \in [Agents -> Nat] /\ next' \in Nat \ {0} /\ \A b \in Agents : ids'[b] < next'
    BY <1>8 DEF Classifier!Remove, Classifier!Add, ClassTypes
  <2> QED BY <2>1, <2>2, <2>3 DEF ClassTypes
<1>9. CASE Classifier!Expire
  BY <1>9 DEF Classifier!Expire, ClassTypes
<1> QED
  BY <1>0, <1>1, <1>2, <1>3, <1>4, <1>5, <1>6, <1>7, <1>8, <1>9
  DEF Classifier!Next, Classifier!Step, Classifier!Fault

\* Only one run is between the lock and its release.
LEMMA ExclusiveStep ==
  ASSUME ClassTypes, \A r \in Pipelines : stage[r] \in Exclusive => pipeline = r,
         [Classifier!Next]_classVars
  PROVE  \A r \in Pipelines : stage'[r] \in Exclusive => pipeline' = r
<1> USE DEF Classifier!runs, Classifier!locks, Exclusive
<1>0. CASE UNCHANGED classVars
  BY <1>0 DEF classVars
<1>1. ASSUME NEW r \in Pipelines,
             \/ Classifier!Ask(r) \/ Classifier!Acquire(r) \/ Classifier!AcquireRaises(r)
             \/ Classifier!Delete(r) \/ Classifier!DeleteRaises(r)
      PROVE  \A s \in Pipelines : stage'[s] \in Exclusive => pipeline' = s
  BY <1>1, AgentsAre DEF ClassTypes, Classifier!Ask, Classifier!Acquire, Classifier!AcquireRaises,
     Classifier!Delete, Classifier!DeleteRaises, Classifier!Goto
<1>2. ASSUME NEW r \in Pipelines, NEW here \in Exclusive, NEW there \in Steps,
             stage[r] = here, Classifier!Goto(r, there), pipeline' = pipeline
      PROVE  \A s \in Pipelines : stage'[s] \in Exclusive => pipeline' = s
  BY <1>2 DEF ClassTypes, Classifier!Goto
<1>3. ASSUME NEW r \in Pipelines,
             \/ Classifier!Save(r) \/ Classifier!Enter(r) \/ Classifier!Fetch(r) \/ Classifier!Write(r)
             \/ Classifier!Finish(r) \/ Classifier!Fail(r) \/ Classifier!Leave(r)
      PROVE  pipeline' = pipeline /\ stage[r] \in Exclusive /\ \E there \in Steps : Classifier!Goto(r, there)
  BY <1>3 DEF Classifier!Save, Classifier!Enter, Classifier!CanEnter, Classifier!Fetch,
     Classifier!Write, Classifier!Finish, Classifier!Fail, Classifier!Leave, Steps
<1>4. ASSUME NEW r \in Pipelines,
             \/ Classifier!SaveRaises(r) \/ Classifier!CountFails(r) \/ Classifier!FetchFails(r)
             \/ Classifier!FinishRaises(r) \/ Classifier!FailRaises(r)
      PROVE  pipeline' = pipeline /\ stage[r] \in Exclusive /\ \E there \in Steps : Classifier!Goto(r, there)
  BY <1>4 DEF Classifier!SaveRaises, Classifier!CountFails, Classifier!CanEnter,
     Classifier!FetchFails, Classifier!FinishRaises, Classifier!FailRaises, Steps
<1>5. ASSUME NEW r \in Pipelines, Classifier!Return(r)
      PROVE  \A s \in Pipelines : stage'[s] \in Exclusive => pipeline' = s
  BY <1>5 DEF Classifier!Return, Classifier!Goto, ClassTypes
<1>6. ASSUME NEW w \in Workers, Classifier!Crash(w)
      PROVE  \A s \in Pipelines : stage'[s] \in Exclusive => pipeline' = s
  BY <1>6 DEF Classifier!Crash, ClassTypes
<1>7. ASSUME NEW w \in Workers, Classifier!Start(w)
      PROVE  \A s \in Pipelines : stage'[s] \in Exclusive => pipeline' = s
  BY <1>7 DEF Classifier!Start
<1>8. ASSUME NEW a \in Agents, Classifier!Remove(a) \/ Classifier!Add(a)
      PROVE  \A s \in Pipelines : stage'[s] \in Exclusive => pipeline' = s
  BY <1>8 DEF Classifier!Remove, Classifier!Add
<1>9. CASE Classifier!Expire
  BY <1>9, AgentsAre DEF Classifier!Expire
<1> QED
  BY <1>0, <1>1, <1>2, <1>3, <1>4, <1>5, <1>6, <1>7, <1>8, <1>9
  DEF Classifier!Next, Classifier!Step, Classifier!Fault

\* A run that stays where it is, while agents go and others come.
LEMMA RunStays ==
  ASSUME ClassTypes, ClassTypes', NEW r \in Pipelines, Covering(r),
         stage'[r] = stage[r], progress'[r] = progress[r],
         record'[r] = "completed" <=> record[r] = "completed",
         lasting'[r] \subseteq lasting[r],
         \A a \in lasting'[r] : ids'[a] = ids[a] /\ verdicts'[a] = verdicts[a]
  PROVE  Covering(r)'
<1>1. \A batch \in SUBSET Agents :
        /\ Cardinality(Passed(r, batch)') =< Cardinality(Passed(r, batch))
        /\ Cardinality(Passed(r, batch)') \in Nat /\ Cardinality(Passed(r, batch)) \in Nat
  <2> TAKE batch \in SUBSET Agents
  <2>1. Passed(r, batch)' \subseteq Passed(r, batch)
    BY DEF Passed
  <2>2. Passed(r, batch)' \in SUBSET Agents /\ Passed(r, batch) \in SUBSET Agents
    BY DEF Passed, ClassTypes
  <2> QED BY <2>1, <2>2, AgentsCounted
<1>2. /\ Cardinality(Classifier!Uncovered(r)') =< Cardinality(Classifier!Uncovered(r))
      /\ Cardinality(Classifier!Uncovered(r)') \in Nat /\ Cardinality(Classifier!Uncovered(r)) \in Nat
  <2>1. Classifier!Uncovered(r)' \subseteq Classifier!Uncovered(r)
    BY DEF Classifier!Uncovered
  <2>2. Classifier!Uncovered(r)' \in SUBSET Agents /\ Classifier!Uncovered(r) \in SUBSET Agents
    BY DEF Classifier!Uncovered, ClassTypes
  <2> QED BY <2>1, <2>2, AgentsCounted
<1>3. progress[r].batch \in SUBSET Agents /\ progress[r].errors \in Nat /\ progress[r].last \in Nat
  BY DEF ClassTypes, Figures
<1>4. stage'[r] = "fetching" => Cardinality(Passed(r, {})') =< progress'[r].errors
  BY <1>1, <1>3 DEF Covering
<1>5. stage'[r] = "writing" => Cardinality(Passed(r, progress[r].batch)') =< progress'[r].errors
  <2>1. Cardinality(Passed(r, progress[r].batch)') =< Cardinality(Passed(r, progress[r].batch))
    BY <1>1, <1>3 DEF Passed
  <2>2. stage[r] = "writing" => Cardinality(Passed(r, progress[r].batch)) =< progress[r].errors
    BY DEF Covering
  <2>3. /\ Cardinality(Passed(r, progress[r].batch)') \in Nat
        /\ Cardinality(Passed(r, progress[r].batch)) \in Nat
    BY <1>1, <1>3 DEF Passed
  <2> QED BY <1>3, <2>1, <2>2, <2>3
<1> QED BY <1>2, <1>3, <1>4, <1>5 DEF Covering, Completing, Passed

\* A run of which nothing is asked.
LEMMA RunRests ==
  ASSUME NEW r \in Pipelines,
         \/ stage'[r] \in {"releasing", "returning", "over", "stuck"}
         \/ stage'[r] \in {"failing", "leaving"} /\ record'[r] # "completed",
         \A a \in lasting'[r] : ids'[a] # 0
  PROVE  Covering(r)'
  BY DEF Covering, Completing

\* A batch is read: the agents passed on the way are in it, or have failed.
LEMMA FetchCovers ==
  ASSUME ClassInv, ClassTypes', NEW r \in Pipelines, Classifier!Fetch(r)
  PROVE  Covering(r)'
<1> DEFINE docs == Classifier!Docs(progress[r].last)
<1>1. /\ stage[r] = "fetching" /\ UNCHANGED <<record, ids, verdicts, lasting>>
      /\ Covering(r) /\ FetchesOn(r, docs)
  BY FetchFigures DEF ClassInv, Classifier!Fetch, Classifier!agents
<1>2. /\ progress[r].last \in Nat /\ progress[r].errors \in Nat /\ lasting[r] \in SUBSET Agents
      /\ \A a \in Agents : ids[a] \in Nat
  BY DEF ClassInv, ClassTypes, Figures
<1>3. /\ docs \subseteq Agents
      /\ Cardinality(docs) < AgentBatch => \A a \in Agents : ids[a] > progress[r].last => a \in docs
      /\ docs # {} =>
           /\ Classifier!LastId(docs) \in Nat
           /\ \A a \in Agents :
                progress[r].last < ids[a] /\ ids[a] =< Classifier!LastId(docs) => a \in docs
           /\ \A a \in docs : ids[a] =< Classifier!LastId(docs)
  BY <1>2, PagesSkipNobody DEF ClassInv, ClassTypes
<1>4. Passed(r, {}) \in SUBSET Agents /\ Cardinality(Passed(r, {})) =< progress[r].errors
  BY <1>1, <1>2 DEF Passed, Covering
<1>5. ~progress[r].cut /\ \A a \in lasting[r] : ids[a] # 0
  BY <1>1 DEF Covering
<1> HIDE DEF docs
<1>6. CASE docs = {} /\ progress' = progress /\ Classifier!Goto(r, "finishing")
  <2>1. stage'[r] = "finishing"
    BY <1>6 DEF Classifier!Goto, ClassInv, ClassTypes
  <2>2. \A a \in lasting[r] : ids[a] =< progress[r].last
    <3>1. Cardinality(docs) < AgentBatch
      BY <1>6, AgentsAre, FS_EmptySet
    <3> QED BY <1>2, <1>3, <1>6, <3>1
  <2>3. Classifier!Uncovered(r)' = Passed(r, {})
    BY <1>1, <2>2 DEF Passed, Classifier!Uncovered
  <2>4. Cardinality(Classifier!Uncovered(r)') =< progress'[r].errors
    BY <1>4, <1>6, <2>3
  <2> QED BY <1>1, <1>5, <1>6, <2>1, <2>4 DEF Covering
<1>7. CASE /\ docs # {} /\ Classifier!Goto(r, "writing")
           /\ \E failed \in SUBSET docs : HasFetched(r, docs, failed)
  <2>1. stage'[r] = "writing"
    BY <1>7 DEF Classifier!Goto, ClassInv, ClassTypes
  <2>2. PICK failed \in SUBSET docs : HasFetched(r, docs, failed)
    BY <1>7
  <2>3. /\ progress'[r].last = Classifier!LastId(docs) /\ progress'[r].batch = docs \ failed
        /\ progress'[r].errors = progress[r].errors + Cardinality(failed)
    BY <2>2 DEF HasFetched
  <2>4. ~progress'[r].cut
    BY <1>5, <2>2 DEF HasFetched
  <2>5. Passed(r, progress[r].batch)' \subseteq Passed(r, {}) \cup failed
    BY <1>1, <1>2, <1>3, <1>7, <2>3 DEF Passed
  <2>6. Cardinality(Passed(r, progress[r].batch)') =< progress'[r].errors
    <3>1. Passed(r, progress[r].batch)' \in SUBSET Agents /\ failed \in SUBSET Agents
      BY <1>1, <1>2, <1>3, <2>2 DEF Passed
    <3>2. Passed(r, {}) \cup failed \in SUBSET Agents
      BY <1>4, <3>1
    <3>3. /\ Cardinality(Passed(r, progress[r].batch)') =< Cardinality(Passed(r, {}) \cup failed)
          /\ Cardinality(Passed(r, progress[r].batch)') \in Nat
          /\ Cardinality(Passed(r, {}) \cup failed) \in Nat
      BY <2>5, <3>1, <3>2, AgentsCounted
    <3>4. /\ Cardinality(Passed(r, {}) \cup failed) =< Cardinality(Passed(r, {})) + Cardinality(failed)
          /\ Cardinality(failed) \in Nat /\ Cardinality(Passed(r, {})) \in Nat
      BY <1>4, <3>1, AgentsCounted
    <3> QED BY <1>2, <1>4, <2>3, <3>3, <3>4
  <2>7. progress'[r].short => \A a \in lasting'[r] : ids'[a] =< progress'[r].last
    <3> SUFFICES ASSUME progress'[r].short, NEW a \in lasting[r]
                 PROVE  ids[a] =< Classifier!LastId(docs)
      BY <1>1, <2>3
    <3>1. Cardinality(docs) < AgentBatch
      BY <2>2 DEF HasFetched
    <3>2. CASE a \in docs
      BY <1>3, <1>7, <3>2
    <3>3. CASE a \notin docs
      <4>1. ids[a] =< progress[r].last
        BY <1>2, <1>3, <3>1, <3>3
      <4>2. PICK d \in docs : TRUE
        BY <1>7
      <4>3. ids[d] > progress[r].last /\ ids[d] \in Nat
        BY <1>2, <1>3 DEF docs, Classifier!Docs
      <4> QED BY <1>2, <1>3, <1>7, <4>1, <4>3
    <3> QED BY <3>2, <3>3
  <2> QED BY <1>1, <1>5, <2>1, <2>4, <2>6, <2>7 DEF Covering, Completing
<1> QED BY <1>1, <1>6, <1>7 DEF FetchesOn

\* A batch is written: what is not written is an error.
LEMMA WriteCovers ==
  ASSUME ClassInv, ClassTypes', NEW r \in Pipelines, Classifier!Write(r)
  PROVE  Covering(r)'
<1> DEFINE batch == progress[r].batch
<1>1. /\ stage[r] = "writing" /\ UNCHANGED <<record, ids, lasting>> /\ Covering(r)
      /\ stage'[r] = IF progress[r].short THEN "finishing" ELSE "fetching"
  BY DEF ClassInv, ClassTypes, Classifier!Write, Classifier!agents, Classifier!Goto
<1>2. /\ progress'[r].last = progress[r].last /\ progress'[r].short = progress[r].short
      /\ progress'[r].cut = progress[r].cut /\ progress'[r].batch = {}
  BY WriteFigures DEF ClassInv
<1>3. PICK written \in SUBSET batch :
        /\ verdicts' = [a \in Agents |-> IF a \in written THEN r ELSE verdicts[a]]
        /\ progress'[r].errors >= progress[r].errors + Cardinality(batch \ written)
  BY WriteFigures DEF ClassInv
<1>4. /\ progress[r].errors \in Nat /\ progress'[r].errors \in Nat /\ batch \in SUBSET Agents
      /\ lasting[r] \in SUBSET Agents
  BY DEF ClassInv, ClassTypes, Figures
<1>5. /\ ~progress[r].cut /\ \A a \in lasting[r] : ids[a] # 0
      /\ progress[r].short => \A a \in lasting[r] : ids[a] =< progress[r].last
  BY <1>1 DEF Covering
<1>6. Cardinality(Passed(r, batch)) =< progress[r].errors
  BY <1>1 DEF Covering
<1>7. \A S \in SUBSET Agents :
        S \subseteq Passed(r, batch) \cup (batch \ written) => Cardinality(S) =< progress'[r].errors
  <2> TAKE S \in SUBSET Agents
  <2> HAVE S \subseteq Passed(r, batch) \cup (batch \ written)
  <2>1. Passed(r, batch) \in SUBSET Agents /\ batch \ written \in SUBSET Agents
    BY <1>4 DEF Passed
  <2> HIDE DEF batch
  <2>2. /\ Passed(r, batch) \cup (batch \ written) \in SUBSET Agents
    BY <2>1
  <2>3. /\ Cardinality(S) =< Cardinality(Passed(r, batch) \cup (batch \ written))
        /\ Cardinality(S) \in Nat
        /\ Cardinality(Passed(r, batch) \cup (batch \ written)) \in Nat
    BY <2>2, AgentsCounted
  <2>4. /\ Cardinality(Passed(r, batch) \cup (batch \ written))
             =< Cardinality(Passed(r, batch)) + Cardinality(batch \ written)
        /\ Cardinality(Passed(r, batch)) \in Nat /\ Cardinality(batch \ written) \in Nat
    BY <2>1, AgentsCounted
  <2> QED BY <1>3, <1>4, <1>6, <2>3, <2>4
<1>8. /\ Passed(r, {})' \in SUBSET Agents
      /\ Passed(r, {})' \subseteq Passed(r, batch) \cup (batch \ written)
  BY <1>1, <1>2, <1>3, <1>4 DEF Passed
<1>9. progress[r].short =>
        /\ Classifier!Uncovered(r)' \in SUBSET Agents
        /\ Classifier!Uncovered(r)' \subseteq Passed(r, batch) \cup (batch \ written)
  BY <1>1, <1>3, <1>4, <1>5 DEF Passed, Classifier!Uncovered
<1>10. CASE progress[r].short
  <2>1. Cardinality(Classifier!Uncovered(r)') =< progress'[r].errors
    BY <1>7, <1>9, <1>10
  <2> QED BY <1>1, <1>2, <1>5, <1>10, <2>1 DEF Covering
<1>11. CASE ~progress[r].short
  <2>1. Cardinality(Passed(r, {})') =< progress'[r].errors
    BY <1>7, <1>8
  <2> QED BY <1>1, <1>2, <1>5, <1>11, <2>1 DEF Covering, Completing
<1> QED BY <1>10, <1>11

LEMMA CoverStep ==
  ASSUME ClassInv, ClassTypes', [Classifier!Next]_classVars
  PROVE  \A s \in Pipelines : Covering(s)'
<1> SUFFICES ASSUME NEW s \in Pipelines, Covering(s) PROVE Covering(s)'
  BY DEF ClassInv
<1> USE DEF Classifier!runs, Classifier!locks, Classifier!agents
<1>t. ClassTypes /\ \A a \in lasting[s] : ids[a] # 0
  BY DEF ClassInv, Covering
<1>n. ASSUME stage'[s] = stage[s], stage[s] \in {"new", "asking", "saving", "queued"},
             progress'[s] = progress[s], record'[s] = record[s], lasting'[s] = lasting[s]
      PROVE  Covering(s)'
  BY <1>n, <1>t DEF Covering, Completing
<1>0. CASE UNCHANGED classVars
  BY <1>0, <1>t, RunStays DEF classVars
\* The other runs stay, also in what is written about them.
<1>1. ASSUME NEW r \in Pipelines, r # s, \E there \in Steps : Classifier!Goto(r, there),
             progress'[s] = progress[s], record'[s] = record[s], lasting'[s] = lasting[s],
             UNCHANGED <<ids, verdicts>>
      PROVE  Covering(s)'
  BY <1>1, <1>t, RunStays DEF Classifier!Goto, ClassTypes
<1>2. ASSUME Classifier!Ask(s) \/ Classifier!Acquire(s) \/ Classifier!Save(s)
      PROVE  Covering(s)'
  BY <1>2, <1>t DEF Classifier!Ask, Classifier!Acquire, Classifier!Save, Classifier!Goto,
     Classifier!Become, Covering, Completing, ClassTypes
<1>3. ASSUME \/ Classifier!AcquireRaises(s) \/ Classifier!SaveRaises(s) \/ Classifier!Leave(s)
             \/ Classifier!Delete(s) \/ Classifier!DeleteRaises(s) \/ Classifier!Return(s)
      PROVE  Covering(s)'
  <2>1. stage'[s] \in {"releasing", "returning", "over", "stuck"} /\ UNCHANGED <<ids, lasting>>
    BY <1>3, <1>t DEF Classifier!AcquireRaises, Classifier!SaveRaises, Classifier!Leave,
       Classifier!Delete, Classifier!DeleteRaises, Classifier!Return, Classifier!Goto, ClassTypes
  <2> QED BY <1>t, <2>1, RunRests
<1>4. ASSUME Classifier!CountFails(s) \/ Classifier!Fail(s)
      PROVE  Covering(s)'
  <2>1. stage'[s] \in {"failing", "leaving"} /\ record'[s] # "completed" /\ UNCHANGED <<ids, lasting>>
    BY <1>4, <1>t DEF Classifier!CountFails, Classifier!CanEnter, Classifier!Fail, Classifier!Goto,
       Classifier!Become, ClassTypes, Covering
  <2> QED BY <1>t, <2>1, RunRests
<1>5. ASSUME Classifier!Enter(s) PROVE Covering(s)'
  <2>1. /\ stage[s] = "queued" /\ UNCHANGED <<progress, ids, verdicts>>
        /\ lasting'[s] = Classifier!Present /\ progress[s] = Classifier!Nothing
    BY <1>5, <1>t DEF Classifier!Enter, Classifier!CanEnter, ClassTypes, Covering
  <2>2. /\ \A a \in lasting'[s] : ids'[a] # 0 /\ ids'[a] \in Nat
        /\ progress'[s].last = 0 /\ progress'[s].errors = 0 /\ ~progress'[s].cut
    BY <1>t, <2>1 DEF Classifier!Present, Classifier!Nothing, ClassTypes
  <2>3. CASE Classifier!Present = {}
    <3>1. stage'[s] = "leaving"
      BY <1>5, <1>t, <2>3 DEF Classifier!Enter, Classifier!Goto, ClassTypes
    <3>2. Classifier!Uncovered(s)' = {}
      BY <2>1, <2>3 DEF Classifier!Uncovered
    <3>3. Cardinality(Classifier!Uncovered(s)') =< progress'[s].errors
      BY <2>2, <3>2, FS_EmptySet
    <3> QED BY <2>2, <3>1, <3>3 DEF Covering
  <2>4. CASE Classifier!Present # {}
    <3>1. stage'[s] = "fetching"
      BY <1>5, <1>t, <2>4 DEF Classifier!Enter, Classifier!Goto, ClassTypes
    <3>2. Passed(s, {})' = {}
      BY <2>2 DEF Passed
    <3>3. Cardinality(Passed(s, {})') =< progress'[s].errors
      BY <2>2, <3>2, FS_EmptySet
    <3> QED BY <2>2, <3>1, <3>3 DEF Covering, Completing
  <2> QED BY <2>3, <2>4
<1>6. ASSUME Classifier!FetchFails(s) PROVE Covering(s)'
  <2>1. /\ stage'[s] = "finishing" /\ UNCHANGED <<ids, lasting>>
        /\ progress'[s].cut /\ progress'[s].errors > 0
    BY <1>6, <1>t DEF Classifier!FetchFails, Classifier!Goto, ClassTypes, Figures
  <2> QED BY <1>t, <2>1 DEF Covering
<1>7. ASSUME Classifier!Finish(s) \/ Classifier!FinishRaises(s) \/ Classifier!FailRaises(s)
      PROVE  Covering(s)'
  <2>1. /\ stage'[s] \in {"failing", "leaving"} /\ UNCHANGED <<progress, ids, lasting, verdicts>>
        /\ record'[s] = "completed" => Completing(s)
    BY <1>7, <1>t DEF Classifier!Finish, Classifier!FinishRaises, Classifier!FailRaises,
       Classifier!Goto, Classifier!Become, ClassTypes, Completing
  <2>2. Completing(s) =>
          /\ progress[s].cut => progress[s].errors > 0
          /\ ~progress[s].cut => Cardinality(Classifier!Uncovered(s)) =< progress[s].errors
    BY DEF Covering
  <2>3. Classifier!Uncovered(s)' = Classifier!Uncovered(s)
    BY <2>1 DEF Classifier!Uncovered
  <2>4. record'[s] = "completed" =>
          /\ progress'[s].cut => progress'[s].errors > 0
          /\ ~progress'[s].cut => Cardinality(Classifier!Uncovered(s)') =< progress'[s].errors
    BY <2>1, <2>2, <2>3
  <2>5. Completing(s)' => record'[s] = "completed"
    BY <2>1 DEF Completing
  <2> QED BY <1>t, <2>1, <2>4, <2>5 DEF Covering
<1>8. ASSUME NEW r \in Pipelines, r # s, Classifier!Write(r) PROVE Covering(s)'
  <2>1. stage[s] \notin Exclusive
    <3>1. stage[r] \in Exclusive
      BY <1>8 DEF Classifier!Write, Exclusive
    <3> QED BY <1>8, <3>1 DEF ClassInv
  <2>2. /\ stage'[s] = stage[s] /\ progress'[s] = progress[s] /\ UNCHANGED <<record, ids, lasting>>
    BY <1>8, <1>t, WriteFigures DEF Classifier!Write, Classifier!Goto, ClassTypes
  <2>3. CASE stage[s] \in {"new", "asking"}
    BY <1>n, <2>2, <2>3
  <2>4. CASE stage[s] \in {"returning", "over", "stuck"}
    BY <1>t, <2>2, <2>4, RunRests
  <2> QED BY <1>t, <2>1, <2>3, <2>4 DEF ClassTypes, Steps, Exclusive
<1>9. ASSUME NEW r \in Pipelines, r # s, Classifier!Fetch(r) PROVE Covering(s)'
  <2>1. progress'[s] = progress[s] /\ UNCHANGED <<record, ids, lasting, verdicts>>
    BY <1>9, <1>t, FetchFigures DEF Classifier!Fetch
  <2>2. \E there \in Steps : Classifier!Goto(r, there)
    BY <1>9 DEF Classifier!Fetch, Steps
  <2> QED BY <1>1, <1>9, <2>1, <2>2
<1>10. ASSUME NEW r \in Pipelines, r # s,
              \/ Classifier!Ask(r) \/ Classifier!Acquire(r) \/ Classifier!Save(r)
              \/ Classifier!Enter(r) \/ Classifier!Finish(r) \/ Classifier!Fail(r)
              \/ Classifier!Leave(r) \/ Classifier!Delete(r) \/ Classifier!Return(r)
       PROVE  Covering(s)'
  <2>1. progress'[s] = progress[s] /\ record'[s] = record[s] /\ lasting'[s] = lasting[s]
        /\ UNCHANGED <<ids, verdicts>>
    BY <1>10, <1>t DEF Classifier!Ask, Classifier!Acquire, Classifier!Save, Classifier!Enter,
       Classifier!Finish, Classifier!Fail, Classifier!Leave, Classifier!Delete, Classifier!Return,
       Classifier!Become, ClassTypes
  <2>2. \E there \in Steps : Classifier!Goto(r, there)
    BY <1>10 DEF Classifier!Ask, Classifier!Acquire, Classifier!Save, Classifier!Enter,
       Classifier!Finish, Classifier!Fail, Classifier!Leave, Classifier!Delete, Classifier!Return, Steps
  <2> QED BY <1>1, <1>10, <2>1, <2>2
<1>11. ASSUME NEW r \in Pipelines, r # s,
              \/ Classifier!AcquireRaises(r) \/ Classifier!SaveRaises(r) \/ Classifier!CountFails(r)
              \/ Classifier!FetchFails(r) \/ Classifier!FinishRaises(r) \/ Classifier!FailRaises(r)
              \/ Classifier!DeleteRaises(r)
       PROVE  Covering(s)'
  <2>1. progress'[s] = progress[s] /\ record'[s] = record[s] /\ lasting'[s] = lasting[s]
        /\ UNCHANGED <<ids, verdicts>>
    BY <1>11, <1>t DEF Classifier!AcquireRaises, Classifier!SaveRaises, Classifier!CountFails,
       Classifier!FetchFails, Classifier!FinishRaises, Classifier!FailRaises,
       Classifier!DeleteRaises, ClassTypes
  <2>2. \E there \in Steps : Classifier!Goto(r, there)
    BY <1>11 DEF Classifier!AcquireRaises, Classifier!SaveRaises, Classifier!CountFails,
       Classifier!FetchFails, Classifier!FinishRaises, Classifier!FailRaises,
       Classifier!DeleteRaises, Steps
  <2> QED BY <1>1, <1>11, <2>1, <2>2
<1>12. ASSUME NEW w \in Workers, Classifier!Crash(w) PROVE Covering(s)'
  <2>1. stage'[s] \in {stage[s], "over"} /\ UNCHANGED <<progress, record, ids, lasting, verdicts>>
    BY <1>12 DEF Classifier!Crash
  <2>2. CASE stage'[s] = "over"
    BY <1>t, <2>1, <2>2, RunRests
  <2>3. CASE stage'[s] = stage[s]
    BY <1>t, <2>1, <2>3, RunStays
  <2> QED BY <2>1, <2>2, <2>3
<1>13. ASSUME NEW w \in Workers, Classifier!Start(w) PROVE Covering(s)'
  BY <1>13, <1>t, RunStays DEF Classifier!Start
<1>14. ASSUME NEW a \in Agents, Classifier!Remove(a) \/ Classifier!Add(a) PROVE Covering(s)'
  <2>1. /\ UNCHANGED <<stage, progress, record, verdicts>> /\ lasting'[s] \subseteq lasting[s]
        /\ \A b \in lasting'[s] : b # a /\ b \in Agents
    BY <1>14, <1>t DEF Classifier!Remove, Classifier!Add, Classifier!Present, ClassTypes
  <2>2. \A b \in Agents \ {a} : ids'[b] = ids[b]
    BY <1>14, <1>t DEF Classifier!Remove, Classifier!Add, ClassTypes
  <2> QED BY <1>t, <2>1, <2>2, RunStays
<1>15. CASE Classifier!Expire
  BY <1>15, <1>t, RunStays DEF Classifier!Expire
<1>16. ASSUME NEW r \in Pipelines, Classifier!Step(r) \/ Classifier!Fault(r) PROVE Covering(s)'
  <2>1. CASE r = s
    BY <1>2, <1>3, <1>4, <1>5, <1>6, <1>7, <1>16, <2>1, FetchCovers, WriteCovers
    DEF Classifier!Step, Classifier!Fault
  <2>2. CASE r # s
    BY <1>8, <1>9, <1>10, <1>11, <1>16, <2>2 DEF Classifier!Step, Classifier!Fault
  <2> QED BY <2>1, <2>2
<1> QED BY <1>0, <1>12, <1>13, <1>14, <1>15, <1>16 DEF Classifier!Next

LEMMA FirstIdsAre == Classifier!FirstIds \in [Agents -> 1 .. Cardinality(Agents)]
<1> DEFINE n == Cardinality(Agents)
           S == [Agents -> 1 .. n]
           Injective(f) == \A a, b \in Agents : f[a] = f[b] => a = b
<1>1. ExistsBijection(Agents, 1 .. n)
  BY AgentsAre, FS_CardinalityType, Fun_ExistsBijSymmetric
<1>2. \E f \in S : Injective(f)
  BY <1>1 DEF ExistsBijection, Bijection, Injection, IsInjective
<1>3. Classifier!FirstIds = CHOOSE f \in S : Injective(f)
  BY SameAgentSets DEF Classifier!FirstIds
<1>4. Classifier!FirstIds \in S
  <2> HIDE DEF S, Injective
  <2> QED BY <1>2, <1>3, Zenon
<1> QED BY <1>4

LEMMA ClassStarts == Classifier!Init => ClassInv
<1> SUFFICES ASSUME Classifier!Init PROVE ClassInv
  OBVIOUS
<1>1. /\ stage = [r \in Pipelines |-> "new"] /\ record = [r \in Pipelines |-> "none"]
      /\ progress = [r \in Pipelines |-> Classifier!Nothing]
      /\ lasting = [r \in Pipelines |-> {}]
  BY DEF Classifier!Init
<1>2. next = Cardinality(Agents) + 1 /\ next \in Nat \ {0}
  BY AgentsAre, SameAgentSets DEF Classifier!Init
<1>3. ids \in [Agents -> Nat] /\ \A a \in Agents : ids[a] < next
  <2>1. PICK there \in SUBSET Agents :
          ids = [a \in Agents |-> IF a \in there THEN Classifier!FirstIds[a] ELSE 0]
    BY DEF Classifier!Init
  <2>2. \A a \in Agents : Classifier!FirstIds[a] \in Nat /\ Classifier!FirstIds[a] < next
    BY <1>2, AgentsAre, FirstIdsAre
  <2> QED BY <1>2, <2>1, <2>2
<1>4. Classifier!Nothing \in Figures
  BY DEF Classifier!Nothing, Figures
<1>5. ClassTypes
  BY <1>1, <1>2, <1>3, <1>4 DEF ClassTypes, Steps
<1>6. \A r \in Pipelines : Covering(r)
  BY <1>1 DEF Covering, Completing
<1> QED BY <1>1, <1>5, <1>6 DEF ClassInv, Exclusive

LEMMA ClassStep == ClassInv /\ [Classifier!Next]_classVars => ClassInv'
BY ClassTypeStep, ExclusiveStep, CoverStep DEF ClassInv

\* A run of the classification that is completed has covered the agents that
\* were there all the time, or has counted what it missed (classifier.py).
THEOREM RunCoversHolds == JobsSpec => []RunCovers
<1>1. JobsInit => ClassInv
  BY ClassStarts DEF JobsInit
<1>2. ClassInv => RunCovers
  <2> SUFFICES ASSUME ClassInv, NEW r \in Pipelines, stage[r] = "leaving", record[r] = "completed"
               PROVE  /\ ~progress[r].cut =>
                           Classifier!Cardinality(Classifier!Uncovered(r)) =< progress[r].errors
                      /\ progress[r].errors = 0 => Classifier!Uncovered(r) = {}
    BY DEF RunCovers, Classifier!RunCovers
  <2>1. /\ progress[r].cut => progress[r].errors > 0
        /\ ~progress[r].cut => Cardinality(Classifier!Uncovered(r)) =< progress[r].errors
    BY DEF ClassInv, Covering, Completing
  <2>2. Classifier!Uncovered(r) \in SUBSET Agents
    BY DEF ClassInv, ClassTypes, Classifier!Uncovered
  <2>3. /\ Cardinality(Classifier!Uncovered(r)) \in Nat
        /\ Cardinality(Classifier!Uncovered(r)) = 0 => Classifier!Uncovered(r) = {}
    BY <2>2, AgentsCounted, FS_EmptySet
  <2>4. progress[r].errors = 0 => Classifier!Uncovered(r) = {}
    <3> SUFFICES ASSUME progress[r].errors = 0 PROVE Classifier!Uncovered(r) = {}
      OBVIOUS
    <3>1. ~progress[r].cut
      BY <2>1
    <3> QED BY <2>1, <2>3, <3>1
  <2> QED BY <2>1, <2>4, SameAgentSets
<1>3. ClassInv /\ [JobsNext]_<<part, allVars>> => ClassInv'
  BY PartSteps, ClassStep
<1> QED BY <1>1, <1>2, <1>3, PTL DEF JobsSpec

-----------------------------------------------------------------------------
(* Library subscriptions *)

\* A subscription that a call can have made.
Records == {s \in Library!Subscription : s.group = GroupOf[s.id]}

CallSteps ==
  {"idle", "insert", "entries", "remove", "delete", "count", "markers", "stamp", "done"}

LibraryTypes ==
  /\ item \in Library!Entry /\ subscribers \in Int /\ changes \in Nat /\ deaths \in Nat
  /\ subs \subseteq Records /\ \A s, t \in subs : s.group = t.group => s = t
  /\ markers \in [Groups -> Nat]
  /\ call \in [Library!Calls -> CallSteps]
  /\ seen \in [Library!Calls -> Library!Entry]
  /\ pending \in [Library!Calls -> SUBSET Records]
  /\ copied \in [Library!Calls -> SUBSET Records]

\* What the requests hold on their way.
RequestsHold ==
  /\ \A c \in Subscribes :
       /\ call[c] \in {"idle", "insert", "count", "markers", "stamp", "done"}
       /\ call[c] \in {"insert", "count", "markers"} => pending[c] = {Library!New(c)}
       /\ call[c] = "stamp" => pending[c] = {}
  /\ \A c \in Unsubscribes :
       /\ call[c] \in {"idle", "remove", "delete", "count", "done"}
       /\ copied[c] = {}
       /\ call[c] \in {"remove", "delete"} => \E t \in pending[c] : pending[c] = {t}
  /\ \A c \in Syncers : call[c] \in {"idle", "entries", "markers", "stamp"}

\* The entry grows with what is read of it.
EntryGrows ==
  /\ item.version >= 1 /\ item.base =< item.markers /\ item.base =< changes
  /\ item.version = 1 => item.base =< 1
  /\ \A s \in subs : s.synced =< item.version
  /\ \A c \in Library!Calls :
       /\ seen[c].version =< item.version
       /\ seen[c].version = item.version => item.base =< seen[c].markers

\* Half an unsubscription has the group without markers.
Leaving(g) == \E c \in Unsubscribes : call[c] = "delete" /\ g \in Library!Busy(c)

\* The calls that have read the entry.
HasRead(c) == c \in Library!Calls \ Unsubscribes /\ call[c] \in {"insert", "count", "markers", "stamp"}

\* What holds of a group g that no two calls have worked on at once: who has
\* the version has the markers; so it is when a copy has yet to be stamped; no
\* subscription is ahead of a call that has still to deal with it; and an
\* unsubscription removes the one there is.
SyncedHas(g) ==
  \A s \in subs : s.group = g /\ s.synced = item.version /\ ~Leaving(g) => markers[g] >= item.base

CopyHas(g, c) ==
  \A s \in copied[c] :
    call[c] = "stamp" /\ s.group = g /\ seen[c].version = item.version => markers[g] >= item.base

NotAhead(g, c) ==
  \A s \in pending[c], u \in subs :
    HasRead(c) /\ s.group = g /\ u.group = g => u.synced =< seen[c].version

Removes(g, c) ==
  \A t \in pending[c], s \in subs :
    c \in Unsubscribes /\ call[c] \in {"remove", "delete"} /\ t.group = g /\ s.group = g => s.id = t.id

GroupIsCurrent(g) ==
  /\ SyncedHas(g)
  /\ \A c \in Library!Calls : CopyHas(g, c) /\ NotAhead(g, c) /\ Removes(g, c)

Counting(requests) == {c \in requests : call[c] = "count"}
SubscribedBy == {s.id : s \in subs}

\* The subscriber count, up to the calls that have still to add to it or to
\* subtract from it; and an unsubscription has something to remove.
CountNow ==
  /\ subscribers + Cardinality(Counting(Subscribes))
       = Cardinality(SubscribedBy) + Cardinality(Counting(Unsubscribes))
  /\ \A c \in Unsubscribes : \A t \in pending[c] :
       call[c] \in {"remove", "delete"} => t.id \in SubscribedBy

\* As long as no entry was deleted, no call died and no two worked on one group.
CountIsKept == deleted = "no" /\ disputed = {} /\ deaths = 0 => CountNow

LibraryInv ==
  /\ LibraryTypes /\ RequestsHold /\ EntryGrows
  /\ Library!Contended \subseteq disputed
  /\ \A g \in Groups \ disputed : GroupIsCurrent(g)
  /\ CountIsKept

\* The definitions that LibrarySubscriptions takes from FiniteSets are the ones used here.
LEMMA SameCallSets ==
  \A S : (Library!IsFiniteSet(S) <=> IsFiniteSet(S)) /\ Library!Cardinality(S) = Cardinality(S)
<1>1. \A S : Library!IsFiniteSet(S) <=> IsFiniteSet(S)
  BY DEF Library!IsFiniteSet, IsFiniteSet
<1>2. \A S : Library!Cardinality(S) = Cardinality(S)
  BY DEF Library!Cardinality, Cardinality
<1> QED BY <1>1, <1>2

LEMMA CallsAre ==
  /\ IsFiniteSet(Subscribes) /\ IsFiniteSet(Unsubscribes)
  /\ Library!Calls = Subscribes \cup Unsubscribes \cup Syncers
  /\ Subscribes \cap Unsubscribes = {} /\ Subscribes \cap Syncers = {}
  /\ Unsubscribes \cap Syncers = {} /\ GroupOf \in [Subscribes -> Groups]
BY JobsAssumption, SameCallSets DEF Library!SubscriptionAssumption, Library!Calls

\* What a call starts with and ends with.
LEMMA NewIs ==
  ASSUME NEW c \in Subscribes
  PROVE  /\ Library!New(c) \in Records /\ Library!New(c).id = c
         /\ Library!New(c).group = GroupOf[c] /\ Library!New(c).synced = 0
<1>1. (c \in AutoUpdates) \in BOOLEAN
  OBVIOUS
<1> DEFINE auto == c \in AutoUpdates
<1>2. Library!New(c) = [id |-> c, group |-> GroupOf[c], auto |-> auto, synced |-> 0]
  BY DEF Library!New
<1>3. auto \in BOOLEAN
  BY <1>1
<1> HIDE DEF auto
<1> QED BY <1>2, <1>3, CallsAre DEF Records, Library!Subscription

LEMMA FirstIsEntry ==
  /\ Library!First \in Library!Entry /\ Library!First.version = 1
  /\ Library!First.markers = 1 /\ Library!First.base = 1
BY DEF Library!First, Library!Entry

LEMMA ReadIs ==
  ASSUME item \in Library!Entry
  PROVE  /\ Library!Read(item) \in Library!Entry /\ Library!Read(item).version = item.version
         /\ Library!Read(item).markers = item.markers
BY DEF Library!Read, Library!Entry

LEMMA EndsIs ==
  ASSUME LibraryTypes, NEW c \in Library!Calls, Library!Ends(c)
  PROVE  /\ call' \in [Library!Calls -> CallSteps]
         /\ call'[c] = IF c \in Syncers THEN "idle" ELSE "done"
         /\ seen' = [seen EXCEPT ![c] = Library!First] /\ seen'[c] = Library!First
         /\ pending' = [pending EXCEPT ![c] = {}] /\ pending'[c] = {}
         /\ copied' = [copied EXCEPT ![c] = {}] /\ copied'[c] = {}
BY DEF Library!Ends, Library!Goto, LibraryTypes, CallSteps

\* To stamp a subscription changes what it is synced to, and nothing else.
LEMMA StampIs ==
  ASSUME LibraryTypes, NEW s \in Records, NEW v \in Nat, Library!Stamp(s, v)
  PROVE  /\ subs' \subseteq Records
         /\ \A u \in subs' : \E t \in subs :
              /\ u.id = t.id /\ u.group = t.group
              /\ u = t \/ (u.id = s.id /\ u.synced = v)
         /\ \A t \in subs : \E u \in subs' : u.id = t.id
         /\ \A t, u \in subs' : t.group = u.group => t = u
<1> DEFINE stamped(t) == IF t.id = s.id THEN [t EXCEPT !.synced = v] ELSE t
<1>1. subs' = {stamped(t) : t \in subs}
  BY DEF Library!Stamp
<1>2. ASSUME NEW t \in Records
      PROVE  /\ stamped(t) \in Records /\ stamped(t).id = t.id /\ stamped(t).group = t.group
             /\ stamped(t) = t \/ (stamped(t).id = s.id /\ stamped(t).synced = v)
  <2> DEFINE w == [t EXCEPT !.synced = v]
  <2>1. w \in Records /\ w.id = t.id /\ w.group = t.group /\ w.synced = v
    BY DEF Records, Library!Subscription
  <2>2. stamped(t) = IF t.id = s.id THEN w ELSE t
    OBVIOUS
  <2> HIDE DEF w, stamped
  <2> QED BY <2>1, <2>2
<1>3. subs \subseteq Records /\ \A t, u \in subs : t.group = u.group => t = u
  BY DEF LibraryTypes
<1> HIDE DEF stamped
<1> QED BY <1>1, <1>2, <1>3

\* What is left of the stale subscriptions a sync has read.
LEMMA StaleIs ==
  ASSUME NEW S \in SUBSET Records
  PROVE  LET stale == {[s EXCEPT !.synced = 0] : s \in S} IN
         /\ stale \subseteq Records
         /\ \A s \in stale : \E t \in S : t.id = s.id /\ t.group = s.group
<1>1. \A s \in S : /\ [s EXCEPT !.synced = 0] \in Records /\ [s EXCEPT !.synced = 0].id = s.id
                   /\ [s EXCEPT !.synced = 0].group = s.group
  BY DEF Records, Library!Subscription
<1> QED BY <1>1

\* The steps of a call that may bring two together, and those of the rest.
CallStep(c) ==
  /\ \/ Library!ListSubscriptions(c) \/ Library!ReadEntries(c)
     \/ Library!CopyMarkers(c) \/ Library!StampVersion(c)
     \/ Library!ReadEntry(c) \/ Library!Insert(c) \/ Library!Counted(c)
     \/ Library!FindSubscription(c) \/ Library!RemoveMarkers(c)
     \/ Library!DeleteSubscription(c) \/ Library!Discounted(c)
  /\ Library!Watch

LEMMA LibrarySteps ==
  ASSUME [Library!Next]_libraryVars
  PROVE  \/ UNCHANGED libraryVars
         \/ Library!Upsert \/ Library!MergeSource
         \/ Library!DeleteSubscriptions \/ Library!DeleteEntry
         \/ \E c \in Library!Calls : CallStep(c) \/ Library!Dies(c)
<1>1. CASE \E c \in Syncers \cap callers : Library!Sync(c) /\ Library!Watch
  BY <1>1, CallsAre DEF Library!Sync, CallStep
<1>2. CASE \E c \in callers \cap Library!Calls :
             (Library!ReadEntry(c) \/ Library!FindSubscription(c)) /\ Library!Watch
  BY <1>2 DEF CallStep
<1>3. CASE \E c \in Library!Calls \ Syncers : Library!Request(c) /\ Library!Watch
  BY <1>3 DEF Library!Request, CallStep
<1> QED BY <1>1, <1>2, <1>3 DEF Library!Next, Library!Step

\* A call changes nothing of what the others hold.
LEMMA OthersStay ==
  ASSUME LibraryTypes, NEW c \in Library!Calls, CallStep(c) \/ Library!Dies(c),
         NEW d \in Library!Calls, d # c
  PROVE  /\ call'[d] = call[d] /\ seen'[d] = seen[d]
         /\ pending'[d] = pending[d] /\ copied'[d] = copied[d]
         /\ Library!Busy(d)' = Library!Busy(d)
<1> USE DEF Library!locals, Library!tenant, Library!library, Library!Goto
<1>1. call'[d] = call[d]
  BY DEF CallStep, Library!Dies, Library!ListSubscriptions, Library!ReadEntries,
     Library!CopyMarkers, Library!StampVersion, Library!ReadEntry, Library!Insert, Library!Counted,
     Library!FindSubscription, Library!RemoveMarkers, Library!DeleteSubscription,
     Library!Discounted, Library!Ends, LibraryTypes
<1>2. seen'[d] = seen[d]
  BY DEF CallStep, Library!Dies, Library!ListSubscriptions, Library!ReadEntries,
     Library!CopyMarkers, Library!StampVersion, Library!ReadEntry, Library!Insert, Library!Counted,
     Library!FindSubscription, Library!RemoveMarkers, Library!DeleteSubscription,
     Library!Discounted, Library!Ends, LibraryTypes
<1>3. pending'[d] = pending[d]
  BY DEF CallStep, Library!Dies, Library!ListSubscriptions, Library!ReadEntries,
     Library!CopyMarkers, Library!StampVersion, Library!ReadEntry, Library!Insert, Library!Counted,
     Library!FindSubscription, Library!RemoveMarkers, Library!DeleteSubscription,
     Library!Discounted, Library!Ends, LibraryTypes
<1>4. copied'[d] = copied[d]
  BY DEF CallStep, Library!Dies, Library!ListSubscriptions, Library!ReadEntries,
     Library!CopyMarkers, Library!StampVersion, Library!ReadEntry, Library!Insert, Library!Counted,
     Library!FindSubscription, Library!RemoveMarkers, Library!DeleteSubscription,
     Library!Discounted, Library!Ends, LibraryTypes
<1> QED BY <1>1, <1>2, <1>3, <1>4 DEF Library!Busy

LEMMA CopyIs ==
  ASSUME LibraryTypes, NEW c \in Library!Calls, Library!CopyMarkers(c)
  PROVE  /\ UNCHANGED <<subs, item, deleted, subscribers, changes, seen, deaths>>
         /\ call[c] = "markers" /\ call' \in [Library!Calls -> CallSteps] /\ call'[c] = "stamp"
         /\ \E s \in pending[c] :
              /\ pending' = [pending EXCEPT ![c] = pending[c] \ {s}]
              /\ copied' = [copied EXCEPT ![c] = {s}]
              /\ markers' \in [Groups -> Nat]
              /\ markers'[s.group] =
                   IF seen[c].markers = 0 THEN markers[s.group] ELSE seen[c].markers
              /\ \A g \in Groups : g # s.group => markers'[g] = markers[g]
<1>1. PICK s \in pending[c] :
        /\ Library!PutMarkers(s.group, seen[c].markers)
        /\ pending' = [pending EXCEPT ![c] = @ \ {s}]
        /\ copied' = [copied EXCEPT ![c] = {s}]
  BY DEF Library!CopyMarkers
<1>2. pending' = [pending EXCEPT ![c] = pending[c] \ {s}]
  BY <1>1 DEF LibraryTypes
<1>3. s.group \in Groups /\ seen[c].markers \in Nat
  BY DEF LibraryTypes, Records, Library!Subscription, Library!Entry
<1>4. /\ markers' \in [Groups -> Nat]
      /\ markers'[s.group] = IF seen[c].markers = 0 THEN markers[s.group] ELSE seen[c].markers
      /\ \A g \in Groups : g # s.group => markers'[g] = markers[g]
  BY <1>1, <1>3 DEF Library!PutMarkers, LibraryTypes
<1>5. /\ UNCHANGED <<subs, item, deleted, subscribers, changes, seen, deaths>>
      /\ call[c] = "markers" /\ call' \in [Library!Calls -> CallSteps] /\ call'[c] = "stamp"
  BY DEF Library!CopyMarkers, Library!library, Library!Goto, LibraryTypes, CallSteps
<1> QED BY <1>1, <1>2, <1>4, <1>5

LEMMA StampStepIs ==
  ASSUME LibraryTypes, NEW c \in Library!Calls, Library!StampVersion(c)
  PROVE  /\ UNCHANGED <<markers, item, deleted, subscribers, changes, deaths>>
         /\ call[c] = "stamp" /\ \E s \in copied[c] : Library!Stamp(s, seen[c].version)
         /\ \/ Library!Ends(c)
            \/ /\ call' \in [Library!Calls -> CallSteps] /\ call'[c] = "markers"
               /\ copied' = [copied EXCEPT ![c] = {}] /\ copied'[c] = {}
               /\ UNCHANGED <<seen, pending>> /\ pending[c] # {}
BY DEF Library!StampVersion, Library!library, Library!Goto, LibraryTypes, CallSteps

LEMMA StaleReadIs ==
  ASSUME LibraryTypes, NEW c \in Library!Calls, Library!ReadEntries(c)
  PROVE  /\ UNCHANGED <<subs, markers, item, deleted, subscribers, changes, deaths>>
         /\ c \in Syncers /\ call[c] = "entries"
         /\ \/ Library!Ends(c)
            \/ /\ call' \in [Library!Calls -> CallSteps] /\ call'[c] = "markers"
               /\ pending' \in [Library!Calls -> SUBSET Records]
               /\ seen' = [seen EXCEPT ![c] = Library!Read(item)] /\ seen'[c] = Library!Read(item)
               /\ copied' = copied
<1> DEFINE stale == {s \in pending[c] : Library!Exists /\ Library!Stale(s, item)}
           reset == {[s EXCEPT !.synced = 0] : s \in stale}
<1>1. \/ Library!Ends(c)
      \/ pending' = [pending EXCEPT ![c] = reset] /\ Library!Goto(c, "markers")
         /\ seen' = [seen EXCEPT ![c] = Library!Read(item)] /\ copied' = copied
  BY DEF Library!ReadEntries
<1>2. reset \subseteq Records
  <2>1. stale \in SUBSET Records
    BY DEF LibraryTypes
  <2> HIDE DEF stale
  <2> QED BY <2>1, StaleIs
<1>3. /\ UNCHANGED <<subs, markers, item, deleted, subscribers, changes, deaths>>
      /\ c \in Syncers /\ call[c] = "entries"
  BY DEF Library!ReadEntries, Library!tenant, Library!library
<1> HIDE DEF reset
<1> QED BY <1>1, <1>2, <1>3 DEF LibraryTypes, Library!Goto, CallSteps

\* The types, and a group has one subscription at most.
LEMMA LibraryTypeStep ==
  ASSUME LibraryTypes, RequestsHold, [Library!Next]_libraryVars
  PROVE  LibraryTypes'
<1> USE DEF Library!tenant, Library!library, Library!locals
<1>0. CASE UNCHANGED libraryVars
  BY <1>0 DEF libraryVars, LibraryTypes
<1>1. CASE Library!Upsert \/ Library!MergeSource
  <2>1. /\ UNCHANGED <<subs, subscribers, markers, call, seen, pending, copied, deaths>>
        /\ changes' = changes + 1
    BY <1>1 DEF Library!Upsert, Library!MergeSource, Library!Change
  <2>2. item' \in Library!Entry
    <3>1. CASE Library!Upsert
      <4>1. PICK m \in {0, changes + 1} :
              item' = [version |-> item.version + 1, markers |-> m, base |-> m]
        BY <3>1 DEF Library!Upsert, Library!Change
      <4> QED BY <4>1 DEF Library!Entry, LibraryTypes
    <3>2. CASE Library!MergeSource
      BY <3>2 DEF Library!MergeSource, Library!Change, Library!Entry, LibraryTypes
    <3> QED BY <1>1, <3>1, <3>2
  <2> QED BY <2>1, <2>2 DEF LibraryTypes
<1>2. CASE Library!DeleteSubscriptions \/ Library!DeleteEntry
  BY <1>2 DEF Library!DeleteSubscriptions, Library!DeleteEntry, LibraryTypes
<1>3. ASSUME NEW c \in Library!Calls, Library!Dies(c) PROVE LibraryTypes'
  BY <1>3, EndsIs, FirstIsEntry DEF Library!Dies, LibraryTypes
<1>4. ASSUME NEW c \in Library!Calls, Library!CopyMarkers(c) PROVE LibraryTypes'
  BY <1>4, CopyIs DEF LibraryTypes
<1>5. ASSUME NEW c \in Library!Calls, Library!StampVersion(c) PROVE LibraryTypes'
  <2>1. PICK s \in copied[c] : Library!Stamp(s, seen[c].version)
    BY <1>5, StampStepIs
  <2>2. s \in Records /\ seen[c].version \in Nat
    BY DEF LibraryTypes, Library!Entry
  <2>3. subs' \subseteq Records /\ \A t, u \in subs' : t.group = u.group => t = u
    BY <2>1, <2>2, StampIs
  <2>4. CASE Library!Ends(c)
    BY <1>5, <2>3, <2>4, StampStepIs, EndsIs, FirstIsEntry DEF LibraryTypes
  <2>5. CASE ~Library!Ends(c)
    BY <1>5, <2>3, <2>5, StampStepIs DEF LibraryTypes
  <2> QED BY <2>4, <2>5
<1>6. ASSUME NEW c \in Library!Calls, Library!ReadEntries(c) PROVE LibraryTypes'
  <2>1. CASE Library!Ends(c)
    BY <1>6, <2>1, StaleReadIs, EndsIs, FirstIsEntry DEF LibraryTypes
  <2>2. CASE ~Library!Ends(c)
    BY <1>6, <2>2, StaleReadIs, ReadIs DEF LibraryTypes
  <2> QED BY <2>1, <2>2
<1>7. ASSUME NEW c \in Library!Calls, Library!ReadEntry(c) PROVE LibraryTypes'
  BY <1>7, NewIs, ReadIs DEF Library!ReadEntry, Library!Goto, LibraryTypes, CallSteps
<1>8. ASSUME NEW c \in Library!Calls, Library!Insert(c) PROVE LibraryTypes'
  <2>1. /\ c \in Subscribes /\ call[c] = "insert"
        /\ UNCHANGED <<markers, item, deleted, subscribers, changes, deaths>>
    BY <1>8 DEF Library!Insert
  <2>2. pending[c] = {Library!New(c)}
    BY <2>1 DEF RequestsHold
  <2>3. CASE Library!Ends(c) /\ UNCHANGED subs
    BY <2>1, <2>3, EndsIs, FirstIsEntry DEF LibraryTypes
  <2>4. CASE /\ Library!Busy(c) \cap {s.group : s \in subs} = {}
             /\ subs' = subs \cup pending[c] /\ Library!Goto(c, "count")
             /\ UNCHANGED <<seen, pending, copied>>
    <3>1. \A s \in subs : s.group # Library!New(c).group
      BY <2>2, <2>4 DEF Library!Busy
    <3>2. Library!New(c) \in Records
      BY <2>1, NewIs
    <3> QED BY <2>1, <2>2, <2>4, <3>1, <3>2 DEF Library!Goto, LibraryTypes, CallSteps
  <2> QED BY <1>8, <2>3, <2>4 DEF Library!Insert
<1>9. ASSUME NEW c \in Library!Calls, Library!Counted(c) PROVE LibraryTypes'
  BY <1>9 DEF Library!Counted, Library!CountBy, Library!Goto, LibraryTypes, CallSteps
<1>10. ASSUME NEW c \in Library!Calls, Library!FindSubscription(c) PROVE LibraryTypes'
  BY <1>10 DEF Library!FindSubscription, Library!Goto, LibraryTypes, CallSteps
<1>11. ASSUME NEW c \in Library!Calls, Library!RemoveMarkers(c) \/ Library!DeleteSubscription(c)
       PROVE  LibraryTypes'
  BY <1>11 DEF Library!RemoveMarkers, Library!DeleteSubscription, Library!Goto, LibraryTypes, CallSteps
<1>12. ASSUME NEW c \in Library!Calls, Library!Discounted(c) PROVE LibraryTypes'
  BY <1>12, EndsIs, FirstIsEntry DEF Library!Discounted, Library!CountBy, LibraryTypes
<1>13. ASSUME NEW c \in Library!Calls, Library!ListSubscriptions(c) PROVE LibraryTypes'
  BY <1>13 DEF Library!ListSubscriptions, Library!Goto, LibraryTypes, CallSteps
<1> QED
  BY <1>0, <1>1, <1>2, <1>3, <1>4, <1>5, <1>6, <1>7, <1>8, <1>9, <1>10, <1>11, <1>12, <1>13,
     LibrarySteps
  DEF CallStep

LEMMA RequestsHoldStep ==
  ASSUME LibraryTypes, RequestsHold, [Library!Next]_libraryVars
  PROVE  RequestsHold'
<1> USE DEF Library!tenant, Library!library, Library!locals
<1>0. CASE \/ UNCHANGED libraryVars \/ Library!Upsert \/ Library!MergeSource
           \/ Library!DeleteSubscriptions \/ Library!DeleteEntry
  BY <1>0 DEF libraryVars, Library!Upsert, Library!MergeSource, Library!Change,
     Library!DeleteSubscriptions, Library!DeleteEntry, RequestsHold
<1>1. ASSUME NEW c \in Library!Calls, CallStep(c) \/ Library!Dies(c),
             c \in Subscribes =>
               /\ call'[c] \in {"idle", "insert", "count", "markers", "stamp", "done"}
               /\ call'[c] \in {"insert", "count", "markers"} => pending'[c] = {Library!New(c)}
               /\ call'[c] = "stamp" => pending'[c] = {},
             c \in Unsubscribes =>
               /\ call'[c] \in {"idle", "remove", "delete", "count", "done"}
               /\ copied'[c] = {}
               /\ call'[c] \in {"remove", "delete"} => \E t \in pending'[c] : pending'[c] = {t},
             c \in Syncers => call'[c] \in {"idle", "entries", "markers", "stamp"}
      PROVE  RequestsHold'
  <2>1. \A d \in Library!Calls \ {c} :
          call'[d] = call[d] /\ pending'[d] = pending[d] /\ copied'[d] = copied[d]
    BY <1>1, OthersStay
  <2> QED BY <1>1, <2>1, CallsAre DEF RequestsHold
<1>2. ASSUME NEW c \in Library!Calls, Library!Ends(c), CallStep(c) \/ Library!Dies(c)
      PROVE  RequestsHold'
  BY <1>1, <1>2, EndsIs, CallsAre
<1>3. ASSUME NEW c \in Library!Calls, CallStep(c), Library!CopyMarkers(c) PROVE RequestsHold'
  <2>1. call[c] = "markers" /\ call'[c] = "stamp"
    BY <1>3, CopyIs
  <2>2. c \notin Unsubscribes
    BY <2>1 DEF RequestsHold
  <2>3. c \in Subscribes => pending'[c] = {}
    <3> SUFFICES ASSUME c \in Subscribes PROVE pending'[c] = {}
      OBVIOUS
    <3>1. pending[c] = {Library!New(c)}
      BY <2>1 DEF RequestsHold
    <3>2. PICK s \in pending[c] : pending'[c] = pending[c] \ {s}
      BY <1>3, CopyIs DEF LibraryTypes
    <3> QED BY <3>1, <3>2
  <2> QED BY <1>1, <1>3, <2>1, <2>2, <2>3
<1>4. ASSUME NEW c \in Library!Calls, CallStep(c), Library!StampVersion(c) PROVE RequestsHold'
  <2>1. CASE Library!Ends(c)
    BY <1>2, <1>4, <2>1
  <2>2. CASE ~Library!Ends(c)
    <3>1. call[c] = "stamp" /\ call'[c] = "markers" /\ pending'[c] = pending[c] /\ pending[c] # {}
      BY <1>4, <2>2, StampStepIs
    <3>2. c \notin Unsubscribes
      BY <3>1 DEF RequestsHold
    <3>3. c \notin Subscribes
      BY <3>1 DEF RequestsHold
    <3> QED BY <1>1, <1>4, <3>1, <3>2, <3>3
  <2> QED BY <2>1, <2>2
<1>5. ASSUME NEW c \in Library!Calls, CallStep(c), Library!ReadEntries(c) PROVE RequestsHold'
  <2>1. CASE Library!Ends(c)
    BY <1>2, <1>5, <2>1
  <2>2. CASE ~Library!Ends(c)
    BY <1>1, <1>5, <2>2, StaleReadIs, CallsAre
  <2> QED BY <2>1, <2>2
<1>6. ASSUME NEW c \in Library!Calls, CallStep(c), Library!ReadEntry(c) PROVE RequestsHold'
  <2>1. /\ c \in Subscribes /\ call'[c] = "insert" /\ pending'[c] = {Library!New(c)}
    BY <1>6 DEF Library!ReadEntry, Library!Goto, LibraryTypes
  <2> QED BY <1>1, <1>6, <2>1, CallsAre
<1>7. ASSUME NEW c \in Library!Calls, CallStep(c), Library!Insert(c) PROVE RequestsHold'
  <2>1. CASE Library!Ends(c)
    BY <1>2, <1>7, <2>1
  <2>2. CASE ~Library!Ends(c)
    <3>1. /\ c \in Subscribes /\ call[c] = "insert" /\ call'[c] = "count" /\ pending'[c] = pending[c]
      BY <1>7, <2>2 DEF Library!Insert, Library!Goto, LibraryTypes
    <3>2. pending[c] = {Library!New(c)}
      BY <3>1 DEF RequestsHold
    <3> QED BY <1>1, <1>7, <3>1, <3>2, CallsAre
  <2> QED BY <2>1, <2>2
<1>8. ASSUME NEW c \in Library!Calls, CallStep(c), Library!Counted(c) PROVE RequestsHold'
  <2>1. /\ c \in Subscribes /\ call[c] = "count" /\ call'[c] = "markers" /\ pending'[c] = pending[c]
    BY <1>8 DEF Library!Counted, Library!Goto, LibraryTypes
  <2>2. pending[c] = {Library!New(c)}
    BY <2>1 DEF RequestsHold
  <2> QED BY <1>1, <1>8, <2>1, <2>2, CallsAre
<1>9. ASSUME NEW c \in Library!Calls, CallStep(c), Library!FindSubscription(c) PROVE RequestsHold'
  <2>1. /\ c \in Unsubscribes /\ call'[c] = "remove" /\ copied'[c] = copied[c]
        /\ \E t \in subs : pending'[c] = {t}
    BY <1>9 DEF Library!FindSubscription, Library!Goto, LibraryTypes
  <2>2. copied[c] = {}
    BY <2>1 DEF RequestsHold
  <2> QED BY <1>1, <1>9, <2>1, <2>2, CallsAre
<1>10. ASSUME NEW c \in Library!Calls, CallStep(c),
              Library!RemoveMarkers(c) \/ Library!DeleteSubscription(c)
       PROVE  RequestsHold'
  <2>1. /\ c \in Unsubscribes /\ call[c] \in {"remove", "delete"} /\ call'[c] \in {"delete", "count"}
        /\ copied'[c] = copied[c] /\ pending'[c] = pending[c]
    BY <1>10 DEF Library!RemoveMarkers, Library!DeleteSubscription, Library!Goto, LibraryTypes
  <2>2. copied[c] = {} /\ \E t \in pending[c] : pending[c] = {t}
    BY <2>1 DEF RequestsHold
  <2> QED BY <1>1, <1>10, <2>1, <2>2, CallsAre
<1>11. ASSUME NEW c \in Library!Calls, CallStep(c), Library!ListSubscriptions(c) PROVE RequestsHold'
  <2>1. c \in Syncers /\ call'[c] = "entries"
    BY <1>11 DEF Library!ListSubscriptions, Library!Goto, LibraryTypes
  <2> QED BY <1>1, <1>11, <2>1, CallsAre
<1>12. ASSUME NEW c \in Library!Calls, CallStep(c) \/ Library!Dies(c) PROVE RequestsHold'
  BY <1>2, <1>3, <1>4, <1>5, <1>6, <1>7, <1>8, <1>9, <1>10, <1>11, <1>12
  DEF CallStep, Library!Dies, Library!Discounted
<1> QED BY <1>0, <1>12, LibrarySteps

LEMMA EntryGrowsStep ==
  ASSUME LibraryTypes, RequestsHold, EntryGrows, [Library!Next]_libraryVars
  PROVE  EntryGrows'
<1> USE DEF Library!tenant, Library!library, Library!locals
<1>t. /\ item.version \in Nat /\ item.markers \in Nat /\ item.base \in Nat /\ changes \in Nat
      /\ \A s \in Records : s.synced \in Nat
      /\ \A c \in Library!Calls : seen[c].version \in Nat /\ seen[c].markers \in Nat
  BY DEF LibraryTypes, Library!Entry, Records, Library!Subscription
<1>0. CASE UNCHANGED libraryVars \/ Library!DeleteSubscriptions \/ Library!DeleteEntry
  BY <1>0 DEF libraryVars, Library!DeleteSubscriptions, Library!DeleteEntry, EntryGrows
<1>1. CASE Library!Upsert
  <2>1. PICK m \in {0, changes + 1} :
          Library!Change([version |-> item.version + 1, markers |-> m, base |-> m])
    BY <1>1 DEF Library!Upsert
  <2>2. /\ item'.version = item.version + 1 /\ item'.markers = m /\ item'.base = m
        /\ changes' = changes + 1 /\ UNCHANGED <<subs, seen>>
    BY <2>1 DEF Library!Change
  <2>3. \A s \in subs : s.synced \in Nat /\ s.synced =< item.version
    BY <1>t DEF LibraryTypes, EntryGrows
  <2> QED BY <1>t, <2>2, <2>3 DEF EntryGrows
<1>2. CASE Library!MergeSource
  <2>1. /\ item'.version = item.version /\ item'.markers = changes + 1 /\ item'.base = item.base
        /\ changes' = changes + 1 /\ UNCHANGED <<subs, seen>>
    BY <1>2 DEF Library!MergeSource, Library!Change, LibraryTypes, Library!Entry
  <2> QED BY <1>t, <2>1 DEF EntryGrows
<1>3. ASSUME NEW c \in Library!Calls, CallStep(c) \/ Library!Dies(c),
             UNCHANGED item, UNCHANGED changes,
             \A s \in subs' : s.synced =< item.version,
             \/ seen'[c] = seen[c] \/ seen'[c] = Library!First \/ seen'[c] = Library!Read(item)
      PROVE  EntryGrows'
  <2>1. \A d \in Library!Calls \ {c} : seen'[d] = seen[d]
    BY <1>3, OthersStay
  <2>2. /\ seen'[c].version =< item.version
        /\ seen'[c].version = item.version => item.base =< seen'[c].markers
    <3>1. CASE seen'[c] = seen[c]
      BY <3>1 DEF EntryGrows
    <3>2. CASE seen'[c] = Library!First
      BY <1>t, <3>2, FirstIsEntry DEF EntryGrows
    <3>3. CASE seen'[c] = Library!Read(item)
      BY <1>t, <3>3, ReadIs DEF EntryGrows, LibraryTypes
    <3> QED BY <1>3, <3>1, <3>2, <3>3
  <2> QED BY <1>3, <2>1, <2>2 DEF EntryGrows
<1>4. ASSUME NEW c \in Library!Calls, CallStep(c) \/ Library!Dies(c),
             \/ Library!ListSubscriptions(c) \/ Library!Counted(c) \/ Library!FindSubscription(c)
             \/ Library!RemoveMarkers(c) \/ Library!DeleteSubscription(c)
      PROVE  EntryGrows'
  <2>1. UNCHANGED <<item, changes, seen>> /\ subs' \subseteq subs
    BY <1>4 DEF Library!ListSubscriptions, Library!Counted, Library!FindSubscription,
       Library!RemoveMarkers, Library!DeleteSubscription
  <2>2. \A s \in subs' : s.synced =< item.version
    BY <2>1 DEF EntryGrows
  <2> QED BY <1>3, <1>4, <2>1, <2>2
<1>5. ASSUME NEW c \in Library!Calls, CallStep(c) \/ Library!Dies(c),
             \/ Library!ReadEntries(c) \/ Library!ReadEntry(c) \/ Library!CopyMarkers(c)
             \/ Library!Dies(c) \/ Library!Discounted(c)
      PROVE  EntryGrows'
  <2>1. UNCHANGED <<item, changes, subs>>
    BY <1>5, CopyIs DEF Library!ReadEntries, Library!ReadEntry, Library!Dies, Library!Discounted
  <2>2. \/ seen'[c] = seen[c] \/ seen'[c] = Library!First \/ seen'[c] = Library!Read(item)
    BY <1>5, CopyIs, EndsIs, StaleReadIs
    DEF Library!ReadEntry, Library!Dies, Library!Discounted, LibraryTypes
  <2>3. \A s \in subs' : s.synced =< item.version
    BY <2>1 DEF EntryGrows
  <2> QED BY <1>3, <1>5, <2>1, <2>2, <2>3
<1>6. ASSUME NEW c \in Library!Calls, CallStep(c), Library!StampVersion(c) PROVE EntryGrows'
  <2>1. PICK s \in copied[c] : Library!Stamp(s, seen[c].version)
    BY <1>6, StampStepIs
  <2>2. s \in Records
    BY DEF LibraryTypes
  <2>3. \A u \in subs' : \E t \in subs : u = t \/ u.synced = seen[c].version
    BY <1>t, <2>1, <2>2, StampIs
  <2>4. \A u \in subs' : u.synced =< item.version
    BY <2>3 DEF EntryGrows
  <2>5. UNCHANGED <<item, changes>> /\ (seen'[c] = seen[c] \/ seen'[c] = Library!First)
    BY <1>6, StampStepIs, EndsIs
  <2> QED BY <1>3, <1>6, <2>4, <2>5
<1>7. ASSUME NEW c \in Library!Calls, CallStep(c), Library!Insert(c) PROVE EntryGrows'
  <2>1. /\ c \in Subscribes /\ call[c] = "insert" /\ UNCHANGED <<item, changes>>
        /\ subs' \subseteq subs \cup pending[c]
    BY <1>7 DEF Library!Insert
  <2>2. pending[c] = {Library!New(c)} /\ Library!New(c).synced = 0
    BY <2>1, NewIs DEF RequestsHold
  <2>3. \A s \in subs' : s.synced =< item.version
    BY <1>t, <2>1, <2>2 DEF EntryGrows
  <2>4. seen'[c] = seen[c] \/ seen'[c] = Library!First
    BY <1>7, EndsIs DEF Library!Insert
  <2> QED BY <1>3, <1>7, <2>1, <2>3, <2>4
<1>8. ASSUME NEW c \in Library!Calls, CallStep(c) \/ Library!Dies(c) PROVE EntryGrows'
  BY <1>4, <1>5, <1>6, <1>7, <1>8 DEF CallStep
<1> QED BY <1>0, <1>1, <1>2, <1>8, LibrarySteps

\* Two calls that work on a group at once have spoilt it.
LEMMA ContentionStep ==
  ASSUME LibraryTypes, Library!Contended \subseteq disputed, [Library!Next]_libraryVars
  PROVE  Library!Contended' \subseteq disputed' /\ disputed \subseteq disputed'
<1> USE DEF Library!tenant, Library!library, Library!locals
<1>1. CASE \/ UNCHANGED libraryVars \/ Library!Upsert \/ Library!MergeSource
           \/ Library!DeleteSubscriptions \/ Library!DeleteEntry
  BY <1>1 DEF libraryVars, Library!Upsert, Library!MergeSource, Library!Change,
     Library!DeleteSubscriptions, Library!DeleteEntry, Library!Contended, Library!Busy
<1>2. ASSUME NEW c \in Library!Calls, CallStep(c)
      PROVE  Library!Contended' \subseteq disputed' /\ disputed \subseteq disputed'
  BY <1>2 DEF CallStep, Library!Watch
<1>3. ASSUME NEW c \in Library!Calls, Library!Dies(c)
      PROVE  Library!Contended' \subseteq disputed' /\ disputed \subseteq disputed'
  <2>1. disputed \subseteq disputed' /\ Library!Ends(c)
    BY <1>3 DEF Library!Dies
  <2>2. Library!Busy(c)' = {}
    BY <2>1, EndsIs DEF Library!Busy
  <2>3. \A d \in Library!Calls \ {c} : Library!Busy(d)' = Library!Busy(d)
    BY <1>3, OthersStay
  <2>4. Library!Contended' \subseteq Library!Contended
    BY <2>2, <2>3 DEF Library!Contended
  <2> QED BY <2>1, <2>4
<1> QED BY <1>1, <1>2, <1>3, LibrarySteps

\* No two calls work on a group that is not spoilt.
LEMMA Alone ==
  ASSUME NEW g \in Groups
  PROVE  /\ Library!Contended \subseteq disputed /\ g \notin disputed =>
              \A c, d \in Library!Calls : c # d /\ g \in Library!Busy(c) => g \notin Library!Busy(d)
         /\ Library!Contended' \subseteq disputed' /\ g \notin disputed' =>
              \A c, d \in Library!Calls : c # d /\ g \in Library!Busy(c)' => g \notin Library!Busy(d)'
BY DEF Library!Contended

LEMMA BusyIs ==
  ASSUME NEW c, NEW s \in pending[c] \cup copied[c]
  PROVE  s.group \in Library!Busy(c)
BY DEF Library!Busy

\* A step of a call that leaves the group as it is.
LEMMA GroupStays ==
  ASSUME LibraryTypes, NEW g \in Groups, GroupIsCurrent(g),
         NEW c \in Library!Calls, CallStep(c) \/ Library!Dies(c),
         UNCHANGED <<subs, item>>, markers'[g] = markers[g],
         Leaving(g) => Leaving(g)',
         CopyHas(g, c)', NotAhead(g, c)', Removes(g, c)'
  PROVE  GroupIsCurrent(g)'
<1>1. SyncedHas(g)'
  BY DEF GroupIsCurrent, SyncedHas
<1>2. ASSUME NEW d \in Library!Calls, d # c
      PROVE  CopyHas(g, d)' /\ NotAhead(g, d)' /\ Removes(g, d)'
  <2>1. /\ call'[d] = call[d] /\ seen'[d] = seen[d]
        /\ pending'[d] = pending[d] /\ copied'[d] = copied[d]
    BY <1>2, OthersStay
  <2>2. CopyHas(g, d) /\ NotAhead(g, d) /\ Removes(g, d)
    BY DEF GroupIsCurrent
  <2> QED BY <2>1, <2>2 DEF CopyHas, NotAhead, Removes, HasRead
<1> QED BY <1>1, <1>2 DEF GroupIsCurrent

\* A call that has ended, or has only listed.
LEMMA NothingHeld ==
  ASSUME NEW g \in Groups, NEW c \in Library!Calls,
         call'[c] \in {"idle", "done", "entries"}
  PROVE  CopyHas(g, c)' /\ NotAhead(g, c)' /\ Removes(g, c)'
BY DEF CopyHas, NotAhead, Removes, HasRead

LEMMA LeavingGoesOn ==
  ASSUME LibraryTypes, NEW g \in Groups, Leaving(g),
         NEW c \in Library!Calls, CallStep(c) \/ Library!Dies(c),
         call[c] = "delete" => g \notin Library!Busy(c)
  PROVE  Leaving(g)'
<1>1. PICK d \in Unsubscribes : call[d] = "delete" /\ g \in Library!Busy(d)
  BY DEF Leaving
<1>2. d # c /\ d \in Library!Calls
  BY <1>1, CallsAre
<1> QED BY <1>1, <1>2, OthersStay DEF Leaving

\* The steps that neither copy nor write a subscription.
LEMMA GroupAtRest ==
  ASSUME LibraryTypes, LibraryTypes', RequestsHold, EntryGrows,
         NEW g \in Groups, g \notin disputed', GroupIsCurrent(g), NEW c \in Library!Calls,
         \/ CallStep(c) /\ \/ Library!ListSubscriptions(c) \/ Library!ReadEntries(c)
                           \/ Library!ReadEntry(c) \/ Library!Counted(c)
                           \/ Library!FindSubscription(c) \/ Library!Discounted(c)
         \/ Library!Dies(c)
  PROVE  GroupIsCurrent(g)'
<1> USE DEF Library!tenant, Library!library
<1>1. UNCHANGED <<subs, item, markers>> /\ (CallStep(c) \/ Library!Dies(c))
  BY DEF Library!ListSubscriptions, Library!ReadEntries, Library!ReadEntry, Library!Counted,
     Library!FindSubscription, Library!Discounted, Library!Dies
<1>2. call[c] = "delete" => g \notin Library!Busy(c)
  BY DEF Library!ListSubscriptions, Library!ReadEntries, Library!ReadEntry, Library!Counted,
     Library!FindSubscription, Library!Discounted, Library!Dies
<1>3. Leaving(g) => Leaving(g)'
  BY <1>1, <1>2, LeavingGoesOn
<1>4. ASSUME Library!Ends(c) \/ Library!ListSubscriptions(c) PROVE GroupIsCurrent(g)'
  <2>1. call'[c] \in {"idle", "done", "entries"}
    BY <1>4, EndsIs DEF Library!ListSubscriptions, Library!Goto, LibraryTypes
  <2> QED BY <1>1, <1>3, <2>1, GroupStays, NothingHeld
<1>5. \A u \in subs : u.synced =< item.version
  BY DEF EntryGrows
<1>6. ASSUME Library!ReadEntries(c), ~Library!Ends(c) PROVE GroupIsCurrent(g)'
  <2>1. c \in Syncers /\ call'[c] = "markers" /\ seen'[c].version = item.version
    BY <1>6, StaleReadIs, ReadIs DEF LibraryTypes
  <2>2. CopyHas(g, c)' /\ NotAhead(g, c)' /\ Removes(g, c)'
    BY <1>1, <1>5, <2>1, CallsAre DEF CopyHas, NotAhead, Removes
  <2> QED BY <1>1, <1>3, <2>2, GroupStays
<1>7. ASSUME Library!ReadEntry(c) PROVE GroupIsCurrent(g)'
  <2>1. c \in Subscribes /\ call'[c] = "insert" /\ seen'[c].version = item.version
    BY <1>7, ReadIs DEF Library!ReadEntry, Library!Goto, LibraryTypes
  <2>2. CopyHas(g, c)' /\ NotAhead(g, c)' /\ Removes(g, c)'
    BY <1>1, <1>5, <2>1, CallsAre DEF CopyHas, NotAhead, Removes
  <2> QED BY <1>1, <1>3, <2>2, GroupStays
<1>8. ASSUME Library!Counted(c) PROVE GroupIsCurrent(g)'
  <2>1. /\ c \in Subscribes /\ call[c] = "count" /\ call'[c] = "markers"
        /\ seen'[c] = seen[c] /\ pending'[c] = pending[c]
    BY <1>8 DEF Library!Counted, Library!Goto, LibraryTypes
  <2>2. NotAhead(g, c) /\ HasRead(c)
    BY <2>1, CallsAre DEF GroupIsCurrent, HasRead
  <2>3. CopyHas(g, c)' /\ NotAhead(g, c)' /\ Removes(g, c)'
    BY <1>1, <2>1, <2>2, CallsAre DEF CopyHas, NotAhead, Removes
  <2> QED BY <1>1, <1>3, <2>3, GroupStays
<1>9. ASSUME Library!FindSubscription(c) PROVE GroupIsCurrent(g)'
  <2>1. PICK t \in subs : c \in Unsubscribes /\ call'[c] = "remove" /\ pending'[c] = {t}
    BY <1>9 DEF Library!FindSubscription, Library!Goto, LibraryTypes
  <2>2. \A s \in subs : s.group = t.group => s = t
    BY DEF LibraryTypes
  <2>3. CopyHas(g, c)' /\ NotAhead(g, c)' /\ Removes(g, c)'
    BY <1>1, <2>1, <2>2 DEF CopyHas, NotAhead, Removes, HasRead
  <2> QED BY <1>1, <1>3, <2>3, GroupStays
<1> QED BY <1>4, <1>6, <1>7, <1>8, <1>9 DEF Library!Discounted, Library!Dies

\* What the lemmas on single steps assume of the group g, before and after.
Watched(g) ==
  /\ LibraryTypes /\ LibraryTypes' /\ RequestsHold /\ EntryGrows
  /\ g \in Groups /\ g \notin disputed /\ g \notin disputed' /\ GroupIsCurrent(g)
  /\ Library!Contended \subseteq disputed /\ Library!Contended' \subseteq disputed'

\* The markers of the version a subscription has, or of a later one, replace
\* those of its group.
LEMMA GroupIsCopied ==
  ASSUME NEW g, Watched(g), NEW c \in Library!Calls, CallStep(c), Library!CopyMarkers(c)
  PROVE  GroupIsCurrent(g)'
<1> USE DEF Watched
<1>1. /\ UNCHANGED <<subs, item, seen>> /\ call[c] = "markers" /\ call'[c] = "stamp"
  BY CopyIs
<1>2. PICK s \in pending[c] :
        /\ pending' = [pending EXCEPT ![c] = pending[c] \ {s}]
        /\ copied' = [copied EXCEPT ![c] = {s}]
        /\ markers'[s.group] = IF seen[c].markers = 0 THEN markers[s.group] ELSE seen[c].markers
        /\ \A h \in Groups : h # s.group => markers'[h] = markers[h]
  BY CopyIs
<1>3. pending'[c] = pending[c] \ {s} /\ copied'[c] = {s}
  BY <1>2 DEF LibraryTypes
<1>4. c \notin Unsubscribes /\ HasRead(c)
  BY <1>1 DEF RequestsHold, HasRead
<1>5. NotAhead(g, c)' /\ Removes(g, c)'
  BY <1>1, <1>3, <1>4 DEF GroupIsCurrent, NotAhead, Removes
<1>6. CASE s.group # g
  <2>1. markers'[g] = markers[g] /\ CopyHas(g, c)'
    BY <1>2, <1>3, <1>6 DEF CopyHas
  <2>2. Leaving(g) => Leaving(g)'
    BY <1>1, LeavingGoesOn
  <2> QED BY <1>1, <1>5, <2>1, <2>2, GroupStays
<1>7. CASE s.group = g
  <2>1. g \in Library!Busy(c)
    BY <1>2, <1>7, BusyIs
  <2>2. seen[c].version = item.version => markers'[g] >= item.base
    <3>1. seen[c].version = item.version => item.base =< seen[c].markers
      BY DEF EntryGrows
    <3>2. item.base \in Nat /\ seen[c].markers \in Nat /\ markers[g] \in Nat
      BY DEF LibraryTypes, Library!Entry
    <3> QED BY <1>2, <1>7, <3>1, <3>2
  <2>3. SyncedHas(g)'
    <3> SUFFICES ASSUME NEW u \in subs, u.group = g, u.synced = item.version
                 PROVE  markers'[g] >= item.base
      BY <1>1 DEF SyncedHas
    <3>1. u.synced =< seen[c].version
      BY <1>2, <1>4, <1>7 DEF GroupIsCurrent, NotAhead
    <3>2. seen[c].version =< item.version /\ seen[c].version \in Nat /\ item.version \in Nat
      BY DEF EntryGrows, LibraryTypes, Library!Entry
    <3> QED BY <2>2, <3>1, <3>2
  <2>4. CopyHas(g, c)'
    BY <1>1, <2>2 DEF CopyHas
  <2>5. ASSUME NEW d \in Library!Calls, d # c
        PROVE  CopyHas(g, d)' /\ NotAhead(g, d)' /\ Removes(g, d)'
    <3>1. g \notin Library!Busy(d)
      BY <2>1, <2>5, Alone
    <3>2. \A t \in pending[d] \cup copied[d] : t.group # g
      BY <3>1 DEF Library!Busy
    <3>3. pending'[d] = pending[d] /\ copied'[d] = copied[d]
      BY <2>5, OthersStay
    <3> QED BY <3>2, <3>3 DEF CopyHas, NotAhead, Removes
  <2> QED BY <1>5, <2>3, <2>4, <2>5 DEF GroupIsCurrent
<1> QED BY <1>6, <1>7

\* The version of the markers is stamped on the subscription.
LEMMA GroupIsStamped ==
  ASSUME NEW g, Watched(g), NEW c \in Library!Calls, CallStep(c), Library!StampVersion(c)
  PROVE  GroupIsCurrent(g)'
<1> USE DEF Watched
<1>1. UNCHANGED <<markers, item>> /\ call[c] = "stamp"
  BY StampStepIs
<1>2. PICK s \in copied[c] : Library!Stamp(s, seen[c].version)
  BY StampStepIs
<1>3. s \in Records /\ seen[c].version \in Nat
  BY DEF LibraryTypes, Library!Entry
<1>4. /\ subs' \subseteq Records
      /\ \A u \in subs' : \E t \in subs :
           /\ u.id = t.id /\ u.group = t.group
           /\ u = t \/ (u.id = s.id /\ u.synced = seen[c].version)
  BY <1>2, <1>3, StampIs
<1>5. \A u \in subs' : u.id = s.id => u.group = s.group
  BY <1>3, <1>4 DEF Records
<1>6. c \notin Unsubscribes /\ HasRead(c)
  BY <1>1 DEF RequestsHold, HasRead
<1>7. Leaving(g) => Leaving(g)'
  BY <1>1, LeavingGoesOn
<1>8. SyncedHas(g)'
  <2> SUFFICES ASSUME NEW u \in subs', u.group = g, u.synced = item.version, ~Leaving(g)
               PROVE  markers[g] >= item.base
    BY <1>1, <1>7 DEF SyncedHas
  <2>1. CASE u \in subs
    BY <2>1 DEF GroupIsCurrent, SyncedHas
  <2>2. CASE u.id = s.id /\ u.synced = seen[c].version
    BY <1>1, <1>5, <2>2 DEF GroupIsCurrent, CopyHas
  <2> QED BY <1>4, <2>1, <2>2
<1>9. CopyHas(g, c)' /\ NotAhead(g, c)' /\ Removes(g, c)'
  <2>1. CASE Library!Ends(c)
    BY <2>1, EndsIs, NothingHeld
  <2>2. CASE ~Library!Ends(c)
    <3>1. call'[c] = "markers" /\ seen' = seen /\ pending' = pending
      BY <2>2, StampStepIs
    <3>2. NotAhead(g, c)'
      <4> SUFFICES ASSUME NEW t \in pending[c], NEW u \in subs', t.group = g, u.group = g
                   PROVE  u.synced =< seen[c].version
        BY <3>1 DEF NotAhead
      <4>1. CASE u \in subs
        BY <1>6, <4>1 DEF GroupIsCurrent, NotAhead
      <4>2. CASE u.synced = seen[c].version
        BY <1>3, <4>2
      <4> QED BY <1>4, <4>1, <4>2
    <3> QED BY <1>6, <3>1, <3>2 DEF CopyHas, Removes
  <2> QED BY <2>1, <2>2
<1>10. ASSUME NEW d \in Library!Calls, d # c
       PROVE  CopyHas(g, d)' /\ NotAhead(g, d)' /\ Removes(g, d)'
  <2>1. /\ call'[d] = call[d] /\ seen'[d] = seen[d]
        /\ pending'[d] = pending[d] /\ copied'[d] = copied[d]
    BY <1>10, OthersStay
  <2>2. CopyHas(g, d) /\ NotAhead(g, d) /\ Removes(g, d)
    BY DEF GroupIsCurrent
  <2>3. CopyHas(g, d)'
    BY <1>1, <2>1, <2>2 DEF CopyHas
  <2>4. NotAhead(g, d)'
    <3> SUFFICES ASSUME NEW t \in pending[d], NEW u \in subs', HasRead(d), t.group = g, u.group = g
                 PROVE  u.synced =< seen[d].version
      BY <2>1 DEF NotAhead, HasRead
    <3>1. CASE u \in subs
      BY <2>2, <3>1 DEF NotAhead
    <3>2. CASE u.id = s.id
      <4>1. g \in Library!Busy(c)
        BY <1>5, <3>2, BusyIs
      <4>2. g \in Library!Busy(d)
        BY BusyIs
      <4> QED BY <1>10, <4>1, <4>2, Alone
    <3> QED BY <1>4, <3>1, <3>2
  <2>5. Removes(g, d)'
    <3> SUFFICES ASSUME NEW t \in pending[d], NEW u \in subs', d \in Unsubscribes,
                        call[d] \in {"remove", "delete"}, t.group = g, u.group = g
                 PROVE  u.id = t.id
      BY <2>1 DEF Removes
    <3>1. PICK v \in subs : v.id = u.id /\ v.group = u.group
      BY <1>4
    <3> QED BY <2>2, <3>1 DEF Removes
  <2> QED BY <2>3, <2>4, <2>5
<1> QED BY <1>8, <1>9, <1>10 DEF GroupIsCurrent

\* A group subscribes, without any version yet.
LEMMA GroupIsInserted ==
  ASSUME NEW g, Watched(g), NEW c \in Library!Calls, CallStep(c), Library!Insert(c)
  PROVE  GroupIsCurrent(g)'
<1> USE DEF Watched
<1>1. c \in Subscribes /\ call[c] = "insert" /\ UNCHANGED <<markers, item>>
  BY DEF Library!Insert, Library!library
<1>2. pending[c] = {Library!New(c)} /\ Library!New(c).synced = 0 /\ c \in Library!Calls \ Unsubscribes
  BY <1>1, NewIs, CallsAre DEF RequestsHold
<1>3. Leaving(g) => Leaving(g)'
  BY <1>1, LeavingGoesOn
<1>4. CASE Library!Ends(c) /\ UNCHANGED subs
  BY <1>1, <1>3, <1>4, EndsIs, NothingHeld, GroupStays
<1>5. CASE subs' = subs \cup pending[c] /\ Library!Goto(c, "count") /\ UNCHANGED <<seen, pending, copied>>
  <2>1. call'[c] = "count" /\ HasRead(c)
    BY <1>1, <1>2, <1>5 DEF Library!Goto, LibraryTypes, HasRead
  <2>2. /\ item.version >= 1 /\ item.version \in Nat
        /\ \A d \in Library!Calls : seen[d].version \in Nat
    BY DEF EntryGrows, LibraryTypes, Library!Entry
  <2>3. SyncedHas(g)'
    BY <1>1, <1>2, <1>3, <1>5, <2>2 DEF GroupIsCurrent, SyncedHas
  <2>4. ASSUME NEW d \in Library!Calls PROVE CopyHas(g, d)' /\ NotAhead(g, d)' /\ Removes(g, d)'
    <3>1. CopyHas(g, d) /\ NotAhead(g, d) /\ Removes(g, d)
      BY DEF GroupIsCurrent
    <3>2. d # c => call'[d] = call[d]
      BY <2>4, OthersStay
    <3>3. CopyHas(g, d)'
      BY <1>1, <1>5, <2>1, <3>1, <3>2 DEF CopyHas
    <3>4. NotAhead(g, d)'
      <4>1. HasRead(d)' => HasRead(d)
        BY <2>1, <3>2 DEF HasRead
      <4> QED BY <1>2, <1>5, <2>2, <3>1, <4>1 DEF NotAhead
    <3>5. Removes(g, d)'
      <4> SUFFICES ASSUME NEW t \in pending[d], NEW u \in subs', d \in Unsubscribes,
                          call'[d] \in {"remove", "delete"}, t.group = g, u.group = g
                   PROVE  u.id = t.id
        BY <1>5 DEF Removes
      <4>1. d # c
        BY <2>1
      <4>2. CASE u \in subs
        BY <3>1, <3>2, <4>1, <4>2 DEF Removes
      <4>3. CASE u \in pending[c]
        <5>1. g \in Library!Busy(c)' /\ g \in Library!Busy(d)'
          BY <1>5, <4>3 DEF Library!Busy
        <5> QED BY <4>1, <5>1, Alone
      <4> QED BY <1>5, <4>2, <4>3
    <3> QED BY <3>3, <3>4, <3>5
  <2> QED BY <2>3, <2>4 DEF GroupIsCurrent
<1> QED BY <1>4, <1>5 DEF Library!Insert

\* The markers are removed; the group is then on its way out.
LEMMA GroupIsCleared ==
  ASSUME NEW g, Watched(g), NEW c \in Library!Calls, CallStep(c), Library!RemoveMarkers(c)
  PROVE  GroupIsCurrent(g)'
<1> USE DEF Watched
<1>1. /\ c \in Unsubscribes /\ call[c] = "remove" /\ call'[c] = "delete"
      /\ UNCHANGED <<subs, item, seen, pending, copied>>
      /\ markers' = [h \in Groups |-> IF h \in Library!Busy(c) THEN 0 ELSE markers[h]]
  BY DEF Library!RemoveMarkers, Library!library, Library!Goto, LibraryTypes
<1>2. CopyHas(g, c)' /\ NotAhead(g, c)' /\ Removes(g, c)'
  BY <1>1 DEF GroupIsCurrent, CopyHas, NotAhead, Removes, HasRead
<1>3. CASE g \notin Library!Busy(c)
  <2>1. markers'[g] = markers[g]
    BY <1>1, <1>3
  <2>2. Leaving(g) => Leaving(g)'
    BY <1>1, LeavingGoesOn
  <2> QED BY <1>1, <1>2, <2>1, <2>2, GroupStays
<1>4. CASE g \in Library!Busy(c)
  <2>1. Leaving(g)'
    BY <1>1, <1>4 DEF Leaving, Library!Busy
  <2>2. ASSUME NEW d \in Library!Calls, d # c
        PROVE  CopyHas(g, d)' /\ NotAhead(g, d)' /\ Removes(g, d)'
    <3>1. g \notin Library!Busy(d)
      BY <1>4, <2>2, Alone
    <3>2. \A t \in pending[d] \cup copied[d] : t.group # g
      BY <3>1 DEF Library!Busy
    <3> QED BY <1>1, <3>2 DEF CopyHas, NotAhead, Removes
  <2> QED BY <1>2, <2>1, <2>2 DEF GroupIsCurrent, SyncedHas
<1> QED BY <1>3, <1>4

\* The subscription is removed, and it was the only one of its group.
LEMMA GroupIsRemoved ==
  ASSUME NEW g, Watched(g), NEW c \in Library!Calls, CallStep(c), Library!DeleteSubscription(c)
  PROVE  GroupIsCurrent(g)'
<1> USE DEF Watched
<1>1. /\ c \in Unsubscribes /\ call[c] = "delete" /\ call'[c] = "count"
      /\ UNCHANGED <<markers, item, seen, pending, copied>>
      /\ subs' = {s \in subs : \A t \in pending[c] : s.id # t.id}
  BY DEF Library!DeleteSubscription, Library!library, Library!Goto, LibraryTypes
<1>2. copied[c] = {}
  BY <1>1 DEF RequestsHold
<1>3. SyncedHas(g)'
  <2> SUFFICES ASSUME NEW s \in subs', s.group = g, s.synced = item.version, ~Leaving(g)'
               PROVE  markers[g] >= item.base
    BY <1>1 DEF SyncedHas
  <2>1. CASE g \in Library!Busy(c)
    <3>1. PICK t \in pending[c] : t.group = g
      BY <1>2, <2>1 DEF Library!Busy
    <3>2. s.id = t.id
      BY <1>1, <3>1 DEF GroupIsCurrent, Removes
    <3> QED BY <1>1, <3>1, <3>2
  <2>2. CASE g \notin Library!Busy(c)
    <3>1. ~Leaving(g)
      BY <2>2, LeavingGoesOn
    <3> QED BY <1>1, <3>1 DEF GroupIsCurrent, SyncedHas
  <2> QED BY <2>1, <2>2
<1>4. ASSUME NEW d \in Library!Calls PROVE CopyHas(g, d)' /\ NotAhead(g, d)' /\ Removes(g, d)'
  <2>1. CopyHas(g, d) /\ NotAhead(g, d) /\ Removes(g, d)
    BY DEF GroupIsCurrent
  <2>2. d # c => call'[d] = call[d]
    BY <1>4, OthersStay
  <2> QED BY <1>1, <2>1, <2>2 DEF CopyHas, NotAhead, Removes, HasRead
<1> QED BY <1>3, <1>4 DEF GroupIsCurrent

\* The entry changes: nobody has its new version yet.
LEMMA GroupIsBehind ==
  ASSUME NEW g, Watched(g), Library!Upsert \/ Library!MergeSource
  PROVE  GroupIsCurrent(g)'
<1> USE DEF Watched
<1>1. UNCHANGED <<subs, markers, call, seen, pending, copied>>
  BY DEF Library!Upsert, Library!MergeSource, Library!Change, Library!tenant, Library!locals
<1>2. Leaving(g)' <=> Leaving(g)
  BY <1>1 DEF Leaving, Library!Busy
<1>3. \A d \in Library!Calls : NotAhead(g, d)' /\ Removes(g, d)'
  BY <1>1 DEF GroupIsCurrent, NotAhead, Removes, HasRead
<1>4. CASE Library!Upsert
  <2>1. item'.version = item.version + 1 /\ item.version \in Nat
    BY <1>4 DEF Library!Upsert, Library!Change, LibraryTypes, Library!Entry
  <2>2. \A s \in subs : s.synced =< item.version /\ s.synced \in Nat
    BY DEF EntryGrows, LibraryTypes, Records, Library!Subscription
  <2>3. \A d \in Library!Calls : seen[d].version =< item.version /\ seen[d].version \in Nat
    BY DEF EntryGrows, LibraryTypes, Library!Entry
  <2>4. SyncedHas(g)' /\ \A d \in Library!Calls : CopyHas(g, d)'
    BY <1>1, <2>1, <2>2, <2>3 DEF SyncedHas, CopyHas
  <2> QED BY <1>3, <2>4 DEF GroupIsCurrent
<1>5. CASE Library!MergeSource
  <2>1. item'.version = item.version /\ item'.base = item.base
    BY <1>5 DEF Library!MergeSource, Library!Change, LibraryTypes, Library!Entry
  <2>2. SyncedHas(g)' /\ \A d \in Library!Calls : CopyHas(g, d)'
    BY <1>1, <1>2, <2>1 DEF GroupIsCurrent, SyncedHas, CopyHas
  <2> QED BY <1>3, <2>2 DEF GroupIsCurrent
<1> QED BY <1>4, <1>5

LEMMA GroupStep ==
  ASSUME NEW g, Watched(g), [Library!Next]_libraryVars
  PROVE  GroupIsCurrent(g)'
<1>1. CASE UNCHANGED libraryVars
  BY <1>1 DEF libraryVars, Watched, GroupIsCurrent, SyncedHas, CopyHas, NotAhead, Removes,
     HasRead, Leaving, Library!Busy
<1>2. CASE Library!DeleteSubscriptions \/ Library!DeleteEntry
  <2>1. UNCHANGED <<markers, item, call, seen, pending, copied>> /\ subs' \subseteq subs
    BY <1>2 DEF Library!DeleteSubscriptions, Library!DeleteEntry, Library!tenant, Library!locals
  <2>2. Leaving(g)' <=> Leaving(g)
    BY <2>1 DEF Leaving, Library!Busy
  <2> QED BY <2>1, <2>2 DEF Watched, GroupIsCurrent, SyncedHas, CopyHas, NotAhead, Removes, HasRead
<1>3. ASSUME NEW c \in Library!Calls, Library!Dies(c) PROVE GroupIsCurrent(g)'
  BY <1>3, GroupAtRest DEF Watched
<1>4. ASSUME NEW c \in Library!Calls, CallStep(c) PROVE GroupIsCurrent(g)'
  <2>1. CASE \/ Library!ListSubscriptions(c) \/ Library!ReadEntries(c) \/ Library!ReadEntry(c)
             \/ Library!Counted(c) \/ Library!FindSubscription(c) \/ Library!Discounted(c)
    BY <1>4, <2>1, GroupAtRest DEF Watched
  <2> QED
    BY <1>4, <2>1, GroupIsCopied, GroupIsStamped, GroupIsInserted, GroupIsCleared, GroupIsRemoved
    DEF CallStep
<1> QED BY <1>1, <1>2, <1>3, <1>4, GroupIsBehind, LibrarySteps

\* There are as many subscriptions as requests that made one.
LEMMA SubscriptionsCounted ==
  ASSUME LibraryTypes
  PROVE  /\ IsFiniteSet(SubscribedBy) /\ SubscribedBy \subseteq Subscribes
         /\ Cardinality(subs) = Cardinality(SubscribedBy) /\ Cardinality(SubscribedBy) \in Nat
<1>1. SubscribedBy \subseteq Subscribes
  BY DEF LibraryTypes, SubscribedBy, Records, Library!Subscription
<1>2. IsFiniteSet(SubscribedBy) /\ Cardinality(SubscribedBy) \in Nat
  BY <1>1, CallsAre, FS_Subset, FS_CardinalityType
<1> DEFINE f == [s \in subs |-> s.id]
<1>3. \A s, t \in subs : s.id = t.id => s = t
  BY DEF LibraryTypes, Records
<1>4. f \in Bijection(subs, SubscribedBy)
  <2>1. f \in [subs -> SubscribedBy]
    BY DEF SubscribedBy
  <2>2. \A s, t \in subs : f[s] = f[t] => s = t
    BY <1>3
  <2>3. \A i \in SubscribedBy : \E s \in subs : f[s] = i
    BY DEF SubscribedBy
  <2> HIDE DEF f
  <2> QED BY <2>1, <2>2, <2>3 DEF Bijection, Injection, IsInjective, Surjection
<1>5. ExistsBijection(subs, SubscribedBy)
  BY <1>4 DEF ExistsBijection
<1>6. ExistsBijection(SubscribedBy, subs)
  BY <1>5, Fun_ExistsBijSymmetric
<1>7. Cardinality(subs) = Cardinality(SubscribedBy)
  BY <1>2, <1>6, FS_Bijection
<1> QED BY <1>1, <1>2, <1>7

LEMMA CountingIs ==
  /\ IsFiniteSet(Counting(Subscribes)) /\ Cardinality(Counting(Subscribes)) \in Nat
  /\ IsFiniteSet(Counting(Unsubscribes)) /\ Cardinality(Counting(Unsubscribes)) \in Nat
<1>1. Counting(Subscribes) \subseteq Subscribes /\ Counting(Unsubscribes) \subseteq Unsubscribes
  BY DEF Counting
<1> QED BY <1>1, CallsAre, FS_Subset, FS_CardinalityType

\* A step of a call that neither counts nor writes a subscription.
LEMMA CountStays ==
  ASSUME LibraryTypes, CountNow, NEW c \in Library!Calls, CallStep(c),
         UNCHANGED subscribers, SubscribedBy' = SubscribedBy,
         call'[c] = "count" <=> call[c] = "count",
         c \in Unsubscribes /\ call'[c] \in {"remove", "delete"} =>
           \A t \in pending'[c] : t.id \in SubscribedBy
  PROVE  CountNow'
<1>1. \A d \in Library!Calls \ {c} : call'[d] = call[d] /\ pending'[d] = pending[d]
  BY OthersStay
<1>2. Counting(Subscribes)' = Counting(Subscribes) /\ Counting(Unsubscribes)' = Counting(Unsubscribes)
  BY <1>1, CallsAre DEF Counting
<1>3. \A d \in Unsubscribes : \A t \in pending'[d] :
        call'[d] \in {"remove", "delete"} => t.id \in SubscribedBy
  BY <1>1, CallsAre DEF CountNow
<1> QED BY <1>2, <1>3 DEF CountNow

LEMMA CountStep ==
  ASSUME LibraryTypes, LibraryTypes', RequestsHold, CountIsKept,
         Library!Contended \subseteq disputed, disputed \subseteq disputed', [Library!Next]_libraryVars
  PROVE  CountIsKept'
<1> SUFFICES ASSUME deleted' = "no", disputed' = {}, deaths' = 0 PROVE CountNow'
  BY DEF CountIsKept
<1> USE DEF Library!tenant, Library!library, Library!locals
<1>d. disputed = {}
  OBVIOUS
<1>1. CASE UNCHANGED libraryVars \/ Library!Upsert \/ Library!MergeSource
  <2>1. UNCHANGED <<subscribers, deleted, subs, call, pending, deaths>>
    BY <1>1 DEF libraryVars, Library!Upsert, Library!MergeSource, Library!Change
  <2>2. CountNow
    BY <1>d, <2>1 DEF CountIsKept
  <2> QED BY <2>1, <2>2 DEF CountNow, Counting, SubscribedBy
<1>2. CASE Library!DeleteSubscriptions \/ Library!DeleteEntry
  BY <1>2 DEF Library!DeleteSubscriptions, Library!DeleteEntry
<1>3. ASSUME NEW c \in Library!Calls, Library!Dies(c) PROVE CountNow'
  BY <1>3 DEF Library!Dies, LibraryTypes
<1>4. ASSUME NEW c \in Library!Calls, CallStep(c) PROVE CountNow'
  <2>0. deleted = "no" /\ deaths = 0
    BY <1>4, CopyIs, StampStepIs, StaleReadIs DEF CallStep, Library!ListSubscriptions,
       Library!ReadEntry, Library!Insert, Library!Counted, Library!FindSubscription,
       Library!RemoveMarkers, Library!DeleteSubscription, Library!Discounted
  <2>n. CountNow
    BY <1>d, <2>0 DEF CountIsKept
  <2>1. CASE Library!CopyMarkers(c)
    <3>1. UNCHANGED <<subs, subscribers>> /\ call[c] = "markers" /\ call'[c] = "stamp"
      BY <1>4, <2>1, CopyIs
    <3> QED BY <1>4, <2>n, <3>1, CountStays DEF SubscribedBy
  <2>2. CASE Library!StampVersion(c)
    <3>1. /\ UNCHANGED subscribers /\ call[c] = "stamp" /\ call'[c] \in {"idle", "done", "markers"}
          /\ \E s \in copied[c] : Library!Stamp(s, seen[c].version)
      BY <1>4, <2>2, StampStepIs, EndsIs
    <3>2. PICK s \in copied[c] : Library!Stamp(s, seen[c].version)
      BY <3>1
    <3>3. s \in Records /\ seen[c].version \in Nat
      BY DEF LibraryTypes, Library!Entry
    <3>4. SubscribedBy' = SubscribedBy
      BY <3>2, <3>3, StampIs DEF SubscribedBy
    <3> QED BY <1>4, <2>n, <3>1, <3>4, CountStays
  <2>3. CASE Library!ReadEntries(c)
    <3>1. UNCHANGED <<subs, subscribers>> /\ call[c] = "entries" /\ call'[c] \in {"idle", "done", "markers"}
      BY <1>4, <2>3, StaleReadIs, EndsIs
    <3> QED BY <1>4, <2>n, <3>1, CountStays DEF SubscribedBy
  <2>4. CASE Library!ListSubscriptions(c) \/ Library!ReadEntry(c)
    <3>1. /\ UNCHANGED <<subs, subscribers>> /\ call[c] = "idle" /\ call'[c] \in {"entries", "insert"}
      BY <1>4, <2>4 DEF Library!ListSubscriptions, Library!ReadEntry, Library!Goto, LibraryTypes
    <3> QED BY <1>4, <2>n, <3>1, CountStays DEF SubscribedBy
  <2>5. CASE Library!FindSubscription(c)
    <3>1. /\ UNCHANGED <<subs, subscribers>> /\ call[c] = "idle" /\ call'[c] = "remove"
          /\ \E t \in subs : pending'[c] = {t}
      BY <1>4, <2>5 DEF Library!FindSubscription, Library!Goto, LibraryTypes
    <3> QED BY <1>4, <2>n, <3>1, CountStays DEF SubscribedBy
  <2>6. CASE Library!RemoveMarkers(c)
    <3>1. /\ UNCHANGED <<subs, subscribers, pending>> /\ c \in Unsubscribes
          /\ call[c] = "remove" /\ call'[c] = "delete"
      BY <1>4, <2>6 DEF Library!RemoveMarkers, Library!Goto, LibraryTypes
    <3>2. \A t \in pending'[c] : t.id \in SubscribedBy
      BY <2>n, <3>1 DEF CountNow
    <3>3. SubscribedBy' = SubscribedBy
      BY <3>1 DEF SubscribedBy
    <3> QED BY <1>4, <2>n, <3>1, <3>2, <3>3, CountStays
  \* The others hold what they held.
  <2>o. \A d \in Library!Calls \ {c} :
          call'[d] = call[d] /\ pending'[d] = pending[d] /\ Library!Busy(d)' = Library!Busy(d)
    BY <1>4, OthersStay
  <2>c. /\ subscribers \in Int /\ Cardinality(Counting(Subscribes)) \in Nat
        /\ Cardinality(Counting(Unsubscribes)) \in Nat /\ Cardinality(SubscribedBy) \in Nat
        /\ IsFiniteSet(Counting(Subscribes)) /\ IsFiniteSet(Counting(Unsubscribes))
        /\ IsFiniteSet(SubscribedBy)
    BY CountingIs, SubscriptionsCounted DEF LibraryTypes
  <2>7. CASE Library!Insert(c)
    <3>1. c \in Subscribes /\ call[c] = "insert" /\ UNCHANGED subscribers
      BY <2>7 DEF Library!Insert
    <3>2. CASE Library!Ends(c) /\ UNCHANGED subs
      <4>1. call'[c] \in {"idle", "done"}
        BY <1>4, <3>2, EndsIs
      <4> QED BY <1>4, <2>n, <3>1, <3>2, <4>1, CountStays DEF SubscribedBy
    <3>3. CASE /\ Library!Busy(c) \cap {s.group : s \in subs} = {}
               /\ subs' = subs \cup pending[c] /\ Library!Goto(c, "count")
      <4>1. /\ pending[c] = {Library!New(c)} /\ Library!New(c).id = c
            /\ Library!New(c).group = GroupOf[c]
        BY <3>1, NewIs DEF RequestsHold
      <4>2. SubscribedBy' = SubscribedBy \cup {c}
        BY <3>3, <4>1 DEF SubscribedBy
      <4>3. c \notin SubscribedBy
        <5> SUFFICES ASSUME NEW s \in subs, s.id = c PROVE FALSE
          BY DEF SubscribedBy
        <5>1. s.group = GroupOf[c]
          BY DEF LibraryTypes, Records
        <5> QED BY <3>3, <4>1, <5>1 DEF Library!Busy
      <4>4. call'[c] = "count"
        BY <1>4, <3>3 DEF Library!Goto, LibraryTypes
      <4>5. Counting(Subscribes)' = Counting(Subscribes) \cup {c} /\ c \notin Counting(Subscribes)
            /\ Counting(Unsubscribes)' = Counting(Unsubscribes)
        BY <2>o, <3>1, <4>4, CallsAre DEF Counting
      <4>6. Cardinality(Counting(Subscribes)') = Cardinality(Counting(Subscribes)) + 1
            /\ Cardinality(SubscribedBy') = Cardinality(SubscribedBy) + 1
        BY <2>c, <4>2, <4>3, <4>5, FS_AddElement
      <4>7. \A d \in Unsubscribes : \A t \in pending'[d] :
              call'[d] \in {"remove", "delete"} => t.id \in SubscribedBy'
        BY <2>n, <2>o, <3>1, <4>2, CallsAre DEF CountNow
      <4>8. subscribers + Cardinality(Counting(Subscribes))
              = Cardinality(SubscribedBy) + Cardinality(Counting(Unsubscribes))
        BY <2>n DEF CountNow
      <4>9. subscribers' + Cardinality(Counting(Subscribes)')
              = Cardinality(SubscribedBy') + Cardinality(Counting(Unsubscribes)')
        BY <2>c, <3>1, <4>5, <4>6, <4>8
      <4> QED BY <4>7, <4>9 DEF CountNow
    <3> QED BY <2>7, <3>2, <3>3 DEF Library!Insert
  <2>8. CASE Library!Counted(c)
    <3>1. /\ c \in Subscribes /\ call[c] = "count" /\ call'[c] = "markers" /\ UNCHANGED subs
          /\ subscribers' = subscribers + 1
      BY <1>4, <2>0, <2>8 DEF Library!Counted, Library!CountBy, Library!Exists, Library!Goto, LibraryTypes
    <3>2. Counting(Subscribes)' = Counting(Subscribes) \ {c} /\ c \in Counting(Subscribes)
          /\ Counting(Unsubscribes)' = Counting(Unsubscribes)
      BY <2>o, <3>1, CallsAre DEF Counting
    <3>3. Cardinality(Counting(Subscribes)') = Cardinality(Counting(Subscribes)) - 1
      BY <2>c, <3>2, FS_RemoveElement
    <3>4. SubscribedBy' = SubscribedBy
      BY <3>1 DEF SubscribedBy
    <3>5. \A d \in Unsubscribes : \A t \in pending'[d] :
            call'[d] \in {"remove", "delete"} => t.id \in SubscribedBy'
      BY <2>n, <2>o, <3>1, <3>4, CallsAre DEF CountNow
    <3>6. subscribers + Cardinality(Counting(Subscribes))
            = Cardinality(SubscribedBy) + Cardinality(Counting(Unsubscribes))
      BY <2>n DEF CountNow
    <3>7. subscribers' + Cardinality(Counting(Subscribes)')
            = Cardinality(SubscribedBy') + Cardinality(Counting(Unsubscribes)')
      BY <2>c, <3>1, <3>2, <3>3, <3>4, <3>6
    <3> QED BY <3>5, <3>7 DEF CountNow
  <2>9. CASE Library!DeleteSubscription(c)
    <3>1. /\ c \in Unsubscribes /\ call[c] = "delete" /\ call'[c] = "count"
          /\ UNCHANGED <<subscribers, pending>>
          /\ subs' = {s \in subs : \A t \in pending[c] : s.id # t.id}
      BY <1>4, <2>9 DEF Library!DeleteSubscription, Library!Goto, LibraryTypes
    <3>2. PICK t \in pending[c] : pending[c] = {t}
      BY <3>1 DEF RequestsHold
    <3>3. SubscribedBy' = SubscribedBy \ {t.id} /\ t.id \in SubscribedBy
      BY <2>n, <3>1, <3>2 DEF CountNow, SubscribedBy
    <3>4. Counting(Unsubscribes)' = Counting(Unsubscribes) \cup {c} /\ c \notin Counting(Unsubscribes)
          /\ Counting(Subscribes)' = Counting(Subscribes)
      BY <2>o, <3>1, CallsAre DEF Counting
    <3>5. Cardinality(Counting(Unsubscribes)') = Cardinality(Counting(Unsubscribes)) + 1
          /\ Cardinality(SubscribedBy') = Cardinality(SubscribedBy) - 1
      <4>1. Cardinality(Counting(Unsubscribes)') = Cardinality(Counting(Unsubscribes)) + 1
        BY <2>c, <3>4, FS_AddElement
      <4>2. Cardinality(SubscribedBy') = Cardinality(SubscribedBy) - 1
        BY <2>c, <3>3, FS_RemoveElement
      <4> QED BY <4>1, <4>2
    <3>6. \A d \in Unsubscribes : \A u \in pending'[d] :
            call'[d] \in {"remove", "delete"} => u.id \in SubscribedBy'
      <4> SUFFICES ASSUME NEW d \in Unsubscribes, NEW u \in pending[d],
                          call'[d] \in {"remove", "delete"}
                   PROVE  u.id \in SubscribedBy \ {t.id}
        BY <3>1, <3>3
      <4>1. d # c /\ c \in Library!Calls /\ d \in Library!Calls
        BY <3>1, CallsAre
      <4>2. u.id \in SubscribedBy
        BY <2>n, <2>o, <4>1 DEF CountNow
      <4>3. ASSUME u.id = t.id PROVE FALSE
        <5>1. u \in Records /\ t \in Records
          BY <4>1 DEF LibraryTypes
        <5>2. u.group = t.group /\ t.group \in Groups
          BY <4>3, <5>1 DEF Records, Library!Subscription
        <5>3. t.group \in Library!Busy(c) /\ t.group \in Library!Busy(d)
          BY <5>2, BusyIs
        <5> QED BY <1>d, <4>1, <5>2, <5>3, Alone
      <4> QED BY <4>2, <4>3
    <3>7. subscribers + Cardinality(Counting(Subscribes))
            = Cardinality(SubscribedBy) + Cardinality(Counting(Unsubscribes))
      BY <2>n DEF CountNow
    <3>8. subscribers' + Cardinality(Counting(Subscribes)')
            = Cardinality(SubscribedBy') + Cardinality(Counting(Unsubscribes)')
      BY <2>c, <3>1, <3>4, <3>5, <3>7
    <3> QED BY <3>6, <3>8 DEF CountNow
  <2>10. CASE Library!Discounted(c)
    <3>1. /\ c \in Unsubscribes /\ call[c] = "count" /\ call'[c] \in {"idle", "done"}
          /\ UNCHANGED subs /\ subscribers' = subscribers - 1
      <4>1. subscribers' = subscribers + (-1)
        BY <2>0, <2>10 DEF Library!Discounted, Library!CountBy, Library!Exists
      <4>2. subscribers' = subscribers - 1
        BY <2>c, <4>1
      <4> QED BY <1>4, <2>10, <4>2, EndsIs DEF Library!Discounted
    <3>2. Counting(Unsubscribes)' = Counting(Unsubscribes) \ {c} /\ c \in Counting(Unsubscribes)
          /\ Counting(Subscribes)' = Counting(Subscribes)
      BY <2>o, <3>1, CallsAre DEF Counting
    <3>3. Cardinality(Counting(Unsubscribes)') = Cardinality(Counting(Unsubscribes)) - 1
      BY <2>c, <3>2, FS_RemoveElement
    <3>4. SubscribedBy' = SubscribedBy
      BY <3>1 DEF SubscribedBy
    <3>5. \A d \in Unsubscribes : \A t \in pending'[d] :
            call'[d] \in {"remove", "delete"} => t.id \in SubscribedBy'
      BY <2>n, <2>o, <3>1, <3>4, CallsAre DEF CountNow
    <3>6. subscribers + Cardinality(Counting(Subscribes))
            = Cardinality(SubscribedBy) + Cardinality(Counting(Unsubscribes))
      BY <2>n DEF CountNow
    <3>7. subscribers' + Cardinality(Counting(Subscribes)')
            = Cardinality(SubscribedBy') + Cardinality(Counting(Unsubscribes)')
      <4>1. subscribers' = subscribers - 1
        BY <3>1
      <4>2. Cardinality(Counting(Subscribes)') = Cardinality(Counting(Subscribes))
        BY <3>2
      <4>3. Cardinality(SubscribedBy') = Cardinality(SubscribedBy)
        BY <3>4
      <4> QED BY <2>c, <3>3, <3>6, <4>1, <4>2, <4>3
    <3> QED BY <3>5, <3>7 DEF CountNow
  <2> QED
    BY <1>4, <2>1, <2>2, <2>3, <2>4, <2>5, <2>6, <2>7, <2>8, <2>9, <2>10 DEF CallStep
<1> QED BY <1>1, <1>2, <1>3, <1>4, LibrarySteps

LEMMA LibraryStep ==
  ASSUME LibraryInv, [Library!Next]_libraryVars
  PROVE  LibraryInv'
<1>1. LibraryTypes' /\ RequestsHold' /\ EntryGrows'
  BY LibraryTypeStep, RequestsHoldStep, EntryGrowsStep DEF LibraryInv
<1>2. Library!Contended' \subseteq disputed' /\ disputed \subseteq disputed'
  BY ContentionStep DEF LibraryInv
<1>3. \A g \in Groups \ disputed' : GroupIsCurrent(g)'
  BY <1>1, <1>2, GroupStep DEF LibraryInv, Watched
<1>4. CountIsKept'
  BY <1>1, <1>2, CountStep DEF LibraryInv
<1> QED BY <1>1, <1>2, <1>3, <1>4 DEF LibraryInv

LEMMA LibraryStarts == Library!Init => LibraryInv
<1> SUFFICES ASSUME Library!Init PROVE LibraryInv
  OBVIOUS
<1> USE DEF Library!Init
<1>1. LibraryTypes
  BY FirstIsEntry DEF LibraryTypes, CallSteps
<1>2. RequestsHold
  BY CallsAre DEF RequestsHold
<1>3. EntryGrows
  BY FirstIsEntry DEF EntryGrows
<1>4. Library!Contended \subseteq disputed
  BY DEF Library!Contended, Library!Busy
<1>5. \A g \in Groups : GroupIsCurrent(g)
  BY DEF GroupIsCurrent, SyncedHas, CopyHas, NotAhead, Removes
<1>6. CountNow
  <2>1. Counting(Subscribes) = {} /\ Counting(Unsubscribes) = {} /\ SubscribedBy = {}
    BY CallsAre DEF Counting, SubscribedBy
  <2>2. subscribers = 0 /\ \A c \in Unsubscribes : pending[c] = {}
    BY CallsAre
  <2> QED BY <2>1, <2>2, FS_EmptySet DEF CountNow
<1> QED BY <1>1, <1>2, <1>3, <1>4, <1>5, <1>6 DEF LibraryInv, CountIsKept

LEMMA LibraryHolds == JobsSpec => []LibraryInv
<1>1. JobsInit => LibraryInv
  BY LibraryStarts DEF JobsInit
<1>2. LibraryInv /\ [JobsNext]_<<part, allVars>> => LibraryInv'
  BY PartSteps, LibraryStep
<1> QED BY <1>1, <1>2, PTL DEF JobsSpec

\* The subscriber count of an entry of the library is the number of its
\* subscriptions, up to the calls between the two writes (service.py).
THEOREM CountIsExactHolds == JobsSpec => []CountIsExact
<1>1. LibraryInv => CountIsExact
  <2> SUFFICES ASSUME LibraryInv, deleted = "no", disputed = {}, deaths = 0
               PROVE  subscribers + Cardinality(Counting(Subscribes))
                        = Cardinality(subs) + Cardinality(Counting(Unsubscribes))
    BY SameCallSets DEF CountIsExact, Library!CountIsExact, Counting
  <2> QED BY SubscriptionsCounted DEF LibraryInv, CountIsKept, CountNow
<1> QED BY <1>1, LibraryHolds, PTL

\* A subscription with the version of its entry has at least the markers the
\* entry got that version with (service.py: _sync_markers_to_group).
THEOREM SyncedIsCurrentHolds == JobsSpec => []SyncedIsCurrent
<1>1. LibraryInv => SyncedIsCurrent
  <2> SUFFICES ASSUME LibraryInv, NEW s \in subs, s.synced = item.version, s.group \notin disputed,
                      s.group \notin UNION {Library!Busy(c) : c \in Library!Calls}
               PROVE  markers[s.group] >= item.base
    BY DEF SyncedIsCurrent, Library!SyncedIsCurrent
  <2>1. s.group \in Groups
    BY DEF LibraryInv, LibraryTypes, Records, Library!Subscription
  <2>2. ~Leaving(s.group)
    BY CallsAre DEF Leaving
  <2> QED BY <2>1, <2>2 DEF LibraryInv, GroupIsCurrent, SyncedHas
<1> QED BY <1>1, LibraryHolds, PTL
=============================================================================
