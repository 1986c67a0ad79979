------------------------------ MODULE TagRules ------------------------------
(***************************************************************************)
(* domains/tags/service.py: the application of a tag rule to the agents it *)
(* matches, in SentinelOne and in the local copy, beside the syncs of tags *)
(* and of agents that write the same copies, and the starts of workers.    *)
(*                                                                         *)
(* One rule and its tag.  A rule that is deleted and created again has a   *)
(* new document, so an application that is under way does not hold it up.  *)
(***************************************************************************)
EXTENDS Integers, FiniteSets

CONSTANTS
  Managed,    \* agents of SentinelOne
  Foreign,    \* agents of CrowdStrike, which a rule matches as well
  Appliers,   \* tasks of _run_apply
  BatchSize,  \* agents in one call of tag_agents
  MaxFaults,  \* calls that raise, starts of workers, deletions of the rule
  NoFetch     \* a sync has fetched nothing

TagAgents == Managed \cup Foreign

TagAssumption ==
  /\ IsFiniteSet(TagAgents) /\ Managed \cap Foreign = {} /\ IsFiniteSet(Appliers)
  /\ BatchSize \in Nat \ {0} /\ MaxFaults \in Nat

VARIABLES
  status,    \* apply_status of the rule
  apply,     \* what each task does next, the agents it matched, those to tag
  tags,      \* tags of the rule's name in SentinelOne
  known,     \* whether source_tags has one
  tagged,    \* agents that have the tag in SentinelOne
  local,     \* agents whose local document has it
  tagsPage,  \* what a tags sync has fetched and not yet written
  page,      \* the same of an agents sync
  faults

tagVars == <<status, apply, tags, known, tagged, local, tagsPage, page, faults>>

Resting == [pc |-> "rest", match |-> {}, todo |-> {}]

TagTypeOK ==
  /\ status \in {"idle", "running", "done", "failed"}
  /\ apply \in [Appliers -> [pc : {"rest", "match", "find", "create", "store", "tag", "local",
                                   "done", "fail"},
                             match : SUBSET TagAgents, todo : SUBSET TagAgents]]
  /\ tags \in Nat /\ known \in BOOLEAN
  /\ tagged \subseteq Managed /\ local \subseteq TagAgents
  /\ tagsPage \in BOOLEAN \cup {NoFetch}
  /\ page \in {NoFetch} \cup SUBSET Managed
  /\ faults \in 0 .. MaxFaults

TagInit ==
  /\ status = "idle" /\ apply = [t \in Appliers |-> Resting]
  /\ tags = 0 /\ known = FALSE /\ tagged = {} /\ local = {}
  /\ tagsPage = NoFetch /\ page = NoFetch /\ faults = 0

TagFault == faults < MaxFaults /\ faults' = faults + 1

Turn(t, step) == apply' = [apply EXCEPT ![t].pc = step]

\* Any call of an application may raise, also one that has taken effect.
Or(t, step) ==
  \/ Turn(t, step) /\ UNCHANGED faults
  \/ Turn(t, "fail") /\ TagFault

-----------------------------------------------------------------------------
\* apply_rule: refused while the rule is running.
Apply(t) ==
  /\ apply[t].pc = "rest" /\ status # "running"
  /\ status' = "running"
  /\ Turn(t, "match")
  /\ UNCHANGED <<tags, known, tagged, local, tagsPage, page, faults>>

\* The agents that match now; which ones do is left open.
FindMatching(t) ==
  /\ apply[t].pc = "match"
  /\ \/ /\ \E m \in SUBSET TagAgents :
             apply' = [apply EXCEPT ![t] = [pc |-> IF m = {} THEN "done" ELSE "find",
                                            match |-> m, todo |-> m]]
        /\ UNCHANGED faults
     \/ Turn(t, "fail") /\ TagFault
  /\ UNCHANGED <<status, tags, known, tagged, local, tagsPage, page>>

FindTag(t) ==
  /\ apply[t].pc = "find"
  /\ Or(t, IF known THEN "tag" ELSE "create")
  /\ UNCHANGED <<status, tags, known, tagged, local, tagsPage, page>>

CreateTag(t) ==
  /\ apply[t].pc = "create"
  /\ \/ tags' = tags + 1 /\ Or(t, "store")
     \/ UNCHANGED tags /\ Turn(t, "fail") /\ TagFault
  /\ UNCHANGED <<status, known, tagged, local, tagsPage, page>>

StoreTag(t) ==
  /\ apply[t].pc = "store"
  /\ \/ known' = TRUE /\ Or(t, "tag")
     \/ UNCHANGED known /\ Turn(t, "fail") /\ TagFault
  /\ UNCHANGED <<status, tags, tagged, local, tagsPage, page>>

-----------------------------------------------------------------------------
Batches(todo) == 
  IF Cardinality(todo) <= BatchSize THEN {todo} ELSE {b \in SUBSET todo : Cardinality(b) = BatchSize}

NextStep(rest) == IF rest = {} THEN "local" ELSE "tag"

\* Mutant: an error of a batch does not end the application.
TagBatchGoesOn(t) ==
  /\ apply[t].pc = "tag"
  /\ \E b \in Batches(apply[t].todo) :
       /\ apply' = [apply EXCEPT ![t].todo = @ \ b, ![t].pc = NextStep(apply[t].todo \ b)]
       /\ \/ tagged' = tagged \cup (b \cap Managed) /\ UNCHANGED faults
          \/ UNCHANGED tagged /\ TagFault
  /\ UNCHANGED <<status, tags, known, local, tagsPage, page>>

\* tag_agents; SentinelOne knows its own agents.
TagBatch(t) ==
  /\ apply[t].pc = "tag"
  /\ \E b \in Batches(apply[t].todo) :
       \/ /\ tagged' = tagged \cup (b \cap Managed)
          /\ apply' = [apply EXCEPT ![t].todo = @ \ b, ![t].pc = NextStep(apply[t].todo \ b)]
          /\ UNCHANGED faults
       \/ tagged' \in {tagged, tagged \cup (b \cap Managed)} /\ Turn(t, "fail") /\ TagFault
  /\ UNCHANGED <<status, tags, known, local, tagsPage, page>>

\* update_many of the local documents.
TagLocally(t) ==
  /\ apply[t].pc = "local"
  /\ \/ local' = local \cup apply[t].match /\ Or(t, "done")
     \/ UNCHANGED local /\ Turn(t, "fail") /\ TagFault
  /\ UNCHANGED <<status, tags, known, tagged, tagsPage, page>>

\* set_apply_status; when that raises after a failure the rule stays running.
Finish(t) ==
  /\ apply[t].pc \in {"done", "fail"}
  /\ \/ /\ status' = IF apply[t].pc = "done" THEN "done" ELSE "failed"
        /\ apply' = [apply EXCEPT ![t] = Resting] /\ UNCHANGED faults
     \/ /\ TagFault /\ UNCHANGED status
        /\ apply' = [apply EXCEPT ![t] = IF @.pc = "done" THEN [@ EXCEPT !.pc = "fail"] ELSE Resting]
  /\ UNCHANGED <<tags, known, tagged, local, tagsPage, page>>

-----------------------------------------------------------------------------
\* The tags and the agents phase fetch, and write what they fetched later.
FetchTags ==
  /\ tagsPage = NoFetch /\ tagsPage' = (tags > 0)
  /\ UNCHANGED <<status, apply, tags, known, tagged, local, page, faults>>

\* The tags that were not among those fetched are deleted, if any were fetched.
WriteTags ==
  /\ tagsPage # NoFetch /\ tagsPage' = NoFetch
  /\ known' \in IF tagsPage THEN {TRUE} ELSE {FALSE, known}
  /\ UNCHANGED <<status, apply, tags, tagged, local, page, faults>>

FetchAgents ==
  /\ page = NoFetch /\ page' = tagged
  /\ UNCHANGED <<status, apply, tags, known, tagged, local, tagsPage, faults>>

WriteAgents ==
  /\ page # NoFetch
  /\ local' = page \cup (local \cap Foreign) /\ page' = NoFetch
  /\ UNCHANGED <<status, apply, tags, known, tagged, tagsPage, faults>>

\* A worker dies with some applications, and one starts: the lifespan fails
\* every rule that is running, whoever applies it.
StartWorker ==
  /\ TagFault
  /\ \E died \in SUBSET Appliers :
       apply' = [t \in Appliers |-> IF t \in died THEN Resting ELSE apply[t]]
  /\ status' = IF status = "running" THEN "failed" ELSE status
  /\ UNCHANGED <<tags, known, tagged, local, tagsPage, page>>

\* delete_rule, and create_rule with the same tag.
Recreate ==
  /\ TagFault
  /\ status' = "idle"
  /\ UNCHANGED <<apply, tags, known, tagged, local, tagsPage, page>>

TagNext ==
  \/ FetchTags \/ WriteTags \/ FetchAgents \/ WriteAgents \/ StartWorker \/ Recreate
  \/ \E t \in Appliers : \/ Apply(t) \/ FindMatching(t) \/ FindTag(t) \/ CreateTag(t)
                         \/ StoreTag(t) \/ TagBatch(t) \/ TagLocally(t) \/ Finish(t)

TagSpec == TagInit /\ [][TagNext]_tagVars

-----------------------------------------------------------------------------
\* A local document of SentinelOne never shows a tag that the agent has not got
\* there: whatever call of an application fails, however many applications run
\* since a worker was started, and whatever the syncs fetched before.
LocalTagsBacked == local \cap Managed \subseteq tagged
=============================================================================
