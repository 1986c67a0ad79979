------------------------------ MODULE Webhooks ------------------------------
(***************************************************************************)
(* domains/webhooks/service.py: the deliveries to one endpoint, their      *)
(* consecutive failures, and the auto-disable, beside its administrator.   *)
(*                                                                         *)
(* A delivery is a task of the event loop of some worker; the increment of *)
(* the counter, the reading of it and the disabling are separate database  *)
(* operations, between which other deliveries run.                         *)
(***************************************************************************)
EXTENDS Integers, FiniteSets

CONSTANTS
  Deliveries,     \* tasks that may be in flight at a time
  MaxFailures,    \* _MAX_FAILURES
  MaxDispatches   \* events in a behaviour

WebhookAssumption ==
  IsFiniteSet(Deliveries) /\ MaxFailures \in Nat \ {0} /\ MaxDispatches \in Nat

VARIABLES
  hook,        \* the document: there, enabled, failure_count
  task,        \* what each delivery does next, and the count it has read
  admin,       \* the failure_count an update request has read
  dispatched,  \* events so far
  streak       \* history: failures counted since the last success or enabling

webhookVars == <<hook, task, admin, dispatched, streak>>

Free == [pc |-> "free", read |-> 0]
NotAsking == -1
Counts == 0 .. MaxDispatches

WebhookTypeOK ==
  /\ hook \in [there : BOOLEAN, enabled : BOOLEAN, count : Counts]
  /\ task \in [Deliveries -> [pc : {"free", "post", "reset", "count", "read", "decide"},
                              read : 0 .. MaxDispatches + 1]]
  /\ admin \in Counts \cup {NotAsking}
  /\ dispatched \in Counts /\ streak \in Counts

WebhookInit ==
  /\ hook = [there |-> TRUE, enabled |-> TRUE, count |-> 0]
  /\ task = [d \in Deliveries |-> Free]
  /\ admin = NotAsking
  /\ dispatched = 0 /\ streak = 0

To(d, step) == task' = [task EXCEPT ![d].pc = step]
Done(d) == task' = [task EXCEPT ![d] = Free]

\* An update of a deleted document does nothing.
Write(new) == hook' = IF hook.there THEN new ELSE hook

-----------------------------------------------------------------------------
\* dispatch_event takes the webhooks that are enabled now.
Dispatch(d) ==
  /\ task[d].pc = "free" /\ hook.there /\ hook.enabled
  /\ dispatched < MaxDispatches /\ dispatched' = dispatched + 1
  /\ To(d, "post")
  /\ UNCHANGED <<hook, admin, streak>>

\* The endpoint takes the event; or the address is refused, the endpoint does
\* not answer, or answers with an error.
Post(d) ==
  /\ task[d].pc = "post"
  /\ \E next \in {"reset", "count"} : To(d, next)
  /\ UNCHANGED <<hook, admin, dispatched, streak>>

\* A success resets the counter; a reset that raises counts as a failure.
Reset(d) ==
  /\ task[d].pc = "reset"
  /\ \/ Write([hook EXCEPT !.count = 0]) /\ streak' = 0 /\ Done(d)
     \/ To(d, "count") /\ UNCHANGED <<hook, streak>>
  /\ UNCHANGED <<admin, dispatched>>

\* $inc.
CountFailure(d) ==
  /\ task[d].pc = "count"
  /\ Write([hook EXCEPT !.count = @ + 1])
  /\ streak' = streak + 1
  /\ To(d, "read")
  /\ UNCHANGED <<admin, dispatched>>

ReadCount(d) ==
  /\ task[d].pc = "read"
  /\ task' = [task EXCEPT ![d] = [pc |-> "decide", read |-> hook.count]]
  /\ UNCHANGED <<hook, admin, dispatched, streak>>

\* Mutant: only the delivery that reaches the limit disables.
TooManyExactly(d) == task[d].read = MaxFailures

TooMany(d) == task[d].read >= MaxFailures

Decide(d) ==
  /\ task[d].pc = "decide"
  /\ IF TooMany(d) THEN Write([hook EXCEPT !.enabled = FALSE]) ELSE UNCHANGED hook
  /\ Done(d)
  /\ UNCHANGED <<admin, dispatched, streak>>

\* The process dies, or one of the operations raises.
Abandon(d) ==
  /\ task[d].pc # "free"
  /\ Done(d)
  /\ streak' = IF task[d].pc \in {"read", "decide"} THEN 0 ELSE streak
  /\ UNCHANGED <<hook, admin, dispatched>>

-----------------------------------------------------------------------------
\* update_webhook reads the document first.
AskUpdate ==
  /\ hook.there /\ admin = NotAsking
  /\ admin' = hook.count
  /\ UNCHANGED <<hook, task, dispatched, streak>>

\* Enabling clears a counter that was not 0 when it was read.
Update ==
  /\ admin # NotAsking
  /\ admin' = NotAsking
  /\ \/ /\ Write([hook EXCEPT !.enabled = TRUE, !.count = IF admin > 0 THEN 0 ELSE @])
        /\ streak' = 0
     \/ Write([hook EXCEPT !.enabled = FALSE]) /\ UNCHANGED streak
  /\ UNCHANGED <<task, dispatched>>

Delete ==
  /\ hook.there
  /\ hook' = [hook EXCEPT !.there = FALSE]
  /\ UNCHANGED <<task, admin, dispatched, streak>>

WebhookNext ==
  \/ AskUpdate \/ Update \/ Delete
  \/ \E d \in Deliveries : \/ Dispatch(d) \/ Post(d) \/ Reset(d) \/ CountFailure(d)
                           \/ ReadCount(d) \/ Decide(d) \/ Abandon(d)

WebhookSpec == WebhookInit /\ [][WebhookNext]_webhookVars

-----------------------------------------------------------------------------
Settling == \E d \in Deliveries : task[d].pc \in {"read", "decide"}

\* An endpoint that has failed _MAX_FAILURES times in a row is disabled once
\* its deliveries have looked at the counter, however their increments, their
\* readings, the reset of a success and an administrator's update interleave.
\* When a task dies before it has looked, the streak is counted anew: it is
\* not known then that the failures after it suffice.
DeadEndpointIsDisabled ==
  hook.there /\ hook.enabled /\ streak >= MaxFailures => Settling
=============================================================================
