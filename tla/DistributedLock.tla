-------------------------- MODULE DistributedLock --------------------------
(***************************************************************************)
(* utils/distributed_lock.py: one named lock kept as one document of the   *)
(* distributed_locks collection, taken by the DistributedLock objects      *)
(* (handles) of several worker processes.                                  *)
(*                                                                         *)
(* Only differences between clock readings matter, so time is kept as the  *)
(* seconds left before the document's expires_at and as the age of each    *)
(* handle's current activity (since its utc_now() or since it went to      *)
(* sleep); Tick lets one second pass for all of them.  Workers share one   *)
(* clock.                                                                  *)
(***************************************************************************)
EXTENDS Integers, FiniteSets

CONSTANTS
  Handles,          \* DistributedLock objects; each acquires at most once
  Workers,          \* worker processes
  WorkerOf,         \* the process a handle lives in
  TTL,              \* ttl_seconds
  MaxLate,          \* a due step or a pending write is at most this late
  Environments      \* the sets of faults to consider

NoLock == "no document"

FaultKinds == {"heartbeat_error",  \* the driver raises in a heartbeat's update
               "startup_purge"}    \* a starting worker deletes this lock

\* Mutant: a heartbeat only when the document is due to expire.
LateInterval == TTL

\* max(1, ttl_seconds // 2), the sleep between two heartbeats.
Interval == IF TTL \div 2 > 1 THEN TTL \div 2 ELSE 1

ASSUME ConstantsAssumption ==
  /\ IsFiniteSet(Handles)
  /\ NoLock \notin Handles
  /\ WorkerOf \in [Handles -> Workers]
  /\ TTL \in Nat \ {0}
  /\ MaxLate \in Nat
  /\ Environments \subseteq SUBSET FaultKinds

VARIABLES
  owner,     \* owner_id of the lock document, or NoLock
  left,      \* expires_at minus the current time; 0 without a document
  pc,        \* where the caller of each handle is
  acquired,  \* handles whose _acquired is set
  lost,      \* handles whose event `lost` is set
  beat,      \* the heartbeat task
  age,       \* seconds since the handle's current activity began
  up,        \* which processes run
  faults     \* what may go wrong in this behaviour

vars == <<owner, left, pc, acquired, lost, beat, age, up, faults>>

\* The caller: not yet, before insert_one, before update_one, in its block,
\* in release(), done with the handle, refused, or dead with its process.
PCs == {"idle", "insert", "steal", "block", "release", "done", "refused", "dead"}

\* The heartbeat task: none, sleeping, or before its update_one.
Beats == {"none", "asleep", "update"}

\* expires_at is not followed further into the past than any clock reading
\* still in use can tell apart.
Floor == -(MaxLate + 1)

TypeOK ==
  /\ owner \in Handles \cup {NoLock}
  /\ left \in Int /\ left =< TTL
  /\ pc \in [Handles -> PCs]
  /\ acquired \subseteq Handles
  /\ lost \subseteq Handles
  /\ beat \in [Handles -> Beats]
  /\ age \in [Handles -> Nat]
  /\ up \subseteq Workers
  /\ faults \subseteq FaultKinds

\* Some workers may still be starting while others already serve.
Init ==
  /\ owner = NoLock
  /\ left = 0
  /\ pc = [h \in Handles |-> "idle"]
  /\ acquired = {}
  /\ lost = {}
  /\ beat = [h \in Handles |-> "none"]
  /\ age = [h \in Handles |-> 0]
  /\ up \in SUBSET Workers
  /\ faults \in Environments

-----------------------------------------------------------------------------
(* acquire() *)

\* now = utc_now(), before the insert.
BeginAcquire(h) ==
  /\ pc[h] = "idle" /\ WorkerOf[h] \in up
  /\ pc' = [pc EXCEPT ![h] = "insert"]
  /\ age' = [age EXCEPT ![h] = 0]
  /\ UNCHANGED <<owner, left, acquired, lost, beat, up, faults>>

\* What a successful acquire leaves behind: the document is h's until
\* now + ttl, h is in its block and its heartbeat task sleeps (__aenter__ and
\* the phase runners start it in the same step of the event loop).
Take(h) ==
  /\ owner' = h
  /\ left' = TTL - age[h]
  /\ pc' = [pc EXCEPT ![h] = "block"]
  /\ acquired' = acquired \cup {h}
  /\ beat' = [beat EXCEPT ![h] = "asleep"]
  /\ age' = [age EXCEPT ![h] = 0]
  /\ UNCHANGED <<lost, up, faults>>

Insert(h) ==
  /\ pc[h] = "insert" /\ owner = NoLock
  /\ Take(h)

\* insert_one took effect, but its caller gets an exception that is not
\* DuplicateKeyError: the document stays, without a holder or a heartbeat.
InsertRaises(h) ==
  /\ pc[h] = "insert" /\ owner = NoLock
  /\ owner' = h
  /\ left' = TTL - age[h]
  /\ pc' = [pc EXCEPT ![h] = "refused"]
  /\ age' = [age EXCEPT ![h] = 0]
  /\ UNCHANGED <<acquired, lost, beat, up, faults>>

DuplicateKey(h) ==
  /\ pc[h] = "insert" /\ owner # NoLock
  /\ pc' = [pc EXCEPT ![h] = "steal"]
  /\ UNCHANGED <<owner, left, acquired, lost, beat, age, up, faults>>

\* Mutant: the update_one of acquire() without the expires_at condition.
AnyDocument(h) == owner # NoLock

\* update_one {expires_at: {$lt: now}}, with the `now` read before insert_one.
Expired(h) == owner # NoLock /\ left < -age[h]

Steal(h) ==
  /\ pc[h] = "steal" /\ Expired(h)
  /\ Take(h)

Refuse(h) ==
  /\ pc[h] = "steal" /\ ~Expired(h)
  /\ pc' = [pc EXCEPT ![h] = "refused"]
  /\ age' = [age EXCEPT ![h] = 0]
  /\ UNCHANGED <<owner, left, acquired, lost, beat, up, faults>>

-----------------------------------------------------------------------------
(* _heartbeat() *)

\* sleep(interval) returns and the new expires_at is computed.
Wake(h) ==
  /\ beat[h] = "asleep" /\ age[h] >= Interval
  /\ beat' = [beat EXCEPT ![h] = "update"]
  /\ age' = [age EXCEPT ![h] = 0]
  /\ UNCHANGED <<owner, left, pc, acquired, lost, up, faults>>

Refresh(h) ==
  /\ beat[h] = "update" /\ owner = h
  /\ left' = TTL - age[h]
  /\ beat' = [beat EXCEPT ![h] = "asleep"]
  /\ age' = [age EXCEPT ![h] = 0]
  /\ UNCHANGED <<owner, pc, acquired, lost, up, faults>>

\* The update matches no document of ours: the lock was lost.
Lose(h) ==
  /\ beat[h] = "update" /\ owner # h
  /\ acquired' = acquired \ {h}
  /\ lost' = lost \cup {h}
  /\ beat' = [beat EXCEPT ![h] = "none"]
  /\ age' = [age EXCEPT ![h] = 0]
  /\ UNCHANGED <<owner, left, pc, up, faults>>

\* update_one raises: _heartbeat only catches CancelledError, so the task
\* ends while _acquired stays true and `lost` stays clear.
HeartbeatRaises(h) ==
  /\ "heartbeat_error" \in faults
  /\ beat[h] = "update"
  /\ beat' = [beat EXCEPT ![h] = "none"]
  /\ age' = [age EXCEPT ![h] = 0]
  /\ UNCHANGED <<owner, left, pc, acquired, lost, up, faults>>

-----------------------------------------------------------------------------
(* release() *)

\* The caller leaves its block; the heartbeat task is cancelled.
LeaveBlock(h) ==
  /\ pc[h] = "block"
  /\ pc' = [pc EXCEPT ![h] = "release"]
  /\ beat' = [beat EXCEPT ![h] = "none"]
  /\ age' = [age EXCEPT ![h] = 0]
  /\ UNCHANGED <<owner, left, acquired, lost, up, faults>>

\* delete_one {_id, owner_id} if still _acquired.
Release(h) ==
  /\ pc[h] = "release"
  /\ IF h \in acquired /\ owner = h
     THEN owner' = NoLock /\ left' = 0
     ELSE UNCHANGED <<owner, left>>
  /\ acquired' = acquired \ {h}
  /\ pc' = [pc EXCEPT ![h] = "done"]
  /\ UNCHANGED <<lost, beat, age, up, faults>>

-----------------------------------------------------------------------------
(* Processes, the database's TTL monitor and time *)

Crash(w) ==
  /\ w \in up
  /\ up' = up \ {w}
  /\ LET gone == {h \in Handles : WorkerOf[h] = w /\ pc[h] # "idle"}
     IN  /\ pc' = [h \in Handles |-> IF h \in gone THEN "dead" ELSE pc[h]]
         /\ beat' = [h \in Handles |-> IF h \in gone THEN "none" ELSE beat[h]]
         /\ age' = [h \in Handles |-> IF h \in gone THEN 0 ELSE age[h]]
         /\ acquired' = acquired \ gone
  /\ UNCHANGED <<owner, left, lost, faults>>

\* main.py, lifespan(): a starting worker deletes the document of the locks
\* it takes for stale, whoever owns it.
Start(w) ==
  /\ w \notin up
  /\ up' = up \cup {w}
  /\ IF "startup_purge" \in faults
     THEN owner' = NoLock /\ left' = 0
     ELSE UNCHANGED <<owner, left>>
  /\ UNCHANGED <<pc, acquired, lost, beat, age, faults>>

\* Mutant: the TTL index is missing.
NeverExpires == FALSE /\ UNCHANGED vars

\* The TTL index on expires_at deletes an expired document, some time later.
ExpireDocument ==
  /\ owner # NoLock /\ left =< 0
  /\ owner' = NoLock /\ left' = 0
  /\ UNCHANGED <<pc, acquired, lost, beat, age, up, faults>>

Pending(h) == pc[h] \in {"insert", "steal"} \/ beat[h] = "update"

\* A pending write lands, and a sleeping heartbeat wakes, before it is late.
NotLate(h) ==
  /\ Pending(h) => age[h] < MaxLate
  /\ beat[h] = "asleep" => age[h] < Interval + MaxLate

Tick ==
  /\ \A h \in Handles : NotLate(h)
  /\ left' = IF owner # NoLock /\ left > Floor THEN left - 1 ELSE left
  /\ age' = [h \in Handles |->
               IF Pending(h) \/ beat[h] = "asleep" THEN age[h] + 1 ELSE age[h]]
  /\ UNCHANGED <<owner, pc, acquired, lost, beat, up, faults>>

-----------------------------------------------------------------------------
Step(h) ==
  \/ BeginAcquire(h) \/ Insert(h) \/ InsertRaises(h) \/ DuplicateKey(h)
  \/ Steal(h) \/ Refuse(h)
  \/ Wake(h) \/ Refresh(h) \/ Lose(h) \/ HeartbeatRaises(h)
  \/ LeaveBlock(h) \/ Release(h)

Next ==
  \/ \E h \in Handles : Step(h)
  \/ \E w \in Workers : Crash(w) \/ Start(w)
  \/ ExpireDocument
  \/ Tick

Spec == Init /\ [][Next]_vars

\* Time passes, and the database and the event loop of a running process
\* finish what they have begun.  Callers need not leave their block.
FairSpec ==
  /\ Spec
  /\ WF_vars(Tick)
  /\ \A h \in Handles :
       /\ WF_vars(Insert(h) \/ DuplicateKey(h))
       /\ WF_vars(Steal(h) \/ Refuse(h))
       /\ WF_vars(Wake(h))
       /\ WF_vars(Refresh(h) \/ Lose(h))
  /\ WF_vars(ExpireDocument)

-----------------------------------------------------------------------------
(* Properties *)

InBlock(h) == pc[h] = "block"

\* "Only one worker runs this block at a time" (module docstring).
OneInBlock == \A g, h \in Handles : InBlock(g) /\ InBlock(h) => g = h

\* The same, as long as heartbeats do not raise and no start deletes the lock.
MutualExclusion == faults = {} => OneInBlock

\* A caller in its block owns the document, and the document outlives the
\* latest moment at which the next heartbeat can refresh it.
LeaseCoversHeartbeat ==
  faults = {} =>
    \A h \in Handles : InBlock(h) =>
      /\ owner = h
      /\ beat[h] = "asleep" => left > Interval + 2 * MaxLate - age[h]
      /\ beat[h] = "update" => left > MaxLate - age[h]

\* `lost` is never a false alarm: once it is set the document is not ours
\* again, _acquired is clear and no heartbeat can bring it back.
LossIsFinal ==
  \A h \in Handles : h \in lost =>
    /\ owner # h
    /\ h \notin acquired
    /\ beat[h] = "none"

\* An unexpired document changes hands only when its owner releases it or a
\* starting worker deletes it: neither a late release or heartbeat of an
\* earlier holder nor a contender with an old `now` takes it away.
UnexpiredIsKept ==
  [][ owner # NoLock /\ left > 0 /\ owner' # owner =>
        \/ pc[owner] = "release" /\ pc'[owner] = "done"
        \/ "startup_purge" \in faults /\ up' # up ]_vars

\* The callers in their blocks, in an environment without faults.
Inside == IF faults = {} THEN {h \in Handles : InBlock(h)} ELSE {}
Abstract == INSTANCE ExclusiveLock WITH inside <- Inside

\* Entering and leaving the block looks to the callers like ExclusiveLock.
ImplementsExclusiveLock == Abstract!Spec

\* The document of a holder that died is removed or taken over in the end.
DeadOwnerIsReplaced ==
  \A h \in Handles : (owner = h /\ pc[h] = "dead") ~> (owner # h)

\* A holder whose document is gone finds out, whatever took it away, unless
\* its heartbeat task died of an exception.
LossIsNoticed ==
  \A h \in Handles :
    (InBlock(h) /\ owner # h /\ "heartbeat_error" \notin faults)
      ~> (h \in lost \/ ~InBlock(h))

\* main.py, lifespan(): the documents a starting worker deletes belong to no
\* caller that is still in its block ("the previous sync holder is provably
\* dead").
PurgeHitsTheDead ==
  [][ \A w \in Workers, h \in Handles :
        Start(w) /\ owner = h /\ owner' # h => ~InBlock(h) ]_vars
=============================================================================
