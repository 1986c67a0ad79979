----------------------- MODULE DistributedLock_proofs -----------------------
(***************************************************************************)
(* Proofs about DistributedLock, for any handles, workers and TTL.         *)
(* MutualExclusion holds when heartbeats do not raise and no start deletes *)
(* a live document (faults = {}), and if delays are short against the TTL  *)
(* (Punctual); the violation runs show that the first two are needed.      *)
(***************************************************************************)
EXTENDS DistributedLock, TLAPS

\* A refresh is late twice (waking up, writing), a rival's `now` once.
Punctual == Interval + 3 * MaxLate < TTL

LEMMA IntervalType == Interval \in Nat /\ Interval >= 1 /\ Interval =< TTL
  BY ConstantsAssumption DEF Interval

LEMMA TypeStep == TypeOK /\ [Next]_vars => TypeOK'
<1> USE ConstantsAssumption DEF TypeOK, PCs, Beats
<1> SUFFICES ASSUME TypeOK, [Next]_vars PROVE TypeOK'
  OBVIOUS
<1>0. CASE UNCHANGED vars
  BY <1>0 DEF vars
<1>1. ASSUME NEW h \in Handles, Step(h) PROVE TypeOK'
  <2>1. CASE BeginAcquire(h) BY <2>1 DEF BeginAcquire
  <2>2. CASE Insert(h) BY <2>2 DEF Insert, Take
  <2>3. CASE InsertRaises(h) BY <2>3 DEF InsertRaises
  <2>4. CASE DuplicateKey(h) BY <2>4 DEF DuplicateKey
  <2>5. CASE Steal(h) BY <2>5 DEF Steal, Take
  <2>6. CASE Refuse(h) BY <2>6 DEF Refuse
  <2>7. CASE Wake(h) BY <2>7 DEF Wake
  <2>8. CASE Refresh(h) BY <2>8 DEF Refresh
  <2>9. CASE Lose(h) BY <2>9 DEF Lose
  <2>10. CASE HeartbeatRaises(h) BY <2>10 DEF HeartbeatRaises
  <2>11. CASE LeaveBlock(h) BY <2>11 DEF LeaveBlock
  <2>12. CASE Release(h) BY <2>12 DEF Release
  <2> QED BY <1>1, <2>1, <2>2, <2>3, <2>4, <2>5, <2>6, <2>7, <2>8, <2>9,
             <2>10, <2>11, <2>12 DEF Step
<1>2. ASSUME NEW w \in Workers, Crash(w) PROVE TypeOK'
  BY <1>2 DEF Crash
<1>3. ASSUME NEW w \in Workers, Start(w) PROVE TypeOK'
  BY <1>3 DEF Start
<1>4. CASE ExpireDocument
  BY <1>4 DEF ExpireDocument
<1>5. CASE Tick
  BY <1>5 DEF Tick
<1> QED BY <1>0, <1>1, <1>2, <1>3, <1>4, <1>5 DEF Next

\* Every variable keeps its type, whatever faults occur.
THEOREM TypeCorrect == Spec => []TypeOK
<1>1. Init => TypeOK
  BY ConstantsAssumption DEF Init, TypeOK, PCs, Beats
<1> QED BY <1>1, TypeStep, PTL DEF Spec

-----------------------------------------------------------------------------
\* A heartbeat task runs as long as its caller is in the block, and neither
\* it nor an acquire is late; a handle owns no document before its acquire.
TasksKeepTime ==
  faults = {} =>
    \A h \in Handles :
      /\ InBlock(h) <=> beat[h] # "none"
      /\ Pending(h) => age[h] =< MaxLate
      /\ beat[h] = "asleep" => age[h] =< Interval + MaxLate
      /\ owner = h => pc[h] \notin {"idle", "insert", "steal"}

\* The inductive invariant behind mutual exclusion.
IInv == TypeOK /\ TasksKeepTime /\ LeaseCoversHeartbeat

LEMMA FaultsStay == [Next]_vars => faults' = faults
  BY DEF Next, Step, vars, BeginAcquire, Insert, InsertRaises, DuplicateKey, Steal,
         Refuse, Take, Wake, Refresh, Lose, HeartbeatRaises, LeaveBlock, Release,
         Crash, Start, ExpireDocument, Tick

LEMMA IInvInit == Init => IInv
  BY ConstantsAssumption, IntervalType
  DEF Init, IInv, TypeOK, PCs, Beats, TasksKeepTime, LeaseCoversHeartbeat,
      InBlock, Pending

LEMMA IInvStep == ASSUME Punctual, IInv, TypeOK', [Next]_vars PROVE IInv'
<1>a. CASE faults # {}
  BY <1>a, FaultsStay DEF IInv, TasksKeepTime, LeaseCoversHeartbeat
<1> SUFFICES ASSUME faults = {} PROVE IInv'
  BY <1>a
<1> USE ConstantsAssumption, IntervalType
    DEF Punctual, IInv, TypeOK, TasksKeepTime, LeaseCoversHeartbeat, InBlock, Pending,
        Beats
<1>0. CASE UNCHANGED vars
  BY <1>0 DEF vars
<1>1. ASSUME NEW h \in Handles, Step(h) PROVE IInv'
  <2>1. CASE BeginAcquire(h) BY <2>1 DEF BeginAcquire
  <2>2. CASE Insert(h) BY <2>2 DEF Insert, Take
  <2>3. CASE InsertRaises(h) BY <2>3 DEF InsertRaises
  <2>4. CASE DuplicateKey(h) BY <2>4 DEF DuplicateKey
  <2>5. CASE Steal(h)
    \* The stolen document was expired, so nobody was in the block.
    <3>1. \A g \in Handles : ~InBlock(g)
      BY <2>5 DEF Steal, Expired
    <3> QED BY <2>5, <3>1 DEF Steal, Expired, Take
  <2>6. CASE Refuse(h) BY <2>6 DEF Refuse
  <2>7. CASE Wake(h) BY <2>7 DEF Wake
  <2>8. CASE Refresh(h) BY <2>8 DEF Refresh
  <2>9. CASE Lose(h) BY <2>9 DEF Lose
  <2>10. CASE HeartbeatRaises(h) BY <2>10 DEF HeartbeatRaises
  <2>11. CASE LeaveBlock(h) BY <2>11 DEF LeaveBlock
  <2>12. CASE Release(h) BY <2>12 DEF Release
  <2> QED BY <1>1, <2>1, <2>2, <2>3, <2>4, <2>5, <2>6, <2>7, <2>8, <2>9,
             <2>10, <2>11, <2>12 DEF Step
<1>2. ASSUME NEW w \in Workers, Crash(w) PROVE IInv'
  BY <1>2 DEF Crash
<1>3. ASSUME NEW w \in Workers, Start(w) PROVE IInv'
  BY <1>3 DEF Start
<1>4. CASE ExpireDocument
  BY <1>4 DEF ExpireDocument
<1>5. CASE Tick
  BY <1>5 DEF Tick, NotLate, Floor
<1> QED BY <1>0, <1>1, <1>2, <1>3, <1>4, <1>5 DEF Next

LEMMA IInvCorrect == ASSUME Punctual PROVE Spec => []IInv
<1>1. IInv /\ [Next]_vars => IInv'
  BY IInvStep, TypeStep DEF IInv
<1> QED BY <1>1, IInvInit, PTL DEF Spec

\* Without faults and with punctual heartbeats, two callers are never in
\* the protected block together.
THEOREM MutualExclusionHolds == ASSUME Punctual PROVE Spec => []MutualExclusion
<1>1. IInv => MutualExclusion
  BY DEF IInv, LeaseCoversHeartbeat, MutualExclusion, OneInBlock
<1> QED BY <1>1, IInvCorrect, PTL

\* Under the same assumptions a caller in its block owns a document that
\* outlives its next heartbeat.
THEOREM LeaseHolds == ASSUME Punctual PROVE Spec => []LeaseCoversHeartbeat
<1>1. IInv => LeaseCoversHeartbeat
  BY DEF IInv
<1> QED BY <1>1, IInvCorrect, PTL

-----------------------------------------------------------------------------
\* Under every fault, a signalled loss is real and final.
LossInv ==
  /\ TypeOK
  /\ LossIsFinal
  /\ \A h \in Handles :
       /\ owner = h => pc[h] \notin {"idle", "insert", "steal"}
       /\ h \in lost => pc[h] \notin {"idle", "insert", "steal"}
       /\ beat[h] # "none" => pc[h] = "block"

LEMMA LossInvStep == ASSUME LossInv, TypeOK', [Next]_vars PROVE LossInv'
<1> USE ConstantsAssumption DEF LossInv, LossIsFinal, TypeOK
<1>0. CASE UNCHANGED vars
  BY <1>0 DEF vars
<1>1. ASSUME NEW h \in Handles, Step(h) PROVE LossInv'
  <2>1. CASE BeginAcquire(h) BY <2>1 DEF BeginAcquire
  <2>2. CASE Insert(h) BY <2>2 DEF Insert, Take
  <2>3. CASE InsertRaises(h) BY <2>3 DEF InsertRaises
  <2>4. CASE DuplicateKey(h) BY <2>4 DEF DuplicateKey
  <2>5. CASE Steal(h) BY <2>5 DEF Steal, Take
  <2>6. CASE Refuse(h) BY <2>6 DEF Refuse
  <2>7. CASE Wake(h) BY <2>7 DEF Wake
  <2>8. CASE Refresh(h) BY <2>8 DEF Refresh
  <2>9. CASE Lose(h) BY <2>9 DEF Lose
  <2>10. CASE HeartbeatRaises(h) BY <2>10 DEF HeartbeatRaises
  <2>11. CASE LeaveBlock(h) BY <2>11 DEF LeaveBlock
  <2>12. CASE Release(h) BY <2>12 DEF Release
  <2> QED BY <1>1, <2>1, <2>2, <2>3, <2>4, <2>5, <2>6, <2>7, <2>8, <2>9,
             <2>10, <2>11, <2>12 DEF Step
<1>2. ASSUME NEW w \in Workers, Crash(w) PROVE LossInv'
  BY <1>2 DEF Crash
<1>3. ASSUME NEW w \in Workers, Start(w) PROVE LossInv'
  BY <1>3 DEF Start
<1>4. CASE ExpireDocument
  BY <1>4 DEF ExpireDocument
<1>5. CASE Tick
  BY <1>5 DEF Tick
<1> QED BY <1>0, <1>1, <1>2, <1>3, <1>4, <1>5 DEF Next

\* A handle whose `lost` event is set never owns the document again, whatever
\* faults occur: the runners that abort on it never abort needlessly.
THEOREM LossIsFinalHolds == Spec => []LossIsFinal
<1>1. Init => LossInv
  BY ConstantsAssumption DEF Init, LossInv, LossIsFinal, TypeOK, PCs, Beats
<1>2. LossInv /\ [Next]_vars => LossInv'
  BY LossInvStep, TypeStep DEF LossInv
<1>3. LossInv => LossIsFinal
  BY DEF LossInv
<1> QED BY <1>1, <1>2, <1>3, PTL DEF Spec

-----------------------------------------------------------------------------
\* Every step of a lock without faults enters the block, leaves
\* it, or changes nothing of the set of callers in it.
LEMMA AbstractStep ==
  ASSUME Punctual, IInv, [Next]_vars PROVE [Abstract!Next]_Inside
<1>a. CASE faults # {}
  BY <1>a, FaultsStay DEF Inside
<1> SUFFICES ASSUME faults = {} PROVE [Abstract!Next]_Inside
  BY <1>a
<1> USE FaultsStay
    DEF IInv, TypeOK, LeaseCoversHeartbeat, TasksKeepTime, InBlock, Inside,
            Abstract!Next, Abstract!Enter, Abstract!Leave
<1>0. CASE UNCHANGED vars
  BY <1>0 DEF vars
<1>1. ASSUME NEW h \in Handles, Step(h) PROVE [Abstract!Next]_Inside
  <2>1. CASE Insert(h) \/ Steal(h)
    <3>1. Inside = {}
      BY <2>1, ConstantsAssumption, IntervalType
      DEF Insert, Steal, Expired, Beats, Pending
    <3>2. Inside' = {h}
      BY <2>1, <3>1 DEF Insert, Steal, Take
    <3> QED BY <3>1, <3>2
  <2>2. CASE LeaveBlock(h)
    <3>1. Inside = {h}
      BY <2>2, ConstantsAssumption DEF LeaveBlock
    <3>2. Inside' = {}
      BY <2>2, <3>1 DEF LeaveBlock
    <3> QED BY <3>1, <3>2
  <2>3. CASE BeginAcquire(h) \/ InsertRaises(h) \/ DuplicateKey(h) \/ Refuse(h)
    BY <2>3 DEF BeginAcquire, InsertRaises, DuplicateKey, Refuse
  <2>4. CASE Wake(h) \/ Refresh(h) \/ Lose(h) \/ HeartbeatRaises(h)
    BY <2>4 DEF Wake, Refresh, Lose, HeartbeatRaises
  <2>5. CASE Release(h)
    BY <2>5 DEF Release
  <2> QED BY <1>1, <2>1, <2>2, <2>3, <2>4, <2>5 DEF Step
<1>2. ASSUME NEW w \in Workers, Crash(w) PROVE [Abstract!Next]_Inside
  <2>1. ASSUME NEW g \in Inside, NEW h \in Inside PROVE g = h
    BY <2>1
  <2>2. Inside' \subseteq Inside
    BY <1>2 DEF Crash
  <2> QED
    BY <2>1, <2>2
<1>3. ASSUME NEW w \in Workers, Start(w) PROVE [Abstract!Next]_Inside
  BY <1>3 DEF Start
<1>4. CASE ExpireDocument
  BY <1>4 DEF ExpireDocument
<1>5. CASE Tick
  BY <1>5 DEF Tick
<1> QED BY <1>0, <1>1, <1>2, <1>3, <1>4, <1>5 DEF Next

\* The lock implements ExclusiveLock under the same assumptions.
THEOREM ImplementsExclusiveLockHolds ==
  ASSUME Punctual PROVE Spec => ImplementsExclusiveLock
<1>1. Init => Abstract!Init
  BY DEF Init, Abstract!Init, InBlock, Inside
<1>2. IInv /\ [Next]_vars => [Abstract!Next]_Inside
  BY AbstractStep
<1> QED
  BY <1>1, <1>2, IInvCorrect, PTL
  DEF Spec, ImplementsExclusiveLock, Abstract!Spec, Inside
-----------------------------------------------------------------------------
\* What a step of a handle does to a document that has not expired: only a
\* release by its owner removes it, and it never goes to another handle.
LEMMA UnexpiredStep ==
  ASSUME TypeOK, NEW h \in Handles, Step(h), owner # NoLock, left > 0, owner' # owner
  PROVE  owner = h /\ pc[h] = "release" /\ pc'[h] = "done"
<1>1. CASE Insert(h) \/ InsertRaises(h)
  BY <1>1 DEF Insert, InsertRaises
<1>2. CASE Steal(h)
  <2>1. age[h] \in Nat /\ left \in Int
    BY DEF TypeOK
  <2> QED BY <1>2, <2>1 DEF Steal, Expired
<1>3. CASE Release(h)
  <2>1. owner = h
    BY <1>3 DEF Release
  <2>2. pc[h] = "release" /\ pc'[h] = "done"
    BY <1>3 DEF Release, TypeOK
  <2> QED BY <2>1, <2>2
<1>4. CASE \/ BeginAcquire(h) \/ DuplicateKey(h) \/ Refuse(h) \/ Wake(h) \/ Refresh(h)
           \/ Lose(h) \/ HeartbeatRaises(h) \/ LeaveBlock(h)
  BY <1>4 DEF BeginAcquire, DuplicateKey, Refuse, Wake, Refresh, Lose, HeartbeatRaises,
              LeaveBlock
<1> QED BY <1>1, <1>2, <1>3, <1>4 DEF Step

\* A document that has not expired changes hands only by a release of its owner
\* or the purge of a starting worker, whatever faults occur and however late
\* anybody is: a takeover compares with a `now` that can only be too early.
THEOREM UnexpiredIsKeptHolds == Spec => UnexpiredIsKept
<1>1. ASSUME TypeOK, [Next]_vars, owner # NoLock, left > 0, owner' # owner
      PROVE  \/ pc[owner] = "release" /\ pc'[owner] = "done"
             \/ "startup_purge" \in faults /\ up' # up
  <2>0. CASE UNCHANGED vars
    BY <1>1, <2>0 DEF vars
  <2>1. ASSUME NEW h \in Handles, Step(h)
        PROVE  pc[owner] = "release" /\ pc'[owner] = "done"
    BY <1>1, <2>1, UnexpiredStep
  <2>2. ASSUME NEW w \in Workers, Crash(w) PROVE FALSE
    BY <1>1, <2>2 DEF Crash
  <2>3. ASSUME NEW w \in Workers, Start(w) PROVE "startup_purge" \in faults /\ up' # up
    BY <1>1, <2>3 DEF Start
  <2>4. CASE ExpireDocument
    BY <1>1, <2>4 DEF ExpireDocument, TypeOK
  <2>5. CASE Tick
    BY <1>1, <2>5 DEF Tick
  <2> QED BY <1>1, <2>0, <2>1, <2>2, <2>3, <2>4, <2>5 DEF Next
<1>2. TypeOK /\ [Next]_vars =>
        [ owner # NoLock /\ left > 0 /\ owner' # owner =>
            \/ pc[owner] = "release" /\ pc'[owner] = "done"
            \/ "startup_purge" \in faults /\ up' # up ]_vars
  BY <1>1
<1> QED BY <1>2, TypeCorrect, PTL DEF Spec, UnexpiredIsKept
=============================================================================
