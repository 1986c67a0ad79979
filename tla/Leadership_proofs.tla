-------------------------- MODULE Leadership_proofs --------------------------
(***************************************************************************)
(* What LeaderElection promises for any number of workers, any ttl and any *)
(* length of a behaviour; and PhaseScheduler, for any intervals and terms, *)
(* any number of workers and any number of crashes.                        *)
(***************************************************************************)
EXTENDS Leadership, FiniteSetTheorems, TLAPS

USE DEF Election!Never, Election!Claims, Election!ElectionAssumption

\* A step keeps the types.
LEMMA ElectionTypeStep == Election!TypeOK /\ [Election!Next]_electionVars => Election!TypeOK'
<1> SUFFICES ASSUME Election!TypeOK, [Election!Next]_electionVars PROVE Election!TypeOK'
  OBVIOUS
<1> USE LeadershipAssumption DEF Election!TypeOK
<1>h. ASSUME NEW w \in Candidates, op[w] # "idle", Election!Hold(w), UNCHANGED <<time, began>> PROVE Election!TypeOK'
    BY <1>h DEF Election!Hold, Election!Goto, Election!Expiry
<1>y. ASSUME NEW w \in Candidates, Election!Yield(w), UNCHANGED <<time, began>> PROVE Election!TypeOK'
    BY <1>y DEF Election!Yield, Election!Goto
<1>1. CASE Election!Tick BY <1>1 DEF Election!Tick
<1>2. CASE Election!Purge BY <1>2 DEF Election!Purge
<1>3. ASSUME NEW w \in Candidates, Election!Call(w) PROVE Election!TypeOK' BY <1>3 DEF Election!Call, Election!Goto
<1>4. ASSUME NEW w \in Candidates, Election!Crash(w) PROVE Election!TypeOK' BY <1>4 DEF Election!Crash, Election!Goto
<1>5. ASSUME NEW w \in Candidates, Election!Insert(w) PROVE Election!TypeOK' BY <1>5, <1>h DEF Election!Insert, Election!Goto
<1>6. ASSUME NEW w \in Candidates, Election!Refresh(w) PROVE Election!TypeOK' BY <1>6, <1>h DEF Election!Refresh, Election!Goto
<1>7. ASSUME NEW w \in Candidates, Election!TakeOver(w) PROVE Election!TypeOK' BY <1>7, <1>h, <1>y DEF Election!TakeOver
<1>8. ASSUME NEW w \in Candidates, Election!Heartbeat(w) PROVE Election!TypeOK' BY <1>8, <1>h DEF Election!Heartbeat, Election!Goto
<1>9. ASSUME NEW w \in Candidates, Election!Resign(w) PROVE Election!TypeOK' BY <1>9 DEF Election!Resign, Election!Goto
<1>10. CASE UNCHANGED electionVars BY <1>10 DEF electionVars
<1> QED BY <1>1, <1>2, <1>3, <1>4, <1>5, <1>6, <1>7, <1>8, <1>9, <1>10 DEF Election!Next, Election!Step

\* The type invariant of the election, whatever calls, crashes and purges there
\* are.
THEOREM ElectionTypeCorrect == Election!Spec => []Election!TypeOK
<1>1. Election!Init => Election!TypeOK
  BY LeadershipAssumption DEF Election!Init, Election!TypeOK
<1> QED BY <1>1, ElectionTypeStep, PTL DEF Election!Spec, Election!vars, electionVars

\* The inductive invariant.  A call writes the time at which it began, which
\* is past: what it takes over has expired by now.
ElectionInv ==
  /\ Election!TypeOK
  /\ \A w \in Candidates : began[w] <= time
  /\ Election!LeaderHasClaim

\* The claim of a leader is there, is its own, and lasts as long as it takes
\* itself for the leader.
THEOREM ClaimHeld == Election!Spec => []Election!LeaderHasClaim
<1>1. Election!Init => ElectionInv
  BY LeadershipAssumption DEF Election!Init, ElectionInv, Election!TypeOK, Election!LeaderHasClaim
<1>2. ElectionInv /\ [Election!Next]_electionVars => ElectionInv'
  <2> SUFFICES ASSUME ElectionInv, Election!TypeOK', [Election!Next]_electionVars
               PROVE  (\A w \in Candidates : began[w] <= time)' /\ Election!LeaderHasClaim'
    BY ElectionTypeStep DEF ElectionInv
  <2> USE LeadershipAssumption DEF ElectionInv, Election!TypeOK, Election!LeaderHasClaim, Election!IsMine
  \* Nobody else is a leader when a worker gets the claim.
  <2>h. ASSUME NEW w \in Candidates, Election!Hold(w), UNCHANGED <<time, began>>,
               \A v \in Candidates \ {w} : until[v] <= time
        PROVE  (\A v \in Candidates : began[v] <= time)' /\ Election!LeaderHasClaim'
    <3>1. [worker |-> w, expires |-> Election!Expiry(w)] \in Election!Claims
      BY DEF Election!Expiry
    <3>2. document' # NoClaim /\ document'.worker = w /\ document'.expires = Election!Expiry(w)
      BY <2>h, <3>1 DEF Election!Hold
    <3> QED BY <2>h, <3>2 DEF Election!Hold
  <2>y. ASSUME NEW w \in Candidates, UNCHANGED <<time, began, document>>,
               \/ until' = [until EXCEPT ![w] = Election!Never]
               \/ UNCHANGED until
        PROVE  (\A v \in Candidates : began[v] <= time)' /\ Election!LeaderHasClaim'
    BY <2>y
  <2>1. CASE Election!Tick BY <2>1 DEF Election!Tick
  <2>2. CASE Election!Purge BY <2>2 DEF Election!Purge
  <2>3. ASSUME NEW w \in Candidates, Election!Call(w)
        PROVE  (\A v \in Candidates : began[v] <= time)' /\ Election!LeaderHasClaim'
    BY <2>3 DEF Election!Call
  <2>4. ASSUME NEW w \in Candidates, Election!Crash(w)
        PROVE  (\A v \in Candidates : began[v] <= time)' /\ Election!LeaderHasClaim'
    BY <2>4 DEF Election!Crash
  <2>5. ASSUME NEW w \in Candidates, Election!Insert(w)
        PROVE  (\A v \in Candidates : began[v] <= time)' /\ Election!LeaderHasClaim'
    BY <2>5, <2>h, <2>y DEF Election!Insert
  <2>6. ASSUME NEW w \in Candidates, Election!Refresh(w)
        PROVE  (\A v \in Candidates : began[v] <= time)' /\ Election!LeaderHasClaim'
    BY <2>6, <2>h, <2>y DEF Election!Refresh
  <2>7. ASSUME NEW w \in Candidates, Election!TakeOver(w)
        PROVE  (\A v \in Candidates : began[v] <= time)' /\ Election!LeaderHasClaim'
    BY <2>7, <2>h, <2>y DEF Election!TakeOver, Election!Yield
  <2>8. ASSUME NEW w \in Candidates, Election!Heartbeat(w)
        PROVE  (\A v \in Candidates : began[v] <= time)' /\ Election!LeaderHasClaim'
    BY <2>8, <2>h, <2>y DEF Election!Heartbeat
  <2>9. ASSUME NEW w \in Candidates, Election!Resign(w)
        PROVE  (\A v \in Candidates : began[v] <= time)' /\ Election!LeaderHasClaim'
    BY <2>9 DEF Election!Resign
  <2>10. CASE UNCHANGED electionVars BY <2>10 DEF electionVars
  <2> QED BY <2>1, <2>2, <2>3, <2>4, <2>5, <2>6, <2>7, <2>8, <2>9, <2>10 DEF Election!Next, Election!Step
<1> QED BY <1>1, <1>2, PTL DEF Election!Spec, Election!vars, electionVars, ElectionInv

\* There is never more than one leader: the claim has one worker.
THEOREM OneLeaderAtATime == Election!Spec => []OneLeader
<1>1. Election!LeaderHasClaim => OneLeader
  BY DEF Election!LeaderHasClaim, Election!OneLeader, Election!IsMine, OneLeader
<1> QED BY <1>1, ClaimHeld, PTL

-----------------------------------------------------------------------------
(* The schedulers.  First the constants, and what a sleep is made of. *)

\* What a retry and n terms of the election last.
Slack(n) == Retry + Ttl * n

LEMMA ConstantFacts ==
  /\ Longest \in Intervals /\ Longest \in Nat /\ Longest > 0
  /\ \A i \in Intervals : i \in Nat /\ i <= Longest
  /\ Ttl \in Nat /\ Retry \in Nat /\ Patience \in Nat /\ MaxEvents \in Nat
  /\ Ttl > 0 /\ Retry > 0 /\ Patience > 0 /\ Retry <= Ttl
<1> PICK i \in Intervals : i > 0 /\ \A j \in Intervals : j <= i
  BY SchedulerAssumption
<1>1. Longest \in Intervals /\ \A j \in Intervals : j <= Longest
  BY DEF Longest
<1> QED BY <1>1, SchedulerAssumption

LEMMA SlackFacts ==
  /\ \A n \in Nat : Slack(n) \in Nat /\ Slack(n) >= Retry /\ Slack(n + 1) = Slack(n) + Ttl
  /\ \A m, n \in Nat : m <= n => Slack(m) <= Slack(n)
  /\ Bound = Longest + Slack(MaxEvents) /\ Bound \in Nat
<1>1. ASSUME NEW n \in Nat
      PROVE  Slack(n) \in Nat /\ Slack(n) >= Retry /\ Slack(n + 1) = Slack(n) + Ttl
  <2>1. Ttl * n \in Nat /\ Ttl * (n + 1) = Ttl * n + Ttl
    BY ConstantFacts
  <2> QED BY <2>1, ConstantFacts DEF Slack
<1>2. ASSUME NEW m \in Nat, NEW n \in Nat, m <= n PROVE Slack(m) <= Slack(n)
  <2>1. Ttl * n = Ttl * m + Ttl * (n - m) /\ Ttl * (n - m) \in Nat /\ Ttl * m \in Nat
    BY <1>2, ConstantFacts
  <2> QED BY <2>1, ConstantFacts DEF Slack
<1>3. Bound = Longest + Slack(MaxEvents) /\ Bound \in Nat
  <2>1. Ttl * MaxEvents \in Nat
    BY ConstantFacts
  <2> QED BY <2>1, ConstantFacts DEF Bound, Slack
<1> QED BY <1>1, <1>2, <1>3

LEMMA BoundNat == Bound \in Nat
  BY SlackFacts

\* A sleep is never over without the step that follows it.
Clocks ==
  \A w \in Workers :
    /\ pc[w] = "pause" => clock[w] > 0 /\ clock[w] <= Retry
    /\ pc[w] \in {"defer", "interval"} => clock[w] > 0 /\ clock[w] <= Longest

Types == TypeOK /\ Clocks

LEMMA GotoFacts ==
  ASSUME TypeOK, NEW w \in Workers, NEW step, NEW ticks, Goto(w, step, ticks)
  PROVE  /\ pc'[w] = step /\ clock'[w] = ticks
         /\ \A v \in Workers : v # w => pc'[v] = pc[v] /\ clock'[v] = clock[v]
  BY DEF Goto, TypeOK

Steps == {"down", "top", "pause", "defer", "interval", "decide", "wait"}

LEMMA GotoTypes ==
  ASSUME Types, NEW w \in Workers, NEW step \in Steps, NEW ticks \in Nat, Goto(w, step, ticks),
         ticks <= Longest + Retry,
         step = "pause" => ticks > 0 /\ ticks <= Retry,
         step \in {"defer", "interval"} => ticks > 0 /\ ticks <= Longest
  PROVE  /\ pc' \in [Workers -> Steps]
         /\ clock' \in [Workers -> 0 .. Longest + Retry + Patience]
         /\ Clocks'
<1>1. pc' \in [Workers -> Steps]
  BY DEF Types, TypeOK, Goto, Steps
<1>2. ticks \in 0 .. Longest + Retry + Patience
  BY ConstantFacts
<1>3. clock' \in [Workers -> 0 .. Longest + Retry + Patience]
  BY <1>2 DEF Types, TypeOK, Goto
<1>4. Clocks'
  BY GotoFacts DEF Types, Clocks
<1> QED BY <1>1, <1>3, <1>4

LEMMA GotoCommon ==
  ASSUME Types, NEW w \in Workers,
         \/ \E step \in {"down", "top", "decide", "wait"} : Goto(w, step, 0)
         \/ Goto(w, "pause", 1) \/ Goto(w, "pause", Retry)
  PROVE  /\ pc' \in [Workers -> Steps]
         /\ clock' \in [Workers -> 0 .. Longest + Retry + Patience]
         /\ Clocks'
<1>1. ASSUME NEW step \in {"down", "top", "decide", "wait"}, Goto(w, step, 0)
      PROVE  /\ pc' \in [Workers -> Steps]
             /\ clock' \in [Workers -> 0 .. Longest + Retry + Patience]
             /\ Clocks'
  <2>1. step \in Steps /\ step # "pause" /\ step \notin {"defer", "interval"}
    BY DEF Steps
  <2>2. 0 \in Nat /\ 0 <= Longest + Retry
    BY ConstantFacts
  <2> QED BY <1>1, <2>1, <2>2, GotoTypes
<1>2. ASSUME NEW ticks \in {1, Retry}, Goto(w, "pause", ticks)
      PROVE  /\ pc' \in [Workers -> Steps]
             /\ clock' \in [Workers -> 0 .. Longest + Retry + Patience]
             /\ Clocks'
  <2>1. "pause" \in Steps /\ "pause" \notin {"defer", "interval"}
    BY DEF Steps
  <2>2. ticks \in Nat /\ ticks <= Longest + Retry /\ ticks > 0 /\ ticks <= Retry
    BY ConstantFacts
  <2> QED BY <1>2, <2>1, <2>2, GotoTypes
<1> QED BY <1>1, <1>2

\* A step of the schedulers keeps the types.
LEMMA TopTypes == ASSUME Types, NEW w \in Workers, Top(w) PROVE Types'
<1> USE DEF Top
<1>1. /\ interval' = interval /\ cp' = cp /\ since' = since
      /\ leader' \in {leader, w} /\ left' \in {left, Ttl}
      /\ known' = [known EXCEPT ![w] = interval] /\ first' \in {first, first \ {w}}
      /\ events' = events \/ Event
  BY Zenon DEF FirstCycle, claim
<1>2. lock' \in {lock, w} /\ running' \in {running, running \cup {w}} /\ idle' \in {idle, 0}
  BY DEF FirstCycle, StartRun
<1>3. interval \in Nat /\ interval <= Longest
  BY ConstantFacts DEF Types, TypeOK
<1>4. \E step \in Steps, ticks \in Nat :
        /\ Goto(w, step, ticks)
        /\ ticks <= Longest + Retry
        /\ step = "pause" => ticks > 0 /\ ticks <= Retry
        /\ step \in {"defer", "interval"} => ticks > 0 /\ ticks <= Longest
  <2> DEFINE Fine(step, ticks) ==
        /\ Goto(w, step, ticks)
        /\ ticks <= Longest + Retry
        /\ step = "pause" => ticks > 0 /\ ticks <= Retry
        /\ step \in {"defer", "interval"} => ticks > 0 /\ ticks <= Longest
  <2>1. ASSUME Goto(w, "pause", 1) PROVE Fine("pause", 1)
    BY <2>1, ConstantFacts
  <2>2. ASSUME Goto(w, "pause", Retry) PROVE Fine("pause", Retry)
    BY <2>2, ConstantFacts
  <2>3. ASSUME Goto(w, "top", 0) PROVE Fine("top", 0)
    BY <2>3, ConstantFacts
  <2>4. ASSUME Goto(w, "decide", 0) PROVE Fine("decide", 0)
    BY <2>4, ConstantFacts
  <2>5. ASSUME interval # 0, Goto(w, "interval", interval) PROVE Fine("interval", interval)
    BY <1>3, <2>5, ConstantFacts
  <2>6. ASSUME since < interval, Goto(w, "defer", interval - since)
        PROVE  interval - since \in Nat /\ Fine("defer", interval - since)
    <3>1. since \in Nat
      BY ConstantFacts DEF Types, TypeOK
    <3> QED BY <1>3, <2>6, <3>1, ConstantFacts
  <2>7. {"pause", "top", "decide", "interval", "defer"} \subseteq Steps
        /\ {0, 1, Retry, interval} \subseteq Nat
    BY <1>3, ConstantFacts DEF Steps
  <2> HIDE DEF Fine
  <2>8. \/ Goto(w, "pause", 1) \/ Goto(w, "pause", Retry) \/ Goto(w, "top", 0)
        \/ Goto(w, "decide", 0)
        \/ interval # 0 /\ Goto(w, "interval", interval)
        \/ since < interval /\ Goto(w, "defer", interval - since)
    BY DEF FirstCycle, StartRun
  <2>9. \E step \in Steps, ticks \in Nat : Fine(step, ticks)
    BY <2>1, <2>2, <2>3, <2>4, <2>5, <2>6, <2>7, <2>8
  <2> QED BY <2>9 DEF Fine
<1>5. PICK step \in Steps, ticks \in Nat :
        /\ Goto(w, step, ticks)
        /\ ticks <= Longest + Retry
        /\ step = "pause" => ticks > 0 /\ ticks <= Retry
        /\ step \in {"defer", "interval"} => ticks > 0 /\ ticks <= Longest
  BY <1>4
<1>6. /\ pc' \in [Workers -> Steps]
      /\ clock' \in [Workers -> 0 .. Longest + Retry + Patience]
      /\ Clocks'
  BY <1>5, GotoTypes
<1>7. Bound \in Nat
  BY BoundNat
<1> HIDE DEF Top
<1>8. left' \in 0 .. Ttl /\ events' \in 0 .. MaxEvents /\ idle' \in 0 .. Bound + 1
  BY <1>1, <1>2, <1>7, ConstantFacts DEF Types, TypeOK, Event
<1>9. /\ leader' \in Workers \cup {Nobody, Gone} /\ lock' \in Workers \cup {Nobody, Gone}
      /\ running' \subseteq Workers /\ first' \subseteq Workers
      /\ known' \in [Workers -> Intervals]
  BY <1>1, <1>2 DEF Types, TypeOK
<1> QED BY <1>1, <1>6, <1>8, <1>9 DEF Types, TypeOK, Steps

LEMMA StepTypes ==
  ASSUME Types, NEW w \in Workers,
         Decide(w) \/ ReadFails(w) \/ Request(w) \/ RunEnds(w) \/ Crash(w) \/ Restart(w) \/ Shutdown(w)
  PROVE  Types'
<1>1. CASE Decide(w)
  <2>1. \/ Goto(w, "wait", 0) \/ Goto(w, "pause", Retry)
    BY <1>1 DEF Decide
  <2>2. /\ pc' \in [Workers -> Steps]
        /\ clock' \in [Workers -> 0 .. Longest + Retry + Patience]
        /\ Clocks'
    BY <2>1, GotoCommon
  <2> QED BY <1>1, <2>2, BoundNat DEF Decide, StartRun, claim, Types, TypeOK, Steps
<1>2. CASE ReadFails(w)
  <2>1. Goto(w, "decide", 0)
    BY <1>2 DEF ReadFails
  <2>2. /\ pc' \in [Workers -> Steps]
        /\ clock' \in [Workers -> 0 .. Longest + Retry + Patience]
        /\ Clocks'
    BY <2>1, GotoCommon
  <2> QED BY <1>2, <2>2, BoundNat, ConstantFacts
          DEF ReadFails, Event, claim, phase, Types, TypeOK, Steps
<1>3. CASE Request(w)
  BY <1>3, BoundNat DEF Request, StartRun, claim, scheduler, Types, TypeOK, Clocks
<1>4. CASE RunEnds(w)
  <2>1. /\ UNCHANGED <<interval, leader, left, pc, clock, known, first, events, idle>>
        /\ lock' \in {lock, Nobody} /\ running' \subseteq running /\ since' \in {since, 0}
    BY <1>4 DEF RunEnds, claim, scheduler
  <2>2. cp' \in BOOLEAN
    BY <1>4 DEF RunEnds, Types, TypeOK
  <2>3. since' \in 0 .. Longest
    BY <2>1, ConstantFacts DEF Types, TypeOK
  <2> QED BY <2>1, <2>2, <2>3 DEF Types, TypeOK, Clocks
<1>5. CASE Crash(w) \/ Shutdown(w)
  <2>1. Goto(w, "down", 0)
    BY <1>5 DEF Crash, Shutdown
  <2>2. /\ pc' \in [Workers -> Steps]
        /\ clock' \in [Workers -> 0 .. Longest + Retry + Patience]
        /\ Clocks'
    BY <2>1, GotoCommon
  <2>3. /\ UNCHANGED <<interval, left, since, known, first, idle>>
        /\ lock' \in {lock, Gone} /\ running' \subseteq running
        /\ leader' \in {leader, Nobody, Gone}
    BY <1>5 DEF Crash, Shutdown, phase
  <2>4. cp' \in BOOLEAN
    BY <1>5 DEF Crash, Shutdown, phase, Types, TypeOK
  <2>5. events' \in 0 .. MaxEvents
    <3>1. events < MaxEvents /\ events' = events + 1
      BY <1>5 DEF Crash, Shutdown, Event
    <3> QED BY <3>1, ConstantFacts DEF Types, TypeOK
  <2> QED BY <2>2, <2>3, <2>4, <2>5 DEF Types, TypeOK, Steps
<1>6. CASE Restart(w)
  <2>1. Goto(w, "pause", 1)
    BY <1>6 DEF Restart
  <2>2. /\ pc' \in [Workers -> Steps]
        /\ clock' \in [Workers -> 0 .. Longest + Retry + Patience]
        /\ Clocks'
    BY <2>1, GotoCommon
  <2> QED BY <1>6, <2>2 DEF Restart, claim, phase, Types, TypeOK, Steps
<1> QED BY <1>1, <1>2, <1>3, <1>4, <1>5, <1>6

\* What a tick does to a worker.
LEMMA TickAt ==
  ASSUME Types, Tick, NEW w \in Workers
  PROVE  /\ pc[w] = "down" => pc'[w] = "down" /\ clock'[w] = 0
         /\ pc[w] = "pause" =>
              /\ clock'[w] = clock[w] - 1
              /\ pc'[w] = IF clock[w] = 1 THEN "top" ELSE "pause"
         /\ pc[w] = "defer" =>
              /\ clock'[w] = clock[w] - 1
              /\ pc'[w] = IF clock[w] = 1 THEN "decide" ELSE "defer"
         /\ pc[w] = "interval" =>
              /\ clock'[w] = Remaining(w) /\ known'[w] = interval
              /\ pc'[w] = IF Remaining(w) = 0 THEN "decide" ELSE "interval"
         /\ pc[w] = "wait" =>
              /\ clock'[w] = IF StillWaits(w) THEN clock[w] + 1 ELSE 0
              /\ pc'[w] = IF StillWaits(w) THEN "wait" ELSE "top"
         /\ pc[w] \in {"down", "pause", "defer", "interval", "wait"}
<1>1. /\ pc[w] \in {"down", "pause", "defer", "interval", "wait"}
      /\ clock'[w] = NewClock(w) /\ pc'[w] = After(w)
      /\ pc[w] = "interval" => known'[w] = interval
  BY DEF Tick, Types, TypeOK
<1>2. clock[w] \in Nat
  BY ConstantFacts DEF Types, TypeOK
<1>3. CASE pc[w] = "down" BY <1>1, <1>3 DEF NewClock, After
<1>4. CASE pc[w] = "pause" BY <1>1, <1>2, <1>4 DEF NewClock, After
<1>5. CASE pc[w] = "defer" BY <1>1, <1>2, <1>5 DEF NewClock, After
<1>6. CASE pc[w] = "interval" BY <1>1, <1>6 DEF NewClock, After
<1>7. CASE pc[w] = "wait" BY <1>1, <1>7 DEF NewClock, After
<1> QED BY <1>1, <1>3, <1>4, <1>5, <1>6, <1>7

LEMMA TickTypes == ASSUME Types, Tick PROVE Types'
<1>1. interval \in Nat /\ interval <= Longest
  BY ConstantFacts DEF Types, TypeOK
<1>2. ASSUME NEW w \in Workers
      PROVE  /\ pc'[w] \in Steps
             /\ clock'[w] \in 0 .. Longest + Retry + Patience
             /\ pc'[w] = "pause" => clock'[w] > 0 /\ clock'[w] <= Retry
             /\ pc'[w] \in {"defer", "interval"} => clock'[w] > 0 /\ clock'[w] <= Longest
  <2>1. clock[w] \in 0 .. Longest + Retry + Patience
    BY DEF Types, TypeOK
  <2>2. /\ pc[w] = "pause" => clock[w] > 0 /\ clock[w] <= Retry
        /\ pc[w] \in {"defer", "interval"} => clock[w] > 0 /\ clock[w] <= Longest
    BY DEF Types, Clocks
  <2>3. CASE pc[w] = "down" BY <2>3, TickAt, ConstantFacts DEF Steps
  <2>4. CASE pc[w] = "pause" BY <2>1, <2>2, <2>4, TickAt, ConstantFacts DEF Steps
  <2>5. CASE pc[w] = "defer" BY <2>1, <2>2, <2>5, TickAt, ConstantFacts DEF Steps
  <2>6. CASE pc[w] = "interval"
    BY <1>1, <2>1, <2>2, <2>6, TickAt, ConstantFacts DEF Steps, Remaining
  <2>7. CASE pc[w] = "wait" BY <2>1, <2>7, TickAt, ConstantFacts DEF Steps, StillWaits
  <2> QED BY <2>3, <2>4, <2>5, <2>6, <2>7, TickAt
<1>3. pc' = [w \in Workers |-> pc'[w]] /\ clock' = [w \in Workers |-> clock'[w]]
  BY DEF Tick
<1>4. pc' \in [Workers -> Steps] /\ clock' \in [Workers -> 0 .. Longest + Retry + Patience]
  BY <1>2, <1>3
<1>5. Clocks'
  BY <1>2 DEF Clocks
<1>6. known' \in [Workers -> Intervals]
  BY DEF Tick, Types, TypeOK
<1>7. left' \in 0 .. Ttl /\ since' \in 0 .. Longest
  BY ConstantFacts DEF Tick, Types, TypeOK
<1>8. idle' \in 0 .. Bound + 1
  <2>1. idle' = 0 \/ (idle > Bound /\ idle' = idle) \/ (~(idle > Bound) /\ idle' = idle + 1)
    BY DEF Tick
  <2>2. idle \in 0 .. Bound + 1
    BY DEF Types, TypeOK
  <2> QED BY <2>1, <2>2, BoundNat
<1>9. UNCHANGED <<interval, leader, lock, running, cp, first, events>>
  BY DEF Tick
<1> QED BY <1>4, <1>5, <1>6, <1>7, <1>8, <1>9 DEF Types, TypeOK, Steps

LEMMA SchedulerTypeStep == ASSUME Types, [Next]_vars PROVE Types'
<1>1. CASE Tick BY <1>1, TickTypes
<1>2. CASE SetInterval
  BY <1>2, BoundNat, ConstantFacts
  DEF SetInterval, Event, claim, phase, scheduler, Types, TypeOK, Clocks
<1>3. CASE LockExpires BY <1>3 DEF LockExpires, claim, scheduler, Types, TypeOK, Clocks
<1>4. ASSUME NEW w \in Workers, Top(w) PROVE Types'
  BY <1>4, TopTypes
<1>5. ASSUME NEW w \in Workers,
             \/ Decide(w) \/ ReadFails(w) \/ Request(w) \/ RunEnds(w)
             \/ Crash(w) \/ Restart(w) \/ Shutdown(w)
      PROVE  Types'
  BY <1>5, StepTypes
<1>6. CASE UNCHANGED vars BY <1>6 DEF vars, claim, phase, scheduler, Types, TypeOK, Clocks
<1> QED BY <1>1, <1>2, <1>3, <1>4, <1>5, <1>6 DEF Next

LEMMA SchedulerTypeInit == ASSUME Init PROVE Types
<1>1. /\ pc \in [Workers -> {"down", "top", "pause", "defer", "interval", "decide", "wait"}]
      /\ known \in [Workers -> Intervals]
      /\ \A w \in Workers : pc[w] = "pause" /\ clock[w] = 1
  BY DEF Init
<1>2. clock \in [Workers -> 0 .. Longest + Retry + Patience]
  <2>1. 1 \in 0 .. Longest + Retry + Patience
    BY ConstantFacts
  <2> QED BY <2>1 DEF Init
<1>3. Clocks
  BY <1>1, ConstantFacts DEF Clocks
<1>4. left \in 0 .. Ttl /\ since \in 0 .. Longest /\ events \in 0 .. MaxEvents /\ idle \in 0 .. Bound + 1
  BY ConstantFacts, BoundNat DEF Init
<1> QED BY <1>1, <1>2, <1>3, <1>4 DEF Init, Types, TypeOK

\* The type invariant of the schedulers.
THEOREM SchedulerTypeCorrect == Spec => []TypeOK
<1>1. Types => TypeOK
  BY DEF Types
<1> QED BY <1>1, SchedulerTypeInit, SchedulerTypeStep, PTL DEF Spec

-----------------------------------------------------------------------------
(* Who will start the next run, and when. *)

\* Workers that are past the election: nobody stops them from starting a run.
Committed == {w \in Workers : pc[w] \in {"interval", "defer", "decide"}}

\* Workers that will take part in the election again, and those among them
\* whose first cycle is over: they sleep a whole interval when they are elected.
Awake == {w \in Workers : pc[w] \in {"top", "pause", "wait"}}
Settled == Awake \ first

\* How long it is to the next election of w, and to its next decision.
Nap(w) == IF pc[w] = "pause" THEN clock[w] ELSE IF pc[w] = "wait" THEN 1 ELSE 0
Due(w) ==
  IF pc[w] = "defer" \/ (pc[w] = "interval" /\ interval = known[w]) THEN clock[w]
  ELSE IF pc[w] = "interval" THEN interval + 1
  ELSE 0

\* What a step has to leave in order, one actor to the other.
OneRunner == running \subseteq {lock}
BusyIsNotIdle == lock # Nobody \/ interval = 0 \/ (\E w \in Workers : pc[w] = "wait") => idle = 0
IdleSince == idle <= since \/ since = Longest
FirstIsFirst == \A w \in Workers : w \in Committed \/ pc[w] = "wait" => w \notin first
LedOrFailed == leader \in Committed \cup Settled \/ left = 0 \/ events >= 1

Orderly == Types /\ OneRunner /\ BusyIsNotIdle /\ IdleSince /\ FirstIsFirst /\ LedOrFailed

\* A worker that goes on to a step leaves the sets of the others alone.
LEMMA GotoSets ==
  ASSUME TypeOK, NEW w \in Workers, NEW step, NEW ticks, Goto(w, step, ticks)
  PROVE  /\ Committed' = IF step \in {"interval", "defer", "decide"}
                         THEN Committed \cup {w} ELSE Committed \ {w}
         /\ Awake' = IF step \in {"top", "pause", "wait"} THEN Awake \cup {w} ELSE Awake \ {w}
  BY GotoFacts DEF Committed, Awake

LEMMA SetFacts ==
  /\ Committed \subseteq Workers /\ Awake \subseteq Workers /\ Settled \subseteq Awake
  /\ Committed \cap Awake = {}
  /\ IsFiniteSet(Committed)
<1>1. Committed \subseteq Workers /\ Awake \subseteq Workers /\ Committed \cap Awake = {}
  BY DEF Committed, Awake
<1>2. IsFiniteSet(Committed)
  BY <1>1, FS_Subset, SchedulerAssumption
<1> QED BY <1>1, <1>2 DEF Settled

LEMMA OrderlyInit == ASSUME Init PROVE Orderly
<1>1. Types
  BY SchedulerTypeInit
<1>2. \A w \in Workers : pc[w] = "pause"
  BY DEF Init
<1> QED BY <1>1, <1>2
        DEF Init, Orderly, OneRunner, BusyIsNotIdle, IdleSince, FirstIsFirst, LedOrFailed, Committed

\* What the top of the loop comes to.
Elected(w) == MayLead(w) /\ leader' = w /\ left' = Ttl
Quiet == UNCHANGED <<interval, lock, running, since, idle>>

Refused(w) ==
  /\ ~MayLead(w) /\ Goto(w, "pause", 1) /\ Quiet /\ UNCHANGED <<leader, left, first, events>>
Failed(w) ==
  /\ Elected(w) /\ Event /\ Goto(w, "pause", Retry) /\ Quiet /\ UNCHANGED first
OffOrBusy(w) ==
  /\ interval = 0 \/ lock # Nobody \/ w \in running
  /\ Elected(w) /\ Quiet /\ UNCHANGED events
  /\ first' = first \ {w}
  /\ Goto(w, "pause", Retry) \/ Goto(w, "pause", 1) \/ Goto(w, "top", 0)
Resumed(w) ==
  /\ Elected(w) /\ StartRun(w) /\ UNCHANGED <<interval, since, events>>
  /\ first' = first \ {w}
  /\ Goto(w, "top", 0)
Commits(w) ==
  /\ Elected(w) /\ Quiet /\ UNCHANGED events
  /\ first' = first \ {w}
  /\ \/ Goto(w, "decide", 0)
     \/ since < interval /\ Goto(w, "defer", interval - since)
     \/ w \notin first /\ interval # 0 /\ Goto(w, "interval", interval)

LEMMA TopCases ==
  ASSUME NEW w \in Workers, Top(w)
  PROVE  /\ Refused(w) \/ Failed(w) \/ OffOrBusy(w) \/ Resumed(w) \/ Commits(w)
         /\ pc[w] = "top" /\ known' = [known EXCEPT ![w] = interval]
<1>1. pc[w] = "top" /\ known' = [known EXCEPT ![w] = interval] /\ UNCHANGED <<interval, since>>
  BY DEF Top
<1>2. CASE ~MayLead(w)
  BY <1>1, <1>2 DEF Top, Refused, Quiet, claim
<1>3. ASSUME MayLead(w), Event, Goto(w, "pause", Retry), UNCHANGED <<lock, running, first, idle>>,
             leader' = w, left' = Ttl
      PROVE  Failed(w)
  BY <1>1, <1>3 DEF Failed, Elected, Quiet
<1>4. ASSUME MayLead(w), interval = 0, first' = first \ {w}, Goto(w, "pause", Retry),
             UNCHANGED <<lock, running, idle, events>>, leader' = w, left' = Ttl
      PROVE  OffOrBusy(w)
  BY <1>1, <1>4 DEF OffOrBusy, Elected, Quiet
<1>5. ASSUME MayLead(w), w \in first, FirstCycle(w), UNCHANGED events, leader' = w, left' = Ttl
      PROVE  OffOrBusy(w) \/ Resumed(w) \/ Commits(w)
  <2>1. CASE cp /\ lock = Nobody /\ w \notin running
    BY <1>1, <1>5, <2>1 DEF FirstCycle, Resumed, Elected
  <2>2. CASE cp /\ ~(lock = Nobody /\ w \notin running)
    BY <1>1, <1>5, <2>2 DEF FirstCycle, OffOrBusy, Elected, Quiet
  <2>3. CASE ~cp
    BY <1>1, <1>5, <2>3 DEF FirstCycle, Commits, Elected, Quiet
  <2> QED BY <2>1, <2>2, <2>3
<1>6. ASSUME MayLead(w), w \notin first, interval # 0, Goto(w, "interval", interval),
             UNCHANGED <<lock, running, first, idle, events>>, leader' = w, left' = Ttl
      PROVE  Commits(w)
  <2>1. first' = first \ {w}
    BY <1>6
  <2> QED BY <1>1, <1>6, <2>1 DEF Commits, Elected, Quiet
<1>7. Refused(w) \/ Failed(w) \/ OffOrBusy(w) \/ Resumed(w) \/ Commits(w)
  BY <1>2, <1>3, <1>4, <1>5, <1>6 DEF Top
<1> QED BY <1>1, <1>7

LEMMA OrderlyTop == ASSUME Orderly, NEW w \in Workers, Top(w) PROVE Orderly'
<1>0. Types /\ TypeOK /\ Types' /\ pc[w] = "top"
  BY TopTypes, TopCases DEF Orderly, Types
<1>1. ASSUME pc'[w] \in {"pause", "top", "decide", "defer", "interval"},
             \A v \in Workers : v # w => pc'[v] = pc[v],
             first' \in {first, first \ {w}},
             pc'[w] \in {"interval", "defer", "decide"} => w \notin first',
             Quiet \/ (StartRun(w) /\ UNCHANGED <<interval, since>>),
             \/ UNCHANGED <<leader, left, events>> /\ pc'[w] = "pause"
             \/ leader' = w /\ (events' # 0 \/ (UNCHANGED events /\ w \notin first'))
      PROVE  Orderly'
  <2>1. /\ \A v \in Workers : v # w => (v \in Committed' <=> v \in Committed)
        /\ w \in Committed' \/ w \in Awake'
    BY <1>1 DEF Committed, Awake
  <2>2. OneRunner'
    BY <1>0, <1>1, SchedulerAssumption DEF Quiet, StartRun, Orderly, OneRunner, Types, TypeOK
  <2>3. BusyIsNotIdle'
    BY <1>1, <2>1 DEF Quiet, StartRun, Orderly, BusyIsNotIdle
  <2>4. IdleSince'
    BY <1>0, <1>1, ConstantFacts DEF Quiet, StartRun, Orderly, IdleSince, Types, TypeOK
  <2>5. FirstIsFirst'
    BY <1>1, <2>1 DEF Orderly, FirstIsFirst, Committed
  <2>6. LedOrFailed'
    <3>1. CASE leader' = w /\ events' # 0
      BY <1>0, <3>1, ConstantFacts DEF LedOrFailed, Types, TypeOK
    <3>2. CASE leader' = w /\ w \notin first'
      BY <2>1, <3>2 DEF LedOrFailed, Settled
    <3>3. CASE UNCHANGED <<leader, left, events>> /\ pc'[w] = "pause"
      <4>1. Committed' = Committed
        BY <1>0, <1>1, <3>3 DEF Committed
      <4>2. Awake' = Awake
        BY <1>0, <1>1, <3>3 DEF Awake
      <4> QED BY <1>1, <3>3, <4>1, <4>2 DEF Orderly, LedOrFailed, Settled
    <3> QED BY <1>1, <3>1, <3>2, <3>3
  <2> QED BY <1>0, <2>2, <2>3, <2>4, <2>5, <2>6 DEF Orderly
<1>2. CASE Refused(w)
  BY <1>0, <1>1, <1>2, GotoFacts DEF Refused, Quiet
<1>3. CASE Failed(w)
  <2>1. pc'[w] = "pause" /\ \A v \in Workers : v # w => pc'[v] = pc[v]
    BY <1>0, <1>3, GotoFacts DEF Failed
  <2>2. leader' = w /\ first' \in {first, first \ {w}}
    BY <1>3 DEF Failed, Elected
  <2>3. events' # 0
    BY <1>0, <1>3, ConstantFacts DEF Failed, Event, Types, TypeOK
  <2>4. UNCHANGED <<interval, lock, running, since, idle>>
    BY <1>3 DEF Failed, Quiet
  <2>5. pc'[w] \in {"pause", "top", "decide", "defer", "interval"}
        /\ pc'[w] \notin {"interval", "defer", "decide"}
    BY <2>1
  <2> QED BY <1>1, <2>1, <2>2, <2>3, <2>4, <2>5 DEF Quiet
<1>4. CASE OffOrBusy(w)
  <2>1. pc'[w] \in {"pause", "top"} /\ \A v \in Workers : v # w => pc'[v] = pc[v]
    BY <1>0, <1>4, GotoFacts DEF OffOrBusy
  <2> QED BY <1>1, <1>4, <2>1 DEF OffOrBusy, Elected, Quiet
<1>5. CASE Resumed(w)
  BY <1>0, <1>1, <1>5, GotoFacts DEF Resumed, Elected
<1>6. CASE Commits(w)
  <2>1. pc'[w] \in {"decide", "defer", "interval"} /\ \A v \in Workers : v # w => pc'[v] = pc[v]
    BY <1>0, <1>6, GotoFacts DEF Commits
  <2> QED BY <1>1, <1>6, <2>1 DEF Commits, Elected, Quiet
<1> QED BY <1>2, <1>3, <1>4, <1>5, <1>6, TopCases

LEMMA OrderlyDecide ==
  ASSUME Orderly, NEW w \in Workers, Decide(w)
  PROVE  Orderly' /\ idle' = 0
<1>0. Types /\ TypeOK /\ Types' /\ pc[w] = "decide" /\ w \in Committed /\ w \notin first
  BY StepTypes DEF Orderly, Types, Decide, Committed, FirstIsFirst
<1>1. idle' = 0
  BY SchedulerAssumption DEF Decide, StartRun, Orderly, BusyIsNotIdle, OneRunner
<1>2. PICK step \in {"pause", "wait"} : \E ticks : Goto(w, step, ticks)
  BY DEF Decide
<1>3. /\ pc'[w] = step /\ \A v \in Workers : v # w => pc'[v] = pc[v]
      /\ Committed' = Committed \ {w} /\ Awake' = Awake \cup {w}
  BY <1>0, <1>2, GotoFacts, GotoSets
<1>4. UNCHANGED <<interval, leader, left, since, first, events>>
  BY DEF Decide, claim
<1>5. OneRunner'
  BY <1>0, SchedulerAssumption DEF Decide, StartRun, Orderly, OneRunner, Types, TypeOK
<1>6. BusyIsNotIdle' /\ IdleSince'
  BY <1>0, <1>1, ConstantFacts DEF BusyIsNotIdle, IdleSince, Types, TypeOK
<1>7. FirstIsFirst'
  BY <1>0, <1>3, <1>4 DEF Orderly, FirstIsFirst
<1>8. LedOrFailed'
  BY <1>0, <1>3, <1>4 DEF Orderly, LedOrFailed, Settled
<1> QED BY <1>0, <1>1, <1>5, <1>6, <1>7, <1>8 DEF Orderly

LEMMA OrderlyReadFails == ASSUME Orderly, NEW w \in Workers, ReadFails(w) PROVE Orderly'
<1>0. Types /\ TypeOK /\ Types' /\ w \in Committed
  BY StepTypes DEF Orderly, Types, ReadFails, Committed
<1>1. /\ pc'[w] = "decide" /\ \A v \in Workers : v # w => pc'[v] = pc[v]
      /\ Committed' = Committed
  BY <1>0, GotoFacts, GotoSets DEF ReadFails
<1>2. UNCHANGED <<interval, leader, left, lock, running, since, first, idle>> /\ events' = events + 1
  BY DEF ReadFails, claim, phase, Event
<1>3. OneRunner' /\ BusyIsNotIdle' /\ IdleSince'
  BY <1>1, <1>2 DEF Orderly, OneRunner, BusyIsNotIdle, IdleSince
<1>4. FirstIsFirst'
  BY <1>0, <1>1, <1>2 DEF Orderly, FirstIsFirst
<1>5. LedOrFailed'
  BY <1>0, <1>2, ConstantFacts DEF LedOrFailed, Types, TypeOK
<1> QED BY <1>0, <1>3, <1>4, <1>5 DEF Orderly

\* A worker dies or is shut down.
Leaves(w) == Crash(w) \/ Shutdown(w)

LEMMA LeavesFacts ==
  ASSUME Types, NEW w \in Workers, Leaves(w)
  PROVE  /\ pc'[w] = "down" /\ \A v \in Workers : v # w => pc'[v] = pc[v] /\ clock'[v] = clock[v]
         /\ Committed' = Committed \ {w} /\ Awake' = Awake \ {w}
         /\ UNCHANGED <<interval, left, since, known, first, idle>>
         /\ leader # w => leader' = leader
         /\ leader = w => leader' \notin Workers
         /\ events < MaxEvents /\ events' = events + 1
<1>1. Goto(w, "down", 0) /\ TypeOK
  BY DEF Leaves, Crash, Shutdown, Types
<1>2. /\ UNCHANGED <<interval, left, since, known, first, idle>>
      /\ events < MaxEvents /\ events' = events + 1
      /\ leader # w => leader' = leader
  BY DEF Leaves, Crash, Shutdown, phase, Event
<1>3. leader = w => leader' \notin Workers
  BY SchedulerAssumption DEF Leaves, Crash, Shutdown
<1>4. /\ pc'[w] = "down" /\ \A v \in Workers : v # w => pc'[v] = pc[v] /\ clock'[v] = clock[v]
      /\ Committed' = Committed \ {w} /\ Awake' = Awake \ {w}
  BY <1>1, GotoFacts, GotoSets
<1> QED BY <1>2, <1>3, <1>4

LEMMA OrderlyLeaves == ASSUME Orderly, NEW w \in Workers, Leaves(w) PROVE Orderly'
<1>0. Types /\ TypeOK /\ Types'
  BY StepTypes DEF Orderly, Types, Leaves
<1>1. OneRunner'
  BY <1>0, SchedulerAssumption DEF Leaves, Crash, Shutdown, phase, Orderly, OneRunner, Types, TypeOK
<1>2. lock' # Nobody => lock # Nobody
  BY <1>0, SchedulerAssumption DEF Leaves, Crash, Shutdown, phase, Types, TypeOK
<1>3. BusyIsNotIdle'
  BY <1>0, <1>2, LeavesFacts DEF Orderly, BusyIsNotIdle
<1>4. IdleSince' /\ FirstIsFirst'
  BY <1>0, LeavesFacts DEF Orderly, IdleSince, FirstIsFirst
<1>5. LedOrFailed'
  BY <1>0, LeavesFacts, ConstantFacts DEF LedOrFailed, Types, TypeOK
<1> QED BY <1>0, <1>1, <1>3, <1>4, <1>5 DEF Orderly

LEMMA RestartFacts ==
  ASSUME Types, NEW w \in Workers, Restart(w)
  PROVE  /\ pc[w] = "down" /\ pc'[w] = "pause" /\ clock'[w] = 1
         /\ \A v \in Workers : v # w => pc'[v] = pc[v] /\ clock'[v] = clock[v]
         /\ Committed' = Committed /\ Awake' = Awake \cup {w} /\ Settled' = Settled
         /\ first' = first \cup {w}
         /\ UNCHANGED <<interval, leader, left, lock, running, since, known, events, idle>>
<1>1. pc[w] = "down" /\ Goto(w, "pause", 1) /\ TypeOK /\ first' = first \cup {w}
  BY DEF Restart, Types
<1>2. /\ pc'[w] = "pause" /\ clock'[w] = 1
      /\ \A v \in Workers : v # w => pc'[v] = pc[v] /\ clock'[v] = clock[v]
      /\ Committed' = Committed \ {w} /\ Awake' = Awake \cup {w}
  BY <1>1, GotoFacts, GotoSets
<1>3. w \notin Committed /\ w \notin Awake
  BY <1>1 DEF Committed, Awake
<1>4. Settled' = Settled
  BY <1>1, <1>2, <1>3 DEF Settled
<1>5. UNCHANGED <<interval, leader, left, lock, running, since, known, events, idle>>
  BY DEF Restart, claim, phase
<1> QED BY <1>1, <1>2, <1>3, <1>4, <1>5

LEMMA OrderlyRestart == ASSUME Orderly, NEW w \in Workers, Restart(w) PROVE Orderly'
<1>0. Types /\ TypeOK /\ Types' /\ w \notin Committed
  BY StepTypes DEF Orderly, Types, Committed, Restart
<1>1. OneRunner' /\ BusyIsNotIdle' /\ IdleSince'
  BY <1>0, RestartFacts DEF Orderly, OneRunner, BusyIsNotIdle, IdleSince
<1>2. FirstIsFirst'
  BY <1>0, RestartFacts DEF Orderly, FirstIsFirst
<1>3. LedOrFailed'
  BY <1>0, RestartFacts DEF Orderly, LedOrFailed
<1> QED BY <1>0, <1>1, <1>2, <1>3 DEF Orderly

\* Runs that start, end or expire, and a change of the interval.
Around ==
  \/ SetInterval \/ LockExpires
  \/ \E w \in Workers : Request(w) \/ RunEnds(w)

LEMMA OrderlyAround ==
  ASSUME Orderly, Around
  PROVE  Orderly' /\ idle' = 0
<1>0. Types /\ TypeOK /\ Types'
  BY SchedulerTypeStep DEF Orderly, Types, Around, Next
<1>1. idle' = 0
  BY SchedulerAssumption
  DEF Around, SetInterval, LockExpires, Request, StartRun, RunEnds, Orderly, OneRunner, BusyIsNotIdle
<1>2. UNCHANGED <<pc, first, leader, left>> /\ (events' = events \/ events' = events + 1)
  BY DEF Around, SetInterval, LockExpires, Request, RunEnds, Event, claim, scheduler
<1>3. OneRunner'
  BY <1>0, SchedulerAssumption
  DEF Around, SetInterval, LockExpires, Request, StartRun, RunEnds, phase,
      Orderly, OneRunner, Types, TypeOK
<1>4. BusyIsNotIdle' /\ IdleSince'
  BY <1>0, <1>1, ConstantFacts DEF BusyIsNotIdle, IdleSince, Types, TypeOK
<1>5. Committed' = Committed /\ Settled' = Settled
  BY <1>2 DEF Committed, Settled, Awake
<1>6. FirstIsFirst'
  BY <1>2, <1>5 DEF Orderly, FirstIsFirst
<1>7. LedOrFailed'
  BY <1>0, <1>2, <1>5, ConstantFacts DEF Orderly, LedOrFailed, Types, TypeOK
<1> QED BY <1>0, <1>1, <1>3, <1>4, <1>6, <1>7 DEF Orderly

LEMMA TickSets ==
  ASSUME Types, Tick
  PROVE  Committed' = Committed /\ Awake' = Awake /\ Settled' = Settled
<1>1. \A w \in Workers : /\ pc'[w] \in {"interval", "defer", "decide"} <=> pc[w] \in {"interval", "defer", "decide"}
                         /\ pc'[w] \in {"top", "pause", "wait"} <=> pc[w] \in {"top", "pause", "wait"}
  BY TickAt
<1>2. first' = first
  BY DEF Tick
<1> QED BY <1>1, <1>2 DEF Committed, Awake, Settled

LEMMA OrderlyTick == ASSUME Orderly, Tick PROVE Orderly'
<1>0. Types /\ TypeOK /\ Types'
  BY TickTypes DEF Orderly, Types
<1>1. /\ UNCHANGED <<interval, leader, lock, running, first, events>>
      /\ since' = IF since = Longest THEN since ELSE since + 1
      /\ Off => idle' = 0
      /\ idle' = 0 \/ idle' = idle \/ idle' = idle + 1
      /\ left' = IF leader \in Workers /\ pc[leader] = "wait" THEN Ttl
                 ELSE IF left = 0 THEN 0 ELSE left - 1
  BY DEF Tick
<1>2. OneRunner'
  BY <1>1 DEF Orderly, OneRunner
<1>3. ASSUME NEW w \in Workers, pc'[w] = "wait" PROVE pc[w] = "wait" /\ lock # Nobody
  <2>1. pc[w] = "wait" /\ StillWaits(w)
    BY <1>0, <1>3, TickAt
  <2> QED BY <2>1, SchedulerAssumption DEF StillWaits, Orderly, OneRunner
<1>4. BusyIsNotIdle'
  BY <1>1, <1>3 DEF BusyIsNotIdle, Off
<1>5. IdleSince'
  <2>1. since \in Nat /\ since <= Longest /\ idle \in Nat
    BY <1>0, ConstantFacts, BoundNat DEF Types, TypeOK
  <2> QED BY <1>1, <2>1, ConstantFacts DEF Orderly, IdleSince
<1>6. FirstIsFirst'
  BY <1>0, <1>1, <1>3, TickSets DEF Orderly, FirstIsFirst
<1>7. LedOrFailed'
  <2>1. ASSUME leader \in Workers, pc[leader] = "wait" PROVE leader \in Settled
    BY <2>1 DEF Orderly, FirstIsFirst, Settled, Awake
  <2> QED BY <1>0, <1>1, <2>1, TickSets DEF Orderly, LedOrFailed
<1> QED BY <1>0, <1>2, <1>4, <1>5, <1>6, <1>7 DEF Orderly

-----------------------------------------------------------------------------
(* How long it can be until then. *)

\* How many more could yet be elected and die: each death takes an event, and
\* each event pays for the term of the claim that the dead worker leaves.  The
\* others have also to wait for a settled leader, which commits itself first.
Rank == Cardinality(Committed)
Extra == IF leader \in Settled THEN 1 ELSE 0

\* Settled workers run for election, and the claim of another runs out, in time.
ClaimsRunOut ==
  \A u \in Settled : u # leader =>
    /\ idle + Nap(u) <= Slack(Rank + Extra + events)
    /\ idle + left <= Slack(Rank + Extra + events)

\* A settled leader does not have to wait for its own claim.
LeaderIsNext ==
  leader \in Settled => idle + Nap(leader) <= Slack(Rank + events)

\* Whichever committed workers die, one of the others is due.
SomeoneIsDue ==
  \A K \in SUBSET Committed : K # Committed =>
    \E w \in Committed \ K : idle + Due(w) <= Longest + Slack(Cardinality(K) + events)

\* When there are only workers in their first cycle, or none.
SomeoneWakes ==
  Committed \cup Settled = {} =>
    /\ idle + left <= Longest + Slack(events)
    /\ Awake = {} => idle + 1 <= Longest + Slack(events)
    /\ Awake # {} => \E u \in Awake : idle + Nap(u) <= Longest + Slack(events)

NotLate == idle <= Longest + Slack(events)

Waits == ClaimsRunOut /\ LeaderIsNext /\ SomeoneIsDue /\ SomeoneWakes /\ NotLate

LEMMA NumberFacts ==
  ASSUME Types
  PROVE  /\ idle \in Nat /\ left \in Nat /\ left <= Ttl /\ since \in Nat /\ since <= Longest
         /\ events \in Nat /\ events <= MaxEvents
         /\ interval \in Nat /\ interval <= Longest
<1>1. idle \in Nat
  BY BoundNat DEF Types, TypeOK
<1> QED BY <1>1, ConstantFacts DEF Types, TypeOK

LEMMA SleepFacts ==
  ASSUME Types, NEW w \in Workers
  PROVE  /\ Nap(w) \in Nat /\ Nap(w) <= Retry
         /\ w \in Awake /\ pc[w] # "top" => Nap(w) >= 1
         /\ Due(w) \in Nat /\ Due(w) <= Longest + 1
         /\ w \in Committed /\ pc[w] # "decide" => Due(w) >= 1
<1>1. clock[w] \in Nat
  BY ConstantFacts DEF Types, TypeOK
<1>2. /\ pc[w] = "pause" => clock[w] > 0 /\ clock[w] <= Retry
      /\ pc[w] \in {"defer", "interval"} => clock[w] > 0 /\ clock[w] <= Longest
  BY DEF Types, Clocks
<1>3. Nap(w) \in Nat /\ Nap(w) <= Retry
  BY <1>1, <1>2, ConstantFacts DEF Nap
<1>4. w \in Awake /\ pc[w] # "top" => Nap(w) >= 1
  BY <1>1, <1>2 DEF Nap, Awake
<1>5. Due(w) \in Nat /\ Due(w) <= Longest + 1
  BY <1>1, <1>2, NumberFacts, ConstantFacts DEF Due
<1>6. w \in Committed /\ pc[w] # "decide" => Due(w) >= 1
  BY <1>1, <1>2, NumberFacts DEF Due, Committed
<1> QED BY <1>3, <1>4, <1>5, <1>6

LEMMA CardFacts ==
  /\ Rank \in Nat /\ \A w \in Committed : Rank >= 1
  /\ \A K \in SUBSET Committed : Cardinality(K) \in Nat /\ Cardinality(K) <= Rank
  /\ \A K \in SUBSET Committed : K # Committed => Cardinality(K) + 1 <= Rank
  /\ \A K \in SUBSET Committed : \A w \in Committed \ K : Cardinality(K \cup {w}) = Cardinality(K) + 1
  /\ \A w \in Committed : Cardinality(Committed \ {w}) = Rank - 1
  /\ \A w : w \notin Committed => Cardinality(Committed \cup {w}) = Rank + 1
  /\ Cardinality({}) = 0
<1>0. IsFiniteSet(Committed)
  BY SetFacts
<1>1. Rank \in Nat
  BY <1>0, FS_CardinalityType DEF Rank
<1>2. ASSUME NEW K \in SUBSET Committed
      PROVE  /\ IsFiniteSet(K) /\ Cardinality(K) \in Nat /\ Cardinality(K) <= Rank
             /\ K # Committed => Cardinality(K) + 1 <= Rank
  <2>1. IsFiniteSet(K) /\ Cardinality(K) <= Cardinality(Committed)
        /\ (Cardinality(Committed) = Cardinality(K) => K = Committed)
    BY <1>0, FS_Subset
  <2>2. Cardinality(K) \in Nat
    BY <2>1, FS_CardinalityType
  <2> QED BY <1>1, <2>1, <2>2 DEF Rank
<1>3. ASSUME NEW K \in SUBSET Committed, NEW w \in Committed \ K
      PROVE  Cardinality(K \cup {w}) = Cardinality(K) + 1
  BY <1>2, FS_AddElement
<1>4. ASSUME NEW w \in Committed
      PROVE  Cardinality(Committed \ {w}) = Rank - 1 /\ Rank >= 1
  <2>1. Cardinality(Committed \ {w}) = Cardinality(Committed) - 1
    BY <1>0, FS_RemoveElement
  <2>2. Cardinality(Committed \ {w}) \in Nat
    BY <1>2
  <2> QED BY <1>1, <2>1, <2>2 DEF Rank
<1>5. ASSUME NEW w, w \notin Committed PROVE Cardinality(Committed \cup {w}) = Rank + 1
  BY <1>0, <1>5, FS_AddElement DEF Rank
<1>6. Cardinality({}) = 0
  BY FS_EmptySet
<1> QED BY <1>1, <1>2, <1>3, <1>4, <1>5, <1>6

\* Nothing is late when a run has just been started.
LEMMA WaitsAtFirst == Orderly /\ idle = 0 => Waits
<1> SUFFICES ASSUME Orderly, idle = 0 PROVE Waits
  OBVIOUS
<1>0. Types
  BY DEF Orderly
<1>1. left <= Slack(Rank + Extra + events)
  <2>1. Extra \in Nat /\ Rank \in Nat /\ events \in Nat
    BY <1>0, CardFacts, NumberFacts DEF Extra
  <2>2. CASE leader \in Committed \cup Settled \/ events >= 1
    <3>1. Rank + Extra + events >= 1
      BY <2>1, <2>2, CardFacts DEF Extra
    <3>2. Slack(1) = Slack(0) + Ttl /\ Slack(0) \in Nat /\ Slack(1) <= Slack(Rank + Extra + events)
          /\ Slack(Rank + Extra + events) \in Nat
      <4>1. Slack(0 + 1) = Slack(0) + Ttl /\ Slack(0) \in Nat
        BY SlackFacts
      <4>2. Rank + Extra + events \in Nat
        BY <2>1
      <4> QED BY <3>1, <4>1, <4>2, SlackFacts
    <3> QED BY <1>0, <3>2, NumberFacts, ConstantFacts
  <2>3. CASE left = 0
    <3>1. Slack(Rank + Extra + events) \in Nat
      BY <2>1, SlackFacts
    <3> QED BY <2>3, <3>1
  <2> QED BY <2>2, <2>3 DEF Orderly, LedOrFailed
<1>2. ClaimsRunOut
  <2> SUFFICES ASSUME NEW u \in Settled
               PROVE  Nap(u) <= Slack(Rank + Extra + events) /\ left <= Slack(Rank + Extra + events)
    <3>1. ASSUME NEW u \in Settled PROVE Nap(u) \in Nat /\ left \in Nat
      BY <1>0, <3>1, SleepFacts, SetFacts, NumberFacts
    <3> QED BY <3>1 DEF ClaimsRunOut
  <2>1. Rank + Extra + events \in Nat
    BY <1>0, CardFacts, NumberFacts DEF Extra
  <2>2. Slack(Rank + Extra + events) >= Retry /\ Slack(Rank + Extra + events) \in Nat
    BY <2>1, SlackFacts
  <2>3. Nap(u) <= Retry /\ Nap(u) \in Nat
    BY <1>0, SleepFacts, SetFacts
  <2> QED BY <1>1, <2>2, <2>3, ConstantFacts
<1>3. LeaderIsNext
  <2> SUFFICES ASSUME leader \in Settled PROVE Nap(leader) <= Slack(Rank + events)
    <3>1. ASSUME leader \in Settled PROVE Nap(leader) \in Nat
      BY <1>0, <3>1, SleepFacts, SetFacts
    <3> QED BY <3>1 DEF LeaderIsNext
  <2>1. Rank + events \in Nat
    BY <1>0, CardFacts, NumberFacts
  <2>2. Slack(Rank + events) >= Retry /\ Slack(Rank + events) \in Nat
    BY <2>1, SlackFacts
  <2>3. Nap(leader) <= Retry /\ Nap(leader) \in Nat
    BY <1>0, SleepFacts, SetFacts
  <2> QED BY <2>2, <2>3, ConstantFacts
<1>4. SomeoneIsDue
  <2> SUFFICES ASSUME NEW K \in SUBSET Committed, NEW w \in Committed \ K
               PROVE  idle + Due(w) <= Longest + Slack(Cardinality(K) + events)
    BY DEF SomeoneIsDue
  <2>1. Cardinality(K) + events \in Nat
    BY <1>0, CardFacts, NumberFacts
  <2>2. Slack(Cardinality(K) + events) >= Retry /\ Slack(Cardinality(K) + events) \in Nat
    BY <2>1, SlackFacts
  <2>3. Due(w) <= Longest + 1 /\ Due(w) \in Nat
    BY <1>0, SleepFacts, SetFacts
  <2> QED BY <2>2, <2>3, ConstantFacts
<1>5. Slack(events) >= Retry /\ Slack(events) \in Nat
  BY <1>0, NumberFacts, SlackFacts
<1>6. SomeoneWakes
  <2> SUFFICES ASSUME Committed \cup Settled = {}
               PROVE  /\ idle + left <= Longest + Slack(events)
                      /\ Awake = {} => idle + 1 <= Longest + Slack(events)
                      /\ Awake # {} => \E u \in Awake : idle + Nap(u) <= Longest + Slack(events)
    BY DEF SomeoneWakes
  <2>1. Rank = 0 /\ Extra = 0 /\ Rank + Extra + events = events
    <3>1. Committed = {} /\ leader \notin Settled
      OBVIOUS
    <3> QED BY <1>0, <3>1, CardFacts, NumberFacts DEF Rank, Extra
  <2>2. left <= Slack(events) /\ left \in Nat
    BY <1>0, <1>1, <2>1, NumberFacts
  <2>3. ASSUME NEW u \in Awake PROVE idle + Nap(u) <= Longest + Slack(events)
    <3>1. Nap(u) <= Retry /\ Nap(u) \in Nat
      BY <1>0, SleepFacts, SetFacts
    <3> QED BY <1>5, <3>1, ConstantFacts
  <2>4. idle + left <= Longest + Slack(events) /\ idle + 1 <= Longest + Slack(events)
    BY <1>5, <2>2, ConstantFacts
  <2> QED BY <2>3, <2>4
<1>7. NotLate
  BY <1>5, ConstantFacts DEF NotLate
<1> QED BY <1>2, <1>3, <1>4, <1>6, <1>7 DEF Waits

\* Where only w moves, the others sleep as long as they did.
LEMMA OthersSleepOn ==
  ASSUME NEW v \in Workers, interval' = interval, known'[v] = known[v],
         pc'[v] = pc[v], clock'[v] = clock[v]
  PROVE  Nap(v)' = Nap(v) /\ Due(v)' = Due(v)
<1>1. Nap(v)' = Nap(v)
  BY DEF Nap
<1>2. Due(v)' = Due(v)
  BY DEF Due
<1> QED BY <1>1, <1>2

\* What is left to a settled worker, with one more committed or one more event.
LEMMA SettledFacts ==
  ASSUME Types, Waits, NEW u \in Settled
  PROVE  /\ idle <= Slack(Rank + events)
         /\ idle + Nap(u) <= Slack(Rank + events + 1)
         /\ Slack(Rank + events + 1) = Slack(Rank + events) + Ttl
         /\ Rank + events \in Nat /\ Slack(Rank + events) \in Nat
<1>1. /\ Rank \in Nat /\ events \in Nat /\ idle \in Nat /\ left \in Nat
      /\ Extra \in {0, 1} /\ Rank + events \in Nat
  BY CardFacts, NumberFacts DEF Extra
<1>2. /\ Slack(Rank + events + 1) = Slack(Rank + events) + Ttl
      /\ Slack(Rank + events) \in Nat /\ Slack(Rank + events + 1) \in Nat
  <2>1. \A n \in Nat : Slack(n + 1) = Slack(n) + Ttl /\ Slack(n) \in Nat /\ Slack(n + 1) \in Nat
    <3> TAKE n \in Nat
    <3>1. Slack(n + 1) = Slack(n) + Ttl /\ Slack(n) \in Nat
      BY SlackFacts
    <3> QED BY <3>1, ConstantFacts
  <2> QED BY <1>1, <2>1
<1>3. Nap(u) \in Nat /\ (leader \in Settled => Nap(leader) \in Nat)
  BY SleepFacts, SetFacts
<1>4. CASE leader \in Settled
  <2>1. idle <= Slack(Rank + events)
    BY <1>1, <1>2, <1>3, <1>4 DEF Waits, LeaderIsNext
  <2>2. CASE u = leader
    BY <1>1, <1>2, <1>3, <1>4, <2>1, <2>2, ConstantFacts DEF Waits, LeaderIsNext
  <2>3. CASE u # leader
    <3>1. Rank + Extra + events = Rank + events + 1
      BY <1>1, <1>4 DEF Extra
    <3>2. idle + Nap(u) <= Slack(Rank + Extra + events)
      BY <2>3 DEF Waits, ClaimsRunOut
    <3>3. Slack(Rank + Extra + events) = Slack(Rank + events + 1)
      BY <3>1
    <3>4. idle + Nap(u) <= Slack(Rank + events + 1)
      BY <3>2, <3>3
    <3> QED BY <1>1, <1>2, <2>1, <3>4
  <2> QED BY <1>1, <1>2, <2>1, <2>2, <2>3
<1>5. CASE leader \notin Settled
  <2>1. Rank + Extra + events = Rank + events /\ u # leader
    BY <1>1, <1>5 DEF Extra
  <2>2. idle + Nap(u) <= Slack(Rank + events)
    BY <2>1 DEF Waits, ClaimsRunOut
  <2> QED BY <1>1, <1>2, <1>3, <2>2, ConstantFacts
<1> QED BY <1>4, <1>5

\* An event pays for a term.
LEMMA EventPays ==
  ASSUME Types, NEW n \in Nat
  PROVE  /\ Slack(n + (events + 1)) = Slack(n + events) + Ttl
         /\ Slack(n + events) \in Nat /\ Slack(n + (events + 1)) \in Nat
<1>1. n + events \in Nat /\ n + (events + 1) = (n + events) + 1
  BY NumberFacts
<1> QED BY <1>1, SlackFacts, ConstantFacts

\* The claim of another worker has not expired.
LEMMA WaitsRefused ==
  ASSUME Orderly, Waits, NEW w \in Workers, Top(w), Refused(w)
  PROVE  Waits'
<1>0. Types /\ TypeOK /\ Types' /\ pc[w] = "top" /\ w \in Awake /\ w \notin Committed
  BY TopTypes, TopCases, SetFacts DEF Orderly, Types, Awake, Committed
<1>1. /\ pc'[w] = "pause" /\ clock'[w] = 1
      /\ Committed' = Committed /\ Awake' = Awake
      /\ UNCHANGED <<leader, left, events, interval, idle, first>>
  BY <1>0, GotoFacts, GotoSets DEF Refused, Quiet
<1>2. Settled' = Settled /\ Rank' = Rank /\ Extra' = Extra
  BY <1>1 DEF Settled, Rank, Extra
<1>3. \A v \in Workers : v # w => Nap(v)' = Nap(v) /\ Due(v)' = Due(v)
  <2>1. \A v \in Workers : v # w => pc'[v] = pc[v] /\ clock'[v] = clock[v] /\ known'[v] = known[v]
    BY <1>0, GotoFacts, TopCases DEF Refused, TypeOK
  <2> QED BY <1>1, <2>1, OthersSleepOn
<1>4. Nap(w)' = 1 /\ Nap(w) = 0 /\ w # leader /\ left >= 1
  BY <1>0, <1>1, NumberFacts DEF Nap, Refused, MayLead
<1>5. ClaimsRunOut'
  <2> SUFFICES ASSUME NEW u \in Settled, u # leader
               PROVE  /\ idle + Nap(u)' <= Slack(Rank + Extra + events)
                      /\ idle + left <= Slack(Rank + Extra + events)
    BY <1>1, <1>2 DEF ClaimsRunOut
  <2>1. /\ idle + Nap(u) <= Slack(Rank + Extra + events)
        /\ idle + left <= Slack(Rank + Extra + events)
    BY DEF Waits, ClaimsRunOut
  <2>2. CASE u = w
    <3>1. Rank + Extra + events \in Nat
      BY <1>0, CardFacts, NumberFacts DEF Extra
    <3>2. Slack(Rank + Extra + events) \in Nat /\ idle \in Nat /\ left \in Nat
      BY <1>0, <3>1, SlackFacts, NumberFacts
    <3> QED BY <1>4, <2>1, <2>2, <3>2
  <2>3. CASE u # w
    BY <1>3, <2>1, <2>3, SetFacts
  <2> QED BY <2>2, <2>3
<1>6. LeaderIsNext'
  BY <1>1, <1>2, <1>3, <1>4, SetFacts DEF Waits, LeaderIsNext
<1>7. SomeoneIsDue'
  <2>1. \A v \in Committed : Due(v)' = Due(v)
    BY <1>0, <1>3, SetFacts
  <2> QED BY <1>1, <2>1 DEF Waits, SomeoneIsDue
<1>8. SomeoneWakes'
  <2> SUFFICES ASSUME Committed \cup Settled = {}
               PROVE  /\ idle + left <= Longest + Slack(events)
                      /\ \E u \in Awake : idle + Nap(u)' <= Longest + Slack(events)
    BY <1>0, <1>1, <1>2 DEF SomeoneWakes
  <2>1. idle + left <= Longest + Slack(events)
    BY DEF Waits, SomeoneWakes
  <2>2. Slack(events) \in Nat /\ idle \in Nat /\ left \in Nat
    BY <1>0, SlackFacts, NumberFacts
  <2>3. idle + Nap(w)' <= Longest + Slack(events)
    BY <1>4, <2>1, <2>2, ConstantFacts
  <2> QED BY <1>0, <2>1, <2>3
<1>9. NotLate'
  BY <1>1 DEF Waits, NotLate
<1> QED BY <1>5, <1>6, <1>7, <1>8, <1>9 DEF Waits

\* The leader could not read the configuration.
LEMMA WaitsFailed ==
  ASSUME Orderly, Waits, NEW w \in Workers, Top(w), Failed(w)
  PROVE  Waits'
<1>0. Types /\ TypeOK /\ Types' /\ pc[w] = "top" /\ w \in Awake /\ w \notin Committed
  BY TopTypes, TopCases, SetFacts DEF Orderly, Types, Awake, Committed
<1>1. /\ pc'[w] = "pause" /\ clock'[w] = Retry
      /\ Committed' = Committed /\ Awake' = Awake
      /\ UNCHANGED <<interval, idle, first>>
      /\ leader' = w /\ left' = Ttl /\ events' = events + 1
  BY <1>0, GotoFacts, GotoSets DEF Failed, Elected, Event, Quiet
<1>2. Settled' = Settled /\ Rank' = Rank
  BY <1>1 DEF Settled, Rank
<1>3. \A v \in Workers : v # w => Nap(v)' = Nap(v) /\ Due(v)' = Due(v)
  <2>1. \A v \in Workers : v # w => pc'[v] = pc[v] /\ clock'[v] = clock[v] /\ known'[v] = known[v]
    BY <1>0, GotoFacts, TopCases DEF Failed, TypeOK
  <2> QED BY <1>1, <2>1, OthersSleepOn
<1>4. Nap(w)' = Retry
  BY <1>1 DEF Nap
<1>n. /\ Rank \in Nat /\ events \in Nat /\ idle \in Nat /\ left \in Nat /\ left <= Ttl
  BY <1>0, CardFacts, NumberFacts
<1>x. PICK x \in Nat : Extra' = x
  BY DEF Extra
<1>5. ClaimsRunOut'
  <2> SUFFICES ASSUME NEW u \in Settled, u # w
               PROVE  /\ idle + Nap(u) <= Slack(Rank + x + (events + 1))
                      /\ idle + Ttl <= Slack(Rank + x + (events + 1))
    BY <1>1, <1>2, <1>3, <1>x, SetFacts DEF ClaimsRunOut
  <2>1. /\ idle <= Slack(Rank + events) /\ idle + Nap(u) <= Slack(Rank + events + 1)
        /\ Slack(Rank + events + 1) = Slack(Rank + events) + Ttl
        /\ Slack(Rank + events) \in Nat
    BY <1>0, SettledFacts
  <2>2. Slack(Rank + events + 1) <= Slack(Rank + x + (events + 1))
        /\ Slack(Rank + x + (events + 1)) \in Nat
    <3>1. /\ Rank + events + 1 \in Nat /\ Rank + x + (events + 1) \in Nat
          /\ Rank + events + 1 <= Rank + x + (events + 1)
      BY <1>n
    <3> QED BY <3>1, SlackFacts
  <2>3. Nap(u) \in Nat
    BY <1>0, SleepFacts, SetFacts
  <2> QED BY <1>n, <2>1, <2>2, <2>3, ConstantFacts
<1>6. LeaderIsNext'
  <2> SUFFICES ASSUME w \in Settled PROVE idle + Retry <= Slack(Rank + (events + 1))
    BY <1>1, <1>2, <1>4 DEF LeaderIsNext
  <2>1. /\ idle <= Slack(Rank + events) /\ Slack(Rank + events) \in Nat
    BY <1>0, SettledFacts
  <2>2. Slack(Rank + (events + 1)) = Slack(Rank + events) + Ttl
    BY <1>0, <1>n, EventPays
  <2> QED BY <1>n, <2>1, <2>2, ConstantFacts
<1>7. SomeoneIsDue'
  <2> SUFFICES ASSUME NEW K \in SUBSET Committed, K # Committed
               PROVE  \E v \in Committed \ K :
                        idle + Due(v)' <= Longest + Slack(Cardinality(K) + (events + 1))
    BY <1>1 DEF SomeoneIsDue
  <2>1. PICK v \in Committed \ K : idle + Due(v) <= Longest + Slack(Cardinality(K) + events)
    BY DEF Waits, SomeoneIsDue
  <2>2. Due(v)' = Due(v) /\ Due(v) \in Nat
    BY <1>0, <1>3, SetFacts, SleepFacts
  <2>3. Cardinality(K) \in Nat
    BY CardFacts
  <2>4. /\ Slack(Cardinality(K) + (events + 1)) = Slack(Cardinality(K) + events) + Ttl
        /\ Slack(Cardinality(K) + events) \in Nat
    BY <1>0, <2>3, EventPays
  <2> QED BY <1>n, <2>1, <2>2, <2>4, ConstantFacts
<1>8. Slack(events + 1) = Slack(events) + Ttl /\ Slack(events) \in Nat /\ idle <= Longest + Slack(events)
  <2>1. Slack(events + 1) = Slack(events) + Ttl /\ Slack(events) \in Nat
    <3>1. events \in Nat
      BY <1>n
    <3> QED BY <3>1, SlackFacts
  <2>2. idle <= Longest + Slack(events)
    BY DEF Waits, NotLate
  <2> QED BY <2>1, <2>2
<1>9. NotLate'
  BY <1>n, <1>1, <1>8, ConstantFacts DEF NotLate
<1>10. SomeoneWakes'
  <2>1. idle + Ttl <= Longest + Slack(events + 1) /\ idle + Retry <= Longest + Slack(events + 1)
    BY <1>n, <1>8, ConstantFacts
  <2> QED BY <1>0, <1>1, <1>2, <1>4, <2>1 DEF SomeoneWakes
<1> QED BY <1>5, <1>6, <1>7, <1>9, <1>10 DEF Waits

\* The worker has been elected, and sleeps until it decides.
LEMMA WaitsCommits ==
  ASSUME Orderly, Waits, NEW w \in Workers, Top(w), Commits(w)
  PROVE  Waits'
<1>0. Types /\ TypeOK /\ Types' /\ pc[w] = "top" /\ w \in Awake /\ w \notin Committed
  BY TopTypes, TopCases, SetFacts DEF Orderly, Types, Awake, Committed
<1>1. /\ Committed' = Committed \cup {w} /\ Awake' = Awake \ {w}
      /\ UNCHANGED <<interval, idle, events>>
      /\ leader' = w /\ left' = Ttl /\ first' = first \ {w}
      /\ pc'[w] \in {"decide", "defer", "interval"}
      /\ pc'[w] = "defer" => since < interval /\ clock'[w] = interval - since
      /\ pc'[w] = "interval" => w \notin first /\ clock'[w] = interval
      /\ \A v \in Workers : v # w => pc'[v] = pc[v] /\ clock'[v] = clock[v]
  <2>1. CASE Goto(w, "decide", 0)
    BY <1>0, <2>1, GotoFacts, GotoSets DEF Commits, Elected, Quiet
  <2>2. CASE since < interval /\ Goto(w, "defer", interval - since)
    BY <1>0, <2>2, GotoFacts, GotoSets DEF Commits, Elected, Quiet
  <2>3. CASE w \notin first /\ interval # 0 /\ Goto(w, "interval", interval)
    BY <1>0, <2>3, GotoFacts, GotoSets DEF Commits, Elected, Quiet
  <2> QED BY <2>1, <2>2, <2>3 DEF Commits
<1>2. Settled' = Settled \ {w}
  BY <1>1 DEF Settled
<1>r. Rank' = Rank + 1
  BY <1>0, <1>1, CardFacts DEF Rank
<1>x. Extra' = 0
  BY <1>1, <1>2 DEF Extra
<1>3. \A v \in Workers : v # w => Nap(v)' = Nap(v) /\ Due(v)' = Due(v)
  <2>1. \A v \in Workers : v # w => known'[v] = known[v]
    BY <1>0, TopCases DEF TypeOK
  <2> QED BY <1>1, <2>1, OthersSleepOn
<1>k. known'[w] = interval
  BY <1>0, TopCases DEF TypeOK
<1>n. /\ Rank \in Nat /\ events \in Nat /\ idle \in Nat /\ left \in Nat /\ left <= Ttl
      /\ since \in Nat /\ interval \in Nat /\ interval <= Longest
  BY <1>0, CardFacts, NumberFacts
<1>4. idle + Due(w)' <= Longest + Slack(Rank + events)
  <2>0. Slack(Rank + events) \in Nat
    <3>1. Rank + events \in Nat
      BY <1>n
    <3> QED BY <3>1, SlackFacts
  <2>1. CASE pc'[w] = "decide"
    <3>1. Due(w)' = 0
      BY <2>1 DEF Due
    <3>2. idle <= Longest + Slack(events)
      BY DEF Waits, NotLate
    <3>3. Rank + events \in Nat /\ events <= Rank + events
      BY <1>n
    <3>4. Slack(events) <= Slack(Rank + events) /\ Slack(events) \in Nat
      BY <1>n, <3>3, SlackFacts
    <3> QED BY <1>n, <2>0, <3>1, <3>2, <3>4, ConstantFacts
  <2>2. CASE pc'[w] = "defer"
    <3>1. Due(w)' = interval - since
      BY <1>1, <2>2 DEF Due
    <3>2. idle <= since
      BY <1>1, <1>n, <2>2, ConstantFacts DEF Orderly, IdleSince
    <3> QED BY <1>n, <2>0, <3>1, <3>2, ConstantFacts
  <2>3. CASE pc'[w] = "interval"
    <3>1. Due(w)' = interval
      BY <1>1, <1>k, <2>3 DEF Due
    <3>2. w \in Settled
      BY <1>0, <1>1, <2>3 DEF Settled
    <3>3. idle <= Slack(Rank + events)
      BY <1>0, <3>2, SettledFacts
    <3> QED BY <1>n, <2>0, <3>1, <3>3, ConstantFacts
  <2> QED BY <1>1, <2>1, <2>2, <2>3
<1>5. ClaimsRunOut'
  <2> SUFFICES ASSUME NEW u \in Settled, u # w
               PROVE  /\ idle + Nap(u) <= Slack(Rank + 1 + 0 + events)
                      /\ idle + Ttl <= Slack(Rank + 1 + 0 + events)
    BY <1>1, <1>2, <1>3, <1>r, <1>x, SetFacts DEF ClaimsRunOut
  <2>1. /\ idle <= Slack(Rank + events) /\ idle + Nap(u) <= Slack(Rank + events + 1)
        /\ Slack(Rank + events + 1) = Slack(Rank + events) + Ttl
        /\ Slack(Rank + events) \in Nat
    BY <1>0, SettledFacts
  <2>2. Rank + 1 + 0 + events = Rank + events + 1
    BY <1>n
  <2>3. Slack(Rank + 1 + 0 + events) = Slack(Rank + events + 1)
    BY <2>2
  <2>4. Nap(u) \in Nat
    BY <1>0, SleepFacts, SetFacts
  <2> QED BY <1>n, <2>1, <2>3, <2>4, ConstantFacts
<1>6. LeaderIsNext'
  BY <1>1, <1>2 DEF LeaderIsNext
<1>7. SomeoneIsDue'
  <2> SUFFICES ASSUME NEW K \in SUBSET (Committed \cup {w}), K # Committed \cup {w}
               PROVE  \E v \in (Committed \cup {w}) \ K :
                        idle + Due(v)' <= Longest + Slack(Cardinality(K) + events)
    BY <1>1 DEF SomeoneIsDue
  <2>1. CASE K = Committed
    BY <1>0, <1>4, <2>1 DEF Rank
  <2>2. CASE K # Committed
    <3>1. K \ {w} \in SUBSET Committed /\ K \ {w} # Committed
      BY <1>0, <2>2
    <3>2. PICK v \in Committed \ (K \ {w}) :
            idle + Due(v) <= Longest + Slack(Cardinality(K \ {w}) + events)
      BY <3>1 DEF Waits, SomeoneIsDue
    <3>3. v \in (Committed \cup {w}) \ K /\ v # w /\ v \in Workers
      BY <1>0, <3>2, SetFacts
    <3>4. Cardinality(K \ {w}) <= Cardinality(K) /\ Cardinality(K \ {w}) \in Nat /\ Cardinality(K) \in Nat
      <4>1. IsFiniteSet(Committed \cup {w})
        BY SetFacts, FS_AddElement
      <4>2. IsFiniteSet(K)
        BY <4>1, FS_Subset
      <4>3. IsFiniteSet(K \ {w}) /\ Cardinality(K \ {w}) <= Cardinality(K)
        BY <4>2, FS_Subset
      <4> QED BY <4>2, <4>3, FS_CardinalityType
    <3>5. /\ Slack(Cardinality(K \ {w}) + events) <= Slack(Cardinality(K) + events)
          /\ Slack(Cardinality(K \ {w}) + events) \in Nat /\ Slack(Cardinality(K) + events) \in Nat
      <4>1. /\ Cardinality(K \ {w}) + events \in Nat /\ Cardinality(K) + events \in Nat
            /\ Cardinality(K \ {w}) + events <= Cardinality(K) + events
        BY <1>n, <3>4
      <4> QED BY <4>1, SlackFacts
    <3>6. Due(v)' = Due(v) /\ Due(v) \in Nat
      BY <1>0, <1>3, <3>3, SleepFacts
    <3>7. idle + Due(v)' <= Longest + Slack(Cardinality(K) + events)
      BY <1>n, <3>2, <3>5, <3>6, ConstantFacts
    <3> QED BY <3>3, <3>7
  <2> QED BY <2>1, <2>2
<1>8. SomeoneWakes'
  BY <1>1 DEF SomeoneWakes
<1>9. NotLate'
  BY <1>1 DEF Waits, NotLate
<1> QED BY <1>5, <1>6, <1>7, <1>8, <1>9 DEF Waits

\* A step that neither settles nor wakes anybody, with one more event: the
\* failed read of a worker in its interval, which decides at once.
LEMMA WaitsReadFails ==
  ASSUME Orderly, Waits, NEW w \in Workers, ReadFails(w)
  PROVE  Waits'
<1>0. Types /\ TypeOK /\ Types' /\ pc[w] = "interval" /\ w \in Committed /\ w \notin Awake
  BY StepTypes, SetFacts DEF Orderly, Types, Committed, Awake, ReadFails
<1>1. /\ pc'[w] = "decide"
      /\ Committed' = Committed /\ Awake' = Awake
      /\ UNCHANGED <<interval, idle, first, leader, left, known>> /\ events' = events + 1
      /\ \A v \in Workers : v # w => pc'[v] = pc[v] /\ clock'[v] = clock[v]
  <2>1. Goto(w, "decide", 0)
    BY DEF ReadFails
  <2>2. Committed' = Committed \cup {w} /\ Awake' = Awake \ {w}
    BY <1>0, <2>1, GotoSets
  <2> QED BY <1>0, <2>1, <2>2, GotoFacts DEF ReadFails, claim, phase, Event
<1>2. Settled' = Settled /\ Rank' = Rank /\ Extra' = Extra
  BY <1>1 DEF Settled, Rank, Extra
<1>3. \A v \in Workers : v # w => Nap(v)' = Nap(v) /\ Due(v)' = Due(v)
  BY <1>1, OthersSleepOn
<1>n. /\ Rank \in Nat /\ events \in Nat /\ idle \in Nat /\ left \in Nat /\ Extra \in {0, 1}
      /\ Rank + Extra \in Nat
  BY <1>0, CardFacts, NumberFacts DEF Extra
<1>4. \A v \in Committed : Due(v)' <= Due(v) /\ Due(v) \in Nat /\ Due(v)' \in Nat
  <2>1. Due(w)' = 0
    BY <1>1 DEF Due
  <2> QED BY <1>0, <1>3, <2>1, SetFacts, SleepFacts
<1>5. ClaimsRunOut'
  <2> SUFFICES ASSUME NEW u \in Settled, u # leader
               PROVE  /\ idle + Nap(u) <= Slack(Rank + Extra + (events + 1))
                      /\ idle + left <= Slack(Rank + Extra + (events + 1))
    BY <1>0, <1>1, <1>2, <1>3, SetFacts DEF ClaimsRunOut
  <2>1. /\ idle + Nap(u) <= Slack(Rank + Extra + events)
        /\ idle + left <= Slack(Rank + Extra + events)
    BY DEF Waits, ClaimsRunOut
  <2>2. /\ Slack(Rank + Extra + (events + 1)) = Slack(Rank + Extra + events) + Ttl
        /\ Slack(Rank + Extra + events) \in Nat
    BY <1>0, <1>n, EventPays
  <2>3. Nap(u) \in Nat
    BY <1>0, SleepFacts, SetFacts
  <2> QED BY <1>n, <2>1, <2>2, <2>3, ConstantFacts
<1>6. LeaderIsNext'
  <2> SUFFICES ASSUME leader \in Settled PROVE idle + Nap(leader) <= Slack(Rank + (events + 1))
    BY <1>0, <1>1, <1>2, <1>3, SetFacts DEF LeaderIsNext
  <2>1. idle + Nap(leader) <= Slack(Rank + events)
    BY DEF Waits, LeaderIsNext
  <2>2. /\ Slack(Rank + (events + 1)) = Slack(Rank + events) + Ttl /\ Slack(Rank + events) \in Nat
    BY <1>0, <1>n, EventPays
  <2>3. Nap(leader) \in Nat
    BY <1>0, SleepFacts, SetFacts
  <2> QED BY <1>n, <2>1, <2>2, <2>3, ConstantFacts
<1>7. SomeoneIsDue'
  <2> SUFFICES ASSUME NEW K \in SUBSET Committed, K # Committed
               PROVE  \E v \in Committed \ K :
                        idle + Due(v)' <= Longest + Slack(Cardinality(K) + (events + 1))
    BY <1>1 DEF SomeoneIsDue
  <2>1. PICK v \in Committed \ K : idle + Due(v) <= Longest + Slack(Cardinality(K) + events)
    BY DEF Waits, SomeoneIsDue
  <2>2. Cardinality(K) \in Nat
    BY CardFacts
  <2>3. /\ Slack(Cardinality(K) + (events + 1)) = Slack(Cardinality(K) + events) + Ttl
        /\ Slack(Cardinality(K) + events) \in Nat
    BY <1>0, <2>2, EventPays
  <2>4. Due(v)' <= Due(v) /\ Due(v) \in Nat /\ Due(v)' \in Nat
    BY <1>4
  <2> QED BY <1>n, <2>1, <2>3, <2>4, ConstantFacts
<1>8. SomeoneWakes'
  BY <1>0, <1>1 DEF SomeoneWakes
<1>9. NotLate'
  <2>1. Slack(events + 1) = Slack(events) + Ttl /\ Slack(events) \in Nat
    <3>1. events \in Nat
      BY <1>n
    <3> QED BY <3>1, SlackFacts
  <2>2. idle <= Longest + Slack(events)
    BY DEF Waits, NotLate
  <2> QED BY <1>n, <1>1, <2>1, <2>2, ConstantFacts DEF NotLate
<1> QED BY <1>5, <1>6, <1>7, <1>8, <1>9 DEF Waits

\* A worker comes up; it has to wait for its first cycle.
LEMMA WaitsRestart ==
  ASSUME Orderly, Waits, NEW w \in Workers, Restart(w)
  PROVE  Waits'
<1>0. Types /\ w \notin Committed /\ w \notin Awake
  BY RestartFacts DEF Orderly, Types, Committed, Awake, Restart
<1>1. /\ pc'[w] = "pause" /\ clock'[w] = 1
      /\ Committed' = Committed /\ Awake' = Awake \cup {w} /\ Settled' = Settled
      /\ UNCHANGED <<interval, leader, left, events, idle>>
  BY <1>0, RestartFacts
<1>2. Rank' = Rank /\ Extra' = Extra
  BY <1>1 DEF Rank, Extra
<1>3. \A v \in Workers : v # w => Nap(v)' = Nap(v) /\ Due(v)' = Due(v)
  BY <1>0, RestartFacts, OthersSleepOn
<1>4. Nap(w)' = 1 /\ \A v \in Committed \cup Awake : v \in Workers /\ v # w
  BY <1>0, <1>1, SetFacts DEF Nap
<1>5. ClaimsRunOut' /\ LeaderIsNext'
  BY <1>1, <1>2, <1>3, <1>4, SetFacts DEF Waits, ClaimsRunOut, LeaderIsNext
<1>6. SomeoneIsDue'
  <2>1. \A v \in Committed : Due(v)' = Due(v)
    BY <1>3, <1>4
  <2> QED BY <1>1, <2>1 DEF Waits, SomeoneIsDue
<1>7. SomeoneWakes' /\ NotLate'
  <2> SUFFICES ASSUME Committed \cup Settled = {}
               PROVE  \E u \in Awake \cup {w} : idle + Nap(u)' <= Longest + Slack(events)
    BY <1>1 DEF Waits, SomeoneWakes, NotLate
  <2>1. CASE Awake = {}
    BY <1>4, <2>1 DEF Waits, SomeoneWakes
  <2>2. CASE Awake # {}
    <3>1. PICK u \in Awake : idle + Nap(u) <= Longest + Slack(events)
      BY <2>2 DEF Waits, SomeoneWakes
    <3> QED BY <1>3, <1>4, <3>1
  <2> QED BY <2>1, <2>2
<1> QED BY <1>5, <1>6, <1>7 DEF Waits

\* A worker is gone: if it was committed, it was not the only one, or there is
\* a settled worker to follow, or those in their first cycle.
LEMMA WaitsLeaves ==
  ASSUME Orderly, Waits, NEW w \in Workers, Leaves(w)
  PROVE  Waits'
<1>0. Types
  BY DEF Orderly
<1>1. /\ Committed' = Committed \ {w} /\ Awake' = Awake \ {w}
      /\ UNCHANGED <<interval, left, since, known, first, idle>>
      /\ leader # w => leader' = leader
      /\ leader = w => leader' \notin Workers
      /\ events' = events + 1
      /\ \A v \in Workers : v # w => pc'[v] = pc[v] /\ clock'[v] = clock[v]
  BY <1>0, LeavesFacts
<1>2. Settled' = Settled \ {w}
  BY <1>1 DEF Settled
<1>3. \A v \in Workers : v # w => Nap(v)' = Nap(v) /\ Due(v)' = Due(v)
  BY <1>1, OthersSleepOn
<1>n. /\ Rank \in Nat /\ events \in Nat /\ idle \in Nat /\ left \in Nat /\ left <= Ttl
      /\ Extra \in Nat /\ Extra <= 1
  BY <1>0, CardFacts, NumberFacts DEF Extra
<1>r. PICK r \in Nat : Rank' = r /\ Rank <= r + 1 /\ (w \notin Committed => r = Rank)
  <2>1. Rank' = Cardinality(Committed \ {w})
    BY <1>1 DEF Rank
  <2>2. Cardinality(Committed \ {w}) \in Nat
    BY CardFacts
  <2>3. CASE w \in Committed
    <3>1. Cardinality(Committed \ {w}) = Rank - 1
      BY <2>3, CardFacts
    <3> QED BY <1>n, <2>1, <2>2, <2>3, <3>1
  <2>4. CASE w \notin Committed
    <3>1. Committed \ {w} = Committed
      BY <2>4
    <3>2. Rank' = Rank
      BY <2>1, <3>1 DEF Rank
    <3> QED BY <1>n, <3>2
  <2> QED BY <2>3, <2>4
<1>e. PICK x \in Nat : Extra' = x /\ Rank + Extra <= r + x + 1
  <2>0. PICK x \in Nat : Extra' = x
    BY DEF Extra
  <2>1. CASE w \in Committed
    <3>1. w \notin Settled
      BY <2>1, SetFacts
    <3>2. leader \in Settled => leader' \in Settled'
      BY <1>1, <1>2, <3>1, SetFacts
    <3>3. Extra <= x
      BY <2>0, <3>2 DEF Extra
    <3> QED BY <1>n, <1>r, <2>0, <3>3
  <2>2. CASE w \notin Committed
    BY <1>n, <1>r, <2>0, <2>2
  <2> QED BY <2>1, <2>2
<1>5. ClaimsRunOut'
  <2> SUFFICES ASSUME NEW u \in Settled, u # w, u # leader'
               PROVE  /\ idle + Nap(u) <= Slack(r + x + (events + 1))
                      /\ idle + left <= Slack(r + x + (events + 1))
    BY <1>1, <1>2, <1>3, <1>r, <1>e, SetFacts DEF ClaimsRunOut
  <2>1. /\ idle + Nap(u) <= Slack(Rank + Extra + events)
        /\ idle + left <= Slack(Rank + Extra + events)
    BY <1>1 DEF Waits, ClaimsRunOut
  <2>2. /\ Rank + Extra + events \in Nat /\ r + x + (events + 1) \in Nat
        /\ Rank + Extra + events <= r + x + (events + 1)
    BY <1>n, <1>e
  <2>3. /\ Slack(Rank + Extra + events) <= Slack(r + x + (events + 1))
        /\ Slack(Rank + Extra + events) \in Nat /\ Slack(r + x + (events + 1)) \in Nat
    BY <2>2, SlackFacts
  <2>4. Nap(u) \in Nat
    BY <1>0, SleepFacts, SetFacts
  <2> QED BY <1>n, <2>1, <2>3, <2>4
<1>6. LeaderIsNext'
  <2> SUFFICES ASSUME leader \in Settled, leader # w
               PROVE  idle + Nap(leader) <= Slack(r + (events + 1))
    BY <1>1, <1>2, <1>3, <1>r, SetFacts DEF LeaderIsNext
  <2>1. idle + Nap(leader) <= Slack(Rank + events)
    BY DEF Waits, LeaderIsNext
  <2>2. /\ Rank + events \in Nat /\ r + (events + 1) \in Nat
        /\ Rank + events <= r + (events + 1)
    BY <1>n, <1>r
  <2>3. /\ Slack(Rank + events) <= Slack(r + (events + 1))
        /\ Slack(Rank + events) \in Nat /\ Slack(r + (events + 1)) \in Nat
    BY <2>2, SlackFacts
  <2>4. Nap(leader) \in Nat
    BY <1>0, SleepFacts, SetFacts
  <2> QED BY <1>n, <2>1, <2>3, <2>4
<1>7. SomeoneIsDue'
  <2> SUFFICES ASSUME NEW K \in SUBSET (Committed \ {w}), K # Committed \ {w}
               PROVE  \E v \in (Committed \ {w}) \ K :
                        idle + Due(v) <= Longest + Slack(Cardinality(K) + (events + 1))
    BY <1>1, <1>3, SetFacts DEF SomeoneIsDue
  <2>0. K \in SUBSET Committed /\ Cardinality(K) \in Nat
    BY CardFacts
  <2>n. /\ Slack(Cardinality(K) + (events + 1)) = Slack(Cardinality(K) + events) + Ttl
        /\ Slack(Cardinality(K) + events) \in Nat
    BY <1>0, <2>0, EventPays
  <2>1. CASE w \in Committed
    <3>1. K \cup {w} \in SUBSET Committed /\ K \cup {w} # Committed /\ w \in Committed \ K
      BY <2>1
    <3>2. Cardinality(K \cup {w}) = Cardinality(K) + 1
      BY <2>0, <3>1, CardFacts
    <3>3. PICK v \in Committed \ (K \cup {w}) :
            idle + Due(v) <= Longest + Slack(Cardinality(K \cup {w}) + events)
      BY <3>1 DEF Waits, SomeoneIsDue
    <3>4. Cardinality(K \cup {w}) + events = Cardinality(K) + (events + 1)
      BY <1>n, <2>0, <3>2
    <3>5. Slack(Cardinality(K \cup {w}) + events) = Slack(Cardinality(K) + (events + 1))
      BY <3>4
    <3> QED BY <3>3, <3>5
  <2>2. CASE w \notin Committed
    <3>1. PICK v \in Committed \ K : idle + Due(v) <= Longest + Slack(Cardinality(K) + events)
      BY <2>0, <2>2 DEF Waits, SomeoneIsDue
    <3>2. Due(v) \in Nat /\ v # w
      BY <1>0, <2>2, <3>1, SleepFacts, SetFacts
    <3>3. idle + Due(v) <= Longest + Slack(Cardinality(K) + (events + 1))
      BY <1>n, <2>n, <3>1, <3>2, ConstantFacts
    <3> QED BY <3>2, <3>3
  <2> QED BY <2>1, <2>2
<1>8. Slack(events + 1) = Slack(events) + Ttl /\ Slack(events) \in Nat /\ idle <= Longest + Slack(events)
  <2>1. Slack(events + 1) = Slack(events) + Ttl /\ Slack(events) \in Nat
    <3>1. events \in Nat
      BY <1>n
    <3> QED BY <3>1, SlackFacts
  <2>2. idle <= Longest + Slack(events)
    BY DEF Waits, NotLate
  <2> QED BY <2>1, <2>2
<1>9. NotLate'
  BY <1>n, <1>1, <1>8, ConstantFacts DEF NotLate
<1>10. SomeoneWakes'
  <2>1. idle + left <= Longest + Slack(events + 1) /\ idle + 1 <= Longest + Slack(events + 1)
    BY <1>n, <1>8, ConstantFacts
  <2>2. ASSUME NEW u \in Awake PROVE idle + Nap(u) <= Longest + Slack(events + 1)
    <3>1. Nap(u) \in Nat /\ Nap(u) <= Retry
      BY <1>0, SleepFacts, SetFacts
    <3> QED BY <1>n, <1>8, <3>1, ConstantFacts
  <2>3. ASSUME NEW u \in Awake \ {w} PROVE idle + Nap(u)' <= Longest + Slack(events + 1)
    BY <1>3, <2>2, SetFacts
  <2> QED BY <1>1, <2>1, <2>3 DEF SomeoneWakes
<1> QED BY <1>5, <1>6, <1>7, <1>9, <1>10 DEF Waits

\* Every sleep is a tick shorter; a wait is over, for nobody runs.
LEMMA TickSleeps ==
  ASSUME Orderly, Tick, ~Off, NEW w \in Workers
  PROVE  /\ w \in Awake => Nap(w) >= 1 /\ Nap(w)' = Nap(w) - 1
         /\ w \in Committed => Due(w) >= 1 /\ Due(w)' = Due(w) - 1
<1>0. Types /\ TypeOK /\ lock = Nobody /\ interval' = interval
  BY DEF Orderly, Types, Off, Tick
<1>1. clock[w] \in Nat /\ pc[w] \notin {"top", "decide"}
  BY <1>0, ConstantFacts DEF TypeOK, Tick
<1>2. /\ w \in Awake => Nap(w) >= 1
      /\ w \in Committed => Due(w) >= 1
  BY <1>0, <1>1, SleepFacts
<1>3. CASE pc[w] = "pause"
  BY <1>0, <1>1, <1>2, <1>3, TickAt DEF Nap, Awake, Committed
<1>4. CASE pc[w] = "wait"
  <2>1. ~StillWaits(w)
    BY <1>0, SchedulerAssumption DEF StillWaits, Orderly, OneRunner, TypeOK
  <2> QED BY <1>0, <1>2, <1>4, <2>1, TickAt DEF Nap, Awake, Committed
<1>5. CASE pc[w] = "defer"
  BY <1>0, <1>1, <1>2, <1>5, TickAt DEF Due, Awake, Committed
<1>6. CASE pc[w] = "interval"
  <2>1. interval \in Nat
    BY <1>0, NumberFacts
  <2>2. /\ clock'[w] = Remaining(w) /\ known'[w] = interval
        /\ pc'[w] = IF Remaining(w) = 0 THEN "decide" ELSE "interval"
    BY <1>0, <1>6, TickAt
  <2>3. Due(w)' = Remaining(w)
    BY <1>0, <2>2 DEF Due
  <2>4. Due(w) = Remaining(w) + 1
    BY <1>1, <1>6, <2>1 DEF Due, Remaining
  <2>5. Remaining(w) \in Int
    BY <1>1, <2>1 DEF Remaining
  <2> QED BY <1>2, <1>6, <2>3, <2>4, <2>5 DEF Awake
<1>7. CASE pc[w] = "down"
  BY <1>7 DEF Awake, Committed
<1> QED BY <1>0, <1>3, <1>4, <1>5, <1>6, <1>7, TickAt

LEMMA WaitsTick ==
  ASSUME Orderly, Waits, Tick, ~Off
  PROVE  Waits'
<1>0. Types /\ TypeOK /\ lock = Nobody /\ interval # 0
  BY DEF Orderly, Types, Off
<1>1. /\ Committed' = Committed /\ Awake' = Awake /\ Settled' = Settled
      /\ UNCHANGED <<leader, events>>
      /\ left' = IF leader \in Workers /\ pc[leader] = "wait" THEN Ttl
                 ELSE IF left = 0 THEN 0 ELSE left - 1
  BY <1>0, TickSets DEF Tick
<1>2. Rank' = Rank /\ Extra' = Extra
  BY <1>1 DEF Rank, Extra
<1>n. /\ Rank \in Nat /\ events \in Nat /\ idle \in Nat /\ left \in Nat /\ left <= Ttl
      /\ Extra \in Nat /\ Rank + Extra + events \in Nat /\ Rank + events \in Nat
  BY <1>0, CardFacts, NumberFacts DEF Extra
<1>i. PICK i \in Nat : idle' = i /\ i <= idle + 1
  <2>1. idle' = idle \/ idle' = idle + 1
    BY DEF Tick
  <2> QED BY <1>n, <2>1
<1>l. PICK l \in Nat : left' = l
  BY <1>1, <1>n, ConstantFacts
<1>3. \A u \in Awake : u \in Workers /\ Nap(u) \in Nat /\ Nap(u) >= 1 /\ Nap(u)' = Nap(u) - 1
  BY <1>0, TickSleeps, SleepFacts, SetFacts
<1>4. \A v \in Committed : Due(v) \in Nat /\ Due(v) >= 1 /\ Due(v)' = Due(v) - 1
  BY <1>0, TickSleeps, SleepFacts, SetFacts
\* A leader that waits although nobody runs: a run has just ended.
<1>5. ASSUME leader \in Workers, pc[leader] = "wait"
      PROVE  leader \in Settled /\ idle = 0 /\ l = Ttl
  <2>1. leader \in Settled
    BY <1>5 DEF Orderly, FirstIsFirst, Settled, Awake
  <2>2. idle = 0
    BY <1>5 DEF Orderly, BusyIsNotIdle
  <2> QED BY <1>1, <1>5, <1>l, <2>1, <2>2
<1>6. ASSUME ~(leader \in Workers /\ pc[leader] = "wait")
      PROVE  (left = 0 /\ l = 0) \/ (left > 0 /\ l = left - 1)
  BY <1>1, <1>6, <1>n, <1>l
<1>7. ClaimsRunOut'
  <2> SUFFICES ASSUME NEW u \in Settled, u # leader
               PROVE  /\ i + (Nap(u) - 1) <= Slack(Rank + Extra + events)
                      /\ i + l <= Slack(Rank + Extra + events)
    BY <1>1, <1>2, <1>3, <1>i, <1>l, SetFacts DEF ClaimsRunOut
  <2>1. /\ idle + Nap(u) <= Slack(Rank + Extra + events)
        /\ idle + left <= Slack(Rank + Extra + events)
    BY DEF Waits, ClaimsRunOut
  <2>2. Nap(u) \in Nat /\ Nap(u) >= 1
    BY <1>3, SetFacts
  <2>3. Slack(Rank + Extra + events) \in Nat
    BY <1>n, SlackFacts
  <2>4. i + (Nap(u) - 1) <= Slack(Rank + Extra + events)
    BY <1>n, <1>i, <2>1, <2>2, <2>3
  <2>5. CASE leader \in Workers /\ pc[leader] = "wait"
    <3>1. Extra = 1
      BY <1>5, <2>5 DEF Extra
    <3>2. Slack(1) = Slack(0) + Ttl /\ Slack(0) >= Retry /\ Slack(0) \in Nat /\ Slack(1) \in Nat
      <4>1. Slack(0 + 1) = Slack(0) + Ttl /\ Slack(0) >= Retry /\ Slack(0) \in Nat
        BY SlackFacts
      <4> QED BY <4>1, ConstantFacts
    <3>3. Slack(1) <= Slack(Rank + Extra + events)
      <4>1. 1 <= Rank + Extra + events
        BY <1>n, <3>1
      <4> QED BY <1>n, <4>1, SlackFacts
    <3>4. i <= 1 /\ l = Ttl
      BY <1>5, <1>i, <2>5
    <3> QED BY <1>i, <2>3, <2>4, <3>2, <3>3, <3>4, ConstantFacts
  <2>6. CASE ~(leader \in Workers /\ pc[leader] = "wait")
    BY <1>6, <1>n, <1>i, <2>1, <2>2, <2>3, <2>4, <2>6
  <2> QED BY <2>5, <2>6
<1>8. LeaderIsNext'
  <2> SUFFICES ASSUME leader \in Settled PROVE i + (Nap(leader) - 1) <= Slack(Rank + events)
    BY <1>1, <1>2, <1>3, <1>i, SetFacts DEF LeaderIsNext
  <2>1. idle + Nap(leader) <= Slack(Rank + events)
    BY DEF Waits, LeaderIsNext
  <2>2. Nap(leader) \in Nat
    BY <1>3, SetFacts
  <2>3. Slack(Rank + events) \in Nat
    BY <1>n, SlackFacts
  <2> QED BY <1>n, <1>i, <2>1, <2>2, <2>3
<1>9. SomeoneIsDue'
  <2> SUFFICES ASSUME NEW K \in SUBSET Committed, K # Committed
               PROVE  \E v \in Committed \ K : i + (Due(v) - 1) <= Longest + Slack(Cardinality(K) + events)
    BY <1>1, <1>4, <1>i DEF SomeoneIsDue
  <2>1. PICK v \in Committed \ K : idle + Due(v) <= Longest + Slack(Cardinality(K) + events)
    BY DEF Waits, SomeoneIsDue
  <2>2. Slack(Cardinality(K) + events) \in Nat
    <3>1. Cardinality(K) + events \in Nat
      BY <1>n, CardFacts
    <3> QED BY <3>1, SlackFacts
  <2>3. Due(v) \in Nat
    BY <1>4
  <2> QED BY <1>n, <1>i, <2>1, <2>2, <2>3, ConstantFacts
<1>s. Slack(events) \in Nat
  BY <1>n, SlackFacts
\* Somebody is not down, and has slept, or is to be due.
<1>10. NotLate'
  <2> SUFFICES idle + 1 <= Longest + Slack(events)
    BY <1>1, <1>n, <1>i, <1>s, ConstantFacts DEF NotLate
  <2>1. CASE Committed # {}
    <3>1. {} \in SUBSET Committed /\ {} # Committed
      BY <2>1
    <3>2. PICK v \in Committed \ {} : idle + Due(v) <= Longest + Slack(Cardinality({}) + events)
      BY <3>1 DEF Waits, SomeoneIsDue
    <3>3. Cardinality({}) + events = events
      BY <1>n, CardFacts
    <3>4. idle + Due(v) <= Longest + Slack(events)
      BY <3>2, <3>3
    <3>5. Due(v) \in Nat /\ Due(v) >= 1
      BY <1>4
    <3> QED BY <1>n, <1>s, <3>4, <3>5, ConstantFacts
  <2>2. CASE Committed = {} /\ Settled # {}
    <3>1. Rank = 0
      BY <2>2, CardFacts DEF Rank
    <3>2. PICK u \in Settled : idle + Nap(u) <= Slack(events)
      <4>1. CASE leader \in Settled
        <5>1. idle + Nap(leader) <= Slack(Rank + events)
          BY <4>1 DEF Waits, LeaderIsNext
        <5>2. Rank + events = events
          BY <1>n, <3>1
        <5> QED BY <4>1, <5>1, <5>2
      <4>2. CASE leader \notin Settled
        <5>1. Rank + Extra + events = events
          BY <1>n, <3>1, <4>2 DEF Extra
        <5>2. PICK u \in Settled : u # leader
          BY <2>2, <4>2
        <5>3. idle + Nap(u) <= Slack(Rank + Extra + events)
          BY <5>2 DEF Waits, ClaimsRunOut
        <5> QED BY <5>1, <5>3
      <4> QED BY <4>1, <4>2
    <3>3. Nap(u) \in Nat /\ Nap(u) >= 1
      BY <1>3, SetFacts
    <3> QED BY <1>n, <1>s, <3>2, <3>3, ConstantFacts
  <2>3. CASE Committed = {} /\ Settled = {}
    <3>1. Awake # {}
      <4>1. PICK w \in Workers : pc[w] # "down"
        BY DEF Off
      <4>2. w \in Awake \/ w \in Committed
        BY <1>0, <4>1 DEF Awake, Committed, TypeOK
      <4> QED BY <2>3, <4>2
    <3>2. PICK u \in Awake : idle + Nap(u) <= Longest + Slack(events)
      BY <2>3, <3>1 DEF Waits, SomeoneWakes
    <3>3. Nap(u) \in Nat /\ Nap(u) >= 1
      BY <1>3
    <3> QED BY <1>n, <1>s, <3>2, <3>3, ConstantFacts
  <2> QED BY <2>1, <2>2, <2>3
<1>11. SomeoneWakes'
  <2> SUFFICES ASSUME Committed \cup Settled = {}
               PROVE  /\ i + l <= Longest + Slack(events)
                      /\ Awake # {}
                      /\ \E u \in Awake : i + (Nap(u) - 1) <= Longest + Slack(events)
    BY <1>1, <1>3, <1>i, <1>l DEF SomeoneWakes
  <2>1. Awake # {}
    <3>1. PICK w \in Workers : pc[w] # "down"
      BY DEF Off
    <3>2. w \in Awake \/ w \in Committed
      BY <1>0, <3>1 DEF Awake, Committed, TypeOK
    <3> QED BY <3>2
  <2>2. PICK u \in Awake : idle + Nap(u) <= Longest + Slack(events)
    BY <2>1 DEF Waits, SomeoneWakes
  <2>3. i + (Nap(u) - 1) <= Longest + Slack(events)
    BY <1>3, <1>n, <1>i, <1>s, <2>2, ConstantFacts
  <2>4. i <= Longest + Slack(events)
    BY <1>1, <1>10, <1>i DEF NotLate
  <2>5. idle + left <= Longest + Slack(events)
    BY DEF Waits, SomeoneWakes
  <2>6. ~(leader \in Workers /\ pc[leader] = "wait")
    BY <1>5
  <2>7. i + l <= Longest + Slack(events)
    BY <1>6, <1>n, <1>i, <1>s, <2>4, <2>5, <2>6, ConstantFacts
  <2> QED BY <2>1, <2>3, <2>7
<1> QED BY <1>7, <1>8, <1>9, <1>10, <1>11 DEF Waits

\* The inductive invariant of the schedulers.
SchedulerInv == Orderly /\ Waits

LEMMA SchedulerInvStep == SchedulerInv /\ [Next]_vars => SchedulerInv'
<1> SUFFICES ASSUME SchedulerInv, [Next]_vars PROVE SchedulerInv'
  OBVIOUS
<1>0. Orderly /\ Waits /\ Types
  BY DEF SchedulerInv, Orderly
\* A step after which nobody has waited.
<1>z. ASSUME Orderly', idle' = 0 PROVE SchedulerInv'
  <2>1. Orderly' /\ (idle = 0)' => Waits'
    BY WaitsAtFirst, PTL
  <2> QED BY <1>z, <2>1 DEF SchedulerInv
<1>1. CASE Tick
  <2>1. CASE Off
    BY <1>0, <1>1, <1>z, <2>1, OrderlyTick DEF Tick
  <2>2. CASE ~Off
    BY <1>0, <1>1, <2>2, OrderlyTick, WaitsTick DEF SchedulerInv
  <2> QED BY <2>1, <2>2
<1>2. CASE Around
  BY <1>0, <1>2, <1>z, OrderlyAround
<1>3. ASSUME NEW w \in Workers, Top(w) PROVE SchedulerInv'
  <2>0. Orderly'
    BY <1>0, <1>3, OrderlyTop
  <2>1. CASE Refused(w) BY <1>0, <1>3, <2>0, <2>1, WaitsRefused DEF SchedulerInv
  <2>2. CASE Failed(w) BY <1>0, <1>3, <2>0, <2>2, WaitsFailed DEF SchedulerInv
  <2>3. CASE OffOrBusy(w)
    <3>1. idle' = 0
      BY <1>0, <2>3, SchedulerAssumption DEF OffOrBusy, Quiet, Orderly, BusyIsNotIdle, OneRunner
    <3> QED BY <1>z, <2>0, <3>1
  <2>4. CASE Resumed(w) BY <1>z, <2>0, <2>4 DEF Resumed, StartRun
  <2>5. CASE Commits(w) BY <1>0, <1>3, <2>0, <2>5, WaitsCommits DEF SchedulerInv
  <2> QED BY <1>3, <2>1, <2>2, <2>3, <2>4, <2>5, TopCases
<1>4. ASSUME NEW w \in Workers, Decide(w) PROVE SchedulerInv'
  BY <1>0, <1>4, <1>z, OrderlyDecide
<1>5. ASSUME NEW w \in Workers, ReadFails(w) PROVE SchedulerInv'
  BY <1>0, <1>5, OrderlyReadFails, WaitsReadFails DEF SchedulerInv
<1>6. ASSUME NEW w \in Workers, Leaves(w) PROVE SchedulerInv'
  BY <1>0, <1>6, OrderlyLeaves, WaitsLeaves DEF SchedulerInv
<1>7. ASSUME NEW w \in Workers, Restart(w) PROVE SchedulerInv'
  BY <1>0, <1>7, OrderlyRestart, WaitsRestart DEF SchedulerInv
<1>8. CASE UNCHANGED vars
  <2>1. UNCHANGED <<interval, leader, left, lock, running, cp, since, pc, clock, known, first, events, idle>>
    BY <1>8 DEF vars, claim, phase, scheduler
  <2>2. Types'
    BY <1>0, SchedulerTypeStep
  <2>3. /\ Committed' = Committed /\ Awake' = Awake /\ Settled' = Settled /\ Rank' = Rank /\ Extra' = Extra
        /\ \A w \in Workers : Nap(w)' = Nap(w) /\ Due(w)' = Due(w)
    BY <2>1 DEF Committed, Awake, Settled, Rank, Extra, Nap, Due
  <2>4. Orderly'
    BY <1>0, <2>1, <2>2, <2>3
    DEF Orderly, OneRunner, BusyIsNotIdle, IdleSince, FirstIsFirst, LedOrFailed
  <2>5. ClaimsRunOut' /\ LeaderIsNext' /\ SomeoneWakes' /\ NotLate'
    BY <1>0, <2>1, <2>3, SetFacts DEF Waits, ClaimsRunOut, LeaderIsNext, SomeoneWakes, NotLate
  <2>6. SomeoneIsDue'
    BY <1>0, <2>1, <2>3, SetFacts DEF Waits, SomeoneIsDue
  <2> QED BY <2>4, <2>5, <2>6 DEF SchedulerInv, Waits
<1> QED BY <1>1, <1>2, <1>3, <1>4, <1>5, <1>6, <1>7, <1>8 DEF Next, Around, Leaves

\* A scheduled phase is started again within a bounded time, whatever workers
\* die, are shut down or come up: for any number of workers and of events, any
\* intervals, and any term that is not shorter than the retry.
THEOREM PunctualHolds == Spec => []Punctual
<1>1. Init => SchedulerInv
  <2> SUFFICES ASSUME Init PROVE SchedulerInv
    OBVIOUS
  <2>1. Orderly /\ idle = 0
    BY OrderlyInit DEF Init
  <2> QED BY <2>1, WaitsAtFirst DEF SchedulerInv
<1>2. SchedulerInv => Punctual
  <2> SUFFICES ASSUME SchedulerInv PROVE Punctual
    OBVIOUS
  <2>1. /\ Types /\ idle <= Longest + Slack(events)
    BY DEF SchedulerInv, Orderly, Waits, NotLate
  <2>2. events \in Nat /\ events <= MaxEvents /\ idle \in Nat
    BY <2>1, NumberFacts
  <2>3. Slack(events) <= Slack(MaxEvents) /\ Slack(events) \in Nat /\ Slack(MaxEvents) \in Nat
    BY <2>2, SlackFacts, ConstantFacts
  <2>4. Bound = Longest + Slack(MaxEvents)
    BY SlackFacts
  <2> QED BY <2>1, <2>2, <2>3, <2>4, ConstantFacts DEF Punctual
<1> QED BY <1>1, <1>2, SchedulerInvStep, PTL DEF Spec
=============================================================================
