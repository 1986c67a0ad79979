--------------------------- MODULE PhaseScheduler ---------------------------
(***************************************************************************)
(* main.py: the scheduler of one sync phase, _phase_scheduler, which runs  *)
(* in every worker, with the election it takes part in, the phase's runner *)
(* in the same worker, and the distributed lock of the phase.              *)
(*                                                                         *)
(* Time goes in ticks of 30 seconds, the chunk of the interval sleep.      *)
(* Shorter sleeps last a tick; database calls take no time.                *)
(***************************************************************************)
EXTENDS Integers, FiniteSets

CONSTANTS
  Workers,      \* worker processes
  Intervals,    \* intervals that may be configured, in ticks; 0 is "off"
  Ttl,          \* ttl_seconds of the election (90 s)
  Retry,        \* the sleep after a refused trigger or a failed read (60 s)
  Patience,     \* how long a run is waited for (3600 s)
  MaxEvents,    \* crashes, failed reads and changes of the configuration
  Nobody,       \* no worker
  Gone          \* a worker that died

Longest == CHOOSE i \in Intervals : \A j \in Intervals : j <= i

\* What Punctual allows: an interval, a term of the election for every event,
\* and a retry.
Bound == Longest + Retry + Ttl * MaxEvents

ASSUME SchedulerAssumption ==
  /\ IsFiniteSet(Workers) /\ Nobody \notin Workers /\ Gone \notin Workers /\ Gone # Nobody
  /\ Intervals \subseteq Nat /\ \E i \in Intervals : i > 0 /\ \A j \in Intervals : j <= i
  /\ {Ttl, Retry, Patience} \subseteq Nat \ {0} /\ Retry <= Ttl /\ MaxEvents \in Nat

VARIABLES
  interval,  \* the phase's interval in the configuration
  leader,    \* worker_id of the claim
  left,      \* ticks until the claim expires
  lock,      \* the worker that holds the distributed lock of the phase
  running,   \* workers whose runner is running
  cp,        \* whether there is a checkpoint
  since,     \* ticks since the phase completed, as of synced_at, up to Longest
  pc,        \* where the scheduler of a worker is
  clock,     \* what is left of its sleep, or how long it has waited
  known,     \* the interval it has read
  first,     \* first_cycle
  events,    \* events so far
  idle       \* history: ticks without a run although scheduling was on

claim == <<leader, left>>
phase == <<lock, running, cp, since>>
scheduler == <<pc, clock, known, first>>
vars == <<interval, claim, phase, scheduler, events, idle>>

TypeOK ==
  /\ interval \in Intervals
  /\ leader \in Workers \cup {Nobody, Gone} /\ left \in 0 .. Ttl
  /\ lock \in Workers \cup {Nobody, Gone} /\ running \subseteq Workers
  /\ cp \in BOOLEAN /\ since \in 0 .. Longest
  /\ pc \in [Workers -> {"down", "top", "pause", "defer", "interval", "decide", "wait"}]
  /\ clock \in [Workers -> 0 .. Longest + Retry + Patience]
  /\ known \in [Workers -> Intervals] /\ first \subseteq Workers
  /\ events \in 0 .. MaxEvents /\ idle \in 0 .. Bound + 1

\* The first start of the system: nothing has been synced yet.
Init ==
  /\ interval \in Intervals
  /\ leader = Nobody /\ left = 0
  /\ lock = Nobody /\ running = {} /\ cp = FALSE /\ since = Longest
  /\ pc = [w \in Workers |-> "pause"] /\ clock = [w \in Workers |-> 1]
  /\ known = [w \in Workers |-> interval] /\ first = Workers
  /\ events = 0 /\ idle = 0

Event == events < MaxEvents /\ events' = events + 1

Goto(w, step, ticks) ==
  /\ pc' = [pc EXCEPT ![w] = step]
  /\ clock' = [clock EXCEPT ![w] = ticks]

-----------------------------------------------------------------------------
(* The loop *)

\* Mutant: the claim of another worker is never taken over.
MayLeadOwn(w) == leader \in {w, Nobody}

\* try_become_leader inserts, refreshes its own or takes over an expired claim.
MayLead(w) == leader \in {w, Nobody} \/ left = 0

StartRun(w) ==
  /\ lock = Nobody /\ w \notin running
  /\ lock' = w /\ idle' = 0
  /\ running' = running \cup {w}

\* The first cycle: a checkpoint is resumed, otherwise the phase is due when
\* the interval since its last completion is over.
FirstCycle(w) ==
  /\ first' = first \ {w}
  /\ IF cp
     THEN IF lock = Nobody /\ w \notin running
          THEN StartRun(w) /\ Goto(w, "top", 0)
          ELSE /\ Goto(w, IF w \in running THEN "top" ELSE "pause", IF w \in running THEN 0 ELSE 1)
               /\ UNCHANGED <<lock, running, idle>>
     ELSE /\ IF since < interval THEN Goto(w, "defer", interval - since) ELSE Goto(w, "decide", 0)
          /\ UNCHANGED <<lock, running, idle>>

\* Top of the loop: the election, the configuration, and the sleep.
Top(w) ==
  /\ pc[w] = "top"
  /\ known' = [known EXCEPT ![w] = interval]
  /\ IF ~MayLead(w)
     THEN Goto(w, "pause", 1) /\ UNCHANGED <<claim, lock, running, first, events, idle>>
     ELSE /\ leader' = w /\ left' = Ttl
          /\ \/ Event /\ Goto(w, "pause", Retry) /\ UNCHANGED <<lock, running, first, idle>>
             \/ /\ UNCHANGED events
                /\ \/ /\ interval = 0
                      /\ first' = first \ {w}
                      /\ Goto(w, "pause", Retry) /\ UNCHANGED <<lock, running, idle>>
                   \/ interval # 0 /\ w \in first /\ FirstCycle(w)
                   \/ /\ interval # 0 /\ w \notin first
                      /\ Goto(w, "interval", interval) /\ UNCHANGED <<lock, running, first, idle>>
  /\ UNCHANGED <<interval, cp, since>>

\* After the sleep: wait for a run of this worker, or resume or trigger one;
\* either is refused while the lock is held.  Whether this worker is still
\* the leader is not asked.
Decide(w) ==
  /\ pc[w] = "decide"
  /\ IF w \in running THEN Goto(w, "wait", 0) /\ UNCHANGED <<lock, running, idle>>
     ELSE IF lock = Nobody THEN StartRun(w) /\ Goto(w, "wait", 0)
     ELSE Goto(w, "pause", Retry) /\ UNCHANGED <<lock, running, idle>>
  /\ UNCHANGED <<interval, claim, cp, since, known, first, events>>

\* A failed read of the configuration ends the interval sleep.
ReadFails(w) ==
  /\ pc[w] = "interval" /\ Event
  /\ Goto(w, "decide", 0)
  /\ UNCHANGED <<interval, claim, phase, known, first, idle>>

-----------------------------------------------------------------------------
(* Time *)

\* In the interval sleep the configuration is read after every chunk, and a
\* changed interval starts it again.
Remaining(w) == IF interval # known[w] THEN interval ELSE clock[w] - 1

\* A wait polls the runner, and sends heartbeats.
StillWaits(w) == w \in running /\ clock[w] + 1 < Patience

NewClock(w) ==
  CASE pc[w] \in {"pause", "defer"} -> clock[w] - 1
    [] pc[w] = "interval" -> Remaining(w)
    [] pc[w] = "wait" -> IF StillWaits(w) THEN clock[w] + 1 ELSE 0
    [] OTHER -> 0

After(w) ==
  CASE pc[w] = "pause" /\ NewClock(w) = 0 -> "top"
    [] pc[w] \in {"defer", "interval"} /\ NewClock(w) = 0 -> "decide"
    [] pc[w] = "wait" /\ ~StillWaits(w) -> "top"
    [] OTHER -> pc[w]

Off == interval = 0 \/ lock # Nobody \/ \A w \in Workers : pc[w] = "down"

\* Coroutines that are due run before time goes on.
Tick ==
  /\ \A w \in Workers : pc[w] \notin {"top", "decide"}
  /\ clock' = [w \in Workers |-> NewClock(w)]
  /\ pc' = [w \in Workers |-> After(w)]
  /\ known' = [w \in Workers |-> IF pc[w] = "interval" THEN interval ELSE known[w]]
  /\ left' = IF leader \in Workers /\ pc[leader] = "wait" THEN Ttl
             ELSE IF left = 0 THEN 0 ELSE left - 1
  /\ since' = IF since = Longest THEN since ELSE since + 1
  /\ idle' = IF Off THEN 0 ELSE IF idle > Bound THEN idle ELSE idle + 1
  /\ UNCHANGED <<interval, leader, lock, running, cp, first, events>>

-----------------------------------------------------------------------------
(* The surroundings *)

SetInterval ==
  /\ Event
  /\ interval' \in Intervals \ {interval}
  /\ idle' = 0
  /\ UNCHANGED <<claim, phase, scheduler>>

\* The runner is triggered by a request.
Request(w) ==
  /\ pc[w] # "down" /\ StartRun(w)
  /\ UNCHANGED <<interval, claim, cp, since, scheduler, events>>

\* A run completes; or it fails or is cancelled, with or without a checkpoint.
RunEnds(w) ==
  /\ w \in running
  /\ running' = running \ {w}
  /\ lock' = IF lock = w THEN Nobody ELSE lock
  /\ \/ since' = 0 /\ cp' = FALSE
     \/ since' = since /\ cp' \in {cp, TRUE}
  /\ UNCHANGED <<interval, claim, scheduler, events, idle>>

\* A worker dies; one that comes up again has another id in the election and
\* in the lock.
Crash(w) ==
  /\ pc[w] # "down" /\ Event
  /\ Goto(w, "down", 0)
  /\ leader' = IF leader = w THEN Gone ELSE leader
  /\ lock' = IF lock = w THEN Gone ELSE lock
  /\ running' = running \ {w}
  /\ cp' \in IF w \in running THEN {cp, TRUE} ELSE {cp}
  /\ UNCHANGED <<interval, left, since, known, first, idle>>

Restart(w) ==
  /\ pc[w] = "down"
  /\ Goto(w, "pause", 1)
  /\ first' = first \cup {w}
  /\ UNCHANGED <<interval, claim, phase, known, events, idle>>

\* CancelledError ends the scheduler of a worker that is shut down.
Shutdown(w) ==
  /\ pc[w] # "down" /\ w \notin running /\ Event
  /\ Goto(w, "down", 0)
  /\ leader' = IF leader = w THEN Nobody ELSE leader
  /\ UNCHANGED <<interval, left, phase, known, first, idle>>

LockExpires ==
  /\ lock = Gone
  /\ lock' = Nobody
  /\ UNCHANGED <<interval, claim, running, cp, since, scheduler, events, idle>>

Next ==
  \/ Tick \/ SetInterval \/ LockExpires
  \/ \E w \in Workers : \/ Top(w) \/ Decide(w) \/ ReadFails(w) \/ Request(w)
                        \/ RunEnds(w) \/ Crash(w) \/ Restart(w) \/ Shutdown(w)

Spec == Init /\ [][Next]_vars

-----------------------------------------------------------------------------
\* Whatever workers die, are shut down or come up, whichever of them lead,
\* sleep or wait, and whatever runs fail, a phase that is scheduled is started
\* again within a bounded time: the interval, a retry, and a term of the
\* election for every event.
Punctual == idle <= Bound

\* The scheduler starts a run only while its worker is the leader.
OthersBackOff ==
  [][\A w \in Workers : Decide(w) /\ w \in running' \ running => leader = w]_vars

\* A scheduler that has read that the interval is 0 starts no run.
OffMeansOff ==
  [][\A w \in Workers : Decide(w) /\ w \in running' \ running => known[w] # 0]_vars
=============================================================================
