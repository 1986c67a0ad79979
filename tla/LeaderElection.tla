--------------------------- MODULE LeaderElection ---------------------------
(***************************************************************************)
(* utils/leader_election.py: one election, held by a document that expires.*)
(*                                                                         *)
(* The document is read and written by single database operations between  *)
(* which the other workers run and time passes; a call compares and writes *)
(* the time at which it began.  The workers' clocks agree.                 *)
(***************************************************************************)
EXTENDS Integers

CONSTANTS
  Workers,  \* objects of LeaderElection, one per worker process
  Ttl,      \* ttl_seconds
  MaxTime,  \* the time at which behaviours are cut
  NoClaim   \* no document

Claims == [worker : Workers, expires : 0 .. MaxTime + Ttl]

ElectionAssumption ==
  Ttl \in Nat \ {0} /\ MaxTime \in Nat /\ NoClaim \notin Claims

VARIABLES
  time,
  claim,  \* the document of the election
  pc,     \* the database operation a worker does next
  began,  \* when its call began
  until   \* how long it may take itself for the leader

vars == <<time, claim, pc, began, until>>

Never == -1

TypeOK ==
  /\ time \in 0 .. MaxTime
  /\ claim \in Claims \cup {NoClaim}
  /\ pc \in [Workers -> {"idle", "insert", "refresh", "takeover", "heartbeat", "resign", "dead"}]
  /\ began \in [Workers -> 0 .. MaxTime]
  /\ until \in [Workers -> {Never} \cup 0 .. MaxTime + Ttl]

Init ==
  /\ time = 0
  /\ claim = NoClaim
  /\ pc = [w \in Workers |-> "idle"]
  /\ began = [w \in Workers |-> 0]
  /\ until = [w \in Workers |-> Never]

Tick ==
  /\ time < MaxTime
  /\ time' = time + 1
  /\ UNCHANGED <<claim, pc, began, until>>

\* The TTL index of the collection removes an expired document, in its time.
Purge ==
  /\ claim # NoClaim /\ claim.expires <= time
  /\ claim' = NoClaim
  /\ UNCHANGED <<time, pc, began, until>>

Goto(w, step) == pc' = [pc EXCEPT ![w] = step]

\* try_become_leader, heartbeat and resign are called by one coroutine.
Call(w) ==
  /\ pc[w] = "idle"
  /\ \E call \in {"insert", "heartbeat", "resign"} : Goto(w, call)
  /\ began' = [began EXCEPT ![w] = time]
  /\ UNCHANGED <<time, claim, until>>

Crash(w) ==
  /\ pc[w] # "dead"
  /\ Goto(w, "dead")
  /\ until' = [until EXCEPT ![w] = Never]
  /\ UNCHANGED <<time, claim, began>>

-----------------------------------------------------------------------------
IsMine(w) == claim # NoClaim /\ claim.worker = w

\* expires_at.
Expiry(w) == began[w] + Ttl

\* The claim is w's, and the call is over.
Hold(w) ==
  /\ claim' = [worker |-> w, expires |-> Expiry(w)]
  /\ until' = [until EXCEPT ![w] = Expiry(w)]
  /\ Goto(w, "idle")

\* The call is over and w is not the leader.
Yield(w) ==
  /\ until' = [until EXCEPT ![w] = Never]
  /\ Goto(w, "idle")
  /\ UNCHANGED claim

\* try_become_leader, in three operations.
Insert(w) ==
  /\ pc[w] = "insert"
  /\ IF claim = NoClaim THEN Hold(w) ELSE Goto(w, "refresh") /\ UNCHANGED <<claim, until>>
  /\ UNCHANGED <<time, began>>

\* The worker's own claim, be it expired.
Refresh(w) ==
  /\ pc[w] = "refresh"
  /\ IF IsMine(w) THEN Hold(w) ELSE Goto(w, "takeover") /\ UNCHANGED <<claim, until>>
  /\ UNCHANGED <<time, began>>

\* Mutant: a claim that expires before its own would is taken over.
TakeOverEarly(w) ==
  /\ pc[w] = "takeover"
  /\ IF claim # NoClaim /\ claim.expires < Expiry(w) THEN Hold(w) ELSE Yield(w)
  /\ UNCHANGED <<time, began>>

\* Only a claim that had expired when the call began.
TakeOver(w) ==
  /\ pc[w] = "takeover"
  /\ IF claim # NoClaim /\ claim.expires < began[w] THEN Hold(w) ELSE Yield(w)
  /\ UNCHANGED <<time, began>>

\* heartbeat has no answer.
Heartbeat(w) ==
  /\ pc[w] = "heartbeat"
  /\ IF IsMine(w) THEN Hold(w) ELSE Goto(w, "idle") /\ UNCHANGED <<claim, until>>
  /\ UNCHANGED <<time, began>>

\* delete_one, of its own claim.
Resign(w) ==
  /\ pc[w] = "resign"
  /\ claim' = IF IsMine(w) THEN NoClaim ELSE claim
  /\ until' = [until EXCEPT ![w] = Never]
  /\ Goto(w, "idle")
  /\ UNCHANGED <<time, began>>

-----------------------------------------------------------------------------
Step(w) == Insert(w) \/ Refresh(w) \/ TakeOver(w) \/ Heartbeat(w) \/ Resign(w)

Next == Tick \/ Purge \/ \E w \in Workers : Call(w) \/ Step(w) \/ Crash(w)

Spec == Init /\ [][Next]_vars

-----------------------------------------------------------------------------
\* A worker that may take itself for the leader has the claim, until then.
LeaderHasClaim ==
  \A w \in Workers : until[w] > time => IsMine(w) /\ claim.expires = until[w]

\* Two workers are never leaders at the same time: however long the operations
\* of a call are apart, whoever inserts, refreshes, takes over, resigns or
\* dies in between, and whenever the TTL index removes the document.
OneLeader ==
  \A v, w \in Workers : until[v] > time /\ until[w] > time => v = w
=============================================================================
