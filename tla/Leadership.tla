----------------------------- MODULE Leadership ------------------------------
(***************************************************************************)
(* The election of a leader among the workers, and the schedulers that the *)
(* leader runs; a behaviour is one of the two.                             *)
(***************************************************************************)
EXTENDS PhaseScheduler, TLC

CONSTANTS Candidates, Term, MaxTime, NoClaim

VARIABLES part, time, document, op, began, until

Election == INSTANCE LeaderElection WITH
  Workers <- Candidates, Ttl <- Term, claim <- document, pc <- op

ASSUME LeadershipAssumption == Election!ElectionAssumption

Symmetry == Permutations(Candidates) \cup Permutations(Workers)

electionVars == <<time, document, op, began, until>>

LeadershipInit ==
  /\ part \in {"election", "scheduler"}
  /\ Election!Init /\ Init
  /\ part # "scheduler" => interval = 0

LeadershipNext ==
  /\ UNCHANGED part
  /\ \/ part = "election" /\ Election!Next /\ UNCHANGED vars
     \/ part = "scheduler" /\ Next /\ UNCHANGED electionVars

LeadershipSpec == LeadershipInit /\ [][LeadershipNext]_<<part, electionVars, vars>>

\* LeaderElection: two workers are never leaders at the same time.
OneLeader == Election!OneLeader
=============================================================================
