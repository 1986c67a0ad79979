---------------------------- MODULE MCJobs -----------------------------------
(***************************************************************************)
(* Jobs for TLC.  What a part may start from is left open only in the      *)
(* behaviours of that part.                                                *)
(***************************************************************************)
EXTENDS Jobs, TLC

MCWindows == [minute |-> 2, hour |-> 3]

MCGroupOf == [s \in Subscribes |-> IF s = "s3" THEN "g2" ELSE "g1"]

\* Two groups beside a sync; a group that leaves beside a sync; one that
\* leaves and comes back; the end of the entry.
MCScopes == {{"s1", "s3", "y1"}, {"s1", "u1", "y1"}, {"s1", "u1", "s2"}, {"s1", "y1", "delete"}}

\* The tasks, requests and runs of a part are alike.
Symmetry == Permutations(Appliers)

MCInit ==
  /\ JobsInit
  /\ part # "alerts" => domain = "compliance"
  /\ part # "summaries" => active = {}
  /\ part # "crowdstrike" => clock = 0
  /\ key[1].expires = "later"
  /\ part # "classification" => \A a \in Agents : ids[a] = 0
  /\ part # "library" => callers = {"s1", "s3", "y1"}
  /\ part # "limits" => limit["key"] = [minute |-> 1, hour |-> 1]

MCSpec == MCInit /\ [][JobsNext]_<<part, allVars>>
=============================================================================
