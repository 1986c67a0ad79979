---------------------------- MODULE MCAgentSync -----------------------------
(* Instances of AgentSync for TLC. *)
EXTENDS AgentSync

MCEnvironments == {{"interrupt"}, {"crowdstrike"}}
Interruptions == {{"interrupt"}}
BothSources == {{"crowdstrike"}}
=============================================================================
