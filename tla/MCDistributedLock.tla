------------------------ MODULE MCDistributedLock ------------------------
(* Instances of DistributedLock for TLC. *)
EXTENDS DistributedLock, TLC

CONSTANTS h1, h2, h3, w1, w2

MCHandles == {h1, h2, h3}
MCWorkers == {w1, w2}
\* w1 keeps a second handle, which only acts before or after the first.
MCWorkerOf == (h1 :> w1) @@ (h2 :> w2) @@ (h3 :> w1)

MCEnvironments == SUBSET FaultKinds
HeartbeatErrors == {{"heartbeat_error"}}
Purges == {{"startup_purge"}}
===========================================================================
