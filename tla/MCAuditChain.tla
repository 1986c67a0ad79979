---------------------------- MODULE MCAuditChain ----------------------------
(* Instances of AuditChain and its readers for TLC. *)
EXTENDS AuditReaders, TLC

CONSTANTS e1, e2, e3, w1, w2

MCEvents == {e1, e2, e3}
MCWorkers == {w1, w2}
MCWorkerOf == (e1 :> w1) @@ (e2 :> w2) @@ (e3 :> w1)
OneServes == [e \in MCEvents |-> w1]

MCEnvironments == {{},
                   {"write_error", "crash"},
                   {"cancel"},
                   {"ambiguous", "two_workers"},
                   {"call_error"},
                   {"slow"},
                   {"retention", "two_workers"}}
MCReadIn == {{}, {"cancel"}, {"slow"}}
NoReader == {}

SecondWorker == {{"two_workers"}}
Cancellations == {{"cancel"}}
=============================================================================
