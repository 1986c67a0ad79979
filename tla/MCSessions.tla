----------------------------- MODULE MCSessions -----------------------------
(* Instances of Sessions for TLC. *)
EXTENDS Sessions, TLC

CONSTANTS w1, w2, l1, l2, l3, r1, r2, v1, v2

MCWorkerOf == (l1 :> w1) @@ (l2 :> w2) @@ (l3 :> w1) @@ (r1 :> w1) @@ (r2 :> w2)
              @@ (v1 :> w1) @@ (v2 :> w2)

\* Three logins that race for the lockout; exchanges of tokens beside a
\* revocation; revocations beside the reloads.
MCScopes == {{l1, l2, l3}, {l1, l2, r1, v1}, {l1, r1, r2, v1}, {l1, v1, "reload"}, {v1, v2, "reload"}}
=============================================================================
