----------------------- MODULE MCLibrarySubscriptions -----------------------
(* Instances of LibrarySubscriptions for TLC. *)
EXTENDS LibrarySubscriptions, TLC

CONSTANTS g1, g2, s1, s2, s3, u1, y1

MCGroupOf == [s \in Subscribes |-> IF s = s3 THEN g2 ELSE g1]

\* Two groups beside a sync; a group that leaves beside a sync; one that
\* leaves and comes back; the end of the entry.
MCScopes == {{s1, s3, y1}, {s1, u1, y1}, {s1, u1, s2}, {s1, y1, "delete"}}
OneScope == {{s1, u1, y1}}
=============================================================================
