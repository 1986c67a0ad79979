------------------------------ MODULE AuditLog ------------------------------
(***************************************************************************)
(* What readers of the audit chain are promised: an append-only sequence   *)
(* of entries, each entry once.                                            *)
(***************************************************************************)
EXTENDS Sequences

CONSTANT Entries

VARIABLE chain   \* the entries, oldest first

Init == chain = <<>>

AppendEntry(e) ==
  /\ \A i \in DOMAIN chain : chain[i] # e
  /\ chain' = Append(chain, e)

Next == \E e \in Entries : AppendEntry(e)

Spec == Init /\ [][Next]_chain
=============================================================================
