------------------------------- MODULE ApiKeys -------------------------------
(***************************************************************************)
(* domains/api_keys/service.py and the test of a key in middleware.py: one *)
(* key, its rotations into others, revocation and updates, by requests     *)
(* which read a key, test it, and write it in another call.                *)
(*                                                                         *)
(* The grace period of a rotated key does not end while the request that   *)
(* rotates it is still running.                                            *)
(***************************************************************************)
EXTENDS Integers, FiniteSets

CONSTANTS
  Changes,   \* requests in flight at a time
  KeyIds,    \* 1 .. n: bound on the keys made; key 1 is there
  MaxLosses  \* requests that die or whose answer is lost

ApiKeyAssumption ==
  /\ IsFiniteSet(Changes) /\ MaxLosses \in Nat
  /\ IsFiniteSet(KeyIds) /\ 1 \in KeyIds /\ KeyIds = 1 .. Cardinality(KeyIds)

VARIABLES
  key,      \* the documents
  change,   \* what each request does next, the key it is about, the new one
  keys,     \* how many have been made
  held,     \* keys the client has received
  losses,
  spoilt,   \* history: a key was revoked or expired, or a rotation was cut
  revoked   \* history: keys revoked while no rotation had to do with them

keyVars == <<key, change, keys, held, losses, spoilt, revoked>>

NoKey == [there |-> FALSE, active |-> FALSE, grace |-> "none", expires |-> "never"]
NewKey(expires) == [there |-> TRUE, active |-> TRUE, grace |-> "none", expires |-> expires]
NoChange == [pc |-> "rest", id |-> 1, new |-> 1, entity |-> NoKey]
Documents == [there : BOOLEAN, active : BOOLEAN, grace : {"none", "running", "over"},
              expires : {"never", "later", "past"}]

ApiKeyTypeOK ==
  /\ key \in [KeyIds -> Documents]
  /\ change \in [Changes -> [pc : {"rest", "retire", "insert", "answer", "revoke", "update"},
                             id : KeyIds, new : KeyIds, entity : Documents]]
  /\ keys \in KeyIds /\ held \subseteq KeyIds /\ losses \in 0 .. MaxLosses
  /\ spoilt \in BOOLEAN /\ revoked \subseteq KeyIds

ApiKeyInit ==
  /\ \E e \in {"never", "later"} :
       key = [i \in KeyIds |-> IF i = 1 THEN NewKey(e) ELSE NoKey]
  /\ change = [c \in Changes |-> NoChange]
  /\ keys = 1 /\ held = {1} /\ losses = 0 /\ spoilt = FALSE /\ revoked = {}

\* find_by_hash_including_grace() and the tests of _authenticate_api_key().
Authenticates(i) ==
  /\ key[i].there
  /\ key[i].active \/ key[i].grace = "running"
  /\ key[i].expires # "past"

Set(i, fields) == key' = [key EXCEPT ![i] = fields]
Rotating(i) == \E c \in Changes : change[c].id = i /\ change[c].pc \in {"retire", "insert", "answer"}

-----------------------------------------------------------------------------
\* rotate_api_key() and update_api_key() refuse an inactive key;
\* revoke_api_key() takes any.
Ask(c, step) ==
  /\ change[c].pc = "rest"
  /\ \E i \in KeyIds :
       /\ key[i].there /\ (step # "revoke" => key[i].active)
       /\ change' = [change EXCEPT ![c] = [NoChange EXCEPT !.pc = step, !.id = i, !.entity = key[i]]]
  /\ UNCHANGED <<key, keys, held, losses, spoilt, revoked>>

\* rotate_api_key(): the old key is revoked with a grace period ...
RetireOld(c) ==
  /\ change[c].pc = "retire"
  /\ Set(change[c].id, [key[change[c].id] EXCEPT !.active = FALSE, !.grace = "running"])
  /\ change' = [change EXCEPT ![c].pc = "insert"]
  /\ UNCHANGED <<keys, held, losses, spoilt, revoked>>

\* ... and a new one inserted with what was read of it,
InsertNew(c) ==
  /\ change[c].pc = "insert" /\ keys + 1 \in KeyIds
  /\ keys' = keys + 1
  /\ Set(keys', NewKey(change[c].entity.expires))
  /\ change' = [change EXCEPT ![c].pc = "answer", ![c].new = keys']
  /\ UNCHANGED <<held, losses, spoilt, revoked>>

\* which the client gets in the answer.
AnswerRotation(c) ==
  /\ change[c].pc = "answer"
  /\ held' = held \cup {change[c].new}
  /\ change' = [change EXCEPT ![c] = NoChange]
  /\ UNCHANGED <<key, keys, losses, spoilt, revoked>>

\* revoke_api_key() leaves a grace period that is running.
Revoke(c) ==
  /\ change[c].pc = "revoke"
  /\ LET i == change[c].id IN
     /\ Set(i, [key[i] EXCEPT !.active = FALSE])
     /\ revoked' = IF Rotating(i) \/ key[i].grace # "none" THEN revoked ELSE revoked \cup {i}
  /\ spoilt' = TRUE
  /\ change' = [change EXCEPT ![c] = NoChange]
  /\ UNCHANGED <<keys, held, losses>>

\* Mutant: an update writes the whole document it has read.
UpdateWhole(c) ==
  /\ change[c].pc = "update"
  /\ Set(change[c].id, [change[c].entity EXCEPT !.expires = "later"])
  /\ change' = [change EXCEPT ![c] = NoChange]
  /\ UNCHANGED <<keys, held, losses, spoilt, revoked>>

\* update_api_key() sets the fields it was given.
Update(c) ==
  /\ change[c].pc = "update"
  /\ Set(change[c].id, [key[change[c].id] EXCEPT !.expires = "later"])
  /\ change' = [change EXCEPT ![c] = NoChange]
  /\ UNCHANGED <<keys, held, losses, spoilt, revoked>>

-----------------------------------------------------------------------------
\* The process dies, a call raises, or the answer does not arrive.
LoseRequest(c) ==
  /\ change[c].pc # "rest" /\ losses < MaxLosses
  /\ losses' = losses + 1
  /\ spoilt' = (spoilt \/ change[c].pc \in {"insert", "answer"})
  /\ change' = [change EXCEPT ![c] = NoChange]
  /\ UNCHANGED <<key, keys, held, revoked>>

GraceEnds(i) ==
  /\ key[i].grace = "running"
  /\ \A c \in Changes : change[c].id = i => change[c].pc \notin {"insert", "answer"}
  /\ Set(i, [key[i] EXCEPT !.grace = "over"])
  /\ UNCHANGED <<change, keys, held, losses, spoilt, revoked>>

Expire(i) ==
  /\ key[i].expires = "later"
  /\ Set(i, [key[i] EXCEPT !.expires = "past"])
  /\ spoilt' = TRUE
  /\ UNCHANGED <<change, keys, held, losses, revoked>>

ApiKeyNext ==
  \/ \E i \in KeyIds : GraceEnds(i) \/ Expire(i)
  \/ \E c \in Changes :
       \/ \E step \in {"retire", "revoke", "update"} : Ask(c, step)
       \/ RetireOld(c) \/ InsertNew(c) \/ AnswerRotation(c) \/ Revoke(c) \/ Update(c)
       \/ LoseRequest(c)

ApiKeySpec == ApiKeyInit /\ [][ApiKeyNext]_keyVars

-----------------------------------------------------------------------------
\* adr/0022: "Key rotation without downtime (grace period)": through any
\* rotations, also concurrent ones, the client has a key that is accepted, as
\* long as none is revoked or expires and every rotation is answered.
HolderIsServed == spoilt \/ \E i \in held : Authenticates(i)

\* docs/api/api-keys.md: "Immediate revocation": a revoked key that no rotation
\* has to do with is refused from then on, whatever updates are under way.
RevocationLasts == \A i \in revoked : ~Authenticates(i)

KeysServeUntilRevoked == HolderIsServed /\ RevocationLasts

\* The same, without the restriction: "All subsequent requests with this key
\* return 401."  (A grace period that is running goes on, and a rotation that
\* has tested the key before starts one.)
RevokedIsRefused ==
  [][\A c \in Changes : Revoke(c) => ~(Authenticates(change[c].id))']_keyVars
=============================================================================
