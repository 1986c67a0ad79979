-------------------------- MODULE AgentSync_proofs --------------------------
(***************************************************************************)
(* The agents phase keeps the copy caught up, for any number of agents,    *)
(* any page and buffer sizes, any number of runs and any interruptions.    *)
(***************************************************************************)
EXTENDS AgentSync, TLAPS, FiniteSetTheorems

-----------------------------------------------------------------------------
(* The inductive invariant *)

Running == pc # "idle"

\* Nothing carries a time that has not come yet, and a run starts after
\* everything it finds.
TimeInv ==
  /\ \A a \in Agents : source[a].changed =< clock
  /\ \A a \in DOMAIN docs : docs[a].synced_at =< clock
  /\ meta =< clock
  /\ Running => started =< clock /\ since < started /\ meta =< started
  /\ Running /\ pc # "clear" => since = meta

\* Where in the run which local is in use.
StageInv ==
  /\ pc \notin {"take", "store", "count"} => page = {}
  /\ pc \notin {"fetch", "take", "store", "count", "rest"} => buffer = {}
  /\ pc = "stale" => mode = "full"
  /\ pc = "decommissioned" => mode = "incremental"
  /\ Running /\ resumed => ~sound

\* What was read from SentinelOne during the run is still right if the agent
\* has not changed since the run started.
ReadInv ==
  Running =>
    /\ \A d \in page \cup buffer : source[d.id].changed < started =>
         source[d.id].state = "active" /\ d.changed = source[d.id].changed
    /\ \A a \in DOMAIN docs :
         docs[a].synced_at = started /\ source[a].changed < started =>
           source[a].state = "active" /\ docs[a].changed = source[a].changed

\* The agents the run has to bring, and where each of them is.
Wanted(a) == /\ source[a].state = "active" /\ source[a].changed < started
             /\ mode = "incremental" => source[a].changed >= since
Written(a) == a \in DOMAIN docs /\ docs[a].synced_at = started
InHand(a) == \E d \in page \cup buffer : d.id = a
Ahead(a) ==
  /\ a > last
  /\ \/ pc = "fetch"
     \/ pc \in {"take", "store", "count"} /\ more /\ \A d \in page : d.id < a

CoverInv ==
  Running /\ ~resumed =>
    \A a \in Agents : Wanted(a) => Written(a) \/ InHand(a) \/ Ahead(a)

\* What has been deleted at the end of a run.
DeletedInv ==
  /\ pc \in {"record", "clear"} /\ mode = "full" => \A a \in DOMAIN docs : Written(a)
  /\ pc \in {"record", "clear"} /\ mode = "incremental" /\ since > 0 =>
       \A a \in DOMAIN docs :
         ~(source[a].state = "gone" /\ source[a].changed >= since
                                    /\ source[a].changed < started)
  /\ Running /\ sound /\ mode = "incremental" /\ since = 0 =>
       \A a \in DOMAIN docs : Written(a)

IInv == TypeOK /\ TimeInv /\ StageInv /\ ReadInv /\ CoverInv /\ DeletedInv /\ CaughtUp

-----------------------------------------------------------------------------
(* Writing items into the collection *)

\* What bulk_write leaves: the documents of the items, each with the version
\* of an item, and all others as they were.
LEMMA ReplacedDocs ==
  ASSUME TypeOK, NEW items, items \subseteq Items
  PROVE  /\ DOMAIN Replaced(items) = DOMAIN docs \cup {d.id : d \in items}
         /\ DOMAIN Replaced(items) \subseteq Agents
         /\ Replaced(items) \in [DOMAIN Replaced(items) -> [changed : Nat, synced_at : Nat]]
         /\ \A a \in DOMAIN Replaced(items) :
              \/ /\ \E d \in items : d.id = a /\ Replaced(items)[a].changed = d.changed
                 /\ Replaced(items)[a].synced_at = started
              \/ /\ a \in DOMAIN docs /\ ~\E d \in items : d.id = a
                 /\ Replaced(items)[a] = docs[a]
<1> DEFINE D == DOMAIN docs \cup {d.id : d \in items}
<1>1. DOMAIN Replaced(items) = D
  BY DEF Replaced
<1>2. D \subseteq Agents
  BY DEF TypeOK, Items
<1>3. ASSUME NEW a \in D
      PROVE  \/ /\ \E d \in items : d.id = a /\ Replaced(items)[a].changed = d.changed
                /\ Replaced(items)[a].synced_at = started
                /\ Replaced(items)[a] \in [changed : Nat, synced_at : Nat]
             \/ /\ a \in DOMAIN docs /\ ~\E d \in items : d.id = a
                /\ Replaced(items)[a] = docs[a]
                /\ Replaced(items)[a] \in [changed : Nat, synced_at : Nat]
  <2>1. CASE \E d \in items : d.id = a
    <3> DEFINE c == CHOOSE d \in items : d.id = a
    <3>1. c \in items /\ c.id = a
      BY <2>1
    <3>2. Replaced(items)[a] = [changed |-> c.changed, synced_at |-> started]
      BY <2>1 DEF Replaced
    <3>3. c.changed \in Nat /\ started \in Nat
      BY <3>1 DEF TypeOK, Items
    <3> HIDE DEF c
    <3> QED
      BY <3>1, <3>2, <3>3
  <2>2. CASE ~\E d \in items : d.id = a
    BY <2>2 DEF Replaced, TypeOK
  <2> QED
    BY <2>1, <2>2
<1>4. Replaced(items) = [a \in D |-> Replaced(items)[a]]
  BY DEF Replaced
<1>5. Replaced(items) \in [D -> [changed : Nat, synced_at : Nat]]
  <2> HIDE DEF D
  <2> QED
    BY <1>3, <1>4
<1> QED
  BY <1>1, <1>2, <1>3, <1>5

-----------------------------------------------------------------------------
(* Type correctness *)

LEMMA TypeInit == Init => TypeOK
<1> SUFFICES ASSUME Init PROVE TypeOK
  OBVIOUS
<1> USE SyncAssumption
<1>1. source \in [Agents -> [state : {"absent", "active", "gone"}, changed : Nat]]
  BY DEF Init
<1>2. DOMAIN docs \subseteq Agents /\ docs \in [DOMAIN docs -> [changed : Nat, synced_at : Nat]]
  BY DEF Init
<1>3. checkpoint \in Checkpoints /\ request \in Checkpoints \cup {NoRequest}
  BY DEF Init, Checkpoints
<1>4. faults \subseteq FaultKinds
  BY DEF Init
<1> QED
  <2>1. 0 \in 0 .. N /\ 0 \in 0 .. SaveAt - 1 /\ 0 \in 0 .. MaxChanges /\ 0 \in 0 .. MaxRuns
    OBVIOUS
  <2>2. others \subseteq Others /\ page \subseteq Items /\ buffer \subseteq Items
    BY DEF Init
  <2>3. pc = "idle" /\ pc \in PCs /\ mode \in Modes
    BY DEF Init, PCs, Modes
  <2> QED
    BY <1>1, <1>2, <1>3, <1>4, <2>1, <2>2, <2>3 DEF Init, TypeOK

LEMMA TypeReset ==
  ASSUME ResetRun, pc' = "idle"
  PROVE  /\ pc' \in PCs /\ pc' \notin {"store", "count"}
         /\ mode' \in Modes /\ resumed' \in BOOLEAN /\ since' \in Nat /\ started' \in Nat
         /\ last' \in 0 .. N /\ page' \subseteq Items /\ more' \in BOOLEAN
         /\ buffer' \subseteq Items /\ synced' \in 0 .. SaveAt - 1
<1>1. 0 \in 0 .. N /\ 0 \in 0 .. SaveAt - 1
  BY SyncAssumption
<1> QED
  BY <1>1 DEF ResetRun, PCs, Modes

LEMMA TypeStep == TypeOK /\ [Next]_vars => TypeOK'
<1> SUFFICES ASSUME TypeOK, [Next]_vars PROVE TypeOK'
  OBVIOUS
<1> USE SyncAssumption
<1>1. ASSUME NEW a \in Agents, Change(a) \/ Decommission(a) PROVE TypeOK'
  BY <1>1 DEF Change, Decommission, Upstream, TypeOK, run
<1>2. CASE CrowdStrikeSync
  BY <1>2 DEF CrowdStrikeSync, TypeOK, run
<1>3. CASE LoadCheckpoint \/ Busy
  BY <1>3 DEF LoadCheckpoint, Busy, TypeOK, run
<1>4. ASSUME NEW m \in Modes \cup {"auto"}, Begin(m) PROVE TypeOK'
  <2>1. last' \in 0 .. N
    <3>1. request \in Checkpoints
      BY <1>4 DEF Begin, TypeOK
    <3>2. request.last_id \in 0 .. N
      BY <3>1 DEF Checkpoints, NoCheckpoint, Agents
    <3> QED
      BY <1>4, <3>2 DEF Begin
  <2>2. mode' \in Modes /\ resumed' \in BOOLEAN /\ sound' \in BOOLEAN
    BY <1>4 DEF Begin, TypeOK, Modes
  <2> QED
    BY <1>4, <2>1, <2>2 DEF Begin, TypeOK, PCs
<1>5. CASE FetchPage
  <2>1. \A a \in Agents : source[a].changed \in Nat
    BY DEF TypeOK
  <2>2. page' \subseteq {[id |-> a, changed |-> source[a].changed] : a \in Agents}
    BY <1>5 DEF FetchPage, Matching
  <2>3. page' \subseteq Items
    BY <2>1, <2>2 DEF Items
  <2> QED
    BY <1>5, <2>3 DEF FetchPage, TypeOK, PCs
<1>6. CASE TakeItem
  <2>1. page' \subseteq Items /\ buffer' \subseteq Items /\ last' \in 1 .. N
    BY <1>6 DEF TakeItem, TypeOK, Items, Agents
  <2> QED
    BY <1>6, <2>1 DEF TakeItem, TypeOK, PCs
<1>7. CASE EndPage
  BY <1>7 DEF EndPage, TypeOK, run, PCs
<1>8. CASE Flush \/ FlushRest
  <2>1. docs' = Replaced(buffer) /\ buffer \subseteq Items
    BY <1>8 DEF Flush, FlushRest, TypeOK
  <2>2. /\ DOMAIN docs' \subseteq Agents
        /\ docs' \in [DOMAIN docs' -> [changed : Nat, synced_at : Nat]]
    BY <2>1, ReplacedDocs
  <2> QED
    BY <1>8, <2>2 DEF Flush, FlushRest, TypeOK, PCs
<1>9. CASE Count
  <2>1. last \in Agents /\ mode \in Modes
    BY <1>9 DEF Count, TypeOK, Agents
  <2>2. checkpoint' \in Checkpoints
    BY <1>9, <2>1 DEF Count, TypeOK, Checkpoints
  <2>3. synced' \in 0 .. SaveAt - 1
    BY <1>9 DEF Count, TypeOK
  <2> QED
    BY <1>9, <2>2, <2>3 DEF Count, TypeOK, PCs
<1>10. CASE DeleteStale
  BY <1>10 DEF DeleteStale, TypeOK, run, PCs, Only
<1>11. CASE RemoveDecommissioned
  BY <1>11 DEF RemoveDecommissioned, TypeOK, run, PCs, Only
<1>12. CASE RecordTimestamp
  BY <1>12 DEF RecordTimestamp, TypeOK, run, PCs
<1>13. CASE ClearCheckpoint
  <2>1. checkpoint' \in Checkpoints
    BY <1>13 DEF ClearCheckpoint, Checkpoints
  <2> QED
    BY <1>13, <2>1, TypeReset DEF ClearCheckpoint, TypeOK
<1>14. CASE Interrupt
  <2>1. /\ DOMAIN docs' \subseteq Agents
        /\ docs' \in [DOMAIN docs' -> [changed : Nat, synced_at : Nat]]
        /\ others' \subseteq Others
    <3>1. CASE /\ pc \in {"store", "rest"}
               /\ \E items \in SUBSET buffer : docs' = Replaced(items)
               /\ others' = others
      <4> PICK items \in SUBSET buffer : docs' = Replaced(items)
        BY <3>1
      <4>1. items \subseteq Items
        BY DEF TypeOK
      <4> QED
        BY <3>1, <4>1, ReplacedDocs DEF TypeOK
    <3>2. CASE /\ pc = "stale"
               /\ \E S \in SUBSET Stale : docs' = Only(docs, DOMAIN docs \ S)
               /\ others' \in SUBSET others
      BY <3>2 DEF Only, TypeOK
    <3>3. CASE /\ pc = "decommissioned"
               /\ \E S \in SUBSET Decommissioned : docs' = Only(docs, DOMAIN docs \ S)
               /\ others' = others
      BY <3>3 DEF Only, TypeOK
    <3>4. CASE UNCHANGED <<docs, others>>
      BY <3>4 DEF TypeOK
    <3> QED
      BY <1>14, <3>1, <3>2, <3>3, <3>4 DEF Interrupt
  <2> QED
    BY <1>14, <2>1, TypeReset DEF Interrupt, TypeOK
<1>15. CASE UNCHANGED vars
  BY <1>15 DEF vars, run, TypeOK
<1> QED
  BY <1>1, <1>2, <1>3, <1>4, <1>5, <1>6, <1>7, <1>8, <1>9, <1>10, <1>11, <1>12,
     <1>13, <1>14, <1>15 DEF Next, Step

-----------------------------------------------------------------------------
(* The invariant is inductive *)

\* What the steps below use of TypeOK.
LEMMA TypeFacts ==
  ASSUME TypeOK
  PROVE  /\ \A a \in Agents : source[a].changed \in Nat
         /\ clock \in Nat /\ meta \in Nat /\ started \in Nat /\ since \in Nat
         /\ last \in Nat
         /\ DOMAIN docs \subseteq Agents
         /\ \A a \in DOMAIN docs : docs[a].changed \in Nat /\ docs[a].synced_at \in Nat
         /\ \A d \in page \cup buffer : d.id \in Agents /\ d.changed \in Nat
         /\ Agents \subseteq Nat
         /\ page \subseteq Items /\ buffer \subseteq Items
         /\ mode \in Modes
<1>1. page \subseteq Items /\ buffer \subseteq Items
  BY DEF TypeOK
<1>2. \A d \in page \cup buffer : d.id \in Agents /\ d.changed \in Nat
  BY <1>1 DEF Items
<1>3. \A a \in Agents : source[a].changed \in Nat
  BY DEF TypeOK
<1>4. /\ DOMAIN docs \subseteq Agents
      /\ \A a \in DOMAIN docs : docs[a].changed \in Nat /\ docs[a].synced_at \in Nat
  BY DEF TypeOK
<1>5. Agents \subseteq Nat /\ last \in Nat
  BY SyncAssumption DEF Agents, TypeOK
<1> QED
  BY <1>1, <1>2, <1>3, <1>4, <1>5 DEF TypeOK

LEMMA InvInit == Init => IInv
<1> SUFFICES ASSUME Init PROVE IInv
  OBVIOUS
<1>1. TypeOK
  BY TypeInit
<1>2. \A a \in Agents : source[a].changed = 0
  BY DEF Init
<1>3. DOMAIN docs = {}
  BY DEF Init
<1> QED
  BY <1>1, <1>2, <1>3 DEF Init, IInv, TimeInv, StageInv, ReadInv, CoverInv, DeletedInv,
     CaughtUp, Running

\* A change upstream has the time of a step after the start of the run, so
\* nothing that the run has to bring is concerned.
LEMMA UpstreamInv ==
  ASSUME IInv, TypeOK', NEW a \in Agents, NEW s \in {"active", "gone"}, Upstream(a, s)
  PROVE  IInv'
<1> USE DEF Upstream, run, IInv
<1>0. /\ clock' \in {clock, clock + 1} /\ clock' \in Nat
      /\ \A b \in Agents : b # a => source'[b] = source[b]
      /\ source'[a] = [state |-> s, changed |-> clock']
  BY DEF TypeOK
<1>1. TimeInv'
  BY <1>0, TypeFacts DEF TimeInv, Running
<1>2. StageInv'
  BY DEF StageInv, Running
<1>3. ReadInv'
  BY <1>0, TypeFacts DEF ReadInv, TimeInv, Running
<1>4. CoverInv'
  BY <1>0, TypeFacts DEF CoverInv, TimeInv, Running, Wanted, Written, InHand, Ahead
<1>5. DeletedInv'
  <2>1. Running => \A b \in DOMAIN docs : Written(b)' = Written(b)
    BY DEF Written
  <2>2. Running => (source'[a].changed >= started /\ started \in Nat)
    BY <1>0, TypeFacts DEF TimeInv
  <2> QED
    BY <1>0, <2>1, <2>2, TypeFacts DEF DeletedInv, Running, PCs
<1>6. CaughtUp'
  BY <1>0, TypeFacts DEF CaughtUp, TimeInv
<1> QED
  BY <1>1, <1>2, <1>3, <1>4, <1>5, <1>6

\* A run starts after every document it finds, and has everything ahead.
LEMMA BeginInv ==
  ASSUME IInv, TypeOK', NEW m \in Modes \cup {"auto"}, Begin(m)
  PROVE  IInv'
<1> USE DEF Begin, IInv
<1>0. /\ clock' = clock + 1 /\ started' = clock + 1 /\ since' = meta /\ pc = "idle"
      /\ pc' = "fetch" /\ mode' \in Modes
      /\ resumed' => ~sound'
      /\ ~resumed' => last' = 0
      /\ sound' => sound
      /\ sound' /\ mode' = "incremental" /\ since' = 0 => DOMAIN docs = {}
  <2>1. mode' \in Modes
    BY DEF TypeOK
  <2>2. ~resumed' => last' = 0
    <3>1. /\ resumed' = (request # NoCheckpoint)
          /\ last' = request.last_id
      OBVIOUS
    <3> HIDE DEF Begin, IInv
    <3>2. ~resumed' => request = NoCheckpoint
      BY <3>1
    <3> QED
      BY <3>1, <3>2 DEF NoCheckpoint
  <2>3. sound' = (sound /\ ~Unsound(resumed', mode'))
    OBVIOUS
  <2> HIDE DEF Begin
  <2>4. /\ clock' = clock + 1 /\ started' = clock + 1 /\ since' = meta /\ pc = "idle"
        /\ pc' = "fetch"
    BY DEF Begin
  <2> QED
    BY <2>1, <2>2, <2>3, <2>4 DEF Unsound
<1>1. TimeInv'
  BY <1>0, TypeFacts DEF TimeInv, Running
<1>2. StageInv'
  BY <1>0 DEF StageInv, Running
<1>3. ReadInv'
  BY <1>0, TypeFacts DEF ReadInv, TimeInv, StageInv
<1>4. CoverInv'
  BY <1>0, TypeFacts, SyncAssumption DEF CoverInv, Ahead, Agents
<1>5. DeletedInv'
  BY <1>0 DEF DeletedInv
<1>6. CaughtUp'
  BY <1>0 DEF CaughtUp
<1> QED
  BY <1>1, <1>2, <1>3, <1>4, <1>5, <1>6

\* The first agents behind the cursor, in the order of the cursor: whatever
\* is left out of a page is behind it, and then there is a next page.
LEMMA PageOrder ==
  ASSUME NEW M \in SUBSET Agents, NEW a \in M, NEW b \in M, a =< b,
         Cardinality({c \in M : c =< b}) =< PageSize
  PROVE  Cardinality({c \in M : c =< a}) =< PageSize
<1> DEFINE A == {c \in M : c =< a}
           B == {c \in M : c =< b}
<1>1. A \subseteq B
  <2>1. M \subseteq Int
    BY SyncAssumption DEF Agents
  <2>2. \A c \in M : c =< a => c =< b
    BY <2>1
  <2> QED
    BY <2>2
<1>2. IsFiniteSet(Agents)
  BY FS_Interval, SyncAssumption DEF Agents
<1>3. IsFiniteSet(B)
  BY <1>2, FS_Subset
<1>4. IsFiniteSet(A) /\ Cardinality(A) =< Cardinality(B)
  BY <1>1, <1>3, FS_Subset
<1>5. Cardinality(A) \in Nat /\ Cardinality(B) \in Nat
  BY <1>3, <1>4, FS_CardinalityType
<1>6. Cardinality(B) =< PageSize
  OBVIOUS
<1> HIDE DEF A, B
<1>7. Cardinality(A) =< PageSize
  BY <1>4, <1>5, <1>6, SyncAssumption
<1> QED
  BY <1>7 DEF A

LEMMA FetchInv ==
  ASSUME IInv, TypeOK', FetchPage
  PROVE  IInv'
<1> USE DEF FetchPage, IInv
<1> DEFINE First == {a \in Matching : Cardinality({b \in Matching : b =< a}) =< PageSize}
<1>0. /\ pc = "fetch" /\ pc' = "take" /\ page = {}
      /\ page' = {[id |-> a, changed |-> source[a].changed] : a \in First}
      /\ more' = (First # Matching) /\ First \subseteq Matching /\ Matching \subseteq Agents
  BY DEF StageInv, Matching
<1>p. \A d \in page' : \E a \in First : d.id = a /\ d.changed = source[a].changed
  <2> HIDE DEF First, FetchPage, IInv
  <2> TAKE d \in page'
  <2>1. PICK a \in First : d = [id |-> a, changed |-> source[a].changed]
    BY <1>0
  <2> QED
    BY <2>1
<1>1. TimeInv'
  BY <1>0, TypeFacts DEF TimeInv, Running
<1>2. StageInv'
  BY <1>0 DEF StageInv, Running
<1>3. ReadInv'
  <2>1. \A d \in page' : source[d.id].state = "active" /\ d.changed = source[d.id].changed
    BY <1>p, <1>0 DEF Matching
  <2> QED
    BY <1>0, <2>1 DEF ReadInv, Running
<1>4. CoverInv'
  <2> SUFFICES ASSUME ~resumed, NEW a \in Agents, Wanted(a), ~Written(a), ~InHand(a)'
               PROVE  Ahead(a)'
    BY <1>0 DEF CoverInv, Wanted, Written, Running
  <2>1. a > last
    BY <1>0 DEF CoverInv, Running, InHand, Ahead
  <2>2. a \in Matching
    BY <2>1 DEF Wanted, Matching
  <2>3. a \notin First
    <3> SUFFICES ASSUME a \in First PROVE FALSE
      OBVIOUS
    <3> DEFINE d == [id |-> a, changed |-> source[a].changed]
    <3>1. d \in page' /\ d.id = a
      BY <1>0
    <3> QED
      BY <3>1 DEF InHand
  <2>4. \A d \in page' : d.id < a
    <3> SUFFICES ASSUME NEW b \in First PROVE b < a
      BY <1>p
    <3>1. ~(a =< b)
      BY <2>2, <2>3, <1>0, PageOrder
    <3> QED
      BY <3>1, <1>0, SyncAssumption DEF Agents
  <2> QED
    BY <1>0, <2>1, <2>2, <2>3, <2>4 DEF Ahead
<1>5. DeletedInv'
  BY <1>0 DEF DeletedInv, Written, Running
<1>6. CaughtUp'
  BY <1>0 DEF CaughtUp
<1> QED
  BY <1>1, <1>2, <1>3, <1>4, <1>5, <1>6

LEMMA TakeInv ==
  ASSUME IInv, TypeOK', TakeItem \/ EndPage \/ Count
  PROVE  IInv'
<1> USE DEF IInv
<1>1. CASE TakeItem
  <2>0. PICK d \in page : /\ \A e \in page : d.id =< e.id
                          /\ page' = page \ {d}
                          /\ buffer' = buffer \cup {d}
                          /\ last' = d.id
    BY <1>1 DEF TakeItem
  <2>1. /\ pc = "take" /\ pc' \in {"store", "count"}
        /\ UNCHANGED <<source, docs, meta, checkpoint, mode, resumed, since, started, more,
                       clock, sound>>
    BY <1>1 DEF TakeItem
  <2>2. page' \cup buffer' = page \cup buffer
    BY <2>0
  <2>3. TimeInv' /\ StageInv' /\ CaughtUp'
    BY <2>1 DEF TimeInv, StageInv, CaughtUp, Running
  <2>4. ReadInv'
    BY <2>1, <2>2 DEF ReadInv, Running
  <2>5. CoverInv'
    <3>1. \A a \in Agents : Ahead(a) => Ahead(a)'
      BY <2>0, <2>1 DEF Ahead
    <3> QED
      BY <2>1, <2>2, <3>1 DEF CoverInv, Running, Wanted, Written, InHand
  <2>6. DeletedInv'
    BY <2>1 DEF DeletedInv, Running, Written
  <2> QED
    BY <2>3, <2>4, <2>5, <2>6
<1>2. CASE EndPage
  <2>1. /\ pc = "take" /\ page = {} /\ pc' = IF more THEN "fetch" ELSE "rest"
        /\ UNCHANGED <<source, docs, meta, run, clock, sound>>
    BY <1>2 DEF EndPage
  <2>2. TimeInv' /\ StageInv' /\ CaughtUp' /\ ReadInv' /\ DeletedInv'
    BY <2>1 DEF TimeInv, StageInv, CaughtUp, ReadInv, DeletedInv, Running, Written, run
  <2>3. CoverInv'
    BY <2>1 DEF CoverInv, Running, Wanted, Written, InHand, Ahead, run
  <2> QED
    BY <2>2, <2>3
<1>3. CASE Count
  <2>1. /\ pc = "count" /\ pc' = "take"
        /\ UNCHANGED <<source, docs, meta, mode, resumed, since, started, last, page, more,
                       buffer, clock, sound>>
    BY <1>3 DEF Count
  <2>2. TimeInv' /\ StageInv' /\ CaughtUp' /\ ReadInv' /\ DeletedInv'
    BY <2>1 DEF TimeInv, StageInv, CaughtUp, ReadInv, DeletedInv, Running, Written
  <2>3. CoverInv'
    BY <2>1 DEF CoverInv, Running, Wanted, Written, InHand, Ahead
  <2> QED
    BY <2>2, <2>3
<1> QED
  BY <1>1, <1>2, <1>3

\* Writing items read in this run breaks nothing the copy has, whether all
\* of the buffer is written or, when the run is interrupted, a part of it.
LEMMA WriteKeeps ==
  ASSUME IInv, Running, NEW items, items \subseteq buffer
  PROVE  sound => \A a \in Agents : source[a].changed < meta =>
           /\ source[a].state = "active" =>
                a \in DOMAIN Replaced(items) /\ Replaced(items)[a].changed = source[a].changed
           /\ source[a].state = "gone" => a \notin DOMAIN Replaced(items)
<1> USE DEF IInv
<1>1. items \subseteq Items
  BY DEF TypeOK
<1>2. /\ DOMAIN Replaced(items) = DOMAIN docs \cup {d.id : d \in items}
      /\ \A a \in DOMAIN Replaced(items) :
           \/ \E d \in items : d.id = a /\ Replaced(items)[a].changed = d.changed
           \/ /\ a \in DOMAIN docs /\ ~\E d \in items : d.id = a
              /\ Replaced(items)[a] = docs[a]
  <2>1. TypeOK
    OBVIOUS
  <2> HIDE DEF IInv
  <2> QED
    BY <1>1, <2>1, ReplacedDocs
<1>3. \A d \in items : source[d.id].changed < started =>
        source[d.id].state = "active" /\ d.changed = source[d.id].changed
  BY DEF ReadInv
<1>4. \A a \in Agents : source[a].changed < meta => source[a].changed < started
  BY TypeFacts DEF TimeInv
<1> SUFFICES ASSUME sound, NEW a \in Agents, source[a].changed < meta
             PROVE  /\ source[a].state = "active" =>
                         /\ a \in DOMAIN Replaced(items)
                         /\ Replaced(items)[a].changed = source[a].changed
                    /\ source[a].state = "gone" => a \notin DOMAIN Replaced(items)
  OBVIOUS
<1>5. /\ source[a].state = "active" =>
           a \in DOMAIN docs /\ docs[a].changed = source[a].changed
      /\ source[a].state = "gone" => a \notin DOMAIN docs
  BY DEF CaughtUp
<1> QED
  BY <1>2, <1>3, <1>4, <1>5

LEMMA FlushInv ==
  ASSUME IInv, TypeOK', Flush \/ FlushRest
  PROVE  IInv'
<1> USE DEF IInv
<1>0. /\ docs' = Replaced(buffer) /\ buffer' = {} /\ Running /\ Running'
      /\ \/ pc = "store" /\ pc' = "count"
         \/ /\ pc = "rest" /\ page = {}
            /\ pc' = IF mode = "full" THEN "stale"
                     ELSE IF since > 0 THEN "decommissioned" ELSE "record"
      /\ UNCHANGED <<source, meta, mode, resumed, since, started, last, page, more, clock,
                     sound>>
  BY DEF Flush, FlushRest, Running, StageInv
<1>1. /\ CaughtUp'
      /\ \A a \in DOMAIN docs : a \in DOMAIN docs'
      /\ \A a \in DOMAIN docs' :
           \/ /\ \E d \in buffer : d.id = a /\ docs'[a].changed = d.changed
              /\ docs'[a].synced_at = started
           \/ /\ a \in DOMAIN docs /\ ~\E d \in buffer : d.id = a
              /\ docs'[a] = docs[a]
      /\ \A d \in buffer : d.id \in DOMAIN docs'
  <2>1. buffer \subseteq Items /\ TypeOK
    BY DEF TypeOK
  <2>2. sound => \A a \in Agents : source[a].changed < meta =>
          /\ source[a].state = "active" =>
               a \in DOMAIN docs' /\ docs'[a].changed = source[a].changed
          /\ source[a].state = "gone" => a \notin DOMAIN docs'
    BY <1>0, WriteKeeps
  <2> HIDE DEF IInv
  <2>3. CaughtUp'
    BY <1>0, <2>2 DEF CaughtUp
  <2>4. /\ DOMAIN Replaced(buffer) = DOMAIN docs \cup {d.id : d \in buffer}
        /\ \A a \in DOMAIN Replaced(buffer) :
             \/ /\ \E d \in buffer : d.id = a /\ Replaced(buffer)[a].changed = d.changed
                /\ Replaced(buffer)[a].synced_at = started
             \/ /\ a \in DOMAIN docs /\ ~\E d \in buffer : d.id = a
                /\ Replaced(buffer)[a] = docs[a]
    BY <2>1, ReplacedDocs
  <2> QED
    BY <1>0, <2>3, <2>4
<1>2. TimeInv'
  BY <1>0, <1>1, TypeFacts DEF TimeInv, Running
<1>3. StageInv'
  BY <1>0, TypeFacts DEF StageInv, Running, Modes
<1>4. ReadInv'
  BY <1>0, <1>1 DEF ReadInv
<1>5. \A a \in Agents : Written(a) \/ (\E d \in buffer : d.id = a) => Written(a)'
  BY <1>0, <1>1 DEF Written
<1>6. CoverInv'
  <2> SUFFICES ASSUME ~resumed, NEW a \in Agents, Wanted(a)
               PROVE  Written(a)' \/ InHand(a)' \/ Ahead(a)'
    BY <1>0 DEF CoverInv, Wanted
  <2>1. Written(a) \/ InHand(a) \/ Ahead(a)
    BY <1>0 DEF CoverInv
  <2>2. Ahead(a) => Ahead(a)'
    BY <1>0 DEF Ahead
  <2>3. InHand(a) => Written(a)' \/ InHand(a)'
    BY <1>0, <1>5 DEF InHand
  <2> QED
    BY <1>5, <2>1, <2>2, <2>3
<1>7. DeletedInv'
  <2>1. pc' \in {"record", "clear"} => mode = "incremental" /\ ~(since > 0)
    BY <1>0, TypeFacts DEF Modes
  <2>2. (\A a \in DOMAIN docs : Written(a)) => \A a \in DOMAIN docs' : Written(a)'
    BY <1>0, <1>1 DEF Written
  <2> QED
    BY <1>0, <2>1, <2>2 DEF DeletedInv
<1> QED
  BY <1>1, <1>2, <1>3, <1>4, <1>6, <1>7

\* Deleting agents that are gone, or documents this run has not written,
\* breaks nothing either: what a run that was not resumed has to bring is
\* written when it starts to delete.
LEMMA DeleteKeeps ==
  ASSUME IInv, NEW S, docs' = Only(docs, DOMAIN docs \ S),
         \/ pc = "stale" /\ S \subseteq Stale
         \/ pc = "decommissioned" /\ S \subseteq Decommissioned,
         UNCHANGED <<source, meta, sound>>
  PROVE  /\ CaughtUp'
         /\ DOMAIN docs' = DOMAIN docs \ S
         /\ \A a \in DOMAIN docs' : docs'[a] = docs[a]
         /\ ~resumed => \A a \in DOMAIN docs \cap S :
              source[a].state = "active" => source[a].changed >= started
<1> USE DEF IInv
<1>1. /\ DOMAIN docs' = DOMAIN docs \ S
      /\ \A a \in DOMAIN docs' : docs'[a] = docs[a]
  BY DEF Only
<1>2. ASSUME ~resumed, NEW a \in DOMAIN docs \cap S,
             source[a].state = "active", ~(source[a].changed >= started)
      PROVE  FALSE
  <2>1. pc = "stale" /\ a \in Stale
    BY <1>2 DEF Decommissioned
  <2>2. Wanted(a)
    BY <1>2, <2>1, TypeFacts DEF Wanted, StageInv
  <2>3. Written(a)
    BY <1>2, <2>1, <2>2, TypeFacts DEF CoverInv, Running, InHand, Ahead, StageInv
  <2> QED
    BY <2>1, <2>3 DEF Stale, Written
<1>3. CaughtUp'
  <2> SUFFICES ASSUME sound, NEW a \in Agents, source[a].changed < meta
               PROVE  /\ source[a].state = "active" =>
                           a \in DOMAIN docs' /\ docs'[a].changed = source[a].changed
                      /\ source[a].state = "gone" => a \notin DOMAIN docs'
    BY DEF CaughtUp
  <2>1. /\ source[a].state = "active" =>
             a \in DOMAIN docs /\ docs[a].changed = source[a].changed
        /\ source[a].state = "gone" => a \notin DOMAIN docs
    BY DEF CaughtUp
  <2>2. ~resumed
    BY DEF StageInv, Running
  <2>3. ~(source[a].changed >= started)
    BY TypeFacts DEF TimeInv, Running
  <2> QED
    BY <1>1, <1>2, <2>1, <2>2, <2>3
<1> QED
  BY <1>1, <1>2, <1>3

LEMMA DeleteInv ==
  ASSUME IInv, TypeOK', DeleteStale \/ RemoveDecommissioned
  PROVE  IInv'
<1> USE DEF IInv
<1> DEFINE S == IF pc = "stale" THEN Stale ELSE Decommissioned
<1>0. /\ docs' = Only(docs, DOMAIN docs \ S) /\ pc' = "record"
      /\ \/ pc = "stale" /\ S = Stale /\ mode = "full"
         \/ pc = "decommissioned" /\ S = Decommissioned /\ mode = "incremental"
      /\ UNCHANGED <<source, meta, run, clock, sound>>
  BY DEF DeleteStale, RemoveDecommissioned, StageInv
<1> HIDE DEF S
<1>1. /\ CaughtUp'
      /\ DOMAIN docs' = DOMAIN docs \ S
      /\ \A a \in DOMAIN docs' : docs'[a] = docs[a]
      /\ ~resumed => \A a \in DOMAIN docs \cap S :
              source[a].state = "active" => source[a].changed >= started
  BY <1>0, DeleteKeeps
<1>2. TimeInv'
  BY <1>0, <1>1 DEF TimeInv, Running, run
<1>3. StageInv'
  BY <1>0 DEF StageInv, Running, run
<1>4. ReadInv'
  BY <1>0, <1>1 DEF ReadInv, Running, run
<1>5. CoverInv'
  <2> SUFFICES ASSUME ~resumed, NEW a \in Agents, Wanted(a)
               PROVE  Written(a)'
    BY <1>0 DEF CoverInv, Wanted, run
  <2>1. Written(a)
    BY <1>0 DEF CoverInv, Running, InHand, Ahead, StageInv
  <2>2. a \notin S
    BY <1>0, <2>1 DEF Stale, Decommissioned, Wanted, Written
  <2> QED
    BY <1>0, <1>1, <2>1, <2>2 DEF Written, run
<1>6. DeletedInv'
  <2>1. mode = "full" => \A a \in DOMAIN docs' : Written(a)'
    BY <1>0, <1>1 DEF Written, Stale, run
  <2>2. mode = "incremental" =>
          \A a \in DOMAIN docs' : ~(source[a].state = "gone" /\ source[a].changed >= since)
    BY <1>0, <1>1, TypeFacts DEF Decommissioned
  <2>3. (\A a \in DOMAIN docs : Written(a)) => \A a \in DOMAIN docs' : Written(a)'
    BY <1>0, <1>1 DEF Written, run
  <2> QED
    BY <1>0, <2>1, <2>2, <2>3 DEF DeletedInv, Running, run
<1> QED
  BY <1>1, <1>2, <1>3, <1>4, <1>5, <1>6

\* When a run that was not resumed records its timestamp, everything
\* SentinelOne had changed before its start is in the collection.
LEMMA AtRecord ==
  ASSUME IInv, pc = "record", ~resumed, mode = "full" \/ sound,
         NEW a \in Agents, source[a].changed < started
  PROVE  /\ source[a].state = "active" =>
              a \in DOMAIN docs /\ docs[a].changed = source[a].changed
         /\ source[a].state = "gone" => a \notin DOMAIN docs
<1> USE DEF IInv
<1>1. Written(a) => source[a].state = "active" /\ docs[a].changed = source[a].changed
  BY DEF ReadInv, Running, Written
<1>2. Wanted(a) => Written(a)
  BY DEF CoverInv, Running, InHand, Ahead, StageInv
<1>3. CASE mode = "full"
  <2>1. a \in DOMAIN docs => Written(a)
    BY <1>3 DEF DeletedInv
  <2>2. source[a].state = "active" => Wanted(a)
    BY <1>3 DEF Wanted
  <2> QED
    BY <1>1, <1>2, <2>1, <2>2 DEF Written
<1>4. CASE mode = "incremental" /\ sound
  <2>1. CASE source[a].changed >= since
    <3>1. source[a].state = "active" => Written(a)
      BY <1>2, <1>4, <2>1 DEF Wanted
    <3>2. source[a].state = "gone" => a \notin DOMAIN docs
      <4>1. CASE since > 0
        BY <1>4, <2>1, <4>1 DEF DeletedInv
      <4>2. CASE since = 0
        BY <1>1, <1>4, <4>2 DEF DeletedInv, Running
      <4> QED
        BY <4>1, <4>2, TypeFacts
    <3> QED
      BY <1>1, <3>1, <3>2 DEF Written
  <2>2. CASE source[a].changed < since
    BY <1>4, <2>2 DEF CaughtUp, TimeInv, Running
  <2> QED
    BY <2>1, <2>2, TypeFacts
<1> QED
  BY <1>3, <1>4, TypeFacts DEF Modes

LEMMA EndInv ==
  ASSUME IInv, TypeOK', RecordTimestamp \/ ClearCheckpoint
  PROVE  IInv'
<1> USE DEF IInv
<1>1. CASE RecordTimestamp
  <2>0. /\ pc = "record" /\ pc' = "clear" /\ meta' = started
        /\ sound' = (sound \/ (mode = "full" /\ ~resumed))
        /\ UNCHANGED <<source, docs, run, clock>>
    BY <1>1 DEF RecordTimestamp
  <2>1. TimeInv'
    BY <2>0, TypeFacts DEF TimeInv, Running, run
  <2>2. StageInv'
    BY <2>0 DEF StageInv, Running, run
  <2>3. ReadInv' /\ CoverInv'
    BY <2>0 DEF ReadInv, CoverInv, Running, Wanted, Written, InHand, Ahead, run
  <2>4. DeletedInv'
    BY <2>0, TypeFacts DEF DeletedInv, Running, Written, Modes, run
  <2>5. CaughtUp'
    <3>1. sound' => ~resumed /\ (mode = "full" \/ sound)
      BY <2>0 DEF StageInv, Running
    <3>2. source' = source /\ docs' = docs /\ meta' = started /\ pc = "record"
      BY <2>0
    <3> QED
      BY <3>1, <3>2, AtRecord DEF CaughtUp
  <2> QED
    BY <2>1, <2>2, <2>3, <2>4, <2>5
<1>2. CASE ClearCheckpoint
  <2>1. /\ pc' = "idle" /\ page' = {} /\ buffer' = {}
        /\ UNCHANGED <<source, docs, meta, clock, sound>>
    BY <1>2 DEF ClearCheckpoint, ResetRun
  <2> QED
    BY <2>1 DEF TimeInv, StageInv, ReadInv, CoverInv, DeletedInv, CaughtUp, Running
<1> QED
  BY <1>1, <1>2

LEMMA InterruptInv ==
  ASSUME IInv, TypeOK', Interrupt
  PROVE  IInv'
<1> USE DEF IInv
<1>0. /\ Running /\ pc' = "idle" /\ page' = {} /\ buffer' = {}
      /\ UNCHANGED <<source, meta, clock, sound>>
  BY DEF Interrupt, ResetRun, Running
<1>1. CaughtUp' /\ \A a \in DOMAIN docs' : docs'[a].synced_at =< clock
  <2>0. \A a \in DOMAIN docs : docs[a].synced_at =< clock
    BY DEF TimeInv
  <2>1. CASE pc \in {"store", "rest"} /\ \E items \in SUBSET buffer : docs' = Replaced(items)
    <3>1. PICK items \in SUBSET buffer : docs' = Replaced(items)
      BY <2>1
    <3>2. \A a \in DOMAIN docs' : docs'[a].synced_at = started \/ (a \in DOMAIN docs /\ docs'[a] = docs[a])
      <4>1. items \subseteq Items
        BY DEF TypeOK
      <4>2. TypeOK
        OBVIOUS
      <4> HIDE DEF IInv
      <4> QED
        BY <3>1, <4>1, <4>2, ReplacedDocs
    <3>3. CaughtUp'
      <4>1. sound => \A a \in Agents : source[a].changed < meta =>
              /\ source[a].state = "active" =>
                   a \in DOMAIN Replaced(items)
                   /\ Replaced(items)[a].changed = source[a].changed
              /\ source[a].state = "gone" => a \notin DOMAIN Replaced(items)
        BY <1>0, WriteKeeps
      <4> QED
        BY <1>0, <3>1, <4>1 DEF CaughtUp
    <3> QED
      BY <1>0, <2>0, <3>2, <3>3 DEF TimeInv
  <2>2. CASE /\ pc \in {"stale", "decommissioned"}
             /\ \E S \in SUBSET (IF pc = "stale" THEN Stale ELSE Decommissioned) :
                  docs' = Only(docs, DOMAIN docs \ S)
    <3>1. PICK S \in SUBSET (IF pc = "stale" THEN Stale ELSE Decommissioned) :
                 docs' = Only(docs, DOMAIN docs \ S)
      BY <2>2
    <3>2. \/ pc = "stale" /\ S \subseteq Stale
          \/ pc = "decommissioned" /\ S \subseteq Decommissioned
      BY <2>2
    <3> QED
      BY <1>0, <2>0, <3>1, <3>2, DeleteKeeps
  <2>3. CASE docs' = docs
    BY <1>0, <2>0, <2>3 DEF CaughtUp
  <2> QED
    BY <2>1, <2>2, <2>3 DEF Interrupt
<1> QED
  BY <1>0, <1>1 DEF TimeInv, StageInv, ReadInv, CoverInv, DeletedInv, Running

LEMMA InvStep == IInv /\ [Next]_vars => IInv'
<1> SUFFICES ASSUME IInv, [Next]_vars PROVE IInv'
  OBVIOUS
<1>0. TypeOK'
  BY TypeStep DEF IInv
<1>1. ASSUME NEW a \in Agents, Change(a) \/ Decommission(a) PROVE IInv'
  BY <1>0, <1>1, UpstreamInv DEF Change, Decommission
<1>2. CASE CrowdStrikeSync \/ LoadCheckpoint \/ Busy \/ UNCHANGED vars
  <2>1. UNCHANGED <<source, docs, meta, pc, run, clock, sound>>
    BY <1>2 DEF CrowdStrikeSync, LoadCheckpoint, Busy, vars
  <2> QED
    BY <1>0, <2>1 DEF IInv, TimeInv, StageInv, ReadInv, CoverInv, DeletedInv, CaughtUp,
       Running, Wanted, Written, InHand, Ahead, run
<1>3. ASSUME NEW m \in Modes \cup {"auto"}, Begin(m) PROVE IInv'
  BY <1>0, <1>3, BeginInv
<1>4. CASE Step
  BY <1>0, <1>4, FetchInv, TakeInv, FlushInv, DeleteInv, EndInv DEF Step
<1>5. CASE Interrupt
  BY <1>0, <1>5, InterruptInv
<1> QED
  BY <1>1, <1>2, <1>3, <1>4, <1>5 DEF Next

-----------------------------------------------------------------------------
(* The theorems *)

LEMMA Invariant == Spec => []IInv
BY InvInit, InvStep, PTL DEF Spec

\* The variables keep their types.
THEOREM TypeCorrect == Spec => []TypeOK
<1>1. IInv => TypeOK
  BY DEF IInv
<1> QED
  BY <1>1, Invariant, PTL

\* The copy is caught up with the timestamp phase_runner.py's runs have
\* recorded, however often they were interrupted, until a run is resumed.
THEOREM CaughtUpHolds == Spec => []CaughtUp
<1>1. IInv => CaughtUp
  BY DEF IInv
<1> QED
  BY <1>1, Invariant, PTL

\* A full run from the start repairs the copy, even one that resumed runs
\* have broken.
THEOREM FullRunHealsHolds == Spec => FullRunHeals
<1> DEFINE A == RecordTimestamp /\ mode = "full" /\ ~resumed =>
       \A a \in Agents : source[a].changed < started =>
         /\ a \in DOMAIN docs <=> source[a].state = "active"
         /\ a \in DOMAIN docs => docs[a].changed = source[a].changed
<1>1. IInv => A
  <2> SUFFICES ASSUME IInv, RecordTimestamp, mode = "full", ~resumed,
                      NEW a \in Agents, source[a].changed < started
               PROVE  /\ a \in DOMAIN docs <=> source[a].state = "active"
                      /\ a \in DOMAIN docs => docs[a].changed = source[a].changed
    OBVIOUS
  <2>1. pc = "record"
    BY DEF RecordTimestamp
  <2>2. a \in DOMAIN docs => source[a].state = "active"
    BY <2>1 DEF IInv, DeletedInv, ReadInv, Running, Written
  <2> QED
    BY <2>1, <2>2, AtRecord
<1>2. IInv /\ [Next]_vars => [A]_vars
  BY <1>1
<1> QED
  BY <1>2, Invariant, PTL DEF Spec, FullRunHeals

\* Without a resumed run no agent disappears that SentinelOne still has.
THEOREM ActiveAgentStaysHolds == Spec => ActiveAgentStays
<1> DEFINE A == ~resumed => \A a \in DOMAIN docs \ DOMAIN docs' :
       source[a].state = "active" => source[a].changed >= started
<1>1. IInv /\ [Next]_vars => [A]_vars
  <2> SUFFICES ASSUME IInv, Next PROVE A
    OBVIOUS
  <2> SUFFICES ASSUME ~resumed, NEW a \in DOMAIN docs \ DOMAIN docs',
                      source[a].state = "active"
               PROVE  source[a].changed >= started
    OBVIOUS
  <2>1. CASE docs' = docs
    BY <2>1
  <2>2. ASSUME NEW items \in SUBSET buffer, docs' = Replaced(items) PROVE FALSE
    <3>1. DOMAIN docs' = DOMAIN docs \cup {d.id : d \in items}
      BY <2>2 DEF Replaced
    <3>2. a \in DOMAIN docs'
      BY <3>1
    <3> QED
      BY <3>2
  <2>3. ASSUME NEW S, docs' = Only(docs, DOMAIN docs \ S),
               \/ pc = "stale" /\ S \subseteq Stale
               \/ pc = "decommissioned" /\ S \subseteq Decommissioned
        PROVE  source[a].changed >= started
    <3>1. a \in DOMAIN docs \cap S
      BY <2>3 DEF Only
    <3>2. CASE pc = "decommissioned"
      BY <2>3, <3>1, <3>2 DEF Decommissioned
    <3>3. CASE pc = "stale" /\ a \in Stale
      <4>1. CASE ~(source[a].changed >= started)
        <5>1. Wanted(a) /\ a \in Agents
          BY <3>1, <3>3, <4>1, TypeFacts DEF Wanted, StageInv, IInv
        <5>2. Written(a)
          BY <3>3, <5>1, TypeFacts DEF CoverInv, Running, InHand, Ahead, StageInv, IInv
        <5> QED
          BY <3>3, <5>2 DEF Stale, Written
      <4> QED
        BY <4>1
    <3> QED
      BY <2>3, <3>1, <3>2, <3>3
  <2>4. CASE Flush \/ FlushRest
    BY <2>2, <2>4 DEF Flush, FlushRest
  <2>5. CASE DeleteStale
    BY <2>3, <2>5 DEF DeleteStale
  <2>6. CASE RemoveDecommissioned
    BY <2>3, <2>6 DEF RemoveDecommissioned
  <2>7. CASE Interrupt
    BY <2>1, <2>2, <2>3, <2>7 DEF Interrupt
  <2> QED
    BY <2>1, <2>4, <2>5, <2>6, <2>7 DEF Next, Step, Change, Decommission, Upstream,
       CrowdStrikeSync, LoadCheckpoint, Busy, Begin, FetchPage, TakeItem, EndPage, Count,
       RecordTimestamp, ClearCheckpoint
<1> QED
  BY <1>1, Invariant, PTL DEF Spec, ActiveAgentStays

=============================================================================
