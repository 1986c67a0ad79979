----------------------------- MODULE AuditChain -----------------------------
(***************************************************************************)
(* audit/chain/commands.py and repository.py with audit/log.py: calls of   *)
(* audit() append hash-chained entries under the advisory lock             *)
(* audit_chain_append and fall back to plain entries, which a background   *)
(* task retries; every worker runs initialize_chain when it starts,        *)
(* without the lock.                                                       *)
(*                                                                         *)
(* One event is one call of audit().  The SHA-256 of an entry stands for   *)
(* the event it records: every event, and every genesis, is different, and *)
(* the retry of an insert writes the same entry.  All callers of           *)
(* initialize_chain pass the same epoch size, so get_epoch_size is the     *)
(* constant EpochSize.  The lock is an exclusive lease; its holder has no  *)
(* heartbeat here, so a slow holder loses it.                              *)
(***************************************************************************)
EXTENDS Integers, FiniteSets

CONSTANTS
  Events,      \* calls of audit()
  Workers,     \* processes, each runs initialize_chain when it starts
  WorkerOf,    \* the process an event happens in
  EpochSize,   \* DEFAULT_EPOCH_SIZE
  MaxCounter,  \* bound: no crash once the counter has reached it
  Environments \* the sets of faults to consider

MaxRetries == 3    \* _MAX_RETRIES
NoHash == "None"
Free == "free"

FaultKinds == {"write_error",  \* insert_one raises and wrote nothing
               "call_error",   \* any other call of the database raises
               "ambiguous",    \* insert_one raises although it wrote
               "cancel",       \* the task is cancelled at an await
               "crash",        \* the process dies
               "slow",         \* the section takes longer than the lease
               "two_workers",  \* a worker starts while another one serves
               "retention"}    \* the TTL index on timestamp deletes entries

ASSUME ConstantsAssumption ==
  /\ IsFiniteSet(Events)
  /\ Events \cap Workers = {}
  /\ {NoHash, Free} \cap (Events \cup Workers) = {}
  /\ WorkerOf \in [Events -> Workers]
  /\ EpochSize \in Nat \ {0}
  /\ MaxCounter \in Nat
  /\ Environments \subseteq SUBSET FaultKinds

VARIABLES
  log,        \* audit_log: the chained entries, by sequence
  plain,      \* audit_log: the events with a plain entry
  counter,    \* audit_chain_meta.sequence_counter
  lock,       \* holder of audit_chain_append
  pc,         \* where each call of audit() is
  seq,        \* its local `sequence`
  prev,       \* its local previous_hash
  prevEpoch,  \* its local prev_epoch_hash
  tries,      \* its attempts by the retry task
  boot,       \* where each worker's initialize_chain is
  found,      \* its max_doc["sequence"]
  faults      \* what may go wrong in this behaviour

vars == <<log, plain, counter, lock, pc, seq, prev, prevEpoch, tries, boot, found, faults>>

Hashes == Events \cup Workers \cup {NoHash}

Entry == [hash : Hashes, previous_hash : Hashes, epoch : Nat,
          is_epoch_start : BOOLEAN, is_epoch_end : BOOLEAN,
          previous_epoch_hash : Hashes]

\* audit(): before the check for a genesis entry, waiting for the lock,
\* the steps of the section, releasing with the entry written, with an error
\* or cancelled, before the plain write, in the retry queue, and how it ended.
Section == {"allocate", "close", "link", "insert", "retry", "rollback",
            "unlock", "unlock_failed", "unlock_cancelled"}
PCs == Section \cup
       {"start", "lock", "plain", "queued", "chained", "unchained", "lost",
        "cancelled", "dead"}

\* initialize_chain(): not running, the fast path's check, the reset after
\* the fast path, the three writes of the slow path, and serving.
Boots == {"down", "check", "sync", "alloc", "genesis", "first", "ready"}

TypeOK ==
  /\ DOMAIN log \subseteq Nat
  /\ \A s \in DOMAIN log : log[s] \in Entry
  /\ plain \subseteq Events
  /\ counter \in Nat
  /\ lock \in Events \cup {Free}
  /\ pc \in [Events -> PCs]
  /\ seq \in [Events -> Nat]
  /\ prev \in [Events -> Hashes]
  /\ prevEpoch \in [Events -> Hashes]
  /\ tries \in [Events -> 0 .. MaxRetries]
  /\ \A e \in Events : pc[e] = "queued" => tries[e] < MaxRetries
  /\ boot \in [Workers -> Boots]
  /\ found \in [Workers -> Nat]
  /\ faults \subseteq FaultKinds

Init ==
  /\ log = [s \in {} |-> NoHash]
  /\ plain = {}
  /\ counter = 0
  /\ lock = Free
  /\ pc = [e \in Events |-> "start"]
  /\ seq = [e \in Events |-> 0]
  /\ prev = [e \in Events |-> NoHash]
  /\ prevEpoch = [e \in Events |-> NoHash]
  /\ tries = [e \in Events |-> 0]
  /\ boot = [w \in Workers |-> "down"]
  /\ found = [w \in Workers |-> 0]
  /\ faults \in Environments

HasGenesis == 0 \in DOMAIN log
IsLast(s, S) == s \in S /\ \A t \in S : t =< s
Put(f, s, entry) == [x \in DOMAIN f \cup {s} |-> IF x = s THEN entry ELSE f[x]]

-----------------------------------------------------------------------------
(* initialize_chain() *)

Start(w) ==
  /\ boot[w] = "down"
  /\ "two_workers" \in faults \/ \A v \in Workers : boot[v] = "down"
  /\ boot' = [boot EXCEPT ![w] = "check"]
  /\ UNCHANGED <<log, plain, counter, lock, pc, seq, prev, prevEpoch, tries, found, faults>>

\* A genesis entry exists: read the largest sequence of the collection.
FindLargest(w) ==
  /\ boot[w] = "check" /\ HasGenesis
  /\ \E s \in DOMAIN log :
       /\ IsLast(s, DOMAIN log)
       /\ found' = [found EXCEPT ![w] = s]
  /\ boot' = [boot EXCEPT ![w] = "sync"]
  /\ UNCHANGED <<log, plain, counter, lock, pc, seq, prev, prevEpoch, tries, faults>>

\* reset_sequence_to(max_doc["sequence"] + 1)
SyncCounter(w) ==
  /\ boot[w] = "sync"
  /\ counter' = found[w] + 1
  /\ boot' = [boot EXCEPT ![w] = "ready"]
  /\ UNCHANGED <<log, plain, lock, pc, seq, prev, prevEpoch, tries, found, faults>>

\* No genesis entry: get_next_sequence(), then reset_sequence_to(0) if the
\* counter had been used before.
NoGenesis(w) ==
  /\ boot[w] = "check" /\ ~HasGenesis
  /\ counter' = counter + 1
  /\ boot' = [boot EXCEPT ![w] = IF counter = 0 THEN "genesis" ELSE "alloc"]
  /\ UNCHANGED <<log, plain, lock, pc, seq, prev, prevEpoch, tries, found, faults>>

ResetToZero(w) ==
  /\ boot[w] = "alloc"
  /\ counter' = 0
  /\ boot' = [boot EXCEPT ![w] = "genesis"]
  /\ UNCHANGED <<log, plain, lock, pc, seq, prev, prevEpoch, tries, found, faults>>

Genesis(w) == [hash |-> w, previous_hash |-> NoHash, epoch |-> 0,
               is_epoch_start |-> TRUE, is_epoch_end |-> FALSE,
               previous_epoch_hash |-> NoHash]

\* update_one({sequence: 0}, {$setOnInsert: entry}, upsert)
UpsertGenesis(w) ==
  /\ boot[w] = "genesis"
  /\ log' = IF HasGenesis THEN log ELSE Put(log, 0, Genesis(w))
  /\ boot' = [boot EXCEPT ![w] = "first"]
  /\ UNCHANGED <<plain, counter, lock, pc, seq, prev, prevEpoch, tries, found, faults>>

\* reset_sequence_to(1), whether or not the genesis entry is ours.
ResetToOne(w) ==
  /\ boot[w] = "first"
  /\ counter' = 1
  /\ boot' = [boot EXCEPT ![w] = "ready"]
  /\ UNCHANGED <<log, plain, lock, pc, seq, prev, prevEpoch, tries, found, faults>>

-----------------------------------------------------------------------------
(* audit() and append_chained_entry() *)

\* _is_chain_initialized(); an exception counts as "not initialized".
Check(e) ==
  /\ pc[e] = "start" /\ boot[WorkerOf[e]] = "ready"
  /\ \/ HasGenesis /\ pc' = [pc EXCEPT ![e] = "lock"]
     \/ /\ ~HasGenesis \/ "call_error" \in faults
        /\ pc' = [pc EXCEPT ![e] = "plain"]
  /\ UNCHANGED <<log, plain, counter, lock, seq, prev, prevEpoch, tries, boot, found, faults>>

Acquire(e) ==
  /\ pc[e] = "lock" /\ lock = Free
  /\ lock' = e
  /\ pc' = [pc EXCEPT ![e] = "allocate"]
  /\ UNCHANGED <<log, plain, counter, seq, prev, prevEpoch, tries, boot, found, faults>>

\* Mutant: the error of the lock is not caught by _write_chained.
GiveUpSilently(e) ==
  /\ pc[e] = "lock" /\ lock # Free
  /\ pc' = [pc EXCEPT ![e] = "cancelled"]
  /\ UNCHANGED <<log, plain, counter, lock, seq, prev, prevEpoch, tries, boot, found, faults>>

\* Ten attempts found the lock held, or one raised: the error reaches
\* _write_chained, which falls back to a plain entry.
GiveUp(e) ==
  /\ pc[e] = "lock"
  /\ lock # Free \/ "call_error" \in faults
  /\ pc' = [pc EXCEPT ![e] = "plain"]
  /\ UNCHANGED <<log, plain, counter, lock, seq, prev, prevEpoch, tries, boot, found, faults>>

StartsEpoch(s) == s > 0 /\ s % EpochSize = 0

\* get_next_sequence()
Allocate(e) ==
  /\ pc[e] = "allocate"
  /\ seq' = [seq EXCEPT ![e] = counter]
  /\ counter' = counter + 1
  /\ prevEpoch' = [prevEpoch EXCEPT ![e] = NoHash]
  /\ pc' = [pc EXCEPT ![e] = IF StartsEpoch(counter) THEN "close" ELSE "link"]
  /\ UNCHANGED <<log, plain, lock, prev, tries, boot, found, faults>>

InEpoch(k) == {s \in DOMAIN log : log[s].epoch = k}

\* Mutant: the entry marked is the first of the previous epoch.
CloseFirst(e) ==
  /\ pc[e] = "close"
  /\ LET closing == InEpoch(seq[e] \div EpochSize - 1)
     IN  \/ /\ closing = {}
            /\ UNCHANGED <<log, prevEpoch>>
         \/ \E s \in closing :
              /\ \A t \in closing : s =< t
              /\ log' = [log EXCEPT ![s].is_epoch_end = TRUE]
              /\ prevEpoch' = [prevEpoch EXCEPT ![e] = log[s].hash]
  /\ pc' = [pc EXCEPT ![e] = "link"]
  /\ UNCHANGED <<plain, counter, lock, seq, prev, tries, boot, found, faults>>

\* get_epoch_boundary_entry() and mark_epoch_end(): close the previous epoch.
CloseEpoch(e) ==
  /\ pc[e] = "close"
  /\ LET closing == InEpoch(seq[e] \div EpochSize - 1)
     IN  \/ /\ closing = {}
            /\ UNCHANGED <<log, prevEpoch>>
         \/ \E s \in closing :
              /\ IsLast(s, closing)
              /\ log' = [log EXCEPT ![s].is_epoch_end = TRUE]
              /\ prevEpoch' = [prevEpoch EXCEPT ![e] = log[s].hash]
  /\ pc' = [pc EXCEPT ![e] = "link"]
  /\ UNCHANGED <<plain, counter, lock, seq, prev, tries, boot, found, faults>>

\* Mutant: the entry of the same sequence is looked up.
HashOfSame(s) == IF s > 0 /\ s \in DOMAIN log THEN log[s].hash ELSE NoHash

\* get_previous_hash(): None when the previous entry is missing.
PreviousHash(s) == IF s > 0 /\ s - 1 \in DOMAIN log THEN log[s - 1].hash ELSE NoHash

Link(e) ==
  /\ pc[e] = "link"
  /\ prev' = [prev EXCEPT ![e] = PreviousHash(seq[e])]
  /\ pc' = [pc EXCEPT ![e] = "insert"]
  /\ UNCHANGED <<log, plain, counter, lock, seq, prevEpoch, tries, boot, found, faults>>

NewEntry(e) == [hash |-> e, previous_hash |-> prev[e], epoch |-> seq[e] \div EpochSize,
                is_epoch_start |-> StartsEpoch(seq[e]), is_epoch_end |-> FALSE,
                previous_epoch_hash |-> prevEpoch[e]]

\* insert_one() writes and returns, at the first or the second attempt.
Insert(e) ==
  /\ pc[e] \in {"insert", "retry"} /\ seq[e] \notin DOMAIN log
  /\ log' = Put(log, seq[e], NewEntry(e))
  /\ pc' = [pc EXCEPT ![e] = "unlock"]
  /\ UNCHANGED <<plain, counter, lock, seq, prev, prevEpoch, tries, boot, found, faults>>

\* insert_one() raises: a duplicate sequence, or an error of the database.
InsertFails(e) ==
  /\ pc[e] \in {"insert", "retry"}
  /\ seq[e] \in DOMAIN log \/ "write_error" \in faults
  /\ pc' = [pc EXCEPT ![e] = IF pc[e] = "insert" THEN "retry" ELSE "rollback"]
  /\ UNCHANGED <<log, plain, counter, lock, seq, prev, prevEpoch, tries, boot, found, faults>>

\* insert_one() raises although the entry was written.
InsertAmbiguous(e) ==
  /\ "ambiguous" \in faults
  /\ pc[e] \in {"insert", "retry"} /\ seq[e] \notin DOMAIN log
  /\ log' = Put(log, seq[e], NewEntry(e))
  /\ pc' = [pc EXCEPT ![e] = IF pc[e] = "insert" THEN "retry" ELSE "rollback"]
  /\ UNCHANGED <<plain, counter, lock, seq, prev, prevEpoch, tries, boot, found, faults>>

\* Mutant: the error is raised without rolling the counter back.
NoRollback(e) ==
  /\ pc[e] = "rollback"
  /\ pc' = [pc EXCEPT ![e] = "unlock_failed"]
  /\ UNCHANGED <<log, plain, counter, lock, seq, prev, prevEpoch, tries, boot, found, faults>>

\* reset_sequence_to(sequence), then raise ChainIntegrityError.
Rollback(e) ==
  /\ pc[e] = "rollback"
  /\ counter' = seq[e]
  /\ pc' = [pc EXCEPT ![e] = "unlock_failed"]
  /\ UNCHANGED <<log, plain, lock, seq, prev, prevEpoch, tries, boot, found, faults>>

\* finally: lock.release(), which deletes only our own lock.
Unlock(e) ==
  /\ pc[e] \in {"unlock", "unlock_failed", "unlock_cancelled"}
  /\ lock' = IF lock = e THEN Free ELSE lock
  /\ pc' = [pc EXCEPT ![e] = CASE pc[e] = "unlock" -> "chained"
                                [] pc[e] = "unlock_failed" -> "plain"
                                [] OTHER -> "cancelled"]
  /\ UNCHANGED <<log, plain, counter, seq, prev, prevEpoch, tries, boot, found, faults>>

\* _write_plain() writes, at the first attempt or by the retry task.
WritePlain(e) ==
  /\ pc[e] \in {"plain", "queued"}
  /\ plain' = plain \cup {e}
  /\ pc' = [pc EXCEPT ![e] = "unchained"]
  /\ UNCHANGED <<log, counter, lock, seq, prev, prevEpoch, tries, boot, found, faults>>

\* Its insert_one raises: the entry waits in the retry queue.
QueuePlain(e) ==
  /\ "write_error" \in faults
  /\ pc[e] = "plain"
  /\ pc' = [pc EXCEPT ![e] = "queued"]
  /\ tries' = [tries EXCEPT ![e] = 0]
  /\ UNCHANGED <<log, plain, counter, lock, seq, prev, prevEpoch, boot, found, faults>>

\* _drain_retry_queue(): the attempt fails; after the third the entry is lost.
RetryFails(e) ==
  /\ "write_error" \in faults
  /\ pc[e] = "queued"
  /\ tries' = [tries EXCEPT ![e] = @ + 1]
  /\ pc' = [pc EXCEPT ![e] = IF tries[e] + 1 < MaxRetries THEN "queued" ELSE "lost"]
  /\ UNCHANGED <<log, plain, counter, lock, seq, prev, prevEpoch, boot, found, faults>>

-----------------------------------------------------------------------------
(* Faults *)

\* CancelledError is no Exception: `finally` releases the lock, and nothing
\* rolls the counter back.
Cancel(e) ==
  /\ "cancel" \in faults
  /\ pc[e] \in {"allocate", "close", "link", "insert", "retry", "rollback"}
  /\ pc' = [pc EXCEPT ![e] = "unlock_cancelled"]
  /\ UNCHANGED <<log, plain, counter, lock, seq, prev, prevEpoch, tries, boot, found, faults>>

\* A database call of the section other than the insert raises: `finally`
\* releases the lock, and only a failed insert rolls the counter back.
SectionRaises(e) ==
  /\ "call_error" \in faults
  /\ pc[e] \in {"allocate", "close", "link", "rollback"}
  /\ pc' = [pc EXCEPT ![e] = "unlock_failed"]
  /\ UNCHANGED <<log, plain, counter, lock, seq, prev, prevEpoch, tries, boot, found, faults>>

\* lock.release() raises: the lock document stays, and the error reaches
\* _write_chained even after a successful insert.
UnlockRaises(e) ==
  /\ "call_error" \in faults
  /\ pc[e] \in {"unlock", "unlock_failed"}
  /\ pc' = [pc EXCEPT ![e] = "plain"]
  /\ UNCHANGED <<log, plain, counter, lock, seq, prev, prevEpoch, tries, boot, found, faults>>

\* lifespan() logs an error of initialize_chain() and serves all the same.
BootRaises(w) ==
  /\ "call_error" \in faults
  /\ boot[w] \notin {"down", "ready"}
  /\ boot' = [boot EXCEPT ![w] = "ready"]
  /\ UNCHANGED <<log, plain, counter, lock, pc, seq, prev, prevEpoch, tries, found, faults>>

\* The process dies with its calls; a lock it held stays until it expires.
Crash(w) ==
  /\ "crash" \in faults
  /\ boot[w] # "down" /\ counter < MaxCounter
  /\ boot' = [boot EXCEPT ![w] = "down"]
  /\ pc' = [e \in Events |->
              IF WorkerOf[e] = w /\ pc[e] \in Section \cup {"lock", "plain", "queued"}
              THEN "dead" ELSE pc[e]]
  /\ UNCHANGED <<log, plain, counter, lock, seq, prev, prevEpoch, tries, found, faults>>

\* Thirty seconds have passed since the lock was taken.
ExpireLock ==
  /\ lock # Free
  /\ pc[lock] \notin Section \/ "slow" \in faults
  /\ lock' = Free
  /\ UNCHANGED <<log, plain, counter, pc, seq, prev, prevEpoch, tries, boot, found, faults>>

\* The TTL index on timestamp removes the oldest chained entry.
ExpireOldest ==
  /\ "retention" \in faults
  /\ \E s \in DOMAIN log :
       /\ \A t \in DOMAIN log : s =< t
       /\ log' = [t \in DOMAIN log \ {s} |-> log[t]]
  /\ UNCHANGED <<plain, counter, lock, pc, seq, prev, prevEpoch, tries, boot, found, faults>>

-----------------------------------------------------------------------------
Boot(w) ==
  \/ Start(w) \/ FindLargest(w) \/ SyncCounter(w)
  \/ NoGenesis(w) \/ ResetToZero(w) \/ UpsertGenesis(w) \/ ResetToOne(w)

Audit(e) ==
  \/ Check(e) \/ Acquire(e) \/ GiveUp(e) \/ Allocate(e) \/ CloseEpoch(e)
  \/ Link(e) \/ Insert(e) \/ InsertFails(e) \/ InsertAmbiguous(e)
  \/ Rollback(e) \/ Unlock(e) \/ WritePlain(e) \/ QueuePlain(e) \/ RetryFails(e)

Next ==
  \/ \E w \in Workers : Boot(w) \/ BootRaises(w) \/ Crash(w)
  \/ \E e \in Events : Audit(e) \/ SectionRaises(e) \/ UnlockRaises(e) \/ Cancel(e)
  \/ ExpireLock \/ ExpireOldest

Spec == Init /\ [][Next]_vars

\* A process that runs goes on, and an expired lock is removed.
FairSpec ==
  /\ Spec
  /\ \A w \in Workers : WF_vars(Boot(w))
  /\ \A e \in Events : WF_vars(Audit(e))
  /\ WF_vars(ExpireLock)

-----------------------------------------------------------------------------
(* Properties *)

\* One worker at a time, whose writes may fail and which may crash.
Benign == faults \subseteq {"write_error", "crash"}

\* entities.py: the sequence is a "gapless counter".
Gapless == \A s \in DOMAIN log : \A t \in 0 .. s : t \in DOMAIN log

\* The same for one worker that may fail and crash, but is not cancelled.
GaplessIfBenign == Benign => Gapless

\* Every entry carries the hash of the entry before it, and the genesis none:
\* failing writes and crashes break no link.
Linked ==
  Benign =>
    \A s \in DOMAIN log :
      log[s].previous_hash = IF s = 0 THEN NoHash
                             ELSE IF s - 1 \in DOMAIN log THEN log[s - 1].hash
                             ELSE "missing"

\* Epochs are consecutive runs of EpochSize entries; an epoch is marked ended
\* on its last entry only, and the next epoch's first entry names that hash.
EpochsClosed ==
  Benign =>
    \A s \in DOMAIN log :
      /\ log[s].epoch = s \div EpochSize
      /\ log[s].is_epoch_end => StartsEpoch(s + 1)
      /\ s > 0 => log[s].is_epoch_start = StartsEpoch(s)
      /\ StartsEpoch(s) =>
           /\ s - 1 \in DOMAIN log
           /\ log[s - 1].is_epoch_end
           /\ log[s].previous_epoch_hash = log[s - 1].hash

\* No event is recorded twice, as two entries or as an entry and a plain one,
\* unless a write that took effect, or the release after it, raised.
RecordedOnce ==
  faults \cap {"ambiguous", "call_error"} = {} =>
    \A e \in Events :
      /\ e \in plain => \A s \in DOMAIN log : log[s].hash # e
      /\ \A s, t \in DOMAIN log : log[s].hash = e /\ log[t].hash = e => s = t

\* The section of append_chained_entry is executed by one call at a time
\* ("serialize the entire allocate-hash-insert sequence"), as long as it is
\* shorter than the lease of 30 seconds.
Serialized ==
  "slow" \notin faults =>
    \A d, e \in Events : pc[d] \in Section /\ pc[e] \in Section => d = e

\* commands.py: the counter never hands out a sequence that is stored
\* ("prevents duplicate sequence allocation after process restart").
AllocationsAreFresh ==
  [][ \A e \in Events : Allocate(e) => counter \notin DOMAIN log ]_vars

\* The same for one worker that fails, crashes or is cancelled.
OneWorkerIsFresh ==
  [][ faults \subseteq {"write_error", "crash", "cancel"} =>
        \A e \in Events : Allocate(e) => counter \notin DOMAIN log ]_vars

\* The chain as its readers see it.
Chain == IF Benign
         THEN [i \in 1 .. Cardinality(DOMAIN log) |->
                 IF i - 1 \in DOMAIN log THEN log[i - 1].hash ELSE NoHash]
         ELSE <<>>
Abstract == INSTANCE AuditLog WITH Entries <- Events \cup Workers, chain <- Chain

\* For one worker the chain is an append-only log of events, each once.
ImplementsAuditLog == Abstract!Spec

\* A call of audit() that is neither cancelled nor killed records its event in
\* the end: a lock that stays busy or a call that fails costs the event its
\* place in the chain, and only failing retries cost the event itself.
EveryEventRecorded ==
  \A e \in Events :
    (pc[e] = "lock" /\ faults \cap {"cancel", "retention"} = {})
      ~> (\/ pc[e] = "dead"
          \/ e \in plain \/ tries[e] = MaxRetries
          \/ \E s \in DOMAIN log : log[s].hash = e)

\* The log is append-only under every fault: a stored entry keeps its content,
\* and an epoch once ended stays ended, until the TTL index deletes it.
StoredEntriesStay ==
  [][ \A s \in DOMAIN log \cap DOMAIN log' :
        /\ log[s].is_epoch_end => log'[s].is_epoch_end
        /\ log'[s] = [log[s] EXCEPT !.is_epoch_end = log'[s].is_epoch_end] ]_vars

\* Without the TTL index, a broken link is always a missing one: no entry
\* names another hash than that of the entry before it.
BrokenLinksAreMissing ==
  "retention" \notin faults =>
    \A s \in DOMAIN log :
      s - 1 \in DOMAIN log =>
        log[s].previous_hash \in {NoHash, log[s - 1].hash}
=============================================================================
