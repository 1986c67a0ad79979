---------------------------- MODULE AuditReaders ----------------------------
(***************************************************************************)
(* audit/chain/queries.py beside the writers of AuditChain: verify_chain,  *)
(* which reads the chain in batches, export_epoch, which reads an epoch    *)
(* and then the latest entry, and tools/sentora_verify, which verifies the *)
(* exported files elsewhere.                                               *)
(*                                                                         *)
(* A stored entry is never altered, so that recomputing its hash gives the *)
(* stored one.  The hash of a file covers its entries in their rendering,  *)
(* which for a timestamp is str() or isoformat().                          *)
(***************************************************************************)
EXTENDS AuditChain, FiniteSetsExt

CONSTANT ReadIn   \* bound: the sets of faults in which the chain is read

VARIABLE reader   \* the call of verify_chain or export_epoch

allVars == <<vars, reader>>

Steps == {"idle", "genesis", "batches", "verified", "entries", "exported", "refused"}

ReaderTypeOK ==
  /\ reader.step \in Steps
  /\ reader.step = "batches" =>
       reader.upto \in Nat /\ reader.at \in Nat /\ reader.prev \in Hashes
  /\ reader.step = "verified" => reader.status \in {"valid", "broken", "gap_detected"}
  /\ reader.step \in {"entries", "exported"} =>
       DOMAIN reader.taken \subseteq Nat /\ \A s \in DOMAIN reader.taken : reader.taken[s] \in Entry

ReaderInit == Init /\ reader = [step |-> "idle"]

LatestEpoch == {log[s].epoch : s \in {t \in DOMAIN log : IsLast(t, DOMAIN log)}}

-----------------------------------------------------------------------------
(* verify_chain() *)

\* _verify_batch(): "valid", or what the first entry that fails fails: its
\* sequence, or the link to the entry before it (hash for the first, unless
\* that one is trusted).
BatchStatus(entries, start, hash, trusted) ==
  LET S == DOMAIN entries
      Before(s) == {t \in S : t < s}
      Gap(s) == s # start + Cardinality(Before(s))
      Broken(s) ==
        /\ ~trusted \/ s # Min(S)
        /\ entries[s].previous_hash # IF s = Min(S) THEN hash ELSE entries[Max(Before(s))].hash
      failing == {s \in S : Gap(s) \/ Broken(s)}
  IN  IF failing = {} THEN "valid"
      ELSE IF Gap(Min(failing)) THEN "gap_detected" ELSE "broken"

\* ChainNotInitializedError without a genesis entry.
BeginVerify ==
  /\ reader.step = "idle" /\ faults \in ReadIn
  /\ reader' = [step |-> IF HasGenesis THEN "genesis" ELSE "refused"]
  /\ UNCHANGED vars

\* verify_chain(epoch): the entries of one epoch, whose first link is trusted.
VerifySingleEpoch(k) ==
  /\ reader.step = "genesis"
  /\ LET entries == [s \in InEpoch(k) |-> log[s]]
     IN  IF DOMAIN entries = {}
         THEN reader' = [step |-> "refused"]
         ELSE LET first == Min(DOMAIN entries)
              IN  reader' = [step |-> "verified", from |-> first, upto |-> Max(DOMAIN entries),
                             status |-> BatchStatus(entries, first, NoHash, TRUE)]
  /\ UNCHANGED vars

\* _verify_full_chain(): the latest entry, or a valid empty chain.
ReadLatest ==
  /\ reader.step = "genesis"
  /\ reader' = IF DOMAIN log = {}
               THEN [step |-> "verified", from |-> 0, upto |-> -1, status |-> "valid"]
               ELSE [step |-> "batches", upto |-> Max(DOMAIN log), at |-> 0, prev |-> NoHash]
  /\ UNCHANGED vars

Window == reader.at .. Min({reader.at + EpochSize - 1, reader.upto}) \cap DOMAIN log

\* Mutant: the next batch starts one entry too late.
VerifyBatchSkipping ==
  /\ reader.step = "batches" /\ reader.at <= reader.upto
  /\ LET entries == [s \in Window |-> log[s]]
         status == BatchStatus(entries, reader.at, reader.prev, FALSE)
     IN  reader' = IF status # "valid"
                   THEN [step |-> "verified", from |-> 0, upto |-> reader.upto, status |-> status]
                   ELSE [reader EXCEPT !.at = @ + EpochSize + 1,
                                       !.prev = IF Window = {} THEN @ ELSE log[Max(Window)].hash]
  /\ UNCHANGED vars

\* The next batch of epoch_size sequences; an empty one passes.
VerifyBatch ==
  /\ reader.step = "batches" /\ reader.at <= reader.upto
  /\ LET entries == [s \in Window |-> log[s]]
         status == BatchStatus(entries, reader.at, reader.prev, FALSE)
     IN  reader' = IF status # "valid"
                   THEN [step |-> "verified", from |-> 0, upto |-> reader.upto, status |-> status]
                   ELSE [reader EXCEPT !.at = @ + EpochSize,
                                       !.prev = IF Window = {} THEN @ ELSE log[Max(Window)].hash]
  /\ UNCHANGED vars

EndVerify ==
  /\ reader.step = "batches" /\ reader.at > reader.upto
  /\ reader' = [step |-> "verified", from |-> 0, upto |-> reader.upto, status |-> "valid"]
  /\ UNCHANGED vars

-----------------------------------------------------------------------------
(* export_epoch() *)

\* The file: its entries, how it renders a timestamp, and its export_hash,
\* which is computed before the timestamps are serialised.
File(k, taken) ==
  [step |-> "exported", epoch |-> k, taken |-> taken, rendered |-> "isoformat",
   export_hash |-> <<"str", taken>>]

\* stream_entries_for_epoch(); the export of an ended epoch needs no more.
ReadEpoch(k) ==
  /\ reader.step = "idle" /\ faults \in ReadIn
  /\ LET taken == [s \in InEpoch(k) |-> log[s]]
     IN  reader' = IF DOMAIN taken = {} THEN [step |-> "refused"]
                   ELSE IF taken[Max(DOMAIN taken)].is_epoch_end THEN File(k, taken)
                   ELSE [step |-> "entries", epoch |-> k, taken |-> taken]
  /\ UNCHANGED vars

\* Otherwise the epoch must not be that of the latest entry.
CheckLatest ==
  /\ reader.step = "entries"
  /\ reader' = IF reader.epoch \in LatestEpoch THEN [step |-> "refused"]
               ELSE File(reader.epoch, reader.taken)
  /\ UNCHANGED vars

-----------------------------------------------------------------------------
(* tools/sentora_verify *)

\* verify_epoch(), before the hash of the file.
EntriesVerify(file) ==
  BatchStatus(file.taken, Min(DOMAIN file.taken), NoHash, TRUE) = "valid"

\* verify_epoch(): the hash is recomputed over the entries of the file.
EpochVerifies(file) ==
  EntriesVerify(file) /\ file.export_hash = <<file.rendered, file.taken>>

\* Mutant: any previous_epoch_hash will do.
CrossEpochAny(first, previous) ==
  LET final == previous[Max(DOMAIN previous)].hash
  IN  first.previous_epoch_hash # NoHash \/ first.previous_hash = final

\* verify_cross_epoch(): the first entry of an epoch names the final hash of
\* the file of the epoch before it.
CrossEpochVerifies(first, previous) ==
  LET final == previous[Max(DOMAIN previous)].hash
  IN  IF first.previous_epoch_hash = NoHash
      THEN first.previous_hash = final
      ELSE first.previous_epoch_hash = final

-----------------------------------------------------------------------------
Read ==
  \/ BeginVerify \/ ReadLatest \/ VerifyBatch \/ EndVerify \/ CheckLatest
  \/ \E k \in 0 .. counter \div EpochSize : VerifySingleEpoch(k) \/ ReadEpoch(k)

ReaderNext ==
  \/ Next /\ UNCHANGED reader
  \/ Read

ReaderSpec == ReaderInit /\ [][ReaderNext]_allVars

\* The writers go on; nobody needs to read.
FairReaderSpec ==
  /\ ReaderSpec
  /\ \A w \in Workers : WF_vars(Boot(w))
  /\ \A e \in Events : WF_vars(Audit(e))
  /\ WF_vars(ExpireLock)

-----------------------------------------------------------------------------
(* Properties *)

\* docs/api/audit-chain.md: verification "Checks sequence continuity and hash
\* integrity".  A chain found valid, though it grew meanwhile, has every entry
\* up to the one that was the latest, each linked to the one before; and a
\* chain that only failed writes and crashes have touched is found valid.
VerdictIsRight ==
  reader.step = "verified" =>
    /\ reader.status = "valid" =>
         \A s \in reader.from .. reader.upto :
           /\ s \in DOMAIN log
           /\ s > reader.from => log[s].previous_hash = log[s - 1].hash
    /\ Benign => reader.status = "valid"

\* An export that reads the entries before it asks for the latest one may miss
\* the last entries of its epoch.  Verifying the file together with the first
\* entry of the next epoch tells such a file from a whole one.
TruncationIsDetected ==
  (reader.step = "exported" /\ Benign) =>
    \A s \in DOMAIN log :
      s = (reader.epoch + 1) * EpochSize =>
        ((EntriesVerify(reader) /\ CrossEpochVerifies(log[s], reader.taken))
           <=> DOMAIN reader.taken = reader.epoch * EpochSize .. s - 1)

\* queries.py: "An export_hash binds the metadata to the entries", and the file
\* is meant "for air-gapped verification".  Violated by every export: the hash
\* was computed over another rendering of the timestamps than the file has.
ExportsVerify == (reader.step = "exported" /\ Benign) => EpochVerifies(reader)
=============================================================================
