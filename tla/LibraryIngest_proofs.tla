------------------------ MODULE LibraryIngest_proofs ------------------------
(***************************************************************************)
(* What LibraryIngest promises for any number of workers, entries and      *)
(* versions, any size of a page and any interval between checkpoints.      *)
(***************************************************************************)
EXTENDS LibraryIngest, TLAPS

-----------------------------------------------------------------------------
(* Pages *)

LEMMA Division ==
  ASSUME NEW a \in Nat
  PROVE  /\ a \div PageSize \in Nat
         /\ (a \div PageSize) * PageSize <= a
         /\ a < (a \div PageSize) * PageSize + PageSize
  BY IngestAssumption

LEMMA DivisionIsUnique ==
  ASSUME NEW a \in Nat, NEW q \in Nat, q * PageSize <= a, a < q * PageSize + PageSize
  PROVE  a \div PageSize = q
  BY IngestAssumption

LEMMA DivisionIsMonotonic ==
  ASSUME NEW a \in Nat, NEW b \in Nat, a <= b
  PROVE  a \div PageSize <= b \div PageSize
  BY IngestAssumption

LEMMA Pages ==
  /\ LastPage \in Nat \ {0}
  /\ \A e \in Entries : PageOf(e) \in 1 .. LastPage
  /\ \A d, e \in Entries : d <= e => PageOf(d) <= PageOf(e)
<1>1. \A d, e \in Entries : /\ PageOf(d) \in Nat \ {0}
                            /\ d <= e => PageOf(d) <= PageOf(e)
  BY IngestAssumption, DivisionIsMonotonic, Division DEF PageOf, Entries
<1>2. Size \in Entries /\ \A e \in Entries : e <= Size
  BY IngestAssumption DEF Entries
<1> QED BY <1>1, <1>2 DEF LastPage

\* A page starts with the first of its entries.
LEMMA FirstOfPage ==
  ASSUME NEW p \in 1 .. LastPage
  PROVE  /\ FirstOf(p) \in Entries
         /\ PageOf(FirstOf(p)) = p
         /\ \A e \in Entries : e < FirstOf(p) => PageOf(e) < p
<1> DEFINE q == p - 1
<1>1. q \in Nat /\ q <= (Size - 1) \div PageSize
  BY IngestAssumption, Division DEF LastPage, PageOf
<1>2. q * PageSize \in Nat /\ q * PageSize <= Size - 1
  BY <1>1, IngestAssumption, Division, (Size - 1) \in Nat
<1>3. FirstOf(p) \in Entries
  BY <1>2, IngestAssumption DEF FirstOf, Entries
<1>4. (q * PageSize) \div PageSize = q
  BY <1>1, <1>2, IngestAssumption, DivisionIsUnique
<1>5. PageOf(FirstOf(p)) = p
  BY <1>2, <1>4 DEF FirstOf, PageOf
<1>6. ASSUME NEW e \in Entries, e < FirstOf(p) PROVE PageOf(e) < p
  <2>1. e - 1 \in Nat /\ e - 1 < q * PageSize
    BY <1>2, <1>6 DEF FirstOf, Entries
  <2>2. (e - 1) \div PageSize < q
    BY <1>1, <2>1, IngestAssumption, Division
  <2> QED BY <1>1, <2>1, <2>2, Division DEF PageOf
<1> QED BY <1>3, <1>5, <1>6

-----------------------------------------------------------------------------
(* Types *)

Runs == Jobs \cup {NoCheckpoint}
PCs == Active \cup {"off"}
Tails == {"none", "clear", "release", "drop"}

LEMMA FreshType == \A v \in 1 .. MaxVersion : Fresh(v) \in Jobs
  BY Pages, IngestAssumption DEF Fresh, Jobs

LEMMA TypeInit == Init => TypeOK
<1> SUFFICES ASSUME Init PROVE TypeOK
  OBVIOUS
<1>1. Fresh(1) \in Jobs /\ 1 \in 1 .. MaxVersion /\ 1 \in Entries
           /\ 0 \in 0 .. MaxFaults /\ 0 \in 0 .. MaxVersion
  BY FreshType, IngestAssumption DEF Entries
<1>2. library \in [Entries -> 0 .. MaxVersion] /\ data \in [Workers -> 0 .. MaxVersion]
  BY <1>1 DEF Init
<1> QED BY <1>1, <1>2 DEF Init, TypeOK

\* A run that is over leaves nothing of itself in its runner.
Emptied(w) ==
  /\ pc' = [pc EXCEPT ![w] = "off"]
  /\ job' = [job EXCEPT ![w] = Fresh(1)]
  /\ item' = [item EXCEPT ![w] = 1] /\ data' = [data EXCEPT ![w] = 0]
  /\ cancelled' = cancelled \ {w}

LEMMA EmptiedType ==
  ASSUME TypeOK, NEW w \in Workers, Emptied(w)
  PROVE  /\ pc' \in [Workers -> PCs]
         /\ job' \in [Workers -> Runs] /\ item' \in [Workers -> Entries]
         /\ data' \in [Workers -> 0 .. MaxVersion] /\ cancelled' \subseteq Workers
         /\ \A v \in Workers : job'[v] = NoCheckpoint => v # w
<1>1. Fresh(1) \in Jobs /\ 1 \in Entries /\ 0 \in 0 .. MaxVersion
  BY FreshType, IngestAssumption DEF Entries
<1> QED BY <1>1, CheckpointAssumption DEF Emptied, TypeOK, Runs, PCs

\* At an entry, a runner goes on with an entry and a page of the source, and
\* its count stays below the maximum.
LEMMA AdvanceType ==
  ASSUME TypeOK, NEW w \in Workers, NEW now \in [Workers -> Runs], now[w] \in Jobs,
         Advance(w, now)
  PROVE  /\ pc' \in [Workers -> PCs]
         /\ job' \in [Workers -> Runs] /\ item' \in [Workers -> Entries]
         /\ data' \in [Workers -> 0 .. MaxVersion]
         /\ job'[w] \in Jobs
         /\ \A v \in Workers \ {w} : job'[v] = now[v] /\ pc'[v] = pc[v]
<1>1. CASE item[w] = Size \/ now[w].fetched + 1 >= MaxResults
  BY <1>1 DEF Advance, Goto, TypeOK, Active, PCs
<1>2. CASE ~ (item[w] = Size \/ now[w].fetched + 1 >= MaxResults)
  <2> DEFINE next == item[w] + 1
  <2>1. next \in Entries
    BY <1>2, IngestAssumption DEF Entries, TypeOK
  <2>2. PageOf(next) \in 1 .. LastPage
    BY <2>1, Pages
  <2>3. now[w].fetched + 1 \in 0 .. MaxResults - 1
    BY <1>2, IngestAssumption DEF Jobs
  <2> HIDE DEF next
  <2>4. [now[w] EXCEPT !.fetched = @ + 1, !.page = PageOf(next)] \in Jobs
    BY <2>2, <2>3 DEF Jobs
  <2>5. /\ job' = [now EXCEPT ![w].fetched = @ + 1, ![w].page = PageOf(next)]
        /\ item' = [item EXCEPT ![w] = next]
        /\ \/ Goto(w, "entry") /\ UNCHANGED data
           \/ Goto(w, "fetch") /\ data' = [data EXCEPT ![w] = 0]
    BY <1>2 DEF Advance, next
  <2>6. /\ job' \in [Workers -> Runs] /\ job'[w] \in Jobs
        /\ \A v \in Workers \ {w} : job'[v] = now[v]
    BY <2>4, <2>5 DEF Runs
  <2>7. 0 \in 0 .. MaxVersion
    BY IngestAssumption
  <2> QED BY <2>1, <2>5, <2>6, <2>7 DEF Goto, TypeOK, Active, PCs
<1> QED BY <1>1, <1>2

\* A runner has a run once it is past its beginning.
TypeInv == TypeOK /\ \A w \in Workers : job[w] = NoCheckpoint => pc[w] = "create"

LEMMA TypeStep == TypeInv /\ [Next]_vars => TypeInv'
<1> SUFFICES ASSUME TypeInv, [Next]_vars PROVE TypeInv'
  OBVIOUS
<1> USE DEF TypeInv
<1>g. ASSUME NEW w \in Workers, NEW step \in PCs, Goto(w, step)
      PROVE  pc' \in [Workers -> PCs]
  BY <1>g DEF Goto, TypeOK, PCs
<1>f. ASSUME NEW kind, Fault(kind) PROVE faults' \in 0 .. MaxFaults /\ events' \in Environments
  BY <1>f, IngestAssumption DEF Fault, TypeOK
<1>0. CASE UNCHANGED vars
  BY <1>0 DEF vars, calls, cursor, locks, chances, TypeOK
<1>1. CASE Publish \/ LockExpires
  <2>1. upstream' \in 1 .. MaxVersion /\ lock' \in Workers \cup {Nobody, Gone}
    BY <1>1, IngestAssumption DEF Publish, LockExpires, TypeOK, locks
  <2> QED BY <1>1, <2>1 DEF Publish, LockExpires, TypeOK, calls, cursor, locks, chances
<1>2. ASSUME NEW w \in Workers, Call(w) PROVE TypeInv'
  <2>1. CASE Trigger(w)
    BY <2>1 DEF Trigger, Await, TypeOK, cursor, locks, chances
  <2>2. CASE MergeConfig(w)
    BY <2>2 DEF MergeConfig, Await, TypeOK, cursor, locks, chances
  <2>3. CASE LoadCheckpoint(w)
    BY <2>3 DEF LoadCheckpoint, Await, TypeOK, cursor, locks, chances
  <2>4. CASE Start(w)
    BY <2>4 DEF Start, Answer, Await, Goto, TypeOK, Active, locks, chances
  <2> QED BY <1>2, <2>1, <2>2, <2>3, <2>4 DEF Call
<1>3. ASSUME NEW w \in Workers, CreateRun(w) PROVE TypeInv'
  <2>1. Fresh(upstream) \in Jobs
    BY FreshType DEF TypeOK
  <2>2. job' \in [Workers -> Runs] /\ job'[w] \in Jobs
    BY <1>3, <2>1 DEF CreateRun, TypeOK, Runs
  <2>3. \A v \in Workers : job'[v] = NoCheckpoint => pc'[v] = "create"
    BY <1>3, <2>1, CheckpointAssumption DEF CreateRun, Goto, TypeOK
  <2>4. FirstOf(job'[w].page) \in Entries
    BY <2>2, FirstOfPage DEF Jobs
  <2>5. item' \in [Workers -> Entries]
    BY <1>3, <2>4 DEF CreateRun, TypeOK
  <2> QED BY <1>3, <2>2, <2>3, <2>5 DEF CreateRun, Goto, TypeOK, Active, calls, Runs, locks, chances
<1>4. ASSUME NEW w \in Workers, FetchPage(w) PROVE TypeInv'
  <2>1. upstream \in 0 .. MaxVersion
    BY IngestAssumption DEF TypeOK
  <2> QED BY <1>4, <2>1 DEF FetchPage, Goto, TypeOK, Active, calls, locks, chances
<1>5. ASSUME NEW w \in Workers, FetchFails(w) \/ TooManyErrors(w) PROVE TypeInv'
  <2>1. job[w] \in Jobs
    BY <1>5 DEF FetchFails, TooManyErrors, TypeOK
  <2>2. [job[w] EXCEPT !.flawed = TRUE] \in Jobs
    BY <2>1 DEF Jobs
  <2>3. Skipped(w) \in [Workers -> Runs] /\ \A v \in Workers \ {w} : Skipped(w)[v] = job[v]
    BY <2>2 DEF Skipped, TypeOK, Runs
  <2>4. Skipped(w)[w] \in Jobs
    BY <2>2 DEF Skipped, TypeOK
  <2>5. job' \in [Workers -> Runs] /\ pc' \in [Workers -> PCs]
    BY <1>5, <2>3, <1>g DEF FetchFails, TooManyErrors, Active, PCs
  <2>6. faults' \in 0 .. MaxFaults /\ events' \in Environments
    BY <1>5, <1>f DEF FetchFails, TooManyErrors
  <2>7. \A v \in Workers : job'[v] = NoCheckpoint => pc'[v] = "create"
    BY <1>5, <2>1, <2>3, <2>4, CheckpointAssumption DEF FetchFails, TooManyErrors, Goto, TypeOK
  <2> QED BY <1>5, <2>5, <2>6, <2>7 DEF FetchFails, TooManyErrors, TypeOK, calls, Runs, PCs, locks
<1>6. ASSUME NEW w \in Workers, Process(w) PROVE TypeInv'
  <2>1. job[w] \in Jobs /\ job \in [Workers -> Runs]
    BY <1>6 DEF Process, TypeOK, Runs
  <2>2. PICK skip \in BOOLEAN :
          LET now == [job EXCEPT ![w].done = (@ + 1) % Interval, ![w].flawed = @ \/ skip]
          IN  /\ IF skip THEN Fault("skip") /\ UNCHANGED library
                 ELSE library' = [library EXCEPT ![item[w]] = data[w]] /\ UNCHANGED chances
              /\ IF now[w].done = 0
                 THEN job' = now /\ Goto(w, "save") /\ UNCHANGED <<item, data>>
                 ELSE Advance(w, now)
    BY <1>6 DEF Process
  <2> DEFINE now == [job EXCEPT ![w].done = (@ + 1) % Interval, ![w].flawed = @ \/ skip]
  <2>3. (job[w].done + 1) % Interval \in 0 .. Interval - 1
    BY <2>1, IngestAssumption DEF Jobs
  <2>4. /\ now \in [Workers -> Runs] /\ now[w] \in Jobs
        /\ \A v \in Workers \ {w} : now[v] = job[v]
    BY <2>1, <2>3 DEF Jobs, Runs
  <2>5. /\ library' \in [Entries -> 0 .. MaxVersion]
        /\ faults' \in 0 .. MaxFaults /\ events' \in Environments
        /\ UNCHANGED <<upstream, cp, locks, calls, tail, cancelled>>
    BY <1>6, <2>2, <1>f DEF Process, TypeOK, chances
  <2> HIDE DEF now
  <2>6. CASE job' = now /\ Goto(w, "save") /\ UNCHANGED <<item, data>>
    <3>1. pc' \in [Workers -> PCs] /\ \A v \in Workers \ {w} : pc'[v] = pc[v]
      BY <2>6 DEF Goto, TypeOK, Active, PCs
    <3> QED BY <2>4, <2>5, <2>6, <3>1, CheckpointAssumption DEF TypeOK, Runs, PCs, calls, locks
  <2>7. CASE Advance(w, now)
    BY <2>4, <2>5, <2>7, AdvanceType, CheckpointAssumption DEF TypeOK, Runs, PCs, calls, locks
  <2> QED BY <2>2, <2>6, <2>7 DEF now
<1>7. ASSUME NEW w \in Workers, SaveProgress(w) PROVE TypeInv'
  <2>1. job[w] \in Jobs /\ job \in [Workers -> Runs]
    BY <1>7 DEF SaveProgress, TypeOK, Runs
  <2>2. Advance(w, job)
    BY <1>7 DEF SaveProgress
  <2>3. cp' \in Jobs /\ UNCHANGED <<upstream, library, locks, calls, tail, cancelled, chances>>
    BY <1>7, <2>1 DEF SaveProgress
  <2> QED BY <2>1, <2>2, <2>3, AdvanceType, CheckpointAssumption
          DEF TypeOK, Runs, PCs, calls, locks, chances
<1>8. ASSUME NEW w \in Workers, NEW step \in Tails, Leave(w, step), cp' \in Runs,
             faults' \in 0 .. MaxFaults, events' \in Environments,
             UNCHANGED <<upstream, library, locks, calls>>
      PROVE  TypeInv'
  <2>1. Emptied(w) /\ tail' \in [Workers -> Tails]
    BY <1>8 DEF Leave, Emptied, Goto, TypeOK, Tails
  <2>2. \A v \in Workers : job'[v] = NoCheckpoint => pc'[v] = "create"
    BY <2>1, EmptiedType DEF Emptied, TypeOK
  <2> QED BY <1>8, <2>1, <2>2, EmptiedType DEF TypeOK, Runs, PCs, Tails, calls, locks
<1>9. ASSUME NEW w \in Workers, SaveCancelled(w) \/ Persist(w) \/ Fail(w) PROVE TypeInv'
  <2>1. CASE SaveCancelled(w)
    BY <2>1, <1>8 DEF SaveCancelled, TypeOK, Runs, Tails, chances
  <2>2. CASE Persist(w)
    BY <2>2, <1>8 DEF Persist, TypeOK, Runs, Tails, chances
  <2>3. CASE Fail(w)
    BY <2>3, <1>8, <1>f DEF Fail, TypeOK, Runs, Tails
  <2> QED BY <1>9, <2>1, <2>2, <2>3
<1>10. ASSUME NEW w \in Workers, NEW step \in Tails, NEW next \in Tails, At(w, step, next),
              cp' \in Runs, lock' \in Workers \cup {Nobody, Gone}, handle' \subseteq Workers,
              faults' \in 0 .. MaxFaults, events' \in Environments,
              UNCHANGED <<upstream, library, calls, pc, cursor, cancelled>>
       PROVE  TypeInv'
  <2>1. tail' \in [Workers -> Tails]
    BY <1>10 DEF At, TypeOK, Tails
  <2> QED BY <1>10, <2>1 DEF TypeOK, Runs, Tails, calls, cursor
<1>11. ASSUME NEW w \in Workers, Tail(w) \/ ClearRaises(w) \/ ReleaseRaises(w) PROVE TypeInv'
  <2>1. CASE ClearCheckpoint(w)
    BY <2>1, <1>10 DEF ClearCheckpoint, TypeOK, Runs, Tails, chances, locks
  <2>2. CASE Release(w)
    BY <2>2, <1>10 DEF Release, TypeOK, Runs, Tails, chances, locks
  <2>3. CASE DropHandle(w)
    BY <2>3, <1>10 DEF DropHandle, TypeOK, Runs, Tails, chances, locks
  <2>4. CASE ClearRaises(w)
    BY <2>4, <1>10, <1>f DEF ClearRaises, TypeOK, Runs, Tails, locks
  <2>5. CASE ReleaseRaises(w)
    BY <2>5, <1>10, <1>f DEF ReleaseRaises, TypeOK, Runs, Tails, locks
  <2> QED BY <1>11, <2>1, <2>2, <2>3, <2>4, <2>5 DEF Tail
<1>12. ASSUME NEW w \in Workers, Cancel(w) \/ StartRaises(w) PROVE TypeInv'
  <2>1. faults' \in 0 .. MaxFaults /\ events' \in Environments
    BY <1>12, <1>f DEF Cancel, StartRaises
  <2> QED BY <1>12, <2>1
          DEF Cancel, StartRaises, Answer, Await, TypeOK, Runs, calls, cursor, locks
<1>13. ASSUME NEW w \in Workers, Crash(w) PROVE TypeInv'
  <2>1. Emptied(w)
    BY <1>13 DEF Crash, Emptied
  <2>2. \A v \in Workers : job'[v] = NoCheckpoint => pc'[v] = "create"
    BY <2>1, EmptiedType DEF Emptied, TypeOK
  <2>3. faults' \in 0 .. MaxFaults /\ events' \in Environments
    BY <1>13, <1>f DEF Crash
  <2>4. /\ tail' \in [Workers -> Tails] /\ handle' \subseteq Workers
        /\ lock' \in Workers \cup {Nobody, Gone}
        /\ ask' \in [Workers -> {"none", "fresh", "merge", "load", "resume"}]
        /\ asked' \in [Workers -> Runs]
        /\ UNCHANGED <<upstream, library, cp>>
    BY <1>13 DEF Crash, Answer, Await, TypeOK, Runs, Tails
  <2> QED BY <2>1, <2>2, <2>3, <2>4, EmptiedType DEF TypeOK, Runs, PCs, Tails
<1> QED
  BY <1>0, <1>1, <1>2, <1>3, <1>4, <1>5, <1>6, <1>7, <1>9, <1>11, <1>12, <1>13
     DEF Next, Runner, Failure

\* Every run and checkpoint is one that the code can write: its page is one of the
\* source, its count below the maximum.
THEOREM TypeCorrect == Spec => []TypeOK
<1>1. Init => TypeInv
  <2> SUFFICES ASSUME Init PROVE TypeInv
    OBVIOUS
  <2>1. \A w \in Workers : job[w] # NoCheckpoint
    BY FreshType, CheckpointAssumption, IngestAssumption DEF Init
  <2> QED BY <2>1, TypeInit DEF TypeInv
<1> QED BY <1>1, TypeStep, PTL DEF Spec, TypeInv

-----------------------------------------------------------------------------
(* What is owed and what is done *)

\* A run, or a checkpoint, that has no flaw has done the pages before its own;
\* it does not ask for more than the source has.
Sound(j) ==
  j # NoCheckpoint => j.goal <= upstream /\ (j.flawed \/ Covered(j, j.page))

\* The entries a run has taken in while it is at item[w].
Taken(w) == {e \in Entries : e < item[w] \/ (pc[w] = "save" /\ e = item[w])}

AtItem(w) ==
  /\ job[w].page = PageOf(item[w]) /\ job[w].goal <= upstream
  /\ job[w].flawed \/ \A e \in Taken(w) : library[e] >= job[w].goal

\* The page it has fetched is as new as anything in the library.
Loaded(w) ==
  /\ job[w].goal <= data[w] /\ data[w] <= upstream
  /\ \A e \in Entries : library[e] <= data[w]

Done(w) ==
  job[w].flawed \/ \A e \in Entries : e <= MaxResults - CountedAgain(w) => library[e] >= job[w].goal

\* Whoever runs, or has not released the lock after a run, holds the lock; and
\* no other run of a worker begins before it has.
OwnerInv == \A w \in Workers :
  /\ pc[w] # "off" \/ tail[w] \in {"clear", "release"} => lock = w
  /\ tail[w] \in {"clear", "release"} => pc[w] = "off"

\* Checkpoints and runs are sound at each of their steps.
RunInv(w) ==
  /\ pc[w] = "create" => Sound(job[w])
  /\ pc[w] \in {"fetch", "entry", "save"} => AtItem(w)
  /\ pc[w] \in {"entry", "save"} => Loaded(w)
  /\ pc[w] = "persist" => Done(w)

CoverInv ==
  /\ \A e \in Entries : library[e] <= upstream
  /\ Sound(cp)
  /\ \A w \in Workers : Sound(asked[w]) /\ RunInv(w)

IngestInv == TypeInv /\ OwnerInv /\ CoverInv

LEMMA OwnerStep ==
  ASSUME TypeInv, OwnerInv, Next
  PROVE  OwnerInv'
<1> USE DEF OwnerInv, TypeInv
<1>1. CASE Publish \/ LockExpires
  BY <1>1, IngestAssumption DEF Publish, LockExpires, TypeOK, locks
<1>2. ASSUME NEW w \in Workers,
             Trigger(w) \/ MergeConfig(w) \/ LoadCheckpoint(w) \/ Cancel(w) \/ DropHandle(w)
      PROVE  OwnerInv'
  BY <1>2 DEF Trigger, MergeConfig, LoadCheckpoint, Cancel, DropHandle, At, TypeOK, locks
<1>3. ASSUME NEW w \in Workers, Start(w) \/ StartRaises(w) PROVE OwnerInv'
  BY <1>3, IngestAssumption DEF Start, StartRaises, Goto, TypeOK, locks
<1>4. ASSUME NEW w \in Workers, NEW step, pc[w] # "off", UNCHANGED <<lock, tail>>, Goto(w, step)
      PROVE  OwnerInv'
  BY <1>4 DEF Goto, TypeOK
<1>5. ASSUME NEW w \in Workers,
             CreateRun(w) \/ FetchPage(w) \/ FetchFails(w) \/ TooManyErrors(w)
      PROVE  OwnerInv'
  BY <1>4, <1>5 DEF CreateRun, FetchPage, FetchFails, TooManyErrors, locks
<1>6. ASSUME NEW w \in Workers, Process(w) \/ SaveProgress(w)
      PROVE  OwnerInv'
  <2>1. pc[w] # "off" /\ UNCHANGED <<lock, tail>>
    BY <1>6 DEF Process, SaveProgress, locks
  <2>2. \E step : Goto(w, step)
    BY <1>6 DEF Process, SaveProgress, Advance
  <2> QED BY <2>1, <2>2, <1>4
<1>7. ASSUME NEW w \in Workers, SaveCancelled(w) \/ Persist(w) \/ Fail(w) PROVE OwnerInv'
  <2>1. pc[w] # "off" /\ UNCHANGED lock
    BY <1>7 DEF SaveCancelled, Persist, Fail, IsRunning, Active, locks
  <2>2. Goto(w, "off") /\ \E step : tail' = [tail EXCEPT ![w] = step]
    BY <1>7 DEF SaveCancelled, Persist, Fail, Leave
  <2> QED BY <2>1, <2>2 DEF Goto, TypeOK
<1>8. ASSUME NEW w \in Workers, ClearCheckpoint(w) \/ ClearRaises(w) PROVE OwnerInv'
  BY <1>8 DEF ClearCheckpoint, ClearRaises, At, TypeOK, locks
<1>9. ASSUME NEW w \in Workers, Release(w) \/ ReleaseRaises(w) PROVE OwnerInv'
  <2>1. /\ tail[w] = "release" /\ UNCHANGED pc
        /\ \E step \in {"drop", "none"} : tail' = [tail EXCEPT ![w] = step]
    BY <1>9 DEF Release, ReleaseRaises, At
  <2>2. lock = w /\ pc[w] = "off"
    BY <2>1
  <2> QED BY <2>1, <2>2 DEF TypeOK
<1>10. ASSUME NEW w \in Workers, Crash(w) PROVE OwnerInv'
  <2>1. /\ pc' = [pc EXCEPT ![w] = "off"] /\ tail' = [tail EXCEPT ![w] = "none"]
        /\ lock' = IF lock = w THEN Gone ELSE lock
    BY <1>10 DEF Crash
  <2> QED BY <2>1 DEF TypeOK
<1> QED
  BY <1>1, <1>2, <1>3, <1>5, <1>6, <1>7, <1>8, <1>9, <1>10 DEF Next, Call, Runner, Tail, Failure

\* Where nothing is taken from the library, what was sound stays sound.
LEMMA SoundKept ==
  ASSUME TypeInv, TypeInv', NEW j \in Runs, Sound(j), upstream <= upstream',
         \A e \in Entries : library[e] <= library'[e]
  PROVE  Sound(j)'
BY DEF Sound, Covered, TypeInv, TypeOK, Runs, Jobs

LEMMA RunKept ==
  ASSUME TypeInv, TypeInv', NEW w \in Workers, RunInv(w), upstream <= upstream',
         UNCHANGED library, pc'[w] = pc[w],
         job'[w] = job[w] /\ item'[w] = item[w] /\ data'[w] = data[w]
  PROVE  RunInv(w)'
<1>1. Sound(job[w]) => Sound(job[w])'
  <2>1. ASSUME NEW j \in Runs, Sound(j) PROVE Sound(j)'
    BY <2>1, SoundKept DEF TypeInv, TypeOK
  <2> QED BY <2>1 DEF TypeInv, TypeOK, Runs, Sound, Covered
<1>2. AtItem(w) /\ pc[w] # "create" => AtItem(w)'
  <2>1. pc[w] # "create" => job[w].goal \in Int
    BY DEF TypeInv, TypeOK, Jobs
  <2>2. upstream \in Int /\ upstream' \in Int
    BY DEF TypeInv, TypeOK
  <2>3. job[w].goal \in Int /\ job[w].goal <= upstream => job[w].goal <= upstream'
    BY <2>2
  <2>4. Taken(w)' = Taken(w)
    BY DEF Taken
  <2> QED BY <2>1, <2>3, <2>4 DEF AtItem
<1>3. Loaded(w) => Loaded(w)'
  BY DEF Loaded, TypeInv, TypeOK
<1>4. Done(w) => Done(w)'
  BY DEF Done, CountedAgain, TypeInv, TypeOK
<1> QED BY <1>1, <1>2, <1>3, <1>4 DEF RunInv

\* A run that has taken in all entries up to item[w] goes on, or ends.
LEMMA RunAdvances ==
  ASSUME TypeInv, TypeInv', NEW w \in Workers, NEW now \in [Workers -> Runs], now[w] \in Jobs,
         Advance(w, now), UNCHANGED upstream,
         now[w].page = PageOf(item[w]), now[w].goal <= data[w], data[w] <= upstream,
         \A e \in Entries : library'[e] <= data[w],
         now[w].flawed \/ \A e \in Entries : e <= item[w] => library'[e] >= now[w].goal
  PROVE  RunInv(w)'
<1>t. item[w] \in Entries /\ pc \in [Workers -> PCs] /\ item \in [Workers -> Entries]
      /\ now[w].fetched \in 0 .. MaxResults - 1
  BY DEF TypeInv, TypeOK, PCs, Jobs
<1>1. CASE item[w] = Size \/ now[w].fetched + 1 >= MaxResults
  <2>1. job'[w] = now[w] /\ item'[w] = item[w] /\ pc'[w] = "persist"
    BY <1>1, <1>t DEF Advance, Goto
  <2>2. ASSUME NEW e \in Entries, e <= MaxResults - (now[w].fetched - (item[w] - 1))
        PROVE  e <= item[w]
    BY <1>1, <1>t, <2>2, IngestAssumption DEF Entries
  <2>3. Done(w)'
    BY <2>1, <2>2 DEF Done, CountedAgain
  <2> QED BY <2>1, <2>3 DEF RunInv
<1>2. CASE ~ (item[w] = Size \/ now[w].fetched + 1 >= MaxResults)
  <2> DEFINE next == item[w] + 1
  <2>1. next \in Entries /\ \A e \in Entries : e < next => e <= item[w]
    BY <1>2, <1>t, IngestAssumption DEF Entries
  <2> HIDE DEF next
  <2>2. /\ item' = [item EXCEPT ![w] = next]
        /\ job' = [now EXCEPT ![w].fetched = @ + 1, ![w].page = PageOf(next)]
        /\ \/ Goto(w, "entry") /\ UNCHANGED data
           \/ Goto(w, "fetch")
    BY <1>2 DEF Advance, next
  <2>3. /\ job'[w].page = PageOf(next)
        /\ job'[w].goal = now[w].goal /\ job'[w].flawed = now[w].flawed
    BY <2>2 DEF Jobs, Runs
  <2>4. item'[w] = next /\ pc'[w] \in {"entry", "fetch"} /\ (pc'[w] = "entry" => UNCHANGED data)
    BY <2>2, <1>t DEF Goto
  <2>5. now[w].goal <= upstream'
    BY DEF TypeInv, TypeOK, Jobs
  <2>6. AtItem(w)'
    BY <2>1, <2>3, <2>4, <2>5 DEF AtItem, Taken
  <2>7. pc'[w] = "entry" => Loaded(w)'
    BY <2>3, <2>4 DEF Loaded
  <2> QED BY <2>4, <2>6, <2>7 DEF RunInv
<1> QED BY <1>1, <1>2

\* A step that takes nothing into the library and leaves the runs but that of
\* w as they are.
LEMMA CoverKept ==
  ASSUME TypeInv, TypeInv', CoverInv, UNCHANGED library, upstream <= upstream',
         Sound(cp)', \A v \in Workers : asked'[v] = asked[v] \/ Sound(asked[v])',
         \A v \in Workers : \/ /\ pc'[v] = pc[v] /\ job'[v] = job[v]
                               /\ item'[v] = item[v] /\ data'[v] = data[v]
                            \/ RunInv(v)'
  PROVE  CoverInv'
<1>1. \A e \in Entries : library'[e] <= upstream'
  BY DEF CoverInv, TypeInv, TypeOK
<1>2. ASSUME NEW v \in Workers PROVE Sound(asked[v])'
  <2>1. ASSUME NEW j \in Runs, Sound(j) PROVE Sound(j)'
    BY <2>1, SoundKept DEF TypeInv, TypeOK
  <2>2. Sound(asked[v]) /\ asked'[v] = asked[v] => Sound(asked[v])'
    BY <2>1 DEF TypeInv, TypeOK, Runs, Sound, Covered
  <2> QED BY <2>2 DEF CoverInv
<1>3. ASSUME NEW v \in Workers PROVE RunInv(v)'
  BY RunKept DEF CoverInv
<1> QED BY <1>1, <1>2, <1>3 DEF CoverInv

LEMMA CoverStep ==
  ASSUME TypeInv, TypeInv', OwnerInv, CoverInv, Next
  PROVE  CoverInv'
<1>c. ASSUME UNCHANGED cp, UNCHANGED library, upstream <= upstream' PROVE Sound(cp)'
  <2>1. ASSUME NEW j \in Runs, Sound(j) PROVE Sound(j)'
    BY <1>c, <2>1, SoundKept DEF TypeInv, TypeOK
  <2> QED BY <1>c, <2>1 DEF CoverInv, TypeInv, TypeOK, Runs, Sound, Covered
<1>s. ASSUME UNCHANGED library, UNCHANGED upstream, NEW j, Sound(j) PROVE Sound(j)'
  BY <1>s DEF Sound, Covered
<1>w. ASSUME NEW w \in Workers, NEW step, Goto(w, step)
      PROVE  pc'[w] = step /\ \A v \in Workers \ {w} : pc'[v] = pc[v]
  BY <1>w DEF Goto, TypeInv, TypeOK
<1>1. CASE Publish \/ LockExpires
  <2>1. UNCHANGED <<library, cp, calls, pc, cursor>> /\ upstream <= upstream'
    BY <1>1 DEF Publish, LockExpires, TypeInv, TypeOK
  <2> QED BY <2>1, <1>c, CoverKept DEF calls, cursor
<1>2. ASSUME NEW w \in Workers, Trigger(w) \/ LoadCheckpoint(w) PROVE CoverInv'
  <2>1. /\ UNCHANGED <<upstream, library, cp, pc, cursor>>
        /\ asked' = asked \/ asked' = [asked EXCEPT ![w] = cp]
    BY <1>2 DEF Trigger, LoadCheckpoint
  <2>2. Sound(cp)'
    BY <1>c, <2>1 DEF TypeInv, TypeOK
  <2>3. \A v \in Workers : asked'[v] = asked[v] \/ asked'[v] = cp'
    BY <2>1 DEF TypeInv, TypeOK
  <2>4. \A v \in Workers : asked'[v] = asked[v] \/ Sound(asked[v])'
    BY <2>2, <2>3
  <2> QED BY <2>1, <2>2, <2>4, CoverKept DEF cursor, TypeInv, TypeOK
<1>3. ASSUME NEW w \in Workers, MergeConfig(w) PROVE CoverInv'
  <2>1. /\ UNCHANGED <<upstream, library, pc, cursor>> /\ cp' = asked[w]
        /\ asked' = [asked EXCEPT ![w] = NoCheckpoint]
    BY <1>3 DEF MergeConfig
  <2>2. Sound(cp)'
    BY <1>s, <2>1 DEF CoverInv
  <2>3. \A v \in Workers : asked'[v] = asked[v] \/ Sound(asked[v])'
    BY <2>1 DEF TypeInv, TypeOK, Sound
  <2> QED BY <2>1, <2>2, <2>3, CoverKept DEF cursor, TypeInv, TypeOK
<1>4. ASSUME NEW w \in Workers, Start(w) PROVE CoverInv'
  <2>1. UNCHANGED <<upstream, library, cp, item, data>>
        /\ asked' = [asked EXCEPT ![w] = NoCheckpoint]
    BY <1>4 DEF Start, Answer
  <2>2. \A v \in Workers : asked'[v] = asked[v] \/ Sound(asked[v])'
    BY <2>1 DEF TypeInv, TypeOK, Sound
  <2>3. \/ UNCHANGED <<pc, job>>
        \/ Goto(w, "create") /\ job' = [job EXCEPT ![w] = asked[w]]
    BY <1>4 DEF Start
  <2>4. CASE UNCHANGED <<pc, job>>
    BY <2>1, <2>2, <2>4, <1>c, CoverKept DEF TypeInv, TypeOK
  <2>5. CASE Goto(w, "create") /\ job' = [job EXCEPT ![w] = asked[w]]
    <3>1. pc'[w] = "create" /\ job'[w] = asked[w]
      BY <2>5, <1>w DEF TypeInv, TypeOK
    <3>2. RunInv(w)'
      BY <2>1, <3>1, <1>s DEF RunInv, CoverInv
    <3>3. \A v \in Workers \ {w} : pc'[v] = pc[v] /\ job'[v] = job[v]
      BY <2>5, <1>w DEF TypeInv, TypeOK
    <3> QED BY <2>1, <2>2, <3>2, <3>3, <1>c, CoverKept DEF TypeInv, TypeOK
  <2> QED BY <2>3, <2>4, <2>5
\* A step of w by which its run comes to another stage.
<1>k. ASSUME NEW w \in Workers, NEW step, Goto(w, step), UNCHANGED <<upstream, library, asked>>,
             \A v \in Workers \ {w} :
               job'[v] = job[v] /\ item'[v] = item[v] /\ data'[v] = data[v],
             RunInv(w)', Sound(cp)'
      PROVE  CoverInv'
  BY <1>k, <1>w, CoverKept DEF TypeInv, TypeOK
<1>5. ASSUME NEW w \in Workers, CreateRun(w) PROVE CoverInv'
  <2>1. /\ UNCHANGED <<upstream, library, cp, asked, data>> /\ Goto(w, "fetch")
        /\ job' = [job EXCEPT ![w] = IF @ = NoCheckpoint THEN Fresh(upstream) ELSE @]
        /\ item' = [item EXCEPT ![w] = FirstOf(job'[w].page)]
    BY <1>5 DEF CreateRun, calls
  <2>2. Sound(Fresh(upstream)) /\ Fresh(upstream) \in Jobs
    BY Pages, FreshType DEF Sound, Covered, Fresh, TypeInv, TypeOK
  <2>3. /\ Sound(job[w]) /\ (job'[w] = Fresh(upstream) \/ job'[w] = job[w])
        /\ job'[w] \in Jobs
    BY <1>5, <2>1, <2>2 DEF CreateRun, CoverInv, RunInv, TypeInv, TypeOK
  <2>4. Sound(job[w])'
    BY <2>1, <2>2, <2>3, <1>s
  <2>5. pc'[w] = "fetch" /\ item'[w] = FirstOf(job'[w].page) /\ job'[w].page \in 1 .. LastPage
    BY <2>1, <2>3, <1>w DEF Jobs, TypeInv, TypeOK
  <2>6. \A e \in Taken(w)' : PageOf(e) < job'[w].page
    BY <2>5, FirstOfPage DEF Taken
  <2>7. PageOf(item'[w]) = job'[w].page /\ Taken(w)' \subseteq Entries
    BY <2>5, FirstOfPage DEF Taken
  <2>8. AtItem(w)'
    BY <2>3, <2>4, <2>6, <2>7, CheckpointAssumption DEF AtItem, Sound, Covered
  <2>9. RunInv(w)'
    BY <2>5, <2>8 DEF RunInv
  <2> QED BY <2>1, <2>9, <1>c, <1>k DEF TypeInv, TypeOK
<1>6. ASSUME NEW w \in Workers, FetchPage(w) PROVE CoverInv'
  <2>1. /\ UNCHANGED <<upstream, library, cp, asked, job, item>> /\ Goto(w, "entry")
        /\ data' = [data EXCEPT ![w] = upstream] /\ pc[w] = "fetch"
    BY <1>6 DEF FetchPage, calls
  <2>2. AtItem(w)
    BY <2>1 DEF CoverInv, RunInv
  <2>3. data'[w] = upstream /\ pc'[w] = "entry"
    BY <2>1, <1>w DEF TypeInv, TypeOK
  <2>4. AtItem(w)'
    BY <2>1, <2>2, <2>3 DEF AtItem, Taken
  <2>5. Loaded(w)'
    BY <2>1, <2>2, <2>3 DEF AtItem, Loaded, CoverInv, TypeInv, TypeOK
  <2>6. RunInv(w)'
    BY <2>3, <2>4, <2>5 DEF RunInv
  <2> QED BY <2>1, <2>6, <1>c, <1>k DEF TypeInv, TypeOK
<1>7. ASSUME NEW w \in Workers, FetchFails(w) \/ TooManyErrors(w) PROVE CoverInv'
  <2>1. /\ UNCHANGED <<upstream, library, cp, asked, item, data>>
        /\ job' = Skipped(w) /\ Goto(w, "persist") /\ job[w] \in Jobs
    BY <1>7 DEF FetchFails, TooManyErrors, calls, TypeInv, TypeOK
  <2>2. job'[w].flawed /\ \A v \in Workers \ {w} : job'[v] = job[v]
    BY <2>1 DEF Skipped, Jobs, TypeInv, TypeOK
  <2>3. RunInv(w)'
    BY <2>1, <2>2, <1>w DEF RunInv, Done
  <2> QED BY <2>1, <2>2, <2>3, <1>c, <1>k DEF TypeInv, TypeOK
\* The runners that do not hold the lock are off.
<1>o. ASSUME NEW w \in Workers, pc[w] # "off" PROVE \A v \in Workers \ {w} : pc[v] = "off"
  BY <1>o DEF OwnerInv
<1>8. ASSUME NEW w \in Workers, Process(w) PROVE CoverInv'
  <2>1. /\ UNCHANGED <<upstream, cp, asked>> /\ pc[w] = "entry"
        /\ job[w] \in Jobs /\ AtItem(w) /\ Loaded(w) /\ item[w] \in Entries
        /\ \A v \in Workers \ {w} : pc[v] = "off"
    BY <1>8, <1>o DEF Process, calls, CoverInv, RunInv, TypeInv, TypeOK
  <2>2. PICK skip \in BOOLEAN :
          LET now == [job EXCEPT ![w].done = (@ + 1) % Interval, ![w].flawed = @ \/ skip]
          IN  /\ IF skip THEN UNCHANGED library
                 ELSE library' = [library EXCEPT ![item[w]] = data[w]]
              /\ IF now[w].done = 0
                 THEN job' = now /\ Goto(w, "save") /\ UNCHANGED <<item, data>>
                 ELSE Advance(w, now)
    BY <1>8 DEF Process
  <2> DEFINE now == [job EXCEPT ![w].done = (@ + 1) % Interval, ![w].flawed = @ \/ skip]
  <2>3. /\ now \in [Workers -> Runs] /\ now[w] \in Jobs
        /\ now[w].page = job[w].page /\ now[w].goal = job[w].goal
        /\ job[w].flawed \/ skip => now[w].flawed
    <3>1. job[w].done \in Nat /\ (job[w].done + 1) % Interval \in 0 .. Interval - 1
      BY <2>1, IngestAssumption DEF Jobs
    <3> QED BY <2>1, <3>1 DEF Jobs, Runs, TypeInv, TypeOK
  <2>4. IF now[w].done = 0
        THEN job' = now /\ Goto(w, "save") /\ UNCHANGED <<item, data>>
        ELSE Advance(w, now)
    BY <2>2
  <2>5. \A v \in Workers \ {w} : pc'[v] = "off"
    BY <2>1, <2>4, <1>w DEF Advance
  <2> HIDE DEF now
  <2>6. /\ \A e \in Entries : library[e] <= library'[e] /\ library'[e] <= data[w]
        /\ now[w].flawed \/ \A e \in Entries : e <= item[w] => library'[e] >= now[w].goal
    <3>1. /\ data[w] \in Int /\ item[w] \in Int
          /\ \A e \in Entries : library[e] \in Int /\ e \in Int
      <4>1. Entries \subseteq Int /\ 0 .. MaxVersion \subseteq Int
        BY DEF Entries
      <4> QED BY <4>1 DEF TypeInv, TypeOK
    <3>2. job[w].goal <= data[w] /\ \A e \in Entries : library[e] <= data[w]
      BY <2>1 DEF Loaded
    <3>3. job[w].flawed \/ \A e \in Entries : e < item[w] => library[e] >= job[w].goal
      BY <2>1 DEF AtItem, Taken
    <3>4. CASE skip
      <4>1. UNCHANGED library /\ now[w].flawed
        BY <2>2, <2>3, <3>4
      <4> QED BY <3>1, <3>2, <4>1
    <3>5. CASE ~skip
      <4>1. \A e \in Entries : library'[e] = IF e = item[w] THEN data[w] ELSE library[e]
        BY <2>2, <3>5 DEF TypeInv, TypeOK
      <4>2. job[w].goal \in Int
        BY <2>1 DEF Jobs
      <4>3. \A e \in Entries : library[e] <= library'[e] /\ library'[e] <= data[w]
        BY <3>1, <3>2, <4>1
      <4>4. CASE job[w].flawed
        BY <2>3, <4>3, <4>4
      <4>5. CASE ~job[w].flawed
        BY <2>3, <3>1, <3>2, <3>3, <4>1, <4>2, <4>3, <4>5
      <4> QED BY <4>4, <4>5
    <3> QED BY <3>4, <3>5
  <2>7. data[w] <= upstream /\ job[w].goal <= data[w] /\ job[w].page = PageOf(item[w])
    BY <2>1 DEF AtItem, Loaded
  <2>8. RunInv(w)'
    <3>1. CASE job' = now /\ Goto(w, "save") /\ UNCHANGED <<item, data>>
      <4>1. pc'[w] = "save" /\ job'[w] = now[w] /\ item'[w] = item[w] /\ data'[w] = data[w]
        BY <3>1, <1>w
      <4>2. \A e \in Entries : e < item[w] \/ e = item[w] => e <= item[w]
        BY <2>1 DEF Entries
      <4>3. AtItem(w)'
        BY <2>1, <2>3, <2>6, <2>7, <4>1, <4>2 DEF AtItem, Taken
      <4>4. Loaded(w)'
        BY <2>1, <2>3, <2>6, <2>7, <4>1 DEF Loaded
      <4> QED BY <4>1, <4>3, <4>4 DEF RunInv
    <3>2. CASE Advance(w, now)
      BY <2>1, <2>3, <2>6, <2>7, <3>2, RunAdvances
    <3> QED BY <2>4, <3>1, <3>2
  <2>9. \A v \in Workers : RunInv(v)'
    BY <2>5, <2>8 DEF RunInv
  <2>10. \A e \in Entries : library'[e] <= upstream'
    BY <2>1, <2>6, <2>7 DEF TypeInv, TypeOK
  <2>11. ASSUME NEW j \in Runs, Sound(j) PROVE Sound(j)'
    BY <2>1, <2>6, <2>11, SoundKept DEF TypeInv, TypeOK
  <2>12. Sound(cp)' /\ \A v \in Workers : Sound(asked[v])'
    BY <2>1, <2>11 DEF CoverInv, TypeInv, TypeOK, Runs, Sound, Covered
  <2> QED BY <2>9, <2>10, <2>12 DEF CoverInv
\* The checkpoint saved at an entry.
<1>9. ASSUME NEW w \in Workers, AtItem(w), job[w] \in Jobs PROVE Sound(job[w])
  <2>1. \A e \in Entries : PageOf(e) < job[w].page => e \in Taken(w)
    <3>1. item[w] \in Entries /\ job[w].page = PageOf(item[w])
      BY <1>9 DEF AtItem, TypeInv, TypeOK
    <3>2. ASSUME NEW e \in Entries, ~ (e < item[w]) PROVE ~ (PageOf(e) < PageOf(item[w]))
      <4>1. item[w] <= e
        BY <3>1, <3>2 DEF Entries
      <4>2. PageOf(item[w]) <= PageOf(e) /\ PageOf(item[w]) \in Int /\ PageOf(e) \in Int
        BY <4>1, <3>1, Pages
      <4> QED BY <4>2
    <3> QED BY <3>1, <3>2 DEF Taken
  <2>2. job[w].goal <= upstream
    BY <1>9 DEF AtItem
  <2> QED BY <1>9, <2>1, <2>2 DEF Sound, Covered, AtItem
<1>10. ASSUME NEW w \in Workers, SaveProgress(w) PROVE CoverInv'
  <2>1. /\ UNCHANGED <<upstream, library, asked>> /\ cp' = job[w] /\ Advance(w, job)
        /\ pc[w] = "save" /\ job[w] \in Jobs /\ AtItem(w) /\ Loaded(w) /\ item[w] \in Entries
        /\ \A v \in Workers \ {w} : pc[v] = "off"
    BY <1>10, <1>o DEF SaveProgress, calls, CoverInv, RunInv, TypeInv, TypeOK
  <2>2. Sound(cp)'
    BY <2>1, <1>9, <1>s
  <2>3. \A e \in Entries : e <= item[w] => e \in Taken(w)
    BY <2>1 DEF Taken, Entries
  <2>4. RunInv(w)'
    BY <2>1, <2>3, RunAdvances DEF AtItem, Loaded, TypeInv, TypeOK, Runs
  <2>5. \A v \in Workers \ {w} : RunInv(v)'
    BY <2>1, <1>w DEF Advance, RunInv
  <2> QED BY <2>1, <2>2, <2>4, <2>5, CoverKept DEF TypeInv, TypeOK
\* A run is over, and its runner emptied.
<1>e. ASSUME NEW w \in Workers, Emptied(w), UNCHANGED <<upstream, library>>, Sound(cp)',
             asked' = asked \/ asked' = [asked EXCEPT ![w] = NoCheckpoint]
      PROVE  CoverInv'
  <2>1. \A v \in Workers : asked'[v] = asked[v] \/ Sound(asked[v])'
    BY <1>e DEF Sound, TypeInv, TypeOK
  <2>2. /\ pc'[w] = "off"
        /\ \A v \in Workers \ {w} : /\ pc'[v] = pc[v] /\ job'[v] = job[v]
                                    /\ item'[v] = item[v] /\ data'[v] = data[v]
    BY <1>e DEF Emptied, TypeInv, TypeOK
  <2>3. RunInv(w)'
    BY <2>2 DEF RunInv
  <2> QED BY <1>e, <2>1, <2>2, <2>3, CoverKept DEF TypeInv, TypeOK
<1>11. ASSUME NEW w \in Workers, SaveCancelled(w) PROVE CoverInv'
  <2>1. /\ UNCHANGED <<upstream, library, asked>> /\ Emptied(w)
        /\ cp' = job[w] /\ job[w] \in Jobs /\ AtItem(w)
    BY <1>11 DEF SaveCancelled, Leave, Emptied, Goto, calls, CoverInv, RunInv, TypeInv, TypeOK
  <2>2. Sound(cp)'
    BY <2>1, <1>9, <1>s
  <2> QED BY <2>1, <2>2, <1>e
<1>12. ASSUME NEW w \in Workers, Persist(w) \/ Fail(w) \/ Crash(w) PROVE CoverInv'
  <2>1. /\ UNCHANGED <<upstream, library, cp>> /\ Emptied(w)
        /\ asked' = asked \/ asked' = [asked EXCEPT ![w] = NoCheckpoint]
    BY <1>12 DEF Persist, Fail, Crash, Leave, Answer, Emptied, Goto, calls
  <2> QED BY <2>1, <1>c, <1>e DEF TypeInv, TypeOK
<1>13. ASSUME NEW w \in Workers, ClearCheckpoint(w) PROVE CoverInv'
  <2>1. Sound(cp)' /\ UNCHANGED <<upstream, library, asked, pc, cursor>>
    BY <1>13 DEF ClearCheckpoint, Sound, calls
  <2> QED BY <2>1, CoverKept DEF cursor, TypeInv, TypeOK
<1>14. ASSUME NEW w \in Workers,
              Cancel(w) \/ ClearRaises(w) \/ Release(w) \/ ReleaseRaises(w) \/ DropHandle(w)
       PROVE  CoverInv'
  <2>1. UNCHANGED <<upstream, library, cp, asked, pc, cursor>>
    BY <1>14 DEF Cancel, ClearRaises, Release, ReleaseRaises, DropHandle, calls
  <2> QED BY <2>1, <1>c, CoverKept DEF cursor, TypeInv, TypeOK
<1>15. ASSUME NEW w \in Workers, StartRaises(w) PROVE CoverInv'
  <2>1. /\ UNCHANGED <<upstream, library, cp, pc, cursor>>
        /\ asked' = [asked EXCEPT ![w] = NoCheckpoint]
    BY <1>15 DEF StartRaises, Answer
  <2>2. \A v \in Workers : asked'[v] = asked[v] \/ Sound(asked[v])'
    BY <2>1 DEF TypeInv, TypeOK, Sound
  <2> QED BY <2>1, <2>2, <1>c, CoverKept DEF cursor, TypeInv, TypeOK
<1> QED
  BY <1>1, <1>2, <1>3, <1>4, <1>5, <1>6, <1>7, <1>8, <1>10, <1>11, <1>12, <1>13, <1>14,
     <1>15 DEF Next, Call, Runner, Tail, Failure

LEMMA IngestInvariant == Spec => []IngestInv
<1>1. Init => IngestInv
  <2> SUFFICES ASSUME Init PROVE IngestInv
    OBVIOUS
  <2>1. \A w \in Workers : job[w] # NoCheckpoint
    BY FreshType, CheckpointAssumption, IngestAssumption DEF Init
  <2>2. OwnerInv /\ CoverInv
    BY IngestAssumption DEF Init, OwnerInv, CoverInv, RunInv, Sound
  <2> QED BY <2>1, <2>2, TypeInit DEF TypeInv, IngestInv
<1>2. IngestInv /\ [Next]_vars => IngestInv'
  <2> SUFFICES ASSUME IngestInv, [Next]_vars PROVE OwnerInv' /\ CoverInv'
    BY TypeStep DEF IngestInv
  <2>1. TypeInv /\ TypeInv'
    BY TypeStep DEF IngestInv
  <2>2. CASE UNCHANGED vars
    BY <2>2 DEF vars, calls, cursor, locks, IngestInv, OwnerInv, CoverInv, RunInv, Sound, Covered,
                AtItem, Loaded, Done, CountedAgain, Taken
  <2>3. CASE Next
    BY <2>1, <2>3, OwnerStep, CoverStep DEF IngestInv
  <2> QED BY <2>2, <2>3
<1> QED BY <1>1, <1>2, PTL DEF Spec

-----------------------------------------------------------------------------
\* What a checkpoint says is done is done, whoever has saved it last.
THEOREM CheckpointIsSoundHolds == Spec => []CheckpointIsSound
<1>1. IngestInv => CheckpointIsSound
  BY DEF IngestInv, CoverInv, Sound, CheckpointIsSound
<1> QED BY <1>1, IngestInvariant, PTL

\* A run recorded as completed without a flaw has brought up to the content that
\* the source had when it was created every entry, or the first MaxResults less
\* those that it has counted again since it was resumed.
THEOREM CompletedCoversHolds == Spec => []CompletedCovers
<1>1. IngestInv => CompletedCovers
  BY DEF IngestInv, CoverInv, RunInv, Done, CompletedCovers
<1> QED BY <1>1, IngestInvariant, PTL
=============================================================================
