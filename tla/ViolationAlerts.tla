--------------------------- MODULE ViolationAlerts ---------------------------
(***************************************************************************)
(* The check runs of domains/enforcement and domains/compliance and what   *)
(* they announce: a run reads the last result of every check, evaluates    *)
(* the checks, stores the results and announces the difference as          *)
(* violation.new and violation.resolved events.                            *)
(*                                                                         *)
(* The two domains have the same course; they differ in the scope of a run,*)
(* in the previous results it compares with, in what a failing check       *)
(* reports and in what a failing announcement takes with it.               *)
(***************************************************************************)
EXTENDS Integers, FiniteSets

CONSTANTS
  Checks,       \* the rules, or the controls
  One,          \* the checks of a narrower run: one rule, or a framework's controls
  Hosts,        \* the agents
  System,       \* the "system" agent an enforcement rule that raises reports
  Runs,         \* runs in flight at a time
  MaxRuns,      \* runs in a behaviour
  MaxChanges,   \* violations that appear or disappear in a behaviour
  MaxUpsets     \* checks toggled, checks or announcements that raise, runs that die

AlertAssumption ==
  /\ One \subseteq Checks /\ System \notin Hosts /\ IsFiniteSet(Checks)
  /\ {MaxRuns, MaxChanges, MaxUpsets} \subseteq Nat

VARIABLES
  domain,     \* "enforcement" or "compliance"
  violating,  \* the <<check, host>> that violate now
  enabled,    \* the enabled checks
  latest,     \* the newest stored result of each check
  run,        \* the runs in flight
  now,        \* the clock of checked_at
  count,      \* bounds: runs, changes and upsets so far
  word,       \* history: what was announced last about each <<check, host>>
  steady,     \* history: nothing has broken the chain of results yet
  wronged     \* history: announced as resolved though violating all along

alertVars == <<domain, violating, enabled, latest, run, now, count, word, steady, wronged>>

Violations == Checks \X (Hosts \cup {System})
Nothing == [at |-> 0, found |-> {}]
NoRun == [pc |-> "free", scope |-> {}, prev |-> {}, todo |-> {},
          result |-> [c \in Checks |-> Nothing], new |-> {}, gone |-> {}, seen |-> {}]
Stamps == 0 .. MaxRuns * Cardinality(Checks)
Results == [Checks -> [at : Stamps, found : SUBSET Violations]]

AlertTypeOK ==
  /\ domain \in {"enforcement", "compliance"}
  /\ violating \subseteq Checks \X Hosts /\ enabled \subseteq Checks
  /\ latest \in Results /\ now \in Stamps
  /\ run \in [Runs -> [pc : {"free", "list", "check", "say"}, scope : SUBSET Checks,
                       prev : SUBSET Violations, todo : SUBSET Checks, result : Results,
                       new : SUBSET Violations, gone : SUBSET Violations,
                       seen : SUBSET Violations]]
  /\ count \in [{"runs", "changes", "upsets"} -> Nat]
  /\ word \in [Violations -> {"none", "new", "resolved"}]
  /\ steady \in BOOLEAN /\ wronged \subseteq Violations

AlertInit ==
  /\ domain \in {"enforcement", "compliance"}
  /\ violating = {} /\ enabled = Checks
  /\ latest = [c \in Checks |-> Nothing]
  /\ run = [r \in Runs |-> NoRun] /\ now = 0
  /\ count = [k \in {"runs", "changes", "upsets"} |-> 0]
  /\ word = [v \in Violations |-> "none"]
  /\ steady = TRUE /\ wronged = {}

Counted(k, max) == count[k] < max /\ count' = [count EXCEPT ![k] = @ + 1]

-----------------------------------------------------------------------------
\* The fleet, and the administrator.
Change(v) ==
  /\ Counted("changes", MaxChanges)
  /\ violating' = IF v \in violating THEN violating \ {v} ELSE violating \cup {v}
  /\ run' = [r \in Runs |-> [run[r] EXCEPT !.seen = @ \ {v}]]
  /\ UNCHANGED <<domain, enabled, latest, now, word, steady, wronged>>

Toggle(c) ==
  /\ Counted("upsets", MaxUpsets)
  /\ enabled' = IF c \in enabled THEN enabled \ {c} ELSE enabled \cup {c}
  /\ steady' = FALSE
  /\ UNCHANGED <<domain, violating, latest, run, now, word, wronged>>

-----------------------------------------------------------------------------
\* Mutant: a framework's run compares with the results of every framework.
PreviousOfAll(scope) == UNION {latest[c].found : c \in Checks}

\* The previous violations: enforcement takes those of every rule, whatever
\* the run is about; compliance those of the run's framework.
Previous(scope) ==
  UNION {latest[c].found : c \in IF domain = "enforcement" THEN Checks ELSE scope}

Begin(r, scope) ==
  /\ run[r].pc = "free" /\ Counted("runs", MaxRuns)
  /\ run' = [run EXCEPT ![r] = [NoRun EXCEPT !.pc = "list", !.scope = scope,
                                             !.prev = Previous(scope), !.seen = violating]]
  /\ steady' = (steady /\ (\A q \in Runs : run[q].pc = "free")
                       /\ (domain = "compliance" \/ scope = Checks))
  /\ UNCHANGED <<domain, violating, enabled, latest, now, word, wronged>>

\* A single rule is evaluated whether it is enabled or not.
ListChecks(r) ==
  /\ run[r].pc = "list"
  /\ LET single == domain = "enforcement" /\ run[r].scope # Checks
         todo == IF single THEN run[r].scope ELSE run[r].scope \cap enabled
     IN  run' = [run EXCEPT ![r] = [@ EXCEPT !.pc = "check", !.todo = todo]]
  /\ UNCHANGED <<domain, violating, enabled, latest, now, count, word, steady, wronged>>

Found(c) == {v \in violating : v[1] = c}

\* What a check that raises reports: a violation by the system itself, or
\* the status "error" and no violation.
OnError(c) == IF domain = "enforcement" THEN {<<c, System>>} ELSE {}

Evaluate(r, c) ==
  /\ run[r].pc = "check" /\ c \in run[r].todo
  /\ now' = now + 1
  /\ \E found \in {Found(c), OnError(c)} :
       /\ IF found = Found(c) THEN UNCHANGED count ELSE Counted("upsets", MaxUpsets)
       /\ run' = [run EXCEPT ![r].todo = @ \ {c},
                            ![r].result[c] = [at |-> now', found |-> found]]
  /\ UNCHANGED <<domain, violating, enabled, latest, word, steady, wronged>>

\* The results are stored, and the difference is taken: what was not there
\* before is new, what is not there any more is resolved.
Store(r) ==
  LET found == UNION {run[r].result[c].found : c \in Checks}
  IN  /\ run[r].pc = "check" /\ run[r].todo = {}
      /\ latest' = [c \in Checks |-> IF run[r].result[c].at > latest[c].at
                                     THEN run[r].result[c] ELSE latest[c]]
      /\ run' = [run EXCEPT ![r] = [NoRun EXCEPT !.pc = "say", !.seen = run[r].seen,
                                    !.new = found \ run[r].prev, !.gone = run[r].prev \ found]]
      /\ UNCHANGED <<domain, violating, enabled, now, count, word, steady, wronged>>

\* One event per check: the new violations first, then the resolved ones.
Announce(r, c) ==
  LET new == {v \in run[r].new : v[1] = c}
      gone == {v \in run[r].gone : v[1] = c}
  IN  /\ run[r].pc = "say"
      /\ \/ /\ new # {}
            /\ run' = [run EXCEPT ![r].new = @ \ new]
            /\ word' = [v \in Violations |-> IF v \in new THEN "new" ELSE word[v]]
            /\ UNCHANGED wronged
         \/ /\ run[r].new = {} /\ gone # {}
            /\ run' = [run EXCEPT ![r].gone = @ \ gone]
            /\ word' = [v \in Violations |-> IF v \in gone THEN "resolved" ELSE word[v]]
            /\ wronged' = wronged \cup (gone \cap run[r].seen)
      /\ UNCHANGED <<domain, violating, enabled, latest, now, count, steady>>

\* An announcement that raises takes those after it with it: of the same
\* sort in enforcement, all of them in compliance.
AnnounceFails(r) ==
  /\ run[r].pc = "say" /\ run[r].new \cup run[r].gone # {}
  /\ Counted("upsets", MaxUpsets)
  /\ run' = [run EXCEPT ![r] =
       IF domain = "enforcement" /\ run[r].new # {} THEN [@ EXCEPT !.new = {}]
       ELSE [@ EXCEPT !.new = {}, !.gone = {}]]
  /\ steady' = FALSE
  /\ UNCHANGED <<domain, violating, enabled, latest, now, word, wronged>>

Finish(r) ==
  /\ run[r].pc = "say" /\ run[r].new \cup run[r].gone = {}
  /\ run' = [run EXCEPT ![r] = NoRun]
  /\ UNCHANGED <<domain, violating, enabled, latest, now, count, word, steady, wronged>>

\* The process dies, or a database operation raises: the run is not resumed.
Die(r) ==
  /\ run[r].pc # "free" /\ Counted("upsets", MaxUpsets)
  /\ run' = [run EXCEPT ![r] = NoRun]
  /\ steady' = (steady /\ run[r].pc # "say")
  /\ UNCHANGED <<domain, violating, enabled, latest, now, word, wronged>>

AlertNext ==
  \/ \E v \in Checks \X Hosts : Change(v)
  \/ \E c \in Checks : Toggle(c)
  \/ \E r \in Runs :
       \/ \E scope \in {Checks, One} : Begin(r, scope)
       \/ ListChecks(r) \/ Store(r) \/ AnnounceFails(r) \/ Finish(r) \/ Die(r)
       \/ \E c \in Checks : Evaluate(r, c) \/ Announce(r, c)

AlertSpec == AlertInit /\ [][AlertNext]_alertVars

-----------------------------------------------------------------------------
Quiet == \A r \in Runs : run[r].pc = "free"

\* While runs do not overlap, checks keep their state, no run dies or fails
\* while it announces, and enforcement checks all its rules at a time, a
\* subscriber that heard every event knows the stored results: the last word
\* about a violation is "new" exactly if the newest result of its check has it.
LastWordIsRight ==
  steady /\ Quiet =>
    \A v \in Violations : word[v] = "new" <=> v \in latest[v[1]].found

\* docs/ENFORCEMENT.md and docs/api/webhooks.md: violation.resolved says that
\* an agent that violated has become compliant. (It does not: see the README.)
ResolvedMeansCompliant == wronged = {}
=============================================================================
