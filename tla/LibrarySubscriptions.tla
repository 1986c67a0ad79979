----------------------- MODULE LibrarySubscriptions -----------------------
(***************************************************************************)
(* domains/library: the groups that subscribe to one entry of the shared   *)
(* library, and the markers of the entry that are copied into their        *)
(* fingerprints (service.py, and the writes of repository.py it calls).    *)
(*                                                                         *)
(* The content of a list of markers is a number that grows with every      *)
(* change of the entry, 0 being the empty list.  A request is an id that   *)
(* is used once; a subscription bears the id of the request that made it.  *)
(***************************************************************************)
EXTENDS Integers, FiniteSets

CONSTANTS
  Groups,        \* groups of agents
  Subscribes,    \* requests to subscribe
  GroupOf,       \* the group of such a request
  AutoUpdates,   \* those with auto_update
  Unsubscribes,  \* requests to unsubscribe
  Syncers,       \* callers of "sync all stale subscriptions", again and again
  Scopes,        \* the sets of calls, and "delete", considered together
  MaxChanges,    \* changes of the entry considered
  MaxDeaths      \* calls that die half-way considered

Calls == Subscribes \cup Unsubscribes \cup Syncers

SubscriptionAssumption ==
  /\ Scopes \subseteq SUBSET (Calls \cup {"delete"})
  /\ IsFiniteSet(Subscribes) /\ IsFiniteSet(Unsubscribes)
  /\ GroupOf \in [Subscribes -> Groups] /\ AutoUpdates \subseteq Subscribes
  /\ Subscribes \cap Unsubscribes = {} /\ Subscribes \cap Syncers = {}
  /\ Unsubscribes \cap Syncers = {}
  /\ MaxChanges \in Nat \ {0} /\ MaxDeaths \in Nat

VARIABLES
  scope,    \* the calls that take part
  entry,    \* the library entry; base: its markers when version was set
  deleted,  \* how far delete_entry is
  subs,     \* library_subscriptions
  count,    \* subscriber_count of the entry
  markers,  \* the markers of the entry in each group's fingerprint
  changes,  \* changes of the entry so far
  pc,       \* where each call is
  seen,     \* the entry as a call has read it
  todo,     \* the subscriptions a call has read and still has to deal with
  now,      \* the one whose markers it has just copied
  deaths,   \* calls that died so far
  spoilt    \* history: groups two calls worked on at once, or half unsubscribed

tenant == <<subs, markers>>
library == <<entry, deleted, count, changes>>
locals == <<pc, seen, todo, now>>
vars == <<scope, tenant, library, locals, deaths, spoilt>>

Entry == [version : Nat, markers : Nat, base : Nat]
Read(e) == [e EXCEPT !.base = 0]
Subscription == [id : Subscribes, group : Groups, auto : BOOLEAN, synced : Nat]
Exists == deleted # "yes"

TypeOK ==
  /\ scope \in Scopes
  /\ entry \in Entry /\ deleted \in {"no", "begun", "yes"}
  /\ subs \subseteq Subscription
  /\ \A s, t \in subs : s.group = t.group => s = t
  /\ count \in Int /\ changes \in 1 .. MaxChanges
  /\ markers \in [Groups -> 0 .. MaxChanges]
  /\ pc \in [Calls -> {"idle", "insert", "entries", "remove", "delete", "count", "markers", "stamp", "done"}]
  /\ seen \in [Calls -> Entry]
  /\ \A c \in Calls : todo[c] \cup now[c] \subseteq Subscription
  /\ deaths \in 0 .. MaxDeaths /\ spoilt \subseteq Groups

First == [version |-> 1, markers |-> 1, base |-> 1]

Init ==
  /\ scope \in Scopes
  /\ entry = First /\ deleted = "no" /\ subs = {} /\ count = 0 /\ changes = 1
  /\ markers = [g \in Groups |-> 0]
  /\ pc = [c \in Calls |-> "idle"] /\ seen = [c \in Calls |-> First]
  /\ todo = [c \in Calls |-> {}] /\ now = [c \in Calls |-> {}]
  /\ deaths = 0 /\ spoilt = {}

\* The groups a call works on.
Busy(c) == {s.group : s \in todo[c] \cup now[c]}

Goto(c, step) == pc' = [pc EXCEPT ![c] = step]

\* What a call has read is of no use once it has ended.
Ends(c) ==
  /\ Goto(c, IF c \in Syncers THEN "idle" ELSE "done")
  /\ seen' = [seen EXCEPT ![c] = First]
  /\ todo' = [todo EXCEPT ![c] = {}] /\ now' = [now EXCEPT ![c] = {}]

\* The groups that, in the state to come, are worked on by two calls.
Contended == {g \in Groups : \E c, d \in Calls : c # d /\ g \in Busy(c) \cap Busy(d)}
Watch == spoilt' = spoilt \cup Contended'

-----------------------------------------------------------------------------
(* The entry *)

Change(e) ==
  /\ Exists /\ changes < MaxChanges
  /\ changes' = changes + 1
  /\ entry' = e
  /\ UNCHANGED <<tenant, deleted, count, locals, deaths, spoilt>>

\* upsert_entry_by_upstream: the version is bumped.  A source may give the
\* entry no pattern.
Upsert ==
  \E m \in {0, changes + 1} :
    Change([version |-> entry.version + 1, markers |-> m, base |-> m])

\* Another source has an entry of the same name: its markers are pushed into
\* this one, and the version stays.
MergeSource == Change([entry EXCEPT !.markers = changes + 1])

\* delete_entry: the subscriptions first, then the entry.
DeleteSubscriptions ==
  /\ deleted = "no"
  /\ deleted' = "begun"
  /\ subs' = {}
  /\ UNCHANGED <<markers, entry, count, changes, locals, deaths, spoilt>>

DeleteEntry ==
  /\ deleted = "begun"
  /\ deleted' = "yes"
  /\ UNCHANGED <<tenant, entry, count, changes, locals, deaths, spoilt>>

\* increment_subscriber_count, which finds no entry once it is deleted.
CountBy(d) == count' = IF Exists THEN count + d ELSE count

-----------------------------------------------------------------------------
(* _sync_markers_to_group and update_subscription *)

\* One update replaces the markers of the entry in the group's fingerprint,
\* unless the entry has none.
PutMarkers(g, m) == markers' = [markers EXCEPT ![g] = IF m = 0 THEN @ ELSE m]

\* synced_version is set on the subscription, if it is still there.
Stamp(s, v) ==
  subs' = {IF t.id = s.id THEN [t EXCEPT !.synced = v] ELSE t : t \in subs}

CopyMarkers(c) ==
  /\ pc[c] = "markers"
  /\ \E s \in todo[c] :
       /\ PutMarkers(s.group, seen[c].markers)
       /\ todo' = [todo EXCEPT ![c] = @ \ {s}]
       /\ now' = [now EXCEPT ![c] = {s}]
  /\ Goto(c, "stamp")
  /\ UNCHANGED <<subs, library, seen, deaths>>

\* Mutant: the version stamped is the entry's, not that of the copy.
StampLatest(c) ==
  /\ pc[c] = "stamp"
  /\ \E s \in now[c] : Stamp(s, entry.version)
  /\ IF todo[c] = {} THEN Ends(c)
     ELSE Goto(c, "markers") /\ now' = [now EXCEPT ![c] = {}] /\ UNCHANGED <<seen, todo>>
  /\ UNCHANGED <<markers, library, deaths>>

\* A sync goes on with the next subscription.
StampVersion(c) ==
  /\ pc[c] = "stamp"
  /\ \E s \in now[c] : Stamp(s, seen[c].version)
  /\ IF todo[c] = {} THEN Ends(c)
     ELSE Goto(c, "markers") /\ now' = [now EXCEPT ![c] = {}] /\ UNCHANGED <<seen, todo>>
  /\ UNCHANGED <<markers, library, deaths>>

-----------------------------------------------------------------------------
(* subscribe and unsubscribe *)

New(c) == [id |-> c, group |-> GroupOf[c], auto |-> c \in AutoUpdates, synced |-> 0]

ReadEntry(c) ==
  /\ c \in Subscribes /\ pc[c] = "idle" /\ Exists
  /\ seen' = [seen EXCEPT ![c] = Read(entry)]
  /\ todo' = [todo EXCEPT ![c] = {New(c)}]
  /\ Goto(c, "insert")
  /\ UNCHANGED <<tenant, library, now, deaths>>

\* Refused by the check for a subscription or by the unique index.
Insert(c) ==
  /\ c \in Subscribes /\ pc[c] = "insert"
  /\ IF Busy(c) \cap {s.group : s \in subs} # {}
     THEN Ends(c) /\ UNCHANGED subs
     ELSE /\ subs' = subs \cup todo[c]
          /\ Goto(c, "count")
          /\ UNCHANGED <<seen, todo, now>>
  /\ UNCHANGED <<markers, library, deaths>>

Counted(c) ==
  /\ c \in Subscribes /\ pc[c] = "count"
  /\ CountBy(1)
  /\ Goto(c, "markers")
  /\ UNCHANGED <<tenant, entry, deleted, changes, seen, todo, now, deaths>>

FindSubscription(c) ==
  /\ c \in Unsubscribes /\ pc[c] = "idle"
  /\ \E s \in subs : todo' = [todo EXCEPT ![c] = {s}]
  /\ Goto(c, "remove")
  /\ UNCHANGED <<tenant, library, seen, now, deaths>>

RemoveMarkers(c) ==
  /\ c \in Unsubscribes /\ pc[c] = "remove"
  /\ markers' = [g \in Groups |-> IF g \in Busy(c) THEN 0 ELSE markers[g]]
  /\ Goto(c, "delete")
  /\ UNCHANGED <<subs, library, seen, todo, now, deaths>>

DeleteSubscription(c) ==
  /\ c \in Unsubscribes /\ pc[c] = "delete"
  /\ subs' = {s \in subs : \A t \in todo[c] : s.id # t.id}
  /\ Goto(c, "count")
  /\ UNCHANGED <<markers, library, seen, todo, now, deaths>>

\* Mutant: the subscriber is not discounted.
NotDiscounted(c) ==
  /\ c \in Unsubscribes /\ pc[c] = "count"
  /\ Ends(c)
  /\ UNCHANGED <<tenant, library, deaths>>

\* Whether the subscription was there to be deleted is not looked at.
Discounted(c) ==
  /\ c \in Unsubscribes /\ pc[c] = "count"
  /\ CountBy(-1)
  /\ Ends(c)
  /\ UNCHANGED <<tenant, entry, deleted, changes, deaths>>

-----------------------------------------------------------------------------
(* sync_stale_subscriptions *)

ListSubscriptions(c) ==
  /\ c \in Syncers /\ pc[c] = "idle"
  /\ todo' = [todo EXCEPT ![c] = {s \in subs : s.auto}]
  /\ Goto(c, "entries")
  /\ UNCHANGED <<tenant, library, seen, now, deaths>>

\* Mutant: a subscription one version behind is not stale.
StaleByTwo(s, e) == e.version > s.synced + 1

Stale(s, e) == e.version > s.synced

\* With the entries it has read, the call goes on with the stale ones (what
\* they were synced to is of no use any more).
ReadEntries(c) ==
  /\ c \in Syncers /\ pc[c] = "entries"
  /\ LET stale == {s \in todo[c] : Exists /\ Stale(s, entry)}
     IN IF stale = {}
        THEN Ends(c)
        ELSE /\ todo' = [todo EXCEPT ![c] = {[s EXCEPT !.synced = 0] : s \in stale}]
             /\ seen' = [seen EXCEPT ![c] = Read(entry)]
             /\ Goto(c, "markers")
             /\ UNCHANGED now
  /\ UNCHANGED <<tenant, library, deaths>>

-----------------------------------------------------------------------------
\* The worker of a call dies.  Half an unsubscription leaves a subscription
\* without its markers.
Dies(c) ==
  /\ pc[c] \notin {"idle", "done"} /\ deaths < MaxDeaths
  /\ deaths' = deaths + 1
  /\ Ends(c)
  /\ spoilt' = spoilt \cup IF pc[c] = "delete" THEN Busy(c) ELSE {}
  /\ UNCHANGED <<tenant, library>>

Sync(c) == ListSubscriptions(c) \/ ReadEntries(c) \/ CopyMarkers(c) \/ StampVersion(c)

Request(c) ==
  \/ Insert(c) \/ Counted(c) \/ CopyMarkers(c) \/ StampVersion(c)
  \/ RemoveMarkers(c) \/ DeleteSubscription(c) \/ Discounted(c)

Step ==
  \/ Upsert \/ MergeSource
  \/ "delete" \in scope /\ (DeleteSubscriptions \/ DeleteEntry)
  \/ /\ \/ \E c \in Syncers \cap scope : Sync(c)
        \/ \E c \in scope \cap Calls : ReadEntry(c) \/ FindSubscription(c)
        \/ \E c \in Calls \ Syncers : Request(c)
     /\ Watch
  \/ \E c \in Calls : Dies(c)

Next == Step /\ UNCHANGED scope

Spec == Init /\ [][Next]_vars

\* Requests run to their end, and stale subscriptions are synced again and
\* again.
FairSpec ==
  /\ Spec
  /\ \A c \in Syncers : WF_vars(c \in scope /\ Sync(c) /\ Watch /\ UNCHANGED scope)
  /\ \A c \in Calls \ Syncers : WF_vars(Request(c) /\ Watch /\ UNCHANGED scope)

-----------------------------------------------------------------------------
\* While no two calls work on a group at once and none dies, the entry's
\* subscriber count is the number of its subscriptions, up to what the calls
\* in between the two databases still have to add or to subtract.
CountIsExact ==
  deleted = "no" /\ spoilt = {} /\ deaths = 0 =>
    count + Cardinality({c \in Subscribes : pc[c] = "count"})
      = Cardinality(subs) + Cardinality({c \in Unsubscribes : pc[c] = "count"})

\* A subscription that says it has the entry's version has at least the
\* markers the entry had when it got that version, whatever calls died and
\* however the entry changed while they ran; only calls that overlapped on
\* the group, or half an unsubscription, may have left it behind.
SyncedIsCurrent ==
  \A s \in subs :
    Exists /\ s.synced = entry.version /\ s.group \notin spoilt \cup UNION {Busy(c) : c \in Calls}
      => markers[s.group] >= entry.base

\* A subscription with auto_update is brought up to the entry in the end, also
\* one whose first copy or a later sync died half-way.
CatchesUp ==
  scope \cap Syncers # {} => \A g \in Groups :
    <>[](Exists /\ g \notin spoilt /\ \E s \in subs : s.group = g /\ s.auto)
      => <>[](markers[g] >= entry.base)

\* When all calls have ended, no group has markers of an entry that it is not
\* subscribed to.
NoOrphans ==
  \A g \in Groups :
    deleted = "no" /\ deaths = 0 /\ (\A c \in Calls : Busy(c) = {}) /\ markers[g] # 0
      => \E s \in subs : s.group = g
=============================================================================
