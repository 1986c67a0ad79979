------------------------------ MODULE Sessions ------------------------------
(***************************************************************************)
(* Login with lockout, rotation of refresh tokens, revocation of sessions  *)
(* and the per-worker revocation caches (domains/auth, utils/              *)
(* user_revocation.py) for the account of one user.                        *)
(*                                                                         *)
(* A login is one POST /login.  It names the refresh token family and the  *)
(* session it creates; the n-th refresh token of family l is <<l, n>>.     *)
(* Requests run as coroutines: one action per step between two awaits.     *)
(* The model covers the day after a revocation, so the 24 hours after      *)
(* which a revoked session leaves the cache do not pass.                   *)
(***************************************************************************)
EXTENDS Integers, FiniteSets, Sequences

CONSTANTS
  Workers,      \* worker processes
  Logins,       \* POST /login requests
  Refreshes,    \* POST /refresh requests
  Revokes,      \* requests that revoke sessions or change the account
  WorkerOf,     \* the worker that serves a request
  Kinds,        \* the kinds of Revokes to consider
  Threshold,    \* account_lockout_threshold
  MaxRestarts,  \* worker restarts considered
  NoSession,    \* the sid of an access token without a session
  Scopes        \* what takes part in a behaviour: requests, and "reload"

Requests == Logins \cup Refreshes \cup Revokes

AllKinds == {"logout", "logout_all", "revoke", "others", "admin", "disable", "enable"}

ASSUME SessionsAssumption ==
  /\ IsFiniteSet(Logins) /\ Logins # {}
  /\ NoSession \notin Logins
  /\ Logins \cap Refreshes = {} /\ Logins \cap Revokes = {} /\ Refreshes \cap Revokes = {}
  /\ WorkerOf \in [Requests -> Workers]
  /\ Kinds \subseteq AllKinds
  /\ Threshold \in Nat \ {0}
  /\ MaxRestarts \in Nat
  /\ Scopes \subseteq SUBSET (Requests \cup {"reload"})

VARIABLES
  disabled,   \* users.disabled
  failed,     \* users.failed_login_attempts
  locked,     \* users.locked_until: unset, in the future, or past
  session,    \* the session document of each login
  unused,     \* refresh_tokens with used: false
  used,       \* refresh_tokens with used: true
  last,       \* number of refresh tokens each family was given so far
  held,       \* refresh tokens a client has received
  access,     \* the sid claims of the access tokens handed out
  cache,      \* _revoked_session_ids of each worker
  userCache,  \* workers with the user in _revoked_usernames
  load,       \* the reloads of the two caches under way, with what they read
  pc,         \* where each request is
  seen,       \* the user document a login has read: [disabled, failed]
  fam,        \* the family a refresh works on
  sid,        \* the session it found
  todo,       \* the steps left of a revocation
  hit,        \* the sessions it works on
  restarts,   \* restarts so far
  scope       \* the requests made, and whether the caches are reloaded

store == <<session, unused, used, last, held, access>>
account == <<disabled, failed, locked>>
caches == <<cache, userCache, load>>
local == <<pc, seen, fam, sid, todo, hit>>
fixed == <<restarts, scope>>
vars == <<account, store, caches, local, fixed>>

Loads == [kind : {"none"}] \cup [kind : {"sessions"}, read : SUBSET Logins]
                           \cup [kind : {"users"}, read : BOOLEAN]
Idle == [kind |-> "none"]

LoginSteps == {"idle", "count", "lock", "reset", "token", "session", "done", "refused", "gone"}
RefreshSteps == {"idle", "family", "lookup", "issue", "done", "refused", "gone"}
Steps == {"endOne", "find", "end", "family", "mark", "tokens",
          "disable", "enable", "markUser", "restoreUser"}

TypeOK ==
  /\ disabled \in BOOLEAN /\ failed \in Nat
  /\ locked \in {"unset", "future", "past"}
  /\ session \in [Logins -> {"none", "active", "revoked", "expired"}]
  /\ last \in [Logins -> Nat]
  /\ unused \subseteq Logins \X Nat /\ used \subseteq Logins \X Nat
  /\ held \subseteq Logins \X Nat
  /\ access \subseteq Logins \cup {NoSession}
  /\ cache \in [Workers -> SUBSET Logins] /\ userCache \subseteq Workers
  /\ load \in [Workers -> Loads]
  /\ pc \in [Requests -> LoginSteps \cup RefreshSteps \cup {"busy"}]
  /\ seen \in [Logins -> [disabled : BOOLEAN, failed : Nat]]
  /\ fam \in [Refreshes -> Logins] /\ sid \in [Refreshes -> Logins \cup {NoSession}]
  /\ todo \in [Revokes -> Seq(Steps)] /\ hit \in [Revokes -> SUBSET Logins]
  /\ restarts \in 0 .. MaxRestarts /\ scope \in Scopes

\* An account without sessions; earlier attempts may have failed, too few of
\* them to lock it.
Init ==
  /\ disabled = FALSE /\ failed \in 0 .. Threshold - 1 /\ locked = "unset"
  /\ session = [l \in Logins |-> "none"]
  /\ unused = {} /\ used = {} /\ held = {} /\ access = {}
  /\ last = [l \in Logins |-> 0]
  /\ cache = [w \in Workers |-> {}] /\ userCache = {}
  /\ load = [w \in Workers |-> Idle]
  /\ pc = [q \in Requests |-> "idle"]
  /\ seen = [l \in Logins |-> [disabled |-> FALSE, failed |-> 0]]
  /\ fam \in [Refreshes -> {CHOOSE l \in Logins : TRUE}]
  /\ sid = [r \in Refreshes |-> NoSession]
  /\ todo = [v \in Revokes |-> <<>>] /\ hit = [v \in Revokes |-> {}]
  /\ restarts = 0 /\ scope \in Scopes

Goto(q, step) == pc' = [pc EXCEPT ![q] = step]

\* get_current_user: what the middleware of a worker accepts.
Accepts(w, a) == w \notin userCache /\ a \notin cache[w]

-----------------------------------------------------------------------------
(* POST /login *)

\* A right password goes on to the tokens, unless the document that was read
\* says disabled (or the second factor is missing or wrong).
AfterPassword(l, doc) ==
  \/ ~doc.disabled /\ Goto(l, "token")
  \/ Goto(l, "refused")

\* find_one of the user, the lockout check and the password check.
Authenticate(l) ==
  LET doc == [disabled |-> disabled, failed |-> failed] IN
  /\ pc[l] = "idle" /\ l \in scope
  /\ seen' = [seen EXCEPT ![l] = doc]
  /\ \/ locked = "future" /\ Goto(l, "refused")
     \/ locked # "future" /\ Goto(l, "count")
     \/ locked # "future" /\ failed > 0 /\ Goto(l, "reset")
     \/ locked # "future" /\ failed = 0 /\ AfterPassword(l, doc)
  /\ UNCHANGED <<account, store, caches, fam, sid, todo, hit, fixed>>

\* Mutant: the count tested is the one before the increment.
CountTestsOld(l) ==
  /\ pc[l] = "count"
  /\ failed' = failed + 1
  /\ Goto(l, IF failed >= Threshold THEN "lock" ELSE "refused")
  /\ UNCHANGED <<disabled, locked, store, caches, seen, fam, sid, todo, hit, fixed>>

\* find_one_and_update {$inc: failed_login_attempts}, answer tested after it.
CountFailure(l) ==
  /\ pc[l] = "count"
  /\ failed' = failed + 1
  /\ Goto(l, IF failed' >= Threshold THEN "lock" ELSE "refused")
  /\ UNCHANGED <<disabled, locked, store, caches, seen, fam, sid, todo, hit, fixed>>

LockAccount(l) ==
  /\ pc[l] = "lock"
  /\ locked' = "future"
  /\ Goto(l, "refused")
  /\ UNCHANGED <<disabled, failed, store, caches, seen, fam, sid, todo, hit, fixed>>

ResetFailures(l) ==
  /\ pc[l] = "reset"
  /\ failed' = 0 /\ locked' = "unset"
  /\ AfterPassword(l, seen[l])
  /\ UNCHANGED <<disabled, store, caches, seen, fam, sid, todo, hit, fixed>>

\* create_refresh_token without a family: a new family.
FirstToken(l) ==
  /\ pc[l] = "token"
  /\ last' = [last EXCEPT ![l] = 1]
  /\ unused' = unused \cup {<<l, 1>>}
  /\ Goto(l, "session")
  /\ UNCHANGED <<account, session, used, held, access, caches, seen, fam, sid, todo, hit, fixed>>

\* create_session, and the answer with both tokens.
CreateSession(l) ==
  /\ pc[l] = "session"
  /\ session' = [session EXCEPT ![l] = "active"]
  /\ access' = access \cup {l}
  /\ held' = held \cup {<<l, 1>>}
  /\ Goto(l, "done")
  /\ UNCHANGED <<account, unused, used, last, caches, seen, fam, sid, todo, hit, fixed>>

\* locked_until passes; the count of failures stays.
LockExpires ==
  /\ locked = "future"
  /\ locked' = "past"
  /\ UNCHANGED <<disabled, failed, store, caches, local, fixed>>

-----------------------------------------------------------------------------
(* POST /refresh: rotate_refresh_token *)

\* Mutant: find_one, then update_one: a used token is taken once more.
TakeAgain(r) ==
  \E t \in held :
    /\ pc[r] = "idle" /\ r \in scope
    /\ fam' = [fam EXCEPT ![r] = t[1]]
    /\ unused' = unused \ {t}
    /\ used' = used \cup (unused \cap {t})
    /\ Goto(r, IF t \in unused \cup used THEN "lookup" ELSE "family")
    /\ UNCHANGED <<account, session, last, held, access, caches, seen, sid, todo, hit, fixed>>

\* Mutant: only a used token is refused, one that is not stored goes on.
TakeUnknown(r) ==
  \E t \in held :
    /\ pc[r] = "idle" /\ r \in scope
    /\ fam' = [fam EXCEPT ![r] = t[1]]
    /\ unused' = unused \ {t}
    /\ used' = used \cup (unused \cap {t})
    /\ Goto(r, IF t \notin used THEN "lookup" ELSE "family")
    /\ UNCHANGED <<account, session, last, held, access, caches, seen, sid, todo, hit, fixed>>

\* find_one_and_update {token_id, used: false} -> used: true.  A client may
\* present any token it ever received.
TakeToken(r) ==
  \E t \in held :
    /\ pc[r] = "idle" /\ r \in scope
    /\ fam' = [fam EXCEPT ![r] = t[1]]
    /\ unused' = unused \ {t}
    /\ used' = used \cup (unused \cap {t})
    /\ Goto(r, IF t \in unused THEN "lookup" ELSE "family")
    /\ UNCHANGED <<account, session, last, held, access, caches, seen, sid, todo, hit, fixed>>

OfFamilies(F) == {t \in unused \cup used : t[1] \in F}

\* The token is unknown or was used before: the whole family goes.
ReuseDetected(r) ==
  /\ pc[r] = "family"
  /\ unused' = unused \ OfFamilies({fam[r]})
  /\ used' = used \ OfFamilies({fam[r]})
  /\ Goto(r, "refused")
  /\ UNCHANGED <<account, session, last, held, access, caches, seen, fam, sid, todo, hit, fixed>>

LookupSession(r) ==
  /\ pc[r] = "lookup"
  /\ sid' = [sid EXCEPT ![r] = IF session[fam[r]] = "active" THEN fam[r] ELSE NoSession]
  /\ Goto(r, "issue")
  /\ UNCHANGED <<account, store, caches, seen, fam, todo, hit, fixed>>

\* create_refresh_token in the same family, and the answer.
IssuePair(r) ==
  LET t == <<fam[r], last[fam[r]] + 1>> IN
  /\ pc[r] = "issue"
  /\ last' = [last EXCEPT ![fam[r]] = @ + 1]
  /\ unused' = unused \cup {t}
  /\ held' = held \cup {t}
  /\ access' = access \cup {sid[r]}
  /\ Goto(r, "done")
  /\ UNCHANGED <<account, session, used, caches, seen, fam, sid, todo, hit, fixed>>

-----------------------------------------------------------------------------
(* Revocation: the handlers of logout, logout/all, sessions, admin/sessions, *)
(* change-password and of the account's status are sequences of these steps. *)

Plan(kind) ==
  CASE kind = "logout"     -> <<"endOne", "family", "mark", "family">>
    [] kind = "revoke"     -> <<"endOne", "family", "mark">>
    [] kind = "logout_all" -> <<"tokens", "find", "end", "family", "mark">>
    [] kind = "others"     -> <<"find", "end", "family", "mark">>
    [] kind = "admin"      -> <<"find", "end", "family", "mark", "tokens">>
    [] kind = "disable"    -> <<"disable", "tokens", "find", "end", "family", "mark", "markUser">>
    [] kind = "enable"     -> <<"enable", "restoreUser">>

\* "revoke", "others" (also change-password) and "logout_all" need an access
\* token of the user, "logout" a refresh token; the rest is an admin's.
\* hit holds the session to end, or first the session to keep.
Begin(v) ==
  \E kind \in Kinds :
    /\ pc[v] = "idle" /\ v \in scope
    /\ \/ /\ kind = "logout"
          /\ \E t \in held : hit' = [hit EXCEPT ![v] = {t[1]}]
       \/ /\ kind = "revoke"
          /\ \E a \in access : Accepts(WorkerOf[v], a)
          /\ \E l \in Logins : session[l] # "none" /\ hit' = [hit EXCEPT ![v] = {l}]
       \/ /\ kind \in {"others", "logout_all"}
          /\ \E a \in access :
               /\ Accepts(WorkerOf[v], a)
               /\ hit' = [hit EXCEPT ![v] = IF kind = "others" THEN {a} \ {NoSession} ELSE {}]
       \/ /\ kind \in {"admin", "disable", "enable"}
          /\ UNCHANGED hit
    /\ todo' = [todo EXCEPT ![v] = Plan(kind)]
    /\ Goto(v, "busy")
    /\ UNCHANGED <<account, store, caches, seen, fam, sid, fixed>>

\* The next step of v is `step`, and is taken.
Do(v, step) ==
  /\ pc[v] = "busy" /\ todo[v] # <<>> /\ Head(todo[v]) = step
  /\ todo' = [todo EXCEPT ![v] = Tail(@)]
  /\ Goto(v, IF Len(todo[v]) = 1 THEN "done" ELSE "busy")

\* revoke_session: find_one_and_update {session_id, is_active: true}; nothing
\* more of revoke_session is done when that finds nothing.
EndOne(v) ==
  /\ pc[v] = "busy" /\ todo[v] # <<>> /\ Head(todo[v]) = "endOne"
  /\ LET active == \A l \in hit[v] : session[l] = "active"
         rest == IF active THEN Tail(todo[v]) ELSE SubSeq(todo[v], 4, Len(todo[v]))
     IN /\ todo' = [todo EXCEPT ![v] = rest]
        /\ Goto(v, IF rest = <<>> THEN "done" ELSE "busy")
        /\ session' = [l \in Logins |-> IF active /\ l \in hit[v] THEN "revoked" ELSE session[l]]
  /\ UNCHANGED <<account, unused, used, last, held, access, caches, seen, fam, sid, hit, fixed>>

\* revoke_all_user_sessions: the ids are collected first.
FindSessions(v) ==
  /\ Do(v, "find")
  /\ hit' = [hit EXCEPT ![v] = {l \in Logins : session[l] = "active"} \ @]
  /\ UNCHANGED <<account, store, caches, seen, fam, sid, fixed>>

EndFound(v) ==
  /\ Do(v, "end")
  /\ session' = [l \in Logins |-> IF l \in hit[v] /\ session[l] \in {"active", "revoked"}
                                  THEN "revoked" ELSE session[l]]
  /\ UNCHANGED <<account, unused, used, last, held, access, caches, seen, fam, sid, hit, fixed>>

DeleteFamilies(v) ==
  /\ Do(v, "family")
  /\ unused' = unused \ OfFamilies(hit[v])
  /\ used' = used \ OfFamilies(hit[v])
  /\ UNCHANGED <<account, session, last, held, access, caches, seen, fam, sid, hit, fixed>>

\* mark_session_revoked(s): the cache of this worker.
MarkSessions(v) ==
  /\ Do(v, "mark")
  /\ cache' = [cache EXCEPT ![WorkerOf[v]] = @ \cup hit[v]]
  /\ UNCHANGED <<account, store, userCache, load, seen, fam, sid, hit, fixed>>

\* revoke_user_tokens: every token of the user.
DeleteUserTokens(v) ==
  /\ Do(v, "tokens")
  /\ unused' = {} /\ used' = {}
  /\ UNCHANGED <<account, session, last, held, access, caches, seen, fam, sid, hit, fixed>>

SetDisabled(v) ==
  /\ \/ Do(v, "disable") /\ disabled' = TRUE
     \/ Do(v, "enable") /\ disabled' = FALSE
  /\ UNCHANGED <<failed, locked, store, caches, seen, fam, sid, hit, fixed>>

\* mark_user_revoked and mark_user_restored.
MarkUser(v) ==
  /\ \/ Do(v, "markUser") /\ userCache' = userCache \cup {WorkerOf[v]}
     \/ Do(v, "restoreUser") /\ userCache' = userCache \ {WorkerOf[v]}
  /\ UNCHANGED <<account, store, cache, load, seen, fam, sid, hit, fixed>>

\* The TTL index on sessions.expires_at.
SessionExpires(l) ==
  /\ session[l] = "active"
  /\ session' = [session EXCEPT ![l] = "expired"]
  /\ UNCHANGED <<account, unused, used, last, held, access, caches, local, fixed>>

-----------------------------------------------------------------------------
(* The reload loops of the caches and the restart of a worker *)

Revoked == {l \in Logins : session[l] = "revoked"}

ReadSessions(w) ==
  /\ load[w] = Idle /\ "reload" \in scope
  /\ load' = [load EXCEPT ![w] = [kind |-> "sessions", read |-> Revoked]]
  /\ UNCHANGED <<account, store, cache, userCache, local, fixed>>

\* The set is replaced by what was read, whatever was marked meanwhile.
StoreSessions(w) ==
  /\ load[w].kind = "sessions"
  /\ cache' = [cache EXCEPT ![w] = load[w].read]
  /\ load' = [load EXCEPT ![w] = Idle]
  /\ UNCHANGED <<account, store, userCache, local, fixed>>

ReadUsers(w) ==
  /\ load[w] = Idle /\ "reload" \in scope
  /\ load' = [load EXCEPT ![w] = [kind |-> "users", read |-> disabled]]
  /\ UNCHANGED <<account, store, cache, userCache, local, fixed>>

\* Mutant: a reload only adds to the set.
StoreUsersAdds(w) ==
  /\ load[w].kind = "users"
  /\ userCache' = IF load[w].read THEN userCache \cup {w} ELSE userCache
  /\ load' = [load EXCEPT ![w] = Idle]
  /\ UNCHANGED <<account, store, cache, local, fixed>>

StoreUsers(w) ==
  /\ load[w].kind = "users"
  /\ userCache' = IF load[w].read THEN userCache \cup {w} ELSE userCache \ {w}
  /\ load' = [load EXCEPT ![w] = Idle]
  /\ UNCHANGED <<account, store, cache, local, fixed>>

\* The worker dies and starts again: its requests are gone, its caches empty.
Restart(w) ==
  /\ restarts < MaxRestarts
  /\ restarts' = restarts + 1
  /\ pc' = [q \in Requests |-> IF WorkerOf[q] = w /\ pc[q] \notin {"idle", "done", "refused"}
                               THEN "gone" ELSE pc[q]]
  /\ cache' = [cache EXCEPT ![w] = {}]
  /\ userCache' = userCache \ {w}
  /\ load' = [load EXCEPT ![w] = Idle]
  /\ UNCHANGED <<account, store, seen, fam, sid, todo, hit, scope>>

-----------------------------------------------------------------------------
Next ==
  \/ \E l \in Logins : \/ Authenticate(l) \/ CountFailure(l) \/ LockAccount(l)
                       \/ ResetFailures(l) \/ FirstToken(l) \/ CreateSession(l)
                       \/ SessionExpires(l)
  \/ LockExpires
  \/ \E r \in Refreshes : \/ TakeToken(r) \/ ReuseDetected(r)
                          \/ LookupSession(r) \/ IssuePair(r)
  \/ \E v \in Revokes : \/ Begin(v) \/ EndOne(v) \/ FindSessions(v) \/ EndFound(v)
                        \/ DeleteFamilies(v) \/ MarkSessions(v) \/ DeleteUserTokens(v)
                        \/ SetDisabled(v) \/ MarkUser(v)
  \/ \E w \in Workers : \/ ReadSessions(w) \/ StoreSessions(w)
                        \/ ReadUsers(w) \/ StoreUsers(w) \/ Restart(w)

Spec == Init /\ [][Next]_vars

\* The two loops of a worker run for as long as it does; each is asked to
\* come around again and again, although the other one may be under way.
FairSpec ==
  /\ Spec
  /\ \A w \in Workers : /\ SF_vars(ReadSessions(w)) /\ WF_vars(StoreSessions(w))
                        /\ SF_vars(ReadUsers(w)) /\ WF_vars(StoreUsers(w))

-----------------------------------------------------------------------------
\* At any time at most one refresh token of a family can still be exchanged,
\* however many requests present whichever of its tokens: a login is carried
\* on by one chain of tokens (rotate_refresh_token).
OneUnusedToken ==
  \A s, t \in unused : s[1] = t[1] => s = t

\* The session of f has ended, its tokens are gone and no exchange of one is
\* under way.
Closed(f) ==
  /\ session[f] \in {"revoked", "expired"}
  /\ \A t \in unused : t[1] # f
  /\ \A r \in Refreshes : pc[r] \in {"lookup", "issue"} => fam[r] # f

\* A session that has ended with its tokens is not revived by any order of
\* the requests that follow: no token of its family is ever issued again.
ClosedStaysClosed == [][\A f \in Logins : Closed(f) => Closed(f)']_vars

\* Each attempt that reaches the threshold locks the account, whatever runs
\* beside it.  Only the death of a worker between counting an attempt and
\* setting locked_until costs a lock, and then the next failure sets it.
ThresholdLocks ==
  failed >= Threshold + Cardinality({l \in Logins : pc[l] = "gone"})
    => \/ locked # "unset"
       \/ \E l \in Logins : pc[l] = "lock"

\* Whatever marks a reload overwrites and whatever dies half-way through a
\* revocation, in the end every worker refuses exactly the revoked sessions
\* and refuses the user exactly if the account is disabled.
CachesConverge ==
  "reload" \in scope => <>[]\A w \in Workers : /\ cache[w] = Revoked
                                              /\ w \in userCache <=> disabled
=============================================================================
