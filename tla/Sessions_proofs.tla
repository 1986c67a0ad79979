--------------------------- MODULE Sessions_proofs ---------------------------
(***************************************************************************)
(* What Sessions promises for any number of workers, logins, refreshes and *)
(* revocations, any threshold of the lockout and any number of restarts.   *)
(***************************************************************************)
EXTENDS Sessions, FiniteSetTheorems, SequenceTheorems, TLAPS

\* Every request is of one kind.
LEMMA KindsOfRequests ==
  /\ Logins \subseteq Requests /\ Refreshes \subseteq Requests /\ Revokes \subseteq Requests
  /\ \A l \in Logins : l \notin Refreshes /\ l \notin Revokes
  /\ \A r \in Refreshes : r \notin Revokes
  BY SessionsAssumption DEF Requests

LEMMA PlanType == \A kind \in AllKinds : Plan(kind) \in Seq(Steps)
<1> USE DEF Plan, Steps
<1>1. Plan("logout") \in Seq(Steps) /\ Plan("revoke") \in Seq(Steps)
  OBVIOUS
<1>2. Plan("logout_all") \in Seq(Steps) /\ Plan("others") \in Seq(Steps)
  OBVIOUS
<1>3. Plan("admin") \in Seq(Steps) /\ Plan("disable") \in Seq(Steps)
  OBVIOUS
<1>4. Plan("enable") \in Seq(Steps)
  OBVIOUS
<1> QED
  <2> HIDE DEF Plan, Steps
  <2> QED BY <1>1, <1>2, <1>3, <1>4 DEF AllKinds

\* What is left of a revocation after one step.
LEMMA TodoType ==
  ASSUME TypeOK, NEW v \in Revokes, todo[v] # <<>>
  PROVE  /\ Tail(todo[v]) \in Seq(Steps)
         /\ SubSeq(todo[v], 4, Len(todo[v])) \in Seq(Steps)
<1>1. todo[v] \in Seq(Steps)
  BY DEF TypeOK
<1> QED BY <1>1

LEMMA DoType ==
  ASSUME TypeOK, NEW v \in Revokes, NEW step, Do(v, step)
  PROVE  /\ todo' \in [Revokes -> Seq(Steps)]
         /\ pc' \in [Requests -> LoginSteps \cup RefreshSteps \cup {"busy"}]
<1>1. Tail(todo[v]) \in Seq(Steps)
  BY TodoType DEF Do
<1> QED BY <1>1, KindsOfRequests DEF Do, Goto, TypeOK, LoginSteps

LEMMA TypeInit == Init => TypeOK
<1> SUFFICES ASSUME Init PROVE TypeOK
  OBVIOUS
<1>1. (CHOOSE l \in Logins : TRUE) \in Logins
  BY SessionsAssumption
<1>2. fam \in [Refreshes -> Logins]
  BY <1>1 DEF Init
<1>3. load \in [Workers -> Loads]
  BY DEF Init, Loads, Idle
<1>4. todo \in [Revokes -> Seq(Steps)]
  BY DEF Init
<1>5. pc \in [Requests -> LoginSteps \cup RefreshSteps \cup {"busy"}]
  BY DEF Init, LoginSteps
<1>6. failed \in Nat /\ restarts \in 0 .. MaxRestarts
  BY SessionsAssumption DEF Init
<1> QED BY <1>2, <1>3, <1>4, <1>5, <1>6 DEF Init, TypeOK

LEMMA TypeStep == TypeOK /\ [Next]_vars => TypeOK'
<1> SUFFICES ASSUME TypeOK, [Next]_vars PROVE TypeOK'
  OBVIOUS
<1> USE SessionsAssumption, KindsOfRequests
<1> DEFINE PCs == LoginSteps \cup RefreshSteps \cup {"busy"}
<1>g. ASSUME NEW q \in Requests, NEW step \in PCs, Goto(q, step)
      PROVE  pc' \in [Requests -> PCs]
  BY <1>g DEF Goto, TypeOK
<1>0. CASE UNCHANGED vars
  BY <1>0 DEF TypeOK, vars, account, store, caches, local, fixed
<1>1. ASSUME NEW l \in Logins,
             \/ Authenticate(l) \/ CountFailure(l) \/ LockAccount(l)
             \/ ResetFailures(l) \/ FirstToken(l) \/ CreateSession(l) \/ SessionExpires(l)
      PROVE  TypeOK'
  <2>0. \A step \in {"count", "lock", "reset", "token", "session", "done", "refused"} :
          Goto(l, step) => pc' \in [Requests -> PCs]
    BY <1>g DEF LoginSteps
  <2>1. CASE Authenticate(l)
    <3>1. pc' \in [Requests -> PCs]
      BY <2>0, <2>1 DEF Authenticate, AfterPassword
    <3> QED BY <2>1, <3>1 DEF Authenticate, TypeOK, account, store, caches, fixed
  <2>2. CASE CountFailure(l)
    <3>1. pc' \in [Requests -> PCs]
      BY <2>0, <2>2 DEF CountFailure
    <3> QED BY <2>2, <3>1 DEF CountFailure, TypeOK, store, caches, fixed
  <2>3. CASE LockAccount(l)
    <3>1. pc' \in [Requests -> PCs]
      BY <2>0, <2>3 DEF LockAccount
    <3> QED BY <2>3, <3>1 DEF LockAccount, TypeOK, store, caches, fixed
  <2>4. CASE ResetFailures(l)
    <3>1. pc' \in [Requests -> PCs]
      BY <2>0, <2>4 DEF ResetFailures, AfterPassword
    <3> QED BY <2>4, <3>1 DEF ResetFailures, TypeOK, store, caches, fixed
  <2>5. CASE FirstToken(l)
    <3>1. pc' \in [Requests -> PCs]
      BY <2>0, <2>5 DEF FirstToken
    <3> QED BY <2>5, <3>1 DEF FirstToken, TypeOK, account, caches, fixed
  <2>6. CASE CreateSession(l)
    <3>1. pc' \in [Requests -> PCs]
      BY <2>0, <2>6 DEF CreateSession
    <3> QED BY <2>6, <3>1 DEF CreateSession, TypeOK, account, caches, fixed
  <2>7. CASE SessionExpires(l)
    BY <2>7 DEF SessionExpires, TypeOK, account, caches, local, fixed
  <2> QED BY <1>1, <2>1, <2>2, <2>3, <2>4, <2>5, <2>6, <2>7
<1>2. CASE LockExpires
  BY <1>2 DEF LockExpires, TypeOK, store, caches, local, fixed
<1>3. ASSUME NEW r \in Refreshes,
             TakeToken(r) \/ ReuseDetected(r) \/ LookupSession(r) \/ IssuePair(r)
      PROVE  TypeOK'
  <2>0. \A step \in {"family", "lookup", "issue", "done", "refused"} :
          Goto(r, step) => pc' \in [Requests -> PCs]
    BY <1>g DEF RefreshSteps
  <2>1. CASE TakeToken(r)
    <3>1. pc' \in [Requests -> PCs]
      BY <2>0, <2>1 DEF TakeToken
    <3>2. fam' \in [Refreshes -> Logins]
      BY <2>1 DEF TakeToken, TypeOK
    <3> QED BY <2>1, <3>1, <3>2 DEF TakeToken, TypeOK, account, caches, fixed
  <2>2. CASE ReuseDetected(r)
    <3>1. pc' \in [Requests -> PCs]
      BY <2>0, <2>2 DEF ReuseDetected
    <3> QED BY <2>2, <3>1 DEF ReuseDetected, TypeOK, account, caches, fixed
  <2>3. CASE LookupSession(r)
    <3>1. pc' \in [Requests -> PCs]
      BY <2>0, <2>3 DEF LookupSession
    <3> QED BY <2>3, <3>1 DEF LookupSession, TypeOK, account, store, caches, fixed
  <2>4. CASE IssuePair(r)
    <3>1. pc' \in [Requests -> PCs]
      BY <2>0, <2>4 DEF IssuePair
    <3>2. <<fam[r], last[fam[r]] + 1>> \in Logins \X Nat
      BY DEF TypeOK
    <3> QED BY <2>4, <3>1, <3>2, SMTT(20) DEF IssuePair, TypeOK, account, caches, fixed
  <2> QED BY <1>3, <2>1, <2>2, <2>3, <2>4
<1>4. ASSUME NEW v \in Revokes,
             \/ Begin(v) \/ EndOne(v) \/ FindSessions(v) \/ EndFound(v) \/ DeleteFamilies(v)
             \/ MarkSessions(v) \/ DeleteUserTokens(v) \/ SetDisabled(v) \/ MarkUser(v)
      PROVE  TypeOK'
  <2>0. WorkerOf[v] \in Workers
    OBVIOUS
  <2>1. CASE Begin(v)
    <3>1. pc' \in [Requests -> PCs]
      BY <1>g, <2>1 DEF Begin
    <3>2. todo' \in [Revokes -> Seq(Steps)]
      BY <2>1, PlanType DEF Begin, TypeOK
    <3>3. hit' \in [Revokes -> SUBSET Logins]
      BY <2>1 DEF Begin, TypeOK
    <3> QED BY <2>1, <3>1, <3>2, <3>3 DEF Begin, TypeOK, account, store, caches, fixed
  <2>2. CASE EndOne(v)
    <3>1. pc' \in [Requests -> PCs]
      BY <1>g, <2>2 DEF EndOne, LoginSteps
    <3>2. todo' \in [Revokes -> Seq(Steps)]
      BY <2>2, TodoType DEF EndOne, TypeOK
    <3>3. session' \in [Logins -> {"none", "active", "revoked", "expired"}]
      BY <2>2 DEF EndOne, TypeOK
    <3> QED BY <2>2, <3>1, <3>2, <3>3 DEF EndOne, TypeOK, account, caches, fixed
  <2>3. CASE FindSessions(v)
    BY <2>3, DoType DEF FindSessions, TypeOK, account, store, caches, fixed
  <2>4. CASE EndFound(v)
    BY <2>4, DoType DEF EndFound, TypeOK, account, caches, fixed
  <2>5. CASE DeleteFamilies(v)
    BY <2>5, DoType DEF DeleteFamilies, TypeOK, account, caches, fixed
  <2>6. CASE MarkSessions(v)
    BY <2>0, <2>6, DoType DEF MarkSessions, TypeOK, account, store, fixed
  <2>7. CASE DeleteUserTokens(v)
    BY <2>7, DoType DEF DeleteUserTokens, TypeOK, account, caches, fixed
  <2>8. CASE SetDisabled(v)
    BY <2>8, DoType DEF SetDisabled, TypeOK, store, caches, fixed
  <2>9. CASE MarkUser(v)
    BY <2>0, <2>9, DoType DEF MarkUser, TypeOK, account, store, fixed
  <2> QED BY <1>4, <2>1, <2>2, <2>3, <2>4, <2>5, <2>6, <2>7, <2>8, <2>9
<1>5. ASSUME NEW w \in Workers,
             ReadSessions(w) \/ StoreSessions(w) \/ ReadUsers(w) \/ StoreUsers(w)
      PROVE  TypeOK'
  <2>1. load' \in [Workers -> Loads]
    <3>1. \A x \in Loads : load' = [load EXCEPT ![w] = x] => load' \in [Workers -> Loads]
      BY DEF TypeOK
    <3>2. Idle \in Loads
      BY DEF Idle, Loads
    <3>3. [kind |-> "sessions", read |-> Revoked] \in Loads
      BY DEF Loads, Revoked
    <3>4. [kind |-> "users", read |-> disabled] \in Loads
      BY DEF Loads, TypeOK
    <3> QED BY <1>5, <3>1, <3>2, <3>3, <3>4
            DEF ReadSessions, StoreSessions, ReadUsers, StoreUsers
  <2>2. cache' \in [Workers -> SUBSET Logins] /\ userCache' \subseteq Workers
    BY <1>5 DEF ReadSessions, StoreSessions, ReadUsers, StoreUsers, TypeOK, Loads
  <2> QED BY <1>5, <2>1, <2>2 DEF ReadSessions, StoreSessions, ReadUsers, StoreUsers, TypeOK,
                                  account, store, local, fixed
<1>6. ASSUME NEW w \in Workers, Restart(w) PROVE TypeOK'
  <2>1. load' \in [Workers -> Loads]
    BY <1>6 DEF Restart, TypeOK, Loads, Idle
  <2>2. pc' \in [Requests -> PCs]
    BY <1>6 DEF Restart, TypeOK, LoginSteps
  <2> QED BY <1>6, <2>1, <2>2 DEF Restart, TypeOK, account, store
<1> QED BY <1>0, <1>1, <1>2, <1>3, <1>4, <1>5, <1>6 DEF Next

\* Every variable keeps its type.
THEOREM TypeCorrect == Spec => []TypeOK
  BY TypeInit, TypeStep, PTL DEF Spec

-----------------------------------------------------------------------------
(* One chain of tokens per login *)

\* A refresh that has taken a token of f and not yet issued its successor.
Exchanges(r, f) == pc[r] \in {"lookup", "issue"} /\ fam[r] = f

BeforeToken == {"idle", "count", "lock", "reset", "token"}

\* The right to issue the next token of a family is in one place: it is an
\* unused token, a refresh that has taken one, or the login before its first.
OneChain ==
  /\ OneUnusedToken
  /\ \A r \in Refreshes, t \in unused : ~Exchanges(r, t[1])
  /\ \A q, r \in Refreshes, f \in Logins : Exchanges(q, f) /\ Exchanges(r, f) => q = r
  /\ \A l \in Logins : pc[l] \in BeforeToken =>
       (\A t \in unused : t[1] # l) /\ (\A r \in Refreshes : ~Exchanges(r, l))

ChainInv == TypeOK /\ OneChain

\* A step that adds no token and starts no exchange keeps the chains.
LEMMA ChainKept ==
  ASSUME ChainInv, TypeOK', unused' \subseteq unused,
         \A r \in Refreshes, f \in Logins : Exchanges(r, f)' => Exchanges(r, f),
         \A l \in Logins : pc'[l] \in BeforeToken => pc[l] \in BeforeToken
  PROVE  OneChain'
<1>1. \A t \in unused : t \in Logins \X Nat /\ t[1] \in Logins
  BY DEF ChainInv, TypeOK
<1> QED BY <1>1 DEF ChainInv, OneChain, OneUnusedToken

LEMMA ChainStep == ChainInv /\ [Next]_vars => ChainInv'
<1> SUFFICES ASSUME ChainInv, [Next]_vars PROVE OneChain'
  BY TypeStep DEF ChainInv
<1>t. TypeOK /\ TypeOK'
  BY TypeStep DEF ChainInv
<1> USE <1>t, KindsOfRequests
<1>0. CASE UNCHANGED vars
  BY <1>0, ChainKept DEF vars, store, local, Exchanges
<1>1. ASSUME NEW l \in Logins,
             \/ Authenticate(l) \/ CountFailure(l) \/ LockAccount(l)
             \/ ResetFailures(l) \/ FirstToken(l) \/ CreateSession(l) \/ SessionExpires(l)
      PROVE  OneChain'
  <2>0. ASSUME fam' = fam, \A q \in Requests : q # l => pc'[q] = pc[q]
        PROVE  \A r \in Refreshes, f \in Logins : Exchanges(r, f)' = Exchanges(r, f)
    BY <2>0 DEF Exchanges
  <2>1. CASE \/ Authenticate(l) \/ CountFailure(l) \/ LockAccount(l)
             \/ ResetFailures(l) \/ CreateSession(l) \/ SessionExpires(l)
    <3>1. UNCHANGED <<unused, fam>>
      BY <2>1 DEF Authenticate, CountFailure, LockAccount, ResetFailures, CreateSession,
                  SessionExpires, store, local
    <3>2. \A q \in Requests : q # l => pc'[q] = pc[q]
      BY <2>1 DEF Authenticate, CountFailure, LockAccount, ResetFailures, CreateSession,
                  SessionExpires, local, AfterPassword, Goto, TypeOK
    <3>3. pc'[l] \in BeforeToken => pc[l] \in BeforeToken
      BY <2>1 DEF Authenticate, CountFailure, LockAccount, ResetFailures, CreateSession,
                  SessionExpires, local, AfterPassword, Goto, TypeOK, BeforeToken
    <3> QED BY <2>0, <3>1, <3>2, <3>3, ChainKept
  <2>2. CASE FirstToken(l)
    <3>1. /\ pc[l] = "token" /\ pc'[l] = "session"
          /\ \A q \in Requests : q # l => pc'[q] = pc[q]
      BY <2>2 DEF FirstToken, Goto, TypeOK
    <3>2. unused' = unused \cup {<<l, 1>>} /\ UNCHANGED fam
      BY <2>2 DEF FirstToken
    <3>3. (\A t \in unused : t[1] # l) /\ (\A r \in Refreshes : ~Exchanges(r, l))
      BY <3>1 DEF ChainInv, OneChain, BeforeToken
    <3>4. \A t \in unused' : t = <<l, 1>> \/ t \in unused
      BY <3>2
    <3>5. \A r \in Refreshes, f \in Logins : Exchanges(r, f)' = Exchanges(r, f)
      BY <2>0, <3>1, <3>2
    <3>6. \A t \in unused : t[1] \in Logins
      BY DEF TypeOK
    <3>7. /\ OneUnusedToken'
          /\ \A r \in Refreshes, t \in unused' : ~Exchanges(r, t[1])'
      BY <3>3, <3>4, <3>5, <3>6 DEF ChainInv, OneChain, OneUnusedToken
    <3> QED BY <3>1, <3>3, <3>4, <3>5, <3>6, <3>7 DEF ChainInv, OneChain, BeforeToken
  <2> QED BY <1>1, <2>1, <2>2
<1>2. CASE LockExpires
  BY <1>2, ChainKept DEF LockExpires, store, local, Exchanges
<1>3. ASSUME NEW r \in Refreshes,
             TakeToken(r) \/ ReuseDetected(r) \/ LookupSession(r) \/ IssuePair(r)
      PROVE  OneChain'
  <2>0. \A l \in Logins : pc'[l] = pc[l]
    BY <1>3 DEF TakeToken, ReuseDetected, LookupSession, IssuePair, Goto, TypeOK
  <2>1. CASE TakeToken(r)
    <3>1. PICK t \in held :
            /\ pc[r] = "idle" /\ fam' = [fam EXCEPT ![r] = t[1]]
            /\ unused' = unused \ {t}
            /\ Goto(r, IF t \in unused THEN "lookup" ELSE "family")
      BY <2>1 DEF TakeToken
    <3>2. \A q \in Refreshes, f \in Logins : q # r => Exchanges(q, f)' = Exchanges(q, f)
      BY <3>1 DEF Exchanges, Goto, TypeOK
    <3>3. CASE t \in unused
      <4>1. \A f \in Logins : Exchanges(r, f)' => f = t[1]
        BY <3>1 DEF Exchanges, TypeOK
      <4>2. \A s \in unused' : s[1] # t[1] /\ s[1] \in Logins
        BY <3>1, <3>3 DEF ChainInv, OneChain, OneUnusedToken, TypeOK
      <4>3. \A q \in Refreshes : ~Exchanges(q, t[1])
        BY <3>3 DEF ChainInv, OneChain
      <4>4. \A l \in Logins : pc[l] \in BeforeToken => l # t[1]
        BY <3>3 DEF ChainInv, OneChain
      <4>5. unused' \subseteq unused
        BY <3>1
      <4> QED BY <2>0, <3>2, <4>1, <4>2, <4>3, <4>4, <4>5
              DEF ChainInv, OneChain, OneUnusedToken
    <3>4. CASE t \notin unused
      <4>1. \A f \in Logins : ~Exchanges(r, f)'
        BY <3>1, <3>4 DEF Exchanges, Goto, TypeOK
      <4> QED BY <2>0, <3>1, <3>2, <4>1, ChainKept
    <3> QED BY <3>3, <3>4
  <2>2. CASE ReuseDetected(r)
    <3>1. /\ unused' \subseteq unused /\ UNCHANGED fam
          /\ pc' = [pc EXCEPT ![r] = "refused"]
      BY <2>2 DEF ReuseDetected, Goto
    <3>2. \A q \in Refreshes, f \in Logins : Exchanges(q, f)' => Exchanges(q, f)
      BY <3>1 DEF Exchanges, TypeOK
    <3> QED BY <2>0, <3>1, <3>2, ChainKept
  <2>3. CASE LookupSession(r)
    <3>1. /\ UNCHANGED <<unused, fam>> /\ pc[r] = "lookup"
          /\ pc' = [pc EXCEPT ![r] = "issue"]
      BY <2>3 DEF LookupSession, Goto, store
    <3>2. \A q \in Refreshes, f \in Logins : Exchanges(q, f)' => Exchanges(q, f)
      BY <3>1 DEF Exchanges, TypeOK
    <3> QED BY <2>0, <3>1, <3>2, ChainKept
  <2>4. CASE IssuePair(r)
    <3> PICK f \in Logins : f = fam[r]
      BY DEF TypeOK
    <3> PICK t : t = <<f, last[f] + 1>>
      OBVIOUS
    <3>1. /\ pc[r] = "issue" /\ UNCHANGED fam
          /\ pc' = [pc EXCEPT ![r] = "done"]
          /\ unused' = unused \cup {t}
      BY <2>4 DEF IssuePair, Goto
    <3>2. Exchanges(r, f) /\ t[1] = f
      BY <3>1 DEF Exchanges, TypeOK
    <3>3. \A s \in unused : s[1] # f
      BY <3>2 DEF ChainInv, OneChain
    <3>4. /\ \A q \in Refreshes : ~Exchanges(q, f)'
          /\ \A q \in Refreshes, g \in Logins : Exchanges(q, g)' => Exchanges(q, g)
      BY <3>1, <3>2 DEF ChainInv, OneChain, Exchanges, TypeOK
    <3>5. \A l \in Logins : pc[l] \in BeforeToken => l # f
      BY <3>2 DEF ChainInv, OneChain
    <3>6. \A s \in unused' : s = t \/ s \in unused
      BY <3>1
    <3>7. \A s \in unused : s[1] \in Logins
      BY DEF TypeOK
    <3>8. OneUnusedToken'
      BY <3>2, <3>3, <3>6 DEF ChainInv, OneChain, OneUnusedToken
    <3>9. \A q \in Refreshes, s \in unused' : ~Exchanges(q, s[1])'
      <4> SUFFICES ASSUME NEW q \in Refreshes, NEW s \in unused', Exchanges(q, s[1])'
                   PROVE  FALSE
        OBVIOUS
      <4>1. s[1] # f
        BY <3>4
      <4>2. s \in unused
        BY <3>2, <3>6, <4>1
      <4>3. Exchanges(q, s[1])
        BY <3>4, <3>7, <4>2
      <4> QED BY <4>2, <4>3 DEF ChainInv, OneChain
    <3>10. \A l \in Logins : pc'[l] \in BeforeToken =>
             (\A s \in unused' : s[1] # l) /\ (\A q \in Refreshes : ~Exchanges(q, l)')
      BY <2>0, <3>2, <3>4, <3>5, <3>6 DEF ChainInv, OneChain
    <3> QED BY <3>4, <3>8, <3>9, <3>10 DEF ChainInv, OneChain
  <2> QED BY <1>3, <2>1, <2>2, <2>3, <2>4
<1>4. ASSUME NEW v \in Revokes,
             \/ Begin(v) \/ EndOne(v) \/ FindSessions(v) \/ EndFound(v) \/ DeleteFamilies(v)
             \/ MarkSessions(v) \/ DeleteUserTokens(v) \/ SetDisabled(v) \/ MarkUser(v)
      PROVE  OneChain'
  <2>1. unused' \subseteq unused /\ UNCHANGED fam
    BY <1>4 DEF Begin, EndOne, FindSessions, EndFound, DeleteFamilies, MarkSessions,
                DeleteUserTokens, SetDisabled, MarkUser, store
  <2>2. \A q \in Requests : q # v => pc'[q] = pc[q]
    BY <1>4 DEF Begin, EndOne, FindSessions, EndFound, DeleteFamilies, MarkSessions,
                DeleteUserTokens, SetDisabled, MarkUser, Do, Goto, TypeOK
  <2>3. \A r \in Refreshes, f \in Logins : Exchanges(r, f)' = Exchanges(r, f)
    BY <2>1, <2>2 DEF Exchanges
  <2> QED BY <2>1, <2>2, <2>3, ChainKept
<1>5. ASSUME NEW w \in Workers,
             ReadSessions(w) \/ StoreSessions(w) \/ ReadUsers(w) \/ StoreUsers(w)
      PROVE  OneChain'
  <2>1. UNCHANGED <<unused, fam, pc>>
    BY <1>5 DEF ReadSessions, StoreSessions, ReadUsers, StoreUsers, store, local
  <2> QED BY <2>1, ChainKept DEF Exchanges
<1>6. ASSUME NEW w \in Workers, Restart(w) PROVE OneChain'
  <2>1. UNCHANGED <<unused, fam>>
    BY <1>6 DEF Restart, store
  <2>2. \A q \in Requests : pc'[q] = pc[q] \/ pc'[q] = "gone"
    BY <1>6 DEF Restart, TypeOK
  <2>3. \A r \in Refreshes, f \in Logins : Exchanges(r, f)' => Exchanges(r, f)
    BY <2>1, <2>2 DEF Exchanges
  <2>4. \A l \in Logins : pc'[l] \in BeforeToken => pc[l] \in BeforeToken
    BY <2>2 DEF BeforeToken
  <2> QED BY <2>1, <2>3, <2>4, ChainKept
<1> QED BY <1>0, <1>1, <1>2, <1>3, <1>4, <1>5, <1>6 DEF Next, ChainInv

LEMMA ChainCorrect == Spec => []ChainInv
<1>1. Init => ChainInv
  BY TypeInit, KindsOfRequests DEF Init, ChainInv, OneChain, OneUnusedToken, Exchanges
<1> QED BY <1>1, ChainStep, PTL DEF Spec

\* At most one refresh token of a login can still be exchanged, whatever
\* logins, exchanges, replays, revocations and restarts run beside each other.
THEOREM OneUnusedTokenHolds == Spec => []OneUnusedToken
<1>1. ChainInv => OneUnusedToken
  BY DEF ChainInv, OneChain
<1> QED BY <1>1, ChainCorrect, PTL

-----------------------------------------------------------------------------
(* The lockout *)

\* Attempts that have been counted and have not come to lock the account.
Owed == {l \in Logins : pc[l] \in {"lock", "gone"}}

\* Every attempt counted from the threshold on has set locked_until since the
\* last reset, or is still about to, or died before it did.
FailuresOwed == locked = "unset" => failed < Threshold + Cardinality(Owed)

LockoutInv == TypeOK /\ FailuresOwed

LEMMA OwedFinite == IsFiniteSet(Owed) /\ Cardinality(Owed) \in Nat
  BY SessionsAssumption, FS_Subset, FS_CardinalityType DEF Owed

\* A step that counts no failure and only adds to what is owed.
LEMMA OwedKept ==
  ASSUME TypeOK, FailuresOwed, UNCHANGED <<failed, locked>>, Owed \subseteq Owed'
  PROVE  FailuresOwed'
<1>1. IsFiniteSet(Owed') /\ Cardinality(Owed') \in Nat
  BY SessionsAssumption, FS_Subset, FS_CardinalityType DEF Owed
<1>2. Cardinality(Owed) =< Cardinality(Owed')
  BY <1>1, FS_Subset
<1> QED BY <1>1, <1>2, OwedFinite, SessionsAssumption DEF FailuresOwed, TypeOK

LEMMA LockoutStep == LockoutInv /\ [Next]_vars => LockoutInv'
<1> SUFFICES ASSUME LockoutInv, [Next]_vars PROVE FailuresOwed'
  BY TypeStep DEF LockoutInv
<1>t. TypeOK /\ TypeOK' /\ FailuresOwed
  BY TypeStep DEF LockoutInv
<1> USE <1>t, KindsOfRequests
\* Every other request leaves the logins where they are.
<1>k. ASSUME UNCHANGED <<failed, locked>>, \A l \in Logins : pc'[l] = pc[l]
      PROVE  FailuresOwed'
  BY <1>k, OwedKept DEF Owed
<1>0. CASE UNCHANGED vars
  BY <1>0, <1>k DEF vars, account, local
<1>1. ASSUME NEW l \in Logins,
             \/ Authenticate(l) \/ CountFailure(l) \/ LockAccount(l)
             \/ ResetFailures(l) \/ FirstToken(l) \/ CreateSession(l) \/ SessionExpires(l)
      PROVE  FailuresOwed'
  <2>1. CASE \/ Authenticate(l) \/ FirstToken(l) \/ CreateSession(l) \/ SessionExpires(l)
    <3>1. UNCHANGED <<failed, locked>>
      BY <2>1 DEF Authenticate, FirstToken, CreateSession, SessionExpires, account
    <3>2. \A q \in Requests : pc'[q] # pc[q] => pc[q] \notin {"lock", "gone"}
      BY <2>1 DEF Authenticate, FirstToken, CreateSession, SessionExpires, local,
                  AfterPassword, Goto, TypeOK
    <3>3. Owed \subseteq Owed'
      BY <3>2 DEF Owed
    <3> QED BY <3>1, <3>3, OwedKept
  <2>2. CASE CountFailure(l)
    <3>1. pc[l] = "count" /\ failed' = failed + 1 /\ UNCHANGED locked
      BY <2>2 DEF CountFailure
    <3>2. /\ pc'[l] = IF failed' >= Threshold THEN "lock" ELSE "refused"
          /\ \A q \in Requests \ {l} : pc'[q] = pc[q]
      BY <2>2 DEF CountFailure, Goto, TypeOK
    <3>3. CASE failed' < Threshold
      <4>1. Cardinality(Owed') \in Nat
        BY SessionsAssumption, FS_Subset, FS_CardinalityType DEF Owed
      <4> QED BY <3>3, <4>1, SessionsAssumption DEF FailuresOwed, TypeOK
    <3>4. CASE failed' >= Threshold
      <4>1. l \notin Owed /\ Owed' = Owed \cup {l}
        BY <3>1, <3>2, <3>4 DEF Owed
      <4>2. Cardinality(Owed') = Cardinality(Owed) + 1
        BY <4>1, OwedFinite, FS_AddElement
      <4> QED BY <3>1, <4>2, OwedFinite, SessionsAssumption DEF FailuresOwed, TypeOK
    <3> QED BY <3>3, <3>4, SessionsAssumption DEF TypeOK
  <2>3. CASE LockAccount(l)
    BY <2>3 DEF LockAccount, FailuresOwed
  <2>4. CASE ResetFailures(l)
    <3>1. failed' = 0
      BY <2>4 DEF ResetFailures
    <3>2. Cardinality(Owed') \in Nat
      BY SessionsAssumption, FS_Subset, FS_CardinalityType DEF Owed
    <3> QED BY <3>1, <3>2, SessionsAssumption DEF FailuresOwed
  <2> QED BY <1>1, <2>1, <2>2, <2>3, <2>4
<1>2. CASE LockExpires
  BY <1>2 DEF LockExpires, FailuresOwed
<1>3. ASSUME NEW r \in Refreshes,
             TakeToken(r) \/ ReuseDetected(r) \/ LookupSession(r) \/ IssuePair(r)
      PROVE  FailuresOwed'
  <2>1. UNCHANGED <<failed, locked>>
    BY <1>3 DEF TakeToken, ReuseDetected, LookupSession, IssuePair, account
  <2>2. \A l \in Logins : pc'[l] = pc[l]
    BY <1>3 DEF TakeToken, ReuseDetected, LookupSession, IssuePair, Goto, TypeOK
  <2> QED BY <1>k, <2>1, <2>2
<1>4. ASSUME NEW v \in Revokes,
             \/ Begin(v) \/ EndOne(v) \/ FindSessions(v) \/ EndFound(v) \/ DeleteFamilies(v)
             \/ MarkSessions(v) \/ DeleteUserTokens(v) \/ SetDisabled(v) \/ MarkUser(v)
      PROVE  FailuresOwed'
  <2>1. UNCHANGED <<failed, locked>>
    BY <1>4 DEF Begin, EndOne, FindSessions, EndFound, DeleteFamilies, MarkSessions,
                DeleteUserTokens, SetDisabled, MarkUser, account
  <2>2. \A l \in Logins : pc'[l] = pc[l]
    BY <1>4 DEF Begin, EndOne, FindSessions, EndFound, DeleteFamilies, MarkSessions,
                DeleteUserTokens, SetDisabled, MarkUser, Do, Goto, TypeOK
  <2> QED BY <1>k, <2>1, <2>2
<1>5. ASSUME NEW w \in Workers,
             ReadSessions(w) \/ StoreSessions(w) \/ ReadUsers(w) \/ StoreUsers(w)
      PROVE  FailuresOwed'
  BY <1>5, <1>k DEF ReadSessions, StoreSessions, ReadUsers, StoreUsers, account, local
<1>6. ASSUME NEW w \in Workers, Restart(w) PROVE FailuresOwed'
  <2>1. UNCHANGED <<failed, locked>>
    BY <1>6 DEF Restart, account
  <2>2. Owed \subseteq Owed'
    BY <1>6 DEF Restart, TypeOK, Owed
  <2> QED BY <2>1, <2>2, OwedKept
<1> QED BY <1>0, <1>1, <1>2, <1>3, <1>4, <1>5, <1>6 DEF Next

\* However many attempts run beside each other and whatever logins with the
\* right password reset the count, reaching the threshold locks the account.
THEOREM ThresholdLocksHolds == Spec => []ThresholdLocks
<1>1. Init => LockoutInv
  <2> SUFFICES ASSUME Init PROVE FailuresOwed
    BY TypeInit DEF LockoutInv
  <2> QED BY OwedFinite, SessionsAssumption DEF Init, FailuresOwed
<1>2. LockoutInv => ThresholdLocks
  <2> DEFINE Dead == {l \in Logins : pc[l] = "gone"}
  <2> SUFFICES ASSUME FailuresOwed, locked = "unset", \A l \in Logins : pc[l] # "lock",
                      TypeOK, failed >= Threshold + Cardinality(Dead)
               PROVE  FALSE
    BY DEF LockoutInv, ThresholdLocks, TypeOK
  <2>1. Owed = Dead
    BY DEF Owed
  <2> QED BY <2>1, OwedFinite, SessionsAssumption DEF FailuresOwed, TypeOK
<1> QED BY <1>1, <1>2, LockoutStep, PTL DEF Spec

-----------------------------------------------------------------------------
(* Sessions that have ended *)

\* Only the last step of its login makes a session.
SessionsOfLogins == TypeOK /\ \A l \in Logins : session[l] # "none" => pc[l] = "done"

LEMMA SessionsOfLoginsStep == SessionsOfLogins /\ [Next]_vars => SessionsOfLogins'
<1> SUFFICES ASSUME SessionsOfLogins, TypeOK, TypeOK', [Next]_vars
             PROVE  \A l \in Logins : session'[l] # "none" => pc'[l] = "done"
  BY TypeStep DEF SessionsOfLogins
<1> USE KindsOfRequests
<1>0. CASE UNCHANGED vars
  BY <1>0 DEF vars, store, local, SessionsOfLogins
<1>1. ASSUME NEW l \in Logins,
             \/ Authenticate(l) \/ CountFailure(l) \/ LockAccount(l)
             \/ ResetFailures(l) \/ FirstToken(l) \/ CreateSession(l) \/ SessionExpires(l)
      PROVE  \A k \in Logins : session'[k] # "none" => pc'[k] = "done"
  <2>0. pc \in [Requests -> LoginSteps \cup RefreshSteps \cup {"busy"}]
        /\ session \in [Logins -> {"none", "active", "revoked", "expired"}]
    BY DEF TypeOK
  <2>1. \A k \in Logins \ {l} : session'[k] = session[k] /\ pc'[k] = pc[k]
    <3>1. UNCHANGED session \/ CreateSession(l) \/ SessionExpires(l)
      BY <1>1 DEF Authenticate, CountFailure, LockAccount, ResetFailures, FirstToken, store
    <3>2. \A k \in Logins \ {l} : session'[k] = session[k]
      BY <2>0, <3>1 DEF CreateSession, SessionExpires
    <3>3. UNCHANGED pc \/ \E step \in LoginSteps : Goto(l, step)
      BY <1>1 DEF Authenticate, CountFailure, LockAccount, ResetFailures, FirstToken,
                  CreateSession, SessionExpires, AfterPassword, LoginSteps, local
    <3>4. \A k \in Logins \ {l} : pc'[k] = pc[k]
      BY <2>0, <3>3 DEF Goto
    <3> QED BY <3>2, <3>4
  <2>2. session'[l] # "none" => pc'[l] = "done"
    BY <1>1 DEF Authenticate, CountFailure, LockAccount, ResetFailures, FirstToken,
                CreateSession, SessionExpires, AfterPassword, Goto, TypeOK, store, local,
                SessionsOfLogins
  <2> QED BY <2>1, <2>2 DEF SessionsOfLogins
<1>2. CASE LockExpires
  BY <1>2 DEF LockExpires, store, local, SessionsOfLogins
<1>3. ASSUME NEW r \in Refreshes,
             TakeToken(r) \/ ReuseDetected(r) \/ LookupSession(r) \/ IssuePair(r)
      PROVE  \A k \in Logins : session'[k] # "none" => pc'[k] = "done"
  <2>1. session' = session /\ \A l \in Logins : pc'[l] = pc[l]
    BY <1>3 DEF TakeToken, ReuseDetected, LookupSession, IssuePair, Goto, TypeOK, store
  <2> QED BY <2>1 DEF SessionsOfLogins
<1>4. ASSUME NEW v \in Revokes,
             \/ Begin(v) \/ EndOne(v) \/ FindSessions(v) \/ EndFound(v) \/ DeleteFamilies(v)
             \/ MarkSessions(v) \/ DeleteUserTokens(v) \/ SetDisabled(v) \/ MarkUser(v)
      PROVE  \A k \in Logins : session'[k] # "none" => pc'[k] = "done"
  <2>1. \A l \in Logins : pc'[l] = pc[l]
    BY <1>4 DEF Begin, EndOne, FindSessions, EndFound, DeleteFamilies, MarkSessions,
                DeleteUserTokens, SetDisabled, MarkUser, Do, Goto, TypeOK
  <2>2. \A l \in Logins : session'[l] # "none" => session[l] # "none"
    BY <1>4 DEF Begin, EndOne, FindSessions, EndFound, DeleteFamilies, MarkSessions,
                DeleteUserTokens, SetDisabled, MarkUser, store, TypeOK
  <2> QED BY <2>1, <2>2 DEF SessionsOfLogins
<1>5. ASSUME NEW w \in Workers,
             ReadSessions(w) \/ StoreSessions(w) \/ ReadUsers(w) \/ StoreUsers(w)
      PROVE  \A k \in Logins : session'[k] # "none" => pc'[k] = "done"
  BY <1>5 DEF ReadSessions, StoreSessions, ReadUsers, StoreUsers, store, local, SessionsOfLogins
<1>6. ASSUME NEW w \in Workers, Restart(w)
      PROVE  \A k \in Logins : session'[k] # "none" => pc'[k] = "done"
  BY <1>6 DEF Restart, TypeOK, store, SessionsOfLogins
<1> QED BY <1>0, <1>1, <1>2, <1>3, <1>4, <1>5, <1>6 DEF Next

\* A session that has ended with its tokens stays ended, and no token of its
\* family is issued again, whatever requests are still under way.
THEOREM ClosedStaysClosedHolds == Spec => ClosedStaysClosed
<1> USE KindsOfRequests
<1>1. Init => SessionsOfLogins
  BY TypeInit DEF Init, SessionsOfLogins
<1>2. SessionsOfLogins /\ [Next]_vars => [\A f \in Logins : Closed(f) => Closed(f)']_vars
  <2> SUFFICES ASSUME SessionsOfLogins, TypeOK, TypeOK', Next, NEW f \in Logins, Closed(f)
               PROVE  Closed(f)'
    BY TypeStep DEF SessionsOfLogins
  <2>0. /\ session[f] \in {"revoked", "expired"} /\ pc[f] = "done"
        /\ \A t \in unused : t[1] # f
        /\ \A r \in Refreshes : pc[r] \in {"lookup", "issue"} => fam[r] # f
    BY DEF Closed, SessionsOfLogins
  <2>k. ASSUME session'[f] \in {"revoked", "expired"}, \A t \in unused' : t[1] # f,
               UNCHANGED fam,
               \A r \in Refreshes : pc'[r] \in {"lookup", "issue"} => pc[r] \in {"lookup", "issue"}
        PROVE  Closed(f)'
    BY <2>0, <2>k DEF Closed
  <2>1. ASSUME NEW l \in Logins,
               \/ Authenticate(l) \/ CountFailure(l) \/ LockAccount(l)
               \/ ResetFailures(l) \/ FirstToken(l) \/ CreateSession(l) \/ SessionExpires(l)
        PROVE  Closed(f)'
    <3>f. UNCHANGED fam
      BY <2>1 DEF Authenticate, CountFailure, LockAccount, ResetFailures, FirstToken,
                  CreateSession, SessionExpires, local
    <3>g. ASSUME NEW step, Goto(l, step) PROVE \A r \in Refreshes : pc'[r] = pc[r]
      BY <3>g, KindsOfRequests DEF Goto, TypeOK
    <3>p. \A r \in Refreshes : pc'[r] = pc[r]
      BY <2>1, <3>g DEF Authenticate, CountFailure, LockAccount, ResetFailures, FirstToken,
                  CreateSession, SessionExpires, AfterPassword, local
    <3>1. UNCHANGED fam /\ \A r \in Refreshes : pc'[r] = pc[r]
      BY <3>f, <3>p
    <3>2. session'[f] \in {"revoked", "expired"}
      BY <2>0, <2>1 DEF Authenticate, CountFailure, LockAccount, ResetFailures, FirstToken,
                        CreateSession, SessionExpires, TypeOK, store
    <3>3. \A t \in unused' : t \in unused \/ t[1] # f
      BY <2>0, <2>1 DEF Authenticate, CountFailure, LockAccount, ResetFailures, FirstToken,
                        CreateSession, SessionExpires, store
    <3> QED BY <2>0, <2>k, <3>1, <3>2, <3>3
  <2>2. CASE LockExpires
    BY <2>0, <2>2, <2>k DEF LockExpires, store, local
  <2>3. ASSUME NEW r \in Refreshes,
               TakeToken(r) \/ ReuseDetected(r) \/ LookupSession(r) \/ IssuePair(r)
        PROVE  Closed(f)'
    <3>1. UNCHANGED session
      BY <2>3 DEF TakeToken, ReuseDetected, LookupSession, IssuePair, store
    <3>2. \A q \in Refreshes \ {r} : pc'[q] = pc[q] /\ fam'[q] = fam[q]
      BY <2>3 DEF TakeToken, ReuseDetected, LookupSession, IssuePair, Goto, TypeOK
    <3>3. pc'[r] \in {"lookup", "issue"} => fam'[r] # f
      BY <2>0, <2>3 DEF TakeToken, ReuseDetected, LookupSession, IssuePair, Goto, TypeOK
    <3>4. \A t \in unused' : t[1] # f
      BY <2>0, <2>3 DEF TakeToken, ReuseDetected, LookupSession, IssuePair, store
    <3> QED BY <2>0, <3>1, <3>2, <3>3, <3>4 DEF Closed
  <2>4. ASSUME NEW v \in Revokes,
               \/ Begin(v) \/ EndOne(v) \/ FindSessions(v) \/ EndFound(v) \/ DeleteFamilies(v)
               \/ MarkSessions(v) \/ DeleteUserTokens(v) \/ SetDisabled(v) \/ MarkUser(v)
        PROVE  Closed(f)'
    <3>1. UNCHANGED fam /\ \A r \in Refreshes : pc'[r] = pc[r]
      BY <2>4 DEF Begin, EndOne, FindSessions, EndFound, DeleteFamilies, MarkSessions,
                  DeleteUserTokens, SetDisabled, MarkUser, Do, Goto, TypeOK
    <3>2. session'[f] \in {"revoked", "expired"}
      BY <2>0, <2>4 DEF Begin, EndOne, FindSessions, EndFound, DeleteFamilies, MarkSessions,
                        DeleteUserTokens, SetDisabled, MarkUser, store
    <3>3. unused' \subseteq unused
      BY <2>4 DEF Begin, EndOne, FindSessions, EndFound, DeleteFamilies, MarkSessions,
                  DeleteUserTokens, SetDisabled, MarkUser, store
    <3> QED BY <2>0, <2>k, <3>1, <3>2, <3>3
  <2>5. ASSUME NEW w \in Workers,
               ReadSessions(w) \/ StoreSessions(w) \/ ReadUsers(w) \/ StoreUsers(w)
        PROVE  Closed(f)'
    BY <2>0, <2>5, <2>k DEF ReadSessions, StoreSessions, ReadUsers, StoreUsers, store, local
  <2>6. ASSUME NEW w \in Workers, Restart(w) PROVE Closed(f)'
    BY <2>0, <2>6, <2>k DEF Restart, TypeOK, store
  <2> QED BY <2>1, <2>2, <2>3, <2>4, <2>5, <2>6 DEF Next
<1> QED BY <1>1, <1>2, SessionsOfLoginsStep, PTL DEF Spec, ClosedStaysClosed
=============================================================================
