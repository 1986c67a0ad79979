------------------------------ MODULE RateLimit ------------------------------
(***************************************************************************)
(* utils/rate_limit.py and its use for API keys (domains/api_keys/         *)
(* middleware.py): a limiter for the minute and one for the hour of every  *)
(* key, in the memory of one worker, which are made when they are needed,  *)
(* made again when the limit of the key is another, and evicted.           *)
(*                                                                         *)
(* A request reads the limits of its key from the database and is then     *)
(* decided without an await.  The two windows may be any numbers of ticks, *)
(* as long as a limiter is kept for them (_LIMITER_TTL_SECONDS is an hour). *)
(***************************************************************************)
EXTENDS Integers, FiniteSets

CONSTANTS
  Keys,        \* API keys, one request of each in flight at a time
  Windows,     \* the window of each kind: [minute |-> ..., hour |-> ...]
  LimiterTtl,  \* _LIMITER_TTL_SECONDS
  Limits,      \* values of rate_limit_per_minute and rate_limit_per_hour
  MaxMoment,   \* the time at which behaviours are cut
  Unasked      \* no request in flight

LimiterKinds == {"minute", "hour"}

LimitAssumption ==
  /\ IsFiniteSet(Keys)
  /\ Windows \in [LimiterKinds -> Nat \ {0}] /\ LimiterTtl \in Nat \ {0}
  /\ \A kind \in LimiterKinds : Windows[kind] <= LimiterTtl
  /\ IsFiniteSet(Limits) /\ Limits \subseteq Nat \ {0} /\ MaxMoment \in Nat

VARIABLES
  moment,    \* time.monotonic()
  limit,     \* the limits in the document of each key
  limiter,   \* _minute_limiters and _hour_limiters, by key
  asked,     \* the limits the request in flight of a key has read
  accepted   \* history: the requests of a key that were let through since its
             \* limits were last changed, or a request that had read others came

limitVars == <<moment, limit, limiter, asked, accepted>>

Pairs == [LimiterKinds -> Limits]
Moments == 0 .. MaxMoment
None == [max |-> 0, hits |-> {}, used |-> 0]

\* Requests are let through at a time; those of one tick are numbered.
Hits == [at : Moments, no : Nat \ {0}]

LimitTypeOK ==
  /\ moment \in Moments
  /\ limit \in [Keys -> Pairs] /\ asked \in [Keys -> Pairs \cup {Unasked}]
  /\ \A kind \in LimiterKinds, k \in Keys :
       LET l == limiter[kind][k] IN
       l.max \in Limits \cup {0} /\ l.used \in Moments /\ l.hits \subseteq Hits
  /\ \A k \in Keys : accepted[k] \subseteq Hits

LimitInit ==
  /\ moment = 0
  /\ \E l \in Pairs : limit = [k \in Keys |-> l]
  /\ limiter = [kind \in LimiterKinds |-> [k \in Keys |-> None]]
  /\ asked = [k \in Keys |-> Unasked]
  /\ accepted = [k \in Keys |-> {}]

Pass ==
  /\ moment < MaxMoment /\ moment' = moment + 1
  /\ UNCHANGED <<limit, limiter, asked, accepted>>

\* Hits of the last w ticks.
Recent(hits, w) == {h \in hits : h.at > moment - w}

\* With a hit of now.
During(hits, t) == {h \in hits : h.at = t}
WithHit(hits) == hits \cup {[at |-> moment, no |-> Cardinality(During(hits, moment)) + 1]}

-----------------------------------------------------------------------------
\* Mutant: limiters that have not been used for a minute are evicted.
EvictAfterMinute(l) == IF l.used <= moment - Windows["minute"] THEN None ELSE l

\* _evict_stale_limiters(): those not used for longer than the time to live.
Evicted(l) == IF l.used < moment - LimiterTtl THEN None ELSE l

\* _get_minute_limiter() and _get_hour_limiter(): a limiter with another limit
\* is replaced by a fresh one.
Got(l, max) == [l EXCEPT !.max = max, !.hits = IF l.max = max THEN @ ELSE {}, !.used = moment]

\* is_limited(): a request that is let through leaves a hit.  _cleanup() then
\* removes the hits of an ip whose newest is out of the window, which this
\* one's is not.
Pruned(l, w) == [l EXCEPT !.hits = Recent(@, w)]
IsLimited(l, w) == Cardinality(Recent(l.hits, w)) >= l.max
Hit(l, w) == IF IsLimited(l, w) THEN Pruned(l, w)
             ELSE [Pruned(l, w) EXCEPT !.hits = WithHit(@)]

-----------------------------------------------------------------------------
AskLimits(k) ==
  /\ asked[k] = Unasked
  /\ asked' = [asked EXCEPT ![k] = limit[k]]
  /\ UNCHANGED <<moment, limit, limiter, accepted>>

\* The rest of _authenticate_api_key(): every hundredth access evicts before
\* the limiters are taken; the hour is only asked when the minute lets through.
Admit(k) ==
  /\ asked[k] # Unasked
  /\ \E evict \in BOOLEAN :
       LET left == [kind \in LimiterKinds |-> [i \in Keys |->
                      IF evict THEN Evicted(limiter[kind][i]) ELSE limiter[kind][i]]]
           minute == Got(left["minute"][k], asked[k]["minute"])
           hour == Got(left["hour"][k], asked[k]["hour"])
           stopped == IsLimited(minute, Windows["minute"])
           refused == stopped \/ IsLimited(hour, Windows["hour"])
           before == IF asked[k] = limit[k] THEN accepted[k] ELSE {}
       IN  /\ limiter' = [left EXCEPT
                !["minute"][k] = Hit(minute, Windows["minute"]),
                !["hour"][k] = IF stopped THEN hour ELSE Hit(hour, Windows["hour"])]
           /\ accepted' = [accepted EXCEPT ![k] =
                IF refused \/ asked[k] # limit[k] THEN before ELSE WithHit(before)]
  /\ asked' = [asked EXCEPT ![k] = Unasked]
  /\ UNCHANGED <<moment, limit>>

\* update_api_key().
ChangeLimits(k) ==
  /\ \E l \in Pairs \ {limit[k]} : limit' = [limit EXCEPT ![k] = l]
  /\ accepted' = [accepted EXCEPT ![k] = {}]
  /\ UNCHANGED <<moment, limiter, asked>>

LimitNext ==
  \/ Pass
  \/ \E k \in Keys : AskLimits(k) \/ Admit(k) \/ ChangeLimits(k)

LimitSpec == LimitInit /\ [][LimitNext]_limitVars

-----------------------------------------------------------------------------
\* docs/api/api-keys.md: in every window of a minute and of an hour, a worker
\* lets no more requests of a key through than its limits say, although hits
\* are dropped, limiters evicted and limits changed.
WithinLimits ==
  \A k \in Keys, kind \in LimiterKinds : \A t \in Moments :
    Cardinality({a \in accepted[k] : a.at > t - Windows[kind] /\ a.at <= t}) <= limit[k][kind]
=============================================================================
