-------------------------------- MODULE Wordstat --------------------------------
(***************************************************************************)
(* Suggestions from Wordstat: a cache and one flight per request in every  *)
(* process, and a ledger of rolling windows all processes share.           *)
(***************************************************************************)
EXTENDS Integers, FiniteSets

CONSTANTS
  Callers, Processes, Users,
  LimitOf,      \* by scope and window: how many requests
  Length,       \* of a window
  CacheLife,    \* wordstatCacheTTL
  MaxWait,      \* bound on the wait for the locks
  MaxTime, MaxEvents, MaxStops,
  Nobody

VARIABLES
  now,
  caller,   \* handlers: their process, user and where they are
  flight,   \* the one request a process makes for a user at a time
  cache,    \* when a process got its last answer for a user
  ledger,   \* wordstat_quota_events
  reserved, \* ghost: all events there ever were
  stops     \* restarts of a process so far

wordstat == <<now, caller, flight, cache, ledger, reserved, stops>>

\* What the proofs assume: an event is kept for as long as a request may wait and its second lasts.
WordstatOK ==
  /\ {"second", "hour"} \subseteq DOMAIN Length /\ Length["second"] \in Nat \ {0} /\ Length["hour"] \in Nat
  /\ MaxWait \in Nat /\ Length["second"] + MaxWait <= Length["hour"]
  /\ CacheLife \in Nat /\ \A s \in DOMAIN LimitOf : LimitOf[s]["second"] \in Nat

Idle == [pc |-> "idle", at |-> Nobody, user |-> Nobody]
NoFlight == [pc |-> "none", leader |-> Nobody, stamp |-> 0]
Never == -CacheLife
Init ==
  /\ now = 0 /\ caller = [c \in Callers |-> Idle]
  /\ flight = [p \in Processes |-> [u \in Users |-> NoFlight]]
  /\ cache = [p \in Processes |-> [u \in Users |-> Never]]
  /\ ledger = {} /\ reserved = {} /\ stops = 0

Fresh(p, u, t) == t < cache[p][u] + CacheLife
At(c, p, u, pc) == caller[c] = [pc |-> pc, at |-> p, user |-> u]
Fly(p, u, f) == flight' = [flight EXCEPT ![p][u] = f]
\* Whoever waits for a flight gets what it got.
Land(p, u) ==
  /\ Fly(p, u, NoFlight)
  /\ caller' = [c \in Callers |-> IF At(c, p, u, "wait") THEN Idle ELSE caller[c]]
----------------------------------------------------------------------------
\* A first look at the cache; a fresh answer is returned at once.
SuggestDirectCampaignKeywords(c, p, u) ==
  /\ caller[c] = Idle /\ ~Fresh(p, u, now)
  /\ caller' = [caller EXCEPT ![c] = [pc |-> "miss", at |-> p, user |-> u]]
  /\ UNCHANGED <<now, flight, cache, ledger, reserved, stops>>
\* The flight of a request is joined, or begun with this caller's context.
GetWordstatTop(c, p, u) ==
  /\ At(c, p, u, "miss") /\ caller' = [caller EXCEPT ![c].pc = "wait"]
  /\ IF flight[p][u] = NoFlight THEN Fly(p, u, [NoFlight EXCEPT !.pc = "check", !.leader = c]) ELSE UNCHANGED flight
  /\ UNCHANGED <<now, cache, ledger, reserved, stops>>
\* Another flight may have landed since the first look.
Recheck(p, u) ==
  /\ flight[p][u].pc = "check"
  /\ IF Fresh(p, u, now) THEN Land(p, u)
     ELSE Fly(p, u, [flight[p][u] EXCEPT !.pc = "quota", !.stamp = now]) /\ UNCHANGED caller
  /\ UNCHANGED <<now, cache, ledger, reserved, stops>>

Kept(t) == {e \in ledger : e.stamp > t - Length["hour"]}
Scope(s, u) == IF s = "user" THEN {u} ELSE Users
Used(s, u, t) == {e \in Kept(t) : e.user \in Scope(s, u)}
Within(w, some, t) == {e \in some : e.stamp > t - Length[w]}
WindowFree(u, t) ==
  \A s \in DOMAIN LimitOf : \A w \in DOMAIN Length : Cardinality(Within(w, Used(s, u, t), t)) < LimitOf[s][w]
\* One transaction under the locks of the key, the workspace and the user, with the time read before them.
\* A refusal rolls back the expiry of old events, too.
AcquireWordstatQuota(p, u) ==
  LET t == flight[p][u].stamp  e == [id |-> Cardinality(reserved) + 1, user |-> u, stamp |-> t] IN
  /\ flight[p][u].pc = "quota" /\ Cardinality(reserved) < MaxEvents
  /\ IF WindowFree(u, t)
     THEN /\ ledger' = Kept(t) \cup {e} /\ reserved' = reserved \cup {e}
          /\ Fly(p, u, [flight[p][u] EXCEPT !.pc = "call"]) /\ UNCHANGED caller
     ELSE Land(p, u) /\ UNCHANGED <<ledger, reserved>>
  /\ UNCHANGED <<now, cache, stops>>
\* Wordstat answers, or the request fails after its retries.
GetTop(p, u) ==
  /\ flight[p][u].pc = "call" /\ Land(p, u)
  /\ \E ok \in BOOLEAN : cache' = IF ok THEN [cache EXCEPT ![p][u] = now] ELSE cache
  /\ UNCHANGED <<now, ledger, reserved, stops>>
\* A caller gives up; a flight begun with its context fails for all who wait.
CallerGivesUp(c) ==
  /\ caller[c].pc = "wait"
  /\ LET p == caller[c].at  u == caller[c].user IN
     IF flight[p][u].leader = c THEN Land(p, u)
     ELSE caller' = [caller EXCEPT ![c] = Idle] /\ UNCHANGED flight
  /\ UNCHANGED <<now, cache, ledger, reserved, stops>>
ProcessRestarts(p) ==
  /\ stops < MaxStops /\ stops' = stops + 1
  /\ caller' = [c \in Callers |-> IF caller[c].at = p THEN Idle ELSE caller[c]]
  /\ flight' = [flight EXCEPT ![p] = [u \in Users |-> NoFlight]]
  /\ cache' = [cache EXCEPT ![p] = [u \in Users |-> Never]]
  /\ UNCHANGED <<now, ledger, reserved>>
Tick ==
  /\ now < MaxTime /\ now' = now + 1
  /\ \A p \in Processes, u \in Users : flight[p][u].pc = "quota" => now < flight[p][u].stamp + MaxWait
  /\ UNCHANGED <<caller, flight, cache, ledger, reserved, stops>>

Next ==
  \/ \E p \in Processes, u \in Users :
       \/ \E c \in Callers : SuggestDirectCampaignKeywords(c, p, u) \/ GetWordstatTop(c, p, u)
       \/ Recheck(p, u) \/ AcquireWordstatQuota(p, u) \/ GetTop(p, u)
  \/ \E c \in Callers : CallerGivesUp(c)
  \/ \E p \in Processes : ProcessRestarts(p)
  \/ Tick
----------------------------------------------------------------------------
\* The windows of a second hold in every scope, whatever order transactions with older clocks commit in.
BurstKept ==
  \A s \in DOMAIN LimitOf, last \in reserved :
    Cardinality({e \in reserved : /\ e.user \in Scope(s, last.user)
                                  /\ e.stamp <= last.stamp /\ e.stamp > last.stamp - Length["second"]})
      <= LimitOf[s]["second"]

\* No quota is spent on an answer the process still has.
FreshNotAskedAgain ==
  \A p \in Processes, u \in Users :
    flight[p][u].pc \in {"quota", "call"} => ~Fresh(p, u, flight[p][u].stamp)
================================================================================
