------------------------- MODULE DirectControlsProofs -------------------------
(***************************************************************************)
(* The connection to Yandex Direct, its campaign list and the edits of a   *)
(* campaign, for any number of processes, goroutines, requests and         *)
(* authorizations: no refresh token is spent whose successor nobody has,   *)
(* nothing older replaces anything newer, and the edits implement          *)
(* WriteOnce.                                                              *)
(***************************************************************************)
EXTENDS DirectControls, FiniteSetTheorems, TLAPS

Promise == INSTANCE WriteOnceProofs WITH
  Keys <- Requests, Rivals <- Requests \X Requests, Idempotent <- {},
  sends <- Attempted, flying <- UnderWay, carried <- carried, moot <- {}, verdict <- Told

----------------------------------------------------------------------------
(* The connection. *)

Bound(p) == refresh[p].pc \in {"exchange", "complete", "release", "invalid"}
Link == [id : 0..MaxAttempts, status : {"none", "active", "error", "revoked"}, token : Int, aged : BOOLEAN,
         holder : Processes \cup {Noone}, lease : Int]
Refresh == [pc : {"idle", "claim", "exchange", "complete", "release", "invalid"}, id : Int, token : Int,
            answer : Int, left : Int]
AccessTypeOK ==
  /\ link \in Link /\ refresh \in [Processes -> Refresh]
  /\ oauth \in [Attempts -> {Unused, "active", "consumed", "gone"}] /\ latest \in 0..MaxAttempts
  /\ flow \in [Attempts -> {"none", "exchange", "replace"}]
  /\ grant \in Int /\ spilt \in BOOLEAN /\ trouble \in Int
\* Attempts are started one after the other, and one that became a connection is never used again.
AttemptsSound ==
  /\ \A a, b \in Attempts : a < b /\ oauth[b] # Unused => oauth[a] # Unused
  /\ latest # 0 => \A a \in Attempts : oauth[a] # Unused => a <= latest
  /\ link.id # 0 => oauth[link.id] = "gone"
  /\ link.status \in {"active", "error"} => link.id # 0
\* A refresh of the connection carries no token newer than the stored one, and who claimed the
\* stored one holds its lease longer than its call may take.
RefreshSound(p) ==
  refresh[p].pc # "idle" =>
    /\ refresh[p].id \in Attempts /\ oauth[refresh[p].id] = "gone" /\ refresh[p].left >= 0
    /\ refresh[p].id = link.id => refresh[p].token <= link.token
    /\ Bound(p) /\ SameBundle(p) => link.holder = p /\ link.lease > refresh[p].left
    /\ Refreshing(p, "complete") /\ refresh[p].id = link.id =>
         refresh[p].answer > refresh[p].token /\ refresh[p].answer <= grant
    /\ Refreshing(p, "invalid") /\ refresh[p].id = link.id => refresh[p].token < grant
AccessInv ==
  /\ AccessTypeOK /\ AttemptsSound /\ link.token <= grant
  /\ \A p \in Processes : RefreshSound(p)
  /\ GrantKept

\* The attempts started are the first ones.
LEMMA StartedIs ==
  ASSUME ControlsOK, AccessInv, NEW a \in Attempts, a = Cardinality(Started) + 1
  PROVE  Started = 1..(a - 1)
<1>1. /\ MaxAttempts \in Nat /\ Started \subseteq Attempts
      /\ \A b \in Started : \A c \in Attempts : c < b => c \in Started
  <2>1. MaxAttempts \in Nat /\ Started \subseteq Attempts
    BY DEF ControlsOK, Started
  <2>2. \A c, b \in Attempts : c < b /\ oauth[b] # Unused => oauth[c] # Unused
    BY DEF AccessInv, AttemptsSound
  <2>3. ASSUME NEW b \in Started, NEW c \in Attempts, c < b PROVE c \in Started
    <3>1. b \in Attempts /\ oauth[b] # Unused
      BY DEF Started
    <3>2. oauth[c] # Unused
      BY <2>2, <2>3, <3>1
    <3> QED
      BY <3>2 DEF Started
  <2> QED
    BY <2>1, <2>3
<1>2. IsFiniteSet(Started) /\ Cardinality(Started) \in Nat
  <2>1. IsFiniteSet(1..MaxAttempts)
    BY <1>1, FS_Interval
  <2>2. IsFiniteSet(Started)
    BY <1>1, <2>1, FS_Subset DEF Attempts
  <2> QED
    BY <2>2, FS_CardinalityType
<1>3. ASSUME NEW b \in Started PROVE b <= a - 1
  <2>1. 1..b \subseteq Started
    BY <1>1 DEF Attempts
  <2>2. Cardinality(1..b) = b
    BY <1>1, FS_Interval DEF Attempts
  <2>3. Cardinality(1..b) <= Cardinality(Started)
    BY <2>1, <1>2, FS_Subset
  <2> QED
    BY <1>1, <1>2, <2>2, <2>3 DEF Attempts
<1>4. ASSUME NEW b \in 1..(a - 1) PROVE b \in Started
  <2> SUFFICES ASSUME b \notin Started PROVE FALSE
    OBVIOUS
  <2>1. Started \subseteq 1..(b - 1)
    <3>1. b \in Attempts
      BY <1>1 DEF Attempts
    <3>2. ASSUME NEW c \in Started PROVE c \in 1..(b - 1)
      <4>1. c \in Nat /\ b \in Nat /\ c >= 1 /\ ~(b < c) /\ c # b
        BY <1>1, <3>1, <3>2 DEF Attempts
      <4> QED
        BY <4>1
    <3> QED
      BY <3>2
  <2>2. Cardinality(1..(b - 1)) = b - 1 /\ IsFiniteSet(1..(b - 1))
    <3> DEFINE n == b - 1
    <3>1. n \in Nat /\ n \in Int /\ 1 \in Int
      BY <1>1, <1>4 DEF Attempts
    <3> HIDE DEF n
    <3>2. IsFiniteSet(1..n) /\ Cardinality(1..n) = IF 1 > n THEN 0 ELSE n - 1 + 1
      BY <3>1, FS_Interval, Zenon
    <3>3. IsFiniteSet(1..n) /\ Cardinality(1..n) = n
      BY <3>1, <3>2
    <3> QED
      BY <3>3 DEF n
  <2>3. Cardinality(Started) <= b - 1
    <3>1. IsFiniteSet(1..(b - 1)) /\ Started \subseteq 1..(b - 1)
      BY <2>1, <2>2
    <3>2. Cardinality(Started) <= Cardinality(1..(b - 1))
      BY <3>1, FS_Subset, Zenon
    <3> QED
      BY <2>2, <3>2
  <2> QED
    BY <1>1, <1>2, <2>3 DEF Attempts
<1>5. Started \subseteq 1..(a - 1)
  BY <1>1, <1>3 DEF Attempts
<1>6. 1..(a - 1) \subseteq Started
  BY <1>4
<1> QED
  BY <1>5, <1>6

LEMMA OAuthKept ==
  ASSUME ControlsOK, AccessInv, NEW a \in Attempts, OAuthStep(a)
  PROVE  AccessInv'
<1>1. MaxAttempts \in Nat
  BY DEF ControlsOK
<1>2. UNCHANGED <<link, refresh, grant, spilt, trouble>>
  BY DEF OAuthStep, CreateDirectOAuthState, ConsumeDirectOAuthState, ExchangeCode, PurgeDirectOAuthState
<1>3. ASSUME NEW b \in Attempts, oauth[b] = "gone" PROVE oauth'[b] = "gone"
  <2>1. CASE CreateDirectOAuthState(a)
    <3>1. b \in Started
      BY <1>3 DEF Started, Unused
    <3>2. b # a
      BY <2>1, <3>1, StartedIs DEF CreateDirectOAuthState, Attempts
    <3> QED
      BY <1>3, <2>1, <3>2 DEF CreateDirectOAuthState
  <2>2. CASE ConsumeDirectOAuthState(a) \/ ExchangeCode(a) \/ PurgeDirectOAuthState(a)
    BY <1>3, <2>2 DEF ConsumeDirectOAuthState, ExchangeCode, PurgeDirectOAuthState, AccessInv, AccessTypeOK
  <2> QED
    BY <2>1, <2>2 DEF OAuthStep
<1>4. AccessTypeOK'
  <2>1. CASE CreateDirectOAuthState(a)
    BY <1>1, <1>2, <2>1 DEF CreateDirectOAuthState, AccessInv, AccessTypeOK, Attempts
  <2>2. CASE ConsumeDirectOAuthState(a)
    BY <1>2, <2>2 DEF ConsumeDirectOAuthState, AccessInv, AccessTypeOK
  <2>3. CASE ExchangeCode(a)
    BY <1>2, <2>3 DEF ExchangeCode, AccessInv, AccessTypeOK
  <2>4. CASE PurgeDirectOAuthState(a)
    BY <1>1, <1>2, <2>4 DEF PurgeDirectOAuthState, AccessInv, AccessTypeOK
  <2> QED
    BY <2>1, <2>2, <2>3, <2>4 DEF OAuthStep
<1>5. AttemptsSound'
  <2>1. link.id # 0 => oauth'[link.id] = "gone"
    BY <1>1, <1>3 DEF AccessInv, AccessTypeOK, AttemptsSound, Attempts, Link
  <2>2. link.status \in {"active", "error"} => link.id # 0
    BY DEF AccessInv, AttemptsSound
  <2>3. CASE CreateDirectOAuthState(a)
    <3>1. \A b \in Attempts : oauth[b] # Unused <=> b \in 1..(a - 1)
      BY <2>3, StartedIs DEF CreateDirectOAuthState, Started
    <3>2. \A b \in Attempts : oauth'[b] # Unused <=> b \in 1..a
      BY <1>1, <2>3, <3>1 DEF CreateDirectOAuthState, Attempts, Unused
    <3> QED
      BY <1>1, <1>2, <2>1, <2>2, <2>3, <3>2 DEF CreateDirectOAuthState, AttemptsSound, Attempts
  <2>4. CASE ConsumeDirectOAuthState(a) \/ ExchangeCode(a) \/ PurgeDirectOAuthState(a)
    <3>1. \A b \in Attempts : oauth'[b] # Unused <=> oauth[b] # Unused
      BY <2>4 DEF ConsumeDirectOAuthState, ExchangeCode, PurgeDirectOAuthState, AccessInv, AccessTypeOK, Unused
    <3>2. latest' \in {0, latest}
      BY <2>4 DEF ConsumeDirectOAuthState, ExchangeCode, PurgeDirectOAuthState
    <3> QED
      BY <1>2, <2>1, <2>2, <3>1, <3>2 DEF AccessInv, AttemptsSound
  <2> QED
    BY <2>3, <2>4 DEF OAuthStep
<1>6. ASSUME NEW p \in Processes PROVE RefreshSound(p)'
  BY <1>2, <1>3 DEF AccessInv, RefreshSound, Refreshing, Bound, SameBundle
<1>7. GrantKept'
  BY <1>2 DEF AccessInv, GrantKept, Refreshing, Claimed, SameBundle
<1> QED
  BY <1>2, <1>4, <1>5, <1>6, <1>7 DEF AccessInv

\* One process takes a step of its refresh; the attempts are left alone.
RefreshMoves(p) ==
  /\ refresh' \in [Processes -> Refresh] /\ \A q \in Processes \ {p} : refresh'[q] = refresh[q]
  /\ link' \in Link /\ UNCHANGED <<oauth, latest, flow>>
  /\ link'.id = link.id /\ (link'.status = link.status \/ (link.status = "active" /\ link'.status = "error"))
LEMMA RefreshMoveType ==
  ASSUME AccessTypeOK, NEW p \in Processes, NEW c \in Refresh, refresh' = [refresh EXCEPT ![p] = c]
  PROVE  /\ refresh' \in [Processes -> Refresh] /\ \A q \in Processes \ {p} : refresh'[q] = refresh[q]
         /\ refresh'[p] = c
BY DEF AccessTypeOK
LEMMA RefreshStepKept ==
  ASSUME ControlsOK, AccessInv, NEW p \in Processes, RefreshMoves(p), \A q \in Processes : RefreshSound(q)', GrantKept',
         grant' \in Int, spilt' \in BOOLEAN, trouble' \in Int, link'.token <= grant'
  PROVE  AccessInv'
<1>1. AccessTypeOK'
  BY DEF AccessInv, AccessTypeOK, RefreshMoves
<1>2. AttemptsSound'
  BY DEF AccessInv, AttemptsSound, RefreshMoves
<1> QED
  BY <1>1, <1>2 DEF AccessInv

\* What becomes of a refresh that is read, claimed or answered, and of a claimed token.
ReadOf(r, id, token) == [r EXCEPT !.pc = "claim", !.id = id, !.token = token]
ClaimOf(r, left) == [r EXCEPT !.pc = "exchange", !.left = left]
AnswerOf(r, answer) == [r EXCEPT !.pc = "complete", !.answer = answer]
HeldLink(l, p, n) == [l EXCEPT !.holder = p, !.lease = n]
LEMMA ReadIs ==
  ASSUME NEW r \in Refresh, NEW id \in Int, NEW token \in Int
  PROVE  LET c == ReadOf(r, id, token) IN
         c \in Refresh /\ c.pc = "claim" /\ c.id = id /\ c.token = token /\ c.left = r.left
BY DEF Refresh, ReadOf
LEMMA ClaimIs ==
  ASSUME NEW r \in Refresh, NEW left \in Int
  PROVE  LET c == ClaimOf(r, left) IN
         c \in Refresh /\ c.pc = "exchange" /\ c.id = r.id /\ c.token = r.token /\ c.left = left
BY DEF Refresh, ClaimOf
LEMMA AnswerIs ==
  ASSUME NEW r \in Refresh, NEW answer \in Int
  PROVE  LET c == AnswerOf(r, answer) IN
         /\ c \in Refresh /\ c.pc = "complete" /\ c.id = r.id /\ c.token = r.token /\ c.left = r.left
         /\ c.answer = answer
BY DEF Refresh, AnswerOf
LEMMA HeldIs ==
  ASSUME NEW l \in Link, NEW p \in Processes \cup {Noone}, NEW n \in Int
  PROVE  LET c == HeldLink(l, p, n) IN
         /\ c \in Link /\ c.id = l.id /\ c.status = l.status /\ c.token = l.token /\ c.holder = p /\ c.lease = n
BY DEF Link, HeldLink

LEMMA NoRefreshIs == NoRefresh \in Refresh /\ NoRefresh.pc = "idle" /\ NoRefresh.left = 0
BY DEF NoRefresh, Refresh
LEMMA FinishMoves ==
  ASSUME AccessTypeOK, NEW p \in Processes, Finish(p)
  PROVE  /\ refresh' \in [Processes -> Refresh] /\ \A q \in Processes \ {p} : refresh'[q] = refresh[q]
         /\ refresh'[p].pc = "idle"
BY NoRefreshIs, RefreshMoveType DEF Finish

\* A token ages, is read, and the refresh of it claimed.
LEMMA TokenAgesKept ==
  ASSUME ControlsOK, AccessInv, TokenAges
  PROVE  AccessInv'
<1>1. /\ link' \in Link /\ link'.id = link.id /\ link'.status = link.status /\ link'.token = link.token
      /\ link'.holder = link.holder /\ link'.lease = link.lease
      /\ UNCHANGED <<oauth, latest, flow, refresh, grant, spilt, trouble>>
  BY DEF TokenAges, OnlyRefresh, AccessInv, AccessTypeOK, Link
<1>2. AccessTypeOK' /\ AttemptsSound' /\ link'.token <= grant'
  BY <1>1 DEF AccessInv, AccessTypeOK, AttemptsSound
<1>3. ASSUME NEW p \in Processes PROVE RefreshSound(p)'
  BY <1>1 DEF AccessInv, RefreshSound, Refreshing, Bound, SameBundle
<1>4. GrantKept'
  BY <1>1 DEF AccessInv, GrantKept, Refreshing, Claimed, SameBundle
<1> QED
  BY <1>2, <1>3, <1>4 DEF AccessInv

LEMMA ReadTokenKept ==
  ASSUME ControlsOK, AccessInv, NEW p \in Processes, ReadTokenMaterial(p)
  PROVE  AccessInv'
<1> DEFINE c == ReadOf(NoRefresh, link.id, link.token)
<1>0. link.id \in Int /\ link.token \in Int /\ link.status = "active"
  BY DEF ControlsOK, AccessInv, AccessTypeOK, Link, ReadTokenMaterial
<1>1. c \in Refresh /\ c.pc = "claim" /\ c.id = link.id /\ c.token = link.token /\ c.left = 0
  BY <1>0, ReadIs, NoRefreshIs
<1>2. refresh' = [refresh EXCEPT ![p] = c] /\ UNCHANGED <<link, oauth, latest, flow, grant, spilt, trouble>>
  BY DEF ReadTokenMaterial, OnlyRefresh, ReadOf
<1> HIDE DEF c
<1>3. /\ refresh' \in [Processes -> Refresh] /\ \A q \in Processes \ {p} : refresh'[q] = refresh[q]
      /\ refresh'[p] = c
  BY <1>1, <1>2, RefreshMoveType DEF AccessInv
<1>4. link.id \in Attempts /\ oauth[link.id] = "gone"
  BY <1>0 DEF AccessInv, AccessTypeOK, AttemptsSound, Link, Attempts, ControlsOK
<1>5. ASSUME NEW q \in Processes PROVE RefreshSound(q)'
  <2>1. CASE q = p
    BY <1>0, <1>1, <1>2, <1>3, <1>4, <2>1 DEF RefreshSound, Refreshing, Bound
  <2>2. CASE q # p
    BY <1>2, <1>3, <2>2 DEF AccessInv, RefreshSound, Refreshing, Bound, SameBundle
  <2> QED
    BY <2>1, <2>2
<1>6. GrantKept'
  <2>1. ASSUME NEW q \in Processes, Refreshing(q, "complete") PROVE q # p
    BY <2>1 DEF Refreshing, ReadTokenMaterial
  <2> QED
    BY <2>1, <1>2, <1>3 DEF AccessInv, GrantKept, Refreshing, Claimed, SameBundle
<1> QED
  BY <1>2, <1>3, <1>5, <1>6, RefreshStepKept DEF RefreshMoves, AccessInv, AccessTypeOK

\* Nobody else is between a claim of the same token and its answer.
LEMMA ClaimRefreshKept ==
  ASSUME ControlsOK, AccessInv, NEW p \in Processes, ClaimTokenRefresh(p)
  PROVE  AccessInv'
<1>0. /\ link \in Link /\ refresh \in [Processes -> Refresh] /\ refresh[p] \in Refresh
      /\ RefreshLease \in Nat /\ RefreshLease > 0
      /\ UNCHANGED <<oauth, latest, flow, grant, spilt, trouble>> /\ refresh[p].pc = "claim"
  BY DEF AccessInv, AccessTypeOK, ControlsOK, ClaimTokenRefresh, OnlyRefresh, Refreshing
<1>1. CASE RefreshFree(p)
  <2> DEFINE c == ClaimOf(refresh[p], RefreshLease - 1)
  <2>1. /\ c \in Refresh /\ c.pc = "exchange" /\ c.id = refresh[p].id /\ c.token = refresh[p].token
        /\ c.left = RefreshLease - 1
    <3>1. RefreshLease - 1 \in Int
      BY <1>0
    <3> QED
      BY <1>0, <3>1, ClaimIs
  <2>2. refresh' = [refresh EXCEPT ![p] = c]
    BY <1>0, <1>1 DEF ClaimTokenRefresh, Refresh, ClaimOf
  <2>3. /\ link' \in Link /\ link'.id = link.id /\ link'.status = link.status /\ link'.token = link.token
        /\ link'.holder = p /\ link'.lease = RefreshLease /\ link.lease = 0
    <3>1. link' = HeldLink(link, p, RefreshLease) /\ link.lease = 0 /\ RefreshLease \in Int
      BY <1>0, <1>1 DEF ClaimTokenRefresh, RefreshFree, HeldLink
    <3> QED
      BY <1>0, <3>1, HeldIs
  <2> HIDE DEF c
  <2>4. /\ refresh' \in [Processes -> Refresh] /\ \A q \in Processes \ {p} : refresh'[q] = refresh[q]
        /\ refresh'[p] = c
    BY <2>1, <2>2, RefreshMoveType DEF AccessInv
  <2>5. ASSUME NEW q \in Processes, Bound(q) PROVE ~SameBundle(q)
    BY <2>3, <2>5 DEF AccessInv, AccessTypeOK, Refresh, RefreshSound, Bound
  <2>6. ASSUME NEW q \in Processes PROVE RefreshSound(q)'
    <3>1. CASE q = p
      BY <1>0, <2>1, <2>3, <2>4, <3>1 DEF AccessInv, RefreshSound, Refreshing, Bound
    <3>2. CASE q # p
      <4>1. ~(Bound(q)' /\ SameBundle(q)')
        BY <2>3, <2>4, <2>5, <3>2 DEF Bound, SameBundle
      <4> QED
        BY <1>0, <2>3, <2>4, <3>2, <4>1 DEF AccessInv, RefreshSound, Refreshing
    <3> QED
      BY <3>1, <3>2
  <2>7. GrantKept'
    BY <1>0, <2>3, <2>5 DEF AccessInv, GrantKept, Refreshing, Claimed, Bound
  <2> QED
    BY <1>0, <2>3, <2>4, <2>6, <2>7, RefreshStepKept DEF RefreshMoves, AccessInv, AccessTypeOK
<1>2. CASE ~RefreshFree(p)
  <2>1. Finish(p) /\ link' = link
    BY <1>2 DEF ClaimTokenRefresh
  <2>2. /\ refresh' \in [Processes -> Refresh] /\ \A q \in Processes \ {p} : refresh'[q] = refresh[q]
        /\ refresh'[p].pc = "idle"
    BY <2>1, FinishMoves DEF AccessInv
  <2>3. ASSUME NEW q \in Processes PROVE RefreshSound(q)'
    BY <1>0, <2>1, <2>2 DEF AccessInv, RefreshSound, Refreshing, Bound, SameBundle
  <2>4. GrantKept'
    <3>1. ASSUME NEW q \in Processes, Refreshing(q, "complete") PROVE q # p
      BY <1>0, <3>1 DEF Refreshing
    <3> QED
      BY <3>1, <1>0, <2>1, <2>2 DEF AccessInv, GrantKept, Refreshing, Claimed, SameBundle
  <2> QED
    BY <1>0, <2>1, <2>2, <2>3, <2>4, RefreshStepKept DEF RefreshMoves, AccessInv, AccessTypeOK
<1> QED
  BY <1>1, <1>2

\* The provider answers, or its answer is lost.
LEMMA ProceedMoves ==
  ASSUME AccessTypeOK, NEW p \in Processes, NEW pc \in {"complete", "release", "invalid"}, Proceed(p, pc)
  PROVE  /\ refresh' \in [Processes -> Refresh] /\ \A q \in Processes \ {p} : refresh'[q] = refresh[q]
         /\ refresh'[p].pc = pc /\ refresh'[p].id = refresh[p].id /\ refresh'[p].token = refresh[p].token
         /\ refresh'[p].left = refresh[p].left
<1> DEFINE c == [refresh[p] EXCEPT !.pc = pc]
<1>1. /\ c \in Refresh /\ c.pc = pc /\ c.id = refresh[p].id /\ c.token = refresh[p].token
      /\ c.left = refresh[p].left
  BY DEF AccessTypeOK, Refresh
<1>2. refresh' = [refresh EXCEPT ![p] = c]
  BY DEF Proceed, AccessTypeOK, Refresh
<1> HIDE DEF c
<1> QED
  BY <1>1, <1>2, RefreshMoveType

LEMMA RefreshTokenKept ==
  ASSUME ControlsOK, AccessInv, NEW p \in Processes, RefreshToken(p)
  PROVE  AccessInv'
<1>0. /\ link \in Link /\ link.token \in Int /\ link.id \in Int /\ grant \in Int /\ spilt \in BOOLEAN /\ trouble \in Int
      /\ refresh \in [Processes -> Refresh] /\ refresh[p].pc = "exchange"
      /\ refresh[p].id \in Int /\ refresh[p].token \in Int /\ refresh[p].left \in Int
      /\ UNCHANGED <<link, oauth, latest, flow>> /\ link.token <= grant
  BY DEF AccessInv, AccessTypeOK, RefreshToken, OnlyRefresh, Refreshing, Refresh, Link
<1>1. RefreshSound(p) /\ (Bound(p) /\ SameBundle(p) => link.holder = p /\ link.lease > refresh[p].left) /\ Bound(p)
  BY <1>0 DEF AccessInv, RefreshSound, Bound
<1>2. ASSUME NEW q \in Processes, Refreshing(q, "complete") PROVE q # p
  BY <1>0, <1>2 DEF Refreshing
<1>3. CASE Current(p) /\ grant' = grant + 1 /\ UNCHANGED <<spilt, trouble>>
           /\ refresh' = [refresh EXCEPT ![p].pc = "complete", ![p].answer = grant + 1]
  <2> DEFINE c == AnswerOf(refresh[p], grant + 1)
  <2>1. /\ c \in Refresh /\ c.pc = "complete" /\ c.id = refresh[p].id /\ c.token = refresh[p].token
        /\ c.left = refresh[p].left /\ c.answer = grant + 1
    <3>1. grant + 1 \in Int /\ refresh[p] \in Refresh
      BY <1>0
    <3> QED
      BY <3>1, AnswerIs
  <2>2. refresh' = [refresh EXCEPT ![p] = c]
    BY <1>0, <1>3 DEF Refresh, AnswerOf
  <2> HIDE DEF c
  <2>3. /\ refresh' \in [Processes -> Refresh] /\ \A q \in Processes \ {p} : refresh'[q] = refresh[q]
        /\ refresh'[p] = c
    BY <2>1, <2>2, RefreshMoveType DEF AccessInv
  <2>4. refresh[p].token = grant /\ refresh[p].id = link.id /\ link.token = grant
    BY <1>0, <1>1, <1>3 DEF Current, RefreshSound
  <2>5. RefreshSound(p)'
    BY <1>0, <1>1, <1>3, <2>1, <2>3, <2>4 DEF RefreshSound, Refreshing, Bound, SameBundle
  <2>6. ASSUME NEW q \in Processes, q # p PROVE RefreshSound(q)'
    <3>1. refresh'[q] = refresh[q] /\ refresh[q] \in Refresh /\ RefreshSound(q)
      BY <1>0, <2>3, <2>6 DEF AccessInv
    <3> QED
      BY <1>0, <1>3, <3>1 DEF RefreshSound, Refreshing, Bound, SameBundle, Refresh
  <2>7. GrantKept'
    <3>1. SUFFICES ASSUME link.status \in {"active", "error"}, ~spilt PROVE GrantKept'
      BY <1>0, <1>3 DEF GrantKept
    <3>2. link.status = "active"
      BY <3>1 DEF AccessInv, GrantKept, Claimed, SameBundle
    <3>3. Claimed(p)' /\ Refreshing(p, "complete")' /\ refresh'[p].answer = grant'
      BY <1>0, <1>1, <1>3, <2>1, <2>3, <2>4, <3>2 DEF Claimed, SameBundle, Refreshing
    <3> QED
      BY <3>3 DEF GrantKept
  <2>8. grant' \in Int /\ link'.token <= grant'
    BY <1>0, <1>3
  <2> QED
    BY <1>0, <1>3, <2>3, <2>5, <2>6, <2>7, <2>8, RefreshStepKept DEF RefreshMoves
<1>4. ASSUME NEW pc \in {"complete", "release", "invalid"}, Proceed(p, pc),
             pc = "complete" => link.id # refresh[p].id,
             pc = "invalid" => refresh[p].token # grant,
             (grant' = grant /\ spilt' = spilt) \/ (grant' = grant + 1 /\ spilt' = TRUE), trouble' \in Int
      PROVE  AccessInv'
  <2>1. /\ refresh' \in [Processes -> Refresh] /\ \A q \in Processes \ {p} : refresh'[q] = refresh[q]
        /\ refresh'[p].pc = pc /\ refresh'[p].id = refresh[p].id /\ refresh'[p].token = refresh[p].token
        /\ refresh'[p].left = refresh[p].left
    BY <1>4, ProceedMoves DEF AccessInv
  <2>2. grant' \in Int /\ grant' >= grant
    BY <1>0, <1>4
  <2>7. spilt' \in BOOLEAN
    BY <1>0, <1>4
  <2>3. RefreshSound(p)'
    BY <1>0, <1>1, <1>4, <2>1, <2>2 DEF RefreshSound, Refreshing, Bound, SameBundle
  <2>4. ASSUME NEW q \in Processes, q # p PROVE RefreshSound(q)'
    <3>1. refresh'[q] = refresh[q] /\ refresh[q] \in Refresh /\ RefreshSound(q)
      BY <1>0, <2>1, <2>4 DEF AccessInv
    <3> QED
      BY <1>0, <2>2, <3>1 DEF RefreshSound, Refreshing, Bound, SameBundle, Refresh
  <2>5. GrantKept'
    <3>1. SUFFICES ASSUME link.status \in {"active", "error"}, ~spilt, spilt' = spilt, grant' = grant PROVE GrantKept'
      BY <1>0, <1>4 DEF GrantKept
    <3> QED
      BY <1>0, <1>2, <2>1, <3>1 DEF AccessInv, GrantKept, Claimed, SameBundle, Refreshing
  <2>6. link'.token <= grant'
    BY <1>0, <2>2
  <2> QED
    BY <1>0, <1>4, <2>1, <2>2, <2>3, <2>4, <2>5, <2>6, <2>7, RefreshStepKept DEF RefreshMoves
<1>5. CASE link.id = refresh[p].id /\ refresh[p].token # grant /\ Proceed(p, "invalid") /\ UNCHANGED <<grant, spilt, trouble>>
  BY <1>0, <1>4, <1>5
<1>6. CASE link.id # refresh[p].id /\ Proceed(p, "complete") /\ UNCHANGED <<grant, spilt, trouble>>
  BY <1>0, <1>4, <1>6
<1>7. CASE /\ Fails /\ Proceed(p, "release")
           /\ UNCHANGED <<grant, spilt>> \/ (Current(p) /\ grant' = grant + 1 /\ spilt' = TRUE)
  <2>1. trouble' \in Int /\ ((grant' = grant /\ spilt' = spilt) \/ (grant' = grant + 1 /\ spilt' = TRUE))
    BY <1>0, <1>7 DEF Fails
  <2> QED
    BY <1>4, <1>7, <2>1
<1> QED
  BY <1>3, <1>5, <1>6, <1>7 DEF RefreshToken

\* What an answer does to the claimed link.
Freed(l) == [l EXCEPT !.holder = Noone, !.lease = 0]
Stored(l, answer) == [Freed(l) EXCEPT !.token = answer, !.aged = FALSE]
Ended(l, status) == [Freed(l) EXCEPT !.status = status]
LEMMA FreedIs ==
  ASSUME NEW l \in Link
  PROVE  LET c == Freed(l) IN
         c \in Link /\ c.id = l.id /\ c.status = l.status /\ c.token = l.token /\ c.holder = Noone
<1>1. Freed(l) = HeldLink(l, Noone, 0)
  BY Zenon DEF Freed, HeldLink
<1>2. Noone \in Processes \cup {Noone} /\ 0 \in Int
  OBVIOUS
<1> QED
  BY <1>1, <1>2, HeldIs
LEMMA StoredIs ==
  ASSUME NEW l \in Link, NEW answer \in Int
  PROVE  LET c == Stored(l, answer) IN
         c \in Link /\ c.id = l.id /\ c.status = l.status /\ c.token = answer /\ c.holder = Noone
<1> DEFINE f == Freed(l)
<1>1. f \in Link /\ f.id = l.id /\ f.status = l.status /\ f.holder = Noone
  BY FreedIs
<1>2. Stored(l, answer) = [f EXCEPT !.token = answer, !.aged = FALSE]
  BY Zenon DEF Stored
<1> HIDE DEF f
<1>3. [f EXCEPT !.token = answer, !.aged = FALSE] \in Link
  BY <1>1 DEF Link
<1>4. LET c == [f EXCEPT !.token = answer, !.aged = FALSE] IN
      c.id = f.id /\ c.status = f.status /\ c.token = answer /\ c.holder = f.holder
  BY <1>1 DEF Link
<1> QED
  BY <1>1, <1>2, <1>3, <1>4
LEMMA EndedIs ==
  ASSUME NEW l \in Link, NEW status \in {"none", "active", "error", "revoked"}
  PROVE  LET c == Ended(l, status) IN
         c \in Link /\ c.id = l.id /\ c.status = status /\ c.token = l.token /\ c.holder = Noone
BY FreedIs DEF Link, Ended
LEMMA EndedAsIs ==
  ASSUME NEW l \in Link PROVE Freed(l) = Ended(l, l.status)
<1>1. Freed(l) \in Link /\ Freed(l).status = l.status
  BY FreedIs
<1> QED
  BY <1>1 DEF Ended, Link

\* What a process has, and who holds the claim when it does.
LEMMA InHand ==
  ASSUME ControlsOK, AccessInv, NEW p \in Processes, Bound(p)
  PROVE  /\ link \in Link /\ link.id \in Int /\ link.token \in Int /\ grant \in Int /\ link.token <= grant
         /\ spilt \in BOOLEAN /\ trouble \in Int
         /\ refresh \in [Processes -> Refresh] /\ refresh[p].id \in Int /\ refresh[p].token \in Int
         /\ refresh[p].answer \in Int /\ refresh[p].left \in Int
         /\ \A q \in Processes : RefreshSound(q)
         /\ \A q \in Processes : Claimed(p) /\ Claimed(q) => q = p
BY DEF AccessInv, AccessTypeOK, Refresh, Link, Claimed, ControlsOK

LEMMA CompleteRefreshKept ==
  ASSUME ControlsOK, AccessInv, NEW p \in Processes, CompleteTokenRefresh(p)
  PROVE  AccessInv'
<1>0. /\ Bound(p) /\ refresh[p].pc = "complete" /\ UNCHANGED <<oauth, latest, flow, grant, spilt, trouble>>
      /\ refresh' \in [Processes -> Refresh] /\ \A q \in Processes \ {p} : refresh'[q] = refresh[q]
      /\ refresh'[p].pc = "idle"
  BY FinishMoves DEF CompleteTokenRefresh, OnlyRefresh, Refreshing, Bound, AccessInv
<1>1. CASE Claimed(p)
  <2>1. link' = Stored(link, refresh[p].answer)
    BY <1>1 DEF CompleteTokenRefresh, Stored, Unclaimed, Freed
  <2>2. link' \in Link /\ link'.id = link.id /\ link'.status = link.status /\ link'.token = refresh[p].answer
    BY <1>0, <2>1, InHand, StoredIs
  <2>3. /\ link.id = refresh[p].id /\ link.token = refresh[p].token /\ link.status = "active"
        /\ refresh[p].answer > refresh[p].token /\ refresh[p].answer <= grant
    BY <1>0, <1>1, InHand DEF Claimed, SameBundle, RefreshSound, Refreshing
  <2>4. ASSUME NEW q \in Processes, q # p PROVE RefreshSound(q)'
    <3>1. refresh'[q] = refresh[q] /\ refresh[q] \in Refresh /\ RefreshSound(q)
      BY <1>0, <2>4, InHand
    <3> QED
      BY <1>0, <2>2, <2>3, <3>1, InHand DEF RefreshSound, Refreshing, Bound, SameBundle, Refresh
  <2>5. RefreshSound(p)'
    BY <1>0 DEF RefreshSound
  <2>6. GrantKept'
    <3>1. SUFFICES ASSUME ~spilt PROVE GrantKept'
      BY <1>0 DEF GrantKept
    <3>2. \/ link.token = grant
          \/ \E q \in Processes : Refreshing(q, "complete") /\ refresh[q].answer = grant /\ Claimed(q)
      BY <2>3, <3>1 DEF AccessInv, GrantKept
    <3>3. refresh[p].answer = grant
      BY <1>0, <1>1, <2>3, <3>2, InHand
    <3> QED
      BY <1>0, <2>2, <2>3, <3>3 DEF GrantKept
  <2>7. link'.token <= grant'
    BY <1>0, <2>2, <2>3
  <2> QED
    BY <1>0, <2>2, <2>4, <2>5, <2>6, <2>7, InHand, RefreshStepKept DEF RefreshMoves
<1>2. CASE ~Claimed(p)
  <2>1. link' = link
    BY <1>2 DEF CompleteTokenRefresh
  <2>2. ASSUME NEW q \in Processes PROVE RefreshSound(q)'
    BY <1>0, <2>1 DEF AccessInv, RefreshSound, Refreshing, Bound, SameBundle
  <2>3. GrantKept'
    BY <1>0, <1>2, <2>1 DEF AccessInv, GrantKept, Refreshing, Claimed, SameBundle
  <2> QED
    BY <1>0, <2>1, <2>2, <2>3, InHand, RefreshStepKept DEF RefreshMoves
<1> QED
  BY <1>1, <1>2

\* A refresh that failed gives up its claim, or the connection with it.
LEMMA EndRefreshKept ==
  ASSUME ControlsOK, AccessInv, NEW p \in Processes,
         ReleaseTokenRefresh(p) \/ MarkRefreshAuthorizationRequired(p)
  PROVE  AccessInv'
<1>0. /\ Bound(p) /\ refresh[p].pc \in {"release", "invalid"}
      /\ UNCHANGED <<oauth, latest, flow, grant, spilt, trouble>>
      /\ refresh' \in [Processes -> Refresh] /\ \A q \in Processes \ {p} : refresh'[q] = refresh[q]
      /\ refresh'[p].pc = "idle"
  BY FinishMoves
  DEF ReleaseTokenRefresh, MarkRefreshAuthorizationRequired, OnlyRefresh, Refreshing, Bound, AccessInv
<1>1. CASE Claimed(p)
  <2>1. /\ link.id = refresh[p].id /\ link.token = refresh[p].token /\ link.status = "active"
        /\ \A q \in Processes : Claimed(q) => q = p
    BY <1>0, <1>1, InHand DEF Claimed, SameBundle
  <2>2. PICK status \in {"active", "error"} :
          link' = Ended(link, status) /\ (status = "error" => Refreshing(p, "invalid"))
    <3>1. CASE ReleaseTokenRefresh(p)
      <4>1. link' = Freed(link) /\ link \in Link
        BY <1>0, <1>1, <3>1, InHand DEF ReleaseTokenRefresh, Unclaimed, Freed
      <4> QED
        BY <2>1, <4>1, EndedAsIs
    <3>2. CASE MarkRefreshAuthorizationRequired(p)
      <4>1. link' = [Unclaimed EXCEPT !.status = "error"] /\ Refreshing(p, "invalid")
        BY <1>1, <3>2, Zenon DEF MarkRefreshAuthorizationRequired
      <4>2. link' = Ended(link, "error")
        BY <4>1, Zenon DEF Unclaimed, Ended, Freed
      <4> QED
        BY <4>1, <4>2
    <3> QED
      BY <3>1, <3>2
  <2>3. link' \in Link /\ link'.id = link.id /\ link'.status = status /\ link'.token = link.token
    BY <1>0, <2>2, InHand, EndedIs
  <2>4. ASSUME NEW q \in Processes, q # p PROVE RefreshSound(q)'
    <3>1. refresh'[q] = refresh[q] /\ refresh[q] \in Refresh /\ RefreshSound(q)
      BY <1>0, <2>4, InHand
    <3>2. ~(Bound(q) /\ SameBundle(q))
      BY <1>1, <2>1, <2>4, <3>1 DEF RefreshSound, Claimed, Bound
    <3>3. ~(Bound(q)' /\ SameBundle(q)')
      BY <2>1, <2>3, <3>1, <3>2 DEF Bound, SameBundle
    <3> QED
      BY <1>0, <2>3, <3>1, <3>3 DEF RefreshSound, Refreshing
  <2>5. RefreshSound(p)'
    BY <1>0 DEF RefreshSound
  <2>6. GrantKept'
    <3>1. SUFFICES ASSUME ~spilt PROVE GrantKept'
      BY <1>0 DEF GrantKept
    <3>2. link.token = grant
      BY <1>0, <2>1, <3>1 DEF AccessInv, GrantKept, Refreshing
    <3>3. status = "active"
      <4>1. RefreshSound(p) /\ grant \in Int /\ refresh[p].token = grant
        BY <1>0, <2>1, <3>2, InHand
      <4>2. ~Refreshing(p, "invalid")
        BY <2>1, <4>1 DEF RefreshSound, Refreshing
      <4> QED
        BY <2>2, <4>2
    <3> QED
      BY <1>0, <2>3, <3>2, <3>3 DEF GrantKept
  <2> QED
    BY <1>0, <2>1, <2>3, <2>4, <2>5, <2>6, InHand, RefreshStepKept DEF RefreshMoves
<1>2. CASE ~Claimed(p)
  <2>1. link' = link
    BY <1>2 DEF ReleaseTokenRefresh, MarkRefreshAuthorizationRequired
  <2>2. ASSUME NEW q \in Processes PROVE RefreshSound(q)'
    BY <1>0, <2>1 DEF AccessInv, RefreshSound, Refreshing, Bound, SameBundle
  <2>3. GrantKept'
    BY <1>0, <1>2, <2>1 DEF AccessInv, GrantKept, Refreshing, Claimed, SameBundle
  <2> QED
    BY <1>0, <2>1, <2>2, <2>3, InHand, RefreshStepKept DEF RefreshMoves
<1> QED
  BY <1>1, <1>2

LEMMA ProcessDiesKept ==
  ASSUME ControlsOK, AccessInv, NEW p \in Processes, ProcessDies(p)
  PROVE  AccessInv'
<1>0. /\ UNCHANGED <<link, oauth, latest, flow, grant>> /\ trouble' \in Int /\ spilt' \in BOOLEAN
      /\ spilt' = (spilt \/ (Refreshing(p, "complete") /\ link.id = refresh[p].id))
      /\ refresh' \in [Processes -> Refresh] /\ \A q \in Processes \ {p} : refresh'[q] = refresh[q]
      /\ refresh'[p].pc = "idle"
  <2>1. UNCHANGED <<link, oauth, latest, flow, grant>> /\ trouble' \in Int
    BY DEF ProcessDies, OnlyRefresh, Fails, AccessInv, AccessTypeOK
  <2>2. spilt' = (spilt \/ (Refreshing(p, "complete") /\ link.id = refresh[p].id))
    BY DEF ProcessDies
  <2>3. spilt' \in BOOLEAN
    BY <2>2
  <2>4. /\ refresh' \in [Processes -> Refresh] /\ \A q \in Processes \ {p} : refresh'[q] = refresh[q]
        /\ refresh'[p].pc = "idle"
    BY FinishMoves DEF ProcessDies, AccessInv
  <2> QED
    BY <2>1, <2>2, <2>3, <2>4
<1>1. ASSUME NEW q \in Processes PROVE RefreshSound(q)'
  BY <1>0 DEF AccessInv, RefreshSound, Refreshing, Bound, SameBundle
<1>2. GrantKept'
  <2>1. SUFFICES ASSUME ~spilt' PROVE GrantKept'
    BY DEF GrantKept
  <2>2. ~spilt /\ ~(Refreshing(p, "complete") /\ link.id = refresh[p].id)
    BY <1>0, <2>1
  <2> QED
    BY <1>0, <2>2 DEF AccessInv, GrantKept, Refreshing, Claimed, SameBundle
<1>3. link' \in Link /\ grant' \in Int /\ link'.token <= grant'
  BY <1>0 DEF AccessInv, AccessTypeOK
<1> QED
  BY <1>0, <1>1, <1>2, <1>3, RefreshStepKept DEF RefreshMoves

\* A connection is stored for the last attempt, and none of its refreshes is under way.
LEMMA ReplaceKept ==
  ASSUME ControlsOK, AccessInv, NEW a \in Attempts, ReplaceConnection(a)
  PROVE  AccessInv' /\ LatestConnects
<1>0. /\ flow' \in [Attempts -> {"none", "exchange", "replace"}] /\ UNCHANGED <<refresh, trouble>>
  BY DEF ReplaceConnection, AccessInv, AccessTypeOK
<1>1. CASE AttemptCurrent(a) /\ ~CredentialNeeded
  <2>1. link' = NewLink(a) /\ grant' = 1 /\ spilt' = FALSE /\ oauth' = [oauth EXCEPT ![a] = "gone"] /\ latest' = 0
        /\ oauth[a] = "consumed" /\ latest = a
    BY <1>1 DEF ReplaceConnection, Connect, AttemptCurrent
  <2>2. MaxAttempts \in Nat /\ a \in 0..MaxAttempts /\ a # 0
    BY DEF ControlsOK, Attempts
  <2>3. link' \in Link /\ link'.id = a /\ link'.status = "active" /\ link'.token = 1
    BY <2>1, <2>2 DEF NewLink, Link
  <2>4. AccessTypeOK'
    <3>1. oauth' \in [Attempts -> {Unused, "active", "consumed", "gone"}]
      BY <2>1 DEF AccessInv, AccessTypeOK
    <3>2. latest' \in 0..MaxAttempts /\ grant' \in Int
      BY <2>1, <2>2
    <3>3. spilt' \in BOOLEAN /\ trouble' \in Int
      BY <1>0, <2>1 DEF AccessInv, AccessTypeOK
    <3> QED
      BY <1>0, <2>3, <3>1, <3>2, <3>3 DEF AccessInv, AccessTypeOK
  <2>5. AttemptsSound'
    <3>1. \A b \in Attempts : oauth'[b] # Unused <=> oauth[b] # Unused
      BY <2>1 DEF AccessInv, AccessTypeOK, Unused
    <3>2. oauth'[a] = "gone"
      BY <2>1 DEF AccessInv, AccessTypeOK
    <3> QED
      BY <2>1, <2>2, <2>3, <3>1, <3>2 DEF AccessInv, AttemptsSound
  <2>6. ASSUME NEW p \in Processes PROVE RefreshSound(p)'
    <3>1. RefreshSound(p) /\ refresh'[p] = refresh[p]
      BY <1>0 DEF AccessInv
    <3>2. SUFFICES ASSUME refresh[p].pc # "idle" PROVE RefreshSound(p)'
      BY <3>1 DEF RefreshSound
    <3>3. refresh[p].id \in Attempts /\ oauth[refresh[p].id] = "gone" /\ refresh[p].left >= 0
      BY <3>1, <3>2 DEF RefreshSound
    <3>4. refresh[p].id # a
      BY <2>1, <3>3
    <3>5. oauth'[refresh[p].id] = "gone"
      BY <2>1, <3>3, <3>4 DEF AccessInv, AccessTypeOK
    <3> QED
      BY <2>3, <3>1, <3>3, <3>4, <3>5 DEF RefreshSound, Refreshing, SameBundle
  <2>7. GrantKept' /\ link'.token <= grant'
    BY <2>1, <2>3 DEF GrantKept
  <2>8. LatestConnects
    BY <2>1, <2>2, <2>3 DEF LatestConnects, AccessInv, AttemptsSound
  <2> QED
    BY <2>4, <2>5, <2>6, <2>7, <2>8 DEF AccessInv
<1>2. CASE ~(AttemptCurrent(a) /\ ~CredentialNeeded)
  <2>1. UNCHANGED <<link, grant, spilt, oauth, latest>>
    BY <1>2 DEF ReplaceConnection
  <2>2. AccessTypeOK' /\ AttemptsSound' /\ GrantKept'
    BY <1>0, <2>1 DEF AccessInv, AccessTypeOK, AttemptsSound, GrantKept, Refreshing, Claimed, SameBundle
  <2>3. ASSUME NEW p \in Processes PROVE RefreshSound(p)'
    BY <1>0, <2>1 DEF AccessInv, RefreshSound, Refreshing, Bound, SameBundle
  <2>4. LatestConnects
    BY <2>1 DEF LatestConnects
  <2> QED
    BY <2>1, <2>2, <2>3, <2>4 DEF AccessInv
<1> QED
  BY <1>1, <1>2

\* The connection is lost: nothing can be claimed or stored any more.
LEMMA LinkLostKept ==
  ASSUME ControlsOK, AccessInv, link' \in Link, link'.id = link.id, link'.token = link.token,
         link'.status \notin {"active"}, link'.status = "error" => link.status \in {"active", "error"},
         link'.status = "error" => spilt' = TRUE, spilt' \in BOOLEAN, trouble' \in Int,
         UNCHANGED <<oauth, latest, flow, refresh, grant>>
  PROVE  AccessInv'
<1>1. AccessTypeOK' /\ link'.token <= grant'
  BY DEF AccessInv, AccessTypeOK
<1>2. AttemptsSound'
  BY DEF AccessInv, AttemptsSound
<1>3. ASSUME NEW p \in Processes PROVE RefreshSound(p)'
  BY DEF AccessInv, RefreshSound, Refreshing, SameBundle
<1>4. GrantKept'
  BY DEF GrantKept
<1> QED
  BY <1>1, <1>2, <1>3, <1>4 DEF AccessInv

LEMMA RevokeKept ==
  ASSUME ControlsOK, AccessInv, RevokeConnection PROVE AccessInv' /\ link'.id = link.id
<1>1. link' = [Unclaimed EXCEPT !.status = "revoked"] /\ UNCHANGED <<oauth, latest, flow, refresh, grant, spilt, trouble>>
  BY Zenon DEF RevokeConnection
<1>2. link' = Ended(link, "revoked")
  BY <1>1, Zenon DEF Unclaimed, Ended, Freed
<1>3. link \in Link /\ spilt \in BOOLEAN /\ trouble \in Int
  BY DEF AccessInv, AccessTypeOK
<1>4. link' \in Link /\ link'.id = link.id /\ link'.token = link.token /\ link'.status = "revoked"
  BY <1>2, <1>3, EndedIs
<1> QED
  BY <1>1, <1>3, <1>4, LinkLostKept

LEMMA RefusedKept ==
  ASSUME ControlsOK, AccessInv, NEW w \in Editors, AuthorizationRefused(w) PROVE AccessInv' /\ link'.id = link.id
<1>1. UNCHANGED <<oauth, latest, flow, refresh, grant>> /\ spilt' = TRUE /\ trouble' \in Int /\ link \in Link
  BY DEF AuthorizationRefused, Fails, AccessInv, AccessTypeOK
<1>2. CASE link.status = "active"
  <2>1. link' = [Unclaimed EXCEPT !.status = "error"]
    BY <1>2, Zenon DEF AuthorizationRefused
  <2>2. link' = Ended(link, "error")
    BY <2>1, Zenon DEF Unclaimed, Ended, Freed
  <2>3. link' \in Link /\ link'.id = link.id /\ link'.token = link.token /\ link'.status = "error"
    BY <1>1, <2>2, EndedIs
  <2> QED
    BY <1>1, <1>2, <2>3, LinkLostKept
<1>3. CASE link.status # "active"
  <2>1. link' = link
    BY <1>3, Zenon DEF AuthorizationRefused
  <2> QED
    BY <1>1, <1>3, <2>1, LinkLostKept
<1> QED
  BY <1>2, <1>3

LEMMA LeaseIs ==
  ASSUME NEW l \in Link, NEW n \in Int
  PROVE  LET c == [l EXCEPT !.lease = n] IN
         /\ c \in Link /\ c.id = l.id /\ c.status = l.status /\ c.token = l.token /\ c.holder = l.holder
         /\ c.lease = n
BY DEF Link
LEMMA LeftIs ==
  ASSUME NEW r \in Refresh, NEW n \in Int
  PROVE  LET c == [r EXCEPT !.left = n] IN
         /\ c \in Refresh /\ c.pc = r.pc /\ c.id = r.id /\ c.token = r.token /\ c.answer = r.answer /\ c.left = n
BY DEF Refresh

\* Time passes: a call ends before the lease of its claim.
LEMMA LessIs == ASSUME NEW n \in Int PROVE Less(n) \in Int /\ (n > 0 => Less(n) = n - 1)
BY DEF Less
LEMMA TickKept ==
  ASSUME ControlsOK, AccessInv, Tick PROVE AccessInv' /\ link'.id = link.id
<1>1. /\ UNCHANGED <<oauth, latest, flow, grant, spilt, trouble>> /\ link \in Link
      /\ refresh \in [Processes -> Refresh] /\ link.lease \in Int
  BY DEF Tick, AccessInv, AccessTypeOK, Link
<1>2. /\ link' \in Link /\ link'.id = link.id /\ link'.status = link.status /\ link'.token = link.token
      /\ link'.holder = link.holder /\ link'.lease = Less(link.lease)
  <2> DEFINE n == Less(link.lease)
  <2>1. n \in Int
    BY <1>1, LessIs
  <2>2. link' = [link EXCEPT !.lease = n]
    BY DEF Tick
  <2> HIDE DEF n
  <2>3. /\ link' \in Link /\ link'.id = link.id /\ link'.status = link.status /\ link'.token = link.token
        /\ link'.holder = link.holder /\ link'.lease = n
    BY <1>1, <2>1, <2>2, LeaseIs
  <2> QED
    BY <2>3 DEF n
<1>3. ASSUME NEW p \in Processes
      PROVE  /\ refresh'[p] \in Refresh /\ refresh'[p].pc = refresh[p].pc /\ refresh'[p].id = refresh[p].id
             /\ refresh'[p].token = refresh[p].token /\ refresh'[p].answer = refresh[p].answer
             /\ refresh'[p].left = Less(refresh[p].left)
             /\ refresh[p].pc \notin {"idle", "claim"} => refresh[p].left > 0
  <2> DEFINE n == Less(refresh[p].left)
  <2>1. refresh[p] \in Refresh /\ refresh[p].left \in Int
    BY <1>1 DEF Refresh
  <2>2. n \in Int
    BY <2>1, LessIs
  <2>3. refresh'[p] = [refresh[p] EXCEPT !.left = n] /\ (refresh[p].pc \notin {"idle", "claim"} => refresh[p].left > 0)
    BY DEF Tick, TickRefresh, Less
  <2> HIDE DEF n
  <2>4. /\ refresh'[p] \in Refresh /\ refresh'[p].pc = refresh[p].pc /\ refresh'[p].id = refresh[p].id
        /\ refresh'[p].token = refresh[p].token /\ refresh'[p].answer = refresh[p].answer
        /\ refresh'[p].left = n
    BY <2>1, <2>2, <2>3, LeftIs
  <2> QED
    BY <2>3, <2>4 DEF n
<1>4. refresh' \in [Processes -> Refresh]
  <2>1. refresh' = [p \in Processes |-> refresh'[p]]
    BY DEF Tick, TickRefresh
  <2> QED
    BY <1>3, <2>1
<1>5. AccessTypeOK' /\ AttemptsSound' /\ link'.token <= grant'
  BY <1>1, <1>2, <1>4 DEF AccessInv, AccessTypeOK, AttemptsSound
<1>6. ASSUME NEW p \in Processes PROVE RefreshSound(p)'
  <2>1. RefreshSound(p) /\ refresh[p] \in Refresh /\ refresh[p].left \in Int
    BY <1>1 DEF AccessInv, Refresh
  <2>2. refresh[p].left >= 0 => Less(refresh[p].left) >= 0
    BY <2>1 DEF Less
  <2>3. Bound(p)' /\ SameBundle(p)' => link'.holder = p /\ link'.lease > refresh'[p].left
    <3>1. SUFFICES ASSUME Bound(p), SameBundle(p) PROVE link.holder = p /\ Less(link.lease) > Less(refresh[p].left)
      BY <1>2, <1>3 DEF Bound, SameBundle
    <3>2. link.holder = p /\ link.lease > refresh[p].left /\ refresh[p].left > 0
      BY <1>3, <2>1, <3>1 DEF RefreshSound, Bound
    <3> QED
      BY <1>1, <2>1, <3>2 DEF Less
  <2> QED
    BY <1>1, <1>2, <1>3, <2>1, <2>2, <2>3 DEF RefreshSound, Refreshing
<1>7. GrantKept'
  BY <1>1, <1>2, <1>3 DEF AccessInv, GrantKept, Refreshing, Claimed, SameBundle
<1> QED
  BY <1>2, <1>5, <1>6, <1>7 DEF AccessInv

\* Other failures only count.
LEMMA AccessStill ==
  ASSUME ControlsOK, AccessInv, UNCHANGED calm, trouble' \in Int PROVE AccessInv' /\ link'.id = link.id
<1>1. UNCHANGED <<link, oauth, latest, flow, refresh, grant, spilt>>
  BY DEF calm
<1>2. AccessTypeOK' /\ AttemptsSound' /\ GrantKept'
  BY <1>1 DEF AccessInv, AccessTypeOK, AttemptsSound, GrantKept, Refreshing, Claimed, SameBundle
<1>3. ASSUME NEW p \in Processes PROVE RefreshSound(p)'
  BY <1>1 DEF AccessInv, RefreshSound, Refreshing, Bound, SameBundle
<1> QED
  BY <1>1, <1>2, <1>3 DEF AccessInv

LEMMA AccessInitSound == ASSUME ControlsOK, AccessInit PROVE AccessInv
<1>1. NoLink \in Link /\ NoLink.id = 0 /\ NoLink.status = "none" /\ NoLink.token = 0
  <2>1. MaxAttempts \in Nat /\ 0 \in 0..MaxAttempts
    BY DEF ControlsOK
  <2>2. NoLink \in Link
    BY <2>1 DEF NoLink, Link
  <2> QED
    BY <2>2 DEF NoLink
<1>2. AccessTypeOK
  <2>1. MaxAttempts \in Nat /\ 0 \in 0..MaxAttempts
    BY DEF ControlsOK
  <2>2. link \in Link /\ refresh \in [Processes -> Refresh]
    BY <1>1, NoRefreshIs DEF AccessInit
  <2>3. oauth \in [Attempts -> {Unused, "active", "consumed", "gone"}] /\ flow \in [Attempts -> {"none", "exchange", "replace"}]
    BY DEF AccessInit
  <2>4. spilt \in BOOLEAN
    BY DEF AccessInit
  <2>5. latest \in 0..MaxAttempts /\ grant \in Int /\ trouble \in Int
    BY <2>1 DEF AccessInit
  <2> QED
    BY <2>2, <2>3, <2>4, <2>5 DEF AccessTypeOK
<1>3. AttemptsSound
  BY <1>1 DEF AccessInit, AttemptsSound, Unused
<1>4. GrantKept
  BY <1>1 DEF AccessInit, GrantKept
<1>5. ASSUME NEW p \in Processes PROVE RefreshSound(p)
  BY NoRefreshIs DEF AccessInit, RefreshSound
<1>6. link.token <= grant
  BY <1>1 DEF AccessInit
<1> QED
  BY <1>2, <1>3, <1>4, <1>5, <1>6 DEF AccessInv

LEMMA AccessStep ==
  ASSUME ControlsOK, AccessInv, [Next]_<<access, controls>> PROVE AccessInv' /\ LatestConnects
<1> USE DEF LatestConnects
<1>1. ASSUME NEW a \in Attempts, OAuthStep(a) PROVE AccessInv' /\ LatestConnects
  <2>1. link' = link
    BY <1>1 DEF OAuthStep, CreateDirectOAuthState, ConsumeDirectOAuthState, ExchangeCode, PurgeDirectOAuthState
  <2> QED
    BY <1>1, <2>1, OAuthKept
<1>2. ASSUME NEW p \in Processes, RefreshStep(p) PROVE AccessInv' /\ LatestConnects
  <2>1. AccessInv'
    BY <1>2, ReadTokenKept, ClaimRefreshKept, RefreshTokenKept, CompleteRefreshKept, EndRefreshKept, ProcessDiesKept
    DEF RefreshStep
  <2>2. link \in Link
    BY DEF AccessInv, AccessTypeOK
  <2>3. link'.id = link.id
    BY <1>2, <2>2
    DEF RefreshStep, ReadTokenMaterial, ClaimTokenRefresh, RefreshToken, CompleteTokenRefresh, ReleaseTokenRefresh,
        MarkRefreshAuthorizationRequired, ProcessDies, Unclaimed, Link
  <2> QED
    BY <2>1, <2>3
<1>3. CASE TokenAges
  <2>1. link \in Link
    BY DEF AccessInv, AccessTypeOK
  <2>2. link'.id = link.id
    BY <1>3, <2>1 DEF TokenAges, Link
  <2> QED
    BY <1>3, <2>2, TokenAgesKept
<1>4. ASSUME NEW w \in Editors, EditStep(w) \/ ListStep(w) PROVE UNCHANGED calm /\ trouble' \in Int
  <2>1. trouble \in Int
    BY DEF AccessInv, AccessTypeOK
  <2>2. CASE ListStep(w)
    BY <2>1, <2>2
    DEF ListStep, ClaimListSync, ListCampaigns, ReplaceExternalCampaigns, ReleaseListSync, Fails, access, calm
  <2>3. CASE EditStep(w)
    <3>1. ASSUME NEW r \in Requests, BeginRequest(w, r) \/ BeginReconcile(w, r) PROVE UNCHANGED calm /\ trouble' = trouble
      BY <3>1 DEF BeginRequest, BeginReconcile, EditOnly, Local, access, calm
    <3>2. CASE BeginLook(w) \/ ReadDetail(w) \/ SettleJournal(w) \/ ObserveEdit(w) \/ ChooseCreated(w)
               \/ ClaimEdit(w) \/ BeginWrite(w) \/ AcknowledgeOperation(w) \/ FinishEdit(w)
      BY <2>1, <3>2
      DEF BeginLook, ReadDetail, SettleJournal, ObserveEdit, ChooseCreated, ClaimEdit, BeginWrite,
          AcknowledgeOperation, FinishEdit, EditOnly, Local, access, calm
    <3>3. CASE WriteControl(w) \/ EditorDies(w)
      BY <2>1, <3>3 DEF WriteControl, EditorDies, Fails
    <3> QED
      BY <2>1, <2>3, <3>1, <3>2, <3>3 DEF EditStep
  <2> QED
    BY <1>4, <2>2, <2>3
<1>5. ASSUME NEW w \in Editors, EditStep(w) \/ ListStep(w) \/ AuthorizationRefused(w) PROVE AccessInv' /\ LatestConnects
  BY <1>4, <1>5, AccessStill, RefusedKept
<1>6. ASSUME NEW r \in Requests, LateWrite(r) PROVE AccessInv' /\ LatestConnects
  BY <1>6, AccessStill DEF LateWrite, access, AccessInv, AccessTypeOK
<1>7. CASE ChangedInAccount \/ UNCHANGED <<access, controls>>
  BY <1>7, AccessStill DEF ChangedInAccount, access, AccessInv, AccessTypeOK
<1>8. CASE RevokeConnection \/ Tick
  BY <1>8, RevokeKept, TickKept
<1>9. ASSUME NEW a \in Attempts, ReplaceConnection(a) PROVE AccessInv' /\ LatestConnects
  BY <1>9, ReplaceKept
<1> QED
  BY <1>1, <1>2, <1>3, <1>5, <1>6, <1>7, <1>8, <1>9 DEF Next
----------------------------------------------------------------------------
(* Edits and the list. *)

Shown == [value : Int, made : SUBSET Int]
Job == [job : {"none", "edit", "look", "choose", "sync"},
        pc : {"idle", "read", "settle", "observe", "claim", "chosen", "begin", "write", "ack", "finish",
              "list", "store", "unclaim"},
        r : Int, fence : Int, saw : Shown, then : {"", "match", "leave", "choose", "verify"},
        end : {"", "succeeded", "rejected", "uncertain"}]
ControlRow == [state : {"idle", "updating", "uncertain"}, op : Requests \cup {0}, started : BOOLEAN, lease : Int,
               desired : Shown, seen : Shown, version : Int]
JournalRow == [state : {"none", "updating", "uncertain", "succeeded", "rejected"},
               started : BOOLEAN, acked : BOOLEAN, desired : Shown]
ListRow == [generation : Int, lease : Int, claimed : BOOLEAN, epoch : Int]
SiteRow == [shows : Shown, late : SUBSET Requests, epoch : Nat]
RowsOK == control \in ControlRow /\ journal \in [Journaled -> JournalRow] /\ list \in ListRow
AccountOK == site \in SiteRow /\ sent \in [Requests -> Nat] /\ carried \subseteq Requests
ControlsTypeOK == RowsOK /\ AccountOK /\ edit \in [Editors -> Job]

\* What a goroutine has in hand.
Reads(w) == edit[w].pc \in {"read", "settle", "observe"}
JobSound(w) ==
  LET e == edit[w] IN
  /\ e.pc \in {"claim", "begin", "write", "ack", "finish"} => e.job = "edit" /\ e.r \in Requests
  /\ Reads(w) /\ e.then \in {"match", "verify"} => e.job = "edit" /\ e.r \in Requests
  /\ (Reads(w) /\ e.then = "choose") \/ e.pc = "chosen" => e.r \in Journaled
  /\ e.pc \in {"settle", "observe", "claim", "chosen"} => e.saw.value \in carried \cup {0} /\ e.saw.made \subseteq carried
  /\ e.pc = "chosen" => e.r \in carried
  /\ e.pc = "list" => e.then = ""
  /\ e.pc \in {"claim", "begin"} => e.then = "match"
  /\ e.pc = "finish" => e.end # ""
  /\ e.pc \in {"list", "store", "unclaim"} => e.fence <= list.generation
  /\ e.pc = "store" => e.saw.value <= site.epoch
ListSound ==
  /\ list.epoch <= site.epoch
  /\ \A w \in Editors : At(w, "store") /\ GenerationCurrent(w) => edit[w].saw.value >= list.epoch

Writers(r) == {w \in Editors : At(w, "write") /\ edit[w].r = r}
\* The claim succeeded; of these, nothing was written and nothing will be.
Post(w) == edit[w].pc \in {"begin", "write", "ack", "finish"} \/ (Reads(w) /\ edit[w].then = "verify")
Clean(w) == At(w, "begin") \/ (At(w, "finish") /\ edit[w].end = "rejected")
EditSound(w) ==
  LET r == edit[w].r IN
  /\ Post(w) /\ r \in Journaled => journal[r].state # "none"
  /\ Clean(w) => r \notin UnderWay \cup carried
  /\ At(w, "begin") => IF r \in Journaled THEN ~journal[r].started ELSE sent[r] = 0
  /\ At(w, "finish") /\ edit[w].end = "succeeded" /\ r \in Journaled => r \in carried
  /\ edit[w].job = "edit" /\ r \notin Journaled /\ edit[w].then = "match"
     /\ edit[w].pc \in {"read", "settle", "observe", "claim", "begin"} => sent[r] = 0
RequestSound(r) ==
  /\ sent[r] + Cardinality(Writers(r)) <= 1
  /\ r \in Journaled =>
       /\ journal[r].started => sent[r] + Cardinality(Writers(r)) = 1
       /\ ~journal[r].started => sent[r] + Cardinality(Writers(r)) = 0
       /\ journal[r].state = "none" => ~journal[r].started
       /\ journal[r].state # "none" => journal[r].desired.value = r \/ 0 \in journal[r].desired.made
  /\ r \in site.late \cup carried => sent[r] = 1
  /\ r \in UnderWay => control.op = r /\ control.started /\ r \notin carried
OnePost == \A v, w \in Editors : v # w /\ Post(v) /\ Post(w) => edit[v].r # edit[w].r
OnePlain == \A v, w \in Editors : v # w /\ edit[v].job = "edit" /\ edit[w].job = "edit" /\ edit[v].r = edit[w].r
                                  => edit[v].r \in Journaled
ControlSound ==
  /\ control.state = "idle" <=> control.op = 0
  /\ control.op = 0 => ~control.started
  /\ control.op # 0 => control.desired.value = control.op \/ 0 \in control.desired.made
SiteSound == site.shows.value \in carried \cup {0} /\ site.shows.made \subseteq carried
EditsInv ==
  /\ ControlsTypeOK /\ ListSound /\ OnePost /\ OnePlain /\ ControlSound /\ SiteSound
  /\ \A w \in Editors : JobSound(w) /\ EditSound(w)
  /\ \A r \in Requests : RequestSound(r)

\* What may become of a request in the journal while nothing is written: it is claimed, its outcome
\* becomes unknown, or a true verdict is found.
Goes(r) ==
  /\ journal'[r].started = journal[r].started
  /\ \/ journal'[r].state = journal[r].state /\ journal'[r].desired = journal[r].desired
     \/ /\ journal[r].state = "none" /\ journal'[r].state = "updating"
        /\ journal'[r].desired.value = r \/ 0 \in journal'[r].desired.made
     \/ /\ Unsettled(r) /\ journal'[r].desired = journal[r].desired
        /\ \/ journal'[r].state = "uncertain"
           \/ journal'[r].state = "rejected" /\ r \notin carried \cup UnderWay
           \/ journal'[r].state = "succeeded" /\ r \in carried
\* The claim of the campaign is left alone while a write may be carried out.
Claim == <<control.op, control.started>>
Keeps == UNCHANGED Claim \/ UnderWay = {}
\* A goroutine that neither writes nor comes to.
Quiet(w) == edit'[w] = edit[w] \/ (~At(w, "write") /\ ~At(w, "write")' /\ EditSound(w)')

LEMMA QuietKept ==
  ASSUME ControlsOK, EditsInv, ControlsTypeOK', ListSound', OnePost', OnePlain', ControlSound',
         UNCHANGED <<sent, carried>>, site'.shows = site.shows, site'.late = site.late,
         \A r \in Journaled : Goes(r), Keeps,
         \A w \in Editors : Quiet(w) /\ JobSound(w)'
  PROVE  EditsInv' /\ Promise!Tell
<1>1. \A r : Writers(r)' = Writers(r)
  BY DEF Quiet, Writers, At
<1>2. UnderWay' = UnderWay
  BY DEF Quiet, UnderWay, At
<1>3. Attempted' = Attempted
  BY <1>1 DEF Attempted, Writers
<1>4. SiteSound'
  BY DEF EditsInv, SiteSound
<1>5. ASSUME NEW w \in Editors PROVE EditSound(w)'
  <2>1. CASE edit'[w] = edit[w]
    <3>1. EditSound(w) /\ (edit[w].r \in Journaled => Goes(edit[w].r))
      BY DEF EditsInv
    <3> QED
      BY <1>2, <2>1, <3>1 DEF EditSound, Post, Reads, Clean, At, Goes, Unsettled
  <2> QED
    BY <2>1 DEF Quiet
<1>6. ASSUME NEW r \in Requests PROVE RequestSound(r)'
  <2>1. RequestSound(r) /\ Writers(r)' = Writers(r) /\ (r \in Journaled => Goes(r))
    BY <1>1 DEF EditsInv
  <2>2. r \in UnderWay => control'.op = r /\ control'.started /\ r \notin carried'
    BY <2>1 DEF RequestSound, Keeps, Claim
  <2> QED
    BY <2>1, <2>2, <1>2 DEF RequestSound, Goes, Unsettled
<1>7. Promise!Tell
  <2>1. Told' \in [Requests -> {"open", "succeeded", "rejected"}]
    BY DEF Told
  <2>2. ASSUME NEW r \in Requests, Told'[r] # Told[r]
        PROVE  /\ Told[r] = "open"
               /\ \/ Told'[r] = "succeeded" /\ r \in carried
                  \/ Told'[r] = "rejected" /\ r \notin carried \cup UnderWay
    BY <2>2 DEF Goes, Told, Unsettled
  <2> QED
    BY <2>1, <2>2, <1>2, <1>3 DEF Promise!Tell, Promise!Verdicts, Promise!True
<1> QED
  BY <1>4, <1>5, <1>6, <1>7 DEF EditsInv

\* One goroutine takes a step.
Moves(w) == edit' \in [Editors -> Job] /\ \A v \in Editors \ {w} : edit'[v] = edit[v]
LEMMA MoveType ==
  ASSUME EditsInv, NEW w \in Editors, NEW e \in Job, edit' = [edit EXCEPT ![w] = e]
  PROVE  Moves(w) /\ edit'[w] = e
BY DEF EditsInv, ControlsTypeOK, Moves
LEMMA StepMoves ==
  ASSUME EditsInv, NEW w \in Editors,
         NEW pc \in {"settle", "observe", "claim", "chosen", "begin", "write", "ack", "unclaim"}, Step(w, pc)
  PROVE  /\ Moves(w) /\ edit'[w].pc = pc /\ edit'[w].job = edit[w].job /\ edit'[w].r = edit[w].r
         /\ edit'[w].fence = edit[w].fence /\ edit'[w].saw = edit[w].saw /\ edit'[w].then = edit[w].then
         /\ edit'[w].end = edit[w].end
<1> DEFINE e == [edit[w] EXCEPT !.pc = pc]
<1>1. edit[w] \in Job
  BY DEF EditsInv, ControlsTypeOK
<1>2. e \in Job /\ edit' = [edit EXCEPT ![w] = e]
  BY <1>1 DEF Step, Job
<1>3. /\ e.pc = pc /\ e.job = edit[w].job /\ e.r = edit[w].r /\ e.fence = edit[w].fence /\ e.saw = edit[w].saw
      /\ e.then = edit[w].then /\ e.end = edit[w].end
  BY <1>1 DEF Job
<1> HIDE DEF e
<1> QED
  BY <1>2, <1>3, MoveType
LEMMA EndMoves ==
  ASSUME EditsInv, NEW w \in Editors, NEW end \in {"succeeded", "rejected", "uncertain"}, End(w, end)
  PROVE  /\ Moves(w) /\ edit'[w].pc = "finish" /\ edit'[w].job = edit[w].job /\ edit'[w].r = edit[w].r
         /\ edit'[w].then = edit[w].then /\ edit'[w].end = end
<1> DEFINE e == [edit[w] EXCEPT !.pc = "finish", !.end = end]
<1>1. edit[w] \in Job
  BY DEF EditsInv, ControlsTypeOK
<1>2. e \in Job /\ edit' = [edit EXCEPT ![w] = e]
  BY <1>1 DEF End, Job
<1>3. e.pc = "finish" /\ e.job = edit[w].job /\ e.r = edit[w].r /\ e.then = edit[w].then /\ e.end = end
  BY <1>1 DEF Job
<1> HIDE DEF e
<1> QED
  BY <1>2, <1>3, MoveType
LEMMA NoEditIs == NoEdit \in Job /\ NoEdit.pc = "idle" /\ NoEdit.job = "none"
BY DEF NoEdit, Job, Shown, Nothing

LEMMA LeaveMoves ==
  ASSUME EditsInv, NEW w \in Editors, Leave(w)
  PROVE  Moves(w) /\ JobSound(w)' /\ EditSound(w)' /\ edit'[w] = NoEdit /\ edit'[w].pc = "idle" /\ edit'[w].job = "none"
<1>1. Moves(w) /\ edit'[w] = NoEdit
  BY NoEditIs, MoveType DEF Leave
<1>2. edit'[w].pc = "idle" /\ edit'[w].job = "none"
  BY <1>1, NoEditIs
<1> QED
  BY <1>1, <1>2 DEF JobSound, EditSound, Reads, Post, Clean, At

\* Whoever comes to write a request is the only one.
Alone(w) ==
  /\ Post(w)' => edit'[w].r = edit[w].r /\ (Post(w) \/ \A v \in Editors \ {w} : Post(v) => edit[v].r # edit[w].r)
  /\ edit'[w].job = "edit" =>
       \/ edit[w].job = "edit" /\ edit'[w].r = edit[w].r
       \/ edit'[w].r \in Journaled
       \/ \A v \in Editors \ {w} : edit[v].job = "edit" => edit[v].r # edit'[w].r
LEMMA StillAlone ==
  ASSUME EditsInv, NEW w \in Editors, Moves(w), Alone(w) PROVE OnePost' /\ OnePlain'
<1>1. OnePost'
  BY DEF EditsInv, OnePost, Moves, Alone, Post, Reads
<1>2. OnePlain'
  BY DEF EditsInv, OnePlain, Moves, Alone
<1> QED
  BY <1>1, <1>2

\* The snapshot is left alone by whoever does not list.
LEMMA SameList ==
  ASSUME EditsInv, NEW w \in Editors, Moves(w), edit'[w].pc # "store", list' = list,
         site'.epoch >= site.epoch, site'.epoch \in Int
  PROVE  ListSound'
<1>1. list \in ListRow /\ site \in SiteRow
  BY DEF EditsInv, ControlsTypeOK, RowsOK, AccountOK
<1> QED
  BY <1>1 DEF EditsInv, ListSound, Moves, At, GenerationCurrent, ListRow, SiteRow

\* A step of one goroutine that writes nothing.
LEMMA EditorKept ==
  ASSUME ControlsOK, EditsInv, NEW w \in Editors, Moves(w), Alone(w), JobSound(w)', EditSound(w)',
         ~At(w, "write"), ~At(w, "write")', RowsOK', ListSound', ControlSound',
         list'.generation >= list.generation, UNCHANGED <<site, sent, carried>>,
         \A r \in Journaled : Goes(r), Keeps
  PROVE  EditsInv' /\ Promise!Tell
<1>1. ControlsTypeOK'
  BY DEF EditsInv, ControlsTypeOK, AccountOK, Moves
<1>2. \A v \in Editors : Quiet(v)
  BY DEF Quiet, Moves
<1>3. ASSUME NEW v \in Editors PROVE JobSound(v)'
  <2>1. CASE v # w
    <3>1. edit[v].fence \in Int /\ list.generation \in Int /\ list'.generation \in Int
      BY <1>1 DEF EditsInv, ControlsTypeOK, Job, RowsOK, ListRow
    <3>2. JobSound(v) /\ edit'[v] = edit[v]
      BY <2>1 DEF EditsInv, Moves
    <3>3. edit[v].pc \in {"list", "store", "unclaim"} => edit[v].fence <= list'.generation
      <4>1. edit[v].pc \in {"list", "store", "unclaim"} => edit[v].fence <= list.generation
        BY <3>2 DEF JobSound
      <4>2. edit[v].fence <= list.generation => edit[v].fence <= list'.generation
        BY <3>1
      <4> QED
        BY <4>1, <4>2
    <3>4. site' = site /\ carried' = carried
      OBVIOUS
    <3> QED
      BY <3>2, <3>3, <3>4 DEF JobSound, Reads
  <2> QED
    BY <2>1
<1> QED
  BY <1>1, <1>2, <1>3, StillAlone, QuietKept

\* Such a step that changes neither the rows nor the list.
Rest == UNCHANGED <<control, journal, list, site, sent, carried>>
LEMMA GoesNowhere ==
  ASSUME EditsInv, UNCHANGED <<control, journal>>
  PROVE  (\A r \in Journaled : Goes(r)) /\ Keeps /\ ControlSound'
BY DEF EditsInv, Goes, Keeps, Claim, ControlSound
LEMMA EditorMoves ==
  ASSUME ControlsOK, EditsInv, NEW w \in Editors, Moves(w), Alone(w), JobSound(w)', EditSound(w)',
         ~At(w, "write"), ~At(w, "write")', edit'[w].pc # "store", Rest
  PROVE  EditsInv' /\ Promise!Tell
<1>1. RowsOK' /\ site.epoch \in Int /\ list.generation \in Int
  BY DEF EditsInv, ControlsTypeOK, RowsOK, AccountOK, Rest, SiteRow, ListRow
<1>2. ListSound'
  BY <1>1, SameList DEF Rest
<1> QED
  BY <1>1, <1>2, GoesNowhere, EditorKept DEF Rest
LEMMA EditorLeaves ==
  ASSUME ControlsOK, EditsInv, NEW w \in Editors, Leave(w), ~At(w, "write"), Rest
  PROVE  EditsInv' /\ Promise!Tell
<1>1. Moves(w) /\ JobSound(w)' /\ EditSound(w)' /\ edit'[w].pc = "idle" /\ edit'[w].job = "none"
  BY LeaveMoves
<1>2. Alone(w) /\ ~At(w, "write")'
  BY <1>1 DEF Alone, Post, Reads, At
<1> QED
  BY <1>1, <1>2, EditorMoves
----------------------------------------------------------------------------
(* What transactions do to the control row and the journal. *)

SetTo(c, s, o, b, n, d) == [c EXCEPT !.state = s, !.op = o, !.started = b, !.lease = n, !.desired = d]
LEMMA SetIs ==
  ASSUME NEW c \in ControlRow, NEW s \in {"idle", "updating", "uncertain"}, NEW o \in Requests \cup {0},
         NEW b \in BOOLEAN, NEW n \in Int, NEW d \in Shown
  PROVE  LET f == SetTo(c, s, o, b, n, d) IN
         /\ f \in ControlRow /\ f.state = s /\ f.op = o /\ f.started = b /\ f.lease = n /\ f.desired = d
         /\ f.seen = c.seen /\ f.version = c.version
BY DEF ControlRow, SetTo
LEMMA SeenIs ==
  ASSUME NEW c \in ControlRow, NEW saw \in Shown, NEW n \in Int
  PROVE  LET f == [c EXCEPT !.seen = saw, !.version = n] IN
         /\ f \in ControlRow /\ f.state = c.state /\ f.op = c.op /\ f.started = c.started /\ f.desired = c.desired
BY DEF ControlRow
LEMMA VersionIs ==
  ASSUME NEW c \in ControlRow, NEW n \in Int
  PROVE  LET f == [c EXCEPT !.version = n] IN
         /\ f \in ControlRow /\ f.state = c.state /\ f.op = c.op /\ f.started = c.started /\ f.desired = c.desired
BY DEF ControlRow
LEMMA UnknownIs ==
  ASSUME NEW c \in ControlRow
  PROVE  LET f == [c EXCEPT !.state = "uncertain"] IN
         /\ f \in ControlRow /\ f.state = "uncertain" /\ f.op = c.op /\ f.started = c.started /\ f.desired = c.desired
BY DEF ControlRow
LEMMA ControlFreedIs ==
  ASSUME control \in ControlRow
  PROVE  FreedControl \in ControlRow /\ FreedControl.state = "idle" /\ FreedControl.op = 0 /\ ~FreedControl.started
         /\ FreedControl.version \in Int
<1>1. FreedControl = SetTo(control, "idle", 0, FALSE, 0, Nothing)
  BY DEF FreedControl, SetTo
<1>2. Nothing \in Shown /\ control.version \in Int
  BY DEF Nothing, Shown, ControlRow
<1>3. PICK n \in Int : n = 0
  OBVIOUS
<1>4. PICK o \in Requests \cup {0} : o = 0
  OBVIOUS
<1>5. PICK b \in BOOLEAN : b = FALSE
  BY Zenon
<1>6. PICK s \in {"idle", "updating", "uncertain"} : s = "idle"
  OBVIOUS
<1>7. FreedControl = SetTo(control, s, o, b, n, Nothing)
  BY <1>1, <1>3, <1>4, <1>5, <1>6
<1> DEFINE f == SetTo(control, s, o, b, n, Nothing)
<1>8. f \in ControlRow /\ f.state = s /\ f.op = o /\ f.started = b /\ f.version = control.version
  BY <1>2, SetIs
<1> HIDE DEF f
<1>9. FreedControl = f
  BY <1>7 DEF f
<1> QED
  BY <1>2, <1>4, <1>5, <1>6, <1>8, <1>9

\* A request under way has claimed the campaign; so has no other.
LEMMA UnderWayIs ==
  ASSUME EditsInv
  PROVE  /\ UnderWay \subseteq Requests
         /\ \A r \in UnderWay : control.op = r /\ control.started /\ r \notin carried
<1>1. ASSUME NEW w \in Editors, At(w, "write") PROVE edit[w].r \in Requests
  BY <1>1 DEF EditsInv, JobSound, At
<1>2. UnderWay \subseteq Requests
  BY <1>1 DEF EditsInv, ControlsTypeOK, AccountOK, SiteRow, UnderWay
<1> QED
  BY <1>2 DEF EditsInv, RequestSound

\* The end of an operation, with a verdict that is true.
LEMMA FinishedIs ==
  ASSUME ControlsOK, EditsInv, NEW r \in Requests, NEW outcome \in {"succeeded", "rejected", "uncertain"},
         outcome # "uncertain" => r \notin UnderWay, control' = Finished(r, outcome)
  PROVE  control' \in ControlRow /\ ControlSound' /\ Keeps
<1>1. control \in ControlRow /\ control.version \in Int /\ r # 0
  BY DEF EditsInv, ControlsTypeOK, RowsOK, ControlRow, ControlsOK
<1>2. CASE control.op # r
  BY <1>1, <1>2 DEF Finished, EditsInv, ControlSound, Keeps, Claim
<1>3. CASE control.op = r /\ outcome = "uncertain"
  <2>1. control' = [control EXCEPT !.state = "uncertain"]
    BY <1>3 DEF Finished
  <2> QED
    BY <1>1, <1>3, <2>1, UnknownIs DEF EditsInv, ControlSound, Keeps, Claim
<1>4. CASE control.op = r /\ outcome # "uncertain"
  <2> DEFINE n == FreedControl.version + (IF r \in Journaled THEN 1 ELSE 0)
  <2>1. control' = [FreedControl EXCEPT !.version = n]
    BY <1>4, Zenon DEF Finished
  <2>2. n \in Int
    BY <1>1, ControlFreedIs
  <2> HIDE DEF n
  <2>3. control' \in ControlRow /\ control'.state = "idle" /\ control'.op = 0 /\ ~control'.started
    BY <1>1, <2>1, <2>2, ControlFreedIs, VersionIs, Zenon
  <2>4. UnderWay = {}
    BY <1>4, UnderWayIs
  <2> QED
    BY <2>3, <2>4 DEF ControlSound, Keeps
<1> QED
  BY <1>2, <1>3, <1>4

LEMMA SettledRow ==
  ASSUME NEW c \in JournalRow, NEW s \in {"updating", "uncertain", "succeeded", "rejected"}
  PROVE  LET f == [c EXCEPT !.state = s] IN
         f \in JournalRow /\ f.state = s /\ f.started = c.started /\ f.acked = c.acked /\ f.desired = c.desired
BY DEF JournalRow
LEMMA FinishGoes ==
  ASSUME ControlsOK, EditsInv, NEW r \in Requests, NEW outcome \in {"succeeded", "rejected", "uncertain"},
         FinishOperation(r, outcome), list' = list,
         outcome = "rejected" => r \notin carried \cup UnderWay,
         outcome = "succeeded" => r \in carried
  PROVE  RowsOK' /\ ControlSound' /\ (\A q \in Journaled : Goes(q)) /\ Keeps
<1>1. control' \in ControlRow /\ ControlSound' /\ Keeps
  <2>1. outcome # "uncertain" => r \notin UnderWay
    BY UnderWayIs
  <2> QED
    BY <2>1, FinishedIs DEF FinishOperation
<1>2. journal \in [Journaled -> JournalRow]
  BY DEF EditsInv, ControlsTypeOK, RowsOK
<1>3. CASE Unsettled(r)
  <2> DEFINE f == [journal[r] EXCEPT !.state = outcome]
  <2>1. r \in Journaled /\ journal[r] \in JournalRow /\ outcome \in {"updating", "uncertain", "succeeded", "rejected"}
    BY <1>2, <1>3 DEF Unsettled
  <2>2. f \in JournalRow /\ f.state = outcome /\ f.started = journal[r].started /\ f.desired = journal[r].desired
    BY <2>1, SettledRow, Zenon
  <2>3. journal' = [journal EXCEPT ![r] = f]
    BY <1>3 DEF FinishOperation
  <2> HIDE DEF f
  <2>4. journal' \in [Journaled -> JournalRow] /\ journal'[r] = f /\ \A q \in Journaled \ {r} : journal'[q] = journal[q]
    BY <1>2, <2>1, <2>2, <2>3
  <2> QED
    BY <1>1, <1>3, <2>2, <2>4 DEF Goes, RowsOK, EditsInv, ControlsTypeOK
<1>4. CASE ~Unsettled(r)
  <2>1. journal' = journal
    BY <1>4 DEF FinishOperation
  <2> QED
    BY <1>1, <2>1 DEF Goes, RowsOK, EditsInv, ControlsTypeOK
<1> QED
  BY <1>3, <1>4

\* Goroutines are finitely many.
LEMMA WritersFinite ==
  ASSUME ControlsOK, NEW r PROVE IsFiniteSet(Writers(r)) /\ Cardinality(Writers(r)) \in Nat
<1>1. IsFiniteSet(Editors) /\ Writers(r) \subseteq Editors
  BY DEF ControlsOK, Writers
<1> QED
  BY <1>1, FS_Subset, FS_CardinalityType

\* What was not begun is not on its way.
LEMMA NotBegun ==
  ASSUME ControlsOK, EditsInv, NEW r \in Journaled, ~journal[r].started
  PROVE  r \notin carried \cup UnderWay /\ sent[r] = 0 /\ Writers(r) = {}
<1>1. r \in Requests /\ sent[r] \in Nat /\ IsFiniteSet(Writers(r)) /\ Cardinality(Writers(r)) \in Nat
  BY WritersFinite DEF EditsInv, ControlsTypeOK, AccountOK, Journaled
<1>2. sent[r] + Cardinality(Writers(r)) = 0 /\ (r \in site.late \cup carried => sent[r] = 1)
  BY <1>1 DEF EditsInv, RequestSound
<1>3. sent[r] = 0 /\ Cardinality(Writers(r)) = 0
  BY <1>1, <1>2
<1>4. Writers(r) = {}
  BY <1>1, <1>3, FS_EmptySet
<1> QED
  BY <1>2, <1>3, <1>4 DEF UnderWay, Writers

\* A reading: it shows nothing that was not carried out.
Reading(saw) == saw \in Shown /\ saw.value \in carried \cup {0} /\ saw.made \subseteq carried
LEMMA ShownIsCarried ==
  ASSUME ControlsOK, EditsInv, NEW r \in Requests, NEW saw, Reading(saw), saw.value = r \/ 0 \in saw.made
  PROVE  r \in carried
<1>1. r # 0 /\ 0 \notin carried
  BY DEF ControlsOK, EditsInv, ControlsTypeOK, AccountOK
<1> QED
  BY <1>1 DEF Reading
LEMMA VerdictIs ==
  ASSUME ControlsOK, EditsInv, NEW r, Unsettled(r), NEW saw, Reading(saw)
  PROVE  LET v == Verdict(r, saw) IN
         /\ v \in {"updating", "uncertain", "succeeded", "rejected"}
         /\ v = "updating" => journal[r].state = "updating"
         /\ v = "rejected" => r \notin carried \cup UnderWay
         /\ v = "succeeded" => r \in carried
<1>1. /\ r \in Journaled /\ r \in Requests /\ journal[r].state \in {"updating", "uncertain"}
      /\ journal[r].desired.value = r \/ 0 \in journal[r].desired.made
  BY DEF Unsettled, Journaled, EditsInv, RequestSound
<1>2. CASE ~journal[r].started
  BY <1>1, <1>2, NotBegun DEF Verdict
<1>3. CASE journal[r].started
  <2>1. journal[r].desired = saw => r \in carried
    BY <1>1, ShownIsCarried
  <2>2. r \in saw.made => r \in carried
    BY DEF Reading
  <2> QED
    BY <1>1, <1>3, <2>1, <2>2 DEF Verdict
<1> QED
  BY <1>2, <1>3
LEMMA ReadbackGoes ==
  ASSUME ControlsOK, EditsInv, NEW saw, Reading(saw), ReconcileReadback(saw), list' = list
  PROVE  RowsOK' /\ ControlSound' /\ (\A q \in Journaled : Goes(q)) /\ Keeps
<1>1. control' \in ControlRow /\ ControlSound' /\ Keeps
  <2>1. CASE Unsettled(control.op) /\ Verdict(control.op, saw) # "updating"
    <3> DEFINE r == control.op  v == Verdict(control.op, saw)
    <3>1. r \in Requests /\ control' = Finished(r, v)
      BY <2>1 DEF ReconcileReadback, Unsettled, Journaled
    <3>2. /\ v \in {"uncertain", "succeeded", "rejected"}
          /\ v = "rejected" => r \notin carried \cup UnderWay
          /\ v = "succeeded" => r \in carried
      BY <2>1, VerdictIs
    <3> HIDE DEF r, v
    <3>3. v # "uncertain" => r \notin UnderWay
      BY <3>2, UnderWayIs
    <3> QED
      BY <3>1, <3>2, <3>3, FinishedIs
  <2>2. CASE ~(Unsettled(control.op) /\ Verdict(control.op, saw) # "updating")
    <3>1. control' = control
      BY <2>2 DEF ReconcileReadback
    <3> QED
      BY <3>1 DEF EditsInv, ControlsTypeOK, RowsOK, ControlSound, Keeps, Claim
  <2> QED
    BY <2>1, <2>2
<1>2. ASSUME NEW q \in Journaled PROVE journal'[q] \in JournalRow /\ Goes(q)
  <2>1. journal[q] \in JournalRow
    BY DEF EditsInv, ControlsTypeOK, RowsOK
  <2>2. CASE Unsettled(q)
    <3> DEFINE v == Verdict(q, saw)  f == [journal[q] EXCEPT !.state = v]
    <3>1. /\ v \in {"updating", "uncertain", "succeeded", "rejected"}
          /\ v = "updating" => journal[q].state = "updating"
          /\ v = "rejected" => q \notin carried \cup UnderWay
          /\ v = "succeeded" => q \in carried
      BY <2>2, VerdictIs
    <3>2. journal'[q] = f
      BY <2>2 DEF ReconcileReadback
    <3> HIDE DEF v
    <3>3. f \in JournalRow /\ f.state = v /\ f.started = journal[q].started /\ f.desired = journal[q].desired
      BY <2>1, <3>1, SettledRow
    <3> HIDE DEF f
    <3> QED
      BY <2>2, <3>1, <3>2, <3>3 DEF Goes
  <2>3. CASE ~Unsettled(q)
    <3>1. journal'[q] = journal[q]
      BY <2>3 DEF ReconcileReadback
    <3> QED
      BY <2>1, <3>1 DEF Goes
  <2> QED
    BY <2>2, <2>3
<1>3. journal' \in [Journaled -> JournalRow]
  <2>1. journal' = [q \in Journaled |-> journal'[q]]
    BY DEF ReconcileReadback
  <2> QED
    BY <1>2, <2>1
<1> QED
  BY <1>1, <1>2, <1>3 DEF RowsOK, EditsInv, ControlsTypeOK

\* A reading frees a campaign only of what it shows, or of what was not begun.
LEMMA ObservedGoes ==
  ASSUME ControlsOK, EditsInv, NEW saw, Reading(saw), control' = Observed(saw), journal' = journal, list' = list
  PROVE  RowsOK' /\ ControlSound' /\ (\A q \in Journaled : Goes(q)) /\ Keeps
<1> DEFINE free == Resolved(saw) \/ (Expired /\ ~control.started) \/ control.state = "idle"
<1>1. control \in ControlRow /\ saw \in Shown
  BY DEF EditsInv, ControlsTypeOK, RowsOK, Reading
<1>2. CASE free
  <2> DEFINE n == FreedControl.version + (IF control.seen # saw \/ control.op # 0 THEN 1 ELSE 0)
  <2>1. control' = [FreedControl EXCEPT !.seen = saw, !.version = n]
    BY <1>2, Zenon DEF Observed
  <2>2. n \in Int
    BY <1>1, ControlFreedIs
  <2> HIDE DEF n
  <2>3. control' \in ControlRow /\ control'.state = "idle" /\ control'.op = 0 /\ ~control'.started
    <3>1. FreedControl \in ControlRow /\ FreedControl.state = "idle" /\ FreedControl.op = 0 /\ ~FreedControl.started
      BY <1>1, ControlFreedIs
    <3> DEFINE c == FreedControl
    <3>2. c \in ControlRow /\ c.state = "idle" /\ c.op = 0 /\ ~c.started /\ control' = [c EXCEPT !.seen = saw, !.version = n]
      BY <2>1, <3>1
    <3> HIDE DEF c
    <3> DEFINE f == [c EXCEPT !.seen = saw, !.version = n]
    <3>4. f \in ControlRow /\ f.state = c.state /\ f.op = c.op /\ f.started = c.started
      BY <1>1, <2>2, <3>2, SeenIs, ZenonT(30)
    <3>5. control' = f
      BY <3>2
    <3> HIDE DEF f
    <3>3. control' \in ControlRow /\ control'.state = c.state /\ control'.op = c.op /\ control'.started = c.started
      BY <3>4, <3>5
    <3> QED
      BY <3>2, <3>3
  <2>4. UnderWay = {}
    <3>1. SUFFICES ASSUME NEW r \in UnderWay PROVE FALSE
      OBVIOUS
    <3>2. r \in Requests /\ control.op = r /\ control.started /\ r \notin carried /\ r # 0
      BY UnderWayIs DEF ControlsOK
    <3>3. control.desired = saw
      BY <1>2, <3>2 DEF Resolved, EditsInv, ControlSound
    <3> QED
      BY <3>2, <3>3, ShownIsCarried DEF EditsInv, ControlSound
  <2> QED
    BY <2>3, <2>4 DEF ControlSound, Keeps, Goes, RowsOK, EditsInv, ControlsTypeOK
<1>3. CASE ~free /\ Expired
  <2>1. control' = [control EXCEPT !.state = "uncertain"]
    BY <1>3 DEF Observed
  <2> QED
    BY <1>1, <1>3, <2>1, UnknownIs DEF EditsInv, ControlSound, Keeps, Claim, Goes, RowsOK, ControlsTypeOK
<1>4. CASE ~free /\ ~Expired
  <2>1. control' = control
    BY <1>4 DEF Observed
  <2> QED
    BY <2>1, GoesNowhere DEF EditsInv, RowsOK, ControlsTypeOK
<1> QED
  BY <1>2, <1>3, <1>4
----------------------------------------------------------------------------
(* The steps of a goroutine that write nothing. *)

LEMMA NoWriter ==
  ASSUME NEW w \in Editors, Moves(w), ~At(w, "write"), ~At(w, "write")', site' = site
  PROVE  UnderWay' = UnderWay
BY DEF Moves, UnderWay, At

\* A request, a look or a choice begins.
JobFor(job, r, fence, then) == [NoEdit EXCEPT !.job = job, !.pc = "read", !.r = r, !.fence = fence, !.then = then]
LEMMA JobIs ==
  ASSUME NEW job \in {"edit", "look", "choose"}, NEW r \in Int, NEW fence \in Int,
         NEW then \in {"match", "leave", "choose"}
  PROVE  LET e == JobFor(job, r, fence, then) IN
         e \in Job /\ e.job = job /\ e.pc = "read" /\ e.r = r /\ e.then = then
BY NoEditIs DEF JobFor, Job
LEMMA BeginKept ==
  ASSUME ControlsOK, EditsInv, NEW w \in Editors,
         (\E r \in Requests : BeginRequest(w, r) \/ BeginReconcile(w, r)) \/ BeginLook(w)
  PROVE  EditsInv' /\ Promise!Tell
<1>0. control.version \in Int /\ \A r \in Requests : r \in Int
  BY DEF EditsInv, ControlsTypeOK, RowsOK, ControlRow, ControlsOK
<1>1. ASSUME NEW e \in Job, edit' = [edit EXCEPT ![w] = e], e.pc = "read",
             \/ /\ e.job = "edit" /\ e.then = "match" /\ e.r \in Requests
                /\ e.r \in Journaled \/ (sent[e.r] = 0 /\ \A v \in Editors : edit[v].job = "edit" => edit[v].r # e.r)
             \/ e.job = "choose" /\ e.then = "choose" /\ e.r \in Journaled
             \/ e.job = "look" /\ e.then = "leave",
             At(w, "idle"), Rest
      PROVE  EditsInv' /\ Promise!Tell
  <2>1. Moves(w) /\ edit'[w] = e
    BY <1>1, MoveType
  <2>2. JobSound(w)' /\ EditSound(w)' /\ Alone(w)
    BY <1>1, <2>1 DEF JobSound, EditSound, Alone, Reads, Post, Clean, At, Rest
  <2>3. ~At(w, "write") /\ ~At(w, "write")' /\ edit'[w].pc # "store"
    BY <1>1, <2>1 DEF At
  <2> QED
    BY <1>1, <2>1, <2>2, <2>3, EditorMoves
<1>2. ASSUME NEW r \in Requests, BeginRequest(w, r) PROVE EditsInv' /\ Promise!Tell
  <2> DEFINE e == JobFor("edit", r, control.version, "match")
  <2>1. e \in Job /\ e.job = "edit" /\ e.pc = "read" /\ e.r = r /\ e.then = "match"
    BY <1>0, JobIs
  <2>2. edit' = [edit EXCEPT ![w] = e] /\ At(w, "idle") /\ Rest
    BY <1>2 DEF BeginRequest, JobFor, EditOnly, Local, Rest
  <2> HIDE DEF e
  <2>3. r \in Journaled \/ (sent[r] = 0 /\ \A v \in Editors : edit[v].job = "edit" => edit[v].r # r)
    BY <1>2 DEF BeginRequest
  <2> QED
    BY <1>1, <2>1, <2>2, <2>3
<1>3. ASSUME NEW r \in Requests, BeginReconcile(w, r) PROVE EditsInv' /\ Promise!Tell
  <2> DEFINE e == JobFor("choose", r, control.version, "choose")
  <2>1. e \in Job /\ e.job = "choose" /\ e.pc = "read" /\ e.r = r /\ e.then = "choose"
    BY <1>0, JobIs
  <2>2. edit' = [edit EXCEPT ![w] = e] /\ At(w, "idle") /\ Rest /\ r \in Journaled
    BY <1>3 DEF BeginReconcile, JobFor, EditOnly, Local, Rest, Journaled
  <2> HIDE DEF e
  <2> QED
    BY <1>1, <2>1, <2>2
<1>4. CASE BeginLook(w)
  <2> DEFINE e == [NoEdit EXCEPT !.job = "look", !.pc = "read", !.then = "leave"]
  <2>1. e \in Job /\ e.job = "look" /\ e.pc = "read" /\ e.then = "leave"
    BY NoEditIs DEF Job
  <2>2. edit' = [edit EXCEPT ![w] = e] /\ At(w, "idle") /\ Rest
    BY <1>4 DEF BeginLook, EditOnly, Local, Rest
  <2> HIDE DEF e
  <2> QED
    BY <1>1, <2>1, <2>2
<1> QED
  BY <1>2, <1>3, <1>4

\* A goroutine goes on with the request it has in hand.
LEMMA SameJobAlone ==
  ASSUME EditsInv, NEW w \in Editors, Moves(w), edit'[w].job = edit[w].job, edit'[w].r = edit[w].r,
         Post(w)' => Post(w)
  PROVE  Alone(w)
BY DEF Alone

\* The outcome of a write remains unknown.
LEMMA EndUnknown ==
  ASSUME ControlsOK, EditsInv, NEW w \in Editors, End(w, "uncertain"), Post(w), ~At(w, "write"), Rest
  PROVE  EditsInv' /\ Promise!Tell
<1>1. /\ Moves(w) /\ edit'[w].pc = "finish" /\ edit'[w].job = edit[w].job /\ edit'[w].r = edit[w].r
      /\ edit'[w].then = edit[w].then /\ edit'[w].end = "uncertain"
  BY EndMoves
<1>2. JobSound(w) /\ EditSound(w)
  BY DEF EditsInv
<1>3. JobSound(w)' /\ EditSound(w)'
  BY <1>1, <1>2 DEF JobSound, EditSound, Post, Reads, Clean, At, Rest
<1>4. Alone(w) /\ ~At(w, "write")'
  BY <1>1, SameJobAlone DEF At
<1> QED
  BY <1>1, <1>3, <1>4, EditorMoves

LEMMA ReadDetailKept ==
  ASSUME ControlsOK, EditsInv, NEW w \in Editors, ReadDetail(w)
  PROVE  EditsInv' /\ Promise!Tell
<1>1. At(w, "read") /\ ~At(w, "write") /\ Rest
  BY DEF ReadDetail, EditOnly, Local, Rest, At
<1>2. JobSound(w) /\ EditSound(w) /\ edit[w] \in Job
  BY DEF EditsInv, ControlsTypeOK
<1>3. CASE EditContext
  <2> DEFINE e == [edit[w] EXCEPT !.pc = "settle", !.saw = site.shows]
  <2>1. Reading(site.shows)
    BY DEF Reading, EditsInv, ControlsTypeOK, AccountOK, SiteRow, SiteSound
  <2>2. e \in Job /\ edit' = [edit EXCEPT ![w] = e]
    BY <1>2, <1>3, <2>1 DEF ReadDetail, Reading, Job
  <2>3. /\ e.pc = "settle" /\ e.saw = site.shows /\ e.job = edit[w].job /\ e.r = edit[w].r /\ e.then = edit[w].then
    BY <1>2 DEF Job
  <2> HIDE DEF e
  <2>4. Moves(w) /\ edit'[w] = e
    BY <2>2, MoveType
  <2>5. JobSound(w)' /\ EditSound(w)' /\ (Post(w)' => Post(w))
    BY <1>1, <1>2, <2>1, <2>3, <2>4 DEF JobSound, EditSound, Post, Reads, Clean, At, Rest, Reading
  <2>6. Alone(w) /\ ~At(w, "write")' /\ edit'[w].pc # "store"
    BY <2>3, <2>4, <2>5, SameJobAlone DEF At
  <2> QED
    BY <1>1, <2>4, <2>5, <2>6, EditorMoves
<1>4. CASE ~EditContext /\ edit[w].then = "verify"
  BY <1>1, <1>4, EndUnknown DEF ReadDetail, Post, Reads, At
<1>5. CASE ~EditContext /\ edit[w].then # "verify"
  BY <1>1, <1>5, EditorLeaves DEF ReadDetail
<1> QED
  BY <1>3, <1>4, <1>5

\* A step of a goroutine that changes the rows.
LEMMA RowsMove ==
  ASSUME ControlsOK, EditsInv, NEW w \in Editors, Moves(w), Alone(w), JobSound(w)', EditSound(w)',
         ~At(w, "write"), ~At(w, "write")', edit'[w].pc # "store", RowsOK', ControlSound',
         UNCHANGED <<list, site, sent, carried>>, \A r \in Journaled : Goes(r), Keeps
  PROVE  EditsInv' /\ Promise!Tell
<1>1. site.epoch \in Int /\ list.generation \in Int
  BY DEF EditsInv, ControlsTypeOK, RowsOK, AccountOK, SiteRow, ListRow
<1>2. ListSound'
  BY <1>1, SameList
<1> QED
  BY <1>1, <1>2, EditorKept
LEMMA RowsLeave ==
  ASSUME ControlsOK, EditsInv, NEW w \in Editors, Leave(w), ~At(w, "write"), RowsOK', ControlSound',
         UNCHANGED <<list, site, sent, carried>>, \A r \in Journaled : Goes(r), Keeps
  PROVE  EditsInv' /\ Promise!Tell
<1>1. Moves(w) /\ JobSound(w)' /\ EditSound(w)' /\ edit'[w].pc = "idle" /\ edit'[w].job = "none"
  BY LeaveMoves
<1>2. Alone(w) /\ ~At(w, "write")'
  BY <1>1 DEF Alone, Post, Reads, At
<1> QED
  BY <1>1, <1>2, RowsMove

LEMMA SettleKept ==
  ASSUME ControlsOK, EditsInv, NEW w \in Editors, SettleJournal(w)
  PROVE  EditsInv' /\ Promise!Tell
<1>1. At(w, "settle") /\ ~At(w, "write") /\ UNCHANGED <<list, site, sent, carried>>
  BY DEF SettleJournal, Local, At
<1>2. JobSound(w) /\ EditSound(w) /\ edit[w] \in Job
  BY DEF EditsInv, ControlsTypeOK
<1>3. Reading(edit[w].saw) /\ ReconcileReadback(edit[w].saw)
  BY <1>1, <1>2 DEF Reading, JobSound, Job, SettleJournal, At
<1>4. RowsOK' /\ ControlSound' /\ (\A q \in Journaled : Goes(q)) /\ Keeps
  BY <1>1, <1>3, ReadbackGoes
<1>5. /\ Moves(w) /\ edit'[w].pc = "observe" /\ edit'[w].job = edit[w].job /\ edit'[w].r = edit[w].r
      /\ edit'[w].saw = edit[w].saw /\ edit'[w].then = edit[w].then
  BY StepMoves DEF SettleJournal
<1>6. JobSound(w)' /\ (Post(w)' => Post(w)) /\ ~At(w, "write")'
  BY <1>1, <1>2, <1>5 DEF JobSound, Post, Reads, At
<1>7. EditSound(w)'
  BY <1>1, <1>2, <1>4, <1>5, <1>6 DEF EditSound, Post, Reads, Clean, At, Goes, Unsettled
<1>8. Alone(w)
  BY <1>5, <1>6, SameJobAlone
<1> QED
  BY <1>1, <1>4, <1>5, <1>6, <1>7, <1>8, RowsMove

\* The work on a request ends with what is known of it.
LEMMA RowsEnd ==
  ASSUME ControlsOK, EditsInv, NEW w \in Editors, NEW end \in {"succeeded", "rejected", "uncertain"}, End(w, end),
         Post(w), ~At(w, "write"), RowsOK', ControlSound',
         UNCHANGED <<list, site, sent, carried>>, \A r \in Journaled : Goes(r), Keeps,
         end = "rejected" => At(w, "begin"),
         end = "succeeded" /\ edit[w].r \in Journaled => edit[w].r \in carried
  PROVE  EditsInv' /\ Promise!Tell
<1>1. /\ Moves(w) /\ edit'[w].pc = "finish" /\ edit'[w].job = edit[w].job /\ edit'[w].r = edit[w].r
      /\ edit'[w].then = edit[w].then /\ edit'[w].end = end
  BY EndMoves
<1>2. JobSound(w) /\ EditSound(w)
  BY DEF EditsInv
<1>3. JobSound(w)' /\ ~At(w, "write")'
  BY <1>1, <1>2 DEF JobSound, Post, Reads, At
<1>4. UnderWay' = UnderWay
  BY <1>1, <1>3, NoWriter
<1>5. EditSound(w)'
  <2>1. ASSUME edit[w].r \in Journaled PROVE journal'[edit[w].r].state # "none"
    BY <1>2, <2>1 DEF EditSound, Goes, Unsettled
  <2>2. end = "rejected" => edit[w].r \notin UnderWay \cup carried
    BY <1>2 DEF EditSound, Clean
  <2> QED
    BY <1>1, <1>4, <2>1, <2>2 DEF EditSound, Post, Reads, Clean, At
<1>6. Alone(w)
  BY <1>1, SameJobAlone
<1> QED
  BY <1>1, <1>3, <1>5, <1>6, RowsMove

LEMMA ObserveKept ==
  ASSUME ControlsOK, EditsInv, NEW w \in Editors, ObserveEdit(w)
  PROVE  EditsInv' /\ Promise!Tell
<1>1. At(w, "observe") /\ ~At(w, "write") /\ UNCHANGED <<journal, list, site, sent, carried>>
  BY DEF ObserveEdit, Local, At
<1>2. JobSound(w) /\ EditSound(w) /\ edit[w] \in Job
  BY DEF EditsInv, ControlsTypeOK
<1>3. CASE ~EditContext
  <2>1. Rest
    BY <1>1, <1>3 DEF ObserveEdit, Rest
  <2>2. CASE edit[w].then = "verify"
    BY <1>1, <1>3, <2>1, <2>2, EndUnknown DEF ObserveEdit, Post, Reads, At
  <2>3. CASE edit[w].then # "verify"
    BY <1>1, <1>3, <2>1, <2>3, EditorLeaves DEF ObserveEdit
  <2> QED
    BY <2>2, <2>3
<1>4. CASE EditContext
  <2> DEFINE saw == edit[w].saw  r == edit[w].r
  <2>1. Reading(saw) /\ control' = Observed(saw)
    BY <1>1, <1>2, <1>4 DEF Reading, JobSound, Job, ObserveEdit, At
  <2>2. RowsOK' /\ ControlSound' /\ (\A q \in Journaled : Goes(q)) /\ Keeps
    BY <1>1, <2>1, ObservedGoes
  <2>3. CASE Leave(w)
    BY <1>1, <2>2, <2>3, RowsLeave
  <2>4. ASSUME NEW pc \in {"claim", "chosen"}, Step(w, pc),
               pc = "claim" => edit[w].then = "match", pc = "chosen" => edit[w].then = "choose" /\ r \in saw.made
        PROVE  EditsInv' /\ Promise!Tell
    <3>1. /\ Moves(w) /\ edit'[w].pc = pc /\ edit'[w].job = edit[w].job /\ edit'[w].r = edit[w].r
          /\ edit'[w].saw = edit[w].saw /\ edit'[w].then = edit[w].then
      BY <2>4, StepMoves
    <3>2. JobSound(w)' /\ ~Post(w)' /\ ~At(w, "write")'
      BY <1>1, <1>2, <2>1, <2>4, <3>1 DEF JobSound, Post, Reads, At, Reading
    <3>3. EditSound(w)'
      BY <1>1, <1>2, <2>4, <3>1, <3>2 DEF EditSound, Post, Reads, Clean, At
    <3>4. Alone(w)
      BY <3>1, <3>2, SameJobAlone
    <3> QED
      BY <1>1, <2>2, <2>4, <3>1, <3>2, <3>3, <3>4, RowsMove
  <2>5. ASSUME NEW end \in {"succeeded", "uncertain"}, End(w, end), edit[w].then = "verify",
               end = "succeeded" => (Kind[r] = "create" /\ r \in saw.made) \/ (Kind[r] = "set" /\ saw.value = r)
        PROVE  EditsInv' /\ Promise!Tell
    <3>1. r \in Requests /\ r # 0 /\ Post(w)
      BY <1>1, <1>2, <2>5 DEF JobSound, Post, Reads, At, ControlsOK
    <3>2. end = "succeeded" => r \in carried
      BY <2>1, <2>5, <3>1 DEF Reading
    <3> QED
      BY <1>1, <2>2, <2>5, <3>1, <3>2, RowsEnd
  <2>6. \/ Leave(w)
        \/ edit[w].then = "match" /\ Step(w, "claim")
        \/ edit[w].then = "choose" /\ r \in saw.made /\ Step(w, "chosen")
        \/ /\ edit[w].then = "verify" /\ End(w, "succeeded")
           /\ (Kind[r] = "create" /\ r \in saw.made) \/ (Kind[r] = "set" /\ saw.value = r)
        \/ edit[w].then = "verify" /\ End(w, "uncertain")
    BY <1>4, Zenon DEF ObserveEdit
  <2> QED
    BY <2>3, <2>4, <2>5, <2>6
<1> QED
  BY <1>3, <1>4

LEMMA ChooseKept ==
  ASSUME ControlsOK, EditsInv, NEW w \in Editors, ChooseCreated(w)
  PROVE  EditsInv' /\ Promise!Tell
<1>1. At(w, "chosen") /\ ~At(w, "write") /\ UNCHANGED <<list, site, sent, carried>> /\ Leave(w)
  BY DEF ChooseCreated, Local, At
<1>2. edit[w].r \in carried /\ edit[w].r \in Requests
  BY <1>1 DEF EditsInv, JobSound, At, Journaled
<1>3. CASE FinishOperation(edit[w].r, "succeeded")
  <2>1. RowsOK' /\ ControlSound' /\ (\A q \in Journaled : Goes(q)) /\ Keeps
    BY <1>1, <1>2, <1>3, FinishGoes
  <2> QED
    BY <1>1, <2>1, RowsLeave
<1>4. CASE UNCHANGED <<control, journal>>
  BY <1>1, <1>4, EditorLeaves DEF Rest
<1> QED
  BY <1>3, <1>4 DEF ChooseCreated

\* What is told of a request is what its goroutine found out.
LEMMA FinishKept ==
  ASSUME ControlsOK, EditsInv, NEW w \in Editors, FinishEdit(w)
  PROVE  EditsInv' /\ Promise!Tell
<1> DEFINE r == edit[w].r
           outcome == IF Kind[r] = "plain" /\ edit[w].end = "succeeded" THEN "uncertain" ELSE edit[w].end
<1>1. At(w, "finish") /\ ~At(w, "write") /\ UNCHANGED <<list, site, sent, carried>> /\ Leave(w)
      /\ FinishOperation(r, outcome)
  BY DEF FinishEdit, Local, At
<1>2. JobSound(w) /\ EditSound(w) /\ edit[w] \in Job
  BY DEF EditsInv, ControlsTypeOK
<1>3. r \in Requests /\ edit[w].end \in {"succeeded", "rejected", "uncertain"}
  BY <1>1, <1>2 DEF JobSound, At, Job
<1>4. /\ outcome \in {"succeeded", "rejected", "uncertain"}
      /\ outcome = "rejected" => r \notin carried \cup UnderWay
      /\ outcome = "succeeded" => r \in carried
  BY <1>1, <1>2, <1>3 DEF EditSound, Clean, At, Journaled
<1>5. RowsOK' /\ ControlSound' /\ (\A q \in Journaled : Goes(q)) /\ Keeps
  BY <1>1, <1>3, <1>4, FinishGoes
<1> QED
  BY <1>1, <1>5, RowsLeave

LEMMA AckRow ==
  ASSUME NEW c \in JournalRow
  PROVE  LET f == [c EXCEPT !.acked = TRUE] IN
         f \in JournalRow /\ f.state = c.state /\ f.started = c.started /\ f.desired = c.desired
BY DEF JournalRow
LEMMA AcknowledgeKept ==
  ASSUME ControlsOK, EditsInv, NEW w \in Editors, AcknowledgeOperation(w)
  PROVE  EditsInv' /\ Promise!Tell
<1> DEFINE r == edit[w].r  e == [edit[w] EXCEPT !.pc = "read", !.then = "verify"]
<1>1. At(w, "ack") /\ ~At(w, "write") /\ UNCHANGED <<control, list, site, sent, carried>>
  BY DEF AcknowledgeOperation, Local, At
<1>2. JobSound(w) /\ EditSound(w) /\ edit[w] \in Job
  BY DEF EditsInv, ControlsTypeOK
<1>3. journal' \in [Journaled -> JournalRow] /\ \A q \in Journaled : Goes(q)
  <2>1. journal \in [Journaled -> JournalRow]
    BY DEF EditsInv, ControlsTypeOK, RowsOK
  <2>2. CASE Kind[r] = "create" /\ Unsettled(r)
    <3> DEFINE f == [journal[r] EXCEPT !.acked = TRUE]
    <3>1. r \in Journaled /\ journal[r] \in JournalRow /\ journal' = [journal EXCEPT ![r] = f]
      BY <2>1, <2>2 DEF AcknowledgeOperation, Unsettled
    <3>2. f \in JournalRow /\ f.state = journal[r].state /\ f.started = journal[r].started
          /\ f.desired = journal[r].desired
      BY <3>1, AckRow, Zenon
    <3> HIDE DEF f
    <3> QED
      BY <2>1, <3>1, <3>2 DEF Goes
  <2>3. CASE ~(Kind[r] = "create" /\ Unsettled(r))
    <3>1. journal' = journal
      BY <2>3 DEF AcknowledgeOperation
    <3> QED
      BY <2>1, <3>1 DEF Goes
  <2> QED
    BY <2>2, <2>3
<1>4. RowsOK' /\ ControlSound' /\ Keeps
  BY <1>1, <1>3 DEF EditsInv, ControlsTypeOK, RowsOK, ControlSound, Keeps, Claim
<1>5. e \in Job /\ edit' = [edit EXCEPT ![w] = e]
  BY <1>2 DEF AcknowledgeOperation, Job
<1>6. e.pc = "read" /\ e.then = "verify" /\ e.job = edit[w].job /\ e.r = edit[w].r
  BY <1>2 DEF Job
<1> HIDE DEF e
<1>7. Moves(w) /\ edit'[w] = e
  BY <1>5, MoveType
<1>8. JobSound(w)' /\ (Post(w)' => Post(w)) /\ ~At(w, "write")'
  BY <1>1, <1>2, <1>6, <1>7 DEF JobSound, Post, Reads, At
<1>9. EditSound(w)'
  <2>1. r \in Journaled => journal'[r].state # "none"
    BY <1>1, <1>2, <1>3 DEF EditSound, Post, At, Goes, Unsettled
  <2> QED
    BY <1>6, <1>7, <2>1 DEF EditSound, Post, Reads, Clean, At
<1>10. Alone(w) /\ edit'[w].pc # "store"
  BY <1>6, <1>7, <1>8, SameJobAlone
<1> QED
  BY <1>1, <1>3, <1>4, <1>7, <1>8, <1>9, <1>10, RowsMove

\* A claim finds the campaign idle, so nothing is under way.
ClaimedControl(c, r, n, d, v) == [c EXCEPT !.state = "updating", !.op = r, !.lease = n, !.desired = d, !.version = v]
LEMMA ClaimedIs ==
  ASSUME NEW c \in ControlRow, NEW r \in Requests, NEW n \in Int, NEW d \in Shown, NEW v \in Int
  PROVE  LET f == ClaimedControl(c, r, n, d, v) IN
         f \in ControlRow /\ f.state = "updating" /\ f.op = r /\ f.started = c.started /\ f.desired = d
BY DEF ControlRow, ClaimedControl
LEMMA ClaimedRow ==
  ASSUME NEW c \in JournalRow, NEW d \in Shown
  PROVE  LET f == [c EXCEPT !.state = "updating", !.desired = d] IN
         f \in JournalRow /\ f.state = "updating" /\ f.started = c.started /\ f.desired = d
BY DEF JournalRow
LEMMA DesiredIs ==
  ASSUME ControlsOK, NEW r \in Requests, NEW saw \in Shown
  PROVE  Desired(r, saw) \in Shown /\ (Desired(r, saw).value = r \/ 0 \in Desired(r, saw).made)
<1>1. r \in Int
  BY DEF ControlsOK
<1> QED
  BY <1>1 DEF Desired, Asked, Shown
LEMMA ClaimEditKept ==
  ASSUME ControlsOK, EditsInv, NEW w \in Editors, ClaimEdit(w)
  PROVE  EditsInv' /\ Promise!Tell
<1> DEFINE r == edit[w].r  d == Desired(r, edit[w].saw)
<1>1. At(w, "claim") /\ ~At(w, "write") /\ UNCHANGED <<list, site, sent, carried>>
  BY DEF ClaimEdit, Local, At
<1>2. JobSound(w) /\ EditSound(w) /\ edit[w] \in Job /\ edit[w].job = "edit" /\ r \in Requests
  BY <1>1 DEF EditsInv, ControlsTypeOK, JobSound, At
<1>3. CASE /\ EditContext /\ (r \in Journaled => journal[r].state = "none") /\ control.state = "idle"
           /\ control.version = edit[w].fence
  <2>1. d \in Shown /\ (d.value = r \/ 0 \in d.made)
    BY <1>2, DesiredIs DEF Job
  <2> DEFINE c == ClaimedControl(control, r, EditLease, d, control.version + 1)
  <2>2. c \in ControlRow /\ c.state = "updating" /\ c.op = r /\ c.started = control.started /\ c.desired = d
    <3>1. control \in ControlRow /\ EditLease \in Int /\ control.version + 1 \in Int
      BY DEF EditsInv, ControlsTypeOK, RowsOK, ControlsOK, ControlRow
    <3> QED
      BY <1>2, <2>1, <3>1, ClaimedIs
  <2>3. control' = c
    BY <1>3 DEF ClaimEdit, ClaimedControl
  <2> HIDE DEF c
  <2>4. UnderWay = {} /\ ControlSound'
    BY <1>2, <1>3, <2>1, <2>2, <2>3, UnderWayIs DEF EditsInv, ControlSound, ControlsOK
  <2>5. journal' \in [Journaled -> JournalRow] /\ (\A q \in Journaled : Goes(q))
        /\ (r \in Journaled => journal'[r].state # "none")
    <3>1. journal \in [Journaled -> JournalRow]
      BY DEF EditsInv, ControlsTypeOK, RowsOK
    <3>2. CASE r \in Journaled
      <4> DEFINE f == [journal[r] EXCEPT !.state = "updating", !.desired = d]
      <4>1. f \in JournalRow /\ f.state = "updating" /\ f.started = journal[r].started /\ f.desired = d
        BY <2>1, <3>1, <3>2, ClaimedRow
      <4>2. journal' = [journal EXCEPT ![r] = f]
        BY <1>3, <3>1, <3>2 DEF ClaimEdit
      <4> HIDE DEF f
      <4> QED
        BY <1>3, <2>1, <3>1, <3>2, <4>1, <4>2 DEF Goes
    <3>3. CASE r \notin Journaled
      <4>1. journal' = journal
        BY <1>3, <3>3 DEF ClaimEdit
      <4> QED
        BY <3>1, <3>3, <4>1 DEF Goes
    <3> QED
      BY <3>2, <3>3
  <2>6. RowsOK' /\ Keeps
    BY <1>1, <2>2, <2>3, <2>4, <2>5 DEF EditsInv, ControlsTypeOK, RowsOK, Keeps
  <2>7. /\ Moves(w) /\ edit'[w].pc = "begin" /\ edit'[w].job = edit[w].job /\ edit'[w].r = edit[w].r
        /\ edit'[w].then = edit[w].then
    BY <1>3, StepMoves DEF ClaimEdit
  <2>8. JobSound(w)' /\ ~At(w, "write")'
    BY <1>1, <1>2, <2>7 DEF JobSound, Reads, At
  <2>9. UnderWay' = {} /\ r \notin carried /\ (r \in Journaled => ~journal[r].started) /\ (r \notin Journaled => sent[r] = 0)
    <3>1. UnderWay' = {}
      BY <1>1, <2>4, <2>7, <2>8, NoWriter
    <3>2. CASE r \in Journaled
      <4>1. ~journal[r].started
        BY <1>2, <1>3, <3>2 DEF EditsInv, RequestSound
      <4> QED
        BY <3>1, <3>2, <4>1, NotBegun
    <3>3. CASE r \notin Journaled
      <4>1. sent[r] = 0
        BY <1>1, <1>2, <3>3 DEF EditSound, JobSound, At
      <4> QED
        BY <1>2, <3>1, <3>3, <4>1 DEF EditsInv, RequestSound
    <3> QED
      BY <3>2, <3>3
  <2>10. EditSound(w)'
    BY <1>1, <2>5, <2>7, <2>9 DEF EditSound, Post, Reads, Clean, At, Goes
  <2>11. Alone(w)
    <3>1. ASSUME NEW v \in Editors \ {w}, Post(v), edit[v].r = r PROVE FALSE
      <4>1. edit[v].job = "edit" /\ EditSound(v)
        BY <3>1 DEF EditsInv, JobSound, Post, Reads
      <4>2. r \in Journaled
        BY <1>2, <3>1, <4>1 DEF EditsInv, OnePlain
      <4> QED
        BY <1>3, <3>1, <4>1, <4>2 DEF EditSound
    <3> QED
      BY <2>7, <3>1 DEF Alone
  <2> QED
    BY <1>1, <2>4, <2>5, <2>6, <2>7, <2>8, <2>10, <2>11, RowsMove
<1>4. CASE Leave(w) /\ UNCHANGED <<control, journal>>
  BY <1>1, <1>4, EditorLeaves DEF Rest
<1> QED
  BY <1>3, <1>4 DEF ClaimEdit
----------------------------------------------------------------------------
(* Writes. *)

\* Nothing is under way where no write has begun on the campaign.
LEMMA NothingUnderWay ==
  ASSUME EditsInv, ~control.started PROVE UnderWay = {} /\ site.late = {} /\ \A v \in Editors : ~At(v, "write")
<1>1. UnderWay = {}
  BY UnderWayIs
<1> QED
  BY <1>1 DEF UnderWay

LEMMA BegunIs ==
  ASSUME NEW c \in ControlRow
  PROVE  LET f == [c EXCEPT !.started = TRUE] IN
         f \in ControlRow /\ f.state = c.state /\ f.op = c.op /\ f.started /\ f.desired = c.desired
BY DEF ControlRow
LEMMA StartedRow ==
  ASSUME NEW c \in JournalRow
  PROVE  LET f == [c EXCEPT !.started = TRUE] IN
         f \in JournalRow /\ f.state = c.state /\ f.started /\ f.desired = c.desired
BY DEF JournalRow

\* The write of a request begins: it is the only one.
LEMMA BeginWriteKept ==
  ASSUME ControlsOK, EditsInv, NEW w \in Editors, BeginWrite(w), NEW r, r = edit[w].r
  PROVE  EditsInv' /\ (Promise!Write(r) \/ Promise!Tell) /\ r \in Requests
<1>1. At(w, "begin") /\ ~At(w, "write") /\ Post(w) /\ UNCHANGED <<list, site, sent, carried>>
  BY DEF BeginWrite, Local, At, Post
<1>2. JobSound(w) /\ EditSound(w) /\ edit[w] \in Job /\ r \in Requests /\ RequestSound(r)
  BY <1>1 DEF EditsInv, ControlsTypeOK, JobSound, At
<1>3. CASE /\ BeginAllowed(r) /\ (r \in Journaled => journal[r].state = "updating" /\ ~journal[r].started)
           /\ control' = [control EXCEPT !.started = TRUE]
           /\ journal' = IF r \in Journaled THEN [journal EXCEPT ![r].started = TRUE] ELSE journal
           /\ Step(w, "write")
  <2>1. UnderWay = {} /\ site.late = {} /\ \A v \in Editors : ~At(v, "write")
    BY <1>3, NothingUnderWay DEF BeginAllowed
  <2>2. r \notin carried /\ sent[r] = 0
    BY <1>1, <1>2, <1>3, NotBegun DEF EditSound, Clean, At
  <2>3. /\ Moves(w) /\ edit'[w].pc = "write" /\ edit'[w].job = edit[w].job /\ edit'[w].r = r
        /\ edit'[w].then = edit[w].then
    BY <1>3, StepMoves
  <2>4. UnderWay' = {r}
    BY <1>1, <2>1, <2>3 DEF UnderWay, Moves, At
  <2>5. ASSUME NEW q \in Requests PROVE Writers(q) = {} /\ Writers(q)' = IF q = r THEN {w} ELSE {}
    BY <2>1, <2>3 DEF Writers, Moves, At
  <2>6. ASSUME NEW q \in Requests
        PROVE  Cardinality(Writers(q)) = 0 /\ Cardinality(Writers(q)') = IF q = r THEN 1 ELSE 0
    <3>1. Cardinality({}) = 0 /\ Cardinality({w}) = 1
      BY FS_EmptySet, FS_Singleton
    <3>2. CASE q = r
      <4>1. Writers(q) = {} /\ Writers(q)' = {w}
        BY <2>5, <3>2
      <4> QED
        BY <3>1, <3>2, <4>1
    <3>3. CASE q # r
      <4>1. Writers(q) = {} /\ Writers(q)' = {}
        BY <2>5, <3>3
      <4> QED
        BY <3>1, <3>3, <4>1
    <3> QED
      BY <3>2, <3>3
  <2>7. control' \in ControlRow /\ control'.state = control.state /\ control'.op = r /\ control'.started
        /\ control'.desired = control.desired
    <3> DEFINE c == [control EXCEPT !.started = TRUE]
    <3>1. c \in ControlRow /\ c.state = control.state /\ c.op = control.op /\ c.started /\ c.desired = control.desired
      BY BegunIs DEF EditsInv, ControlsTypeOK, RowsOK
    <3>2. control' = c
      BY <1>3
    <3> HIDE DEF c
    <3> QED
      BY <1>3, <3>1, <3>2 DEF BeginAllowed
  <2>8. /\ journal' \in [Journaled -> JournalRow] /\ \A q \in Journaled \ {r} : journal'[q] = journal[q]
        /\ r \in Journaled => /\ journal'[r].state = "updating" /\ journal'[r].started
                              /\ journal'[r].desired = journal[r].desired
    <3>1. journal \in [Journaled -> JournalRow]
      BY DEF EditsInv, ControlsTypeOK, RowsOK
    <3>2. CASE r \in Journaled
      <4> DEFINE f == [journal[r] EXCEPT !.started = TRUE]
      <4>1. f \in JournalRow /\ f.state = journal[r].state /\ f.started /\ f.desired = journal[r].desired
        BY <3>1, <3>2, StartedRow
      <4>2. journal' = [journal EXCEPT ![r] = f]
        BY <1>3, <3>1, <3>2
      <4> HIDE DEF f
      <4> QED
        BY <1>3, <3>1, <3>2, <4>1, <4>2
    <3>3. CASE r \notin Journaled
      BY <1>3, <3>1, <3>3
    <3> QED
      BY <3>2, <3>3
  <2>9. ControlsTypeOK' /\ SiteSound'
    BY <1>1, <2>3, <2>7, <2>8 DEF EditsInv, ControlsTypeOK, RowsOK, AccountOK, Moves, SiteSound
  <2>10. ControlSound'
    BY <1>2, <1>3, <2>7 DEF EditsInv, ControlSound, BeginAllowed, ControlsOK
  <2>11. OnePost' /\ OnePlain'
    BY <1>1, <2>3, StillAlone DEF Alone
  <2>12. ListSound'
    <3>1. site.epoch \in Int
      BY DEF EditsInv, ControlsTypeOK, AccountOK, SiteRow
    <3> QED
      BY <1>1, <2>3, <3>1, SameList
  <2>13. ASSUME NEW v \in Editors PROVE JobSound(v)' /\ EditSound(v)'
    <3>1. JobSound(v) /\ EditSound(v)
      BY DEF EditsInv
    <3>2. CASE v = w
      BY <1>1, <1>2, <2>3, <2>8, <3>2 DEF JobSound, EditSound, Post, Reads, Clean, At
    <3>3. CASE v # w
      <4>1. edit'[v] = edit[v] /\ (Post(v) => edit[v].r # r)
        BY <1>1, <2>3, <3>3 DEF Moves, EditsInv, OnePost
      <4>2. JobSound(v)'
        BY <1>1, <3>1, <4>1 DEF JobSound, Reads
      <4>3. Clean(v) => Post(v)
        BY DEF Clean, Post, At
      <4>4. ASSUME Post(v), edit[v].r \in Journaled PROVE journal'[edit[v].r] = journal[edit[v].r]
        BY <2>8, <4>1, <4>4
      <4>5. EditSound(v)'
        BY <1>1, <2>4, <3>1, <4>1, <4>3, <4>4 DEF EditSound, Post, Reads, Clean, At
      <4> QED
        BY <4>2, <4>5
    <3> QED
      BY <3>2, <3>3
  <2>14. ASSUME NEW q \in Requests PROVE RequestSound(q)'
    <3>1. RequestSound(q)
      BY DEF EditsInv
    <3>2. CASE q = r
      <4>1. sent'[q] = 0 /\ Cardinality(Writers(q)') = 1
        BY <1>1, <2>2, <2>6, <3>2
      <4>2. sent'[q] + Cardinality(Writers(q)') = 1
        BY <4>1
      <4>3. q \notin site'.late \cup carried'
        BY <1>1, <2>1, <2>2, <3>2
      <4>4. q \in Journaled => journal'[q].state = "updating" /\ journal'[q].started
        BY <2>8, <3>2
      <4>5. q \in Journaled => journal'[q].desired.value = q \/ 0 \in journal'[q].desired.made
        BY <1>3, <2>8, <3>1, <3>2 DEF RequestSound
      <4> QED
        BY <2>7, <3>2, <4>1, <4>2, <4>3, <4>4, <4>5 DEF RequestSound
    <3>3. CASE q # r
      BY <1>1, <2>1, <2>4, <2>6, <2>8, <3>1, <3>3 DEF RequestSound
    <3> QED
      BY <3>2, <3>3
  <2>15. Promise!Write(r)
    <3>1. Attempted' = [Attempted EXCEPT ![r] = 1] /\ Attempted[r] = 0
      <4>1. \A q \in Requests : Attempted[q] = sent[q] + Cardinality(Writers(q)) /\ Attempted'[q] = sent[q] + Cardinality(Writers(q)')
        BY <1>1 DEF Attempted, Writers
      <4>2. sent \in [Requests -> Nat]
        BY DEF EditsInv, ControlsTypeOK, AccountOK
      <4>3. Attempted[r] = 0 /\ Attempted'[r] = 1 /\ \A q \in Requests \ {r} : Attempted'[q] = Attempted[q]
        <5>1. Attempted[r] = 0 /\ Attempted'[r] = 1
          BY <1>2, <2>2, <2>6, <4>1
        <5>2. ASSUME NEW q \in Requests \ {r} PROVE Attempted'[q] = Attempted[q]
          BY <2>6, <4>1, <5>2
        <5> QED
          BY <5>1, <5>2
      <4> QED
        BY <1>2, <4>3 DEF Attempted
    <3>2. Told' = Told /\ Told[r] = "open"
      <4>1. \A q \in Requests : Told'[q] = Told[q]
        BY <1>3, <2>8 DEF Told
      <4> QED
        BY <1>2, <1>3, <4>1 DEF Told
    <3> QED
      BY <1>1, <2>1, <2>4, <3>1, <3>2 DEF Promise!Write
  <2> QED
    BY <1>2, <2>9, <2>10, <2>11, <2>12, <2>13, <2>14, <2>15 DEF EditsInv
<1>4. CASE End(w, "rejected") /\ UNCHANGED <<control, journal>>
  <2>1. (\A q \in Journaled : Goes(q)) /\ Keeps /\ ControlSound' /\ RowsOK'
    BY <1>1, <1>4, GoesNowhere DEF EditsInv, ControlsTypeOK, RowsOK
  <2> QED
    BY <1>1, <1>2, <1>4, <2>1, RowsEnd
<1> QED
  BY <1>3, <1>4 DEF BeginWrite

\* Who writes a request is alone, and nothing else is under way.
LEMMA WriterAlone ==
  ASSUME ControlsOK, EditsInv, NEW w \in Editors, At(w, "write"), NEW r, r = edit[w].r
  PROVE  /\ r \in Requests /\ sent[r] = 0 /\ Writers(r) = {w} /\ UnderWay = {r} /\ site.late = {} /\ r \notin carried
         /\ control.op = r /\ control.started
         /\ r \in Journaled => journal[r].started
         /\ \A v \in Editors : At(v, "write") => v = w
         /\ \A q \in Requests : q # r => Writers(q) = {}
<1>1. r \in Requests /\ r \in UnderWay /\ w \in Writers(r)
  BY DEF EditsInv, JobSound, UnderWay, Writers, At
<1>2. RequestSound(r) /\ sent[r] \in Nat /\ IsFiniteSet(Writers(r)) /\ Cardinality(Writers(r)) \in Nat
  BY <1>1, WritersFinite DEF EditsInv, ControlsTypeOK, AccountOK
<1>3. Cardinality(Writers(r)) # 0
  <2>1. Cardinality(Writers(r)) = 0 <=> Writers(r) = {}
    BY <1>2, FS_EmptySet
  <2> QED
    BY <1>1, <2>1
<1>4. sent[r] = 0 /\ Cardinality(Writers(r)) = 1
  BY <1>2, <1>3 DEF RequestSound
<1>5. Writers(r) = {w}
  <2>1. PICK x : Writers(r) = {x}
    BY <1>2, <1>4, FS_Singleton
  <2> QED
    BY <1>1, <2>1
<1>6. control.op = r /\ control.started /\ r \notin carried /\ r \notin site.late /\ (r \in Journaled => journal[r].started)
  BY <1>1, <1>2, <1>4 DEF RequestSound
<1>7. UnderWay = {r}
  BY <1>1, <1>6, UnderWayIs
<1>8. site.late = {}
  BY <1>6, <1>7 DEF UnderWay
<1>9. ASSUME NEW v \in Editors, At(v, "write") PROVE v = w
  <2>1. edit[v].r = r
    BY <1>7, <1>9 DEF UnderWay
  <2>2. v \in Writers(r)
    BY <1>9, <2>1 DEF Writers
  <2> QED
    BY <1>5, <2>2
<1>10. ASSUME NEW q \in Requests, q # r PROVE Writers(q) = {}
  BY <1>9, <1>10 DEF Writers
<1> QED
  BY <1>1, <1>4, <1>5, <1>6, <1>7, <1>8, <1>9, <1>10

\* What a write does to the account.
LateOf(s, late) == [s EXCEPT !.late = late]
DoneOf(s, late, shows) == [s EXCEPT !.late = late, !.shows = shows]
LEMMA LateIs ==
  ASSUME NEW s \in SiteRow, NEW late \in SUBSET Requests
  PROVE  LET f == LateOf(s, late) IN f \in SiteRow /\ f.late = late /\ f.shows = s.shows /\ f.epoch = s.epoch
BY DEF SiteRow, LateOf
LEMMA DoneIs ==
  ASSUME NEW s \in SiteRow, NEW late \in SUBSET Requests, NEW shows \in Shown
  PROVE  LET f == DoneOf(s, late, shows) IN f \in SiteRow /\ f.late = late /\ f.shows = shows /\ f.epoch = s.epoch
BY DEF SiteRow, DoneOf
LEMMA AskedIs ==
  ASSUME ControlsOK, EditsInv, NEW r \in Requests
  PROVE  LET a == Asked(r, site.shows) IN
         a \in Shown /\ a.value \in carried \cup {r} \cup {0} /\ a.made \subseteq carried \cup {r}
<1>1. r \in Int /\ site.shows \in Shown
  BY DEF ControlsOK, EditsInv, ControlsTypeOK, AccountOK, SiteRow
<1>2. site.shows.value \in carried \cup {0} /\ site.shows.made \subseteq carried
  BY DEF EditsInv, SiteSound
<1> QED
  BY <1>1, <1>2 DEF Asked, Shown
\* A write is carried out, is late, or is lost.
Carried(r) == /\ site' = DoneOf(site, site.late \ {r}, Asked(r, site.shows)) /\ carried' = carried \cup {r}
Delayed(r) == site' = LateOf(site, {r}) /\ carried' = carried
Lost == site' = site /\ carried' = carried
LEMMA EffectIs ==
  ASSUME ControlsOK, EditsInv, NEW r \in Requests, Carried(r) \/ Delayed(r) \/ Lost
  PROVE  /\ site' \in SiteRow /\ carried' \subseteq Requests /\ SiteSound' /\ site'.epoch = site.epoch
         /\ carried \subseteq carried' /\ carried' \subseteq carried \cup {r}
         /\ \/ Carried(r) /\ site'.late = site.late \ {r} /\ carried' = carried \cup {r}
            \/ Delayed(r) /\ site'.late = {r} /\ carried' = carried
            \/ Lost /\ site'.late = site.late /\ carried' = carried
<1>1. site \in SiteRow /\ site.late \ {r} \in SUBSET Requests /\ {r} \in SUBSET Requests /\ carried \subseteq Requests
  BY DEF EditsInv, ControlsTypeOK, AccountOK, SiteRow
<1>2. SiteSound
  BY DEF EditsInv
<1>3. CASE Carried(r)
  <2> DEFINE a == Asked(r, site.shows)  f == DoneOf(site, site.late \ {r}, a)
  <2>1. a \in Shown /\ a.value \in carried \cup {r} \cup {0} /\ a.made \subseteq carried \cup {r}
    BY AskedIs
  <2> HIDE DEF a
  <2>2. f \in SiteRow /\ f.late = site.late \ {r} /\ f.shows = a /\ f.epoch = site.epoch
    BY <1>1, <2>1, DoneIs
  <2>3. site' = f /\ carried' = carried \cup {r}
    BY <1>3 DEF Carried, a
  <2> HIDE DEF f
  <2> QED
    BY <1>1, <1>3, <2>1, <2>2, <2>3 DEF SiteSound
<1>4. CASE Delayed(r)
  <2> DEFINE f == LateOf(site, {r})
  <2>1. f \in SiteRow /\ f.late = {r} /\ f.shows = site.shows /\ f.epoch = site.epoch
    BY <1>1, LateIs
  <2>2. site' = f /\ carried' = carried
    BY <1>4 DEF Delayed
  <2> HIDE DEF f
  <2> QED
    BY <1>1, <1>2, <1>4, <2>1, <2>2 DEF SiteSound
<1>5. CASE Lost
  BY <1>1, <1>2, <1>5 DEF Lost, SiteSound
<1> QED
  BY <1>3, <1>4, <1>5

\* The goroutine leaves its write behind: a write that failed for certain is lost.
Written(w, r) ==
  \/ edit'[w] = NoEdit
  \/ /\ edit'[w].job = edit[w].job /\ edit'[w].r = r /\ edit'[w].then = edit[w].then
     /\ \/ edit'[w].pc = "ack"
        \/ edit'[w].pc = "finish" /\ edit'[w].end = "uncertain"
        \/ edit'[w].pc = "finish" /\ edit'[w].end = "rejected" /\ Lost
LEMMA WrittenKept ==
  ASSUME ControlsOK, EditsInv, NEW w \in Editors, At(w, "write"), NEW r, r = edit[w].r, Moves(w), Written(w, r),
         RowsOK', ListSound', list'.generation = list.generation, UNCHANGED <<control, journal>>,
         sent' = [sent EXCEPT ![r] = @ + 1],
         Carried(r) \/ Delayed(r) \/ Lost
  PROVE  EditsInv' /\ (Promise!CarryOut(r) \/ Promise!Drop)
<1>1. /\ r \in Requests /\ sent[r] = 0 /\ Writers(r) = {w} /\ UnderWay = {r} /\ site.late = {} /\ r \notin carried
      /\ control.op = r /\ control.started
      /\ r \in Journaled => journal[r].started
      /\ \A v \in Editors : At(v, "write") => v = w
      /\ \A q \in Requests : q # r => Writers(q) = {}
  BY WriterAlone
<1>2. /\ site' \in SiteRow /\ carried' \subseteq Requests /\ SiteSound' /\ site'.epoch = site.epoch
      /\ carried \subseteq carried' /\ carried' \subseteq carried \cup {r}
      /\ \/ site'.late = {} /\ carried' = carried \cup {r}
         \/ site'.late = {r} /\ carried' = carried
         \/ site'.late = {} /\ carried' = carried
  BY <1>1, EffectIs
<1>3. \A v \in Editors : ~At(v, "write")'
  BY <1>1, NoEditIs DEF Moves, Written, At
<1>4. UnderWay' = site'.late
  BY <1>3 DEF UnderWay
<1>5. ASSUME NEW q \in Requests
      PROVE  Cardinality(Writers(q)) = (IF q = r THEN 1 ELSE 0) /\ Cardinality(Writers(q)') = 0
  <2>1. Cardinality({}) = 0 /\ Cardinality({w}) = 1
    BY FS_EmptySet, FS_Singleton
  <2>2. Writers(q)' = {}
    BY <1>3 DEF Writers
  <2>3. Cardinality(Writers(q)') = 0
    BY <2>1, <2>2
  <2>4. CASE q = r
    <3>1. Writers(q) = {w}
      BY <1>1, <2>4
    <3> QED
      BY <2>1, <2>3, <2>4, <3>1
  <2>5. CASE q # r
    <3>1. Writers(q) = {}
      BY <1>1, <2>5
    <3> QED
      BY <2>1, <2>3, <2>5, <3>1
  <2> QED
    BY <2>4, <2>5
<1>6. sent' \in [Requests -> Nat] /\ sent'[r] = 1 /\ \A q \in Requests \ {r} : sent'[q] = sent[q]
  BY <1>1 DEF EditsInv, ControlsTypeOK, AccountOK
<1>7. ControlsTypeOK'
  BY <1>2, <1>6 DEF ControlsTypeOK, AccountOK, Moves
<1>8. JobSound(w) /\ EditSound(w) /\ edit[w].job = "edit" /\ Post(w)
  BY DEF EditsInv, JobSound, Post, At
<1>9. ASSUME NEW v \in Editors PROVE JobSound(v)' /\ EditSound(v)'
  <2>1. CASE v # w
    <3>1. edit'[v] = edit[v] /\ JobSound(v) /\ EditSound(v) /\ (Post(v) => edit[v].r # r)
      BY <1>8, <2>1 DEF Moves, EditsInv, OnePost
    <3>2. JobSound(v)'
      BY <1>2, <3>1 DEF JobSound, Reads
    <3>3. Clean(v) => Post(v)
      BY DEF Clean, Post, At
    <3>4. edit[v].job = "edit" /\ edit[v].r \notin Journaled => edit[v].r # r
      BY <1>8, <2>1 DEF EditsInv, OnePlain
    <3>5. edit[v].r # r => sent'[edit[v].r] = sent[edit[v].r] \/ edit[v].r \notin Requests
      BY <1>6
    <3>6. /\ At(v, "begin") => edit[v].r \in Requests /\ Post(v)
          /\ edit[v].pc \in {"read", "settle", "observe", "claim", "begin"} /\ edit[v].then = "match" => edit[v].r \in Requests
      BY <3>1 DEF JobSound, Reads, At, Post
    <3>7. EditSound(v)'
      BY <1>2, <1>4, <3>1, <3>3, <3>4, <3>5, <3>6 DEF EditSound, Post, Reads, Clean, At
    <3> QED
      BY <3>2, <3>7
  <2>2. CASE v = w /\ edit'[w] = NoEdit
    BY <2>2, NoEditIs DEF JobSound, EditSound, Post, Reads, Clean, At
  <2>3. CASE v = w /\ edit'[w] # NoEdit
    <3>1. /\ edit'[w].job = "edit" /\ edit'[w].r = r /\ edit'[w].then = edit[w].then
          /\ \/ edit'[w].pc = "ack"
             \/ edit'[w].pc = "finish" /\ edit'[w].end = "uncertain"
             \/ edit'[w].pc = "finish" /\ edit'[w].end = "rejected" /\ Lost
      BY <1>8, <2>3 DEF Written
    <3>2. Lost => r \notin site'.late \cup carried'
      BY <1>1 DEF Lost
    <3>3. JobSound(w)'
      BY <1>1, <3>1 DEF JobSound, Reads
    <3>4. r \in Journaled => journal'[r].state # "none"
      BY <1>8 DEF EditSound
    <3>5. EditSound(w)'
      BY <1>4, <3>1, <3>2, <3>4 DEF EditSound, Post, Reads, Clean, At
    <3> QED
      BY <2>3, <3>3, <3>5
  <2> QED
    BY <2>1, <2>2, <2>3
<1>10. OnePost' /\ OnePlain'
  BY <1>8, NoEditIs, StillAlone DEF Alone, Written, Post, Reads
<1>11. ASSUME NEW q \in Requests PROVE RequestSound(q)'
  <2>1. RequestSound(q)
    BY DEF EditsInv
  <2>2. CASE q = r
    <3>1. sent'[q] = 1 /\ Cardinality(Writers(q)') = 0
      BY <1>5, <1>6, <2>2
    <3>2. sent'[q] + Cardinality(Writers(q)') = 1
      BY <3>1
    <3> QED
      BY <1>1, <1>2, <1>4, <2>1, <2>2, <3>1, <3>2 DEF RequestSound
  <2>3. CASE q # r
    <3>1. sent'[q] = sent[q] /\ Cardinality(Writers(q)) = 0 /\ Cardinality(Writers(q)') = 0
      BY <1>5, <1>6, <2>3
    <3> QED
      BY <1>1, <1>2, <1>4, <2>1, <2>3, <3>1 DEF RequestSound
  <2> QED
    BY <2>2, <2>3
<1>12. EditsInv'
  BY <1>2, <1>7, <1>9, <1>10, <1>11 DEF EditsInv, ControlSound
<1>13. Attempted' = Attempted
  <2>1. ASSUME NEW q \in Requests PROVE Attempted'[q] = Attempted[q]
    <3>1. Attempted[q] = sent[q] + Cardinality(Writers(q)) /\ Attempted'[q] = sent'[q] + Cardinality(Writers(q)')
      BY DEF Attempted, Writers
    <3> QED
      BY <1>1, <1>5, <1>6, <3>1
  <2> QED
    BY <2>1 DEF Attempted
<1>14. Promise!CarryOut(r) \/ Promise!Drop
  <2>1. Told' = Told
    BY DEF Told
  <2> QED
    BY <1>1, <1>2, <1>4, <1>13, <2>1 DEF Promise!CarryOut, Promise!Drop, Promise!Elsewhere
<1> QED
  BY <1>12, <1>14

LEMMA SameSite ==
  ASSUME NEW s \in SiteRow, NEW shows \in Shown, NEW r
  PROVE  /\ [s EXCEPT !.shows = shows] = DoneOf(s, s.late, shows)
         /\ s.late = {} => [s EXCEPT !.late = s.late \cup {r}] = LateOf(s, {r})
BY DEF SiteRow, DoneOf, LateOf
LEMMA WriterList ==
  ASSUME ControlsOK, EditsInv, NEW w \in Editors, Moves(w), edit'[w].pc # "store",
         UNCHANGED <<control, journal, list>>, site'.epoch = site.epoch
  PROVE  RowsOK' /\ ListSound' /\ list'.generation = list.generation
<1>1. site.epoch \in Int
  BY DEF EditsInv, ControlsTypeOK, AccountOK, SiteRow
<1> QED
  BY <1>1, SameList DEF EditsInv, ControlsTypeOK, RowsOK
\* What becomes of a write, in the account.
LEMMA WriteEffects ==
  ASSUME ControlsOK, EditsInv, NEW w \in Editors, At(w, "write"), NEW r, r = edit[w].r,
         \/ site' = [site EXCEPT !.shows = Asked(r, @)] /\ carried' = carried \cup {r}
         \/ site' = [site EXCEPT !.late = @ \cup {r}] /\ carried' = carried
         \/ UNCHANGED <<site, carried>>
  PROVE  (Carried(r) \/ Delayed(r) \/ Lost) /\ site'.epoch = site.epoch
<1>1. r \in Requests /\ site.late = {} /\ site \in SiteRow
  BY WriterAlone DEF EditsInv, ControlsTypeOK, AccountOK
<1>2. Asked(r, site.shows) \in Shown /\ site.late \ {r} = site.late
  BY <1>1, AskedIs
<1>3. Carried(r) \/ Delayed(r) \/ Lost
  <2>1. CASE site' = [site EXCEPT !.shows = Asked(r, @)] /\ carried' = carried \cup {r}
    <3>1. site' = [site EXCEPT !.shows = Asked(r, site.shows)]
      BY <2>1
    <3>2. site' = DoneOf(site, site.late \ {r}, Asked(r, site.shows))
      BY <1>1, <1>2, <3>1, SameSite
    <3> QED
      BY <2>1, <3>2 DEF Carried
  <2>2. CASE site' = [site EXCEPT !.late = @ \cup {r}] /\ carried' = carried
    BY <1>1, <2>2, <1>2, SameSite DEF Delayed
  <2>3. CASE UNCHANGED <<site, carried>>
    BY <2>3 DEF Lost
  <2> QED
    BY <2>1, <2>2, <2>3
<1> QED
  BY <1>1, <1>3, EffectIs

LEMMA WriteControlKept ==
  ASSUME ControlsOK, EditsInv, NEW w \in Editors, WriteControl(w), NEW r, r = edit[w].r
  PROVE  EditsInv' /\ (Promise!CarryOut(r) \/ Promise!Drop)
<1>1. At(w, "write") /\ UNCHANGED <<control, journal, list>> /\ sent' = [sent EXCEPT ![r] = @ + 1]
  BY DEF WriteControl
<1>2. (Carried(r) \/ Delayed(r) \/ Lost) /\ site'.epoch = site.epoch
  BY <1>1, WriteEffects DEF WriteControl
<1>3. Moves(w) /\ Written(w, r) /\ edit'[w].pc # "store"
  <2>1. CASE Step(w, "ack")
    BY <2>1, StepMoves DEF Written
  <2>2. CASE End(w, "rejected") /\ UNCHANGED <<site, carried>>
    BY <2>2, EndMoves DEF Written, Lost
  <2>3. CASE End(w, "uncertain")
    BY <2>3, EndMoves DEF Written
  <2> QED
    BY <2>1, <2>2, <2>3 DEF WriteControl
<1>4. RowsOK' /\ ListSound' /\ list'.generation = list.generation
  BY <1>1, <1>2, <1>3, WriterList
<1> QED
  BY <1>1, <1>2, <1>3, <1>4, WrittenKept

LEMMA EditorDiesKept ==
  ASSUME ControlsOK, EditsInv, NEW w \in Editors, EditorDies(w), NEW r, r = edit[w].r
  PROVE  EditsInv' /\ ((r \in Requests /\ Promise!CarryOut(r)) \/ Promise!Drop \/ Promise!Tell)
<1>1. UNCHANGED <<control, journal, list>> /\ Leave(w)
  BY DEF EditorDies
<1>2. CASE At(w, "write")
  <2>1. r \in Requests
    BY <1>2, WriterAlone
  <2>2. sent' = [sent EXCEPT ![r] = @ + 1] /\ (Carried(r) \/ Delayed(r) \/ Lost) /\ site'.epoch = site.epoch
    BY <1>2, WriteEffects DEF EditorDies
  <2>3. Moves(w) /\ Written(w, r) /\ edit'[w].pc # "store"
    BY <1>1, LeaveMoves DEF Written
  <2>4. RowsOK' /\ ListSound' /\ list'.generation = list.generation
    BY <1>1, <2>2, <2>3, WriterList
  <2> QED
    BY <1>1, <1>2, <2>1, <2>2, <2>3, <2>4, WrittenKept
<1>3. CASE ~At(w, "write")
  <2>1. Rest
    BY <1>1, <1>3 DEF EditorDies, Rest
  <2> QED
    BY <1>1, <1>3, <2>1, EditorLeaves
<1> QED
  BY <1>2, <1>3

\* A late write is carried out: nobody is at it any more.
LEMMA LateWriteKept ==
  ASSUME ControlsOK, EditsInv, NEW r \in Requests, LateWrite(r)
  PROVE  EditsInv' /\ Promise!CarryOut(r)
<1>1. r \in site.late /\ UNCHANGED <<control, journal, list, edit, sent>> /\ carried' = carried \cup {r}
  BY DEF LateWrite
<1>2. /\ sent[r] = 1 /\ control.op = r /\ control.started /\ r \notin carried /\ UnderWay = {r}
      /\ r \in UnderWay
  <2>1. r \in UnderWay
    BY <1>1 DEF UnderWay
  <2>2. RequestSound(r)
    BY DEF EditsInv
  <2> QED
    BY <1>1, <2>1, <2>2, UnderWayIs DEF RequestSound
<1>3. Writers(r) = {}
  <2>1. IsFiniteSet(Writers(r)) /\ Cardinality(Writers(r)) \in Nat
    BY WritersFinite
  <2>2. Cardinality(Writers(r)) = 0
    BY <1>2, <2>1 DEF EditsInv, RequestSound
  <2> QED
    BY <2>1, <2>2, FS_EmptySet
<1>4. \A v \in Editors : ~At(v, "write")
  <2>1. ASSUME NEW v \in Editors, At(v, "write") PROVE FALSE
    <3>1. edit[v].r = r
      BY <1>2, <2>1 DEF UnderWay
    <3> QED
      BY <1>3, <2>1, <3>1 DEF Writers
  <2> QED
    BY <2>1
<1>5. site.late = {r}
  BY <1>1, <1>2 DEF UnderWay
<1>6. Carried(r)
  <2> DEFINE f == [site EXCEPT !.late = site.late \ {r}, !.shows = Asked(r, site.shows)]
  <2>1. site' = f
    BY DEF LateWrite, EditsInv, ControlsTypeOK, AccountOK, SiteRow
  <2> QED
    BY <1>1, <2>1 DEF Carried, DoneOf
<1>7. /\ site' \in SiteRow /\ carried' \subseteq Requests /\ SiteSound' /\ site'.epoch = site.epoch
      /\ carried \subseteq carried' /\ carried' = carried \cup {r} /\ r \notin carried
      /\ site'.late = {}
  BY <1>1, <1>2, <1>5, <1>6, EffectIs
<1>8. UnderWay' = {}
  BY <1>1, <1>4, <1>7 DEF UnderWay, At
<1>9. \A q : Writers(q)' = Writers(q)
  BY <1>1 DEF Writers, At
<1>10. ControlsTypeOK' /\ ListSound' /\ OnePost' /\ OnePlain' /\ ControlSound'
  BY <1>1, <1>7
  DEF EditsInv, ControlsTypeOK, RowsOK, AccountOK, ListSound, OnePost, OnePlain, ControlSound, At, GenerationCurrent,
      Post, Reads
<1>11. ASSUME NEW v \in Editors PROVE JobSound(v)' /\ EditSound(v)'
  <2>1. JobSound(v) /\ EditSound(v)
    BY DEF EditsInv
  <2>2. JobSound(v)'
    BY <1>1, <1>7, <2>1 DEF JobSound, Reads
  <2>3. EditSound(v)'
    BY <1>1, <1>2, <1>7, <1>8, <2>1 DEF EditSound, Post, Reads, Clean, At
  <2> QED
    BY <2>2, <2>3
<1>12. ASSUME NEW q \in Requests PROVE RequestSound(q)'
  <2>1. RequestSound(q) /\ Writers(q)' = Writers(q)
    BY <1>9 DEF EditsInv
  <2> QED
    BY <1>1, <1>2, <1>7, <1>8, <2>1 DEF RequestSound
<1>13. Promise!CarryOut(r)
  <2>1. Told' = Told /\ Attempted' = Attempted
    BY <1>1, <1>9 DEF Told, Attempted, At
  <2> QED
    BY <1>1, <1>2, <1>8, <2>1 DEF Promise!CarryOut, Promise!Elsewhere
<1> QED
  BY <1>7, <1>10, <1>11, <1>12, <1>13 DEF EditsInv
----------------------------------------------------------------------------
(* The list, and what happens to the connection. *)

UnclaimedList(l) == [l EXCEPT !.claimed = FALSE, !.lease = 0]
ClaimedList(l, g, n) == [l EXCEPT !.generation = g, !.lease = n, !.claimed = TRUE]
StoredList(l, e) == [l EXCEPT !.epoch = e, !.claimed = FALSE, !.lease = 0]
LEMMA UnclaimedIs ==
  ASSUME NEW l \in ListRow
  PROVE  LET f == UnclaimedList(l) IN f \in ListRow /\ f.generation = l.generation /\ f.epoch = l.epoch /\ ~f.claimed
<1>1. ASSUME NEW b \in BOOLEAN, NEW n \in Int
      PROVE  LET f == [l EXCEPT !.claimed = b, !.lease = n] IN
             f \in ListRow /\ f.generation = l.generation /\ f.epoch = l.epoch /\ f.claimed = b
  BY DEF ListRow
<1>2. PICK b \in BOOLEAN : b = FALSE
  BY Zenon
<1>3. PICK n \in Int : n = 0
  OBVIOUS
<1> DEFINE f == [l EXCEPT !.claimed = b, !.lease = n]
<1>4. f \in ListRow /\ f.generation = l.generation /\ f.epoch = l.epoch /\ f.claimed = b
  BY <1>1
<1>5. UnclaimedList(l) = f
  BY <1>2, <1>3 DEF UnclaimedList
<1> HIDE DEF f
<1> QED
  BY <1>2, <1>4, <1>5
LEMMA ClaimedListIs ==
  ASSUME NEW l \in ListRow, NEW g \in Int, NEW n \in Int
  PROVE  LET f == ClaimedList(l, g, n) IN f \in ListRow /\ f.generation = g /\ f.epoch = l.epoch
BY DEF ListRow, ClaimedList
LEMMA StoredListIs ==
  ASSUME NEW l \in ListRow, NEW e \in Int
  PROVE  LET f == StoredList(l, e) IN f \in ListRow /\ f.generation = l.generation /\ f.epoch = e /\ ~f.claimed
<1>1. ASSUME NEW b \in BOOLEAN, NEW n \in Int
      PROVE  LET f == [l EXCEPT !.epoch = e, !.claimed = b, !.lease = n] IN
             f \in ListRow /\ f.generation = l.generation /\ f.epoch = e /\ f.claimed = b
  BY DEF ListRow
<1>2. PICK b \in BOOLEAN : b = FALSE
  BY Zenon
<1>3. PICK n \in Int : n = 0
  OBVIOUS
<1> DEFINE f == [l EXCEPT !.epoch = e, !.claimed = b, !.lease = n]
<1>4. f \in ListRow /\ f.generation = l.generation /\ f.epoch = e /\ f.claimed = b
  BY <1>1
<1>5. StoredList(l, e) = f
  BY <1>2, <1>3 DEF StoredList
<1> HIDE DEF f
<1> QED
  BY <1>2, <1>4, <1>5

\* A step of one goroutine that leaves the campaign alone.
LEMMA ListMoves ==
  ASSUME ControlsOK, EditsInv, NEW w \in Editors, Moves(w), Alone(w), JobSound(w)', EditSound(w)',
         ~At(w, "write"), ~At(w, "write")', list' \in ListRow, ListSound',
         list'.generation >= list.generation, UNCHANGED <<control, journal, site, sent, carried>>
  PROVE  EditsInv' /\ Promise!Tell
<1>1. RowsOK'
  BY DEF EditsInv, ControlsTypeOK, RowsOK
<1> QED
  BY <1>1, GoesNowhere, EditorKept

LEMMA CallRefusedKept ==
  ASSUME ControlsOK, EditsInv, NEW w \in Editors, AuthorizationRefused(w), NEW r, r = edit[w].r
  PROVE  EditsInv' /\ ((r \in Requests /\ Promise!CarryOut(r)) \/ Promise!Drop \/ Promise!Tell)
<1>1. UNCHANGED <<control, journal, site, carried>> /\ list' = UnclaimedList(list)
  BY DEF AuthorizationRefused, UnclaimedList
<1>2. list' \in ListRow /\ list'.generation = list.generation /\ list'.epoch = list.epoch /\ ~list'.claimed
      /\ list.generation \in Int
  BY <1>1, UnclaimedIs DEF EditsInv, ControlsTypeOK, RowsOK, ListRow
<1>3. ListSound' /\ RowsOK'
  BY <1>1, <1>2 DEF EditsInv, ListSound, GenerationCurrent, ControlsTypeOK, RowsOK
<1>4. JobSound(w) /\ EditSound(w)
  BY DEF EditsInv
<1>5. CASE At(w, "write")
  <2>1. r \in Requests
    BY <1>5, WriterAlone
  <2>2. sent' = [sent EXCEPT ![r] = @ + 1] /\ Lost /\ End(w, "uncertain")
    BY <1>1, <1>5 DEF AuthorizationRefused, Lost
  <2>3. Moves(w) /\ Written(w, r)
    BY <2>2, EndMoves DEF Written
  <2> QED
    BY <1>1, <1>2, <1>3, <1>5, <2>1, <2>2, <2>3, WrittenKept
<1>6. CASE ~At(w, "write") /\ edit[w].then = "verify"
  <2>1. sent' = sent /\ End(w, "uncertain") /\ At(w, "read") /\ Post(w)
    BY <1>4, <1>6 DEF AuthorizationRefused, JobSound, At, Post, Reads
  <2>2. /\ Moves(w) /\ edit'[w].pc = "finish" /\ edit'[w].job = edit[w].job /\ edit'[w].r = edit[w].r
        /\ edit'[w].then = edit[w].then /\ edit'[w].end = "uncertain"
    BY <2>1, EndMoves
  <2>3. JobSound(w)' /\ EditSound(w)'
    BY <1>1, <1>4, <1>6, <2>1, <2>2 DEF JobSound, EditSound, Post, Reads, Clean, At
  <2>4. Alone(w) /\ ~At(w, "write")'
    BY <2>1, <2>2, SameJobAlone DEF At
  <2> QED
    BY <1>1, <1>2, <1>3, <1>6, <2>1, <2>2, <2>3, <2>4, ListMoves
<1>7. CASE ~At(w, "write") /\ edit[w].then # "verify"
  <2>1. sent' = sent /\ Leave(w)
    BY <1>7 DEF AuthorizationRefused
  <2>2. Moves(w) /\ JobSound(w)' /\ EditSound(w)' /\ edit'[w].pc = "idle" /\ edit'[w].job = "none"
    BY <2>1, LeaveMoves
  <2>3. Alone(w) /\ ~At(w, "write")'
    BY <2>2 DEF Alone, Post, Reads, At
  <2> QED
    BY <1>1, <1>2, <1>3, <1>7, <2>1, <2>2, <2>3, ListMoves
<1> QED
  BY <1>5, <1>6, <1>7

\* The job of listing the campaigns.
SyncJob(fence) == [NoEdit EXCEPT !.job = "sync", !.pc = "list", !.fence = fence]
LEMMA SyncIs ==
  ASSUME NEW fence \in Int
  PROVE  LET e == SyncJob(fence) IN e \in Job /\ e.job = "sync" /\ e.pc = "list" /\ e.fence = fence /\ e.then = ""
<1>1. NoEdit.then = ""
  BY DEF NoEdit
<1> QED
  BY <1>1, NoEditIs DEF SyncJob, Job
LEMMA UnclaimKept ==
  ASSUME ControlsOK, EditsInv, NEW w \in Editors, Step(w, "unclaim"), edit[w].pc \in {"list", "store"}, Rest
  PROVE  EditsInv' /\ Promise!Tell
<1>1. /\ Moves(w) /\ edit'[w].pc = "unclaim" /\ edit'[w].job = edit[w].job /\ edit'[w].r = edit[w].r
      /\ edit'[w].fence = edit[w].fence /\ edit'[w].then = edit[w].then
  BY StepMoves
<1>2. JobSound(w)
  BY DEF EditsInv
<1>3. JobSound(w)' /\ EditSound(w)' /\ ~Post(w)' /\ ~At(w, "write") /\ ~At(w, "write")'
  BY <1>1, <1>2 DEF JobSound, EditSound, Post, Reads, Clean, At, Rest
<1>4. Alone(w)
  BY <1>1, <1>3, SameJobAlone
<1> QED
  BY <1>1, <1>3, <1>4, EditorMoves
\* The claim is given up or the snapshot replaced, and the goroutine leaves.
LEMMA ListLeaves ==
  ASSUME ControlsOK, EditsInv, NEW w \in Editors, Leave(w), ~At(w, "write"), list' \in ListRow,
         list' = list \/ (list'.generation = list.generation /\ ~list'.claimed /\ list'.epoch <= site.epoch),
         UNCHANGED <<control, journal, site, sent, carried>>
  PROVE  EditsInv' /\ Promise!Tell
<1>1. /\ Moves(w) /\ JobSound(w)' /\ EditSound(w)' /\ edit'[w].pc = "idle" /\ edit'[w].job = "none"
      /\ list.generation \in Int /\ list'.generation >= list.generation
  BY LeaveMoves DEF EditsInv, ControlsTypeOK, RowsOK, ListRow
<1>2. Alone(w) /\ ~At(w, "write")'
  BY <1>1 DEF Alone, Post, Reads, At
<1>3. ListSound'
  BY <1>1 DEF EditsInv, ListSound, Moves, At, GenerationCurrent
<1> QED
  BY <1>1, <1>2, <1>3, ListMoves
LEMMA ListStepKept ==
  ASSUME ControlsOK, EditsInv, NEW w \in Editors, ListStep(w)
  PROVE  EditsInv' /\ Promise!Tell /\ (list'.epoch # list.epoch => list'.epoch >= list.epoch)
<1>1. UNCHANGED <<control, journal, site, sent, carried>>
  BY DEF ListStep, ClaimListSync, ListCampaigns, ReplaceExternalCampaigns, ReleaseListSync
<1>2. /\ list \in ListRow /\ list.generation \in Int /\ list.epoch \in Int /\ SyncLease \in Int /\ site.epoch \in Int
      /\ JobSound(w) /\ EditSound(w) /\ edit[w] \in Job /\ edit[w].saw.value \in Int /\ edit[w].fence \in Int
  <2>1. list \in ListRow /\ site \in SiteRow /\ edit[w] \in Job /\ JobSound(w) /\ EditSound(w) /\ SyncLease \in Int
    BY DEF EditsInv, ControlsTypeOK, RowsOK, AccountOK, ControlsOK
  <2>2. list.generation \in Int /\ list.epoch \in Int
    BY <2>1 DEF ListRow
  <2>3. site.epoch \in Int
    BY <2>1 DEF SiteRow
  <2>4. edit[w].saw.value \in Int /\ edit[w].fence \in Int
    BY <2>1 DEF Job, Shown
  <2> QED
    BY <2>1, <2>2, <2>3, <2>4
<1>3. CASE ClaimListSync(w)
  <2> DEFINE e == SyncJob(list.generation + 1)  f == ClaimedList(list, list.generation + 1, SyncLease)
  <2>1. e \in Job /\ e.job = "sync" /\ e.pc = "list" /\ e.fence = list.generation + 1 /\ e.then = ""
    <3>1. list.generation + 1 \in Int
      BY <1>2
    <3> QED
      BY <3>1, SyncIs
  <2>2. f \in ListRow /\ f.generation = list.generation + 1 /\ f.epoch = list.epoch
    BY <1>2, ClaimedListIs
  <2>3. edit' = [edit EXCEPT ![w] = e] /\ list' = f /\ At(w, "idle")
    BY <1>3 DEF ClaimListSync, SyncJob, ClaimedList
  <2> HIDE DEF e, f
  <2>4. Moves(w) /\ edit'[w] = e
    BY <2>1, <2>3, MoveType
  <2>5. ListSound'
    <3>1. list'.epoch <= site'.epoch
      BY <1>1, <2>2, <2>3 DEF EditsInv, ListSound
    <3>2. ASSUME NEW v \in Editors, At(v, "store")' PROVE ~GenerationCurrent(v)'
      <4>1. v # w /\ edit'[v] = edit[v] /\ edit[v].fence <= list.generation /\ edit[v].fence \in Int
        BY <2>1, <2>4, <3>2 DEF Moves, At, EditsInv, JobSound, ControlsTypeOK, Job
      <4> QED
        BY <1>2, <2>2, <2>3, <4>1 DEF GenerationCurrent
    <3> QED
      BY <3>1, <3>2 DEF ListSound
  <2>6. JobSound(w)' /\ EditSound(w)' /\ Alone(w) /\ ~At(w, "write") /\ ~At(w, "write")'
    <3>1. edit'[w].fence <= list'.generation
      <4>1. edit'[w].fence = list.generation + 1
        BY <2>1, <2>4
      <4>2. list'.generation = list.generation + 1
        BY <2>2, <2>3
      <4>3. list.generation + 1 <= list.generation + 1
        BY <1>2
      <4> QED
        BY <4>1, <4>2, <4>3
    <3> QED
      BY <2>1, <2>3, <2>4, <3>1 DEF JobSound, EditSound, Alone, Post, Reads, Clean, At
  <2>7. list' \in ListRow /\ list'.generation >= list.generation
    BY <1>2, <2>2, <2>3
  <2> QED
    BY <1>1, <2>2, <2>3, <2>4, <2>5, <2>6, <2>7, ListMoves
<1>4. CASE ListCampaigns(w)
  <2>1. At(w, "list") /\ list' = list /\ edit[w].then = ""
    BY <1>2, <1>4 DEF ListCampaigns, JobSound, At
  <2>2. CASE edit' = [edit EXCEPT ![w].pc = "store", ![w].saw = [value |-> site.epoch, made |-> {}]]
    <3> DEFINE s == [value |-> site.epoch, made |-> {}]  e == [edit[w] EXCEPT !.pc = "store", !.saw = s]
    <3>1. s \in Shown /\ s.value = site.epoch
      BY <1>2 DEF Shown
    <3>2. edit' = [edit EXCEPT ![w] = e]
      BY <2>2 DEF EditsInv, ControlsTypeOK
    <3> HIDE DEF s
    <3>3. e \in Job /\ e.pc = "store" /\ e.saw = s /\ e.fence = edit[w].fence /\ e.job = edit[w].job
          /\ e.r = edit[w].r /\ e.then = edit[w].then
      BY <1>2, <3>1 DEF Job
    <3> HIDE DEF e
    <3>4. Moves(w) /\ edit'[w] = e
      BY <3>2, <3>3, MoveType
    <3>5. JobSound(w)' /\ EditSound(w)' /\ ~Post(w)' /\ ~At(w, "write") /\ ~At(w, "write")'
      <4>1. edit'[w].saw.value <= site'.epoch
        <5>1. edit'[w].saw.value = site.epoch
          BY <3>1, <3>3, <3>4
        <5> QED
          BY <1>1, <1>2, <5>1
      <4>2. edit'[w].fence <= list'.generation
        <5>1. edit[w].fence <= list.generation
          BY <1>2, <2>1 DEF JobSound, At
        <5>2. edit'[w].fence = edit[w].fence
          BY <3>3, <3>4
        <5> QED
          BY <2>1, <5>1, <5>2
      <4> QED
        BY <2>1, <3>3, <3>4, <4>1, <4>2 DEF JobSound, EditSound, Post, Reads, Clean, At
    <3>6. ListSound'
      BY <1>1, <1>2, <2>1, <3>1, <3>3, <3>4 DEF EditsInv, ListSound, Moves, At, GenerationCurrent
    <3>7. Alone(w)
      BY <3>3, <3>4, <3>5, SameJobAlone
    <3>8. list' \in ListRow /\ list'.generation >= list.generation
      <4>1. list' = list
        BY <2>1
      <4>2. list \in ListRow /\ list.generation >= list.generation
        BY <1>2
      <4> QED
        BY <4>1, <4>2
    <3>9. EditsInv' /\ Promise!Tell
      BY <1>1, <3>4, <3>5, <3>6, <3>7, <3>8, ListMoves
    <3> QED
      BY <2>1, <3>9
  <2>3. CASE Step(w, "unclaim")
    BY <1>1, <2>1, <2>3, UnclaimKept DEF Rest, At
  <2> QED
    BY <1>4, <2>2, <2>3 DEF ListCampaigns
<1>5. CASE ReplaceExternalCampaigns(w)
  <2>1. At(w, "store") /\ edit[w].saw.value <= site.epoch
    BY <1>2, <1>5 DEF ReplaceExternalCampaigns, JobSound, At
  <2>2. CASE Step(w, "unclaim") /\ list' = list
    BY <1>1, <2>1, <2>2, UnclaimKept DEF Rest, At
  <2>3. CASE Leave(w) /\ list' = list
    BY <1>1, <1>2, <2>1, <2>3, ListLeaves DEF At
  <2>4. CASE Leave(w) /\ GenerationCurrent(w) /\ list' = StoredList(list, edit[w].saw.value)
    <3>1. list' \in ListRow /\ list'.generation = list.generation /\ list'.epoch = edit[w].saw.value /\ ~list'.claimed
      BY <1>2, <2>4, StoredListIs
    <3>2. list'.epoch >= list.epoch
      BY <2>1, <2>4, <3>1 DEF EditsInv, ListSound
    <3> QED
      BY <1>1, <2>1, <2>4, <3>1, <3>2, ListLeaves DEF At
  <2> QED
    BY <1>5, <2>2, <2>3, <2>4 DEF ReplaceExternalCampaigns, StoredList
<1>6. CASE ReleaseListSync(w)
  <2>1. Leave(w) /\ ~At(w, "write") /\ (list' = list \/ list' = UnclaimedList(list))
    BY <1>6 DEF ReleaseListSync, At, UnclaimedList
  <2>2. list' \in ListRow /\ list'.epoch = list.epoch
        /\ (list' = list \/ (list'.generation = list.generation /\ ~list'.claimed))
    BY <1>2, <2>1, UnclaimedIs
  <2>3. list.epoch <= site.epoch
    BY DEF EditsInv, ListSound
  <2> QED
    BY <1>1, <2>1, <2>2, <2>3, ListLeaves
<1> QED
  BY <1>3, <1>4, <1>5, <1>6 DEF ListStep

\* No goroutine takes a step: the connection, the account or time moves on.
LEMMA NobodyMoves ==
  ASSUME ControlsOK, EditsInv, control' \in ControlRow, ControlSound', UNCHANGED <<journal, edit, sent, carried>>,
         control'.op = control.op, control'.started = control.started,
         site' \in SiteRow, site'.shows = site.shows, site'.late = site.late, site'.epoch >= site.epoch,
         list' \in ListRow, list'.generation = list.generation,
         list' = list \/ (list'.epoch <= site.epoch /\ (list'.claimed => list.claimed /\ list'.epoch = list.epoch))
  PROVE  EditsInv' /\ Promise!Tell
<1>1. ControlsTypeOK' /\ site.epoch \in Int /\ site'.epoch \in Int /\ list'.epoch \in Int /\ list.epoch \in Int
  BY DEF EditsInv, ControlsTypeOK, RowsOK, AccountOK, SiteRow, ListRow
<1>2. ListSound'
  <2>1. list'.epoch <= site'.epoch
    BY <1>1 DEF EditsInv, ListSound
  <2>2. ASSUME NEW v \in Editors, At(v, "store")', GenerationCurrent(v)' PROVE edit'[v].saw.value >= list'.epoch
    BY <2>2 DEF EditsInv, ListSound, At, GenerationCurrent
  <2> QED
    BY <2>1, <2>2 DEF ListSound
<1>3. OnePost' /\ OnePlain'
  BY DEF EditsInv, OnePost, OnePlain, Post, Reads
<1>4. ASSUME NEW v \in Editors PROVE JobSound(v)'
  <2>1. JobSound(v) /\ edit[v] \in Job /\ edit[v].saw.value \in Int
    BY DEF EditsInv, ControlsTypeOK, Job, Shown
  <2>2. edit[v].pc = "store" => edit[v].saw.value <= site'.epoch
    <3>1. edit[v].pc = "store" => edit[v].saw.value <= site.epoch
      BY <2>1 DEF JobSound
    <3> QED
      BY <1>1, <2>1, <3>1
  <2> QED
    BY <2>1, <2>2 DEF JobSound, Reads
<1>5. (\A r \in Journaled : Goes(r)) /\ Keeps /\ \A v \in Editors : Quiet(v)
  BY DEF Goes, Keeps, Claim, Quiet
<1> QED
  BY <1>1, <1>2, <1>3, <1>4, <1>5, QuietKept

\* The connection is replaced or given up, which waits for no write of its campaigns.
LEMMA ClearedKept ==
  ASSUME ControlsOK, EditsInv, list' = list \/ list' = Cleared, UNCHANGED <<control, journal, site, edit, sent, carried>>
  PROVE  EditsInv' /\ Promise!Tell /\ (list' = list \/ list'.epoch = 0)
<1>1. list \in ListRow /\ site \in SiteRow /\ control \in ControlRow /\ ControlSound
  BY DEF EditsInv, ControlsTypeOK, RowsOK, AccountOK
<1>2. site.epoch \in Nat
  BY <1>1 DEF SiteRow
<1>3. PICK n \in Int : n = 0
  OBVIOUS
<1>4. Cleared = StoredList(list, n)
  BY <1>3 DEF Cleared, StoredList
<1>5. Cleared \in ListRow /\ Cleared.generation = list.generation /\ Cleared.epoch = n /\ ~Cleared.claimed
  BY <1>1, <1>4, StoredListIs
<1>6. Cleared.epoch = 0 /\ Cleared.epoch <= site.epoch
  BY <1>2, <1>3, <1>5
<1>7. list' \in ListRow /\ list'.generation = list.generation /\ (list' = list \/ list'.epoch = 0)
  BY <1>1, <1>5, <1>6
<1>8. list' = list \/ (list'.epoch <= site.epoch /\ (list'.claimed => list.claimed /\ list'.epoch = list.epoch))
  BY <1>5, <1>6
<1>9. ControlSound' /\ site'.epoch >= site.epoch
  BY <1>1, <1>2 DEF ControlSound
<1>10. EditsInv' /\ Promise!Tell
  BY <1>1, <1>7, <1>8, <1>9, NobodyMoves
<1> QED
  BY <1>7, <1>10

\* Others change the campaign in the account.
LEMMA ChangedKept == ASSUME ControlsOK, EditsInv, ChangedInAccount PROVE EditsInv' /\ Promise!Tell /\ list' = list
<1>1. list \in ListRow /\ site \in SiteRow /\ control \in ControlRow /\ ControlSound
  BY DEF EditsInv, ControlsTypeOK, RowsOK, AccountOK
<1>2. site.epoch \in Nat
  BY <1>1 DEF SiteRow
<1>3. ASSUME NEW n \in Nat, site' = [site EXCEPT !.epoch = n]
      PROVE  site' \in SiteRow /\ site'.shows = site.shows /\ site'.late = site.late /\ site'.epoch = n
  BY <1>1, <1>3 DEF SiteRow
<1>4. PICK n \in Nat : n = site.epoch + 1
  BY <1>2
<1>5. site' = [site EXCEPT !.epoch = n]
  BY <1>4 DEF ChangedInAccount
<1>6. site' \in SiteRow /\ site'.shows = site.shows /\ site'.late = site.late /\ site'.epoch >= site.epoch
  BY <1>2, <1>3, <1>4, <1>5
<1>7. UNCHANGED <<control, journal, list, edit, sent, carried>>
  BY DEF ChangedInAccount
<1>8. ControlSound'
  BY <1>1, <1>7 DEF ControlSound
<1> QED
  BY <1>1, <1>6, <1>7, <1>8, NobodyMoves

LEMMA ControlLeaseIs ==
  ASSUME NEW c \in ControlRow, NEW n \in Int
  PROVE  LET f == [c EXCEPT !.lease = n] IN
         f \in ControlRow /\ f.state = c.state /\ f.op = c.op /\ f.started = c.started /\ f.desired = c.desired
BY DEF ControlRow
LEMMA ListLeaseIs ==
  ASSUME NEW l \in ListRow, NEW n \in Int
  PROVE  LET f == [l EXCEPT !.lease = n] IN
         f \in ListRow /\ f.generation = l.generation /\ f.epoch = l.epoch /\ f.claimed = l.claimed
BY DEF ListRow
LEMMA TimeKept == ASSUME ControlsOK, EditsInv, Tick PROVE EditsInv' /\ Promise!Tell /\ list'.epoch = list.epoch
<1>1. list \in ListRow /\ site \in SiteRow /\ control \in ControlRow /\ ControlSound
  BY DEF EditsInv, ControlsTypeOK, RowsOK, AccountOK
<1>2. list.epoch <= site.epoch /\ site.epoch \in Nat /\ control.lease \in Int /\ list.lease \in Int
  BY <1>1 DEF EditsInv, ListSound, SiteRow, ControlRow, ListRow
<1>3. UNCHANGED <<journal, site, edit, sent, carried>>
  BY DEF Tick
<1>4. PICK n \in Int : n = Less(control.lease)
  BY <1>2, LessIs
<1>5. PICK m \in Int : m = Less(list.lease)
  BY <1>2, LessIs
<1>6. control' = [control EXCEPT !.lease = n] /\ list' = [list EXCEPT !.lease = m]
  BY <1>4, <1>5 DEF Tick
<1>7. /\ control' \in ControlRow /\ control'.state = control.state /\ control'.op = control.op
      /\ control'.started = control.started /\ control'.desired = control.desired
  BY <1>1, <1>6, ControlLeaseIs
<1>8. /\ list' \in ListRow /\ list'.generation = list.generation /\ list'.epoch = list.epoch
      /\ list'.claimed = list.claimed
  BY <1>1, <1>6, ListLeaseIs
<1>9. ControlSound'
  BY <1>1, <1>7 DEF ControlSound
<1>10. site' \in SiteRow /\ site'.epoch >= site.epoch
  BY <1>1, <1>2, <1>3
<1>11. list'.epoch <= site.epoch /\ (list'.claimed => list.claimed /\ list'.epoch = list.epoch)
  BY <1>2, <1>8
<1> QED
  BY <1>3, <1>7, <1>8, <1>9, <1>10, <1>11, NobodyMoves
----------------------------------------------------------------------------
(* The invariant holds, and WriteOnce is implemented. *)

LEMMA EditsInit == ASSUME ControlsOK, ControlsInit PROVE EditsInv /\ Promise!Init
<1>1. Nothing \in Shown /\ Nothing.value = 0 /\ Nothing.made = {}
  BY DEF Nothing, Shown
<1>2. /\ journal \in [Journaled -> JournalRow]
      /\ \A r \in Journaled : journal[r].state = "none" /\ ~journal[r].started
  <2> DEFINE row == [state |-> "none", started |-> FALSE, acked |-> FALSE, desired |-> Nothing]
  <2>1. row \in JournalRow
    BY <1>1 DEF JournalRow
  <2>2. row.state = "none" /\ ~row.started
    OBVIOUS
  <2>3. journal = [r \in Journaled |-> row]
    BY DEF ControlsInit
  <2> HIDE DEF row
  <2> QED
    BY <2>1, <2>2, <2>3
<1>3. control \in ControlRow /\ control.state = "idle" /\ control.op = 0 /\ ~control.started
  BY <1>1 DEF ControlsInit, ControlRow
<1>4. list \in ListRow /\ list.epoch = 0
  BY DEF ControlsInit, ListRow
<1>5. site \in SiteRow /\ site.shows = Nothing /\ site.late = {} /\ site.epoch = 1
  BY <1>1 DEF ControlsInit, SiteRow
<1>6. edit \in [Editors -> Job] /\ \A w \in Editors : edit[w].pc = "idle" /\ edit[w].job = "none"
  BY NoEditIs DEF ControlsInit
<1>7. sent = [r \in Requests |-> 0] /\ carried = {}
  BY DEF ControlsInit
<1>8. ControlsTypeOK
  BY <1>2, <1>3, <1>4, <1>5, <1>6, <1>7 DEF ControlsTypeOK, RowsOK, AccountOK
<1>9. ListSound /\ OnePost /\ OnePlain /\ ControlSound /\ SiteSound
  BY <1>1, <1>3, <1>4, <1>5, <1>6, <1>7
  DEF ListSound, OnePost, OnePlain, ControlSound, SiteSound, Post, Reads, At
<1>10. ASSUME NEW w \in Editors PROVE JobSound(w) /\ EditSound(w)
  BY <1>6 DEF JobSound, EditSound, Reads, Post, Clean, At
<1>11. UnderWay = {}
  BY <1>5, <1>6 DEF UnderWay, At
<1>12. ASSUME NEW r \in Requests PROVE Cardinality(Writers(r)) = 0 /\ sent[r] = 0
  <2>1. Writers(r) = {}
    BY <1>6 DEF Writers, At
  <2> QED
    BY <1>7, <2>1, FS_EmptySet
<1>13. ASSUME NEW r \in Requests PROVE RequestSound(r)
  <2>1. r \in Journaled => journal[r].state = "none" /\ ~journal[r].started
    BY <1>2
  <2>2. sent[r] + Cardinality(Writers(r)) = 0
    BY <1>12
  <2>3. r \notin site.late \cup carried /\ r \notin UnderWay
    BY <1>5, <1>7, <1>11
  <2> QED
    BY <2>1, <2>2, <2>3 DEF RequestSound
<1>14. Attempted = [r \in Requests |-> 0]
  BY <1>12 DEF Attempted, Writers
<1>15. Told = [r \in Requests |-> "open"]
  BY <1>2 DEF Told
<1> QED
  BY <1>7, <1>8, <1>9, <1>10, <1>11, <1>13, <1>14, <1>15 DEF EditsInv, Promise!Init

LEMMA SameEdits == ASSUME EditsInv, UNCHANGED controls PROVE EditsInv' /\ UNCHANGED Promise!promise
<1>1. UNCHANGED <<control, journal, list, site, edit, sent, carried>>
  BY DEF controls
<1>2. ControlsTypeOK' /\ ListSound' /\ OnePost' /\ OnePlain' /\ ControlSound' /\ SiteSound'
  BY <1>1 DEF EditsInv, ControlsTypeOK, RowsOK, AccountOK, ListSound, OnePost, OnePlain, ControlSound, SiteSound,
              Post, Reads, At, GenerationCurrent
<1>3. UnderWay' = UnderWay /\ \A r : Writers(r)' = Writers(r)
  BY <1>1 DEF UnderWay, Writers, At
<1>4. ASSUME NEW w \in Editors PROVE JobSound(w)' /\ EditSound(w)'
  <2>1. JobSound(w) /\ EditSound(w)
    BY DEF EditsInv
  <2> QED
    <3>1. JobSound(w)'
      BY <1>1, <2>1 DEF JobSound, Reads
    <3>2. EditSound(w)'
      BY <1>1, <1>3, <2>1 DEF EditSound, Post, Reads, Clean, At
    <3> QED
      BY <3>1, <3>2
<1>5. ASSUME NEW r \in Requests PROVE RequestSound(r)'
  <2>1. RequestSound(r)
    BY DEF EditsInv
  <2> QED
    BY <1>1, <1>3, <2>1 DEF RequestSound
<1>6. UNCHANGED Promise!promise
  <2>1. Attempted' = Attempted
    BY <1>1, <1>3 DEF Attempted, Writers
  <2>2. Told' = Told
    BY <1>1 DEF Told
  <2> QED
    BY <1>1, <1>3, <2>1, <2>2 DEF Promise!promise
<1> QED
  BY <1>2, <1>4, <1>5, <1>6 DEF EditsInv

\* A step of an edit is one of WriteOnce.
LEMMA EditStepKept ==
  ASSUME ControlsOK, EditsInv, NEW w \in Editors, EditStep(w)
  PROVE  EditsInv' /\ Promise!Next /\ list' = list
<1> USE DEF Promise!Next
<1>1. CASE (\E r \in Requests : BeginRequest(w, r) \/ BeginReconcile(w, r)) \/ BeginLook(w)
  BY <1>1, BeginKept DEF BeginRequest, BeginReconcile, BeginLook, EditOnly, Local
<1>2. CASE ReadDetail(w)
  BY <1>2, ReadDetailKept DEF ReadDetail, EditOnly, Local
<1>3. CASE SettleJournal(w)
  BY <1>3, SettleKept DEF SettleJournal, Local
<1>4. CASE ObserveEdit(w)
  BY <1>4, ObserveKept DEF ObserveEdit, Local
<1>5. CASE ChooseCreated(w)
  BY <1>5, ChooseKept DEF ChooseCreated, Local
<1>6. CASE ClaimEdit(w)
  BY <1>6, ClaimEditKept DEF ClaimEdit, Local
<1>7. CASE BeginWrite(w)
  <2>1. EditsInv' /\ (Promise!Write(edit[w].r) \/ Promise!Tell) /\ edit[w].r \in Requests
    BY <1>7, BeginWriteKept
  <2>2. list' = list
    BY <1>7 DEF BeginWrite, Local
  <2> QED
    BY <2>1, <2>2
<1>8. CASE WriteControl(w)
  <2>1. EditsInv' /\ (Promise!CarryOut(edit[w].r) \/ Promise!Drop)
    BY <1>8, WriteControlKept
  <2>2. list' = list /\ edit[w].r \in Requests
    BY <1>8, WriterAlone DEF WriteControl
  <2> QED
    BY <2>1, <2>2
<1>9. CASE AcknowledgeOperation(w)
  BY <1>9, AcknowledgeKept DEF AcknowledgeOperation, Local
<1>10. CASE FinishEdit(w)
  BY <1>10, FinishKept DEF FinishEdit, Local
<1>11. CASE EditorDies(w)
  <2>1. EditsInv' /\ ((edit[w].r \in Requests /\ Promise!CarryOut(edit[w].r)) \/ Promise!Drop \/ Promise!Tell)
    BY <1>11, EditorDiesKept
  <2>2. list' = list
    BY <1>11 DEF EditorDies
  <2> QED
    BY <2>1, <2>2
<1> QED
  BY <1>1, <1>2, <1>3, <1>4, <1>5, <1>6, <1>7, <1>8, <1>9, <1>10, <1>11 DEF EditStep

\* So is every step of DirectControls, or none; and the list only gets newer.
LEMMA EditsStep ==
  ASSUME ControlsOK, EditsInv, [Next]_<<access, controls>>
  PROVE  EditsInv' /\ [Promise!Next]_(Promise!promise) /\ NewerList
<1>1. list.epoch \in Int
  BY DEF EditsInv, ControlsTypeOK, RowsOK, ListRow
<1>2. list'.epoch = list.epoch \/ list'.epoch = 0 \/ list'.epoch >= list.epoch => NewerList
  BY <1>1 DEF NewerList
<1>3. CASE UNCHANGED controls
  <2>1. list' = list
    BY <1>3 DEF controls
  <2> QED
    BY <1>2, <1>3, <2>1, SameEdits
<1>4. ASSUME NEW w \in Editors, EditStep(w) PROVE EditsInv' /\ Promise!Next /\ NewerList
  BY <1>2, <1>4, EditStepKept
<1>5. ASSUME NEW w \in Editors, ListStep(w) PROVE EditsInv' /\ Promise!Next /\ NewerList
  <2>1. EditsInv' /\ Promise!Tell /\ (list'.epoch # list.epoch => list'.epoch >= list.epoch)
    BY <1>5, ListStepKept
  <2> QED
    BY <1>2, <2>1 DEF Promise!Next
<1>6. ASSUME NEW w \in Editors, AuthorizationRefused(w) PROVE EditsInv' /\ Promise!Next /\ NewerList
  <2>1. EditsInv' /\ ((edit[w].r \in Requests /\ Promise!CarryOut(edit[w].r)) \/ Promise!Drop \/ Promise!Tell)
    BY <1>6, CallRefusedKept
  <2>2. list' = UnclaimedList(list) /\ list \in ListRow
    BY <1>6 DEF AuthorizationRefused, UnclaimedList, EditsInv, ControlsTypeOK, RowsOK
  <2>3. list'.epoch = list.epoch
    BY <2>2, UnclaimedIs
  <2> QED
    BY <1>2, <2>1, <2>3 DEF Promise!Next
<1>7. ASSUME NEW r \in Requests, LateWrite(r) PROVE EditsInv' /\ Promise!Next /\ NewerList
  <2>1. list' = list
    BY <1>7 DEF LateWrite
  <2> QED
    BY <1>2, <1>7, <2>1, LateWriteKept DEF Promise!Next
<1>8. ASSUME \/ \E a \in Attempts : ReplaceConnection(a)
             \/ RevokeConnection
      PROVE  EditsInv' /\ Promise!Next /\ NewerList
  <2>1. list' = list \/ list' = Cleared
    BY <1>8 DEF ReplaceConnection, RevokeConnection
  <2>2. UNCHANGED <<control, journal, site, edit, sent, carried>>
    BY <1>8 DEF ReplaceConnection, RevokeConnection
  <2>3. EditsInv' /\ Promise!Tell /\ (list' = list \/ list'.epoch = 0)
    BY <2>1, <2>2, ClearedKept
  <2> QED
    BY <1>2, <2>3 DEF Promise!Next
<1>9. CASE ChangedInAccount \/ Tick
  BY <1>2, <1>9, ChangedKept, TimeKept DEF Promise!Next
<1> QED
  BY <1>3, <1>4, <1>5, <1>6, <1>7, <1>8, <1>9 DEF Next, controls
----------------------------------------------------------------------------
(* The theorems. *)

\* The inductive invariant of the connection, for any number of processes and attempts.
THEOREM ConnectionSound == ControlsOK /\ Spec => []AccessInv
<1> SUFFICES ASSUME ControlsOK PROVE Spec => []AccessInv
  OBVIOUS
<1>1. Init => AccessInv
  BY AccessInitSound DEF Init
<1>2. AccessInv /\ [Next]_<<access, controls>> => AccessInv'
  BY AccessStep
<1> QED
  BY <1>1, <1>2, PTL DEF Spec

\* While no answer is lost and no process dies, the newest refresh token of the connection is stored, or in the
\* hands of the one process that may store it: two processes never spend the same token (directAccessToken).
THEOREM TheGrantIsKept == ControlsOK /\ Spec => []GrantKept
<1>1. AccessInv => GrantKept
  BY DEF AccessInv
<1> QED
  BY <1>1, ConnectionSound, PTL

\* A goroutine that claimed an edit holds its request alone, the campaign stays claimed while a write of
\* it may still be carried out, and what was carried out agrees with the journal.
THEOREM EditsSound == ControlsOK /\ Spec => []EditsInv
<1> SUFFICES ASSUME ControlsOK PROVE Spec => []EditsInv
  OBVIOUS
<1>1. Init => EditsInv
  BY EditsInit DEF Init
<1>2. EditsInv /\ [Next]_<<access, controls>> => EditsInv'
  BY EditsStep
<1> QED
  BY <1>1, <1>2, PTL DEF Spec

\* DirectControls implements WriteOnce: the settings of a campaign MaxPosty did not create are edited, and
\* objects created in it, as it promises, through lost and late answers, refused tokens, connections given
\* up, leases that end and goroutines that die.
THEOREM EditsKeepTheirPromise == ControlsOK /\ Spec => Promise!Spec
<1> SUFFICES ASSUME ControlsOK PROVE Spec => Promise!Spec
  OBVIOUS
<1>1. Init => EditsInv /\ Promise!Init
  BY EditsInit DEF Init
<1>2. EditsInv /\ [Next]_<<access, controls>> => EditsInv' /\ [Promise!Next]_(Promise!promise)
  BY EditsStep
<1> QED
  BY <1>1, <1>2, PTL DEF Spec, Promise!Spec

\* Hence an edit is written at most once, and the journal's verdict on it is true, however late the
\* provider carries it out.
THEOREM EditVerdictsTrue == ControlsOK /\ Spec => []Promise!Truthful
BY EditsKeepTheirPromise, Promise!VerdictsTrue, PTL

\* And two edits of the campaign are never on their way together.
THEOREM EditWritesSerial == ControlsOK /\ Spec => []Promise!Serial
BY EditsKeepTheirPromise, Promise!WritesSerial, PTL

\* The connection stored is that of the last authorization started, and the snapshot of a connection is
\* never replaced by an older listing.
THEOREM NothingOlder == ControlsOK /\ Spec => [][NothingOlderWins]_<<access, controls>>
<1> SUFFICES ASSUME ControlsOK PROVE Spec => [][NothingOlderWins]_<<access, controls>>
  OBVIOUS
<1>1. AccessInv /\ EditsInv /\ [Next]_<<access, controls>> => [NothingOlderWins]_<<access, controls>>
  BY AccessStep, EditsStep DEF NothingOlderWins
<1> QED
  BY <1>1, ConnectionSound, EditsSound, PTL DEF Spec
=============================================================================
