-------------------------------- MODULE Analysis --------------------------------
(***************************************************************************)
(* The analysis of a channel's recent media: one row per channel, which is *)
(* claimed by whoever analyses and then holds the answer.                  *)
(*                                                                         *)
(* The answer belongs to a snapshot of the published posts; a visitor with *)
(* another snapshot takes the row over at once, one with the same snapshot *)
(* waits until the claim has expired.                                      *)
(***************************************************************************)
EXTENDS Integers, FiniteSets

CONSTANTS
  Visitors,
  ClaimLife,            \* of a claim
  Timeout,              \* of the external work
  ReadyLife, PartLife,  \* of an answer, and of one that is not complete
  MaxWait,              \* bound on the wait for the row
  MaxTime, MaxChanges, MaxPaid

VARIABLES
  moment,
  media,     \* the snapshot: which media the published posts have
  allowed,   \* the visitors who may use AI in the workspace
  entry,     \* content_analysis_cache
  visitor,   \* the requests
  paid,      \* ghost: every claim that was granted, with its snapshot
  displaced  \* ghost: claims lost to another snapshot

\* What the proofs assume: a claim is longer than the wait for the row and the external work together.
AnalysesOK ==
  /\ ClaimLife \in Nat /\ Timeout \in Nat /\ MaxWait \in Nat /\ MaxWait + Timeout < ClaimLife
  /\ ReadyLife \in Nat /\ PartLife \in Nat /\ MaxChanges \in Nat

analysis == <<moment, media, allowed, entry, visitor, paid, displaced>>

None == 0
Idle == [pc |-> "idle", key |-> None, stamp |-> 0, claim |-> None, until |-> 0, status |-> "none"]
Empty == [key |-> None, claim |-> None, until |-> 0, expires |-> 0, status |-> "none", about |-> None]
Init ==
  /\ moment = 0 /\ media = 1 /\ allowed = Visitors /\ entry = Empty
  /\ visitor = [v \in Visitors |-> Idle] /\ paid = {} /\ displaced = {}

At(v, pc) == visitor[v].pc = pc
Go(v, r) == visitor' = [visitor EXCEPT ![v] = r]
----------------------------------------------------------------------------
ListContentAnalysisPosts(v) ==
  /\ At(v, "idle") /\ v \in allowed
  /\ Go(v, [Idle EXCEPT !.pc = "claim", !.key = media, !.stamp = moment])
  /\ UNCHANGED <<moment, media, allowed, entry, paid, displaced>>

Saved(k, t) == entry.key = k /\ entry.expires > t /\ entry.status # "none"
UnderWay(k, t) == entry.key = k /\ entry.claim # None /\ entry.until > t
\* Answered from the row, refused because somebody works on it, or its new owner.
ClaimContentAnalysis(v) ==
  LET k == visitor[v].key  t == visitor[v].stamp  id == Cardinality(paid) + 1 IN
  /\ At(v, "claim")
  /\ IF v \notin allowed \/ Saved(k, t) \/ UnderWay(k, t)
     THEN Go(v, Idle) /\ UNCHANGED <<entry, paid, displaced>>
     ELSE /\ Cardinality(paid) < MaxPaid
          /\ entry' = [Empty EXCEPT !.key = k, !.claim = id, !.until = t + ClaimLife, !.expires = t]
          /\ paid' = paid \cup {[id |-> id, key |-> k]}
          /\ displaced' = IF entry.key # k THEN displaced \cup {entry.claim} ELSE displaced
          /\ Go(v, [visitor[v] EXCEPT !.pc = "analyze", !.claim = id, !.until = moment + Timeout])
  /\ UNCHANGED <<moment, media, allowed>>
\* Some or all media cannot be read, or the model does not answer in time: both are kept for a short time.
Outcomes == {"ready", "partial"}
AnalyzeChannelContent(v) ==
  /\ At(v, "analyze")
  /\ \E status \in Outcomes : Go(v, [visitor[v] EXCEPT !.pc = "recheck", !.status = status])
  /\ UNCHANGED <<moment, media, allowed, entry, paid, displaced>>
\* After the external work the snapshot must still be the one that was analysed.
SnapshotKey(v) == media
Recheck(v) ==
  /\ At(v, "recheck")
  /\ IF v \in allowed /\ SnapshotKey(v) = visitor[v].key
     THEN Go(v, [visitor[v] EXCEPT !.pc = "complete",
                   !.until = moment + (IF visitor[v].status = "ready" THEN ReadyLife ELSE PartLife)])
     ELSE Go(v, Idle)
  /\ UNCHANGED <<moment, media, allowed, entry, paid, displaced>>
Owns(v) == entry.key = visitor[v].key /\ entry.claim = visitor[v].claim /\ entry.until > moment
CompleteContentAnalysis(v) ==
  /\ At(v, "complete") /\ Go(v, Idle)
  /\ entry' = IF v \in allowed /\ Owns(v)
              THEN [entry EXCEPT !.status = visitor[v].status, !.about = visitor[v].key,
                                 !.expires = visitor[v].until, !.until = moment]
              ELSE entry
  /\ UNCHANGED <<moment, media, allowed, paid, displaced>>
----------------------------------------------------------------------------
\* A request fails or is cancelled; what it claimed expires by itself.
RequestEnds(v) ==
  /\ visitor[v].pc # "idle" /\ Go(v, Idle)
  /\ UNCHANGED <<moment, media, allowed, entry, paid, displaced>>
\* A post is published, edited or deleted; a source that was replaced has another time of change.
MediaChanges ==
  /\ media <= MaxChanges
  /\ media' = media + 1
  /\ UNCHANGED <<moment, allowed, entry, visitor, paid, displaced>>
MemberLeaves(v) ==
  /\ allowed = Visitors /\ allowed' = allowed \ {v}
  /\ UNCHANGED <<moment, media, entry, visitor, paid, displaced>>
Tick ==
  /\ moment < MaxTime /\ moment' = moment + 1
  /\ \A v \in Visitors :
       /\ At(v, "claim") => moment < visitor[v].stamp + MaxWait
       /\ At(v, "analyze") => moment < visitor[v].until
  /\ UNCHANGED <<media, allowed, entry, visitor, paid, displaced>>

Next ==
  \/ \E v \in Visitors :
       \/ ListContentAnalysisPosts(v) \/ ClaimContentAnalysis(v) \/ AnalyzeChannelContent(v)
       \/ Recheck(v) \/ CompleteContentAnalysis(v) \/ RequestEnds(v) \/ MemberLeaves(v)
  \/ MediaChanges \/ Tick
----------------------------------------------------------------------------
\* The same snapshot is analysed by one visitor at a time, unless another snapshot displaced his claim.
PaidOnce ==
  \A v, w \in Visitors :
    v # w /\ At(v, "analyze") /\ At(w, "analyze") /\ visitor[v].key = visitor[w].key =>
      {visitor[v].claim, visitor[w].claim} \cap displaced # {}

\* The answer of a row is about the snapshot of the row.
AnswerMatches == entry.status # "none" => entry.about = entry.key
================================================================================
