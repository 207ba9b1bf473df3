--------------------------- MODULE DirectGraphStore ---------------------------
(***************************************************************************)
(* The transactions of a campaign's provider operation: how it is claimed, *)
(* how it advances, what a verified graph records, and how an operation    *)
(* that the provider refused ends.  Each is one step.                      *)
(***************************************************************************)
EXTENDS DirectProvider

NextStage == [claimed |-> "campaign", campaign |-> "group", group |-> "ad", ad |-> "keywords",
              keywords |-> "observed", verified |-> "moderation", moderation |-> "completed"]
validDirectProviderStageTransition(from, to) == from \in DOMAIN NextStage /\ NextStage[from] = to

directLocalStatusForModeration(moderation, status) ==
  CASE moderation = "ACCEPTED" -> IF status \in {"active", "suspended"} THEN status ELSE "accepted"
    [] moderation = "REJECTED" -> "rejected"
    [] moderation = "DRAFT"    -> "provider_draft"
    [] OTHER                   -> "moderation"

GraphEvidenceReady(c) == row[c].revision # 0
GraphLaunchReady(c) == GraphEvidenceReady(c) /\ row[c].status = "accepted" /\ row[c].moderation = "ACCEPTED"

SyncBusy(c) == syncing[c].lease > 0
ClearSync(c) == syncing' = [syncing EXCEPT ![c] = NoSync]

\* A live lease is exclusive.
OperationBusy(c) == Unfinished(c) /\ op[c].lease > 0

NewOperation(w, c, kind) ==
  /\ op[c].number < MaxOperations
  /\ op' = [op EXCEPT ![c] = [number |-> op[c].number + 1, kind |-> kind, stage |-> "claimed",
                              base |-> row[c].revision, holder |-> w, lease |-> Lease]]

ClaimSubmission(w, c) ==
  /\ ~SyncBusy(c) /\ ~Unfinished(c) /\ Usable(c)
  /\ row[c].status = "draft" /\ ~row[c].created
  /\ NewOperation(w, c, "submission") /\ ClearSync(c)
  /\ row' = [row EXCEPT ![c].status = "creating"]
  /\ StartGraph(w, c, "claimed", "read")
  /\ UNCHANGED launch

\* Mutant: the evidence of the old revision stays while the provider is edited.
KeepEvidence(r) == [r EXCEPT !.consent = 0]

\* An edit first withdraws what was verified, and the consent given to it.
WithdrawEvidence(r) == [r EXCEPT !.revision = 0, !.moderation = "", !.consent = 0]

ClaimProviderEdit(w, c) ==
  /\ ~SyncBusy(c) /\ ~Unfinished(c) /\ Usable(c)
  /\ GraphEvidenceReady(c) /\ row[c].state = "OFF" /\ row[c].status # "active"
  /\ launch[c].state = "idle"
  /\ NewOperation(w, c, "update") /\ ClearSync(c)
  /\ row' = [row EXCEPT ![c] = WithdrawEvidence(@)]
  /\ StartGraph(w, c, "claimed", "read")
  /\ UNCHANGED launch

\* The same request, sent again, takes over its own operation once the lease
\* has ended. The loop does so for every operation whose lease has ended; it
\* learns only afterwards that the connection cannot be used.
TakeOver(w, c, pc) ==
  /\ Unfinished(c) /\ ~OperationBusy(c) /\ ~SyncBusy(c)
  /\ op' = [op EXCEPT ![c].holder = w, ![c].lease = Lease] /\ ClearSync(c)
  /\ StartGraph(w, c, op[c].stage, pc)
  /\ UNCHANGED <<row, launch>>
Reclaim(w, c) == op[c].kind = "submission" /\ Usable(c) /\ TakeOver(w, c, "read")
ClaimGraphRecovery(w, c) == TakeOver(w, c, "load")

\* The material of an operation is loaded for its holder only while the lease lives.
MaterialLoads(c) == Unfinished(c) /\ op[c].lease > 0 /\ Usable(c)

Fenced(w, c) == op[c].holder = w /\ op[c].lease > 0

StatusAfter(c, stage) ==
  CASE op[c].kind = "update"  -> row[c].status
    [] stage = "moderation"   -> IF row[c].moderation \in {"ACCEPTED", "REJECTED"} THEN row[c].status ELSE "moderation"
    [] stage = "completed"    -> directLocalStatusForModeration(row[c].moderation, row[c].status)
    [] OTHER                  -> "provider_draft"

\* A stage is recorded by the holder of a live lease, which it renews. Without
\* an active connection the transaction is rolled back.
CanAdvance(w, c, stage) ==
  /\ Fenced(w, c) /\ Usable(c)
  /\ validDirectProviderStageTransition(op[c].stage, stage)

Advanced(c, stage) ==
  /\ op' = [op EXCEPT ![c].stage = stage, ![c].lease = IF stage = "completed" THEN 0 ELSE Lease,
                      ![c].holder = IF stage = "completed" THEN Nobody ELSE @]
  /\ row' = [row EXCEPT ![c].status = StatusAfter(c, stage), ![c].created = TRUE]

\* A verified graph becomes a revision. An update replaces the text of the
\* campaign; the connection is not asked for.
CanRecord(w, c) == Fenced(w, c) /\ op[c].stage = "observed"
RecordVerified(c, moderation) ==
  /\ op' = [op EXCEPT ![c].stage = "verified", ![c].lease = Lease]
  /\ row' = [row EXCEPT ![c].revision = op[c].number, ![c].moderation = moderation,
                        ![c].recorded = moderation,
                        ![c].status = directLocalStatusForModeration(moderation, @)]

\* The provider refused the very first call of the operation and nothing
\* changed there: a submission goes back to the draft, an update to the
\* revision it started from, with the moderation that revision recorded.
Baseline(c) == [row[c] EXCEPT !.revision = op[c].base, !.moderation = row[c].recorded, !.state = "OFF",
                              !.status = directLocalStatusForModeration(row[c].recorded, @)]
FailOperation(w, c) ==
  /\ Fenced(w, c) /\ Unfinished(c)
  /\ op[c].kind = "submission" => ~row[c].created
  /\ row' = [row EXCEPT ![c] = IF op[c].kind = "submission" THEN [@ EXCEPT !.status = "draft"]
                               ELSE Baseline(c)]
  /\ op' = [op EXCEPT ![c].stage = "failed", ![c].lease = 0, ![c].holder = Nobody]

\* What the provider says of an unchanged graph is stored by an observer who
\* holds no lease, or by the holder of the sync lease, never during a launch;
\* a consent does not survive a graph that is not accepted.
LaunchAllows(c, status) ==
  /\ launch[c].state = "failed" => status = "accepted"
  /\ launch[c].state = "confirmed" => status \in {"active", "suspended", "rejected"}
CanStoreModeration(c, revision, moderation) ==
  /\ row[c].revision = revision /\ revision # 0
  /\ launch[c].state \notin {"launching", "reconciling"}
  /\ LaunchAllows(c, directLocalStatusForModeration(moderation, row[c].status))
StoreModeration(c, moderation, state) ==
  row' = [row EXCEPT ![c].moderation = moderation, ![c].state = state,
                     ![c].status = directLocalStatusForModeration(moderation, @),
                     ![c].consent = IF moderation = "ACCEPTED" THEN @ ELSE 0]
=============================================================================
