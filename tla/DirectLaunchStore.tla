--------------------------- MODULE DirectLaunchStore ---------------------------
(***************************************************************************)
(* The transactions of a launch and of the lifecycle sync.  A launch spends*)
(* money: it is claimed before the provider is asked to resume the         *)
(* campaign, at most two times per claim, and the claim is kept until the  *)
(* provider shows what became of it.                                       *)
(***************************************************************************)
EXTENDS DirectGraphStore

InFlight(c) == launch[c].state \in {"launching", "reconciling"}

\* Mutant: a launch that failed is not counted as committed.
CommittedBudgetsLive(c) ==
  {d \in Campaigns \ {c} : row[d].status \in {"active", "suspended"} \/ InFlight(d)}

\* Budgets that are or may be spent: also of a launch whose outcome is not known.
CommittedBudgets(c) ==
  {d \in Campaigns \ {c} : row[d].status \in {"active", "suspended"} \/ launch[d].state # "idle"}

LaunchClaimable(c, mode) ==
  launch[c].state = "idle" \/ (mode = "manual" /\ launch[c].state = "failed")

\* Mutant: the claim of an automatic launch does not look at the consent.
ConsentIgnored(c, mode) == TRUE

\* The consent must be for the revision that is launched.
ConsentMatches(c, mode) == mode = "auto" => row[c].consent = row[c].revision

\* The claim spends the consent.
CanClaimLaunch(c, mode, revision) ==
  /\ LaunchClaimable(c, mode)
  /\ GraphLaunchReady(c) /\ row[c].revision = revision
  /\ Cardinality(CommittedBudgets(c)) < Cap
  /\ Usable(c) /\ ConsentMatches(c, mode)
ClaimLaunch(w, c, mode) ==
  /\ launch' = [launch EXCEPT ![c] = [state |-> "launching", mode |-> mode, attempts |-> 0,
                                      holder |-> w, retry |-> LaunchLease]]
  /\ row' = [row EXCEPT ![c].consent = IF mode = "auto" THEN 0 ELSE @]
  /\ resumes' = [resumes EXCEPT ![c] = 0]

LaunchFence(w, c) == launch[c].holder = w /\ InFlight(c)

\* A claim allows two attempts; each is written down before the call.
AttemptAllowed(w, c) == LaunchFence(w, c) /\ launch[c].attempts < 2

\* Mutant: the attempt is not counted.
AttemptUncounted(c) ==
  launch' = [launch EXCEPT ![c].state = "launching", ![c].retry = LaunchLease]

MarkAttempt(c) ==
  launch' = [launch EXCEPT ![c].state = "launching", ![c].attempts = @ + 1, ![c].retry = LaunchLease]

\* The next cycle may look at once.
MarkReconciling(w, c) ==
  launch' = IF LaunchFence(w, c)
            THEN [launch EXCEPT ![c].state = "reconciling", ![c].retry = 0, ![c].holder = Nobody]
            ELSE launch

AbortForAuthorization(w, c) ==
  /\ LaunchFence(w, c) /\ row[c].status = "accepted"
  /\ launch' = [launch EXCEPT ![c] = NoLaunch]
FailLaunch(w, c) ==
  /\ LaunchFence(w, c) /\ row[c].status = "accepted" /\ launch[c].attempts = 2
  /\ launch' = [launch EXCEPT ![c].state = "failed", ![c].holder = Nobody, ![c].retry = 0]

Confirmed(c) == [launch EXCEPT ![c].state = "confirmed", ![c].holder = Nobody, ![c].retry = 0]
CompleteLaunch(w, c) ==
  /\ LaunchFence(w, c) /\ row[c].status \in {"accepted", "active"}
  /\ row' = [row EXCEPT ![c].status = "active", ![c].state = "ON"]
  /\ launch' = Confirmed(c)

ClaimLaunchRecovery(w, c) ==
  /\ InFlight(c) /\ launch[c].retry = 0
  /\ launch' = [launch EXCEPT ![c].holder = w, ![c].retry = LaunchLease]
----------------------------------------------------------------------------
(* What the provider says of a campaign. *)

StatusFromLifecycle(seen) ==
  CASE seen.moderation = "ACCEPTED" -> IF seen.state = "ON" THEN "active" ELSE "accepted"
    [] seen.moderation = "REJECTED" -> "rejected"
    [] seen.moderation = "MODERATION" -> "moderation"
    [] OTHER -> "provider_draft"

ConfirmedStatus(seen) ==
  CASE seen.moderation = "REJECTED" -> "rejected"
    [] seen.moderation = "ACCEPTED" /\ seen.state = "ON" -> "active"
    [] OTHER -> "suspended"

SyncedStatus(c, seen) ==
  CASE launch[c].state = "confirmed" -> ConfirmedStatus(seen)
    [] launch[c].state = "idle" ->
         IF seen.moderation = "ACCEPTED" /\ seen.state = "OFF" /\ row[c].status \in {"active", "suspended"}
         THEN "suspended" ELSE StatusFromLifecycle(seen)
    [] OTHER -> row[c].status

\* A launch nobody heard of any more turns out to have worked.
PromotesDelayed(c, seen) ==
  /\ launch[c].state \in {"failed", "launching", "reconciling"}
  /\ seen = [moderation |-> "ACCEPTED", state |-> "ON"]

SyncStatus(c, seen) ==
  /\ row' = [row EXCEPT ![c].state = seen.state,
                        ![c].status = IF PromotesDelayed(c, seen) THEN "active" ELSE SyncedStatus(c, seen)]
  /\ launch' = IF PromotesDelayed(c, seen) THEN Confirmed(c) ELSE launch
----------------------------------------------------------------------------
(* Consent to launch later, and the lease of the lifecycle sync. *)

GrantConsent(c) ==
  /\ GraphLaunchReady(c) /\ launch[c].state = "idle" /\ Usable(c)
  /\ row[c].consent \in {0, row[c].revision}
  /\ row' = [row EXCEPT ![c].consent = row[c].revision]
  /\ asked' = [asked EXCEPT ![c] = @ \cup {<<row[c].revision, "auto">>}]

RevokeConsent(c) ==
  /\ row[c].consent # 0
  /\ row' = [row EXCEPT ![c].consent = 0]
  /\ asked' = [asked EXCEPT ![c] = @ \ {<<row[c].consent, "auto">>}]

InvalidateConsent(c) == row' = [row EXCEPT ![c].consent = 0]

AutoLaunchCandidate(c) ==
  /\ row[c].status = "accepted" /\ launch[c].state = "idle" /\ row[c].moderation = "ACCEPTED"
  /\ GraphEvidenceReady(c) /\ row[c].consent = row[c].revision /\ Usable(c)

SyncCandidate(c) ==
  /\ row[c].status \notin {"draft", "creating"} /\ GraphEvidenceReady(c)
  /\ ~InFlight(c) /\ ~SyncBusy(c) /\ ~Unfinished(c)
ClaimSync(w, c) ==
  /\ SyncCandidate(c)
  /\ syncing' = [syncing EXCEPT ![c] = [holder |-> w, lease |-> LaunchLease]]

SyncFence(w, c) == syncing[c].holder = w
ReleaseSync(w, c) == syncing' = IF SyncFence(w, c) THEN [syncing EXCEPT ![c] = NoSync] ELSE syncing
CompleteSync(w, c) == SyncFence(w, c) /\ GraphEvidenceReady(c) /\ ~Unfinished(c) /\ ClearSync(c)
=============================================================================
