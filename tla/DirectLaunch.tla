------------------------------ MODULE DirectLaunch ------------------------------
(***************************************************************************)
(* The workflows around a launch: the owner's request and the automatic    *)
(* one under a consent, the recovery of a launch whose outcome is unknown, *)
(* and the sync of what the provider says of a campaign.  A goroutine that *)
(* holds the launch claim compares the graph once more before it spends.   *)
(***************************************************************************)
EXTENDS DirectGraph, DirectLaunchStore

At(w, jobs, pc) == work[w].job \in jobs /\ work[w].pc = pc
Launchers == {"launch", "auto"}
Claimants == {"launch", "auto", "recovery"}
Matches(w) == VerifiedAs(work[w].on, work[w].rev)
Accepted(w) == account[work[w].on].moderation = "ACCEPTED"
Switched(w) == GetGraphCampaign(work[w].on)
Quiet == UNCHANGED <<mix, op, conn, failures>>

\* The owner asks for the revision he sees.
LaunchCampaign(w, c) ==
  /\ Requested("launch") /\ Usable(c) /\ GraphEvidenceReady(c)
  /\ Start(w, c, "launch", "check")
  /\ asked' = [asked EXCEPT ![c] = @ \cup {<<row[c].revision, "manual">>}]
  /\ UNCHANGED <<mix, row, op, launch, syncing, conn, account, failures, resumes>>
AutoLaunchCampaign(w, c) ==
  /\ Requested("auto") /\ AutoLaunchCandidate(c)
  /\ Start(w, c, "auto", "check")
  /\ UNCHANGED <<mix, row, op, launch, syncing, conn, account, failures, history>>

\* Before the claim: the graph must be the revision. A campaign that runs is
\* only written down; an automatic launch that meets another graph loses its consent.
CheckLaunch(w) ==
  /\ At(w, Launchers, "check")
  /\ LET c == work[w].on IN
     \/ Matches(w) /\ Switched(w) = "ON" /\ See(w, "sync")
     \/ Matches(w) /\ Switched(w) = "OFF" /\ Accepted(w) /\ See(w, "record")
     \/ Matches(w) /\ Switched(w) = "OFF" /\ ~Accepted(w) /\ GiveUp(w)
     \/ /\ ~Matches(w) /\ Forget(w)
        /\ IF work[w].job = "auto" THEN InvalidateConsent(c) ELSE UNCHANGED row
        /\ UNCHANGED <<mix, conn, account, failures, history>>

\* Ordinary observers stay away from a campaign whose launch is in flight.
SyncBeforeLaunch(w) ==
  /\ At(w, Launchers, "sync")
  /\ LET c == work[w].on IN
     IF SyncBusy(c) \/ InFlight(c) THEN GiveUp(w)
     ELSE /\ ClearSync(c) /\ SyncStatus(c, work[w].saw) /\ End(w)
          /\ UNCHANGED <<mix, op, conn, account, failures, history>>
PersistModeration(w) ==
  /\ At(w, Launchers, "record")
  /\ LET c == work[w].on IN
     IF SyncBusy(c) \/ ~CanStoreModeration(c, work[w].rev, "ACCEPTED") THEN GiveUp(w)
     ELSE /\ ClearSync(c) /\ StoreModeration(c, "ACCEPTED", "OFF")
          /\ work' = [work EXCEPT ![w].pc = "claim", ![w].saw = NothingSeen]
          /\ UNCHANGED <<launch, account, history>> /\ Quiet
ClaimCampaignLaunch(w) ==
  /\ At(w, Launchers, "claim")
  /\ LET c == work[w].on  mode == IF work[w].job = "auto" THEN "auto" ELSE "manual" IN
     IF ~CanClaimLaunch(c, mode, work[w].rev) THEN GiveUp(w)
     ELSE /\ ClaimLaunch(w, c, mode) /\ Goto(w, "verify")
          /\ UNCHANGED <<syncing, account, asked>> /\ Quiet
----------------------------------------------------------------------------
(* The holder of the claim. *)

\* A reading that fails leaves the launch to the next cycle.
VerifyLaunch(w) ==
  /\ At(w, Claimants, "verify")
  /\ \/ Matches(w) /\ Accepted(w) /\ Switched(w) = "ON" /\ See(w, "settle")
     \/ Matches(w) /\ Accepted(w) /\ Switched(w) = "OFF" /\ GoOn(w, "attempt")
     \/ ~(Matches(w) /\ Accepted(w)) /\ GoOn(w, "reconcile")
AttemptLaunch(w) ==
  /\ At(w, Claimants, "attempt")
  /\ LET c == work[w].on IN
     IF ~AttemptAllowed(w, c) THEN GiveUp(w)
     ELSE /\ MarkAttempt(c) /\ Goto(w, "resume")
          /\ UNCHANGED <<row, syncing, account, history>> /\ Quiet

\* Resume is carried out; or no answer comes, and it was carried out, or was
\* not, or will be.
Resume(w) ==
  /\ At(w, Claimants, "resume")
  /\ LET c == work[w].on IN
     /\ resumes' = [resumes EXCEPT ![c] = @ + 1]
     /\ \/ account' = ResumeCampaign(c) /\ NoFault /\ Goto(w, "complete")
        \/ Fault("lost") /\ account' \in {account, ResumeCampaign(c)} /\ Goto(w, "reconcile")
        \/ Fault("late") /\ account' = [account EXCEPT ![c].late = TRUE] /\ Goto(w, "reconcile")
  /\ UNCHANGED <<mix, row, op, launch, syncing, conn, asked>>
ConfirmLaunch(w) ==
  /\ At(w, Claimants, "complete")
  /\ LET c == work[w].on IN
     IF ~(LaunchFence(w, c) /\ row[c].status \in {"accepted", "active"}) THEN GiveUp(w)
     ELSE CompleteLaunch(w, c) /\ End(w) /\ UNCHANGED <<syncing, account, history>> /\ Quiet
ReconcileLater(w) ==
  /\ At(w, Claimants, "reconcile")
  /\ MarkReconciling(w, work[w].on) /\ End(w)
  /\ UNCHANGED <<row, syncing, account, history>> /\ Quiet
SettleLaunch(w) ==
  /\ At(w, Claimants, "settle")
  /\ LET c == work[w].on IN
     IF SyncBusy(c) \/ launch[c].holder # w THEN GiveUp(w)
     ELSE /\ ClearSync(c) /\ SyncStatus(c, work[w].saw)
          /\ IF work[w].saw.state = "ON" THEN End(w)
             ELSE work' = [work EXCEPT ![w].pc = "again", ![w].saw = NothingSeen]
          /\ UNCHANGED <<account, history>> /\ Quiet
----------------------------------------------------------------------------
(* Recovery: the outcome is looked up before anything is tried again. *)

RecoverLaunch(w, c) ==
  /\ Requested("recover")
  /\ ClaimLaunchRecovery(w, c) /\ Start(w, c, "recovery", "load")
  /\ UNCHANGED <<row, syncing, account, history>> /\ Quiet
LoadRecovery(w) ==
  /\ At(w, {"recovery"}, "load")
  /\ IF Usable(work[w].on) THEN GoOn(w, "read") ELSE GiveUp(w)
ReadRecovery(w) ==
  /\ At(w, {"recovery"}, "read")
  /\ IF Matches(w) \/ Switched(w) = "ON" THEN See(w, "settle") ELSE GoOn(w, "reconcile")

\* Mutant: a launch that used up its attempts is looked at again and again.
RetryOrWait(w) ==
  /\ At(w, {"recovery"}, "again")
  /\ IF launch[work[w].on].attempts < 2 THEN GoOn(w, "verify") ELSE GoOn(w, "reconcile")

\* Still off: once more, or never again.
RetryOrFail(w) ==
  /\ At(w, {"recovery"}, "again")
  /\ LET c == work[w].on IN
     \/ launch[c].attempts < 2 /\ GoOn(w, "verify")
     \/ /\ launch[c].attempts >= 2
        /\ IF LaunchFence(w, c) /\ row[c].status = "accepted"
           THEN FailLaunch(w, c) /\ End(w) /\ UNCHANGED <<row, syncing, account, history>> /\ Quiet
           ELSE GiveUp(w)
----------------------------------------------------------------------------
(* The lifecycle sync. *)

SyncCampaign(w, c) ==
  /\ Requested("sync") /\ Usable(c) /\ ClaimSync(w, c)
  /\ Start(w, c, "sync", "load")
  /\ UNCHANGED <<row, launch, account, history>> /\ Quiet
SyncAfterOperation(w) ==
  /\ At(w, {"graph"}, "again")
  /\ LET c == work[w].on IN
     IF ~SyncCandidate(c) THEN GiveUp(w)
     ELSE /\ ClaimSync(w, c)
          /\ work' = [work EXCEPT ![w].job = "sync", ![w].pc = "load", ![w].rev = row[c].revision,
                                  ![w].left = LaunchLease - 1]
          /\ UNCHANGED <<row, launch, account, history>> /\ Quiet

\* Whatever fails gives the lease back.
LeaveSync(w) ==
  /\ ReleaseSync(w, work[w].on) /\ End(w)
  /\ UNCHANGED <<mix, row, op, launch, conn, account, failures, history>>
LoadSync(w) ==
  /\ At(w, {"sync"}, "load")
  /\ LET c == work[w].on IN
     IF SyncFence(w, c) /\ GraphEvidenceReady(c) /\ ~Unfinished(c) /\ Usable(c)
     THEN work' = [work EXCEPT ![w].pc = "read", ![w].rev = row[c].revision] /\ Untouched
     ELSE LeaveSync(w)
SnapshotMismatch(w) ==
  /\ At(w, {"sync"}, "read") /\ ~Matches(w)
  /\ LET c == work[w].on IN
     /\ IF SyncFence(w, c) /\ ~InFlight(c) THEN InvalidateConsent(c) ELSE UNCHANGED row
     /\ ReleaseSync(w, c) /\ End(w)
  /\ UNCHANGED <<launch, account, history>> /\ Quiet
ReadLifecycle(w) ==
  /\ At(w, {"sync"}, "read") /\ Matches(w)
  /\ See(w, "record")
PersistLifecycle(w) ==
  /\ At(w, {"sync"}, "record")
  /\ LET c == work[w].on IN
     IF SyncFence(w, c) /\ SyncBusy(c) /\ CanStoreModeration(c, work[w].rev, work[w].saw.moderation)
     THEN /\ StoreModeration(c, work[w].saw.moderation, work[w].saw.state)
          /\ work' = [work EXCEPT ![w].pc = "complete", ![w].saw = NothingSeen]
          /\ UNCHANGED <<launch, syncing, account, history>> /\ Quiet
     ELSE LeaveSync(w)
FinishSync(w) ==
  /\ At(w, {"sync"}, "complete")
  /\ LET c == work[w].on IN
     IF SyncFence(w, c) /\ GraphEvidenceReady(c) /\ ~Unfinished(c)
     THEN CompleteSync(w, c) /\ End(w) /\ UNCHANGED <<row, launch, account, history>> /\ Quiet
     ELSE LeaveSync(w)
----------------------------------------------------------------------------
(* The provider does not answer, or answers that the token is refused. *)

ReadFails(w) ==
  /\ Fault("lost")
  /\ \/ /\ At(w, Claimants, "verify") \/ At(w, {"recovery"}, "read")
        /\ Goto(w, "reconcile")
        /\ UNCHANGED <<mix, row, op, launch, syncing, conn, account, history>>
     \/ /\ At(w, {"sync"}, "read")
        /\ ReleaseSync(w, work[w].on) /\ End(w)
        /\ UNCHANGED <<mix, row, op, launch, conn, account, history>>

\* The connection of the campaign waits for its owner, and consents end.
MarkAuthorizationRequired(c) ==
  /\ conn' = IF conn.id = row[c].connection /\ conn.status \in {"active", "error"}
             THEN [conn EXCEPT !.status = "error"] ELSE conn
  /\ row' = [d \in Campaigns |-> IF row[d].connection = row[c].connection
                                 THEN [row[d] EXCEPT !.consent = 0] ELSE row[d]]

\* Resume refused for its token was certainly not carried out: the claim is
\* given back. Any other call leaves the claim it was made under.
TokenRefused(w) ==
  /\ Fault("auth") /\ MarkAuthorizationRequired(work[w].on)
  /\ \/ At(w, Claimants, "resume") /\ Goto(w, "abort") /\ UNCHANGED <<op, launch, syncing>>
     \/ (At(w, Claimants, "verify") \/ At(w, {"recovery"}, "read"))
        /\ Goto(w, "reconcile") /\ UNCHANGED <<op, launch, syncing>>
     \/ (At(w, {"graph"}, "read") \/ At(w, {"graph"}, "write") \/ At(w, Launchers, "check")) /\ Forget(w)
     \/ At(w, {"sync"}, "read") /\ ReleaseSync(w, work[w].on) /\ End(w) /\ UNCHANGED <<op, launch>>
  /\ UNCHANGED <<mix, account, history>>
AbortLaunch(w) ==
  /\ At(w, Claimants, "abort")
  /\ LET c == work[w].on IN
     IF ~(LaunchFence(w, c) /\ row[c].status = "accepted") THEN GiveUp(w)
     ELSE AbortForAuthorization(w, c) /\ End(w) /\ UNCHANGED <<row, syncing, account, history>> /\ Quiet
=============================================================================
