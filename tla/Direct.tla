-------------------------------- MODULE Direct --------------------------------
(***************************************************************************)
(* Yandex Direct: the submission, edit, launch, recovery and sync of the   *)
(* campaigns of one workspace, run by several goroutines against one       *)
(* advertising account whose answers may be lost.                          *)
(***************************************************************************)
EXTENDS DirectLaunch

CONSTANT MaxConnections
ASSUME ConnectionAssumption == MaxConnections \in Nat

----------------------------------------------------------------------------
(* Requests of the owner and cycles of the loop. *)

KeepsClaim == UNCHANGED <<mix, conn, account, failures, history>>

SubmitDirectCampaign(w, c) == Requested("submit") /\ ClaimSubmission(w, c) /\ KeepsClaim
ResubmitDirectCampaign(w, c) == Requested("submit") /\ Reclaim(w, c) /\ KeepsClaim
RecoverGraph(w, c) == Requested("recover") /\ ClaimGraphRecovery(w, c) /\ KeepsClaim

\* An edit is refused unless the provider shows the revision, switched off.
UpdateDirectCampaign(w, c) ==
  /\ Requested("edit")
  /\ VerifiedAs(c, row[c].revision) /\ GetGraphCampaign(c) = "OFF"
  /\ ClaimProviderEdit(w, c) /\ KeepsClaim

ConsentOnly == UNCHANGED <<mix, op, launch, syncing, conn, account, work, failures, resumes>>
GrantDirectAutoLaunchConsent(c) == Requested("consent") /\ GrantConsent(c) /\ ConsentOnly
RevokeDirectAutoLaunchConsent(c) == Requested("consent") /\ RevokeConsent(c) /\ ConsentOnly

\* Everything that still needs the credential keeps it: a launch whose outcome
\* is not known, an operation that is not finished and, for another account,
\* every campaign the provider has.
Ours(c) == row[c].connection = conn.id
InFlightWithCredential == \E c \in Campaigns : Ours(c) /\ (launch[c].state \in {"launching", "reconciling", "failed"} \/ Unfinished(c))
AtProvider == \E c \in Campaigns : Ours(c) /\ row[c].created /\ row[c].status \notin {"draft", "creating"}
NoConsents == row' = [c \in Campaigns |-> [row[c] EXCEPT !.consent = 0]]
ConnectionOnly == UNCHANGED <<mix, op, launch, syncing, account, work, failures, history>>

\* Mutant: the credential is given up while a launch or an operation needs it.
RevokeAnyway ==
  /\ Requested("connect") /\ conn.status # "revoked"
  /\ conn' = [conn EXCEPT !.status = "revoked"]
  /\ NoConsents /\ ConnectionOnly

RevokeDirectConnection ==
  /\ Requested("connect") /\ conn.status # "revoked"
  /\ ~InFlightWithCredential
  /\ conn' = [conn EXCEPT !.status = "revoked"]
  /\ NoConsents /\ ConnectionOnly
ReplaceDirectConnection ==
  /\ Requested("connect") /\ conn.id < MaxConnections
  /\ conn.status # "revoked" => ~InFlightWithCredential /\ ~AtProvider
  /\ conn' = [id |-> conn.id + 1, status |-> "active"]
  /\ NoConsents /\ ConnectionOnly
----------------------------------------------------------------------------
SubmissionStep(w) ==
  \/ FindCampaign(w) \/ CreateCampaign(w) \/ RefuseCampaign(w) \/ FailSubmissionIfAbsent(w)
  \/ FindAdGroup(w) \/ CreateAdGroup(w)
  \/ ReadAd(w) \/ CreateAd(w) \/ ConfirmAd(w)
  \/ ReadKeywords(w) \/ CreateKeywords(w) \/ ConfirmKeywords(w)
EditStep(w) ==
  \/ UpdateCampaign(w) \/ RefuseUpdate(w) \/ FailUpdateIfUnchanged(w)
  \/ UpdateAdGroup(w) \/ UpdateAd(w) \/ ReplaceKeywords(w)
GraphStep(w) ==
  \/ LoadMaterial(w) \/ SubmissionStep(w) \/ EditStep(w) \/ RecordStage(w)
  \/ ObserveGraph(w) \/ RecordGraph(w) \/ RequestModeration(w) \/ Complete(w)
LaunchStep(w) ==
  \/ CheckLaunch(w) \/ SyncBeforeLaunch(w) \/ PersistModeration(w) \/ ClaimCampaignLaunch(w)
  \/ VerifyLaunch(w) \/ AttemptLaunch(w) \/ Resume(w) \/ ConfirmLaunch(w) \/ ReconcileLater(w) \/ SettleLaunch(w)
  \/ LoadRecovery(w) \/ ReadRecovery(w) \/ RetryOrFail(w) \/ AbortLaunch(w)
SyncStep(w) ==
  \/ SyncAfterOperation(w) \/ LoadSync(w) \/ SnapshotMismatch(w)
  \/ ReadLifecycle(w) \/ PersistLifecycle(w) \/ FinishSync(w)

Work(w) == GraphStep(w) \/ LaunchStep(w) \/ SyncStep(w)
Failing(w) == ReadFails(w) \/ TokenRefused(w) \/ Stop(w)

Starting(w, c) ==
  \/ SubmitDirectCampaign(w, c) \/ ResubmitDirectCampaign(w, c) \/ UpdateDirectCampaign(w, c)
  \/ LaunchCampaign(w, c) \/ AutoLaunchCampaign(w, c)
  \/ RecoverGraph(w, c) \/ RecoverLaunch(w, c) \/ SyncCampaign(w, c)

Next ==
  \/ \E w \in Workers : Work(w) \/ Failing(w) \/ \E c \in mix.on : Starting(w, c)
  \/ \E c \in mix.on : \/ GrantDirectAutoLaunchConsent(c) \/ RevokeDirectAutoLaunchConsent(c)
                       \/ Moderated(c) \/ ResumeArrives(c) \/ ChangedOutside(c)
  \/ RevokeDirectConnection \/ ReplaceDirectConnection \/ Tick

Spec == CoreInit /\ [][Next]_core

\* Goroutines go on; time passes; the provider answers; each kind of cycle of
\* the loop comes to every campaign that keeps waiting for it.
Fairness ==
  /\ \A w \in Workers : WF_core(Work(w))
  /\ SF_core(Tick)
  /\ \A c \in Campaigns :
       /\ WF_core(Moderated(c)) /\ WF_core(ResumeArrives(c))
       /\ SF_core(\E w \in Workers : RecoverGraph(w, c))
       /\ SF_core(\E w \in Workers : RecoverLaunch(w, c))
FairSpec == Spec /\ Fairness
----------------------------------------------------------------------------
Undisturbed == "outside" \notin mix.faults

\* Whatever is lost, retried or taken over, no campaign, group or ad is created
\* twice at the provider.
NoDuplicateObjects == \A c \in Campaigns : account[c].twice = {}

\* The verified revision of a campaign is what the account shows, in all its
\* parts; while an edit is under way there is no verified revision.
VerifiedIsObserved ==
  Undisturbed => \A c \in Campaigns : row[c].revision # 0 => VerifiedAs(c, row[c].revision)

\* Values have their types, no goroutine holds a finished operation, and a
\* campaign that went back to the draft left nothing at the provider.
DraftHasNoProvider ==
  \A c \in Campaigns : row[c].status = "draft" => account[c].content = Empty.content
RowsSound == CoreTypeOK /\ DraftHasNoProvider

\* Money is spent only on a graph somebody asked to launch, by hand or by a
\* consent that was not withdrawn.
LaunchAuthorised ==
  Undisturbed => \A c \in Campaigns :
    account[c].state = "ON" => \E request \in asked[c] : VerifiedAs(c, request[1])

\* Budgets at the provider, including of calls still under way, stay within
\* the cap of the workspace.
Spending(c) == account[c].state = "ON" \/ account[c].late \/ \E w \in Workers : work[w].on = c /\ work[w].pc = "resume"
BudgetCap == Undisturbed => Cardinality({c \in Campaigns : Spending(c)}) <= Cap

\* A claimed launch asks the provider to resume the campaign at most two times,
\* never two at once.
ResumeBounded ==
  \A c \in Campaigns : /\ resumes[c] <= 2
                       /\ Cardinality({w \in Workers : work[w].on = c /\ work[w].pc = "resume"}) <= 1

\* The credential of an operation or of a launch whose outcome is unknown is
\* not given up.
CredentialKept ==
  \A c \in Campaigns : InFlight(c) \/ Unfinished(c) => row[c].connection = conn.id /\ conn.status # "revoked"

\* A started operation ends, completed or failed, however it was interrupted;
\* unless its campaign was launched before the operation was completed.
OperationSettles ==
  \A c \in Campaigns : Undisturbed /\ "auth" \notin mix.faults =>
    (Unfinished(c) ~> ~Unfinished(c) \/ account[c].state = "ON")

\* A claimed launch does not stay uncertain.
LaunchSettles ==
  \A c \in Campaigns : Undisturbed /\ "auth" \notin mix.faults => (InFlight(c) ~> ~InFlight(c))

\* A refused credential does not block a launch for ever: its outcome is
\* established after all, or the claim is given back.
CredentialNotDeadlocked ==
  \A c \in Campaigns : InFlight(c) /\ conn.status = "error" ~> ~InFlight(c)
=============================================================================
