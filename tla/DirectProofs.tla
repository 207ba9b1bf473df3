---------------------------- MODULE DirectProofs ----------------------------
(***************************************************************************)
(* Proofs about Direct: the types of its rows, the graph of a campaign at  *)
(* the provider, the credential that unfinished work needs, how often a    *)
(* launch asks the provider to resume its campaign, whose launch that is,  *)
(* and how many budgets are spent.                                         *)
(***************************************************************************)
EXTENDS Direct, FiniteSetTheorems, TLAPS

(* CoreTypeOK in parts. *)

Row == [status : Statuses, revision : 0..MaxOperations, moderation : Moderations,
        state : {"", "OFF", "ON"}, created : BOOLEAN, recorded : Moderations,
        connection : Nat, consent : 0..MaxOperations]
OperationRow == [number : 0..MaxOperations, kind : {"none", "submission", "update"},
                 stage : Stages, base : 0..MaxOperations, holder : Workers \cup {Nobody},
                 lease : 0..Lease]
LaunchRow == [state : {"idle", "launching", "reconciling", "confirmed", "failed"},
              mode : {"", "manual", "auto"}, attempts : 0..2,
              holder : Workers \cup {Nobody}, retry : 0..LaunchLease]
SyncRow == [holder : Workers \cup {Nobody}, lease : 0..LaunchLease]
Account == [content : [Nodes -> Contents], twice : SUBSET Nodes, state : {"OFF", "ON"},
            moderation : Moderations, late : BOOLEAN]
Sight == [moderation : Moderations, state : {"OFF", "ON"}]
Jobs == {"none", "graph", "launch", "auto", "recovery", "sync"}
Job == [job : Jobs, on : Campaigns, pc : Steps, stage : Stages, rev : 0..MaxOperations,
        saw : Sight, left : Nat]

RowsOK == row \in [Campaigns -> Row]
OpsOK == op \in [Campaigns -> OperationRow] /\ \A c \in Campaigns : ~Unfinished(c) => op[c].holder = Nobody
LaunchesOK == launch \in [Campaigns -> LaunchRow]
SyncsOK == syncing \in [Campaigns -> SyncRow]
AccountsOK == account \in [Campaigns -> Account]
WorkOK == work \in [Workers -> Job]
RestOK ==
  /\ mix \in Mixes /\ conn \in [id : Nat, status : {"active", "error", "revoked"}] /\ failures \in Nat
  /\ asked \in [Campaigns -> SUBSET (Operations \X {"manual", "auto"})]
  /\ resumes \in [Campaigns -> Nat]

LEMMA TypeParts ==
  /\ CoreTypeOK <=> RowsOK /\ OpsOK /\ LaunchesOK /\ SyncsOK /\ AccountsOK /\ WorkOK /\ RestOK
  /\ CoreTypeOK' <=> RowsOK' /\ OpsOK' /\ LaunchesOK' /\ SyncsOK' /\ AccountsOK' /\ WorkOK' /\ RestOK'
BY DEF CoreTypeOK, RowsOK, OpsOK, LaunchesOK, SyncsOK, AccountsOK, WorkOK, RestOK, Row, OperationRow,
       LaunchRow, SyncRow, Account, Job, Jobs, Sight

LEMMA LessIs == \A n \in Nat : Less(n) \in Nat /\ Less(n) <= n /\ (n > 0 => Less(n) = n - 1) /\ (n = 0 => Less(n) = 0)
<1> SUFFICES ASSUME NEW n \in Nat PROVE Less(n) \in Nat /\ Less(n) <= n /\ (n > 0 => Less(n) = n - 1) /\ (n = 0 => Less(n) = 0)
  OBVIOUS
<1>1. Less(n) = IF n > 0 THEN n - 1 ELSE 0
  <2>1. PICK m \in {n - 1, 0} : \A k \in {n - 1, 0} : m >= k
    <3>1. CASE n > 0
      BY <3>1
    <3>2. CASE n = 0
      BY <3>2
    <3> QED  BY <3>1, <3>2
  <2> QED  BY <2>1 DEF Less, Max
<1> QED  BY <1>1

LEMMA RowFields ==
  ASSUME NEW f \in [Campaigns -> Row], NEW c \in Campaigns
  PROVE  /\ \A v \in Statuses : [f EXCEPT ![c].status = v] \in [Campaigns -> Row]
         /\ \A v \in 0..MaxOperations : [f EXCEPT ![c].revision = v] \in [Campaigns -> Row]
         /\ \A v \in Moderations : [f EXCEPT ![c].moderation = v] \in [Campaigns -> Row]
         /\ \A v \in {"", "OFF", "ON"} : [f EXCEPT ![c].state = v] \in [Campaigns -> Row]
         /\ \A v \in BOOLEAN : [f EXCEPT ![c].created = v] \in [Campaigns -> Row]
         /\ \A v \in Moderations : [f EXCEPT ![c].recorded = v] \in [Campaigns -> Row]
         /\ \A v \in 0..MaxOperations : [f EXCEPT ![c].consent = v] \in [Campaigns -> Row]
         /\ \A r \in Row : [f EXCEPT ![c] = r] \in [Campaigns -> Row]
BY ZenonT(60) DEF Row

LEMMA RowRecord ==
  ASSUME NEW r \in Row
  PROVE  /\ \A v \in Statuses : [r EXCEPT !.status = v] \in Row
         /\ \A v \in 0..MaxOperations : [r EXCEPT !.revision = v] \in Row
         /\ \A v \in Moderations : [r EXCEPT !.moderation = v] \in Row
         /\ \A v \in {"", "OFF", "ON"} : [r EXCEPT !.state = v] \in Row
         /\ \A v \in 0..MaxOperations : [r EXCEPT !.consent = v] \in Row
BY DEF Row

LEMMA OperationFields ==
  ASSUME NEW f \in [Campaigns -> OperationRow], NEW c \in Campaigns
  PROVE  /\ \A v \in Stages : [f EXCEPT ![c].stage = v] \in [Campaigns -> OperationRow]
         /\ \A v \in Workers \cup {Nobody} : [f EXCEPT ![c].holder = v] \in [Campaigns -> OperationRow]
         /\ \A v \in 0..Lease : [f EXCEPT ![c].lease = v] \in [Campaigns -> OperationRow]
         /\ \A r \in OperationRow : [f EXCEPT ![c] = r] \in [Campaigns -> OperationRow]
BY DEF OperationRow

LEMMA LaunchFields ==
  ASSUME NEW f \in [Campaigns -> LaunchRow], NEW c \in Campaigns
  PROVE  /\ \A v \in {"idle", "launching", "reconciling", "confirmed", "failed"} :
              [f EXCEPT ![c].state = v] \in [Campaigns -> LaunchRow]
         /\ \A v \in 0..2 : [f EXCEPT ![c].attempts = v] \in [Campaigns -> LaunchRow]
         /\ \A v \in Workers \cup {Nobody} : [f EXCEPT ![c].holder = v] \in [Campaigns -> LaunchRow]
         /\ \A v \in 0..LaunchLease : [f EXCEPT ![c].retry = v] \in [Campaigns -> LaunchRow]
         /\ \A r \in LaunchRow : [f EXCEPT ![c] = r] \in [Campaigns -> LaunchRow]
BY ZenonT(60) DEF LaunchRow

LEMMA AccountFields ==
  ASSUME NEW f \in [Campaigns -> Account], NEW c \in Campaigns
  PROVE  /\ \A n \in Nodes, v \in Contents : [f EXCEPT ![c].content[n] = v] \in [Campaigns -> Account]
         /\ \A v \in SUBSET Nodes : [f EXCEPT ![c].twice = v] \in [Campaigns -> Account]
         /\ \A v \in {"OFF", "ON"} : [f EXCEPT ![c].state = v] \in [Campaigns -> Account]
         /\ \A v \in Moderations : [f EXCEPT ![c].moderation = v] \in [Campaigns -> Account]
         /\ \A v \in BOOLEAN : [f EXCEPT ![c].late = v] \in [Campaigns -> Account]
BY DEF Account

LEMMA JobFields ==
  ASSUME NEW f \in [Workers -> Job], NEW w \in Workers
  PROVE  /\ \A v \in Jobs : [f EXCEPT ![w].job = v] \in [Workers -> Job]
         /\ \A v \in Steps : [f EXCEPT ![w].pc = v] \in [Workers -> Job]
         /\ \A v \in Stages : [f EXCEPT ![w].stage = v] \in [Workers -> Job]
         /\ \A v \in 0..MaxOperations : [f EXCEPT ![w].rev = v] \in [Workers -> Job]
         /\ \A v \in Sight : [f EXCEPT ![w].saw = v] \in [Workers -> Job]
         /\ \A v \in Nat : [f EXCEPT ![w].left = v] \in [Workers -> Job]
         /\ \A r \in Job : [f EXCEPT ![w] = r] \in [Workers -> Job]
BY DEF Job

LEMMA Defaults ==
  /\ Idle \in Job /\ NothingSeen \in Sight /\ NoLaunch \in LaunchRow /\ NoSync \in SyncRow
  /\ NoOperation \in OperationRow
  /\ \A n \in Nat : Draft(n) \in Row /\ Verified(n) \in Row
  /\ Empty \in Account /\ Published \in Account
<1>1. NothingSeen \in Sight
  BY DEF NothingSeen, Sight, Moderations
<1>2. Idle \in Job
  <2>1. (CHOOSE c \in Campaigns : TRUE) \in Campaigns
    BY WorkerAssumption
  <2> QED  BY <1>1, <2>1, LeaseAssumption DEF Idle, Job, Jobs, Steps, Stages
<1>3. NoLaunch \in LaunchRow /\ NoSync \in SyncRow
  BY LeaseAssumption DEF NoLaunch, LaunchRow, NoSync, SyncRow
<1>4. NoOperation \in OperationRow
  BY LeaseAssumption DEF NoOperation, OperationRow, Stages
<1>5. \A n \in Nat : Draft(n) \in Row /\ Verified(n) \in Row
  BY LeaseAssumption DEF Draft, Verified, Row, Statuses, Moderations
<1>6. Empty \in Account
  BY DEF Empty, Account, Contents, Absent, Moderations
<1>7. Published \in Account
  <2>1. [n \in Nodes |-> 1] \in [Nodes -> Contents]
    BY LeaseAssumption DEF Contents, Operations
  <2> DEFINE graph == [n \in Nodes |-> 1]
  <2>2. [Empty EXCEPT !.content = graph] \in Account
    BY <1>6, <2>1 DEF Account
  <2> HIDE DEF graph
  <2>3. [Empty EXCEPT !.content = graph, !.moderation = "ACCEPTED"] \in Account
    BY <2>2 DEF Account, Moderations
  <2> QED  BY <2>3 DEF Published, graph
<1> QED  BY <1>1, <1>2, <1>3, <1>4, <1>5, <1>6, <1>7

LEMMA CoreInitOK == CoreInit => CoreTypeOK
<1> SUFFICES ASSUME CoreInit PROVE CoreTypeOK
  OBVIOUS
<1>1. RowsOK /\ LaunchesOK /\ SyncsOK /\ AccountsOK /\ WorkOK
  BY Defaults DEF CoreInit, RowsOK, LaunchesOK, SyncsOK, AccountsOK, WorkOK
<1>2. OpsOK
  <2>1. [NoOperation EXCEPT !.number = 1, !.kind = "submission"] \in OperationRow
    <3> DEFINE first == [NoOperation EXCEPT !.number = 1]
    <3>1. first \in OperationRow
      BY Defaults, LeaseAssumption DEF OperationRow
    <3> HIDE DEF first
    <3>2. [first EXCEPT !.kind = "submission"] \in OperationRow
      BY <3>1 DEF OperationRow
    <3> QED  BY <3>2 DEF first
  <2>2. op \in [Campaigns -> OperationRow]
    BY <2>1, Defaults DEF CoreInit
  <2>3. \A c \in Campaigns : op[c].holder = Nobody
    BY DEF CoreInit, NoOperation
  <2> QED  BY <2>2, <2>3 DEF OpsOK
<1>3. RestOK
  BY DEF CoreInit, RestOK
<1> QED  BY <1>1, <1>2, <1>3, TypeParts
----------------------------------------------------------------------------
(* The steps the operations are made of keep the types. *)

LEMMA ForgetOK ==
  ASSUME OpsOK, LaunchesOK, SyncsOK, WorkOK, NEW w \in Workers, Forget(w)
  PROVE  OpsOK' /\ LaunchesOK' /\ SyncsOK' /\ WorkOK'
<1>1. OpsOK'
  BY DEF OpsOK, Forget, ForgetOperation, OperationRow, Unfinished
<1>2. LaunchesOK'
  BY DEF LaunchesOK, Forget, ForgetLaunch, ForgetOperation, LaunchRow
<1>3. SyncsOK'
  BY DEF SyncsOK, Forget, ForgetOperation, SyncRow
<1>4. WorkOK'
  BY Defaults, JobFields DEF WorkOK, Forget, End
<1> QED  BY <1>1, <1>2, <1>3, <1>4

LEMMA GotoOK ==
  ASSUME WorkOK, NEW w \in Workers, NEW pc \in Steps, Goto(w, pc)
  PROVE  WorkOK'
BY JobFields DEF WorkOK, Goto

LEMMA EndOK ==
  ASSUME WorkOK, NEW w \in Workers, End(w)
  PROVE  WorkOK'
BY Defaults, JobFields DEF WorkOK, End

LEMMA FaultOK ==
  ASSUME failures \in Nat, NEW kind, Fault(kind)
  PROVE  failures' \in Nat
BY DEF Fault

\* Rows that stay as they are keep their types.
LEMMA Same ==
  /\ RowsOK /\ UNCHANGED row => RowsOK'
  /\ OpsOK /\ UNCHANGED op => OpsOK'
  /\ LaunchesOK /\ UNCHANGED launch => LaunchesOK'
  /\ SyncsOK /\ UNCHANGED syncing => SyncsOK'
  /\ AccountsOK /\ UNCHANGED account => AccountsOK'
  /\ WorkOK /\ UNCHANGED work => WorkOK'
  /\ RestOK /\ UNCHANGED <<mix, conn, failures, asked, resumes>> => RestOK'
BY DEF RowsOK, OpsOK, LaunchesOK, SyncsOK, AccountsOK, WorkOK, RestOK, Unfinished

LEMMA GiveUpOK ==
  ASSUME CoreTypeOK, NEW w \in Workers, GiveUp(w)
  PROVE  CoreTypeOK'
BY TypeParts, ForgetOK, Same DEF GiveUp, history

LEMMA GoOnOK ==
  ASSUME CoreTypeOK, NEW w \in Workers, NEW pc \in Steps, GoOn(w, pc)
  PROVE  CoreTypeOK'
BY TypeParts, GotoOK, Same DEF GoOn, Untouched, history

LEMMA SeeOK ==
  ASSUME CoreTypeOK, NEW w \in Workers, NEW pc \in Steps, See(w, pc)
  PROVE  CoreTypeOK'
<1>1. [moderation |-> account[work[w].on].moderation, state |-> GetGraphCampaign(work[w].on)] \in Sight
  BY TypeParts DEF AccountsOK, Account, Sight, GetGraphCampaign, WorkOK, Job
<1>2. WorkOK'
  BY <1>1, TypeParts, JobFields, Zenon DEF WorkOK, See
<1> QED  BY <1>2, TypeParts, Same DEF See, Untouched, history

LEMMA CarriedOK ==
  ASSUME CoreTypeOK, NEW w \in Workers, NEW pc \in Steps, NEW after \in [Campaigns -> Account],
         Carried(w, after, pc)
  PROVE  CoreTypeOK'
<1>1. CASE account' = after /\ Goto(w, pc) /\ NoFault /\ OnlyAccount
  BY <1>1, TypeParts, GotoOK, Same DEF NoFault, OnlyAccount, history, AccountsOK
<1>2. CASE Fault("lost") /\ account' \in {account, after} /\ Forget(w) /\ UNCHANGED <<mix, row, conn, history>>
  <2>1. AccountsOK' /\ RestOK'
    BY <1>2, TypeParts, FaultOK DEF AccountsOK, RestOK, history
  <2> QED  BY <1>2, <2>1, TypeParts, ForgetOK, Same DEF history
<1> QED  BY <1>1, <1>2 DEF Carried

LEMMA LostOK ==
  ASSUME CoreTypeOK, NEW w \in Workers, NEW pc \in Steps, NEW kind, Fault(kind), Goto(w, pc), OnlyAccount,
         account' \in [Campaigns -> Account]
  PROVE  CoreTypeOK'
<1>1. AccountsOK' /\ RestOK'
  BY TypeParts, FaultOK DEF AccountsOK, RestOK, OnlyAccount, history
<1> QED  BY <1>1, TypeParts, GotoOK, Same DEF OnlyAccount, history
----------------------------------------------------------------------------
(* The transactions and the operations keep the types. *)

LEMMA MixOK ==
  ASSUME mix \in Mixes
  PROVE  mix.on \in SUBSET Campaigns /\ mix.limit \in Nat
BY WorkerAssumption

LEMMA LocalStatus ==
  \A m, s : s \in Statuses => directLocalStatusForModeration(m, s) \in Statuses
BY DEF directLocalStatusForModeration, Statuses

LEMMA WhereOK ==
  ASSUME WorkOK, NEW w \in Workers
  PROVE  /\ work[w].on \in Campaigns /\ work[w].rev \in 0..MaxOperations
         /\ work[w].saw.moderation \in Moderations /\ work[w].saw.state \in {"OFF", "ON"}
BY DEF WorkOK, Job, Sight

LEMMA StartsOK ==
  ASSUME CoreTypeOK, NEW w \in Workers, NEW c \in Campaigns
  PROVE  /\ \A pc \in Steps, stage \in Stages : StartGraph(w, c, stage, pc) => WorkOK'
         /\ \A pc \in Steps, job \in Jobs : Start(w, c, job, pc) => WorkOK'
<1>1. ASSUME NEW pc \in Steps, NEW stage \in Stages, StartGraph(w, c, stage, pc) PROVE WorkOK'
  <2>1. [job |-> "graph", on |-> c, pc |-> pc, stage |-> stage, rev |-> 0, saw |-> NothingSeen,
         left |-> Deadline] \in Job
    BY Defaults, LeaseAssumption DEF Job, Jobs
  <2> QED  BY <1>1, <2>1, TypeParts, JobFields DEF WorkOK, StartGraph
<1>2. ASSUME NEW pc \in Steps, NEW job \in Jobs, Start(w, c, job, pc) PROVE WorkOK'
  <2>1. row[c].revision \in 0..MaxOperations /\ LaunchLease - 1 \in Nat
    <3>1. row[c].revision \in 0..MaxOperations
      BY TypeParts DEF RowsOK, Row
    <3>2. LaunchLease \in Nat /\ LaunchLease > 0
      BY LeaseAssumption
    <3> QED  BY <3>1, <3>2
  <2>2. [job |-> job, on |-> c, pc |-> pc, stage |-> "completed", rev |-> row[c].revision,
         saw |-> NothingSeen, left |-> LaunchLease - 1] \in Job
    BY <2>1, Defaults DEF Job, Stages
  <2> QED  BY <1>2, <2>2, TypeParts, JobFields DEF WorkOK, Start
<1> QED  BY <1>1, <1>2

LEMMA ClearSyncOK ==
  ASSUME SyncsOK, NEW c \in Campaigns, ClearSync(c)
  PROVE  SyncsOK'
BY Defaults DEF SyncsOK, ClearSync

LEMMA NewOperationOK ==
  ASSUME CoreTypeOK, NEW w \in Workers, NEW c \in Campaigns, NEW kind \in {"submission", "update"},
         NewOperation(w, c, kind)
  PROVE  OpsOK'
<1>1. op[c].number + 1 \in 0..MaxOperations /\ row[c].revision \in 0..MaxOperations
  <2>1. op[c].number \in 0..MaxOperations /\ row[c].revision \in 0..MaxOperations
    BY TypeParts DEF OpsOK, OperationRow, RowsOK, Row
  <2>2. MaxOperations \in Nat /\ op[c].number < MaxOperations
    BY LeaseAssumption DEF NewOperation
  <2> QED  BY <2>1, <2>2
<1>2. [number |-> op[c].number + 1, kind |-> kind, stage |-> "claimed", base |-> row[c].revision,
       holder |-> w, lease |-> Lease] \in OperationRow
  BY <1>1, LeaseAssumption DEF OperationRow, Stages
<1>3. op' \in [Campaigns -> OperationRow]
  BY <1>2, TypeParts, OperationFields DEF NewOperation, OpsOK
<1>4. \A d \in Campaigns : ~Unfinished(d)' => op'[d].holder = Nobody
  BY TypeParts DEF NewOperation, OpsOK, Unfinished
<1> QED  BY <1>3, <1>4 DEF OpsOK

LEMMA ClaimsOK ==
  ASSUME CoreTypeOK, NEW w \in Workers, NEW c \in Campaigns,
         \/ SubmitDirectCampaign(w, c) \/ UpdateDirectCampaign(w, c)
         \/ ResubmitDirectCampaign(w, c) \/ RecoverGraph(w, c)
  PROVE  CoreTypeOK'
<1>1. CASE SubmitDirectCampaign(w, c)
  <2>1. RowsOK'
    BY <1>1, TypeParts, RowFields DEF SubmitDirectCampaign, ClaimSubmission, RowsOK, Statuses
  <2>2. OpsOK' /\ WorkOK' /\ SyncsOK'
    BY <1>1, NewOperationOK, StartsOK, ClearSyncOK, TypeParts DEF SubmitDirectCampaign, ClaimSubmission, Steps, Stages
  <2> QED  BY <1>1, <2>1, <2>2, TypeParts, Same DEF SubmitDirectCampaign, ClaimSubmission, KeepsClaim, history
<1>2. CASE UpdateDirectCampaign(w, c)
  <2>1. RowsOK'
    <3>1. 0 \in 0..MaxOperations /\ "" \in Moderations
      BY LeaseAssumption DEF Moderations
    <3>2. \A r \in Row : WithdrawEvidence(r) \in Row
      BY <3>1, RowRecord, Zenon DEF WithdrawEvidence
    <3>3. row' = [row EXCEPT ![c] = WithdrawEvidence(row[c])]
      BY <1>2 DEF UpdateDirectCampaign, ClaimProviderEdit
    <3> QED  BY <3>2, <3>3, TypeParts, RowFields DEF RowsOK
  <2>2. OpsOK' /\ WorkOK' /\ SyncsOK'
    BY <1>2, NewOperationOK, StartsOK, ClearSyncOK, TypeParts DEF UpdateDirectCampaign, ClaimProviderEdit, Steps, Stages
  <2> QED  BY <1>2, <2>1, <2>2, TypeParts, Same DEF UpdateDirectCampaign, ClaimProviderEdit, KeepsClaim, history
<1>3. ASSUME NEW pc \in Steps, TakeOver(w, c, pc), KeepsClaim PROVE CoreTypeOK'
  <2>1. op' \in [Campaigns -> OperationRow]
    <3>1. w \in Workers \cup {Nobody} /\ Lease \in 0..Lease
      BY LeaseAssumption
    <3>2. op' = [op EXCEPT ![c].holder = w, ![c].lease = Lease]
      BY <1>3 DEF TakeOver
    <3> QED  BY <3>1, <3>2, TypeParts, OperationFields, Zenon DEF OpsOK
  <2>2. op[c].stage \in Stages
    BY TypeParts DEF OpsOK, OperationRow
  <2>3. OpsOK'
    BY <1>3, <2>1, TypeParts DEF TakeOver, OpsOK, Unfinished, OperationRow
  <2>4. WorkOK' /\ SyncsOK'
    BY <1>3, <2>2, StartsOK, ClearSyncOK, TypeParts DEF TakeOver
  <2> QED  BY <1>3, <2>3, <2>4, TypeParts, Same DEF TakeOver, KeepsClaim, history
<1>4. CASE ResubmitDirectCampaign(w, c) \/ RecoverGraph(w, c)
  BY <1>3, <1>4 DEF ResubmitDirectCampaign, Reclaim, RecoverGraph, ClaimGraphRecovery, Steps
<1> QED  BY <1>1, <1>2, <1>4

LEMMA AdvanceOK ==
  ASSUME CoreTypeOK, NEW w \in Workers, NEW stage, AdvanceGraphStage(w, stage)
  PROVE  CoreTypeOK'
<1> DEFINE c == work[w].on
<1>1. c \in Campaigns
  BY TypeParts, WhereOK
<1>2. CASE ~CanAdvance(w, c, stage)
  BY <1>2, GiveUpOK DEF AdvanceGraphStage
<1>3. CASE CanAdvance(w, c, stage)
  <2>1. stage \in Stages /\ stage # "failed" /\ op[c].stage \in Stages \ {"completed", "failed"}
    BY <1>3 DEF CanAdvance, validDirectProviderStageTransition, NextStage, Stages
  <2>2. Advanced(c, stage)
    BY <1>3 DEF AdvanceGraphStage
  <2>3. op' \in [Campaigns -> OperationRow]
    <3> DEFINE lease == IF stage = "completed" THEN 0 ELSE Lease
    <3>1. lease \in 0..Lease
      BY LeaseAssumption
    <3>2. \A f \in [Campaigns -> OperationRow] :
            (IF stage = "completed" THEN Nobody ELSE f[c].holder) \in Workers \cup {Nobody}
      BY <1>1 DEF OperationRow
    <3>3. op' = [op EXCEPT ![c].stage = stage, ![c].lease = lease,
                           ![c].holder = IF stage = "completed" THEN Nobody ELSE @]
      BY <2>2 DEF Advanced
    <3> HIDE DEF lease, c
    <3> QED  BY <1>1, <2>1, <3>1, <3>2, <3>3, TypeParts, OperationFields, Zenon DEF OpsOK
  <2>4. OpsOK'
    BY <1>1, <2>1, <2>2, <2>3, TypeParts DEF Advanced, OpsOK, Unfinished, OperationRow
  <2>5. RowsOK'
    <3>1. StatusAfter(c, stage) \in Statuses
      <4>1. row[c].status \in Statuses
        BY <1>1, TypeParts DEF RowsOK, Row
      <4>2. directLocalStatusForModeration(row[c].moderation, row[c].status) \in Statuses
        BY <4>1, LocalStatus
      <4>3. {"moderation", "provider_draft"} \subseteq Statuses
        BY DEF Statuses
      <4> HIDE DEF c
      <4> QED  BY <4>1, <4>2, <4>3 DEF StatusAfter
    <3> QED  BY <1>1, <2>2, <3>1, TypeParts, RowFields, Zenon DEF Advanced, RowsOK
  <2>6. WorkOK'
    <3>1. (IF stage = "completed" THEN "again" ELSE "read") \in Steps
      BY DEF Steps
    <3>2. work' = [work EXCEPT ![w].stage = stage, ![w].pc = IF stage = "completed" THEN "again" ELSE "read"]
      BY <1>3 DEF AdvanceGraphStage
    <3> QED  BY <2>1, <3>1, <3>2, TypeParts, JobFields, Zenon DEF WorkOK
  <2> QED  BY <1>3, <2>4, <2>5, <2>6, TypeParts, Same DEF AdvanceGraphStage, history
<1> QED  BY <1>2, <1>3

\* What the calls of the client make of the account is an account.
LEMMA CallsOK ==
  ASSUME AccountsOK, OpsOK, NEW c \in Campaigns
  PROVE  /\ \A node \in Nodes, k \in Contents, d \in BOOLEAN : Put(c, node, k, d) \in [Campaigns -> Account]
         /\ \A k \in Contents : UpdateResponsiveAds(c, k) \in [Campaigns -> Account]
         /\ ModerateAds(c) \in [Campaigns -> Account] /\ ResumeCampaign(c) \in [Campaigns -> Account]
         /\ op[c].number \in Contents
<1>1. ASSUME NEW node \in Nodes, NEW k \in Contents, NEW d \in BOOLEAN
      PROVE  Put(c, node, k, d) \in [Campaigns -> Account]
  <2>1. \A f \in [Campaigns -> Account] : (IF d THEN f[c].twice \cup {node} ELSE f[c].twice) \in SUBSET Nodes
    BY DEF Account
  <2> QED  BY <2>1, AccountFields, Zenon DEF AccountsOK, Put
<1>2. ASSUME NEW k \in Contents PROVE UpdateResponsiveAds(c, k) \in [Campaigns -> Account]
  <2>1. "ad" \in Nodes /\ "DRAFT" \in Moderations
    BY DEF Nodes, Moderations
  <2> QED  BY <2>1, AccountFields, Zenon DEF AccountsOK, UpdateResponsiveAds
<1>3. ModerateAds(c) \in [Campaigns -> Account]
  <2>1. (IF account[c].moderation = "DRAFT" THEN "MODERATION" ELSE account[c].moderation) \in Moderations
    BY DEF AccountsOK, Account, Moderations
  <2> QED  BY <2>1, AccountFields, Zenon DEF AccountsOK, ModerateAds
<1>4. ResumeCampaign(c) \in [Campaigns -> Account]
  BY AccountFields DEF AccountsOK, ResumeCampaign
<1>5. op[c].number \in Contents
  BY LeaseAssumption DEF OpsOK, OperationRow, Contents, Operations, Absent
<1> QED  BY <1>1, <1>2, <1>3, <1>4, <1>5

LEMMA FailOperationOK ==
  ASSUME CoreTypeOK, NEW w \in Workers, NEW c \in Campaigns, FailOperation(w, c), End(w),
         UNCHANGED <<mix, launch, syncing, conn, account, failures, history>>
  PROVE  CoreTypeOK'
<1>1. OpsOK'
  <2>1. "failed" \in Stages /\ 0 \in 0..Lease /\ Nobody \in Workers \cup {Nobody}
    BY LeaseAssumption DEF Stages
  <2>2. op' = [op EXCEPT ![c].stage = "failed", ![c].lease = 0, ![c].holder = Nobody]
    BY DEF FailOperation
  <2>3. op' \in [Campaigns -> OperationRow]
    BY <2>1, <2>2, TypeParts, OperationFields, ZenonT(60) DEF OpsOK
  <2>4. \A d \in Campaigns : ~Unfinished(d)' => op'[d].holder = Nobody
    BY <2>2, TypeParts DEF OpsOK, OperationRow, Unfinished
  <2> QED  BY <2>3, <2>4 DEF OpsOK
<1>2. RowsOK'
  <2>1. row[c] \in Row /\ op[c].base \in 0..MaxOperations /\ row[c].recorded \in Moderations
        /\ row[c].status \in Statuses
    BY TypeParts DEF RowsOK, OpsOK, OperationRow, Row
  <2>2. \A s \in Statuses : directLocalStatusForModeration(row[c].recorded, s) \in Statuses
    BY LocalStatus
  <2>3. \A r \in Row : r.status \in Statuses
    BY DEF Row
  <2>4. "OFF" \in {"", "OFF", "ON"} /\ "draft" \in Statuses
    BY DEF Statuses
  <2>5. Baseline(c) \in Row
    BY <2>1, <2>2, <2>3, <2>4, RowRecord, Zenon DEF Baseline
  <2>6. [row[c] EXCEPT !.status = "draft"] \in Row
    BY <2>1, <2>4, RowRecord
  <2>7. row' = [row EXCEPT ![c] = IF op[c].kind = "submission" THEN [row[c] EXCEPT !.status = "draft"]
                                  ELSE Baseline(c)]
    BY DEF FailOperation
  <2> QED  BY <2>5, <2>6, <2>7, TypeParts, RowFields, Zenon DEF RowsOK
<1> QED  BY <1>1, <1>2, TypeParts, EndOK, Same DEF history

LEMMA SubmissionStepOK ==
  ASSUME CoreTypeOK, NEW w \in Workers, SubmissionStep(w)
  PROVE  CoreTypeOK'
<1> DEFINE c == work[w].on
<1>1. c \in Campaigns /\ op[c].number \in Contents /\ Number(w) = op[c].number
  BY TypeParts, WhereOK, CallsOK DEF Number
<1>2. \A node \in Nodes : Create(c, node, Number(w)) \in [Campaigns -> Account]
  BY <1>1, TypeParts, CallsOK DEF Create
<1>3. CASE FindCampaign(w) \/ FindAdGroup(w)
  BY <1>3, GiveUpOK, GoOnOK DEF FindCampaign, FindAdGroup, Steps
<1>4. CASE ReadAd(w) \/ ConfirmAd(w)
  BY <1>4, GiveUpOK, GoOnOK DEF ReadAd, ConfirmAd, FindAd, Steps
<1>5. CASE ReadKeywords(w) \/ ConfirmKeywords(w)
  BY <1>5, GiveUpOK, GoOnOK DEF ReadKeywords, ConfirmKeywords, FindKeywords, Steps
<1>6. CASE CreateCampaign(w) \/ CreateAdGroup(w)
  BY <1>6, <1>2, CarriedOK DEF CreateCampaign, CreateAdGroup, CreateCampaignDraft, CreateUnifiedAdGroup, Steps, Nodes
<1>7. CASE RefuseCampaign(w)
  BY <1>7, <1>2, LostOK, TypeParts DEF RefuseCampaign, CreateCampaignDraft, Steps, Nodes, AccountsOK
<1>8. CASE FailSubmissionIfAbsent(w)
  BY <1>8, <1>1, FailOperationOK, GiveUpOK DEF FailSubmissionIfAbsent
<1>9. CASE CreateAd(w)
  BY <1>9, <1>2, CarriedOK, LostOK, TypeParts DEF CreateAd, CreateResponsiveAd, Steps, Nodes, AccountsOK
<1>10. CASE CreateKeywords(w)
  <2>1. \A k \in {Number(w), Mixed} : Put(c, "keywords", k, FALSE) \in [Campaigns -> Account]
    BY <1>1, TypeParts, CallsOK DEF Nodes, Contents
  <2> QED  BY <1>10, <2>1, CarriedOK, LostOK, TypeParts DEF CreateKeywords, AddKeywords, Steps, AccountsOK
<1> QED  BY <1>3, <1>4, <1>5, <1>6, <1>7, <1>8, <1>9, <1>10 DEF SubmissionStep

LEMMA EditStepOK ==
  ASSUME CoreTypeOK, NEW w \in Workers, EditStep(w)
  PROVE  CoreTypeOK'
<1> DEFINE c == work[w].on
<1>1. c \in Campaigns /\ op[c].number \in Contents /\ Number(w) = op[c].number
  BY TypeParts, WhereOK, CallsOK DEF Number
<1>2. ASSUME NEW stage, ReadForEdit(w, stage) \/ ConfirmEdit(w, stage) PROVE CoreTypeOK'
  BY <1>2, GiveUpOK, GoOnOK DEF ReadForEdit, ConfirmEdit, Steps
<1>3. ASSUME NEW stage, NEW written \in [Campaigns -> Account], NEW partly \in SUBSET [Campaigns -> Account],
             WriteEdit(w, stage, written, partly)
      PROVE  CoreTypeOK'
  BY <1>3, CarriedOK, LostOK, TypeParts DEF WriteEdit, Steps, AccountsOK
<1>4. /\ \A node \in Nodes : Put(c, node, Number(w), FALSE) \in [Campaigns -> Account]
      /\ UpdateResponsiveAds(c, Number(w)) \in [Campaigns -> Account]
      /\ UpdateKeywords(c, Number(w)) \in SUBSET [Campaigns -> Account]
  <2>1. \A node \in Nodes, k \in Contents : Put(c, node, k, FALSE) \in [Campaigns -> Account]
    BY <1>1, TypeParts, CallsOK
  <2>2. "keywords" \in Nodes /\ Mixed \in Contents
    BY DEF Nodes, Contents
  <2>3. UpdateResponsiveAds(c, Number(w)) \in [Campaigns -> Account]
    BY <1>1, TypeParts, CallsOK
  <2> QED  BY <1>1, <2>1, <2>2, <2>3 DEF UpdateKeywords
<1>5. CASE UpdateCampaign(w)
  BY <1>2, <1>3, <1>4, <1>5, ZenonT(60) DEF UpdateCampaign, UpdateUnifiedCampaigns, Nodes
<1>6. CASE UpdateAdGroup(w)
  BY <1>2, <1>3, <1>4, <1>6, ZenonT(60) DEF UpdateAdGroup, UpdateUnifiedAdGroups, Nodes
<1>7. CASE UpdateAd(w)
  BY <1>2, <1>3, <1>4, <1>7 DEF UpdateAd
<1>8. CASE ReplaceKeywords(w)
  BY <1>2, <1>3, <1>4, <1>8 DEF ReplaceKeywords, Nodes
<1>9. CASE RefuseUpdate(w)
  BY <1>9, <1>4, LostOK, TypeParts DEF RefuseUpdate, UpdateUnifiedCampaigns, Steps, Nodes, AccountsOK
<1>10. CASE FailUpdateIfUnchanged(w)
  BY <1>10, <1>1, FailOperationOK, GiveUpOK DEF FailUpdateIfUnchanged
<1> QED  BY <1>5, <1>6, <1>7, <1>8, <1>9, <1>10 DEF EditStep

LEMMA GraphStepOK ==
  ASSUME CoreTypeOK, NEW w \in Workers, GraphStep(w)
  PROVE  CoreTypeOK'
<1> DEFINE c == work[w].on
<1>1. c \in Campaigns
  BY TypeParts, WhereOK
<1>2. CASE LoadMaterial(w)
  BY <1>2, GiveUpOK, GoOnOK DEF LoadMaterial, Steps
<1>3. CASE ObserveGraph(w)
  BY <1>3, GiveUpOK, GoOnOK DEF ObserveGraph, Steps
<1>4. CASE RecordStage(w) \/ Complete(w)
  BY <1>4, AdvanceOK DEF RecordStage, Complete
<1>5. CASE RequestModeration(w)
  <2>1. ModerateAds(c) \in [Campaigns -> Account]
    BY <1>1, TypeParts, CallsOK
  <2> QED  BY <1>5, <2>1, GiveUpOK, GoOnOK, CarriedOK, LostOK, TypeParts DEF RequestModeration, Steps, AccountsOK
<1>6. CASE RecordGraph(w)
  <2>1. ASSUME CanRecord(w, c), RecordVerified(c, work[w].saw.moderation),
               work' = [work EXCEPT ![w].stage = "verified", ![w].pc = "load", ![w].saw = NothingSeen],
               UNCHANGED <<mix, launch, syncing, conn, account, failures, history>>
        PROVE  CoreTypeOK'
    <3>1. "verified" \in Stages /\ "load" \in Steps /\ Lease \in 0..Lease
      BY LeaseAssumption DEF Stages, Steps
    <3>2. op' = [op EXCEPT ![c].stage = "verified", ![c].lease = Lease]
      BY <2>1 DEF RecordVerified
    <3>3. op' \in [Campaigns -> OperationRow]
      BY <1>1, <3>1, <3>2, TypeParts, OperationFields, Zenon DEF OpsOK
    <3>4. OpsOK'
      BY <2>1, <1>1, <3>2, <3>3, TypeParts, ZenonT(60) DEF OpsOK, OperationRow, Unfinished, CanRecord
    <3>5. WorkOK'
      <4>1. work' = [work EXCEPT ![w].stage = "verified", ![w].pc = "load", ![w].saw = NothingSeen]
        BY <2>1
      <4>2. work \in [Workers -> Job] /\ NothingSeen \in Sight
        BY TypeParts, Defaults DEF WorkOK
      <4>3. work' \in [Workers -> Job]
        BY <4>1, <4>2, <3>1, JobFields, Zenon
      <4> QED  BY <4>3 DEF WorkOK
    <3>6. RowsOK'
      <4>1. op[c].number \in 0..MaxOperations /\ work[w].saw.moderation \in Moderations
        BY <1>1, TypeParts, WhereOK DEF OpsOK, OperationRow
      <4>2. \A f \in [Campaigns -> Row] : \A m :
              directLocalStatusForModeration(m, f[c].status) \in Statuses
        BY <1>1, LocalStatus DEF Row
      <4>3. row' = [row EXCEPT ![c].revision = op[c].number, ![c].moderation = work[w].saw.moderation,
                               ![c].recorded = work[w].saw.moderation,
                               ![c].status = directLocalStatusForModeration(work[w].saw.moderation, @)]
        BY <2>1 DEF RecordVerified
      <4> HIDE DEF c
      <4> QED  BY <1>1, <4>1, <4>2, <4>3, TypeParts, RowFields, Zenon DEF RowsOK
    <3> QED  BY <2>1, <3>4, <3>5, <3>6, TypeParts, Same DEF history
  <2> QED  BY <1>6, <2>1, GiveUpOK, SeeOK DEF RecordGraph, Steps
<1> QED  BY <1>2, <1>3, <1>4, <1>5, <1>6, SubmissionStepOK, EditStepOK DEF GraphStep

\* What a launch writes in the rows.
LEMMA LaunchRowsOK ==
  ASSUME CoreTypeOK, NEW c \in Campaigns
  PROVE  /\ Confirmed(c) \in [Campaigns -> LaunchRow]
         /\ \A seen \in Sight : SyncStatus(c, seen) => RowsOK' /\ LaunchesOK'
         /\ \A m \in Moderations, s \in {"OFF", "ON"} : StoreModeration(c, m, s) => RowsOK'
         /\ InvalidateConsent(c) => RowsOK'
<1>1. Confirmed(c) \in [Campaigns -> LaunchRow]
  <2>1. "confirmed" \in {"idle", "launching", "reconciling", "confirmed", "failed"}
        /\ Nobody \in Workers \cup {Nobody} /\ 0 \in 0..LaunchLease
    BY LeaseAssumption
  <2> QED  BY <2>1, TypeParts, LaunchFields, Zenon DEF LaunchesOK, Confirmed
<1>2. ASSUME NEW seen \in Sight, SyncStatus(c, seen) PROVE RowsOK' /\ LaunchesOK'
  <2> DEFINE status == IF PromotesDelayed(c, seen) THEN "active" ELSE SyncedStatus(c, seen)
  <2>1. status \in Statuses
    <3>1. row[c].status \in Statuses
      BY TypeParts DEF RowsOK, Row
    <3>2. ConfirmedStatus(seen) \in Statuses /\ StatusFromLifecycle(seen) \in Statuses
      BY DEF ConfirmedStatus, StatusFromLifecycle, Statuses
    <3>3. {"active", "suspended"} \subseteq Statuses
      BY DEF Statuses
    <3> QED  BY <3>1, <3>2, <3>3 DEF SyncedStatus
  <2>2. row' = [row EXCEPT ![c].state = seen.state, ![c].status = status]
    BY <1>2 DEF SyncStatus
  <2>3. seen.state \in {"", "OFF", "ON"}
    BY DEF Sight
  <2> HIDE DEF status
  <2>4. RowsOK'
    BY <2>1, <2>2, <2>3, TypeParts, RowFields, Zenon DEF RowsOK
  <2> QED  BY <1>1, <1>2, <2>4, TypeParts DEF SyncStatus, LaunchesOK
<1>3. ASSUME NEW m \in Moderations, NEW s \in {"OFF", "ON"}, StoreModeration(c, m, s) PROVE RowsOK'
  <2>1. \A f \in [Campaigns -> Row] : /\ directLocalStatusForModeration(m, f[c].status) \in Statuses
                                      /\ (IF m = "ACCEPTED" THEN f[c].consent ELSE 0) \in 0..MaxOperations
    <3>1. 0 \in 0..MaxOperations
      BY LeaseAssumption
    <3>2. \A f \in [Campaigns -> Row] : f[c].status \in Statuses /\ f[c].consent \in 0..MaxOperations
      BY DEF Row
    <3> QED  BY <3>1, <3>2, LocalStatus
  <2>2. s \in {"", "OFF", "ON"}
    OBVIOUS
  <2>3. row' = [row EXCEPT ![c].moderation = m, ![c].state = s,
                           ![c].status = directLocalStatusForModeration(m, @),
                           ![c].consent = IF m = "ACCEPTED" THEN @ ELSE 0]
    BY <1>3 DEF StoreModeration
  <2>4. row \in [Campaigns -> Row]
    BY TypeParts DEF RowsOK
  <2>5. row' \in [Campaigns -> Row]
    BY <2>1, <2>2, <2>3, <2>4, RowFields, Zenon
  <2> QED  BY <2>5 DEF RowsOK
<1>4. ASSUME InvalidateConsent(c) PROVE RowsOK'
  <2>1. 0 \in 0..MaxOperations
    BY LeaseAssumption
  <2> QED  BY <1>4, <2>1, TypeParts, RowFields, Zenon DEF RowsOK, InvalidateConsent
<1> QED  BY <1>1, <1>2, <1>3, <1>4

LEMMA LaunchStepOK ==
  ASSUME CoreTypeOK, NEW w \in Workers, LaunchStep(w)
  PROVE  CoreTypeOK'
<1> DEFINE c == work[w].on
<1>1. c \in Campaigns /\ work[w].saw \in Sight
  BY TypeParts, WhereOK DEF WorkOK, Job
<1>2. CASE CheckLaunch(w)
  <2>1. ASSUME Forget(w), IF work[w].job = "auto" THEN InvalidateConsent(c) ELSE UNCHANGED row,
               UNCHANGED <<mix, conn, account, failures, history>>
        PROVE  CoreTypeOK'
    BY <2>1, <1>1, LaunchRowsOK, ForgetOK, Same, TypeParts DEF history
  <2> QED  BY <1>2, <2>1, GiveUpOK, SeeOK DEF CheckLaunch, Steps
<1>3. CASE SyncBeforeLaunch(w)
  <2>1. ASSUME ClearSync(c), SyncStatus(c, work[w].saw), End(w),
               UNCHANGED <<mix, op, conn, account, failures, history>>
        PROVE  CoreTypeOK'
    BY <2>1, <1>1, LaunchRowsOK, ClearSyncOK, EndOK, Same, TypeParts DEF history
  <2> QED  BY <1>3, <2>1, GiveUpOK DEF SyncBeforeLaunch
<1>4. CASE PersistModeration(w)
  <2>1. ASSUME ClearSync(c), StoreModeration(c, "ACCEPTED", "OFF"),
               work' = [work EXCEPT ![w].pc = "claim", ![w].saw = NothingSeen],
               UNCHANGED <<launch, account, history>>, Quiet
        PROVE  CoreTypeOK'
    <3>1. "claim" \in Steps /\ "ACCEPTED" \in Moderations
      BY DEF Steps, Moderations
    <3>2. WorkOK'
      BY <2>1, <3>1, TypeParts, Defaults, JobFields, Zenon DEF WorkOK
    <3> QED  BY <2>1, <1>1, <3>1, <3>2, LaunchRowsOK, ClearSyncOK, Same, TypeParts DEF history, Quiet
  <2> QED  BY <1>4, <2>1, GiveUpOK DEF PersistModeration
<1>5. CASE ClaimCampaignLaunch(w)
  <2> DEFINE mode == IF work[w].job = "auto" THEN "auto" ELSE "manual"
  <2>1. ASSUME ClaimLaunch(w, c, mode), Goto(w, "verify"), UNCHANGED <<syncing, account, asked>>, Quiet
        PROVE  CoreTypeOK'
    <3>1. [state |-> "launching", mode |-> mode, attempts |-> 0, holder |-> w, retry |-> LaunchLease] \in LaunchRow
      BY LeaseAssumption DEF LaunchRow
    <3>2. LaunchesOK'
      BY <1>1, <2>1, <3>1, TypeParts, LaunchFields DEF ClaimLaunch, LaunchesOK
    <3>3. \A f \in [Campaigns -> Row] : (IF mode = "auto" THEN 0 ELSE f[c].consent) \in 0..MaxOperations
      <4>1. 0 \in 0..MaxOperations
        BY LeaseAssumption
      <4>2. \A f \in [Campaigns -> Row] : f[c].consent \in 0..MaxOperations
        BY <1>1 DEF Row
      <4> QED  BY <4>1, <4>2
    <3>4. RowsOK'
      BY <1>1, <2>1, <3>3, TypeParts, RowFields, Zenon DEF ClaimLaunch, RowsOK
    <3>5. resumes' \in [Campaigns -> Nat]
      BY <1>1, <2>1, TypeParts DEF ClaimLaunch, RestOK
    <3>6. RestOK'
      BY <2>1, <3>5, TypeParts DEF Quiet, RestOK
    <3> QED  BY <2>1, <3>2, <3>4, <3>6, GotoOK, Same, TypeParts DEF Quiet, Steps
  <2> QED  BY <1>5, <2>1, GiveUpOK DEF ClaimCampaignLaunch
<1>6. CASE VerifyLaunch(w)
  BY <1>6, SeeOK, GoOnOK DEF VerifyLaunch, Steps
<1>7. CASE AttemptLaunch(w)
  <2>1. ASSUME AttemptAllowed(w, c), MarkAttempt(c), Goto(w, "resume"),
               UNCHANGED <<row, syncing, account, history>>, Quiet
        PROVE  CoreTypeOK'
    <3>1. launch[c].attempts + 1 \in 0..2
      <4>1. launch[c].attempts \in 0..2
        BY <1>1, TypeParts DEF LaunchesOK, LaunchRow
      <4>2. launch[c].attempts < 2
        BY <2>1 DEF AttemptAllowed
      <4> QED  BY <4>1, <4>2
    <3>2. LaunchLease \in 0..LaunchLease
          /\ "launching" \in {"idle", "launching", "reconciling", "confirmed", "failed"}
      BY LeaseAssumption
    <3> DEFINE tried == [launch EXCEPT ![c].state = "launching"]
    <3>3. tried \in [Campaigns -> LaunchRow] /\ tried[c].attempts = launch[c].attempts
      <4>1. launch \in [Campaigns -> LaunchRow]
        BY TypeParts DEF LaunchesOK
      <4> QED  BY <1>1, <3>2, <4>1, ZenonT(60) DEF LaunchRow
    <3>4. launch' = [tried EXCEPT ![c].attempts = launch[c].attempts + 1, ![c].retry = LaunchLease]
      <4>1. launch' = [tried EXCEPT ![c].attempts = tried[c].attempts + 1, ![c].retry = LaunchLease]
        BY <2>1, Zenon DEF MarkAttempt
      <4> QED  BY <4>1, <3>3
    <3> HIDE DEF tried
    <3>5. LaunchesOK'
      BY <1>1, <3>1, <3>2, <3>3, <3>4, LaunchFields, Zenon DEF LaunchesOK
    <3> QED  BY <2>1, <3>5, GotoOK, Same, TypeParts DEF Quiet, Steps, history
  <2> QED  BY <1>7, <2>1, GiveUpOK DEF AttemptLaunch
<1>8. CASE Resume(w)
  <2>1. AccountsOK'
    <3>1. /\ ResumeCampaign(c) \in [Campaigns -> Account] /\ account \in [Campaigns -> Account]
          /\ [account EXCEPT ![c].late = TRUE] \in [Campaigns -> Account]
      BY <1>1, TypeParts, CallsOK, AccountFields DEF AccountsOK
    <3> QED  BY <1>8, <3>1 DEF Resume, AccountsOK
  <2>2. resumes' \in [Campaigns -> Nat]
    BY <1>8, <1>1, TypeParts DEF Resume, RestOK
  <2>3. failures' \in Nat
    BY <1>8, TypeParts, FaultOK DEF Resume, NoFault, RestOK
  <2>4. RestOK'
    BY <1>8, <2>2, <2>3, TypeParts DEF Resume, RestOK
  <2> QED  BY <1>8, <2>1, <2>4, GotoOK, Same, TypeParts DEF Resume, Steps
<1>9. CASE ConfirmLaunch(w)
  <2>1. ASSUME CompleteLaunch(w, c), End(w), UNCHANGED <<syncing, account, history>>, Quiet
        PROVE  CoreTypeOK'
    <3>1. RowsOK'
      BY <2>1, <1>1, TypeParts, RowFields, Zenon DEF CompleteLaunch, RowsOK, Statuses
    <3>2. LaunchesOK'
      BY <2>1, <1>1, LaunchRowsOK DEF CompleteLaunch, LaunchesOK
    <3> QED  BY <2>1, <3>1, <3>2, EndOK, Same, TypeParts DEF Quiet, history
  <2> QED  BY <1>9, <2>1, GiveUpOK DEF ConfirmLaunch
<1>10. CASE ReconcileLater(w)
  <2>1. LaunchesOK'
    <3>1. "reconciling" \in {"idle", "launching", "reconciling", "confirmed", "failed"}
          /\ Nobody \in Workers \cup {Nobody} /\ 0 \in 0..LaunchLease
      BY LeaseAssumption
    <3> QED  BY <1>10, <1>1, <3>1, TypeParts, LaunchFields, Zenon DEF LaunchesOK, ReconcileLater, MarkReconciling
  <2> QED  BY <1>10, <2>1, EndOK, Same, TypeParts DEF ReconcileLater, Quiet, history
<1>11. CASE SettleLaunch(w)
  <2>1. ASSUME ClearSync(c), SyncStatus(c, work[w].saw),
               IF work[w].saw.state = "ON" THEN End(w)
               ELSE work' = [work EXCEPT ![w].pc = "again", ![w].saw = NothingSeen],
               UNCHANGED <<account, history>>, Quiet
        PROVE  CoreTypeOK'
    <3>1. "again" \in Steps
      BY DEF Steps
    <3>2. WorkOK'
      <4>1. CASE work[w].saw.state = "ON"
        BY <2>1, <4>1, EndOK, TypeParts
      <4>2. CASE work[w].saw.state # "ON"
        <5>1. work' = [work EXCEPT ![w].pc = "again", ![w].saw = NothingSeen]
          BY <2>1, <4>2
        <5> QED  BY <5>1, <3>1, TypeParts, Defaults, JobFields, Zenon DEF WorkOK
      <4> QED  BY <4>1, <4>2
    <3> QED  BY <2>1, <1>1, <3>2, LaunchRowsOK, ClearSyncOK, Same, TypeParts DEF Quiet, history
  <2> QED  BY <1>11, <2>1, GiveUpOK DEF SettleLaunch
<1>12. CASE LoadRecovery(w) \/ ReadRecovery(w)
  BY <1>12, GiveUpOK, GoOnOK, SeeOK DEF LoadRecovery, ReadRecovery, Steps
<1>13. CASE RetryOrFail(w)
  <2>1. ASSUME FailLaunch(w, c), End(w), UNCHANGED <<row, syncing, account, history>>, Quiet
        PROVE  CoreTypeOK'
    <3>1. "failed" \in {"idle", "launching", "reconciling", "confirmed", "failed"}
          /\ Nobody \in Workers \cup {Nobody} /\ 0 \in 0..LaunchLease
      BY LeaseAssumption
    <3>2. LaunchesOK'
      BY <2>1, <1>1, <3>1, TypeParts, LaunchFields, Zenon DEF LaunchesOK, FailLaunch
    <3> QED  BY <2>1, <3>2, EndOK, Same, TypeParts DEF Quiet, history
  <2> QED  BY <1>13, <2>1, GiveUpOK, GoOnOK DEF RetryOrFail, Steps
<1>14. CASE AbortLaunch(w)
  <2>1. ASSUME AbortForAuthorization(w, c), End(w), UNCHANGED <<row, syncing, account, history>>, Quiet
        PROVE  CoreTypeOK'
    <3>1. LaunchesOK'
      BY <2>1, <1>1, TypeParts, LaunchFields, Defaults DEF LaunchesOK, AbortForAuthorization
    <3> QED  BY <2>1, <3>1, EndOK, Same, TypeParts DEF Quiet, history
  <2> QED  BY <1>14, <2>1, GiveUpOK DEF AbortLaunch
<1> QED  BY <1>2, <1>3, <1>4, <1>5, <1>6, <1>7, <1>8, <1>9, <1>10, <1>11, <1>12, <1>13, <1>14 DEF LaunchStep

LEMMA ReleaseSyncOK ==
  ASSUME SyncsOK, NEW w \in Workers, NEW c \in Campaigns, ReleaseSync(w, c)
  PROVE  SyncsOK'
BY Defaults DEF SyncsOK, ReleaseSync

LEMMA ClaimSyncOK ==
  ASSUME SyncsOK, NEW w \in Workers, NEW c \in Campaigns, ClaimSync(w, c)
  PROVE  SyncsOK'
BY LeaseAssumption DEF SyncsOK, ClaimSync, SyncRow

LEMMA SyncStepOK ==
  ASSUME CoreTypeOK, NEW w \in Workers, SyncStep(w)
  PROVE  CoreTypeOK'
<1> DEFINE c == work[w].on
<1>1. c \in Campaigns /\ work[w].saw.moderation \in Moderations /\ work[w].saw.state \in {"OFF", "ON"}
      /\ row[c].revision \in 0..MaxOperations
  BY TypeParts, WhereOK DEF RowsOK, Row
<1>2. work \in [Workers -> Job] /\ NothingSeen \in Sight
  BY TypeParts, Defaults DEF WorkOK
<1>3. ASSUME LeaveSync(w) PROVE CoreTypeOK'
  BY <1>1, <1>3, ReleaseSyncOK, EndOK, Same, TypeParts DEF LeaveSync, history
<1>4. CASE SyncAfterOperation(w)
  <2>1. ASSUME ClaimSync(w, c),
               work' = [work EXCEPT ![w].job = "sync", ![w].pc = "load", ![w].rev = row[c].revision,
                                    ![w].left = LaunchLease - 1],
               UNCHANGED <<row, launch, account, history>>, Quiet
        PROVE  CoreTypeOK'
    <3>1. "sync" \in Jobs /\ "load" \in Steps /\ LaunchLease - 1 \in Nat
      BY LeaseAssumption DEF Jobs, Steps
    <3>2. work' = [work EXCEPT ![w].job = "sync", ![w].pc = "load", ![w].rev = row[c].revision,
                               ![w].left = LaunchLease - 1]
      BY <2>1
    <3>3. work' \in [Workers -> Job]
      BY <1>1, <1>2, <3>1, <3>2, JobFields, Zenon
    <3> QED  BY <2>1, <1>1, <3>3, ClaimSyncOK, Same, TypeParts DEF Quiet, history, WorkOK
  <2> QED  BY <1>4, <2>1, GiveUpOK DEF SyncAfterOperation
<1>5. CASE LoadSync(w)
  <2>1. ASSUME work' = [work EXCEPT ![w].pc = "read", ![w].rev = row[c].revision], Untouched
        PROVE  CoreTypeOK'
    <3>1. "read" \in Steps
      BY DEF Steps
    <3>2. work' \in [Workers -> Job]
      BY <1>1, <1>2, <2>1, <3>1, JobFields, Zenon
    <3> QED  BY <2>1, <3>2, Same, TypeParts DEF Untouched, history, WorkOK
  <2> QED  BY <1>3, <1>5, <2>1 DEF LoadSync
<1>6. CASE SnapshotMismatch(w)
  BY <1>1, <1>6, LaunchRowsOK, ReleaseSyncOK, EndOK, Same, TypeParts DEF SnapshotMismatch, Quiet, history
<1>7. CASE ReadLifecycle(w)
  BY <1>7, SeeOK DEF ReadLifecycle, Steps
<1>8. CASE PersistLifecycle(w)
  <2>1. ASSUME StoreModeration(c, work[w].saw.moderation, work[w].saw.state),
               work' = [work EXCEPT ![w].pc = "complete", ![w].saw = NothingSeen],
               UNCHANGED <<launch, syncing, account, history>>, Quiet
        PROVE  CoreTypeOK'
    <3>1. "complete" \in Steps
      BY DEF Steps
    <3>2. work' \in [Workers -> Job]
      BY <1>2, <2>1, <3>1, JobFields, Zenon
    <3> QED  BY <1>1, <2>1, <3>2, LaunchRowsOK, Same, TypeParts DEF Quiet, history, WorkOK
  <2> QED  BY <1>3, <1>8, <2>1 DEF PersistLifecycle
<1>9. CASE FinishSync(w)
  <2>1. ASSUME CompleteSync(w, c), End(w), UNCHANGED <<row, launch, account, history>>, Quiet
        PROVE  CoreTypeOK'
    BY <1>1, <2>1, ClearSyncOK, EndOK, Same, TypeParts DEF CompleteSync, Quiet, history
  <2> QED  BY <1>3, <1>9, <2>1 DEF FinishSync
<1> QED  BY <1>4, <1>5, <1>6, <1>7, <1>8, <1>9 DEF SyncStep

LEMMA FailingOK ==
  ASSUME CoreTypeOK, NEW w \in Workers, Failing(w)
  PROVE  CoreTypeOK'
<1> DEFINE c == work[w].on
<1>1. c \in Campaigns
  BY TypeParts, WhereOK
<1>2. ASSUME NEW kind, Fault(kind), UNCHANGED <<mix, conn, history>> PROVE RestOK'
  BY <1>2, FaultOK, TypeParts DEF RestOK, history
<1>3. CASE ReadFails(w)
  <2>1. ASSUME Fault("lost"), Goto(w, "reconcile"),
               UNCHANGED <<mix, row, op, launch, syncing, conn, account, history>>
        PROVE  CoreTypeOK'
    BY <1>2, <2>1, GotoOK, Same, TypeParts DEF Steps
  <2>2. ASSUME Fault("lost"), ReleaseSync(w, c), End(w),
               UNCHANGED <<mix, row, op, launch, conn, account, history>>
        PROVE  CoreTypeOK'
    BY <1>1, <1>2, <2>2, ReleaseSyncOK, EndOK, Same, TypeParts
  <2> QED  BY <1>3, <2>1, <2>2 DEF ReadFails
<1>4. CASE TokenRefused(w)
  <2>1. RestOK'
    <3>1. conn' \in [id : Nat, status : {"active", "error", "revoked"}]
      BY <1>4, TypeParts DEF TokenRefused, MarkAuthorizationRequired, RestOK
    <3> QED  BY <1>4, <3>1, FaultOK, TypeParts DEF TokenRefused, RestOK, history
  <2>2. RowsOK'
    <3>1. 0 \in 0..MaxOperations
      BY LeaseAssumption
    <3>2. \A d \in Campaigns : row[d] \in Row /\ [row[d] EXCEPT !.consent = 0] \in Row
      BY <3>1, TypeParts, RowRecord DEF RowsOK
    <3> QED  BY <1>4, <3>2 DEF TokenRefused, MarkAuthorizationRequired, RowsOK
  <2>3. AccountsOK'
    BY <1>4, Same, TypeParts DEF TokenRefused
  <2>4. OpsOK' /\ LaunchesOK' /\ SyncsOK' /\ WorkOK'
    <3>1. ASSUME NEW pc \in Steps, Goto(w, pc), UNCHANGED <<op, launch, syncing>>
          PROVE  OpsOK' /\ LaunchesOK' /\ SyncsOK' /\ WorkOK'
      BY <3>1, GotoOK, Same, TypeParts
    <3>2. ASSUME ReleaseSync(w, c), End(w), UNCHANGED <<op, launch>>
          PROVE  OpsOK' /\ LaunchesOK' /\ SyncsOK' /\ WorkOK'
      BY <1>1, <3>2, ReleaseSyncOK, EndOK, Same, TypeParts
    <3> QED  BY <1>4, <3>1, <3>2, ForgetOK, TypeParts DEF TokenRefused, Steps
  <2> QED  BY <2>1, <2>2, <2>3, <2>4, TypeParts
<1>5. CASE Stop(w)
  BY <1>2, <1>5, ForgetOK, Same, TypeParts DEF Stop, history
<1> QED  BY <1>3, <1>4, <1>5 DEF Failing

LEMMA StartingOK ==
  ASSUME CoreTypeOK, NEW w \in Workers, NEW c \in Campaigns, Starting(w, c)
  PROVE  CoreTypeOK'
<1>1. row[c].revision \in 0..MaxOperations
  BY TypeParts DEF RowsOK, Row
<1>2. CASE LaunchCampaign(w, c)
  <2>1. <<row[c].revision, "manual">> \in Operations \X {"manual", "auto"}
    BY <1>1, <1>2, LeaseAssumption DEF LaunchCampaign, GraphEvidenceReady, Operations
  <2>2. asked' \in [Campaigns -> SUBSET (Operations \X {"manual", "auto"})]
    BY <1>2, <2>1, TypeParts DEF LaunchCampaign, RestOK
  <2>3. RestOK'
    BY <1>2, <2>2, TypeParts DEF LaunchCampaign, RestOK
  <2> QED  BY <1>2, <2>3, StartsOK, Same, TypeParts DEF LaunchCampaign, Jobs, Steps
<1>3. CASE AutoLaunchCampaign(w, c)
  BY <1>3, StartsOK, Same, TypeParts DEF AutoLaunchCampaign, Jobs, Steps, history
<1>4. CASE RecoverLaunch(w, c)
  <2>1. w \in Workers \cup {Nobody} /\ LaunchLease \in 0..LaunchLease
    BY LeaseAssumption
  <2>2. LaunchesOK'
    BY <1>4, <2>1, TypeParts, LaunchFields, Zenon DEF RecoverLaunch, ClaimLaunchRecovery, LaunchesOK
  <2> QED  BY <1>4, <2>2, StartsOK, Same, TypeParts DEF RecoverLaunch, Jobs, Steps, history, Quiet
<1>5. CASE SyncCampaign(w, c)
  BY <1>5, StartsOK, ClaimSyncOK, Same, TypeParts DEF SyncCampaign, Jobs, Steps, history, Quiet
<1> QED  BY <1>2, <1>3, <1>4, <1>5, ClaimsOK DEF Starting

\* Consents, the provider, the connection and the clock.
LEMMA OthersOK ==
  ASSUME CoreTypeOK
  PROVE  /\ \A c \in Campaigns : \/ GrantDirectAutoLaunchConsent(c) \/ RevokeDirectAutoLaunchConsent(c)
                                 \/ Moderated(c) \/ ResumeArrives(c) \/ ChangedOutside(c)
                                 => CoreTypeOK'
         /\ RevokeDirectConnection \/ ReplaceDirectConnection \/ Tick => CoreTypeOK'
<1>1. 0 \in 0..MaxOperations
  BY LeaseAssumption
<1>2. ASSUME NEW c \in Campaigns, GrantDirectAutoLaunchConsent(c) PROVE CoreTypeOK'
  <2>1. row[c].revision \in 0..MaxOperations
    BY TypeParts DEF RowsOK, Row
  <2>2. RowsOK'
    BY <1>2, <2>1, TypeParts, RowFields DEF GrantDirectAutoLaunchConsent, GrantConsent, RowsOK
  <2>3. <<row[c].revision, "auto">> \in Operations \X {"manual", "auto"}
    BY <1>2, <2>1, LeaseAssumption DEF GrantDirectAutoLaunchConsent, GrantConsent, GraphLaunchReady, GraphEvidenceReady, Operations
  <2>4. asked' \in [Campaigns -> SUBSET (Operations \X {"manual", "auto"})]
    BY <1>2, <2>3, TypeParts DEF GrantDirectAutoLaunchConsent, GrantConsent, RestOK
  <2>5. RestOK'
    BY <1>2, <2>4, TypeParts DEF GrantDirectAutoLaunchConsent, ConsentOnly, RestOK
  <2> QED  BY <1>2, <2>2, <2>5, Same, TypeParts DEF GrantDirectAutoLaunchConsent, ConsentOnly
<1>3. ASSUME NEW c \in Campaigns, RevokeDirectAutoLaunchConsent(c) PROVE CoreTypeOK'
  <2>1. RowsOK'
    BY <1>1, <1>3, TypeParts, RowFields DEF RevokeDirectAutoLaunchConsent, RevokeConsent, RowsOK
  <2>2. asked' \in [Campaigns -> SUBSET (Operations \X {"manual", "auto"})]
    BY <1>3, TypeParts DEF RevokeDirectAutoLaunchConsent, RevokeConsent, RestOK
  <2>3. RestOK'
    BY <1>3, <2>2, TypeParts DEF RevokeDirectAutoLaunchConsent, ConsentOnly, RestOK
  <2> QED  BY <1>3, <2>1, <2>3, Same, TypeParts DEF RevokeDirectAutoLaunchConsent, ConsentOnly
<1>4. ASSUME NEW c \in Campaigns, Moderated(c) PROVE CoreTypeOK'
  <2>1. AccountsOK'
    <3>1. \A verdict \in {"ACCEPTED", "REJECTED"} :
            [account EXCEPT ![c].moderation = verdict] \in [Campaigns -> Account]
      BY TypeParts, AccountFields DEF AccountsOK, Moderations
    <3> QED  BY <1>4, <3>1 DEF Moderated, AccountsOK
  <2> QED  BY <1>4, <2>1, Same, TypeParts DEF Moderated, history
<1>5. ASSUME NEW c \in Campaigns, ResumeArrives(c) PROVE CoreTypeOK'
  <2>1. "ON" \in {"OFF", "ON"} /\ FALSE \in BOOLEAN
    OBVIOUS
  <2>2. account' = [account EXCEPT ![c].state = "ON", ![c].late = FALSE]
    BY <1>5 DEF ResumeArrives
  <2>3. AccountsOK'
    BY <2>1, <2>2, TypeParts, AccountFields, Zenon DEF AccountsOK
  <2> QED  BY <1>5, <2>3, Same, TypeParts DEF ResumeArrives, history
<1>6. ASSUME NEW c \in Campaigns, ChangedOutside(c) PROVE CoreTypeOK'
  <2>1. \A node \in Nodes : Put(c, node, Foreign, FALSE) \in [Campaigns -> Account]
    BY TypeParts, CallsOK DEF Contents
  <2>2. [account EXCEPT ![c].state = IF account[c].state = "ON" THEN "OFF" ELSE "ON"] \in [Campaigns -> Account]
    BY TypeParts, AccountFields DEF AccountsOK
  <2>3. AccountsOK'
    BY <1>6, <2>1, <2>2 DEF ChangedOutside, AccountsOK
  <2>4. RestOK'
    BY <1>6, FaultOK, TypeParts DEF ChangedOutside, RestOK, history
  <2> QED  BY <1>6, <2>3, <2>4, Same, TypeParts DEF ChangedOutside, history
<1>7. ASSUME RevokeDirectConnection \/ ReplaceDirectConnection PROVE CoreTypeOK'
  <2>1. conn' \in [id : Nat, status : {"active", "error", "revoked"}]
    BY <1>7, TypeParts DEF RevokeDirectConnection, ReplaceDirectConnection, RestOK
  <2>2. RestOK'
    BY <1>7, <2>1, TypeParts DEF RevokeDirectConnection, ReplaceDirectConnection, ConnectionOnly, RestOK, history
  <2>3. \A d \in Campaigns : [row[d] EXCEPT !.consent = 0] \in Row
    BY <1>1, TypeParts, RowRecord DEF RowsOK
  <2>4. RowsOK'
    BY <1>7, <2>3 DEF RevokeDirectConnection, ReplaceDirectConnection, NoConsents, RowsOK
  <2> QED  BY <1>7, <2>2, <2>4, Same, TypeParts DEF RevokeDirectConnection, ReplaceDirectConnection, ConnectionOnly, history
<1>8. ASSUME Tick PROVE CoreTypeOK'
  <2>1. \A n \in Nat, m \in Nat : n <= m => Less(n) \in 0..m
    BY LessIs
  <2>2. OpsOK'
    <3>1. \A c \in Campaigns : op[c] \in OperationRow /\ Less(op[c].lease) \in 0..Lease
      <4>1. \A c \in Campaigns : op[c] \in OperationRow /\ op[c].lease \in 0..Lease
        BY TypeParts DEF OpsOK, OperationRow
      <4>2. Lease \in Nat
        BY LeaseAssumption
      <4> QED  BY <2>1, <4>1, <4>2
    <3>2. \A c \in Campaigns : [op[c] EXCEPT !.lease = Less(op[c].lease)] \in OperationRow
      BY <3>1 DEF OperationRow
    <3>3. op' \in [Campaigns -> OperationRow]
      BY <1>8, <3>2 DEF Tick
    <3>4. \A c \in Campaigns : op'[c].stage = op[c].stage /\ op'[c].holder = op[c].holder
      BY <1>8, <3>1 DEF Tick, OperationRow
    <3> QED  BY <3>3, <3>4, TypeParts DEF OpsOK, Unfinished
  <2>3. LaunchesOK'
    <3>1. \A c \in Campaigns : launch[c] \in LaunchRow /\ Less(launch[c].retry) \in 0..LaunchLease
      <4>1. \A c \in Campaigns : launch[c] \in LaunchRow /\ launch[c].retry \in 0..LaunchLease
        BY TypeParts DEF LaunchesOK, LaunchRow
      <4>2. LaunchLease \in Nat
        BY LeaseAssumption
      <4> QED  BY <2>1, <4>1, <4>2
    <3>2. \A c \in Campaigns : [launch[c] EXCEPT !.retry = Less(launch[c].retry)] \in LaunchRow
      BY <3>1 DEF LaunchRow
    <3>3. launch' \in [Campaigns -> LaunchRow]
      BY <1>8, <3>2 DEF Tick
    <3> QED  BY <3>3 DEF LaunchesOK
  <2>4. SyncsOK'
    <3>1. \A c \in Campaigns : syncing[c] \in SyncRow /\ Less(syncing[c].lease) \in 0..LaunchLease
      <4>1. \A c \in Campaigns : syncing[c] \in SyncRow /\ syncing[c].lease \in 0..LaunchLease
        BY TypeParts DEF SyncsOK, SyncRow
      <4>2. LaunchLease \in Nat
        BY LeaseAssumption
      <4> QED  BY <2>1, <4>1, <4>2
    <3>2. \A c \in Campaigns : [syncing[c] EXCEPT !.lease = Less(syncing[c].lease)] \in SyncRow
      BY <3>1 DEF SyncRow
    <3>3. syncing' \in [Campaigns -> SyncRow]
      BY <1>8, <3>2 DEF Tick
    <3> QED  BY <3>3 DEF SyncsOK
  <2>5. WorkOK'
    <3>1. \A n \in Nat : Less(n) \in Nat
      BY LessIs
    <3> QED  BY <1>8, <3>1, TypeParts DEF Tick, WorkOK, Job
  <2>6. RestOK'
    BY <1>8, FaultOK, TypeParts DEF Tick, NoFault, RestOK, history
  <2> QED  BY <1>8, <2>2, <2>3, <2>4, <2>5, <2>6, Same, TypeParts DEF Tick
<1> QED  BY <1>2, <1>3, <1>4, <1>5, <1>6, <1>7, <1>8

LEMMA NextOK == CoreTypeOK /\ [Next]_core => CoreTypeOK'
<1> SUFFICES ASSUME CoreTypeOK, [Next]_core PROVE CoreTypeOK'
  OBVIOUS
<1>1. mix.on \in SUBSET Campaigns
  BY MixOK, TypeParts DEF RestOK
<1>2. CASE UNCHANGED core
  BY <1>2, Same, TypeParts DEF core
<1>3. CASE Next
  BY <1>1, <1>3, GraphStepOK, LaunchStepOK, SyncStepOK, FailingOK, StartingOK, OthersOK DEF Next, Work
<1> QED  BY <1>2, <1>3

\* Values always have their types.
THEOREM TypeCorrect == Spec => []CoreTypeOK
BY CoreInitOK, NextOK, PTL DEF Spec
----------------------------------------------------------------------------
(* What the transactions leave in the rows. *)

SameRow(c) == row'[c] = row[c]
LEMMA StoredRow ==
  ASSUME RowsOK, NEW c \in Campaigns, NEW m, NEW s, StoreModeration(c, m, s)
  PROVE  /\ \A d \in Campaigns \ {c} : SameRow(d)
         /\ row'[c].connection = row[c].connection /\ row'[c].revision = row[c].revision
         /\ row'[c].state = s /\ row'[c].status = directLocalStatusForModeration(m, row[c].status)
         /\ row'[c].consent = IF m = "ACCEPTED" THEN row[c].consent ELSE 0
<1> DEFINE status == directLocalStatusForModeration(m, row[c].status)
           consent == IF m = "ACCEPTED" THEN row[c].consent ELSE 0
<1>1. row \in [Campaigns -> Row]
  BY DEF RowsOK
<1>2. row' = [row EXCEPT ![c].moderation = m, ![c].state = s, ![c].status = status, ![c].consent = consent]
  BY <1>1 DEF StoreModeration, Row
<1> HIDE DEF status, consent
<1>3. \A d \in Campaigns \ {c} : SameRow(d)
  BY <1>1, <1>2 DEF Row, SameRow
<1>4. row'[c].connection = row[c].connection /\ row'[c].revision = row[c].revision
  BY <1>1, <1>2 DEF Row
<1>5. row'[c].state = s /\ row'[c].status = status /\ row'[c].consent = consent
  BY <1>1, <1>2 DEF Row
<1> QED  BY <1>3, <1>4, <1>5 DEF status, consent

LEMMA SyncedRow ==
  ASSUME RowsOK, NEW c \in Campaigns, NEW seen, SyncStatus(c, seen)
  PROVE  /\ \A d \in Campaigns \ {c} : SameRow(d)
         /\ row'[c].connection = row[c].connection /\ row'[c].revision = row[c].revision
         /\ row'[c].consent = row[c].consent
         /\ row'[c].status = IF PromotesDelayed(c, seen) THEN "active" ELSE SyncedStatus(c, seen)
<1> DEFINE status == IF PromotesDelayed(c, seen) THEN "active" ELSE SyncedStatus(c, seen)
<1>1. row \in [Campaigns -> Row]
  BY DEF RowsOK
<1>2. row' = [row EXCEPT ![c].state = seen.state, ![c].status = status]
  BY DEF SyncStatus
<1> HIDE DEF status
<1>3. \A d \in Campaigns \ {c} : SameRow(d)
  BY <1>1, <1>2 DEF Row, SameRow
<1>4. row'[c].connection = row[c].connection /\ row'[c].revision = row[c].revision
      /\ row'[c].consent = row[c].consent
  BY <1>1, <1>2 DEF Row
<1>5. row'[c].status = status
  BY <1>1, <1>2 DEF Row
<1> QED  BY <1>3, <1>4, <1>5 DEF status

LEMMA CompletedRow ==
  ASSUME RowsOK, NEW w, NEW c \in Campaigns, CompleteLaunch(w, c)
  PROVE  /\ \A d \in Campaigns \ {c} : SameRow(d)
         /\ row'[c].connection = row[c].connection /\ row'[c].revision = row[c].revision
         /\ row'[c].consent = row[c].consent /\ row'[c].status = "active"
<1>1. row \in [Campaigns -> Row]
  BY DEF RowsOK
<1>2. row' = [row EXCEPT ![c].status = "active", ![c].state = "ON"]
  BY DEF CompleteLaunch
<1> QED  BY <1>1, <1>2 DEF Row, SameRow

LEMMA ClaimedRow ==
  ASSUME RowsOK, NEW w, NEW c \in Campaigns, NEW mode, ClaimLaunch(w, c, mode)
  PROVE  /\ \A d \in Campaigns \ {c} : SameRow(d)
         /\ row'[c].connection = row[c].connection /\ row'[c].revision = row[c].revision
         /\ row'[c].status = row[c].status
         /\ row'[c].consent = IF mode = "auto" THEN 0 ELSE row[c].consent
<1> DEFINE consent == IF mode = "auto" THEN 0 ELSE row[c].consent
<1>1. row \in [Campaigns -> Row]
  BY DEF RowsOK
<1>2. row' = [row EXCEPT ![c].consent = consent]
  BY DEF ClaimLaunch
<1> HIDE DEF consent
<1>3. /\ \A d \in Campaigns \ {c} : SameRow(d)
      /\ row'[c].connection = row[c].connection /\ row'[c].revision = row[c].revision
      /\ row'[c].status = row[c].status /\ row'[c].consent = consent
  BY <1>1, <1>2 DEF Row, SameRow
<1> QED  BY <1>3 DEF consent

LEMMA ConsentRow ==
  ASSUME RowsOK, NEW c \in Campaigns, NEW v, row' = [row EXCEPT ![c].consent = v]
  PROVE  /\ \A d \in Campaigns \ {c} : SameRow(d)
         /\ row'[c].connection = row[c].connection /\ row'[c].revision = row[c].revision
         /\ row'[c].status = row[c].status /\ row'[c].consent = v
BY DEF RowsOK, Row, SameRow

LEMMA AdvancedRow ==
  ASSUME RowsOK, NEW c \in Campaigns, NEW stage, Advanced(c, stage)
  PROVE  /\ \A d \in Campaigns \ {c} : SameRow(d)
         /\ row'[c].connection = row[c].connection /\ row'[c].revision = row[c].revision
         /\ row'[c].consent = row[c].consent /\ row'[c].status = StatusAfter(c, stage)
<1> DEFINE status == StatusAfter(c, stage)
<1>1. row \in [Campaigns -> Row]
  BY DEF RowsOK
<1>2. row' = [row EXCEPT ![c].status = status, ![c].created = TRUE]
  BY DEF Advanced
<1> HIDE DEF status
<1>3. /\ \A d \in Campaigns \ {c} : SameRow(d)
      /\ row'[c].connection = row[c].connection /\ row'[c].revision = row[c].revision
      /\ row'[c].consent = row[c].consent /\ row'[c].status = status
  BY <1>1, <1>2 DEF Row, SameRow
<1> QED  BY <1>3 DEF status

LEMMA RecordedRow ==
  ASSUME RowsOK, NEW c \in Campaigns, NEW m, RecordVerified(c, m)
  PROVE  /\ \A d \in Campaigns \ {c} : SameRow(d)
         /\ row'[c].connection = row[c].connection /\ row'[c].consent = row[c].consent
         /\ row'[c].revision = op[c].number
         /\ row'[c].status = directLocalStatusForModeration(m, row[c].status)
<1> DEFINE status == directLocalStatusForModeration(m, row[c].status)
           number == op[c].number
<1>1. row \in [Campaigns -> Row]
  BY DEF RowsOK
<1>2. row' = [row EXCEPT ![c].revision = number, ![c].moderation = m, ![c].recorded = m, ![c].status = status]
  BY <1>1 DEF RecordVerified, Row
<1> HIDE DEF status, number
<1>3. \A d \in Campaigns \ {c} : SameRow(d)
  BY <1>1, <1>2 DEF Row, SameRow
<1>4. row'[c].connection = row[c].connection /\ row'[c].consent = row[c].consent
  BY <1>1, <1>2 DEF Row
<1>5. row'[c].revision = number /\ row'[c].status = status
  BY <1>1, <1>2 DEF Row
<1> QED  BY <1>3, <1>4, <1>5 DEF status, number

LEMMA FailedRow ==
  ASSUME RowsOK, NEW w, NEW c \in Campaigns, FailOperation(w, c)
  PROVE  /\ \A d \in Campaigns \ {c} : SameRow(d)
         /\ row'[c].connection = row[c].connection /\ row'[c].consent = row[c].consent
         /\ op[c].kind = "submission" => row'[c].status = "draft" /\ row'[c].revision = row[c].revision
         /\ op[c].kind # "submission" =>
              /\ row'[c].revision = op[c].base
              /\ row'[c].status = directLocalStatusForModeration(row[c].recorded, row[c].status)
<1> DEFINE status == directLocalStatusForModeration(row[c].recorded, row[c].status)
           base == op[c].base  recorded == row[c].recorded
<1>1. row \in [Campaigns -> Row]
  BY DEF RowsOK
<1>2. CASE op[c].kind = "submission"
  BY <1>1, <1>2 DEF FailOperation, Row, SameRow
<1>3. CASE op[c].kind # "submission"
  <2>1. row' = [row EXCEPT ![c] = [row[c] EXCEPT !.revision = base, !.moderation = recorded, !.state = "OFF",
                                                 !.status = status]]
    BY <1>1, <1>3 DEF FailOperation, Baseline, Row
  <2> HIDE DEF status, base, recorded
  <2>2. /\ \A d \in Campaigns \ {c} : SameRow(d)
        /\ row'[c].connection = row[c].connection /\ row'[c].consent = row[c].consent
    BY <1>1, <2>1 DEF Row, SameRow
  <2>3. row'[c].revision = base /\ row'[c].status = status
    BY <1>1, <2>1 DEF Row
  <2> QED  BY <1>3, <2>2, <2>3 DEF status, base
<1> QED  BY <1>2, <1>3

LEMMA WithdrawnRow ==
  ASSUME RowsOK, NEW c \in Campaigns, row' = [row EXCEPT ![c] = WithdrawEvidence(@)]
  PROVE  /\ \A d \in Campaigns \ {c} : SameRow(d)
         /\ row'[c].connection = row[c].connection /\ row'[c].status = row[c].status
         /\ row'[c].consent = 0 /\ row'[c].revision = 0
BY DEF RowsOK, Row, SameRow, WithdrawEvidence

\* No transaction but the claim of a launch makes an idle launch one in flight.
LEMMA LaunchKept ==
  ASSUME LaunchesOK, NEW w \in Workers, NEW c \in Campaigns,
         \/ UNCHANGED launch \/ launch' = ForgetLaunch(w, launch) \/ launch' = Confirmed(c)
         \/ MarkReconciling(w, c) \/ FailLaunch(w, c) \/ AbortForAuthorization(w, c)
         \/ AttemptAllowed(w, c) /\ MarkAttempt(c)
  PROVE  \A d \in Campaigns : InFlight(d)' => InFlight(d)
<1>1. launch \in [Campaigns -> LaunchRow]
  BY DEF LaunchesOK
<1>2. CASE UNCHANGED launch \/ launch' = ForgetLaunch(w, launch)
  <2>1. \A d \in Campaigns : launch'[d].state = launch[d].state
    BY <1>1, <1>2 DEF ForgetLaunch, ForgetOperation, LaunchRow
  <2> QED  BY <2>1 DEF InFlight
<1>3. CASE launch' = Confirmed(c)
  BY <1>1, <1>3 DEF Confirmed, InFlight, LaunchRow
<1>4. CASE MarkReconciling(w, c)
  BY <1>1, <1>4 DEF MarkReconciling, LaunchFence, InFlight, LaunchRow
<1>5. CASE FailLaunch(w, c)
  BY <1>1, <1>5, ZenonT(60) DEF FailLaunch, InFlight, LaunchRow
<1>6. CASE AbortForAuthorization(w, c)
  <2>1. launch' = [launch EXCEPT ![c] = NoLaunch] /\ NoLaunch.state = "idle"
    BY <1>6 DEF AbortForAuthorization, NoLaunch
  <2> HIDE DEF NoLaunch
  <2> QED  BY <1>1, <2>1 DEF InFlight
<1>7. CASE AttemptAllowed(w, c) /\ MarkAttempt(c)
  BY <1>1, <1>7 DEF MarkAttempt, AttemptAllowed, LaunchFence, InFlight, LaunchRow
<1> QED  BY <1>2, <1>3, <1>4, <1>5, <1>6, <1>7
----------------------------------------------------------------------------
(* The credential of unfinished work. *)

\* What a step does to the claims and to the connection: work begins only under the connection of
\* the campaign while it is usable, and a connection goes only when nothing needs it.
Begins ==
  \A c \in Campaigns :
    /\ row'[c].connection = row[c].connection
    /\ Unfinished(c)' => Unfinished(c) \/ Usable(c)
    /\ InFlight(c)' => InFlight(c) \/ Usable(c)
KeepsConnection == conn' = conn \/ (conn.status # "revoked" /\ conn' = [conn EXCEPT !.status = "error"])

LEMMA CredentialStep == CoreTypeOK /\ CredentialKept /\ Begins /\ KeepsConnection => CredentialKept'
<1> SUFFICES ASSUME CoreTypeOK, CredentialKept, Begins, KeepsConnection, NEW c \in Campaigns,
                    InFlight(c)' \/ Unfinished(c)'
             PROVE  row'[c].connection = conn'.id /\ conn'.status # "revoked"
  BY DEF CredentialKept
<1>1. row[c].connection = conn.id /\ conn.status # "revoked"
  BY DEF CredentialKept, Begins, Usable
<1>2. conn'.id = conn.id /\ conn'.status # "revoked"
  BY <1>1, TypeParts DEF KeepsConnection, RestOK
<1> QED  BY <1>1, <1>2 DEF Begins

\* A goroutine that ends, and everything that only reads, begins nothing.
LEMMA StillBegins ==
  ASSUME CoreTypeOK, UNCHANGED row,
         UNCHANGED op \/ (\E w \in Workers : op' = ForgetOperation(w, op)),
         UNCHANGED launch \/ (\E w \in Workers : launch' = ForgetOperation(w, launch))
  PROVE  Begins
<1>1. \A c \in Campaigns : op'[c].stage = op[c].stage
  BY TypeParts DEF OpsOK, OperationRow, ForgetOperation
<1>2. \A c \in Campaigns : launch'[c].state = launch[c].state
  <2>1. launch \in [Campaigns -> LaunchRow]
    BY TypeParts DEF LaunchesOK
  <2>2. ASSUME NEW w \in Workers, NEW c \in Campaigns
        PROVE  ForgetOperation(w, launch)[c].state = launch[c].state
    BY <2>1 DEF ForgetOperation, LaunchRow
  <2> QED  BY <2>2
<1> QED  BY <1>1, <1>2 DEF Begins, Unfinished, InFlight

LEMMA GiveUpBegins == ASSUME CoreTypeOK, NEW w \in Workers, GiveUp(w) PROVE Begins /\ KeepsConnection
BY StillBegins DEF GiveUp, Forget, ForgetLaunch, KeepsConnection

LEMMA GraphBegins ==
  ASSUME CoreTypeOK, NEW w \in Workers, GraphStep(w)
  PROVE  Begins /\ KeepsConnection
<1> DEFINE c == work[w].on
<1>1. c \in Campaigns /\ row \in [Campaigns -> Row] /\ op \in [Campaigns -> OperationRow]
  BY TypeParts, WhereOK DEF RowsOK, OpsOK
<1>2. ASSUME NEW pc, GoOn(w, pc) \/ See(w, pc) PROVE Begins /\ KeepsConnection
  BY <1>2, StillBegins DEF GoOn, See, Untouched, KeepsConnection
<1>3. ASSUME NEW pc, NEW after, Carried(w, after, pc) PROVE Begins /\ KeepsConnection
  BY <1>3, StillBegins DEF Carried, OnlyAccount, Forget, ForgetLaunch, KeepsConnection
<1>4. ASSUME OnlyAccount PROVE Begins /\ KeepsConnection
  BY <1>4, StillBegins DEF OnlyAccount, KeepsConnection
<1>5. ASSUME NEW stage, AdvanceGraphStage(w, stage) PROVE Begins /\ KeepsConnection
  <2>1. CASE CanAdvance(w, c, stage)
    <3>1. Usable(c) /\ \A d \in Campaigns \ {c} : op'[d].stage = op[d].stage
      BY <1>1, <1>5, <2>1 DEF AdvanceGraphStage, CanAdvance, Advanced
    <3>2. \A d \in Campaigns : row'[d].connection = row[d].connection
      BY <1>1, <1>5, <2>1, TypeParts, AdvancedRow DEF AdvanceGraphStage, SameRow
    <3> QED  BY <1>5, <2>1, <3>1, <3>2 DEF AdvanceGraphStage, Begins, KeepsConnection, Unfinished, InFlight
  <2>2. CASE ~CanAdvance(w, c, stage)
    BY <1>5, <2>2, GiveUpBegins DEF AdvanceGraphStage
  <2> QED  BY <2>1, <2>2
<1>6. ASSUME NEW d \in Campaigns, FailOperation(w, d), UNCHANGED <<mix, launch, syncing, conn, account, failures, history>>
      PROVE  Begins /\ KeepsConnection
  <2>1. \A e \in Campaigns : row'[e].connection = row[e].connection
    BY <1>1, <1>6 DEF FailOperation, Baseline, Row
  <2>2. \A e \in Campaigns : Unfinished(e)' => Unfinished(e)
    BY <1>1, <1>6 DEF FailOperation, Unfinished, OperationRow
  <2> QED  BY <1>6, <2>1, <2>2 DEF Begins, KeepsConnection, InFlight
<1>7. CASE LoadMaterial(w) \/ RecordStage(w) \/ ObserveGraph(w) \/ RequestModeration(w) \/ Complete(w)
  BY <1>7, <1>2, <1>3, <1>4, <1>5, GiveUpBegins
     DEF LoadMaterial, RecordStage, ObserveGraph, RequestModeration, Complete
<1>8. CASE RecordGraph(w)
  <2>1. ASSUME RecordVerified(c, work[w].saw.moderation), CanRecord(w, c), UNCHANGED <<mix, launch, syncing, conn, account, failures, history>>
        PROVE  Begins /\ KeepsConnection
    <3>1. \A d \in Campaigns : row'[d].connection = row[d].connection
      BY <1>1, <2>1, ZenonT(60) DEF RecordVerified, Row
    <3>2. \A d \in Campaigns : Unfinished(d)' => Unfinished(d)
      BY <1>1, <2>1 DEF RecordVerified, CanRecord, Unfinished, OperationRow
    <3> QED  BY <2>1, <3>1, <3>2 DEF Begins, KeepsConnection, InFlight
  <2> QED  BY <1>8, <1>2, <2>1, GiveUpBegins DEF RecordGraph
<1>9. CASE SubmissionStep(w)
  BY <1>1, <1>9, <1>2, <1>3, <1>4, <1>6, GiveUpBegins
     DEF SubmissionStep, FindCampaign, CreateCampaign, RefuseCampaign, FailSubmissionIfAbsent, FindAdGroup,
         CreateAdGroup, ReadAd, CreateAd, ConfirmAd, ReadKeywords, CreateKeywords, ConfirmKeywords, FindAd,
         FindKeywords
<1>10. CASE EditStep(w)
  BY <1>1, <1>10, <1>2, <1>3, <1>4, <1>6, GiveUpBegins
     DEF EditStep, UpdateCampaign, RefuseUpdate, FailUpdateIfUnchanged, UpdateAdGroup, UpdateAd,
         ReplaceKeywords, ReadForEdit, WriteEdit, ConfirmEdit
<1> QED  BY <1>7, <1>8, <1>9, <1>10 DEF GraphStep

LEMMA LaunchBegins ==
  ASSUME CoreTypeOK, NEW w \in Workers, LaunchStep(w) \/ SyncStep(w)
  PROVE  Begins /\ KeepsConnection
<1> DEFINE c == work[w].on
           Rows == \A d \in Campaigns : row'[d].connection = row[d].connection
           Flights == \A d \in Campaigns : InFlight(d)' => InFlight(d) \/ Usable(d)
<1>1. c \in Campaigns /\ RowsOK /\ LaunchesOK
  BY TypeParts, WhereOK
<1>2. ASSUME NEW pc, GoOn(w, pc) \/ See(w, pc) PROVE Begins /\ KeepsConnection
  BY <1>2, StillBegins DEF GoOn, See, Untouched, KeepsConnection
<1>3. ASSUME UNCHANGED op \/ op' = ForgetOperation(w, op), UNCHANGED conn, Rows, Flights
      PROVE  Begins /\ KeepsConnection
  <2>1. \A d \in Campaigns : op'[d].stage = op[d].stage
    BY <1>3, TypeParts DEF OpsOK, OperationRow, ForgetOperation
  <2> QED  BY <1>3, <2>1 DEF Begins, KeepsConnection, Unfinished
<1>4. /\ UNCHANGED row => Rows
      /\ \A seen : SyncStatus(c, seen) => Rows
      /\ \A m, s : StoreModeration(c, m, s) => Rows
      /\ InvalidateConsent(c) => Rows
      /\ CompleteLaunch(w, c) => Rows
      /\ \A mode : ClaimLaunch(w, c, mode) => Rows
  BY <1>1, StoredRow, SyncedRow, ConsentRow, CompletedRow, ClaimedRow DEF SameRow, InvalidateConsent
<1>5. /\ UNCHANGED launch \/ launch' = ForgetLaunch(w, launch) \/ launch' = Confirmed(c) => Flights
      /\ MarkReconciling(w, c) \/ FailLaunch(w, c) \/ AbortForAuthorization(w, c) => Flights
      /\ AttemptAllowed(w, c) /\ MarkAttempt(c) => Flights
  BY <1>1, LaunchKept
<1>6. \A seen : SyncStatus(c, seen) => Flights
  BY <1>5 DEF SyncStatus
<1>7. \A mode : CanClaimLaunch(c, mode, work[w].rev) /\ ClaimLaunch(w, c, mode) => Flights
  BY <1>1 DEF ClaimLaunch, CanClaimLaunch, LaunchesOK, InFlight
<1> HIDE DEF Rows, Flights
<1>8. CASE CheckLaunch(w)
  BY <1>8, <1>2, <1>3, <1>4, <1>5, GiveUpBegins DEF CheckLaunch, Forget
<1>9. CASE SyncBeforeLaunch(w) \/ PersistModeration(w)
  BY <1>9, <1>3, <1>4, <1>5, <1>6, GiveUpBegins DEF SyncBeforeLaunch, PersistModeration, Quiet
<1>10. CASE ClaimCampaignLaunch(w)
  BY <1>10, <1>3, <1>4, <1>7, GiveUpBegins DEF ClaimCampaignLaunch, Quiet
<1>11. CASE VerifyLaunch(w) \/ LoadRecovery(w) \/ ReadRecovery(w)
  BY <1>11, <1>2, GiveUpBegins DEF VerifyLaunch, LoadRecovery, ReadRecovery
<1>12. CASE AttemptLaunch(w) \/ Resume(w)
  BY <1>12, <1>3, <1>4, <1>5, GiveUpBegins DEF AttemptLaunch, Resume, Quiet
<1>13. CASE ConfirmLaunch(w) \/ ReconcileLater(w)
  BY <1>13, <1>3, <1>4, <1>5, GiveUpBegins DEF ConfirmLaunch, ReconcileLater, CompleteLaunch, Quiet
<1>14. CASE SettleLaunch(w)
  BY <1>14, <1>3, <1>4, <1>6, GiveUpBegins DEF SettleLaunch, Quiet
<1>15. CASE RetryOrFail(w) \/ AbortLaunch(w)
  BY <1>15, <1>2, <1>3, <1>4, <1>5, GiveUpBegins DEF RetryOrFail, AbortLaunch, Quiet
<1>16. LeaveSync(w) => Begins /\ KeepsConnection
  BY <1>3, <1>4, <1>5 DEF LeaveSync
<1>17. CASE SyncStep(w)
  BY <1>17, <1>2, <1>3, <1>4, <1>5, <1>16, GiveUpBegins
     DEF SyncStep, SyncAfterOperation, LoadSync, SnapshotMismatch, ReadLifecycle, PersistLifecycle, FinishSync,
         Quiet, Untouched
<1> QED  BY <1>8, <1>9, <1>10, <1>11, <1>12, <1>13, <1>14, <1>15, <1>17 DEF LaunchStep

\* Failures, requests, consents and time begin nothing without a usable connection.
LEMMA OthersBegin ==
  ASSUME CoreTypeOK
  PROVE  /\ \A w \in Workers : Failing(w) => Begins /\ KeepsConnection
         /\ \A w \in Workers, c \in Campaigns : Starting(w, c) => Begins /\ KeepsConnection
         /\ \A c \in Campaigns : \/ GrantDirectAutoLaunchConsent(c) \/ RevokeDirectAutoLaunchConsent(c)
                                 \/ Moderated(c) \/ ResumeArrives(c) \/ ChangedOutside(c)
                                 => Begins /\ KeepsConnection
         /\ Tick => Begins /\ KeepsConnection
<1>1. row \in [Campaigns -> Row] /\ RowsOK /\ LaunchesOK /\ OpsOK /\ op \in [Campaigns -> OperationRow]
      /\ launch \in [Campaigns -> LaunchRow]
  BY TypeParts DEF RowsOK, LaunchesOK, OpsOK
<1>2. ASSUME NEW w \in Workers, Failing(w) PROVE Begins /\ KeepsConnection
  <2>1. CASE ReadFails(w) \/ Stop(w)
    BY <2>1, StillBegins DEF ReadFails, Stop, Forget, ForgetLaunch, KeepsConnection
  <2>2. CASE TokenRefused(w)
    <3>1. \A d \in Campaigns : row'[d].connection = row[d].connection
      BY <1>1, <2>2 DEF TokenRefused, MarkAuthorizationRequired, Row
    <3>2. (UNCHANGED op \/ op' = ForgetOperation(w, op)) /\ (UNCHANGED launch \/ launch' = ForgetOperation(w, launch))
      BY <2>2 DEF TokenRefused, Forget, ForgetLaunch
    <3>3. \A d \in Campaigns : op'[d].stage = op[d].stage
      BY <1>1, <3>2 DEF OperationRow, ForgetOperation
    <3>4. \A d \in Campaigns : launch'[d].state = launch[d].state
      <4>1. \A d \in Campaigns : ForgetOperation(w, launch)[d].state = launch[d].state
        BY <1>1 DEF LaunchRow, ForgetOperation
      <4> QED  BY <3>2, <4>1
    <3>5. KeepsConnection
      BY <2>2 DEF TokenRefused, MarkAuthorizationRequired, KeepsConnection
    <3> QED  BY <3>1, <3>3, <3>4, <3>5 DEF Begins, Unfinished, InFlight
  <2> QED  BY <1>2, <2>1, <2>2 DEF Failing
<1>3. ASSUME NEW w \in Workers, NEW c \in Campaigns, Starting(w, c) PROVE Begins /\ KeepsConnection
  <2>1. CASE LaunchCampaign(w, c) \/ AutoLaunchCampaign(w, c) \/ SyncCampaign(w, c)
    BY <2>1, StillBegins DEF LaunchCampaign, AutoLaunchCampaign, SyncCampaign, Quiet, KeepsConnection
  <2>2. CASE RecoverLaunch(w, c)
    <3>1. \A d \in Campaigns : launch'[d].state = launch[d].state
      BY <1>1, <2>2 DEF RecoverLaunch, ClaimLaunchRecovery, LaunchRow
    <3> QED  BY <2>2, <3>1 DEF RecoverLaunch, Quiet, Begins, KeepsConnection, Unfinished, InFlight
  <2>3. CASE ResubmitDirectCampaign(w, c) \/ RecoverGraph(w, c)
    <3>1. \A d \in Campaigns : op'[d].stage = op[d].stage
      BY <1>1, <2>3 DEF ResubmitDirectCampaign, Reclaim, RecoverGraph, ClaimGraphRecovery, TakeOver, OperationRow
    <3> QED  BY <2>3, <3>1 DEF ResubmitDirectCampaign, Reclaim, RecoverGraph, ClaimGraphRecovery, TakeOver, KeepsClaim,
                               Begins, KeepsConnection, Unfinished, InFlight
  <2>4. CASE SubmitDirectCampaign(w, c) \/ UpdateDirectCampaign(w, c)
    <3>1. Usable(c) /\ \A d \in Campaigns \ {c} : op'[d] = op[d]
      BY <1>1, <2>4 DEF SubmitDirectCampaign, UpdateDirectCampaign, ClaimSubmission, ClaimProviderEdit, NewOperation
    <3>2. CASE SubmitDirectCampaign(w, c)
      <4>1. \A d \in Campaigns : row'[d].connection = row[d].connection
        BY <1>1, <3>2 DEF SubmitDirectCampaign, ClaimSubmission, Row
      <4> QED  BY <3>1, <3>2, <4>1 DEF SubmitDirectCampaign, ClaimSubmission, KeepsClaim, Begins, KeepsConnection,
                                       Unfinished, InFlight
    <3>3. CASE UpdateDirectCampaign(w, c)
      <4>1. \A d \in Campaigns : row'[d].connection = row[d].connection
        BY <1>1, <3>3, WithdrawnRow DEF UpdateDirectCampaign, ClaimProviderEdit, SameRow
      <4> QED  BY <3>1, <3>3, <4>1 DEF UpdateDirectCampaign, ClaimProviderEdit, KeepsClaim, Begins, KeepsConnection,
                                       Unfinished, InFlight
    <3> QED  BY <2>4, <3>2, <3>3
  <2> QED  BY <1>3, <2>1, <2>2, <2>3, <2>4 DEF Starting
<1>4. ASSUME NEW c \in Campaigns, Moderated(c) \/ ResumeArrives(c) \/ ChangedOutside(c) PROVE Begins /\ KeepsConnection
  BY <1>4, StillBegins DEF Moderated, ResumeArrives, ChangedOutside, KeepsConnection
<1>5. ASSUME NEW c \in Campaigns, GrantDirectAutoLaunchConsent(c) \/ RevokeDirectAutoLaunchConsent(c)
      PROVE  Begins /\ KeepsConnection
  <2>1. \A d \in Campaigns : row'[d].connection = row[d].connection
    BY <1>1, <1>5, ConsentRow DEF GrantDirectAutoLaunchConsent, GrantConsent, RevokeDirectAutoLaunchConsent,
       RevokeConsent, SameRow
  <2> QED  BY <1>5, <2>1 DEF GrantDirectAutoLaunchConsent, RevokeDirectAutoLaunchConsent, ConsentOnly, Begins,
                             KeepsConnection, Unfinished, InFlight
<1>6. ASSUME Tick PROVE Begins /\ KeepsConnection
  <2>1. \A d \in Campaigns : op'[d].stage = op[d].stage /\ launch'[d].state = launch[d].state
    BY <1>1, <1>6 DEF Tick, OperationRow, LaunchRow
  <2> QED  BY <1>6, <2>1 DEF Tick, Begins, KeepsConnection, Unfinished, InFlight
<1> QED  BY <1>2, <1>3, <1>4, <1>5, <1>6

LEMMA CredentialNext == CoreTypeOK /\ CredentialKept /\ [Next]_core => CredentialKept'
<1> SUFFICES ASSUME CoreTypeOK, CredentialKept, [Next]_core PROVE CredentialKept'
  OBVIOUS
<1>1. mix.on \in SUBSET Campaigns
  BY MixOK, TypeParts DEF RestOK
<1>2. CASE UNCHANGED core
  BY <1>2 DEF core, CredentialKept, InFlight, Unfinished
<1>3. ASSUME RevokeDirectConnection \/ ReplaceDirectConnection PROVE CredentialKept'
  <2>1. \A c \in Campaigns : ~InFlight(c) /\ ~Unfinished(c)
    BY <1>3 DEF RevokeDirectConnection, ReplaceDirectConnection, InFlightWithCredential, Ours, CredentialKept, InFlight
  <2> QED  BY <1>3, <2>1 DEF RevokeDirectConnection, ReplaceDirectConnection, ConnectionOnly, CredentialKept, InFlight,
                             Unfinished
<1>4. CASE Next
  BY <1>1, <1>3, <1>4, GraphBegins, LaunchBegins, OthersBegin, CredentialStep DEF Next, Work
<1> QED  BY <1>2, <1>4

\* The credential of an operation, or of a launch whose outcome is unknown, is not given up.
THEOREM CredentialIsKept == Spec => []CredentialKept
<1>1. CoreInit => CredentialKept
  <2> SUFFICES ASSUME CoreInit, NEW c \in Campaigns PROVE ~InFlight(c) /\ ~Unfinished(c)
    BY DEF CredentialKept
  <2>1. launch[c].state = "idle"
    BY DEF CoreInit, NoLaunch
  <2>2. op[c].stage = "completed"
    BY DEF CoreInit, NoOperation
  <2> QED  BY <2>1, <2>2 DEF InFlight, Unfinished
<1> QED  BY <1>1, CredentialNext, TypeCorrect, PTL DEF Spec
----------------------------------------------------------------------------
(* The graph of a campaign. *)

Working(w) == work[w].job = "graph" /\ work[w].pc # "again"

\* A goroutine that works on an operation is its holder, knows its stage, and is cut off before the
\* lease ends.
ClaimHeld(w) ==
  Working(w) =>
    LET c == work[w].on IN
    /\ op[c].holder = w /\ Unfinished(c)
    /\ work[w].stage = op[c].stage
    /\ work[w].left <= Deadline /\ work[w].left < op[c].lease

\* An object that the workflow is about to create is not there.
NothingThere(w) ==
  LET c == work[w].on IN
  /\ Working(w) /\ op[c].kind = "submission"
  /\ work[w].pc = "write" /\ work[w].stage \in {"claimed", "campaign", "group"}
  => account[c].content[NodeOf[work[w].stage]] = Absent

\* A graph that is about to be recorded is the one of the operation.
ReadyToRecord(w) ==
  Undisturbed /\ Working(w) /\ work[w].pc = "record" /\ work[w].stage = "observed" =>
    VerifiedAs(work[w].on, Number(w))

\* What a submission has built by now is its own; behind it there is nothing.
Shape(c) ==
  op[c].kind = "submission" =>
    /\ op[c].stage = "claimed" =>
         /\ account[c].content["campaign"] \in {Absent, op[c].number, Foreign}
         /\ \A node \in {"group", "ad", "keywords"} : account[c].content[node] = Absent
    /\ op[c].stage = "campaign" =>
         /\ account[c].content["group"] \in {Absent, op[c].number, Foreign}
         /\ account[c].content["ad"] = Absent

DraftSound(c) ==
  row[c].status = "draft" =>
    /\ ~Unfinished(c) /\ row[c].revision = 0
    /\ account[c].content = [n \in Nodes |-> Absent]

\* There is a verified revision only when no operation changes the graph, and then the graph is
\* that revision.
EvidenceSound(c) ==
  /\ Unfinished(c) /\ op[c].stage \notin {"verified", "moderation"} => row[c].revision = 0
  /\ op[c].kind = "update" => op[c].base # 0
  /\ Undisturbed /\ row[c].revision # 0 => \A n \in Nodes : account[c].content[n] = row[c].revision

CampaignSound(c) == Shape(c) /\ DraftSound(c) /\ EvidenceSound(c) /\ account[c].twice = {}
WorkerSound(w) == ClaimHeld(w) /\ NothingThere(w) /\ ReadyToRecord(w)
GraphInv ==
  /\ CoreTypeOK
  /\ \A w \in Workers : WorkerSound(w)
  /\ \A c \in Campaigns : CampaignSound(c)
----------------------------------------------------------------------------
LEMMA FoundIs ==
  ASSUME NEW f, f \in [Nodes -> Contents]
  PROVE  LET found == {f[n] : n \in Nodes} IN
         /\ IsFiniteSet(found)
         /\ \A k : (Cardinality(found) = 1 /\ k \in found) <=> \A n \in Nodes : f[n] = k
<1> DEFINE found == {f[n] : n \in Nodes}
<1>1. IsFiniteSet(found)
  <2>1. found = ((({} \cup {f["campaign"]}) \cup {f["group"]}) \cup {f["ad"]}) \cup {f["keywords"]}
    BY DEF Nodes
  <2>2. IsFiniteSet({})
    BY FS_EmptySet
  <2>3. IsFiniteSet({} \cup {f["campaign"]})
    BY <2>2, FS_AddElement
  <2>4. IsFiniteSet(({} \cup {f["campaign"]}) \cup {f["group"]})
    BY <2>3, FS_AddElement
  <2>5. IsFiniteSet((({} \cup {f["campaign"]}) \cup {f["group"]}) \cup {f["ad"]})
    BY <2>4, FS_AddElement
  <2>6. IsFiniteSet(((({} \cup {f["campaign"]}) \cup {f["group"]}) \cup {f["ad"]}) \cup {f["keywords"]})
    BY <2>5, FS_AddElement
  <2> QED  BY <2>1, <2>6
<1>2. ASSUME NEW k, Cardinality(found) = 1, k \in found PROVE \A n \in Nodes : f[n] = k
  <2>1. PICK x : found = {x}
    BY <1>1, <1>2, FS_Singleton
  <2> QED  BY <1>2, <2>1
<1>3. ASSUME NEW k, \A n \in Nodes : f[n] = k PROVE Cardinality(found) = 1 /\ k \in found
  <2>1. found = {k}
    BY <1>3 DEF Nodes
  <2> QED  BY <2>1, FS_Singleton
<1> QED  BY <1>1, <1>2, <1>3

\* What the fingerprint of a graph says of its nodes.
LEMMA PrintIs ==
  ASSUME NEW f, f \in [Nodes -> Contents], NEW twice, NEW n, n # Mixed
  PROVE  (IF Cardinality({f[node] : node \in Nodes}) = 1 /\ ~(twice # {})
          THEN CHOOSE k \in {f[node] : node \in Nodes} : TRUE ELSE Mixed) = n
           <=> twice = {} /\ \A node \in Nodes : f[node] = n
<1> DEFINE found == {f[node] : node \in Nodes}
           print == IF Cardinality(found) = 1 /\ ~(twice # {}) THEN CHOOSE k \in found : TRUE ELSE Mixed
<1>1. IsFiniteSet(found)
  BY FoundIs
<1>2. \A k : (Cardinality(found) = 1 /\ k \in found) <=> \A node \in Nodes : f[node] = k
  BY FoundIs
<1>3. \E k : k \in found
  BY DEF Nodes
<1> HIDE DEF found
<1>4. ASSUME NEW k, Cardinality(found) = 1, k \in found PROVE (CHOOSE x \in found : TRUE) = k
  <2>1. \E x : found = {x}
    BY <1>1, <1>4, FS_Singleton
  <2>2. found = {k}
    BY <1>4, <2>1
  <2> QED  BY <2>2
<1>5. print = n => twice = {} /\ \A node \in Nodes : f[node] = n
  BY <1>2, <1>3, <1>4
<1>6. twice = {} /\ (\A node \in Nodes : f[node] = n) => print = n
  BY <1>2, <1>4
<1> QED  BY <1>5, <1>6 DEF found

\* The graph is verified as n when each of its nodes has the content n, in one copy.
LEMMA VerifiedIs ==
  ASSUME AccountsOK, NEW c \in Campaigns, NEW n, n # Mixed
  PROVE  VerifiedAs(c, n) <=> account[c].twice = {} /\ \A node \in Nodes : account[c].content[node] = n
<1> DEFINE f == account[c].content  twice == account[c].twice
<1>1. f \in [Nodes -> Contents]
  BY DEF AccountsOK, Account
<1>2. VerifiedAs(c, n) <=>
        (IF Cardinality({f[node] : node \in Nodes}) = 1 /\ ~(twice # {})
         THEN CHOOSE k \in {f[node] : node \in Nodes} : TRUE ELSE Mixed) = n
  BY DEF VerifiedAs, Fingerprint, GetCampaignGraph
<1> HIDE DEF f, twice
<1>3. VerifiedAs(c, n) <=> twice = {} /\ \A node \in Nodes : f[node] = n
  BY <1>1, <1>2, PrintIs
<1> QED  BY <1>3 DEF f, twice

LEMMA VerifiedNext ==
  ASSUME AccountsOK', NEW c \in Campaigns, NEW n, n # Mixed
  PROVE  Fingerprint(GetCampaignGraph(c))' = n
           <=> account'[c].twice = {} /\ \A node \in Nodes : account'[c].content[node] = n
<1> DEFINE f == account'[c].content  twice == account'[c].twice
<1>1. f \in [Nodes -> Contents]
  BY DEF AccountsOK, Account
<1>2. Fingerprint(GetCampaignGraph(c))' = n <=>
        (IF Cardinality({f[node] : node \in Nodes}) = 1 /\ ~(twice # {})
         THEN CHOOSE k \in {f[node] : node \in Nodes} : TRUE ELSE Mixed) = n
  BY DEF Fingerprint, GetCampaignGraph
<1> HIDE DEF f, twice
<1>3. Fingerprint(GetCampaignGraph(c))' = n <=> twice = {} /\ \A node \in Nodes : f[node] = n
  BY <1>1, <1>2, PrintIs
<1> QED  BY <1>3 DEF f, twice

LEMMA NumbersAreNotMixed ==
  /\ OpsOK => \A c \in Campaigns : op[c].number # Mixed /\ op[c].base # Mixed
  /\ RowsOK => \A c \in Campaigns : row[c].revision # Mixed
  /\ RowsOK' => \A c \in Campaigns : row'[c].revision # Mixed
  /\ OpsOK' => \A c \in Campaigns : op'[c].number # Mixed
<1>1. \A n \in 0..MaxOperations : n # Mixed
  BY LeaseAssumption DEF Mixed
<1>2. OpsOK => \A c \in Campaigns : op[c].number \in 0..MaxOperations /\ op[c].base \in 0..MaxOperations
  BY DEF OpsOK, OperationRow
<1>3. RowsOK => \A c \in Campaigns : row[c].revision \in 0..MaxOperations
  BY DEF RowsOK, Row
<1>4. RowsOK' => \A c \in Campaigns : row'[c].revision \in 0..MaxOperations
  BY DEF RowsOK, Row
<1>5. OpsOK' => \A c \in Campaigns : op'[c].number \in 0..MaxOperations
  BY DEF OpsOK, OperationRow
<1> QED  BY <1>1, <1>2, <1>3, <1>4, <1>5
----------------------------------------------------------------------------
(* Steps that leave the graph alone, and the step of a goroutine at its campaign. *)

OpKept(w, d) == op'[d] = op[d] \/ (op[d].holder = w /\ op'[d] = [op[d] EXCEPT !.holder = Nobody])
GraphKept(d) == account'[d].content = account[d].content /\ account'[d].twice = account[d].twice
RowKept(d) == row'[d].revision = row[d].revision /\ (row'[d].status = "draft" => row[d].status = "draft")
CampaignKept(w, d) == OpKept(w, d) /\ GraphKept(d) /\ RowKept(d)

LEMMA OpKeptIs ==
  ASSUME OpsOK, NEW w, NEW d \in Campaigns, OpKept(w, d)
  PROVE  /\ op'[d].number = op[d].number /\ op'[d].kind = op[d].kind /\ op'[d].stage = op[d].stage
         /\ op'[d].base = op[d].base /\ op'[d].lease = op[d].lease
         /\ op[d].holder # w => op'[d].holder = op[d].holder
BY DEF OpsOK, OperationRow, OpKept

LEMMA CampaignStays ==
  ASSUME OpsOK, NEW w, NEW d \in Campaigns, CampaignKept(w, d), UNCHANGED mix, CampaignSound(d)
  PROVE  CampaignSound(d)'
<1>1. op'[d].number = op[d].number /\ op'[d].kind = op[d].kind /\ op'[d].stage = op[d].stage /\ op'[d].base = op[d].base
  BY OpKeptIs DEF CampaignKept
<1>2. Unfinished(d)' <=> Unfinished(d)
  BY <1>1 DEF Unfinished
<1>3. Shape(d)'
  BY <1>1 DEF CampaignKept, GraphKept, CampaignSound, Shape
<1>4. DraftSound(d)'
  BY <1>2 DEF CampaignKept, GraphKept, RowKept, CampaignSound, DraftSound
<1>5. EvidenceSound(d)'
  BY <1>1, <1>2 DEF CampaignKept, GraphKept, RowKept, CampaignSound, EvidenceSound, Undisturbed
<1> QED  BY <1>3, <1>4, <1>5 DEF CampaignSound, CampaignKept, GraphKept

LEMMA WorkerStays ==
  ASSUME CoreTypeOK, AccountsOK', NEW w, NEW v \in Workers, v # w, WorkerSound(v), work'[v] = work[v],
         UNCHANGED mix, Working(v) => CampaignKept(w, work[v].on)
  PROVE  WorkerSound(v)'
<1> DEFINE d == work[v].on
<1>1. Working(v)' <=> Working(v)
  BY DEF Working
<1>2. CASE ~Working(v)
  BY <1>1, <1>2 DEF WorkerSound, ClaimHeld, NothingThere, ReadyToRecord
<1>3. CASE Working(v)
  <2>1. d \in Campaigns /\ OpsOK /\ AccountsOK /\ op[d].number # Mixed
    BY TypeParts, WhereOK, NumbersAreNotMixed
  <2>2. op[d].holder = v
    BY <1>3 DEF WorkerSound, ClaimHeld
  <2>3. op'[d] = op[d] /\ GraphKept(d)
    BY <1>3, <2>2 DEF CampaignKept, OpKept
  <2>4. ClaimHeld(v)'
    BY <1>1, <1>3, <2>3 DEF WorkerSound, ClaimHeld, Unfinished
  <2>5. NothingThere(v)'
    BY <1>1, <1>3, <2>3 DEF WorkerSound, NothingThere, GraphKept
  <2>6. ReadyToRecord(v)'
    <3>1. VerifiedAs(d, op[d].number) <=> (Fingerprint(GetCampaignGraph(d))' = op[d].number)
      BY <2>1, <2>3, VerifiedIs, VerifiedNext DEF GraphKept
    <3> QED  BY <1>1, <1>3, <2>3, <3>1 DEF WorkerSound, ReadyToRecord, Undisturbed, VerifiedAs, Number
  <2> QED  BY <2>4, <2>5, <2>6 DEF WorkerSound
<1> QED  BY <1>2, <1>3

\* A step of w, or of Nobody, that leaves every graph alone and after which w does not work on one.
QuietGraph(w) ==
  /\ UNCHANGED mix /\ \A v \in Workers \ {w} : work'[v] = work[v]
  /\ w \in Workers => ~Working(w)'
  /\ \A d \in Campaigns : CampaignKept(w, d)

LEMMA QuietStep ==
  ASSUME GraphInv, CoreTypeOK', NEW w, QuietGraph(w)
  PROVE  GraphInv'
<1>1. OpsOK /\ AccountsOK'
  BY TypeParts DEF GraphInv
<1>2. \A d \in Campaigns : CampaignSound(d)'
  BY <1>1, CampaignStays DEF GraphInv, QuietGraph
<1>3. \A v \in Workers \ {w} : WorkerSound(v)'
  <2> SUFFICES ASSUME NEW v \in Workers, v # w PROVE WorkerSound(v)'
    OBVIOUS
  <2>1. work[v].on \in Campaigns
    BY TypeParts, WhereOK DEF GraphInv
  <2> QED  BY <1>1, <2>1, WorkerStays DEF GraphInv, QuietGraph
<1>4. w \in Workers => WorkerSound(w)'
  BY DEF QuietGraph, WorkerSound, ClaimHeld, NothingThere, ReadyToRecord
<1> QED  BY <1>2, <1>3, <1>4 DEF GraphInv

\* A step of w at the campaign c, on which nobody else works.
LEMMA StepAt ==
  ASSUME GraphInv, CoreTypeOK', NEW w \in Workers, NEW c \in Campaigns, UNCHANGED mix,
         \A v \in Workers \ {w} : work'[v] = work[v] /\ ~(Working(v) /\ work[v].on = c),
         \A d \in Campaigns \ {c} : CampaignKept(w, d),
         WorkerSound(w)', CampaignSound(c)'
  PROVE  GraphInv'
<1>1. OpsOK /\ AccountsOK'
  BY TypeParts DEF GraphInv
<1>2. \A d \in Campaigns \ {c} : CampaignSound(d)'
  BY <1>1, CampaignStays DEF GraphInv
<1>3. \A v \in Workers \ {w} : WorkerSound(v)'
  <2> SUFFICES ASSUME NEW v \in Workers, v # w PROVE WorkerSound(v)'
    OBVIOUS
  <2>1. work[v].on \in Campaigns
    BY TypeParts, WhereOK DEF GraphInv
  <2>2. Working(v) => CampaignKept(w, work[v].on)
    BY <2>1
  <2> QED  BY <1>1, <2>2, WorkerStays DEF GraphInv
<1> QED  BY <1>2, <1>3 DEF GraphInv

LEMMA Alone ==
  ASSUME GraphInv, NEW w \in Workers, Working(w)
  PROVE  \A v \in Workers \ {w} : ~(Working(v) /\ work[v].on = work[w].on)
BY DEF GraphInv, WorkerSound, ClaimHeld
----------------------------------------------------------------------------
(* What leaves the graph alone. *)

LEMMA NeverDraft ==
  /\ \A m, s : directLocalStatusForModeration(m, s) # "draft"
  /\ \A c, seen : SyncedStatus(c, seen) # "draft" \/ SyncedStatus(c, seen) = row[c].status
BY DEF directLocalStatusForModeration, SyncedStatus, ConfirmedStatus, StatusFromLifecycle

LEMMA ForgetQuiet ==
  ASSUME CoreTypeOK, NEW w \in Workers, Forget(w) \/ (UNCHANGED op /\ End(w))
  PROVE  /\ \A d \in Campaigns : OpKept(w, d)
         /\ \A v \in Workers \ {w} : work'[v] = work[v]
         /\ ~Working(w)'
<1>1. CASE Forget(w)
  BY <1>1, TypeParts DEF Forget, ForgetOperation, End, Idle, OpKept, Working, WorkOK, OpsOK
<1>2. CASE UNCHANGED op /\ End(w)
  BY <1>2, TypeParts DEF End, Idle, OpKept, Working, WorkOK
<1> QED  BY <1>1, <1>2

LEMMA SameRowKept == \A d : SameRow(d) => RowKept(d)
BY DEF SameRow, RowKept

LEMMA GiveUpQuiet == ASSUME CoreTypeOK, NEW w \in Workers, GiveUp(w) PROVE QuietGraph(w)
BY ForgetQuiet DEF GiveUp, QuietGraph, CampaignKept, GraphKept, RowKept

\* A goroutine that does not work on a graph goes on.
LEMMA ElsewhereQuiet ==
  ASSUME CoreTypeOK, NEW w \in Workers, ~Working(w), work[w].job # "graph",
         \/ \E pc : Goto(w, pc)
         \/ \E pc, saw : work' = [work EXCEPT ![w].pc = pc, ![w].saw = saw]
         \/ \E pc, rev : work' = [work EXCEPT ![w].pc = pc, ![w].rev = rev]
  PROVE  ~Working(w)' /\ \A v \in Workers \ {w} : work'[v] = work[v]
BY TypeParts DEF Goto, Working, WorkOK, Job

LEMMA LaunchRowsQuiet ==
  ASSUME CoreTypeOK, NEW w \in Workers
  PROVE  LET c == work[w].on IN
         /\ UNCHANGED row => \A d \in Campaigns : RowKept(d)
         /\ \A seen : SyncStatus(c, seen) => \A d \in Campaigns : RowKept(d)
         /\ \A m, s : StoreModeration(c, m, s) => \A d \in Campaigns : RowKept(d)
         /\ InvalidateConsent(c) => \A d \in Campaigns : RowKept(d)
         /\ CompleteLaunch(w, c) => \A d \in Campaigns : RowKept(d)
         /\ \A mode : ClaimLaunch(w, c, mode) => \A d \in Campaigns : RowKept(d)
<1> DEFINE c == work[w].on
<1>1. c \in Campaigns /\ RowsOK
  BY TypeParts, WhereOK
<1>2. UNCHANGED row => \A d \in Campaigns : RowKept(d)
  BY DEF RowKept
<1>3. ASSUME NEW seen, SyncStatus(c, seen) PROVE \A d \in Campaigns : RowKept(d)
  BY <1>1, <1>3, SyncedRow, NeverDraft, SameRowKept DEF RowKept
<1>4. ASSUME NEW m, NEW s, StoreModeration(c, m, s) PROVE \A d \in Campaigns : RowKept(d)
  BY <1>1, <1>4, StoredRow, NeverDraft, SameRowKept DEF RowKept
<1>5. ASSUME InvalidateConsent(c) PROVE \A d \in Campaigns : RowKept(d)
  BY <1>1, <1>5, ConsentRow, SameRowKept DEF RowKept, InvalidateConsent
<1>6. ASSUME CompleteLaunch(w, c) PROVE \A d \in Campaigns : RowKept(d)
  BY <1>1, <1>6, CompletedRow, SameRowKept DEF RowKept
<1>7. ASSUME NEW mode, ClaimLaunch(w, c, mode) PROVE \A d \in Campaigns : RowKept(d)
  BY <1>1, <1>7, ClaimedRow, SameRowKept DEF RowKept
<1> QED  BY <1>2, <1>3, <1>4, <1>5, <1>6, <1>7

LEMMA LaunchQuiet ==
  ASSUME CoreTypeOK, NEW w \in Workers, LaunchStep(w) \/ SyncStep(w)
  PROVE  QuietGraph(w)
<1> DEFINE c == work[w].on
           Rows == \A d \in Campaigns : RowKept(d)
           Graphs == \A d \in Campaigns : GraphKept(d)
           Ops == \A d \in Campaigns : OpKept(w, d)
           Elsewhere == ~Working(w)' /\ \A v \in Workers \ {w} : work'[v] = work[v]
<1>1. c \in Campaigns /\ RowsOK /\ account \in [Campaigns -> Account]
  BY TypeParts, WhereOK DEF AccountsOK
<1>2. UNCHANGED mix /\ Rows /\ Graphs /\ Ops /\ Elsewhere => QuietGraph(w)
  BY DEF QuietGraph, CampaignKept
<1>3. /\ UNCHANGED row => Rows
      /\ \A seen : SyncStatus(c, seen) => Rows
      /\ \A m, s : StoreModeration(c, m, s) => Rows
      /\ InvalidateConsent(c) => Rows
      /\ CompleteLaunch(w, c) => Rows
      /\ \A mode : ClaimLaunch(w, c, mode) => Rows
  BY LaunchRowsQuiet
<1>4. UNCHANGED account => Graphs
  BY DEF GraphKept
<1>5. account' = ResumeCampaign(c) \/ account' = [account EXCEPT ![c].late = TRUE] => Graphs
  BY <1>1 DEF GraphKept, ResumeCampaign, Account
<1>6. UNCHANGED op => Ops
  BY DEF OpKept
<1>7. Forget(w) => Ops /\ Elsewhere
  BY ForgetQuiet
<1>8. UNCHANGED op /\ End(w) => Elsewhere
  BY ForgetQuiet
<1>9. work[w].job # "graph" =>
        /\ \A pc : Goto(w, pc) => Elsewhere
        /\ \A pc, saw : work' = [work EXCEPT ![w].pc = pc, ![w].saw = saw] => Elsewhere
        /\ \A pc, rev : work' = [work EXCEPT ![w].pc = pc, ![w].rev = rev] => Elsewhere
  BY ElsewhereQuiet DEF Working
<1>10. ASSUME work[w].job # "graph", NEW pc, GoOn(w, pc) \/ See(w, pc) PROVE QuietGraph(w)
  BY <1>10, <1>2, <1>3, <1>4, <1>6, <1>9 DEF GoOn, See, Untouched
<1>11. CASE LaunchStep(w)
  <2>1. work[w].job # "graph"
    BY <1>11 DEF LaunchStep, CheckLaunch, SyncBeforeLaunch, PersistModeration, ClaimCampaignLaunch, VerifyLaunch,
       AttemptLaunch, Resume, ConfirmLaunch, ReconcileLater, SettleLaunch, LoadRecovery, ReadRecovery, RetryOrFail,
       AbortLaunch, At, Launchers, Claimants
  <2> HIDE DEF Rows, Graphs, Ops, Elsewhere
  <2>2. CASE CheckLaunch(w)
    <3>1. Forget(w) /\ (IF work[w].job = "auto" THEN InvalidateConsent(c) ELSE UNCHANGED row)
            /\ UNCHANGED <<mix, conn, account, failures, history>> => QuietGraph(w)
      BY <1>2, <1>3, <1>4, <1>7
    <3> QED  BY <2>1, <2>2, <3>1, <1>10, GiveUpQuiet DEF CheckLaunch
  <2>3. CASE SyncBeforeLaunch(w)
    BY <2>3, <1>2, <1>3, <1>4, <1>6, <1>8, GiveUpQuiet DEF SyncBeforeLaunch
  <2>4. CASE PersistModeration(w)
    BY <2>1, <2>4, <1>2, <1>3, <1>4, <1>6, <1>9, GiveUpQuiet DEF PersistModeration, Quiet
  <2>5. CASE ClaimCampaignLaunch(w)
    BY <2>1, <2>5, <1>2, <1>3, <1>4, <1>6, <1>9, GiveUpQuiet DEF ClaimCampaignLaunch, Quiet
  <2>6. CASE VerifyLaunch(w) \/ LoadRecovery(w) \/ ReadRecovery(w)
    BY <2>1, <2>6, <1>10, GiveUpQuiet DEF VerifyLaunch, LoadRecovery, ReadRecovery
  <2>7. CASE AttemptLaunch(w)
    BY <2>1, <2>7, <1>2, <1>3, <1>4, <1>6, <1>9, GiveUpQuiet DEF AttemptLaunch, Quiet
  <2>8. CASE Resume(w)
    <3>1. Graphs /\ Elsewhere
      BY <2>1, <2>8, <1>4, <1>5, <1>9 DEF Resume
    <3> QED  BY <2>8, <3>1, <1>2, <1>3, <1>6 DEF Resume
  <2>9. CASE ConfirmLaunch(w)
    BY <2>9, <1>2, <1>3, <1>4, <1>6, <1>8, GiveUpQuiet DEF ConfirmLaunch, Quiet
  <2>10. CASE ReconcileLater(w)
    BY <2>10, <1>2, <1>3, <1>4, <1>6, <1>8 DEF ReconcileLater, Quiet
  <2>11. CASE SettleLaunch(w)
    BY <2>1, <2>11, <1>2, <1>3, <1>4, <1>6, <1>8, <1>9, GiveUpQuiet DEF SettleLaunch, Quiet
  <2>12. CASE RetryOrFail(w)
    BY <2>1, <2>12, <1>2, <1>3, <1>4, <1>6, <1>8, <1>10, GiveUpQuiet DEF RetryOrFail, Quiet
  <2>13. CASE AbortLaunch(w)
    BY <2>13, <1>2, <1>3, <1>4, <1>6, <1>8, GiveUpQuiet DEF AbortLaunch, Quiet
  <2> QED  BY <1>11, <2>2, <2>3, <2>4, <2>5, <2>6, <2>7, <2>8, <2>9, <2>10, <2>11, <2>12, <2>13 DEF LaunchStep
<1>12. CASE SyncStep(w)
  <2>1. LeaveSync(w) => QuietGraph(w)
    BY <1>2, <1>3, <1>4, <1>6, <1>8 DEF LeaveSync
  <2>2. CASE SyncAfterOperation(w)
    <3>1. ASSUME work' = [work EXCEPT ![w].job = "sync", ![w].pc = "load", ![w].rev = row[c].revision,
                                      ![w].left = LaunchLease - 1]
          PROVE  Elsewhere
      <4> DEFINE rev == row[c].revision  left == LaunchLease - 1
      <4>1. work' = [work EXCEPT ![w].job = "sync", ![w].pc = "load", ![w].rev = rev, ![w].left = left]
        BY <3>1
      <4> HIDE DEF rev, left
      <4> QED  BY <4>1, TypeParts DEF WorkOK, Job, Working
    <3> HIDE DEF Rows, Graphs, Ops, Elsewhere
    <3> QED  BY <2>2, <3>1, <1>2, <1>3, <1>4, <1>6, GiveUpQuiet DEF SyncAfterOperation, Quiet
  <2>3. SyncAfterOperation(w) \/ work[w].job # "graph"
    BY <1>12 DEF SyncStep, LoadSync, SnapshotMismatch, ReadLifecycle, PersistLifecycle, FinishSync, At
  <2> HIDE DEF Rows, Graphs, Ops, Elsewhere
  <2>4. CASE LoadSync(w) /\ work[w].job # "graph"
    BY <2>4, <2>1, <1>2, <1>3, <1>4, <1>6, <1>9 DEF LoadSync, Untouched
  <2>5. CASE SnapshotMismatch(w)
    BY <2>5, <1>2, <1>3, <1>4, <1>6, <1>8 DEF SnapshotMismatch, Quiet
  <2>6. CASE ReadLifecycle(w) /\ work[w].job # "graph"
    BY <2>6, <1>10 DEF ReadLifecycle
  <2>7. CASE PersistLifecycle(w) /\ work[w].job # "graph"
    BY <2>7, <2>1, <1>2, <1>3, <1>4, <1>6, <1>9 DEF PersistLifecycle, Quiet
  <2>8. CASE FinishSync(w)
    BY <2>8, <2>1, <1>2, <1>3, <1>4, <1>6, <1>8 DEF FinishSync, Quiet
  <2> QED  BY <1>12, <2>2, <2>3, <2>4, <2>5, <2>6, <2>7, <2>8 DEF SyncStep
<1> QED  BY <1>11, <1>12

LEMMA FailingQuiet ==
  ASSUME CoreTypeOK, NEW w \in Workers, Failing(w)
  PROVE  QuietGraph(w)
<1> DEFINE c == work[w].on
<1>1. c \in Campaigns /\ RowsOK
  BY TypeParts, WhereOK
<1>2. UNCHANGED account => \A d \in Campaigns : GraphKept(d)
  BY DEF GraphKept
<1>3. UNCHANGED row => \A d \in Campaigns : RowKept(d)
  BY DEF RowKept
<1>4. UNCHANGED op => \A d \in Campaigns : OpKept(w, d)
  BY DEF OpKept
<1>5. CASE ReadFails(w)
  <2>1. work[w].job # "graph" /\ ((\E pc : Goto(w, pc)) \/ End(w)) /\ UNCHANGED op
    BY <1>5 DEF ReadFails, At, Claimants
  <2>2. ~Working(w)' /\ \A v \in Workers \ {w} : work'[v] = work[v]
    BY <2>1, ElsewhereQuiet, ForgetQuiet DEF Working
  <2> QED  BY <1>5, <2>2, <1>2, <1>3, <1>4 DEF ReadFails, QuietGraph, CampaignKept
<1>6. CASE TokenRefused(w)
  <2>1. \A d \in Campaigns : row'[d].revision = row[d].revision /\ row'[d].status = row[d].status
    BY <1>1, <1>6 DEF TokenRefused, MarkAuthorizationRequired, RowsOK, Row
  <2>2. \/ Forget(w)
        \/ UNCHANGED op /\ End(w)
        \/ UNCHANGED op /\ work[w].job # "graph" /\ \E pc : Goto(w, pc)
    BY <1>6 DEF TokenRefused, At, Claimants
  <2>3. (\A d \in Campaigns : OpKept(w, d)) /\ ~Working(w)' /\ \A v \in Workers \ {w} : work'[v] = work[v]
    BY <2>2, <1>4, ElsewhereQuiet, ForgetQuiet DEF Working
  <2> QED  BY <1>6, <2>1, <2>3, <1>2 DEF TokenRefused, QuietGraph, CampaignKept, RowKept
<1>7. CASE Stop(w)
  BY <1>7, <1>2, <1>3, ForgetQuiet DEF Stop, QuietGraph, CampaignKept
<1> QED  BY <1>5, <1>6, <1>7 DEF Failing

LEMMA RequestsQuiet ==
  ASSUME CoreTypeOK, NEW w \in Workers, NEW c \in Campaigns,
         LaunchCampaign(w, c) \/ AutoLaunchCampaign(w, c) \/ RecoverLaunch(w, c) \/ SyncCampaign(w, c)
  PROVE  QuietGraph(w)
<1>1. UNCHANGED <<mix, row, op, account>>
  BY DEF LaunchCampaign, AutoLaunchCampaign, RecoverLaunch, SyncCampaign, Quiet
<1>2. \E job \in {"launch", "auto", "recovery", "sync"}, pc \in Steps : Start(w, c, job, pc)
  BY DEF LaunchCampaign, AutoLaunchCampaign, RecoverLaunch, SyncCampaign, Steps
<1>3. ~Working(w)' /\ \A v \in Workers \ {w} : work'[v] = work[v]
  <2>1. PICK job \in {"launch", "auto", "recovery", "sync"}, pc \in Steps : Start(w, c, job, pc)
    BY <1>2
  <2>2. work'[w].job = job
    BY <2>1, TypeParts DEF Start, WorkOK
  <2>3. \A v \in Workers \ {w} : work'[v] = work[v]
    BY <2>1, TypeParts DEF Start, WorkOK
  <2> QED  BY <2>2, <2>3 DEF Working
<1> QED  BY <1>1, <1>3 DEF QuietGraph, CampaignKept, GraphKept, RowKept, OpKept

\* What happens without a goroutine.
LEMMA OthersQuiet ==
  ASSUME CoreTypeOK
  PROVE  /\ \A c \in Campaigns : \/ GrantDirectAutoLaunchConsent(c) \/ RevokeDirectAutoLaunchConsent(c)
                                 \/ Moderated(c) \/ ResumeArrives(c)
                                 => QuietGraph(Nobody)
         /\ RevokeDirectConnection \/ ReplaceDirectConnection => QuietGraph(Nobody)
<1>1. RowsOK /\ AccountsOK
  BY TypeParts
<1>2. ASSUME UNCHANGED <<mix, op, work>>, \A d \in Campaigns : RowKept(d) /\ GraphKept(d)
      PROVE  QuietGraph(Nobody)
  BY <1>2, WorkerAssumption DEF QuietGraph, CampaignKept, OpKept
<1>3. (UNCHANGED row => \A d \in Campaigns : RowKept(d)) /\ (UNCHANGED account => \A d \in Campaigns : GraphKept(d))
  BY DEF RowKept, GraphKept
<1>4. ASSUME NEW c \in Campaigns, GrantDirectAutoLaunchConsent(c) \/ RevokeDirectAutoLaunchConsent(c)
      PROVE  QuietGraph(Nobody)
  <2>1. \A d \in Campaigns : RowKept(d)
    BY <1>1, <1>4, ConsentRow, SameRowKept DEF GrantDirectAutoLaunchConsent, GrantConsent,
       RevokeDirectAutoLaunchConsent, RevokeConsent, RowKept
  <2> QED  BY <1>2, <1>3, <1>4, <2>1 DEF GrantDirectAutoLaunchConsent, RevokeDirectAutoLaunchConsent, ConsentOnly
<1>5. ASSUME NEW c \in Campaigns, Moderated(c) \/ ResumeArrives(c) PROVE QuietGraph(Nobody)
  <2>1. \A d \in Campaigns : GraphKept(d)
    <3>1. CASE Moderated(c)
      BY <1>1, <3>1 DEF Moderated, GraphKept, AccountsOK, Account
    <3>2. CASE ResumeArrives(c)
      BY <1>1, <3>2 DEF ResumeArrives, GraphKept, AccountsOK, Account
    <3> QED  BY <1>5, <3>1, <3>2
  <2> QED  BY <1>2, <1>3, <1>5, <2>1 DEF Moderated, ResumeArrives
<1>6. ASSUME RevokeDirectConnection \/ ReplaceDirectConnection PROVE QuietGraph(Nobody)
  <2>1. \A d \in Campaigns : RowKept(d)
    BY <1>1, <1>6 DEF RevokeDirectConnection, ReplaceDirectConnection, NoConsents, RowsOK, Row, RowKept
  <2> QED  BY <1>2, <1>3, <1>6, <2>1 DEF RevokeDirectConnection, ReplaceDirectConnection, ConnectionOnly
<1> QED  BY <1>4, <1>5, <1>6

\* An edit in the web interface does not put anything where nothing was.
LEMMA OutsideKeeps ==
  ASSUME GraphInv, CoreTypeOK', NEW c \in Campaigns, ChangedOutside(c)
  PROVE  GraphInv'
<1>1. AccountsOK /\ AccountsOK' /\ OpsOK /\ WorkOK
  BY TypeParts DEF GraphInv
<1>2. UNCHANGED <<mix, row, op, work>> /\ ~Undisturbed /\ ~Undisturbed' /\ account[c].content["campaign"] # Absent
  BY DEF ChangedOutside, Fault, Undisturbed
<1>3. /\ \A d \in Campaigns : account'[d].twice = account[d].twice
      /\ \A d \in Campaigns \ {c} : account'[d].content = account[d].content
      /\ \A node \in Nodes : account'[c].content[node] = account[c].content[node]
                             \/ (account[c].content[node] # Absent /\ account'[c].content[node] = Foreign)
  <2>1. CASE \E node \in Nodes : account[c].content[node] # Absent /\ account' = Put(c, node, Foreign, FALSE)
    <3>1. PICK at \in Nodes : account[c].content[at] # Absent /\ account' = Put(c, at, Foreign, FALSE)
      BY <2>1
    <3> DEFINE put == [account EXCEPT ![c].content[at] = Foreign]  twice == account[c].twice
    <3>2. account' = [put EXCEPT ![c].twice = twice]
      BY <1>1, <3>1 DEF Put, AccountsOK, Account
    <3>3. put \in [Campaigns -> Account]
      BY <1>1, <3>1, AccountFields DEF AccountsOK, Contents
    <3>4. /\ \A d \in Campaigns : put[d].twice = account[d].twice
          /\ \A d \in Campaigns \ {c} : put[d].content = account[d].content
          /\ \A node \in Nodes : put[c].content[node] = IF node = at THEN Foreign ELSE account[c].content[node]
      BY <1>1, <3>1 DEF AccountsOK, Account
    <3>5. twice = account[c].twice
      OBVIOUS
    <3> HIDE DEF put, twice
    <3>6. /\ \A d \in Campaigns : account'[d].twice = account[d].twice
          /\ \A d \in Campaigns : account'[d].content = put[d].content
      BY <3>2, <3>3, <3>4, <3>5 DEF Account
    <3> QED  BY <3>1, <3>4, <3>6
  <2>2. CASE account' = [account EXCEPT ![c].state = IF @ = "ON" THEN "OFF" ELSE "ON"]
    BY <1>1, <2>2 DEF AccountsOK, Account
  <2> QED  BY <2>1, <2>2 DEF ChangedOutside
<1>4. ASSUME NEW d \in Campaigns, CampaignSound(d) PROVE CampaignSound(d)'
  <2>1. CASE d # c
    BY <1>2, <1>3, <1>4, <2>1 DEF CampaignSound, Shape, DraftSound, EvidenceSound, Unfinished
  <2>2. CASE d = c
    <3>1. Shape(c)'
      BY <1>2, <1>3, <1>4, <2>2 DEF CampaignSound, Shape, Nodes
    <3>2. row[c].status # "draft"
      BY <1>2, <1>4, <2>2 DEF CampaignSound, DraftSound, Nodes
    <3> QED  BY <1>2, <1>3, <1>4, <2>2, <3>1, <3>2 DEF CampaignSound, DraftSound, EvidenceSound, Unfinished
  <2> QED  BY <2>1, <2>2
<1>5. ASSUME NEW w \in Workers, WorkerSound(w) PROVE WorkerSound(w)'
  <2>1. ClaimHeld(w)'
    BY <1>2, <1>5 DEF WorkerSound, ClaimHeld, Working, Unfinished
  <2>2. NothingThere(w)'
    <3>1. work[w].stage \in {"claimed", "campaign", "group"} => NodeOf[work[w].stage] \in Nodes
      BY DEF NodeOf, Nodes
    <3>2. work[w].on \in Campaigns
      BY <1>1, WhereOK
    <3> QED  BY <1>2, <1>3, <1>5, <3>1, <3>2 DEF WorkerSound, NothingThere, Working
  <2> QED  BY <1>2, <2>1, <2>2 DEF WorkerSound, ReadyToRecord
<1> QED  BY <1>4, <1>5 DEF GraphInv

\* A goroutine is cut off before its lease ends.
LEMMA TickKeeps ==
  ASSUME GraphInv, CoreTypeOK', Tick
  PROVE  GraphInv'
<1>1. AccountsOK /\ OpsOK /\ WorkOK
  BY TypeParts DEF GraphInv
<1>2. UNCHANGED <<mix, row, account>>
  BY DEF Tick
<1>3. \A c \in Campaigns : /\ op'[c].number = op[c].number /\ op'[c].kind = op[c].kind
                           /\ op'[c].stage = op[c].stage /\ op'[c].base = op[c].base
                           /\ op'[c].holder = op[c].holder /\ op'[c].lease = Less(op[c].lease)
  BY <1>1 DEF Tick, OpsOK, OperationRow
<1>4. \A w \in Workers : /\ work'[w].job = work[w].job /\ work'[w].pc = work[w].pc /\ work'[w].on = work[w].on
                         /\ work'[w].stage = work[w].stage /\ work'[w].left = Less(work[w].left)
  BY <1>1 DEF Tick, WorkOK, Job
<1>5. ASSUME NEW c \in Campaigns, CampaignSound(c) PROVE CampaignSound(c)'
  BY <1>2, <1>3, <1>5 DEF CampaignSound, Shape, DraftSound, EvidenceSound, Unfinished, Undisturbed
<1>6. ASSUME NEW w \in Workers, WorkerSound(w) PROVE WorkerSound(w)'
  <2>1. work[w].on \in Campaigns
    BY <1>1, WhereOK
  <2>2. ClaimHeld(w)'
    <3>1. CASE Working(w)
      <4>1. op[work[w].on].lease \in Nat /\ work[w].left \in Nat /\ Deadline \in Nat
        BY <1>1, <2>1, LeaseAssumption DEF OpsOK, OperationRow, WorkOK, Job
      <4>2. work[w].left > 0 /\ work[w].left <= Deadline /\ work[w].left < op[work[w].on].lease
        BY <1>6, <3>1 DEF Tick, Working, WorkerSound, ClaimHeld
      <4>3. work'[w].left <= Deadline /\ work'[w].left < op'[work[w].on].lease
        <5>1. work'[w].left = work[w].left - 1 /\ op'[work[w].on].lease = op[work[w].on].lease - 1
          BY <1>3, <1>4, <2>1, <4>1, <4>2, LessIs
        <5> QED  BY <4>1, <4>2, <5>1
      <4> QED  BY <1>3, <1>4, <1>6, <2>1, <3>1, <4>3 DEF WorkerSound, ClaimHeld, Working, Unfinished
    <3>2. CASE ~Working(w)
      BY <1>4, <3>2 DEF ClaimHeld, Working
    <3> QED  BY <3>1, <3>2
  <2>3. NothingThere(w)'
    BY <1>2, <1>3, <1>4, <1>6, <2>1 DEF WorkerSound, NothingThere, Working
  <2>4. ReadyToRecord(w)'
    BY <1>2, <1>3, <1>4, <1>6, <2>1 DEF WorkerSound, ReadyToRecord, Working, Undisturbed, VerifiedAs, Number,
       GetCampaignGraph
  <2> QED  BY <2>2, <2>3, <2>4 DEF WorkerSound
<1> QED  BY <1>5, <1>6 DEF GraphInv
----------------------------------------------------------------------------
(* A goroutine at work on a graph. *)

\* What a call may have done to the graph of c: nothing is doubled, and a submission that still
\* looks for its campaign or its group put only that there.
Written(c) ==
  /\ \A d \in Campaigns \ {c} : GraphKept(d)
  /\ account'[c].twice = account[c].twice
  /\ op[c].kind = "submission" /\ op[c].stage \in {"claimed", "campaign"} =>
       /\ \A n \in Nodes \ {NodeOf[op[c].stage]} : account'[c].content[n] = account[c].content[n]
       /\ account'[c].content[NodeOf[op[c].stage]] \in {account[c].content[NodeOf[op[c].stage]], op[c].number}

LEMMA UntouchedWritten == UNCHANGED account => \A c \in Campaigns : Written(c) /\ GraphKept(c)
BY DEF Written, GraphKept

LEMMA PutIs ==
  ASSUME AccountsOK, NEW c \in Campaigns, NEW node \in Nodes, NEW k \in Contents, account' = Put(c, node, k, FALSE)
  PROVE  /\ \A d \in Campaigns \ {c} : account'[d] = account[d]
         /\ account'[c].twice = account[c].twice
         /\ \A n \in Nodes : account'[c].content[n] = IF n = node THEN k ELSE account[c].content[n]
<1> DEFINE put == [account EXCEPT ![c].content[node] = k]  twice == account[c].twice
<1>1. account \in [Campaigns -> Account] /\ put \in [Campaigns -> Account]
  BY AccountFields DEF AccountsOK
<1>2. account' = [put EXCEPT ![c].twice = twice]
  BY <1>1 DEF Put, Account
<1>3. \A d \in Campaigns \ {c} : put[d] = account[d]
  BY <1>1
<1>4. \A n \in Nodes : put[c].content[n] = IF n = node THEN k ELSE account[c].content[n]
  BY <1>1 DEF Account
<1>5. twice = account[c].twice
  OBVIOUS
<1> HIDE DEF put, twice
<1>6. put \in [Campaigns -> Account]
  BY <1>1
<1>7. \A d \in Campaigns \ {c} : account'[d] = put[d]
  BY <1>2, <1>6
<1>8. account'[c].twice = twice /\ account'[c].content = put[c].content
  <2>1. \A r \in Account : [r EXCEPT !.twice = twice].content = r.content /\ [r EXCEPT !.twice = twice].twice = twice
    BY DEF Account
  <2>2. account'[c] = [put[c] EXCEPT !.twice = twice]
    BY <1>2, <1>6, Zenon
  <2>3. put[c] \in Account
    BY <1>6
  <2> QED  BY <2>1, <2>2, <2>3, Zenon
<1> QED  BY <1>3, <1>4, <1>5, <1>7, <1>8

LEMMA PutWritten ==
  ASSUME AccountsOK, NEW c \in Campaigns, NEW node \in Nodes, NEW k \in Contents, account' = Put(c, node, k, FALSE),
         op[c].kind = "submission" /\ op[c].stage \in {"claimed", "campaign"} =>
           node = NodeOf[op[c].stage] /\ k = op[c].number
  PROVE  Written(c)
<1>1. /\ \A d \in Campaigns \ {c} : account'[d] = account[d]
      /\ account'[c].twice = account[c].twice
      /\ \A n \in Nodes : account'[c].content[n] = IF n = node THEN k ELSE account[c].content[n]
  BY PutIs
<1> QED  BY <1>1 DEF Written, GraphKept

LEMMA AdWritten ==
  ASSUME AccountsOK, NEW c \in Campaigns, NEW k, account' = UpdateResponsiveAds(c, k),
         op[c].kind # "submission"
  PROVE  Written(c)
BY DEF AccountsOK, Account, UpdateResponsiveAds, Written, GraphKept

LEMMA ModeratedWritten ==
  ASSUME AccountsOK, NEW c \in Campaigns, account' = ModerateAds(c)
  PROVE  Written(c) /\ GraphKept(c)
<1>1. \A d \in Campaigns : GraphKept(d)
  BY DEF AccountsOK, Account, ModerateAds, GraphKept
<1> QED  BY <1>1 DEF Written, GraphKept

\* A step of w on its campaign that keeps the operation and the row.
LEMMA WriteKeeps ==
  ASSUME GraphInv, CoreTypeOK', NEW w \in Workers, Working(w), NEW c \in Campaigns, c = work[w].on,
         UNCHANGED <<mix, row>>, \A d \in Campaigns : OpKept(w, d), \A v \in Workers \ {w} : work'[v] = work[v],
         Written(c), GraphKept(c) \/ op[c].stage \notin {"verified", "moderation"},
         ClaimHeld(w)', NothingThere(w)', ReadyToRecord(w)'
  PROVE  GraphInv'
<1>1. OpsOK
  BY TypeParts DEF GraphInv
<1>2. CampaignSound(c) /\ Unfinished(c)
  BY DEF GraphInv, WorkerSound, ClaimHeld
<1>3. /\ op'[c].number = op[c].number /\ op'[c].kind = op[c].kind /\ op'[c].stage = op[c].stage
      /\ op'[c].base = op[c].base
  BY <1>1, OpKeptIs
<1>5. \A v \in Workers \ {w} : work'[v] = work[v] /\ ~(Working(v) /\ work[v].on = c)
  BY Alone
<1>6. row'[c].status = row[c].status /\ row'[c].revision = row[c].revision
  OBVIOUS
<1>7. Unfinished(c)' /\ row[c].status # "draft"
  BY <1>2, <1>3 DEF Unfinished, CampaignSound, DraftSound
<1>8. Shape(c)'
  <2>1. NodeOf["claimed"] = "campaign" /\ NodeOf["campaign"] = "group"
    BY DEF NodeOf
  <2>2. CASE op[c].stage = "claimed"
    BY <1>2, <1>3, <2>1, <2>2 DEF Written, CampaignSound, Shape, Nodes
  <2>3. CASE op[c].stage = "campaign"
    BY <1>2, <1>3, <2>1, <2>3 DEF Written, CampaignSound, Shape, Nodes
  <2> QED  BY <1>3, <2>2, <2>3 DEF Shape
<1>9. EvidenceSound(c)'
  BY <1>2, <1>3, <1>6, <1>7 DEF CampaignSound, EvidenceSound, GraphKept, Undisturbed
<1>10. CampaignSound(c)'
  BY <1>2, <1>6, <1>7, <1>8, <1>9 DEF CampaignSound, DraftSound, Written
<1>11. \A d \in Campaigns \ {c} : CampaignKept(w, d)
  BY DEF CampaignKept, RowKept, Written
<1> QED  BY <1>5, <1>10, <1>11, StepAt DEF WorkerSound

\* The goroutine goes on to pc.
LEMMA GoesOn ==
  ASSUME GraphInv, CoreTypeOK', NEW w \in Workers, Working(w), UNCHANGED <<mix, row, op>>, Written(work[w].on),
         GraphKept(work[w].on) \/ op[work[w].on].stage \notin {"verified", "moderation"},
         NEW pc, pc # "again", (\E saw : work' = [work EXCEPT ![w].pc = pc, ![w].saw = saw]) \/ Goto(w, pc),
         pc = "write" => NothingThere(w)',
         pc = "record" => work[w].stage # "observed" \/ ReadyToRecord(w)'
  PROVE  GraphInv'
<1>1. WorkOK /\ ClaimHeld(w)
  BY TypeParts DEF GraphInv, WorkerSound
<1>2. /\ work'[w].job = work[w].job /\ work'[w].pc = pc /\ work'[w].on = work[w].on
      /\ work'[w].stage = work[w].stage /\ work'[w].left = work[w].left
      /\ \A v \in Workers \ {w} : work'[v] = work[v]
  BY <1>1 DEF WorkOK, Job, Goto
<1>3. ClaimHeld(w)'
  BY <1>1, <1>2 DEF ClaimHeld, Working, Unfinished
<1>4. NothingThere(w)' /\ ReadyToRecord(w)'
  BY <1>2 DEF NothingThere, ReadyToRecord
<1>5. work[w].on \in Campaigns /\ \A d \in Campaigns : OpKept(w, d)
  BY <1>1, WhereOK DEF OpKept
<1> QED  BY <1>2, <1>3, <1>4, <1>5, WriteKeeps

LEMMA GoOnKeeps ==
  ASSUME GraphInv, CoreTypeOK', NEW w \in Workers, Working(w), NEW pc, pc # "again",
         GoOn(w, pc) \/ See(w, pc),
         pc = "write" => NothingThere(w)',
         pc = "record" => work[w].stage # "observed" \/ ReadyToRecord(w)'
  PROVE  GraphInv'
<1>1. work[w].on \in Campaigns
  BY TypeParts, WhereOK DEF GraphInv
<1>2. UNCHANGED <<mix, row, op, account>>
  BY DEF GoOn, See, Untouched
<1>3. Written(work[w].on) /\ GraphKept(work[w].on)
  BY <1>1, <1>2, UntouchedWritten
<1>4. (\E saw : work' = [work EXCEPT ![w].pc = pc, ![w].saw = saw]) \/ Goto(w, pc)
  BY DEF GoOn, See
<1> QED  BY <1>2, <1>3, <1>4, GoesOn

LEMMA ForgetKeeps ==
  ASSUME GraphInv, CoreTypeOK', NEW w \in Workers, Working(w), UNCHANGED <<mix, row>>, Forget(w), Written(work[w].on),
         GraphKept(work[w].on) \/ op[work[w].on].stage \notin {"verified", "moderation"}
  PROVE  GraphInv'
<1>1. (\A d \in Campaigns : OpKept(w, d)) /\ (\A v \in Workers \ {w} : work'[v] = work[v]) /\ ~Working(w)'
  BY ForgetQuiet DEF GraphInv
<1>2. ClaimHeld(w)' /\ NothingThere(w)' /\ ReadyToRecord(w)'
  BY <1>1 DEF ClaimHeld, NothingThere, ReadyToRecord
<1>3. work[w].on \in Campaigns
  BY TypeParts, WhereOK DEF GraphInv
<1> QED  BY <1>1, <1>2, <1>3, WriteKeeps

LEMMA GiveUpKeeps ==
  ASSUME GraphInv, CoreTypeOK', NEW w \in Workers, GiveUp(w)
  PROVE  GraphInv'
BY GiveUpQuiet, QuietStep DEF GraphInv

\* A call is carried out, or its answer is lost.
LEMMA CarriedKeeps ==
  ASSUME GraphInv, CoreTypeOK', NEW w \in Workers, Working(w), NEW after, NEW pc, pc \notin {"again", "write"},
         pc = "record" => work[w].stage # "observed",
         Carried(w, after, pc) \/ (Goto(w, pc) /\ OnlyAccount), Written(work[w].on),
         GraphKept(work[w].on) \/ op[work[w].on].stage \notin {"verified", "moderation"}
  PROVE  GraphInv'
<1>1. CASE Goto(w, pc) /\ OnlyAccount
  BY <1>1, GoesOn DEF OnlyAccount
<1>2. CASE Carried(w, after, pc)
  BY <1>1, <1>2, ForgetKeeps DEF Carried
<1> QED  BY <1>1, <1>2

LEMMA AtWork ==
  ASSUME GraphInv, NEW w \in Workers, work[w].job = "graph", work[w].pc # "again"
  PROVE  LET c == work[w].on IN
         /\ c \in Campaigns /\ Working(w) /\ op[c].holder = w /\ Unfinished(c) /\ work[w].stage = op[c].stage
         /\ NothingThere(w) /\ ReadyToRecord(w) /\ CampaignSound(c)
         /\ op[c].number \in Contents /\ AccountsOK /\ RowsOK /\ OpsOK
<1>1. Working(w)
  BY DEF Working
<1>2. work[w].on \in Campaigns /\ AccountsOK /\ RowsOK /\ OpsOK
  BY TypeParts, WhereOK DEF GraphInv
<1> QED  BY <1>1, <1>2, CallsOK DEF GraphInv, WorkerSound, ClaimHeld

LEMMA BeforeWriting ==
  ASSUME GraphInv, NEW w \in Workers, NEW c, c = work[w].on, GoOn(w, "write"),
         op[c].kind = "submission" /\ work[w].stage \in {"claimed", "campaign", "group"} =>
           account[c].content[NodeOf[work[w].stage]] = Absent
  PROVE  NothingThere(w)'
<1>1. work \in [Workers -> Job] /\ UNCHANGED <<op, account>> /\ work' = [work EXCEPT ![w].pc = "write"]
  BY TypeParts DEF GraphInv, WorkOK, GoOn, Goto, Untouched
<1>2. work'[w].on = work[w].on /\ work'[w].stage = work[w].stage
  BY <1>1 DEF Job
<1> QED  BY <1>1, <1>2 DEF NothingThere

\* An operation fails when the graph is what it was before the operation.
LEMMA FailKeeps ==
  ASSUME GraphInv, CoreTypeOK', NEW w \in Workers, Working(w), NEW c \in Campaigns, c = work[w].on,
         FailOperation(w, c), End(w), UNCHANGED <<mix, account>>, op[c].stage = "claimed",
         op[c].kind = "submission" => account[c].content = [n \in Nodes |-> Absent],
         op[c].kind # "submission" => \A n \in Nodes : account[c].content[n] = op[c].base
  PROVE  GraphInv'
<1>1. OpsOK /\ RowsOK /\ WorkOK
  BY TypeParts DEF GraphInv
<1>2. CampaignSound(c) /\ Unfinished(c)
  BY DEF GraphInv, WorkerSound, ClaimHeld
<1>3. /\ op'[c].kind = op[c].kind /\ op'[c].base = op[c].base /\ op'[c].stage = "failed"
      /\ \A d \in Campaigns \ {c} : op'[d] = op[d]
  BY <1>1, ZenonT(60) DEF FailOperation, OpsOK, OperationRow
<1>4. /\ \A d \in Campaigns \ {c} : SameRow(d)
      /\ op[c].kind = "submission" => row'[c].status = "draft" /\ row'[c].revision = row[c].revision
      /\ op[c].kind # "submission" =>
           /\ row'[c].revision = op[c].base
           /\ row'[c].status = directLocalStatusForModeration(row[c].recorded, row[c].status)
  BY <1>1, FailedRow
<1>5. (\A v \in Workers \ {w} : work'[v] = work[v]) /\ ~Working(w)'
  BY <1>1 DEF WorkOK, End, Idle, Working
<1>6. WorkerSound(w)'
  BY <1>5 DEF WorkerSound, ClaimHeld, NothingThere, ReadyToRecord
<1>7. ~Unfinished(c)'
  BY <1>3 DEF Unfinished
<1>8. row[c].revision = 0
  BY <1>2 DEF CampaignSound, EvidenceSound
<1>9. Shape(c)'
  BY <1>3 DEF Shape
<1>10. DraftSound(c)'
  BY <1>4, <1>7, <1>8, NeverDraft DEF DraftSound
<1>11. EvidenceSound(c)'
  BY <1>2, <1>3, <1>4, <1>7, <1>8 DEF CampaignSound, EvidenceSound, Undisturbed
<1>12. CampaignSound(c)'
  BY <1>2, <1>9, <1>10, <1>11 DEF CampaignSound
<1>13. \A d \in Campaigns \ {c} : CampaignKept(w, d)
  BY <1>3, <1>4, SameRowKept DEF CampaignKept, OpKept, GraphKept
<1> QED  BY <1>5, <1>6, <1>12, <1>13, StepAt, Alone

LEMMA SubmissionKeeps ==
  ASSUME GraphInv, CoreTypeOK', NEW w \in Workers, SubmissionStep(w)
  PROVE  GraphInv'
<1> DEFINE c == work[w].on
<1>1. work[w].job = "graph" /\ work[w].pc # "again" /\ op[c].kind = "submission"
  BY DEF SubmissionStep, FindCampaign, CreateCampaign, RefuseCampaign, FailSubmissionIfAbsent, FindAdGroup,
     CreateAdGroup, ReadAd, CreateAd, ConfirmAd, FindAd, ReadKeywords, CreateKeywords, ConfirmKeywords, FindKeywords,
     Doing
<1>2. /\ c \in Campaigns /\ Working(w) /\ Unfinished(c) /\ work[w].stage = op[c].stage /\ NothingThere(w)
      /\ CampaignSound(c) /\ op[c].number \in Contents /\ AccountsOK /\ RowsOK
  BY <1>1, AtWork
<1>3. ASSUME NEW pc \in {"advance", "confirm", "read"}, GoOn(w, pc) PROVE GraphInv'
  BY <1>2, <1>3, GoOnKeeps
<1>4. ASSUME GoOn(w, "write"), work[w].stage \in {"claimed", "campaign", "group"} =>
                                 account[c].content[NodeOf[work[w].stage]] = Absent
      PROVE  GraphInv'
  BY <1>2, <1>4, GoOnKeeps, BeforeWriting
<1>5. ASSUME NEW after, NEW pc \in {"advance", "confirm"}, Carried(w, after, pc) \/ (Goto(w, pc) /\ OnlyAccount),
             op[c].stage \in {"claimed", "campaign", "group", "ad"}, Written(c)
      PROVE  GraphInv'
  BY <1>2, <1>5, CarriedKeeps
<1>6. ASSUME NEW node \in Nodes, account' \in {account, Create(c, node, Number(w))},
             op[c].stage \in {"claimed", "campaign", "group"}, node = NodeOf[op[c].stage], work[w].pc = "write"
      PROVE  Written(c)
  <2>1. account[c].content[node] = Absent
    BY <1>1, <1>2, <1>6 DEF NothingThere
  <2>2. account' = account \/ account' = Put(c, node, op[c].number, FALSE)
    BY <1>6, <2>1 DEF Create, Number
  <2> QED  BY <1>2, <1>6, <2>2, PutWritten, UntouchedWritten
<1>7. NodeOf["claimed"] = "campaign" /\ NodeOf["campaign"] = "group" /\ NodeOf["group"] = "ad"
      /\ {"campaign", "group", "ad", "keywords"} \subseteq Nodes
  BY DEF NodeOf, Nodes
<1>8. Number(w) = op[c].number
  BY DEF Number
<1>9. GiveUp(w) => GraphInv'
  BY GiveUpKeeps
<1> HIDE DEF c
<1>10. CASE FindCampaign(w)
  <2>1. op[c].stage = "claimed"
    BY <1>2, <1>10 DEF FindCampaign, Doing
  <2>2. Marked(c, "campaign", op[c].number) = 0 => account[c].content["campaign"] = Absent
    BY <1>1, <1>2, <2>1 DEF Marked, CampaignSound, Shape
  <2> QED  BY <1>2, <1>3, <1>4, <1>7, <1>8, <1>9, <1>10, <2>1, <2>2
         DEF FindCampaign, FindUnifiedCampaignByOperationMarker, c
<1>11. CASE CreateCampaign(w) \/ RefuseCampaign(w)
  <2>1. op[c].stage = "claimed" /\ work[w].pc = "write"
    BY <1>2, <1>11 DEF CreateCampaign, RefuseCampaign, Doing
  <2>2. \/ Carried(w, Create(c, "campaign", Number(w)), "advance")
        \/ Goto(w, "confirm") /\ OnlyAccount /\ account' \in {account, Create(c, "campaign", Number(w))}
    BY <1>11 DEF CreateCampaign, RefuseCampaign, CreateCampaignDraft, c
  <2>3. Written(c)
    BY <1>6, <1>7, <2>1, <2>2 DEF Carried
  <2> QED  BY <1>5, <2>1, <2>2, <2>3
<1>12. CASE FailSubmissionIfAbsent(w)
  <2>1. op[c].stage = "claimed"
    BY <1>2, <1>12 DEF FailSubmissionIfAbsent, Doing
  <2>2. CASE Marked(c, "campaign", op[c].number) = 0
    <3>1. account[c].content = [n \in Nodes |-> Absent]
      <4>1. \A n \in Nodes : account[c].content[n] = Absent
        BY <1>1, <1>2, <2>1, <2>2 DEF Marked, CampaignSound, Shape, Nodes, c
      <4>2. account[c].content \in [Nodes -> Contents]
        BY <1>2 DEF AccountsOK, Account
      <4> QED  BY <4>1, <4>2
    <3>2. FailOperation(w, c) /\ End(w) /\ UNCHANGED <<mix, account>>
      BY <1>8, <1>12, <2>2 DEF FailSubmissionIfAbsent, FindUnifiedCampaignByOperationMarker, c
    <3> QED  BY <1>1, <1>2, <2>1, <3>1, <3>2, FailKeeps DEF c
  <2> QED  BY <1>8, <1>9, <1>12, <2>2 DEF FailSubmissionIfAbsent, FindUnifiedCampaignByOperationMarker, c
<1>13. CASE FindAdGroup(w)
  <2>1. op[c].stage = "campaign"
    BY <1>2, <1>13 DEF FindAdGroup, Doing
  <2>2. Marked(c, "group", op[c].number) = 0 => account[c].content["group"] = Absent
    BY <1>1, <1>2, <2>1 DEF Marked, CampaignSound, Shape, c
  <2> QED  BY <1>2, <1>3, <1>4, <1>7, <1>8, <1>9, <1>13, <2>1, <2>2
         DEF FindAdGroup, FindUnifiedAdGroupByTrackingMarker, c
<1>14. CASE CreateAdGroup(w)
  <2>1. op[c].stage = "campaign" /\ work[w].pc = "write"
    BY <1>2, <1>14 DEF CreateAdGroup, Doing
  <2>2. Carried(w, Create(c, "group", Number(w)), "advance")
    BY <1>14 DEF CreateAdGroup, CreateUnifiedAdGroup, c
  <2>3. Written(c)
    BY <1>6, <1>7, <2>1, <2>2 DEF Carried
  <2> QED  BY <1>5, <2>1, <2>2, <2>3
<1>15. CASE ReadAd(w) \/ ConfirmAd(w)
  BY <1>2, <1>3, <1>4, <1>7, <1>9, <1>15 DEF ReadAd, ConfirmAd, FindAd, ListResponsiveAds, Doing, c
<1>16. CASE CreateAd(w)
  <2>1. op[c].stage = "group" /\ work[w].pc = "write"
    BY <1>2, <1>16 DEF CreateAd, Doing
  <2>2. \/ Carried(w, Create(c, "ad", Number(w)), "advance")
        \/ Goto(w, "confirm") /\ OnlyAccount /\ account' \in {account, Create(c, "ad", Number(w))}
    BY <1>16 DEF CreateAd, CreateResponsiveAd, c
  <2>3. Written(c)
    BY <1>6, <1>7, <2>1, <2>2 DEF Carried
  <2> QED  BY <1>5, <2>1, <2>2, <2>3
<1>17. CASE ReadKeywords(w) \/ ConfirmKeywords(w)
  BY <1>3, <1>4, <1>9, <1>17 DEF ReadKeywords, ConfirmKeywords, FindKeywords, Doing
<1>18. CASE CreateKeywords(w)
  <2>1. op[c].stage = "ad"
    BY <1>2, <1>18 DEF CreateKeywords, Doing
  <2>2. \/ Carried(w, Put(c, "keywords", op[c].number, FALSE), "confirm")
        \/ Goto(w, "confirm") /\ OnlyAccount /\ account' \in AddKeywords(c, op[c].number) \cup {account}
    BY <1>8, <1>18 DEF CreateKeywords, c
  <2>3. account' = account \/ \E k \in Contents : account' = Put(c, "keywords", k, FALSE)
    BY <1>2, <2>2 DEF Carried, AddKeywords, Contents
  <2>4. Written(c)
    BY <1>2, <1>7, <2>1, <2>3, PutWritten, UntouchedWritten
  <2> QED  BY <1>5, <2>1, <2>2, <2>4
<1> QED  BY <1>10, <1>11, <1>12, <1>13, <1>14, <1>15, <1>16, <1>17, <1>18 DEF SubmissionStep

LEMMA EditKeeps ==
  ASSUME GraphInv, CoreTypeOK', NEW w \in Workers, EditStep(w)
  PROVE  GraphInv'
<1> DEFINE c == work[w].on
           Writing == \/ account' = account
                      \/ \E node \in Nodes, k \in Contents : account' = Put(c, node, k, FALSE)
                      \/ \E k : account' = UpdateResponsiveAds(c, k)
<1>1. work[w].job = "graph" /\ work[w].pc # "again" /\ op[c].kind = "update"
      /\ work[w].stage \in {"claimed", "campaign", "group", "ad"}
  BY DEF EditStep, UpdateCampaign, RefuseUpdate, FailUpdateIfUnchanged, UpdateAdGroup, UpdateAd, ReplaceKeywords,
     ReadForEdit, WriteEdit, ConfirmEdit, Doing
<1>2. /\ c \in Campaigns /\ Working(w) /\ work[w].stage = op[c].stage /\ CampaignSound(c)
      /\ op[c].number \in Contents /\ AccountsOK /\ OpsOK
  BY <1>1, AtWork
<1>3. ASSUME NEW pc \in {"advance", "write"}, GoOn(w, pc) PROVE GraphInv'
  BY <1>1, <1>2, <1>3, GoOnKeeps, BeforeWriting
<1>4. ASSUME NEW after, NEW pc \in {"confirm", "record"}, Carried(w, after, pc) \/ (Goto(w, pc) /\ OnlyAccount), Writing
      PROVE  GraphInv'
  <2>1. Written(c)
    BY <1>1, <1>2, <1>4, PutWritten, AdWritten, UntouchedWritten
  <2> QED  BY <1>1, <1>2, <1>4, <2>1, CarriedKeeps
<1>5. GiveUp(w) => GraphInv'
  BY GiveUpKeeps
<1>6. Number(w) = op[c].number /\ Mixed \in Contents /\ {"campaign", "group", "keywords"} \subseteq Nodes
  BY DEF Number, Contents, Nodes
<1>7. /\ UpdateUnifiedCampaigns(c, Number(w)) = Put(c, "campaign", op[c].number, FALSE)
      /\ UpdateUnifiedAdGroups(c, Number(w)) = Put(c, "group", op[c].number, FALSE)
      /\ \A after \in UpdateKeywords(c, Number(w)) : after = Put(c, "keywords", op[c].number, FALSE)
                                                      \/ after = Put(c, "keywords", Mixed, FALSE)
  BY <1>6 DEF UpdateUnifiedCampaigns, UpdateUnifiedAdGroups, UpdateKeywords
<1>8. ASSUME NEW stage, ReadForEdit(w, stage) \/ ConfirmEdit(w, stage) PROVE GraphInv'
  BY <1>3, <1>5, <1>8 DEF ReadForEdit, ConfirmEdit
<1>9. ASSUME NEW stage, NEW written, NEW partly, WriteEdit(w, stage, written, partly),
             \A after \in partly \cup {written} :
                \/ \E node \in Nodes, k \in Contents : after = Put(c, node, k, FALSE)
                \/ \E k : after = UpdateResponsiveAds(c, k)
      PROVE  GraphInv'
  <2>1. account' \in partly \cup {written, account}
    BY <1>9 DEF WriteEdit, Carried
  <2>2. Writing
    BY <1>9, <2>1
  <2>3. Carried(w, written, "confirm") \/ (Goto(w, "confirm") /\ OnlyAccount)
    BY <1>9 DEF WriteEdit
  <2> HIDE DEF Writing
  <2> QED  BY <1>4, <2>2, <2>3
<1> HIDE DEF Writing
<1>10. CASE UpdateCampaign(w)
  <2>1. \A after \in {UpdateUnifiedCampaigns(c, Number(w))} \cup {UpdateUnifiedCampaigns(c, Number(w))} :
          \E node \in Nodes, k \in Contents : after = Put(c, node, k, FALSE)
    BY <1>2, <1>6, <1>7
  <2> QED  BY <1>8, <1>9, <1>10, <2>1 DEF UpdateCampaign
<1>11. CASE UpdateAdGroup(w)
  <2>1. \A after \in {UpdateUnifiedAdGroups(c, Number(w))} \cup {UpdateUnifiedAdGroups(c, Number(w))} :
          \E node \in Nodes, k \in Contents : after = Put(c, node, k, FALSE)
    BY <1>2, <1>6, <1>7
  <2> QED  BY <1>8, <1>9, <1>11, <2>1 DEF UpdateAdGroup
<1>12. CASE UpdateAd(w)
  BY <1>8, <1>9, <1>12 DEF UpdateAd
<1>13. CASE ReplaceKeywords(w)
  <2>1. \A after \in UpdateKeywords(c, Number(w)) \cup {Put(c, "keywords", Number(w), FALSE)} :
          \E node \in Nodes, k \in Contents : after = Put(c, node, k, FALSE)
    BY <1>2, <1>6, <1>7
  <2> QED  BY <1>8, <1>9, <1>13, <2>1 DEF ReplaceKeywords
<1>14. CASE RefuseUpdate(w)
  <2>1. Writing
    BY <1>2, <1>6, <1>7, <1>14 DEF RefuseUpdate, Writing
  <2> QED  BY <1>4, <1>14, <2>1 DEF RefuseUpdate
<1>15. CASE FailUpdateIfUnchanged(w)
  <2>1. CASE VerifiedAs(c, op[c].base) /\ FailOperation(w, c) /\ End(w) /\ UNCHANGED <<mix, account>>
    <3>1. \A n \in Nodes : account[c].content[n] = op[c].base
      BY <1>2, <2>1, VerifiedIs, NumbersAreNotMixed
    <3>2. op[c].stage = "claimed" /\ op[c].kind # "submission"
      BY <1>1, <1>2, <1>15 DEF FailUpdateIfUnchanged, Doing
    <3> QED  BY <1>2, <2>1, <3>1, <3>2, FailKeeps
  <2> QED  BY <1>5, <1>15, <2>1 DEF FailUpdateIfUnchanged
<1> QED  BY <1>10, <1>11, <1>12, <1>13, <1>14, <1>15 DEF EditStep

\* A stage is recorded.
LEMMA AdvanceKeeps ==
  ASSUME GraphInv, CoreTypeOK', NEW w \in Workers, Working(w), NEW stage, AdvanceGraphStage(w, stage)
  PROVE  GraphInv'
<1> SUFFICES ASSUME NEW c \in Campaigns, c = work[w].on PROVE GraphInv'
  BY TypeParts, WhereOK DEF GraphInv
<1>1. OpsOK /\ RowsOK /\ WorkOK
  BY TypeParts DEF GraphInv
<1>2. CASE ~CanAdvance(w, c, stage)
  BY <1>2, GiveUpKeeps DEF AdvanceGraphStage
<1>3. CASE CanAdvance(w, c, stage)
  <2>1. CampaignSound(c) /\ ClaimHeld(w) /\ Unfinished(c)
    BY DEF GraphInv, WorkerSound, ClaimHeld
  <2>2. /\ Advanced(c, stage) /\ UNCHANGED <<mix, account>>
        /\ work' = [work EXCEPT ![w].stage = stage, ![w].pc = IF stage = "completed" THEN "again" ELSE "read"]
    BY <1>3 DEF AdvanceGraphStage
  <2>3. validDirectProviderStageTransition(op[c].stage, stage)
    BY <1>3 DEF CanAdvance
  <2>4. /\ op'[c].kind = op[c].kind /\ op'[c].number = op[c].number /\ op'[c].base = op[c].base
        /\ op'[c].stage = stage /\ \A d \in Campaigns \ {c} : op'[d] = op[d]
        /\ stage # "completed" => op'[c].holder = op[c].holder /\ op'[c].lease = Lease
    <3> DEFINE lease == IF stage = "completed" THEN 0 ELSE Lease
               holder == IF stage = "completed" THEN Nobody ELSE op[c].holder
    <3>1. op \in [Campaigns -> OperationRow]
      BY <1>1 DEF OpsOK
    <3>2. op' = [op EXCEPT ![c].stage = stage, ![c].lease = lease, ![c].holder = holder]
      BY <2>2, <3>1 DEF Advanced, OperationRow
    <3>3. stage # "completed" => holder = op[c].holder /\ lease = Lease
      OBVIOUS
    <3> HIDE DEF lease, holder
    <3> QED  BY <3>1, <3>2, <3>3 DEF OperationRow
  <2>5. /\ \A d \in Campaigns \ {c} : SameRow(d)
        /\ row'[c].revision = row[c].revision /\ row'[c].status = StatusAfter(c, stage)
    BY <1>1, <2>2, AdvancedRow
  <2>6. /\ work'[w].job = work[w].job /\ work'[w].on = c /\ work'[w].left = work[w].left /\ work'[w].stage = stage
        /\ work'[w].pc = IF stage = "completed" THEN "again" ELSE "read"
        /\ \A v \in Workers \ {w} : work'[v] = work[v]
    <3> DEFINE pc == IF stage = "completed" THEN "again" ELSE "read"
    <3>1. work' = [work EXCEPT ![w].stage = stage, ![w].pc = pc]
      BY <2>2
    <3> HIDE DEF pc
    <3>2. /\ work'[w].job = work[w].job /\ work'[w].on = c /\ work'[w].left = work[w].left /\ work'[w].stage = stage
          /\ work'[w].pc = pc /\ \A v \in Workers \ {w} : work'[v] = work[v]
      BY <1>1, <3>1 DEF WorkOK, Job
    <3> QED  BY <3>2 DEF pc
  <2>7. /\ <<op[c].stage, stage>> \in {<<"claimed", "campaign">>, <<"campaign", "group">>, <<"group", "ad">>,
                                       <<"ad", "keywords">>, <<"keywords", "observed">>,
                                       <<"verified", "moderation">>, <<"moderation", "completed">>}
    BY <2>3 DEF validDirectProviderStageTransition, NextStage
  <2>8. WorkerSound(w)'
    <3>1. CASE stage = "completed"
      BY <2>6, <3>1 DEF WorkerSound, ClaimHeld, NothingThere, ReadyToRecord, Working
    <3>2. CASE stage # "completed"
      <4>1. Unfinished(c)'
        BY <2>4, <2>7, <3>2 DEF Unfinished
      <4>2. work[w].left < Lease
        <5>1. work[w].left \in Nat /\ work[w].left <= Deadline
          BY <1>1, <2>1 DEF WorkOK, Job, ClaimHeld
        <5> QED  BY <5>1, LeaseAssumption
      <4>3. ClaimHeld(w)'
        BY <2>1, <2>4, <2>6, <3>2, <4>1, <4>2 DEF ClaimHeld, Unfinished
      <4> QED  BY <2>6, <3>2, <4>3 DEF WorkerSound, NothingThere, ReadyToRecord
    <3> QED  BY <3>1, <3>2
  <2>9. Shape(c)'
    BY <2>1, <2>2, <2>4, <2>7 DEF CampaignSound, Shape
  <2>10. row'[c].status # "draft"
    BY <2>1, <2>5, NeverDraft DEF CampaignSound, DraftSound, StatusAfter
  <2>11. EvidenceSound(c)'
    BY <2>1, <2>2, <2>4, <2>5, <2>7 DEF CampaignSound, EvidenceSound, Undisturbed, Unfinished
  <2>12. CampaignSound(c)'
    BY <2>1, <2>2, <2>9, <2>10, <2>11 DEF CampaignSound, DraftSound
  <2>13. \A d \in Campaigns \ {c} : CampaignKept(w, d)
    BY <2>2, <2>4, <2>5, SameRowKept DEF CampaignKept, OpKept, GraphKept
  <2> QED  BY <2>2, <2>6, <2>8, <2>12, <2>13, StepAt, Alone
<1> QED  BY <1>2, <1>3

\* A graph that was found verified becomes the revision of the campaign.
LEMMA RecordKeeps ==
  ASSUME GraphInv, CoreTypeOK', NEW w \in Workers, RecordGraph(w)
  PROVE  GraphInv'
<1> SUFFICES ASSUME NEW c \in Campaigns, c = work[w].on PROVE GraphInv'
  BY TypeParts, WhereOK DEF GraphInv
<1>1. work[w].job = "graph" /\ work[w].pc # "again" /\ work[w].stage = "observed"
  BY DEF RecordGraph
<1>2. /\ Working(w) /\ op[c].holder = w /\ Unfinished(c) /\ op[c].stage = "observed"
      /\ ReadyToRecord(w) /\ CampaignSound(c) /\ AccountsOK /\ RowsOK /\ OpsOK /\ WorkOK
  BY <1>1, AtWork, TypeParts DEF GraphInv
<1>3. GiveUp(w) => GraphInv'
  BY GiveUpKeeps
<1>4. CASE GraphVerified(c, Number(w)) /\ See(w, "record")
  <2>1. work'[w].on = c /\ UNCHANGED <<op, account>>
    <3>1. work' = [work EXCEPT ![w].pc = "record", ![w].saw = [moderation |-> account[c].moderation,
                                                                 state |-> GetGraphCampaign(c)]]
          /\ UNCHANGED <<op, account>>
      BY <1>4 DEF See, Untouched
    <3> DEFINE saw == [moderation |-> account[c].moderation, state |-> GetGraphCampaign(c)]
    <3>2. work' = [work EXCEPT ![w].pc = "record", ![w].saw = saw]
      BY <3>1
    <3> HIDE DEF saw
    <3> QED  BY <1>2, <3>1, <3>2 DEF WorkOK, Job
  <2>2. ReadyToRecord(w)'
    BY <1>4, <2>1 DEF ReadyToRecord, GraphVerified, VerifiedAs, Number, GetCampaignGraph
  <2> QED  BY <1>2, <1>4, <2>2, GoOnKeeps
<1>5. CASE /\ work[w].pc = "record" /\ RecordVerified(c, work[w].saw.moderation) /\ UNCHANGED <<mix, account>>
           /\ work' = [work EXCEPT ![w].stage = "verified", ![w].pc = "load", ![w].saw = NothingSeen]
  <2>1. /\ \A d \in Campaigns \ {c} : op'[d] = op[d]
        /\ op'[c].kind = op[c].kind /\ op'[c].number = op[c].number /\ op'[c].base = op[c].base
        /\ op'[c].stage = "verified" /\ op'[c].holder = op[c].holder /\ op'[c].lease = Lease
    BY <1>2, <1>5 DEF RecordVerified, OpsOK, OperationRow
  <2>2. /\ \A d \in Campaigns \ {c} : SameRow(d)
        /\ row'[c].revision = op[c].number
        /\ row'[c].status = directLocalStatusForModeration(work[w].saw.moderation, row[c].status)
    BY <1>2, <1>5, RecordedRow
  <2>3. /\ work'[w].on = c /\ work'[w].left = work[w].left /\ work'[w].stage = "verified" /\ work'[w].pc = "load"
        /\ \A v \in Workers \ {w} : work'[v] = work[v]
    BY <1>2, <1>5 DEF WorkOK, Job
  <2>4. work[w].left <= Deadline /\ work[w].left < Lease
    <3>1. work[w].left \in Nat /\ work[w].left <= Deadline
      BY <1>2 DEF GraphInv, WorkerSound, ClaimHeld, WorkOK, Job
    <3> QED  BY <3>1, LeaseAssumption
  <2>5. WorkerSound(w)'
    <3>1. ClaimHeld(w)'
      BY <1>2, <2>1, <2>3, <2>4 DEF ClaimHeld, Unfinished
    <3> QED  BY <2>3, <3>1 DEF WorkerSound, NothingThere, ReadyToRecord
  <2>6. Undisturbed => \A n \in Nodes : account[c].content[n] = op[c].number
    <3>1. Undisturbed => VerifiedAs(c, op[c].number)
      BY <1>1, <1>2, <1>5 DEF ReadyToRecord, Number
    <3> QED  BY <1>2, <3>1, VerifiedIs, NumbersAreNotMixed
  <2>7. EvidenceSound(c)'
    BY <1>2, <1>5, <2>1, <2>2, <2>6 DEF CampaignSound, EvidenceSound, Undisturbed, Unfinished
  <2>8. Shape(c)' /\ DraftSound(c)'
    BY <2>1, <2>2, NeverDraft DEF Shape, DraftSound
  <2>9. CampaignSound(c)'
    BY <1>2, <1>5, <2>7, <2>8 DEF CampaignSound
  <2>10. \A d \in Campaigns \ {c} : CampaignKept(w, d)
    BY <1>5, <2>1, <2>2, SameRowKept DEF CampaignKept, OpKept, GraphKept
  <2> QED  BY <1>2, <1>5, <2>3, <2>5, <2>9, <2>10, StepAt, Alone, ZenonT(60)
<1> QED  BY <1>3, <1>4, <1>5 DEF RecordGraph

LEMMA GraphStepKeeps ==
  ASSUME GraphInv, CoreTypeOK', NEW w \in Workers, GraphStep(w)
  PROVE  GraphInv'
<1> SUFFICES ASSUME NEW c \in Campaigns, c = work[w].on PROVE GraphInv'
  BY TypeParts, WhereOK DEF GraphInv
<1>1. GiveUp(w) => GraphInv'
  BY GiveUpKeeps
<1>2. ASSUME work[w].job = "graph", work[w].pc # "again", NEW pc \in {"read", "advance", "confirm"}, GoOn(w, pc)
      PROVE  GraphInv'
  BY <1>2, AtWork, GoOnKeeps
<1>3. CASE LoadMaterial(w)
  BY <1>1, <1>2, <1>3 DEF LoadMaterial
<1>4. CASE ObserveGraph(w)
  BY <1>1, <1>2, <1>4 DEF ObserveGraph
<1>5. CASE RequestModeration(w)
  <2>1. work[w].job = "graph" /\ work[w].pc # "again" /\ work[w].stage = "verified"
    BY <1>5 DEF RequestModeration
  <2>2. Working(w) /\ AccountsOK
    BY <2>1, AtWork
  <2>3. ASSUME GoOn(w, "write") PROVE GraphInv'
    BY <2>1, <2>2, <2>3, BeforeWriting, GoOnKeeps
  <2>4. ASSUME NEW after, NEW pc \in {"advance", "confirm"}, Carried(w, after, pc) \/ (Goto(w, pc) /\ OnlyAccount),
               account' \in {account, ModerateAds(c)}
        PROVE  GraphInv'
    <3>1. Written(c) /\ GraphKept(c)
      BY <2>2, <2>4, ModeratedWritten, UntouchedWritten
    <3> QED  BY <2>1, <2>2, <2>4, <3>1, CarriedKeeps
  <2>5. ASSUME NEW pc, Carried(w, ModerateAds(c), pc) PROVE account' \in {account, ModerateAds(c)}
    BY <2>5 DEF Carried
  <2> QED  BY <1>1, <1>2, <1>5, <2>3, <2>4, <2>5 DEF RequestModeration
<1>6. CASE RecordStage(w) \/ Complete(w)
  <2>1. Working(w)
    BY <1>6 DEF RecordStage, Complete, Working
  <2> QED  BY <1>6, <2>1, AdvanceKeeps DEF RecordStage, Complete
<1> QED  BY <1>3, <1>4, <1>5, <1>6, SubmissionKeeps, EditKeeps, RecordKeeps DEF GraphStep
----------------------------------------------------------------------------
(* The claims of an operation. *)

\* A goroutine begins to work on the graph of c.
LEMMA BeginKeeps ==
  ASSUME GraphInv, CoreTypeOK', NEW w \in Workers, NEW c \in Campaigns, UNCHANGED <<mix, account>>,
         NEW stage, NEW pc, pc \notin {"write", "record"}, StartGraph(w, c, stage, pc),
         op'[c].holder = w, op'[c].lease = Lease, op'[c].stage = stage, stage \notin {"completed", "failed"},
         \A d \in Campaigns \ {c} : op'[d] = op[d] /\ SameRow(d),
         ~OperationBusy(c), CampaignSound(c)'
  PROVE  GraphInv'
<1>1. WorkOK /\ OpsOK
  BY TypeParts DEF GraphInv
<1>2. /\ work'[w].job = "graph" /\ work'[w].on = c /\ work'[w].pc = pc /\ work'[w].stage = stage
      /\ work'[w].left = Deadline /\ \A v \in Workers \ {w} : work'[v] = work[v]
  BY <1>1 DEF WorkOK, StartGraph
<1>3. WorkerSound(w)'
  <2>1. Deadline <= Deadline /\ Deadline < Lease
    BY LeaseAssumption
  <2> QED  BY <1>2, <2>1 DEF WorkerSound, ClaimHeld, NothingThere, ReadyToRecord, Unfinished
<1>4. \A v \in Workers \ {w} : ~(Working(v) /\ work[v].on = c)
  <2> SUFFICES ASSUME NEW v \in Workers, Working(v), work[v].on = c PROVE FALSE
    OBVIOUS
  <2>1. work[v].left \in Nat /\ op[c].lease \in Nat
    BY <1>1, LeaseAssumption DEF WorkOK, Job, OpsOK, OperationRow
  <2>2. Unfinished(c) /\ work[v].left < op[c].lease
    BY DEF GraphInv, WorkerSound, ClaimHeld
  <2> QED  BY <2>1, <2>2 DEF OperationBusy
<1>5. \A d \in Campaigns \ {c} : CampaignKept(w, d)
  BY SameRowKept DEF CampaignKept, OpKept, GraphKept
<1> QED  BY <1>2, <1>3, <1>4, <1>5, StepAt

LEMMA ClaimsKeep ==
  ASSUME GraphInv, CoreTypeOK', NEW w \in Workers, NEW c \in Campaigns,
         \/ SubmitDirectCampaign(w, c) \/ UpdateDirectCampaign(w, c)
         \/ ResubmitDirectCampaign(w, c) \/ RecoverGraph(w, c)
  PROVE  GraphInv'
<1>1. OpsOK /\ RowsOK /\ AccountsOK /\ CampaignSound(c)
  BY TypeParts DEF GraphInv
<1>2. ASSUME NEW kind, NewOperation(w, c, kind)
      PROVE  /\ op'[c].kind = kind /\ op'[c].stage = "claimed" /\ op'[c].holder = w /\ op'[c].lease = Lease
             /\ op'[c].base = row[c].revision /\ \A d \in Campaigns \ {c} : op'[d] = op[d]
  BY <1>1, <1>2 DEF NewOperation, OpsOK
<1>3. CASE SubmitDirectCampaign(w, c)
  <2>1. /\ ~Unfinished(c) /\ row[c].status = "draft" /\ NewOperation(w, c, "submission")
        /\ row' = [row EXCEPT ![c].status = "creating"] /\ StartGraph(w, c, "claimed", "read")
        /\ UNCHANGED <<mix, account>>
    BY <1>3 DEF SubmitDirectCampaign, ClaimSubmission, KeepsClaim
  <2>2. /\ row'[c].status = "creating" /\ row'[c].revision = row[c].revision
        /\ \A d \in Campaigns \ {c} : SameRow(d)
    BY <1>1, <2>1 DEF RowsOK, Row, SameRow
  <2>3. row[c].revision = 0 /\ \A n \in Nodes : account[c].content[n] = Absent
    BY <1>1, <2>1 DEF CampaignSound, DraftSound
  <2>4. CampaignSound(c)'
    <3>1. Shape(c)'
      BY <1>2, <2>1, <2>3 DEF Shape, Nodes
    <3>2. DraftSound(c)' /\ EvidenceSound(c)'
      BY <1>2, <2>1, <2>2, <2>3 DEF DraftSound, EvidenceSound
    <3> QED  BY <1>1, <2>1, <3>1, <3>2 DEF CampaignSound
  <2> QED  BY <1>2, <2>1, <2>2, <2>4, BeginKeeps DEF OperationBusy
<1>4. CASE UpdateDirectCampaign(w, c)
  <2>1. /\ ~Unfinished(c) /\ row[c].revision # 0 /\ NewOperation(w, c, "update")
        /\ row' = [row EXCEPT ![c] = WithdrawEvidence(@)] /\ StartGraph(w, c, "claimed", "read")
        /\ UNCHANGED <<mix, account>>
    BY <1>4 DEF UpdateDirectCampaign, ClaimProviderEdit, KeepsClaim, GraphEvidenceReady
  <2>2. row'[c].status = row[c].status /\ row'[c].revision = 0 /\ \A d \in Campaigns \ {c} : SameRow(d)
    BY <1>1, <2>1, WithdrawnRow
  <2>3. CampaignSound(c)'
    <3>1. Shape(c)'
      BY <1>2, <2>1 DEF Shape
    <3>2. DraftSound(c)' /\ EvidenceSound(c)'
      BY <1>1, <1>2, <2>1, <2>2 DEF CampaignSound, DraftSound, EvidenceSound
    <3> QED  BY <1>1, <2>1, <3>1, <3>2 DEF CampaignSound
  <2> QED  BY <1>2, <2>1, <2>2, <2>3, BeginKeeps DEF OperationBusy
<1>5. CASE ResubmitDirectCampaign(w, c) \/ RecoverGraph(w, c)
  <2>1. /\ Unfinished(c) /\ ~OperationBusy(c)
        /\ op' = [op EXCEPT ![c].holder = w, ![c].lease = Lease]
        /\ (StartGraph(w, c, op[c].stage, "read") \/ StartGraph(w, c, op[c].stage, "load"))
        /\ UNCHANGED <<mix, row, account>>
    BY <1>5 DEF ResubmitDirectCampaign, Reclaim, RecoverGraph, ClaimGraphRecovery, TakeOver, KeepsClaim
  <2>2. /\ op'[c].kind = op[c].kind /\ op'[c].number = op[c].number /\ op'[c].base = op[c].base
        /\ op'[c].stage = op[c].stage /\ op'[c].holder = w /\ op'[c].lease = Lease
        /\ \A d \in Campaigns \ {c} : op'[d] = op[d]
    BY <1>1, <2>1 DEF OpsOK, OperationRow
  <2>3. CampaignSound(c)'
    BY <1>1, <2>1, <2>2 DEF CampaignSound, Shape, DraftSound, EvidenceSound, Unfinished, Undisturbed
  <2>4. \A d \in Campaigns : SameRow(d)
    BY <2>1 DEF SameRow
  <2>5. op[c].stage \notin {"completed", "failed"}
    BY <2>1 DEF Unfinished
  <2>6. PICK pc \in {"read", "load"} : StartGraph(w, c, op[c].stage, pc)
    BY <2>1
  <2> DEFINE stage == op[c].stage
  <2>7. StartGraph(w, c, stage, pc) /\ op'[c].stage = stage /\ stage \notin {"completed", "failed"}
    BY <2>2, <2>5, <2>6
  <2> HIDE DEF stage
  <2> QED  BY <2>1, <2>2, <2>3, <2>4, <2>7, BeginKeeps
<1> QED  BY <1>3, <1>4, <1>5
----------------------------------------------------------------------------
LEMMA GraphInit == CoreInit => GraphInv
<1> SUFFICES ASSUME CoreInit PROVE GraphInv
  OBVIOUS
<1>1. \A w \in Workers : WorkerSound(w)
  BY DEF CoreInit, Idle, WorkerSound, ClaimHeld, NothingThere, ReadyToRecord, Working
<1>2. ASSUME NEW c \in Campaigns PROVE CampaignSound(c)
  <2>1. op[c].stage = "completed" /\ op[c].kind # "update"
    BY DEF CoreInit, NoOperation
  <2>2. CASE c \in mix.verified
    BY <2>1, <2>2 DEF CoreInit, Verified, Published, Empty, CampaignSound, Shape, DraftSound, EvidenceSound, Unfinished
  <2>3. CASE c \notin mix.verified
    BY <2>1, <2>3 DEF CoreInit, Draft, Empty, CampaignSound, Shape, DraftSound, EvidenceSound, Unfinished
  <2> QED  BY <2>2, <2>3
<1> QED  BY <1>1, <1>2, CoreInitOK DEF GraphInv

LEMMA GraphNext == GraphInv /\ [Next]_core => GraphInv'
<1> SUFFICES ASSUME GraphInv, [Next]_core PROVE GraphInv'
  OBVIOUS
<1>1. CoreTypeOK /\ CoreTypeOK' /\ mix.on \subseteq Campaigns
  BY NextOK, MixOK, TypeParts DEF GraphInv, RestOK
<1>2. CASE UNCHANGED core
  <2>1. QuietGraph(Nobody)
    BY <1>2, WorkerAssumption DEF core, QuietGraph, CampaignKept, OpKept, GraphKept, RowKept
  <2> QED  BY <1>1, <2>1, QuietStep
<1>3. ASSUME NEW w \in Workers, Work(w) \/ Failing(w) PROVE GraphInv'
  BY <1>1, <1>3, GraphStepKeeps, LaunchQuiet, FailingQuiet, QuietStep DEF Work
<1>4. ASSUME NEW w \in Workers, NEW c \in mix.on, Starting(w, c) PROVE GraphInv'
  BY <1>1, <1>4, ClaimsKeep, RequestsQuiet, QuietStep DEF Starting
<1>5. ASSUME NEW c \in mix.on,
             \/ GrantDirectAutoLaunchConsent(c) \/ RevokeDirectAutoLaunchConsent(c)
             \/ Moderated(c) \/ ResumeArrives(c) \/ ChangedOutside(c)
      PROVE  GraphInv'
  BY <1>1, <1>5, OthersQuiet, QuietStep, OutsideKeeps
<1>6. CASE RevokeDirectConnection \/ ReplaceDirectConnection \/ Tick
  BY <1>1, <1>6, OthersQuiet, QuietStep, TickKeeps
<1> QED  BY <1>2, <1>3, <1>4, <1>5, <1>6 DEF Next

\* The graph at the provider, the operation, what its goroutine believes and the recorded evidence
\* agree at every step of a submission and of an edit.
THEOREM GraphInvariant == Spec => []GraphInv
<1> QED  BY GraphInit, GraphNext, PTL DEF Spec

\* Whatever is lost, retried or taken over, no campaign, group or ad is created twice: whoever creates
\* has looked while the lease, which outlives the deadline of the workflow, keeps everybody else away.
THEOREM ObjectsAreNotDoubled == Spec => []NoDuplicateObjects
<1>1. GraphInv => NoDuplicateObjects
  BY DEF GraphInv, CampaignSound, NoDuplicateObjects
<1> QED  BY <1>1, GraphInvariant, PTL

\* As long as nobody edits in the web interface, the verified revision of a campaign is what the
\* account shows in all its parts.
THEOREM VerifiedIsWhatTheAccountShows == Spec => []VerifiedIsObserved
<1>1. GraphInv => VerifiedIsObserved
  <2> SUFFICES ASSUME GraphInv, Undisturbed, NEW c \in Campaigns, row[c].revision # 0
               PROVE  VerifiedAs(c, row[c].revision)
    BY DEF VerifiedIsObserved
  <2>1. AccountsOK /\ RowsOK /\ CampaignSound(c)
    BY TypeParts DEF GraphInv
  <2>2. account[c].twice = {} /\ \A n \in Nodes : account[c].content[n] = row[c].revision
    BY <2>1 DEF CampaignSound, EvidenceSound
  <2> QED  BY <2>1, <2>2, VerifiedIs, NumbersAreNotMixed
<1> QED  BY <1>1, GraphInvariant, PTL

\* Values have their types, and a campaign that went back to the draft left nothing at the provider.
THEOREM DraftsLeaveNothing == Spec => []RowsSound
<1>1. GraphInv => RowsSound
  BY DEF GraphInv, CampaignSound, DraftSound, RowsSound, DraftHasNoProvider, Empty
<1> QED  BY <1>1, GraphInvariant, PTL
----------------------------------------------------------------------------
(* Attempts. *)

AtResume(w, c) == work[w].pc = "resume" /\ work[w].on = c

\* A goroutine in its Resume call holds the claim, which nobody may recover before the call ends.
ResumeHeld(w) ==
  work[w].pc = "resume" =>
    LET c == work[w].on IN
    launch[c].holder = w /\ launch[c].state = "launching" /\ launch[c].retry > 0

\* Each call was written down before it was made.
Counted(c) ==
  /\ resumes[c] <= 2
  /\ InFlight(c) => resumes[c] <= launch[c].attempts
  /\ InFlight(c) /\ (\E w \in Workers : AtResume(w, c)) => resumes[c] < launch[c].attempts

ResumeInv ==
  /\ CoreTypeOK
  /\ \A w \in Workers : ResumeHeld(w)
  /\ \A c \in Campaigns : Counted(c)
----------------------------------------------------------------------------
\* The goroutine w goes anywhere but into a Resume call.
Elsewhere(w) == work'[w].pc # "resume" /\ \A v \in Workers \ {w} : work'[v] = work[v]

LEMMA ElsewhereIs ==
  ASSUME WorkOK, NEW w \in Workers
  PROVE  /\ \A pc : pc # "resume" /\ Goto(w, pc) => Elsewhere(w)
         /\ \A pc, saw : pc # "resume" /\ work' = [work EXCEPT ![w].pc = pc, ![w].saw = saw] => Elsewhere(w)
         /\ \A pc, rev : pc # "resume" /\ work' = [work EXCEPT ![w].pc = pc, ![w].rev = rev] => Elsewhere(w)
         /\ \A pc, stage : pc # "resume" /\ work' = [work EXCEPT ![w].stage = stage, ![w].pc = pc] => Elsewhere(w)
         /\ \A pc, stage, saw : pc # "resume" /\ work' = [work EXCEPT ![w].stage = stage, ![w].pc = pc, ![w].saw = saw]
              => Elsewhere(w)
         /\ End(w) => Elsewhere(w)
         /\ \A c, job, pc : pc # "resume" /\ Start(w, c, job, pc) => Elsewhere(w)
         /\ \A c, stage, pc : pc # "resume" /\ StartGraph(w, c, stage, pc) => Elsewhere(w)
<1>1. work \in [Workers -> Job]
  BY DEF WorkOK
<1>2. ASSUME NEW job \in Job, job.pc # "resume", work' = [work EXCEPT ![w] = job] PROVE Elsewhere(w)
  BY <1>1, <1>2 DEF Elsewhere
<1>3. ASSUME NEW pc, pc # "resume", Goto(w, pc) PROVE Elsewhere(w)
  BY <1>1, <1>3 DEF Elsewhere, Goto, Job
<1>4. ASSUME NEW pc, NEW saw, pc # "resume", work' = [work EXCEPT ![w].pc = pc, ![w].saw = saw] PROVE Elsewhere(w)
  BY <1>1, <1>4 DEF Elsewhere, Job
<1>5. ASSUME NEW pc, NEW rev, pc # "resume", work' = [work EXCEPT ![w].pc = pc, ![w].rev = rev] PROVE Elsewhere(w)
  BY <1>1, <1>5 DEF Elsewhere, Job
<1>6. ASSUME NEW pc, NEW stage, pc # "resume", work' = [work EXCEPT ![w].stage = stage, ![w].pc = pc]
      PROVE  Elsewhere(w)
  BY <1>1, <1>6 DEF Elsewhere, Job
<1>7. ASSUME NEW pc, NEW stage, NEW saw, pc # "resume",
             work' = [work EXCEPT ![w].stage = stage, ![w].pc = pc, ![w].saw = saw]
      PROVE  Elsewhere(w)
  BY <1>1, <1>7 DEF Elsewhere, Job
<1>8. End(w) => Elsewhere(w)
  BY <1>1 DEF Elsewhere, End, Idle
<1>9. ASSUME NEW c, NEW job, NEW pc, pc # "resume", Start(w, c, job, pc) PROVE Elsewhere(w)
  BY <1>1, <1>9 DEF Elsewhere, Start
<1>10. ASSUME NEW c, NEW stage, NEW pc, pc # "resume", StartGraph(w, c, stage, pc) PROVE Elsewhere(w)
  BY <1>1, <1>10 DEF Elsewhere, StartGraph
<1> QED  BY <1>3, <1>4, <1>5, <1>6, <1>7, <1>8, <1>9, <1>10

\* What a step of w may do to the launch of d: nothing, or, when nobody else is in the Resume call
\* of d, anything that starts no launch and forgets no attempt.
Settles(w, d) ==
  \/ launch'[d] = launch[d]
  \/ /\ launch[d].holder = w \/ ~InFlight(d) \/ launch[d].retry = 0
     /\ InFlight(d)' => InFlight(d) /\ launch'[d].attempts = launch[d].attempts
Calm(w) == Elsewhere(w) /\ UNCHANGED resumes /\ \A d \in Campaigns : Settles(w, d)

LEMMA CalmStep ==
  ASSUME ResumeInv, CoreTypeOK', NEW w \in Workers, Calm(w)
  PROVE  ResumeInv'
<1>1. ASSUME NEW v \in Workers, v # w, work[v].pc = "resume" PROVE launch'[work[v].on] = launch[work[v].on]
  <2>1. work[v].on \in Campaigns
    BY TypeParts, WhereOK DEF ResumeInv
  <2>2. launch[work[v].on].holder = v /\ InFlight(work[v].on) /\ launch[work[v].on].retry > 0
    BY <1>1 DEF ResumeInv, ResumeHeld, InFlight
  <2> QED  BY <1>1, <2>1, <2>2 DEF Calm, Settles
<1>2. \A v \in Workers : ResumeHeld(v)'
  BY <1>1 DEF ResumeInv, ResumeHeld, Calm, Elsewhere
<1>3. ASSUME NEW c \in Campaigns PROVE Counted(c)'
  <2>1. resumes'[c] = resumes[c] /\ (launch'[c] = launch[c] \/ (InFlight(c)' => InFlight(c) /\ launch'[c].attempts = launch[c].attempts))
    BY DEF Calm, Settles
  <2>2. resumes'[c] <= 2 /\ (InFlight(c)' => resumes'[c] <= launch'[c].attempts)
    BY <2>1 DEF ResumeInv, Counted, InFlight
  <2>3. ASSUME InFlight(c)', NEW v \in Workers, AtResume(v, c)' PROVE resumes'[c] < launch'[c].attempts
    <3>1. v # w /\ AtResume(v, c)
      BY <2>3 DEF Calm, Elsewhere, AtResume
    <3>2. launch'[c] = launch[c]
      BY <1>1, <3>1 DEF AtResume
    <3> QED  BY <2>1, <2>3, <3>1, <3>2 DEF ResumeInv, Counted, InFlight
  <2> QED  BY <2>2, <2>3 DEF Counted
<1> QED  BY <1>2, <1>3 DEF ResumeInv

\* The transactions of a launch.
LEMMA Settlings ==
  ASSUME LaunchesOK, NEW w \in Workers, NEW c \in Campaigns
  PROVE  /\ UNCHANGED launch => \A d \in Campaigns : Settles(w, d)
         /\ Forget(w) => \A d \in Campaigns : Settles(w, d)
         /\ launch' = Confirmed(c) /\ (launch[c].holder = w \/ ~InFlight(c)) => \A d \in Campaigns : Settles(w, d)
         /\ MarkReconciling(w, c) => \A d \in Campaigns : Settles(w, d)
         /\ FailLaunch(w, c) => \A d \in Campaigns : Settles(w, d)
         /\ AbortForAuthorization(w, c) => \A d \in Campaigns : Settles(w, d)
         /\ ClaimLaunchRecovery(w, c) => \A d \in Campaigns : Settles(w, d)
<1>1. launch \in [Campaigns -> LaunchRow]
  BY DEF LaunchesOK
<1>2. CASE UNCHANGED launch
  BY <1>2 DEF Settles
<1>3. ASSUME Forget(w), NEW d \in Campaigns PROVE Settles(w, d)
  <2>1. \/ launch'[d] = launch[d]
        \/ launch[d].holder = w /\ launch'[d].state = launch[d].state /\ launch'[d].attempts = launch[d].attempts
    BY <1>1, <1>3 DEF Forget, ForgetLaunch, ForgetOperation, LaunchRow
  <2> QED  BY <2>1 DEF Settles, InFlight
<1>4. ASSUME launch' = Confirmed(c), launch[c].holder = w \/ ~InFlight(c), NEW d \in Campaigns PROVE Settles(w, d)
  <2>1. launch'[c].state = "confirmed" /\ (d # c => launch'[d] = launch[d])
    BY <1>1, <1>4 DEF Confirmed, LaunchRow
  <2> QED  BY <1>4, <2>1 DEF Settles, InFlight
<1>5. ASSUME MarkReconciling(w, c), NEW d \in Campaigns PROVE Settles(w, d)
  BY <1>1, <1>5 DEF MarkReconciling, LaunchFence, LaunchRow, Settles, InFlight
<1>6. ASSUME FailLaunch(w, c), NEW d \in Campaigns PROVE Settles(w, d)
  BY <1>1, <1>6 DEF FailLaunch, LaunchFence, LaunchRow, Settles, InFlight
<1>7. ASSUME AbortForAuthorization(w, c), NEW d \in Campaigns PROVE Settles(w, d)
  <2>1. launch'[c].state = "idle" /\ (d # c => launch'[d] = launch[d]) /\ launch[c].holder = w
    BY <1>1, <1>7 DEF AbortForAuthorization, LaunchFence, NoLaunch
  <2> QED  BY <2>1 DEF Settles, InFlight
<1>8. ASSUME ClaimLaunchRecovery(w, c), NEW d \in Campaigns PROVE Settles(w, d)
  <2>1. /\ launch[c].retry = 0 /\ launch'[c].state = launch[c].state /\ launch'[c].attempts = launch[c].attempts
        /\ d # c => launch'[d] = launch[d]
    BY <1>1, <1>8 DEF ClaimLaunchRecovery, LaunchRow
  <2> QED  BY <2>1 DEF Settles, InFlight
<1> QED  BY <1>2, <1>3, <1>4, <1>5, <1>6, <1>7, <1>8

LEMMA GiveUpCalm == ASSUME CoreTypeOK, NEW w \in Workers, GiveUp(w) PROVE Calm(w)
BY TypeParts, WhereOK, Settlings, ElsewhereIs DEF GiveUp, Calm, Forget, history

LEMMA GraphCalm == ASSUME CoreTypeOK, NEW w \in Workers, GraphStep(w) PROVE Calm(w)
<1> DEFINE c == work[w].on
           Still == \A d \in Campaigns : Settles(w, d)
<1>1. c \in Campaigns /\ LaunchesOK /\ WorkOK
  BY TypeParts, WhereOK
<1>2. UNCHANGED launch => Still
  BY <1>1, Settlings
<1>3. ASSUME NEW pc, pc # "resume", GoOn(w, pc) \/ See(w, pc) PROVE Calm(w)
  BY <1>1, <1>2, <1>3, ElsewhereIs DEF GoOn, See, Untouched, history, Calm
<1>4. ASSUME NEW pc, pc # "resume", NEW after, Carried(w, after, pc) PROVE Calm(w)
  <2>1. CASE Goto(w, pc) /\ OnlyAccount
    BY <1>1, <1>2, <1>4, <2>1, ElsewhereIs DEF OnlyAccount, history, Calm
  <2>2. CASE Forget(w) /\ UNCHANGED <<mix, row, conn, history>>
    BY <1>1, <2>2, Settlings, ElsewhereIs DEF history, Calm, Forget
  <2> QED  BY <1>4, <2>1, <2>2 DEF Carried
<1>5. ASSUME NEW pc, pc # "resume", Goto(w, pc), OnlyAccount PROVE Calm(w)
  BY <1>1, <1>2, <1>5, ElsewhereIs DEF OnlyAccount, history, Calm
<1>6. ASSUME End(w), UNCHANGED <<mix, launch, syncing, conn, account, failures, history>> PROVE Calm(w)
  BY <1>1, <1>2, <1>6, ElsewhereIs DEF history, Calm
<1>7. ASSUME NEW stage, AdvanceGraphStage(w, stage) PROVE Calm(w)
  <2>1. CASE work' = [work EXCEPT ![w].stage = stage, ![w].pc = IF stage = "completed" THEN "again" ELSE "read"]
             /\ UNCHANGED <<mix, launch, syncing, conn, account, failures, history>>
    <3> DEFINE pc == IF stage = "completed" THEN "again" ELSE "read"
    <3>1. pc # "resume" /\ work' = [work EXCEPT ![w].stage = stage, ![w].pc = pc]
      BY <2>1
    <3> HIDE DEF pc
    <3>2. Elsewhere(w)
      BY <1>1, <3>1, ElsewhereIs
    <3> QED  BY <1>2, <2>1, <3>2 DEF history, Calm
  <2> QED  BY <1>7, <2>1, GiveUpCalm DEF AdvanceGraphStage
<1>8. CASE LoadMaterial(w) \/ RecordStage(w) \/ ObserveGraph(w) \/ RequestModeration(w) \/ Complete(w)
  BY <1>8, <1>3, <1>4, <1>5, <1>7, GiveUpCalm
     DEF LoadMaterial, RecordStage, ObserveGraph, RequestModeration, Complete
<1>9. CASE RecordGraph(w)
  <2>1. ASSUME work' = [work EXCEPT ![w].stage = "verified", ![w].pc = "load", ![w].saw = NothingSeen],
               UNCHANGED <<mix, launch, syncing, conn, account, failures, history>>
        PROVE  Calm(w)
    BY <1>1, <1>2, <2>1, ElsewhereIs DEF history, Calm
  <2> QED  BY <1>9, <1>3, <2>1, GiveUpCalm DEF RecordGraph
<1>10. CASE SubmissionStep(w)
  BY <1>10, <1>3, <1>4, <1>5, <1>6, GiveUpCalm
     DEF SubmissionStep, FindCampaign, CreateCampaign, RefuseCampaign, FailSubmissionIfAbsent, FindAdGroup,
         CreateAdGroup, ReadAd, CreateAd, ConfirmAd, ReadKeywords, CreateKeywords, ConfirmKeywords, FindAd,
         FindKeywords
<1>11. CASE EditStep(w)
  BY <1>11, <1>3, <1>4, <1>5, <1>6, GiveUpCalm
     DEF EditStep, UpdateCampaign, RefuseUpdate, FailUpdateIfUnchanged, UpdateAdGroup, UpdateAd,
         ReplaceKeywords, ReadForEdit, WriteEdit, ConfirmEdit
<1> QED  BY <1>8, <1>9, <1>10, <1>11 DEF GraphStep

LEMMA LaunchCalm ==
  ASSUME CoreTypeOK, NEW w \in Workers, LaunchStep(w) \/ SyncStep(w),
         ~ClaimCampaignLaunch(w), ~AttemptLaunch(w), ~Resume(w)
  PROVE  Calm(w)
<1> DEFINE c == work[w].on
           Still == \A d \in Campaigns : Settles(w, d)
<1>1. c \in Campaigns /\ LaunchesOK /\ WorkOK
  BY TypeParts, WhereOK
<1>2. /\ UNCHANGED launch => Still
      /\ launch' = Confirmed(c) /\ (launch[c].holder = w \/ ~InFlight(c)) => Still
      /\ MarkReconciling(w, c) => Still
      /\ FailLaunch(w, c) => Still
      /\ AbortForAuthorization(w, c) => Still
      /\ Forget(w) => Still
  BY <1>1, Settlings
<1>3. \A seen : SyncStatus(c, seen) /\ (launch[c].holder = w \/ ~InFlight(c)) => Still
  BY <1>2 DEF SyncStatus
<1>4. /\ \A pc : pc # "resume" /\ Goto(w, pc) => Elsewhere(w)
      /\ \A pc, saw : pc # "resume" /\ work' = [work EXCEPT ![w].pc = pc, ![w].saw = saw] => Elsewhere(w)
      /\ \A pc, rev : pc # "resume" /\ work' = [work EXCEPT ![w].pc = pc, ![w].rev = rev] => Elsewhere(w)
      /\ End(w) => Elsewhere(w)
  BY <1>1, ElsewhereIs
<1>5. Still /\ Elsewhere(w) /\ UNCHANGED resumes => Calm(w)
  BY DEF Calm
<1> HIDE DEF Still
<1>6. ASSUME NEW pc, pc # "resume", GoOn(w, pc) \/ See(w, pc) PROVE Calm(w)
  BY <1>2, <1>4, <1>5, <1>6 DEF GoOn, See, Untouched, history
<1>7. CASE CheckLaunch(w)
  BY <1>2, <1>4, <1>5, <1>6, <1>7, GiveUpCalm DEF CheckLaunch, Forget, history
<1>8. CASE SyncBeforeLaunch(w) \/ PersistModeration(w)
  BY <1>2, <1>3, <1>4, <1>5, <1>8, GiveUpCalm DEF SyncBeforeLaunch, PersistModeration, history
<1>9. CASE VerifyLaunch(w) \/ LoadRecovery(w) \/ ReadRecovery(w)
  BY <1>6, <1>9, GiveUpCalm DEF VerifyLaunch, LoadRecovery, ReadRecovery
<1>10. CASE ConfirmLaunch(w) \/ ReconcileLater(w)
  BY <1>2, <1>4, <1>5, <1>10, GiveUpCalm DEF ConfirmLaunch, ReconcileLater, CompleteLaunch, LaunchFence, history
<1>11. CASE SettleLaunch(w)
  BY <1>3, <1>4, <1>5, <1>11, GiveUpCalm DEF SettleLaunch, history
<1>12. CASE RetryOrFail(w) \/ AbortLaunch(w)
  BY <1>2, <1>4, <1>5, <1>6, <1>12, GiveUpCalm DEF RetryOrFail, AbortLaunch, history
<1>13. LeaveSync(w) => Calm(w)
  BY <1>2, <1>4, <1>5 DEF LeaveSync, history
<1>14. CASE SyncAfterOperation(w)
  <2>1. ASSUME work' = [work EXCEPT ![w].job = "sync", ![w].pc = "load", ![w].rev = row[c].revision,
                                    ![w].left = LaunchLease - 1]
        PROVE  Elsewhere(w)
    <3> DEFINE rev == row[c].revision  left == LaunchLease - 1
    <3>1. work' = [work EXCEPT ![w].job = "sync", ![w].pc = "load", ![w].rev = rev, ![w].left = left]
      BY <2>1
    <3> HIDE DEF rev, left
    <3> QED  BY <1>1, <3>1 DEF WorkOK, Job, Elsewhere
  <2> QED  BY <1>2, <1>5, <1>14, <2>1, GiveUpCalm DEF SyncAfterOperation, history
<1>15. CASE LoadSync(w) \/ SnapshotMismatch(w) \/ ReadLifecycle(w) \/ PersistLifecycle(w) \/ FinishSync(w)
  BY <1>2, <1>4, <1>5, <1>6, <1>13, <1>15
     DEF LoadSync, SnapshotMismatch, ReadLifecycle, PersistLifecycle, FinishSync, Untouched, history
<1> QED  BY <1>7, <1>8, <1>9, <1>10, <1>11, <1>12, <1>14, <1>15 DEF LaunchStep, SyncStep

LEMMA OthersCalm ==
  ASSUME CoreTypeOK, NEW w \in Workers
  PROVE  /\ Failing(w) => Calm(w)
         /\ \A c \in Campaigns : Starting(w, c) => Calm(w)
<1>1. LaunchesOK /\ WorkOK /\ work[w].on \in Campaigns
  BY TypeParts, WhereOK
<1>2. UNCHANGED launch \/ Forget(w) => \A d \in Campaigns : Settles(w, d)
  BY <1>1, Settlings
<1>3. /\ \A pc : pc # "resume" /\ Goto(w, pc) => Elsewhere(w)
      /\ End(w) => Elsewhere(w)
      /\ \A c, job, pc : pc # "resume" /\ Start(w, c, job, pc) => Elsewhere(w)
      /\ \A c, stage, pc : pc # "resume" /\ StartGraph(w, c, stage, pc) => Elsewhere(w)
  BY <1>1, ElsewhereIs
<1>4. ASSUME Failing(w) PROVE Calm(w)
  BY <1>2, <1>3, <1>4 DEF Failing, ReadFails, TokenRefused, Stop, Forget, Calm, history
<1>5. ASSUME NEW c \in Campaigns, Starting(w, c) PROVE Calm(w)
  <2>1. CASE RecoverLaunch(w, c)
    BY <1>1, <1>3, <2>1, Settlings DEF RecoverLaunch, Calm, history
  <2>2. CASE \/ SubmitDirectCampaign(w, c) \/ ResubmitDirectCampaign(w, c) \/ UpdateDirectCampaign(w, c)
             \/ RecoverGraph(w, c)
    BY <1>2, <1>3, <2>2
       DEF SubmitDirectCampaign, ResubmitDirectCampaign, UpdateDirectCampaign, RecoverGraph, ClaimSubmission,
           ClaimProviderEdit, Reclaim, ClaimGraphRecovery, TakeOver, KeepsClaim, Calm, history
  <2>3. CASE LaunchCampaign(w, c) \/ AutoLaunchCampaign(w, c) \/ SyncCampaign(w, c)
    BY <1>2, <1>3, <2>3 DEF LaunchCampaign, AutoLaunchCampaign, SyncCampaign, Calm, history
  <2> QED  BY <1>5, <2>1, <2>2, <2>3 DEF Starting
<1> QED  BY <1>4, <1>5
----------------------------------------------------------------------------
(* The steps of a launch that count. *)

LEMMA ClaimCounts ==
  ASSUME ResumeInv, CoreTypeOK', NEW w \in Workers, ClaimCampaignLaunch(w)
  PROVE  ResumeInv'
<1> SUFFICES ASSUME NEW c \in Campaigns, c = work[w].on PROVE ResumeInv'
  BY TypeParts, WhereOK DEF ResumeInv
<1>1. work \in [Workers -> Job] /\ launch \in [Campaigns -> LaunchRow] /\ resumes \in [Campaigns -> Nat] /\ WorkOK
  BY TypeParts DEF ResumeInv, WorkOK, LaunchesOK, RestOK
<1>2. CASE GiveUp(w)
  BY <1>2, GiveUpCalm, CalmStep DEF ResumeInv
<1>3. ASSUME NEW mode, CanClaimLaunch(c, mode, work[w].rev), ClaimLaunch(w, c, mode), Goto(w, "verify")
      PROVE  ResumeInv'
  <2>1. ~InFlight(c)
    BY <1>3 DEF CanClaimLaunch, LaunchClaimable, InFlight
  <2>2. /\ launch'[c].attempts = 0 /\ \A d \in Campaigns \ {c} : launch'[d] = launch[d]
        /\ resumes'[c] = 0 /\ \A d \in Campaigns \ {c} : resumes'[d] = resumes[d]
    BY <1>1, <1>3 DEF ClaimLaunch
  <2>3. Elsewhere(w)
    BY <1>1, <1>3, ElsewhereIs
  <2>4. ASSUME NEW v \in Workers, v # w, work[v].pc = "resume" PROVE work[v].on \in Campaigns \ {c}
    <3>1. work[v].on \in Campaigns /\ InFlight(work[v].on)
      BY <1>1, <2>4, WhereOK DEF ResumeInv, ResumeHeld, InFlight
    <3> QED  BY <2>1, <3>1
  <2>5. \A v \in Workers : ResumeHeld(v)'
    BY <2>2, <2>3, <2>4 DEF ResumeInv, ResumeHeld, Elsewhere
  <2>6. Counted(c)'
    <3>1. \A v \in Workers : ~AtResume(v, c)'
      BY <2>3, <2>4 DEF Elsewhere, AtResume
    <3> QED  BY <2>2, <3>1 DEF Counted
  <2>7. ASSUME NEW d \in Campaigns \ {c} PROVE Counted(d)'
    BY <2>2, <2>3 DEF ResumeInv, Counted, InFlight, AtResume, Elsewhere
  <2> QED  BY <2>5, <2>6, <2>7 DEF ResumeInv
<1> QED  BY <1>2, <1>3 DEF ClaimCampaignLaunch

LEMMA AttemptCounts ==
  ASSUME ResumeInv, CoreTypeOK', NEW w \in Workers, AttemptLaunch(w)
  PROVE  ResumeInv'
<1> SUFFICES ASSUME NEW c \in Campaigns, c = work[w].on PROVE ResumeInv'
  BY TypeParts, WhereOK DEF ResumeInv
<1>1. work \in [Workers -> Job] /\ launch \in [Campaigns -> LaunchRow] /\ resumes \in [Campaigns -> Nat] /\ WorkOK
  BY TypeParts DEF ResumeInv, WorkOK, LaunchesOK, RestOK
<1>2. CASE GiveUp(w)
  BY <1>2, GiveUpCalm, CalmStep DEF ResumeInv
<1>3. CASE AttemptAllowed(w, c) /\ MarkAttempt(c) /\ Goto(w, "resume") /\ UNCHANGED history
  <2>1. launch[c].holder = w /\ InFlight(c) /\ launch[c].attempts \in 0..2 /\ launch[c].attempts < 2
    BY <1>1, <1>3 DEF AttemptAllowed, LaunchFence, LaunchRow
  <2>2. /\ launch'[c].state = "launching" /\ launch'[c].attempts = launch[c].attempts + 1
        /\ launch'[c].retry = LaunchLease /\ launch'[c].holder = w
        /\ \A d \in Campaigns \ {c} : launch'[d] = launch[d]
    <3> DEFINE attempts == launch[c].attempts + 1
    <3>1. launch' = [launch EXCEPT ![c].state = "launching", ![c].attempts = attempts, ![c].retry = LaunchLease]
      BY <1>1, <1>3 DEF MarkAttempt, LaunchRow
    <3> HIDE DEF attempts
    <3>2. /\ launch'[c].state = "launching" /\ launch'[c].attempts = attempts
          /\ launch'[c].retry = LaunchLease /\ launch'[c].holder = launch[c].holder
          /\ \A d \in Campaigns \ {c} : launch'[d] = launch[d]
      BY <1>1, <3>1, ZenonT(60) DEF LaunchRow
    <3> QED  BY <2>1, <3>2 DEF attempts
  <2>3. work'[w].pc = "resume" /\ work'[w].on = c /\ \A v \in Workers \ {w} : work'[v] = work[v]
    BY <1>1, <1>3 DEF Goto, Job
  <2>4. ASSUME NEW v \in Workers, v # w, work[v].pc = "resume" PROVE work[v].on \in Campaigns \ {c}
    BY <1>1, <2>1, <2>4, WhereOK DEF ResumeInv, ResumeHeld
  <2>5. ASSUME NEW v \in Workers PROVE ResumeHeld(v)'
    <3>1. CASE v = w
      BY <2>2, <2>3, <3>1, LeaseAssumption DEF ResumeHeld
    <3>2. CASE v # w
      BY <2>2, <2>3, <2>4, <3>2 DEF ResumeInv, ResumeHeld
    <3> QED  BY <3>1, <3>2
  <2>6. resumes'[c] = resumes[c] /\ resumes[c] \in Nat /\ \A d \in Campaigns : resumes'[d] = resumes[d]
    BY <1>1, <1>3 DEF history
  <2>7. Counted(c)'
    <3>1. resumes[c] <= 2 /\ resumes[c] <= launch[c].attempts
      BY <2>1 DEF ResumeInv, Counted
    <3> QED  BY <2>1, <2>2, <2>6, <3>1 DEF Counted
  <2>8. ASSUME NEW d \in Campaigns \ {c} PROVE Counted(d)'
    BY <2>2, <2>3, <2>6 DEF ResumeInv, Counted, InFlight, AtResume
  <2> QED  BY <2>5, <2>7, <2>8 DEF ResumeInv
<1> QED  BY <1>2, <1>3 DEF AttemptLaunch

LEMMA ResumeCounts ==
  ASSUME ResumeInv, CoreTypeOK', NEW w \in Workers, Resume(w)
  PROVE  ResumeInv'
<1> SUFFICES ASSUME NEW c \in Campaigns, c = work[w].on PROVE ResumeInv'
  BY TypeParts, WhereOK DEF ResumeInv
<1>1. work \in [Workers -> Job] /\ launch \in [Campaigns -> LaunchRow] /\ resumes \in [Campaigns -> Nat] /\ WorkOK
  BY TypeParts DEF ResumeInv, WorkOK, LaunchesOK, RestOK
<1>2. launch[c].holder = w /\ InFlight(c) /\ launch[c].attempts \in 0..2 /\ resumes[c] < launch[c].attempts
  BY <1>1 DEF Resume, At, ResumeInv, ResumeHeld, Counted, AtResume, InFlight, LaunchRow
<1>3. /\ UNCHANGED launch /\ resumes'[c] = resumes[c] + 1 /\ \A d \in Campaigns \ {c} : resumes'[d] = resumes[d]
      /\ Elsewhere(w)
  BY <1>1, ElsewhereIs DEF Resume
<1>4. ASSUME NEW v \in Workers PROVE ResumeHeld(v)'
  BY <1>3 DEF ResumeInv, ResumeHeld, Elsewhere
<1>5. Counted(c)'
  <2>1. \A v \in Workers : ~AtResume(v, c)'
    BY <1>2, <1>3 DEF ResumeInv, ResumeHeld, Elsewhere, AtResume
  <2>2. resumes[c] \in Nat /\ launch[c].attempts \in Nat /\ launch[c].attempts <= 2
    BY <1>1, <1>2
  <2>3. resumes'[c] <= launch'[c].attempts /\ resumes'[c] <= 2
    BY <1>2, <1>3, <2>2
  <2> QED  BY <2>1, <2>3 DEF Counted
<1>6. ASSUME NEW d \in Campaigns \ {c} PROVE Counted(d)'
  BY <1>3 DEF ResumeInv, Counted, InFlight, AtResume, Elsewhere
<1> QED  BY <1>4, <1>5, <1>6 DEF ResumeInv

LEMMA TickCounts ==
  ASSUME ResumeInv, CoreTypeOK', Tick
  PROVE  ResumeInv'
<1>1. work \in [Workers -> Job] /\ launch \in [Campaigns -> LaunchRow]
  BY TypeParts DEF ResumeInv, WorkOK, LaunchesOK
<1>2. \A w \in Workers : work'[w].pc # "resume"
  BY <1>1 DEF Tick, Job
<1>3. \A c \in Campaigns : launch'[c].state = launch[c].state /\ launch'[c].attempts = launch[c].attempts
                           /\ resumes'[c] = resumes[c]
  BY <1>1 DEF Tick, LaunchRow, history
<1> QED  BY <1>2, <1>3 DEF ResumeInv, ResumeHeld, Counted, InFlight, AtResume

LEMMA ResumeNext == ResumeInv /\ [Next]_core => ResumeInv'
<1> SUFFICES ASSUME ResumeInv, [Next]_core PROVE ResumeInv'
  OBVIOUS
<1>1. CoreTypeOK /\ CoreTypeOK' /\ mix.on \subseteq Campaigns
  BY NextOK, MixOK, TypeParts DEF ResumeInv, RestOK
<1>2. ASSUME UNCHANGED <<launch, work, resumes>> PROVE ResumeInv'
  BY <1>1, <1>2 DEF ResumeInv, ResumeHeld, Counted, InFlight, AtResume
<1>3. ASSUME NEW w \in Workers, Work(w) \/ Failing(w) PROVE ResumeInv'
  BY <1>1, <1>3, GraphCalm, LaunchCalm, OthersCalm, CalmStep, ClaimCounts, AttemptCounts, ResumeCounts DEF Work
<1>4. ASSUME NEW w \in Workers, NEW c \in mix.on, Starting(w, c) PROVE ResumeInv'
  BY <1>1, <1>4, OthersCalm, CalmStep
<1>5. ASSUME NEW c \in mix.on,
             \/ GrantDirectAutoLaunchConsent(c) \/ RevokeDirectAutoLaunchConsent(c)
             \/ Moderated(c) \/ ResumeArrives(c) \/ ChangedOutside(c)
      PROVE  ResumeInv'
  BY <1>2, <1>5 DEF GrantDirectAutoLaunchConsent, RevokeDirectAutoLaunchConsent, ConsentOnly, Moderated, ResumeArrives,
     ChangedOutside, history
<1>6. CASE RevokeDirectConnection \/ ReplaceDirectConnection \/ UNCHANGED core
  BY <1>2, <1>6 DEF RevokeDirectConnection, ReplaceDirectConnection, ConnectionOnly, history, core
<1>7. CASE Tick
  BY <1>1, <1>7, TickCounts
<1> QED  BY <1>3, <1>4, <1>5, <1>6, <1>7 DEF Next

\* Every Resume call is made under the claim of its launch and was counted before.
THEOREM ResumeInvariant == Spec => []ResumeInv
<1>1. CoreInit => ResumeInv
  <2> SUFFICES ASSUME CoreInit PROVE ResumeInv
    OBVIOUS
  <2>1. \A w \in Workers : work[w].pc = "idle"
    BY DEF CoreInit, Idle
  <2>2. \A c \in Campaigns : launch[c].state = "idle" /\ resumes[c] = 0
    BY DEF CoreInit, NoLaunch
  <2> QED  BY <2>1, <2>2, CoreInitOK DEF ResumeInv, ResumeHeld, Counted, InFlight
<1> QED  BY <1>1, ResumeNext, PTL DEF Spec

\* However often a launch is recovered, the provider is asked at most two times to resume the
\* campaign, and never by two goroutines at once.
THEOREM ResumesAreBounded == Spec => []ResumeBounded
<1>1. ResumeInv => ResumeBounded
  <2> SUFFICES ASSUME ResumeInv, NEW c \in Campaigns
               PROVE  /\ resumes[c] <= 2
                      /\ Cardinality({w \in Workers : work[w].on = c /\ work[w].pc = "resume"}) <= 1
    BY DEF ResumeBounded
  <2> DEFINE there == {w \in Workers : work[w].on = c /\ work[w].pc = "resume"}
  <2>1. there \subseteq {launch[c].holder}
    BY DEF ResumeInv, ResumeHeld
  <2>2. IsFiniteSet({launch[c].holder}) /\ Cardinality({launch[c].holder}) = 1
    BY FS_Singleton
  <2>3. Cardinality(there) <= 1
    BY <2>1, <2>2, FS_Subset
  <2> QED  BY <2>3 DEF ResumeInv, Counted
<1> QED  BY <1>1, ResumeInvariant, PTL
----------------------------------------------------------------------------
(* Budgets. *)

\* A budget is, or may be, spent: by the launch row, or at the provider.
Claimed(c) == launch[c].state # "idle" \/ Spending(c)
Running(c) == row[c].status \in {"active", "suspended"}

\* The revision that spends was asked for, by hand or by a consent that the claim has spent.
AskedFor(c) ==
  \E mode \in {"manual", "auto"} : <<row[c].revision, mode>> \in asked[c] /\ (mode = "auto" => row[c].consent = 0)

\* As long as the connection can be used, what is spent shows in the launch row.
SpentSound(c) ==
  /\ Spending(c) \/ Running(c) => launch[c].state # "idle" \/ ~Usable(c)
  /\ row[c].consent # 0 => <<row[c].consent, "auto">> \in asked[c]
  /\ Claimed(c) => row[c].revision # 0 /\ AskedFor(c)

\* What a goroutine believes to have seen is so; an owner's launch is one he asked for; and a launch
\* is given back only after its connection was refused.
Named(w) ==
  LET c == work[w].on IN
  /\ work[w].saw.state = "ON" => account[c].state = "ON"
  /\ work[w].job = "launch" => <<work[w].rev, "manual">> \in asked[c]
  /\ work[w].pc = "abort" => ~Usable(c)

\* The campaigns of a workspace share a connection, and a connection that was replaced does not return.
Connected ==
  /\ \A c, d \in Campaigns : row[c].connection = row[d].connection
  /\ \A c \in Campaigns : row[c].connection <= conn.id

Spent == {c \in Campaigns : Claimed(c)}
SpendInv ==
  /\ GraphInv /\ ResumeInv /\ Connected
  /\ Undisturbed =>
       /\ \A w \in Workers : Named(w)
       /\ \A c \in Campaigns : SpentSound(c)
       /\ Cardinality(Spent) <= Cap
----------------------------------------------------------------------------
\* A step that begins no launch: it spends nothing new on d, and forgets nothing that is spent
\* while the connection can be used.
Saves(d) ==
  /\ Spending(d)' => Spending(d) \/ launch[d].state # "idle"
  /\ launch'[d].state # "idle" => launch[d].state # "idle"
  /\ launch[d].state # "idle" => launch'[d].state # "idle" \/ ~Usable(d)'
  /\ asked[d] \subseteq asked'[d] /\ row'[d].consent \in {row[d].consent, 0}
  /\ row'[d].revision = row[d].revision \/ ~Claimed(d)
  /\ Running(d)' => Running(d) \/ Spending(d) \/ launch'[d].state # "idle"

LEMMA SavesSound ==
  ASSUME NEW d \in Campaigns, SpentSound(d), Saves(d), Usable(d)' => Usable(d)
  PROVE  SpentSound(d)' /\ (Claimed(d)' => Claimed(d))
<1>1. Claimed(d)' => Claimed(d)
  BY DEF Saves, Claimed
<1>2. Spending(d)' \/ Running(d)' => launch'[d].state # "idle" \/ ~Usable(d)'
  BY DEF Saves, SpentSound
<1>3. row'[d].consent # 0 => <<row'[d].consent, "auto">> \in asked'[d]
  BY DEF Saves, SpentSound
<1>4. Claimed(d)' => row'[d].revision # 0 /\ AskedFor(d)'
  <2> SUFFICES ASSUME Claimed(d)' PROVE row'[d].revision # 0 /\ AskedFor(d)'
    OBVIOUS
  <2>1. row'[d].revision = row[d].revision /\ row[d].revision # 0 /\ AskedFor(d)
    BY <1>1 DEF Saves, SpentSound
  <2>2. AskedFor(d)'
    BY <2>1 DEF AskedFor, Saves
  <2> QED  BY <2>1, <2>2
<1> QED  BY <1>1, <1>2, <1>3, <1>4 DEF SpentSound

LEMMA SpentShrinks ==
  ASSUME \A d \in Campaigns : Claimed(d)' => Claimed(d), Cardinality(Spent) <= Cap
  PROVE  Cardinality(Spent)' <= Cap
<1>1. IsFiniteSet(Spent) /\ Cardinality(Spent) \in Nat
  BY WorkerAssumption, FS_Subset, FS_CardinalityType DEF Spent
<1>2. Spent' \subseteq Spent
  BY DEF Spent
<1>3. IsFiniteSet(Spent') /\ Cardinality(Spent') <= Cardinality(Spent) /\ Cardinality(Spent') \in Nat
  BY <1>1, <1>2, FS_Subset, FS_CardinalityType
<1> QED  BY <1>1, <1>3, LeaseAssumption

LEMMA SpendStep ==
  ASSUME SpendInv, (GraphInv /\ ResumeInv)', UNCHANGED mix, Connected',
         Undisturbed => /\ \A w \in Workers : Named(w)'
                        /\ \A d \in Campaigns : Saves(d) /\ (Usable(d)' => Usable(d))
  PROVE  SpendInv'
<1>1. Undisturbed' <=> Undisturbed
  BY DEF Undisturbed
<1>2. ASSUME Undisturbed PROVE (\A c \in Campaigns : SpentSound(c)') /\ Cardinality(Spent)' <= Cap
  BY <1>2, SavesSound, SpentShrinks DEF SpendInv
<1> QED  BY <1>1, <1>2 DEF SpendInv

\* The connection stays, or it can no longer be used.
Connects ==
  /\ \A d \in Campaigns : row'[d].connection = row[d].connection
  /\ \/ conn' = conn
     \/ conn'.id = conn.id /\ conn'.status # "active"
     \/ conn'.id = conn.id + 1

LEMMA ConnectsIs ==
  ASSUME RowsOK, RestOK, RestOK', Connected, Connects
  PROVE  Connected' /\ \A d \in Campaigns : Usable(d)' => Usable(d)
<1>1. conn.id \in Nat /\ conn'.id \in Nat /\ \A d \in Campaigns : row[d].connection \in Nat
  BY DEF RowsOK, Row, RestOK
<1>2. conn'.id >= conn.id
  BY <1>1 DEF Connects
<1>3. Connected'
  BY <1>1, <1>2 DEF Connected, Connects
<1>4. ASSUME NEW d \in Campaigns, Usable(d)' PROVE Usable(d)
  <2>1. row[d].connection = conn'.id /\ conn'.status = "active"
    BY <1>4 DEF Usable, Connects
  <2>2. row[d].connection <= conn.id
    BY DEF Connected
  <2>3. conn' = conn
    BY <1>1, <2>1, <2>2 DEF Connects
  <2> QED  BY <2>1, <2>3 DEF Usable
<1> QED  BY <1>3, <1>4

\* What a goroutine knows stays true as long as nobody stops the campaign or withdraws what was
\* asked for by hand.
Remembers ==
  \A d \in Campaigns : /\ account[d].state = "ON" => account'[d].state = "ON"
                       /\ \A n : <<n, "manual">> \in asked[d] => <<n, "manual">> \in asked'[d]
                       /\ Usable(d)' => Usable(d)

\* A goroutine that learns something learns what is so.
Honest(w) ==
  /\ work'[w].saw.state = "ON" =>
       work'[w].on = work[w].on /\ (work[w].saw.state = "ON" \/ account[work[w].on].state = "ON")
  /\ work'[w].job = "launch" => work[w].job = "launch" /\ work'[w].on = work[w].on /\ work'[w].rev = work[w].rev
  /\ work'[w].pc # "abort"

LEMMA StillNamed ==
  ASSUME WorkOK, Remembers, NEW w \in Workers, Named(w), work'[w] = work[w] \/ Honest(w)
  PROVE  Named(w)'
<1>1. work[w].on \in Campaigns
  BY WhereOK
<1>2. CASE work'[w] = work[w]
  BY <1>1, <1>2 DEF Named, Remembers
<1>3. CASE Honest(w)
  BY <1>1, <1>3 DEF Named, Remembers, Honest
<1> QED  BY <1>2, <1>3

\* A step of w that neither begins nor ends a launch, and changes no revision that is spent.
RowSpared(d) ==
  /\ row'[d].consent \in {row[d].consent, 0}
  /\ row'[d].revision = row[d].revision \/ ~Claimed(d)
  /\ Running(d)' => Running(d) \/ Spending(d) \/ launch'[d].state # "idle"
AccountSpared(d) == account'[d].state = account[d].state /\ account'[d].late = account[d].late
LaunchSpared(d) == (launch'[d].state # "idle") <=> (launch[d].state # "idle")
Moves(w) == Elsewhere(w) /\ Honest(w)
Spares(w) ==
  /\ Moves(w) /\ UNCHANGED asked
  /\ \A d \in Campaigns : RowSpared(d) /\ AccountSpared(d) /\ LaunchSpared(d)

LEMMA SparesStep ==
  ASSUME SpendInv, (GraphInv /\ ResumeInv)', UNCHANGED mix, Connects, NEW w \in Workers, Undisturbed => Spares(w)
  PROVE  SpendInv'
<1>1. RowsOK /\ RestOK /\ RestOK' /\ WorkOK
  BY TypeParts DEF SpendInv, GraphInv
<1>2. Connected' /\ \A d \in Campaigns : Usable(d)' => Usable(d)
  BY <1>1, ConnectsIs DEF SpendInv
<1>3. ASSUME Undisturbed, NEW v \in Workers PROVE Named(v)'
  <2>1. Remembers
    BY <1>2, <1>3 DEF Remembers, Spares, AccountSpared
  <2>2. work'[v] = work[v] \/ Honest(v)
    BY <1>3 DEF Spares, Moves, Elsewhere
  <2> QED  BY <1>1, <1>3, <2>1, <2>2, StillNamed DEF SpendInv
<1>4. ASSUME Undisturbed, NEW d \in Campaigns PROVE Saves(d)
  <2>1. Spending(d)' => Spending(d)
    BY <1>4 DEF Spares, AccountSpared, Spending, Moves, Elsewhere
  <2> QED  BY <1>4, <2>1 DEF Spares, RowSpared, LaunchSpared, Saves
<1> QED  BY <1>2, <1>3, <1>4, SpendStep

LEMMA MovesIs ==
  ASSUME WorkOK, NEW w \in Workers
  PROVE  /\ \A pc : pc \notin {"resume", "abort"} /\ Goto(w, pc) => Moves(w)
         /\ \A pc : pc \notin {"resume", "abort"} /\ See(w, pc) => Moves(w)
         /\ \A pc : pc \notin {"resume", "abort"} /\ work' = [work EXCEPT ![w].pc = pc, ![w].saw = NothingSeen] => Moves(w)
         /\ \A pc, rev : work[w].job # "launch" /\ pc \notin {"resume", "abort"}
                         /\ work' = [work EXCEPT ![w].pc = pc, ![w].rev = rev] => Moves(w)
         /\ \A pc, stage : pc \notin {"resume", "abort"} /\ work' = [work EXCEPT ![w].stage = stage, ![w].pc = pc]
              => Moves(w)
         /\ \A pc, stage : pc \notin {"resume", "abort"}
                           /\ work' = [work EXCEPT ![w].stage = stage, ![w].pc = pc, ![w].saw = NothingSeen] => Moves(w)
         /\ End(w) => Moves(w)
         /\ \A c, job, pc : job # "launch" /\ pc \notin {"resume", "abort"} /\ Start(w, c, job, pc) => Moves(w)
         /\ \A c, stage, pc : pc \notin {"resume", "abort"} /\ StartGraph(w, c, stage, pc) => Moves(w)
<1>1. work \in [Workers -> Job] /\ WorkOK
  BY DEF WorkOK
<1>2. ASSUME NEW pc, pc \notin {"resume", "abort"}, Goto(w, pc) PROVE Moves(w)
  BY <1>1, <1>2, ElsewhereIs DEF Moves, Honest, Goto, Job
<1>3. ASSUME NEW pc, NEW saw, pc \notin {"resume", "abort"}, work' = [work EXCEPT ![w].pc = pc, ![w].saw = saw],
             saw.state = "ON" => account[work[w].on].state = "ON"
      PROVE  Moves(w)
  <2>1. /\ work'[w].saw = saw /\ work'[w].on = work[w].on /\ work'[w].job = work[w].job /\ work'[w].rev = work[w].rev
        /\ work'[w].pc = pc
    BY <1>1, <1>3 DEF Job
  <2> QED  BY <1>1, <1>3, <2>1, ElsewhereIs DEF Moves, Honest
<1>4. ASSUME NEW pc, pc \notin {"resume", "abort"}, See(w, pc) PROVE Moves(w)
  <2> DEFINE saw == [moderation |-> account[work[w].on].moderation, state |-> GetGraphCampaign(work[w].on)]
  <2>1. work' = [work EXCEPT ![w].pc = pc, ![w].saw = saw]
    BY <1>4 DEF See
  <2>2. saw.state = "ON" => account[work[w].on].state = "ON"
    BY DEF GetGraphCampaign
  <2> HIDE DEF saw
  <2> QED  BY <1>3, <1>4, <2>1, <2>2
<1>5. ASSUME NEW pc, pc \notin {"resume", "abort"}, work' = [work EXCEPT ![w].pc = pc, ![w].saw = NothingSeen]
      PROVE  Moves(w)
  <2>1. NothingSeen.state # "ON"
    BY DEF NothingSeen
  <2> QED  BY <1>3, <1>5, <2>1
<1>6. ASSUME NEW pc, NEW rev, work[w].job # "launch", pc \notin {"resume", "abort"},
             work' = [work EXCEPT ![w].pc = pc, ![w].rev = rev]
      PROVE  Moves(w)
  <2>1. /\ work'[w].saw = work[w].saw /\ work'[w].on = work[w].on /\ work'[w].job = work[w].job /\ work'[w].pc = pc
    BY <1>1, <1>6 DEF Job
  <2> QED  BY <1>1, <1>6, <2>1, ElsewhereIs DEF Moves, Honest
<1>7. ASSUME NEW pc, NEW stage, pc \notin {"resume", "abort"},
             work' = [work EXCEPT ![w].stage = stage, ![w].pc = pc]
      PROVE  Moves(w)
  <2>1. /\ work'[w].saw = work[w].saw /\ work'[w].on = work[w].on /\ work'[w].job = work[w].job
        /\ work'[w].rev = work[w].rev /\ work'[w].pc = pc
    BY <1>1, <1>7 DEF Job
  <2> QED  BY <1>1, <1>7, <2>1, ElsewhereIs DEF Moves, Honest
<1>8. ASSUME NEW pc, NEW stage, pc \notin {"resume", "abort"},
             work' = [work EXCEPT ![w].stage = stage, ![w].pc = pc, ![w].saw = NothingSeen]
      PROVE  Moves(w)
  <2>1. /\ work'[w].saw = NothingSeen /\ work'[w].on = work[w].on /\ work'[w].job = work[w].job
        /\ work'[w].rev = work[w].rev /\ work'[w].pc = pc
    BY <1>1, <1>8 DEF Job
  <2>2. NothingSeen.state # "ON"
    BY DEF NothingSeen
  <2> QED  BY <1>1, <1>8, <2>1, <2>2, ElsewhereIs DEF Moves, Honest
<1>9. ASSUME NEW job, job.saw = NothingSeen, job.job # "launch", job.pc \notin {"resume", "abort"},
             work' = [work EXCEPT ![w] = job]
      PROVE  Moves(w)
  <2>1. NothingSeen.state # "ON" /\ work'[w] = job /\ \A v \in Workers \ {w} : work'[v] = work[v]
    BY <1>1, <1>9 DEF NothingSeen
  <2> QED  BY <1>9, <2>1 DEF Moves, Honest, Elsewhere
<1>10. End(w) => Moves(w)
  BY <1>9 DEF End, Idle
<1>11. ASSUME NEW c, NEW job, NEW pc, job # "launch", pc \notin {"resume", "abort"}, Start(w, c, job, pc) PROVE Moves(w)
  BY <1>9, <1>11 DEF Start
<1>12. ASSUME NEW c, NEW stage, NEW pc, pc \notin {"resume", "abort"}, StartGraph(w, c, stage, pc) PROVE Moves(w)
  BY <1>9, <1>12 DEF StartGraph
<1> QED  BY <1>2, <1>4, <1>5, <1>6, <1>7, <1>8, <1>10, <1>11, <1>12

LEMMA AccountsSpared ==
  ASSUME AccountsOK, NEW c \in Campaigns
  PROVE  /\ UNCHANGED account => \A d \in Campaigns : AccountSpared(d)
         /\ \A node \in Nodes, k \in Contents, duplicate \in BOOLEAN :
              account' = Put(c, node, k, duplicate) => \A d \in Campaigns : AccountSpared(d)
         /\ \A k \in Contents : account' = UpdateResponsiveAds(c, k) => \A d \in Campaigns : AccountSpared(d)
         /\ account' = ModerateAds(c) => \A d \in Campaigns : AccountSpared(d)
<1>1. account \in [Campaigns -> Account]
  BY DEF AccountsOK
<1>2. ASSUME NEW node \in Nodes, NEW k \in Contents, NEW duplicate \in BOOLEAN, account' = Put(c, node, k, duplicate)
      PROVE  \A d \in Campaigns : AccountSpared(d)
  <2> DEFINE put == [account EXCEPT ![c].content[node] = k]
             twice == IF duplicate THEN account[c].twice \cup {node} ELSE account[c].twice
  <2>1. put \in [Campaigns -> Account]
    BY <1>1, AccountFields
  <2>2. account' = [put EXCEPT ![c].twice = twice]
    BY <1>1, <1>2 DEF Put, Account
  <2>3. \A d \in Campaigns : put[d].state = account[d].state /\ put[d].late = account[d].late
    BY <1>1 DEF Account
  <2> HIDE DEF put, twice
  <2>4. \A d \in Campaigns : account'[d].state = put[d].state /\ account'[d].late = put[d].late
    BY <2>1, <2>2 DEF Account
  <2> QED  BY <2>3, <2>4 DEF AccountSpared
<1>3. ASSUME NEW k \in Contents, account' = UpdateResponsiveAds(c, k) PROVE \A d \in Campaigns : AccountSpared(d)
  BY <1>1, <1>3 DEF UpdateResponsiveAds, AccountSpared, Account
<1>4. ASSUME account' = ModerateAds(c) PROVE \A d \in Campaigns : AccountSpared(d)
  BY <1>1, <1>4 DEF ModerateAds, AccountSpared, Account
<1> QED  BY <1>2, <1>3, <1>4 DEF AccountSpared

LEMMA LaunchesSpared ==
  ASSUME LaunchesOK, NEW w \in Workers, NEW c \in Campaigns
  PROVE  /\ UNCHANGED launch => \A d \in Campaigns : LaunchSpared(d)
         /\ Forget(w) => \A d \in Campaigns : LaunchSpared(d)
         /\ launch' = Confirmed(c) /\ launch[c].state # "idle" => \A d \in Campaigns : LaunchSpared(d)
         /\ MarkReconciling(w, c) => \A d \in Campaigns : LaunchSpared(d)
         /\ FailLaunch(w, c) => \A d \in Campaigns : LaunchSpared(d)
         /\ ClaimLaunchRecovery(w, c) => \A d \in Campaigns : LaunchSpared(d)
         /\ AttemptAllowed(w, c) /\ MarkAttempt(c) => \A d \in Campaigns : LaunchSpared(d)
<1>1. launch \in [Campaigns -> LaunchRow]
  BY DEF LaunchesOK
<1>2. UNCHANGED launch => \A d \in Campaigns : LaunchSpared(d)
  BY DEF LaunchSpared
<1>3. ASSUME Forget(w) PROVE \A d \in Campaigns : LaunchSpared(d)
  BY <1>1, <1>3 DEF Forget, ForgetLaunch, ForgetOperation, LaunchRow, LaunchSpared
<1>4. ASSUME launch' = Confirmed(c), launch[c].state # "idle" PROVE \A d \in Campaigns : LaunchSpared(d)
  BY <1>1, <1>4 DEF Confirmed, LaunchRow, LaunchSpared
<1>5. ASSUME MarkReconciling(w, c) PROVE \A d \in Campaigns : LaunchSpared(d)
  BY <1>1, <1>5 DEF MarkReconciling, LaunchFence, LaunchRow, LaunchSpared, InFlight
<1>6. ASSUME FailLaunch(w, c) PROVE \A d \in Campaigns : LaunchSpared(d)
  BY <1>1, <1>6 DEF FailLaunch, LaunchFence, LaunchRow, LaunchSpared, InFlight
<1>7. ASSUME ClaimLaunchRecovery(w, c) PROVE \A d \in Campaigns : LaunchSpared(d)
  BY <1>1, <1>7 DEF ClaimLaunchRecovery, LaunchRow, LaunchSpared
<1>8. ASSUME AttemptAllowed(w, c), MarkAttempt(c) PROVE \A d \in Campaigns : LaunchSpared(d)
  BY <1>1, <1>8 DEF AttemptAllowed, LaunchFence, MarkAttempt, LaunchRow, LaunchSpared, InFlight
<1> QED  BY <1>2, <1>3, <1>4, <1>5, <1>6, <1>7, <1>8

\* Moderation and the progress of an operation make no campaign run.
LEMMA StatusRuns ==
  /\ \A m, status : directLocalStatusForModeration(m, status) \in {"active", "suspended"}
                      => status \in {"active", "suspended"}
  /\ \A c, stage : StatusAfter(c, stage) \in {"active", "suspended"} => Running(c)
BY DEF directLocalStatusForModeration, StatusAfter, Running

LEMMA RowsSpared ==
  ASSUME RowsOK, NEW w, NEW c \in Campaigns
  PROVE  /\ UNCHANGED row => \A d \in Campaigns : RowSpared(d)
         /\ \A m, s : StoreModeration(c, m, s) => \A d \in Campaigns : RowSpared(d)
         /\ InvalidateConsent(c) => \A d \in Campaigns : RowSpared(d)
         /\ \A stage : Advanced(c, stage) => \A d \in Campaigns : RowSpared(d)
         /\ \A m : RecordVerified(c, m) /\ ~Claimed(c) => \A d \in Campaigns : RowSpared(d)
         /\ FailOperation(w, c) /\ ~Claimed(c) => \A d \in Campaigns : RowSpared(d)
<1>1. \A d \in Campaigns : SameRow(d) => RowSpared(d)
  BY DEF SameRow, RowSpared, Running
<1>2. UNCHANGED row => \A d \in Campaigns : RowSpared(d)
  BY <1>1 DEF SameRow
<1>3. ASSUME NEW m, NEW s, StoreModeration(c, m, s) PROVE \A d \in Campaigns : RowSpared(d)
  BY <1>1, <1>3, StoredRow, StatusRuns DEF RowSpared, Running
<1>4. ASSUME InvalidateConsent(c) PROVE \A d \in Campaigns : RowSpared(d)
  BY <1>1, <1>4, ConsentRow DEF InvalidateConsent, RowSpared, Running
<1>5. ASSUME NEW stage, Advanced(c, stage) PROVE \A d \in Campaigns : RowSpared(d)
  BY <1>1, <1>5, AdvancedRow, StatusRuns DEF RowSpared, Running
<1>6. ASSUME NEW m, RecordVerified(c, m), ~Claimed(c) PROVE \A d \in Campaigns : RowSpared(d)
  BY <1>1, <1>6, RecordedRow, StatusRuns DEF RowSpared, Running
<1>7. ASSUME FailOperation(w, c), ~Claimed(c) PROVE \A d \in Campaigns : RowSpared(d)
  BY <1>1, <1>7, FailedRow, StatusRuns DEF RowSpared, Running
<1> QED  BY <1>2, <1>3, <1>4, <1>5, <1>6, <1>7

\* While an operation rewrites the graph, nothing is spent on its campaign.
LEMMA NothingSpent ==
  ASSUME SpendInv, Undisturbed, NEW c \in Campaigns, Unfinished(c), op[c].stage \notin {"verified", "moderation"}
  PROVE  ~Claimed(c)
<1>1. row[c].revision = 0
  BY DEF SpendInv, GraphInv, CampaignSound, EvidenceSound
<1> QED  BY <1>1 DEF SpendInv, SpentSound

LEMMA GiveUpSpares == ASSUME CoreTypeOK, NEW w \in Workers, GiveUp(w) PROVE Spares(w)
<1>1. LaunchesOK /\ AccountsOK /\ RowsOK /\ WorkOK /\ work[w].on \in Campaigns
  BY TypeParts, WhereOK
<1>2. Moves(w) /\ UNCHANGED <<row, account, asked>> /\ Forget(w)
  BY <1>1, MovesIs DEF GiveUp, Forget, history
<1> QED  BY <1>1, <1>2, LaunchesSpared, AccountsSpared, RowsSpared DEF Spares

LEMMA GraphSpares ==
  ASSUME SpendInv, Undisturbed, NEW w \in Workers, GraphStep(w)
  PROVE  Spares(w)
<1> SUFFICES ASSUME NEW c \in Campaigns, c = work[w].on PROVE Spares(w)
  BY TypeParts, WhereOK DEF SpendInv, GraphInv
<1> DEFINE Rows == \A d \in Campaigns : RowSpared(d)
           Accounts == \A d \in Campaigns : AccountSpared(d)
           Launches == \A d \in Campaigns : LaunchSpared(d)
<1>1. CoreTypeOK /\ LaunchesOK /\ AccountsOK /\ RowsOK /\ OpsOK /\ WorkOK
  BY TypeParts DEF SpendInv, GraphInv
<1>2. Moves(w) /\ UNCHANGED asked /\ Rows /\ Accounts /\ Launches => Spares(w)
  BY DEF Spares
<1>3. /\ UNCHANGED launch => Launches
      /\ Forget(w) => Launches
  BY <1>1, LaunchesSpared
<1>4. /\ UNCHANGED account => Accounts
      /\ \A node \in Nodes, k \in Contents, duplicate \in BOOLEAN : account' = Put(c, node, k, duplicate) => Accounts
      /\ \A k \in Contents : account' = UpdateResponsiveAds(c, k) => Accounts
      /\ account' = ModerateAds(c) => Accounts
  BY <1>1, AccountsSpared
<1>5. /\ UNCHANGED row => Rows
      /\ \A stage : Advanced(c, stage) => Rows
      /\ \A m : RecordVerified(c, m) /\ ~Claimed(c) => Rows
      /\ FailOperation(w, c) /\ ~Claimed(c) => Rows
  BY <1>1, RowsSpared
<1>6. /\ \A pc : pc \notin {"resume", "abort"} /\ Goto(w, pc) => Moves(w)
      /\ \A pc : pc \notin {"resume", "abort"} /\ See(w, pc) => Moves(w)
      /\ \A pc, stage : pc \notin {"resume", "abort"} /\ work' = [work EXCEPT ![w].stage = stage, ![w].pc = pc]
           => Moves(w)
      /\ \A pc, stage : pc \notin {"resume", "abort"}
                        /\ work' = [work EXCEPT ![w].stage = stage, ![w].pc = pc, ![w].saw = NothingSeen] => Moves(w)
      /\ End(w) => Moves(w)
  BY <1>1, MovesIs
<1> HIDE DEF Rows, Accounts, Launches
<1>7. ASSUME NEW pc, pc \notin {"resume", "abort"}, GoOn(w, pc) \/ See(w, pc) PROVE Spares(w)
  BY <1>2, <1>3, <1>4, <1>5, <1>6, <1>7 DEF GoOn, See, Untouched, history
<1>8. ASSUME NEW pc, pc \notin {"resume", "abort"}, Goto(w, pc), OnlyAccount, Accounts PROVE Spares(w)
  BY <1>2, <1>3, <1>5, <1>6, <1>8 DEF OnlyAccount, history
<1>9. ASSUME NEW after, NEW pc, pc \notin {"resume", "abort"}, Carried(w, after, pc), account' = after => Accounts
      PROVE  Spares(w)
  BY <1>2, <1>3, <1>4, <1>5, <1>6, <1>8, <1>9 DEF Carried, Forget, history
<1>10. ASSUME NEW stage, AdvanceGraphStage(w, stage) PROVE Spares(w)
  <2>1. CASE CanAdvance(w, c, stage)
    <3> DEFINE pc == IF stage = "completed" THEN "again" ELSE "read"
    <3>1. pc \notin {"resume", "abort"} /\ work' = [work EXCEPT ![w].stage = stage, ![w].pc = pc]
      BY <1>10, <2>1 DEF AdvanceGraphStage
    <3> HIDE DEF pc
    <3>2. Moves(w)
      BY <1>6, <3>1
    <3>3. Advanced(c, stage) /\ UNCHANGED <<launch, account, asked>>
      BY <1>10, <2>1 DEF AdvanceGraphStage, history
    <3> QED  BY <1>2, <1>3, <1>4, <1>5, <3>2, <3>3
  <2>2. CASE ~CanAdvance(w, c, stage)
    BY <1>1, <1>10, <2>2, GiveUpSpares DEF AdvanceGraphStage
  <2> QED  BY <2>1, <2>2
<1>11. /\ work[w].job = "graph" /\ work[w].pc # "again" => Unfinished(c) /\ work[w].stage = op[c].stage
       /\ op[c].number \in Contents /\ Mixed \in Contents
  <2>1. work[w].job = "graph" /\ work[w].pc # "again" => Unfinished(c) /\ work[w].stage = op[c].stage
    BY AtWork DEF SpendInv
  <2>2. op[c].number \in Contents
    BY <1>1, CallsOK
  <2> QED  BY <2>1, <2>2 DEF Contents
<1>12. ASSUME FailOperation(w, c), End(w), UNCHANGED <<mix, launch, syncing, conn, account, failures, history>>,
              work[w].job = "graph", work[w].pc # "again", work[w].stage = "claimed"
       PROVE  Spares(w)
  <2>1. ~Claimed(c)
    BY <1>11, <1>12, NothingSpent
  <2> QED  BY <1>2, <1>3, <1>4, <1>5, <1>6, <1>12, <2>1 DEF history
<1>13. /\ account' = CreateCampaignDraft(c, Number(w)) => Accounts
       /\ account' = CreateUnifiedAdGroup(c, Number(w)) => Accounts
       /\ account' = CreateResponsiveAd(c, Number(w)) => Accounts
       /\ \A node \in Nodes : account' = Put(c, node, Number(w), FALSE) => Accounts
       /\ account' \in AddKeywords(c, Number(w)) \cup UpdateKeywords(c, Number(w)) => Accounts
       /\ account' = UpdateUnifiedCampaigns(c, Number(w)) => Accounts
       /\ account' = UpdateUnifiedAdGroups(c, Number(w)) => Accounts
       /\ account' = UpdateResponsiveAds(c, Number(w)) => Accounts
  <2>1. Number(w) \in Contents /\ {"campaign", "group", "ad", "keywords"} = Nodes
    BY <1>11 DEF Number, Nodes
  <2>2. (account[c].content["campaign"] # Absent) \in BOOLEAN /\ (account[c].content["group"] # Absent) \in BOOLEAN
        /\ (account[c].content["ad"] # Absent) \in BOOLEAN /\ FALSE \in BOOLEAN
    OBVIOUS
  <2>3. \A node \in Nodes : account' = Put(c, node, Number(w), FALSE) => Accounts
    BY <1>4, <2>1, <2>2
  <2>4. account' \in AddKeywords(c, Number(w)) \cup UpdateKeywords(c, Number(w)) => Accounts
    BY <1>4, <1>11, <2>1, <2>2 DEF AddKeywords, UpdateKeywords
  <2>5. /\ account' = CreateCampaignDraft(c, Number(w)) => Accounts
        /\ account' = CreateUnifiedAdGroup(c, Number(w)) => Accounts
        /\ account' = CreateResponsiveAd(c, Number(w)) => Accounts
    BY <1>4, <2>1, <2>2 DEF CreateCampaignDraft, CreateUnifiedAdGroup, CreateResponsiveAd, Create
  <2>6. /\ account' = UpdateUnifiedCampaigns(c, Number(w)) => Accounts
        /\ account' = UpdateUnifiedAdGroups(c, Number(w)) => Accounts
        /\ account' = UpdateResponsiveAds(c, Number(w)) => Accounts
    BY <1>4, <2>1, <2>3 DEF UpdateUnifiedCampaigns, UpdateUnifiedAdGroups
  <2> QED  BY <2>3, <2>4, <2>5, <2>6
<1>14. CASE LoadMaterial(w) \/ RecordStage(w) \/ ObserveGraph(w) \/ Complete(w)
  BY <1>1, <1>14, <1>7, <1>10, GiveUpSpares DEF LoadMaterial, RecordStage, ObserveGraph, Complete
<1>15. CASE RequestModeration(w)
  BY <1>1, <1>15, <1>4, <1>7, <1>8, <1>9, <1>10, GiveUpSpares DEF RequestModeration
<1>16. CASE RecordGraph(w)
  <2>1. ASSUME RecordVerified(c, work[w].saw.moderation), work[w].job = "graph", work[w].pc = "record",
               work[w].stage = "observed",
               work' = [work EXCEPT ![w].stage = "verified", ![w].pc = "load", ![w].saw = NothingSeen],
               UNCHANGED <<mix, launch, syncing, conn, account, failures, history>>
        PROVE  Spares(w)
    <3>1. ~Claimed(c)
      BY <1>11, <2>1, NothingSpent
    <3>2. Moves(w)
      <4> DEFINE pc == "load"  stage == "verified"
      <4>1. pc \notin {"resume", "abort"} /\ work' = [work EXCEPT ![w].stage = stage, ![w].pc = pc, ![w].saw = NothingSeen]
        BY <2>1
      <4> HIDE DEF pc, stage
      <4> QED  BY <1>6, <4>1
    <3>3. Rows
      BY <1>5, <2>1, <3>1
    <3> QED  BY <1>2, <1>3, <1>4, <2>1, <3>2, <3>3 DEF history
  <2> QED  BY <1>1, <1>16, <1>7, <2>1, GiveUpSpares DEF RecordGraph
<1>17. CASE SubmissionStep(w)
  <2>1. CASE FindCampaign(w) \/ FindAdGroup(w)
    BY <1>1, <2>1, <1>7, GiveUpSpares DEF FindCampaign, FindAdGroup
  <2>2. CASE ReadAd(w) \/ ConfirmAd(w) \/ ReadKeywords(w) \/ ConfirmKeywords(w)
    BY <1>1, <2>2, <1>7, GiveUpSpares DEF ReadAd, ConfirmAd, ReadKeywords, ConfirmKeywords, FindAd, FindKeywords
  <2>3. CASE CreateCampaign(w) \/ CreateAdGroup(w) \/ RefuseCampaign(w)
    BY <2>3, <1>4, <1>8, <1>9, <1>13 DEF CreateCampaign, CreateAdGroup, RefuseCampaign
  <2>4. CASE CreateAd(w)
    BY <2>4, <1>4, <1>8, <1>9, <1>13 DEF CreateAd
  <2>6. CASE CreateKeywords(w)
    <3>1. account' = Put(c, "keywords", Number(w), FALSE) => Accounts
      BY <1>13 DEF Nodes
    <3>2. account' \in AddKeywords(c, Number(w)) \cup {account} => Accounts
      BY <1>4, <1>13
    <3>3. CASE Carried(w, Put(c, "keywords", Number(w), FALSE), "confirm")
      <4> DEFINE after == Put(c, "keywords", Number(w), FALSE)
      <4>1. Carried(w, after, "confirm") /\ (account' = after => Accounts)
        BY <3>1, <3>3
      <4> HIDE DEF after
      <4> QED  BY <4>1, <1>9
    <3>4. CASE Goto(w, "confirm") /\ OnlyAccount /\ account' \in AddKeywords(c, Number(w)) \cup {account}
      BY <3>2, <3>4, <1>8
    <3> QED  BY <2>6, <3>3, <3>4 DEF CreateKeywords
  <2>5. CASE FailSubmissionIfAbsent(w)
    BY <1>1, <2>5, <1>12, GiveUpSpares DEF FailSubmissionIfAbsent, Doing
  <2> QED  BY <1>17, <2>1, <2>2, <2>3, <2>4, <2>5, <2>6 DEF SubmissionStep
<1>18. CASE EditStep(w)
  <2>1. ASSUME NEW stage, ReadForEdit(w, stage) \/ ConfirmEdit(w, stage) PROVE Spares(w)
    BY <1>1, <2>1, <1>7, GiveUpSpares DEF ReadForEdit, ConfirmEdit
  <2>2. ASSUME NEW stage, NEW written, NEW partly, WriteEdit(w, stage, written, partly),
               account' = written => Accounts, account' \in partly => Accounts
        PROVE  Spares(w)
    BY <2>2, <1>4, <1>8, <1>9 DEF WriteEdit
  <2>3. CASE RefuseUpdate(w)
    BY <2>3, <1>4, <1>8, <1>13 DEF RefuseUpdate
  <2>4. CASE FailUpdateIfUnchanged(w)
    BY <1>1, <2>4, <1>12, GiveUpSpares DEF FailUpdateIfUnchanged, Doing
  <2>5. CASE UpdateCampaign(w)
    BY <2>5, <2>1, <2>2, <1>13 DEF UpdateCampaign
  <2>6. CASE UpdateAdGroup(w)
    BY <2>6, <2>1, <2>2, <1>13 DEF UpdateAdGroup
  <2>7. CASE UpdateAd(w)
    BY <2>7, <2>1, <2>2, <1>13 DEF UpdateAd
  <2>8. CASE ReplaceKeywords(w)
    <3>1. account' = Put(c, "keywords", Number(w), FALSE) => Accounts
      BY <1>13 DEF Nodes
    <3>2. account' \in UpdateKeywords(c, Number(w)) => Accounts
      BY <1>13
    <3> QED  BY <2>8, <3>1, <3>2, <2>1, <2>2 DEF ReplaceKeywords
  <2> QED  BY <1>18, <2>3, <2>4, <2>5, <2>6, <2>7, <2>8 DEF EditStep
<1> QED  BY <1>14, <1>15, <1>16, <1>17, <1>18 DEF GraphStep

\* What the provider says makes a campaign run in its row only if it runs there, or ran in the row.
LEMMA SyncSpared ==
  ASSUME CoreTypeOK, NEW c \in Campaigns, NEW seen, SyncStatus(c, seen), seen.state = "ON" => account[c].state = "ON"
  PROVE  \A d \in Campaigns : RowSpared(d) /\ LaunchSpared(d)
<1>1. LaunchesOK /\ RowsOK
  BY TypeParts
<1>2. \A d \in Campaigns : LaunchSpared(d)
  <2>1. CASE PromotesDelayed(c, seen)
    BY <1>1, <2>1 DEF SyncStatus, PromotesDelayed, Confirmed, LaunchesOK, LaunchRow, LaunchSpared
  <2>2. CASE ~PromotesDelayed(c, seen)
    BY <2>2 DEF SyncStatus, LaunchSpared
  <2> QED  BY <2>1, <2>2
<1>3. /\ \A d \in Campaigns \ {c} : SameRow(d)
      /\ row'[c].revision = row[c].revision /\ row'[c].consent = row[c].consent
      /\ row'[c].status = IF PromotesDelayed(c, seen) THEN "active" ELSE SyncedStatus(c, seen)
  BY <1>1, SyncedRow
<1>4. Running(c)' => Running(c) \/ Spending(c) \/ launch'[c].state # "idle"
  <2>1. CASE PromotesDelayed(c, seen)
    BY <1>2, <2>1 DEF PromotesDelayed, LaunchSpared
  <2>2. CASE ~PromotesDelayed(c, seen) /\ launch[c].state = "idle"
    <3>1. SyncedStatus(c, seen) \in {"active", "suspended"} => seen.state = "ON" \/ Running(c)
      BY <2>2 DEF SyncedStatus, StatusFromLifecycle, Running
    <3> QED  BY <1>3, <2>2, <3>1 DEF Running, Spending
  <2>3. CASE ~PromotesDelayed(c, seen) /\ launch[c].state # "idle"
    BY <1>2, <2>3 DEF LaunchSpared
  <2> QED  BY <2>1, <2>2, <2>3
<1>5. \A d \in Campaigns : RowSpared(d)
  BY <1>3, <1>4 DEF RowSpared, SameRow, Running
<1> QED  BY <1>2, <1>5

LEMMA LaunchSpares ==
  ASSUME SpendInv, Undisturbed, NEW w \in Workers, LaunchStep(w) \/ SyncStep(w),
         ~ClaimCampaignLaunch(w), ~AttemptLaunch(w), ~Resume(w), ~AbortLaunch(w)
  PROVE  Spares(w)
<1> SUFFICES ASSUME NEW c \in Campaigns, c = work[w].on PROVE Spares(w)
  BY TypeParts, WhereOK DEF SpendInv, GraphInv
<1> DEFINE Rows == \A d \in Campaigns : RowSpared(d)
           Accounts == \A d \in Campaigns : AccountSpared(d)
           Launches == \A d \in Campaigns : LaunchSpared(d)
<1>1. CoreTypeOK /\ LaunchesOK /\ AccountsOK /\ RowsOK /\ WorkOK
  BY TypeParts DEF SpendInv, GraphInv
<1>2. Moves(w) /\ UNCHANGED asked /\ Rows /\ Accounts /\ Launches => Spares(w)
  BY DEF Spares
<1>3. /\ UNCHANGED launch => Launches
      /\ Forget(w) => Launches
      /\ launch' = Confirmed(c) /\ launch[c].state # "idle" => Launches
      /\ MarkReconciling(w, c) => Launches
      /\ FailLaunch(w, c) => Launches
  BY <1>1, LaunchesSpared
<1>4. UNCHANGED account => Accounts
  BY <1>1, AccountsSpared
<1>5. /\ UNCHANGED row => Rows
      /\ \A m, s : StoreModeration(c, m, s) => Rows
      /\ InvalidateConsent(c) => Rows
  BY <1>1, RowsSpared
<1>6. SyncStatus(c, work[w].saw) => Rows /\ Launches
  BY <1>1, SyncSpared DEF SpendInv, Named
<1>7. CompleteLaunch(w, c) => Rows /\ Launches
  <2> SUFFICES ASSUME CompleteLaunch(w, c) PROVE Rows /\ Launches
    OBVIOUS
  <2>1. Launches /\ launch'[c].state # "idle"
    BY <1>1, <1>3 DEF CompleteLaunch, LaunchFence, InFlight, Confirmed, LaunchesOK, LaunchRow
  <2>2. Rows
    BY <1>1, <2>1, CompletedRow DEF RowSpared, SameRow, Running
  <2> QED  BY <2>1, <2>2
<1>8. /\ \A pc : pc \notin {"resume", "abort"} /\ Goto(w, pc) => Moves(w)
      /\ \A pc : pc \notin {"resume", "abort"} /\ See(w, pc) => Moves(w)
      /\ \A pc : pc \notin {"resume", "abort"} /\ work' = [work EXCEPT ![w].pc = pc, ![w].saw = NothingSeen] => Moves(w)
      /\ \A pc, rev : work[w].job # "launch" /\ pc \notin {"resume", "abort"}
                      /\ work' = [work EXCEPT ![w].pc = pc, ![w].rev = rev] => Moves(w)
      /\ End(w) => Moves(w)
  BY <1>1, MovesIs
<1> HIDE DEF Rows, Accounts, Launches
<1>9. ASSUME NEW pc, pc \notin {"resume", "abort"}, GoOn(w, pc) \/ See(w, pc) PROVE Spares(w)
  BY <1>2, <1>3, <1>4, <1>5, <1>8, <1>9 DEF GoOn, See, Untouched, history
<1>10. ASSUME NEW pc, pc \notin {"resume", "abort"}, work' = [work EXCEPT ![w].pc = pc, ![w].saw = NothingSeen],
              Rows, Launches, UNCHANGED <<account, asked>>
       PROVE  Spares(w)
  BY <1>2, <1>4, <1>8, <1>10
<1>11. CASE CheckLaunch(w)
  <2>1. ASSUME Forget(w), IF work[w].job = "auto" THEN InvalidateConsent(c) ELSE UNCHANGED row,
               UNCHANGED <<mix, conn, account, failures, history>>
        PROVE  Spares(w)
    BY <1>2, <1>3, <1>4, <1>5, <1>8, <2>1 DEF Forget, history
  <2> QED  BY <1>1, <1>9, <1>11, <2>1, GiveUpSpares DEF CheckLaunch
<1>12. CASE SyncBeforeLaunch(w)
  BY <1>1, <1>2, <1>4, <1>6, <1>8, <1>12, GiveUpSpares DEF SyncBeforeLaunch, history
<1>13. CASE PersistModeration(w)
  BY <1>1, <1>3, <1>5, <1>10, <1>13, GiveUpSpares DEF PersistModeration, history
<1>14. CASE VerifyLaunch(w) \/ LoadRecovery(w) \/ ReadRecovery(w)
  BY <1>1, <1>9, <1>14, GiveUpSpares DEF VerifyLaunch, LoadRecovery, ReadRecovery
<1>15. CASE ConfirmLaunch(w)
  BY <1>1, <1>2, <1>4, <1>7, <1>8, <1>15, GiveUpSpares DEF ConfirmLaunch, history
<1>16. CASE ReconcileLater(w)
  BY <1>1, <1>2, <1>3, <1>4, <1>5, <1>8, <1>16 DEF ReconcileLater, history
<1>17. CASE SettleLaunch(w)
  BY <1>1, <1>2, <1>4, <1>6, <1>8, <1>10, <1>17, GiveUpSpares DEF SettleLaunch, history
<1>18. CASE RetryOrFail(w)
  BY <1>1, <1>2, <1>3, <1>4, <1>5, <1>8, <1>9, <1>18, GiveUpSpares DEF RetryOrFail, history
<1>19. LeaveSync(w) => Spares(w)
  BY <1>2, <1>3, <1>4, <1>5, <1>8 DEF LeaveSync, history
<1>20. CASE SyncAfterOperation(w)
  <2>1. ASSUME work' = [work EXCEPT ![w].job = "sync", ![w].pc = "load", ![w].rev = row[c].revision,
                                    ![w].left = LaunchLease - 1]
        PROVE  Moves(w)
    <3> DEFINE rev == row[c].revision  left == LaunchLease - 1
    <3>1. work' = [work EXCEPT ![w].job = "sync", ![w].pc = "load", ![w].rev = rev, ![w].left = left]
      BY <2>1
    <3> HIDE DEF rev, left
    <3> QED  BY <1>1, <3>1 DEF WorkOK, Job, Moves, Elsewhere, Honest
  <2> QED  BY <1>1, <1>2, <1>3, <1>4, <1>5, <1>20, <2>1, GiveUpSpares DEF SyncAfterOperation, history
<1>21. CASE LoadSync(w)
  <2>1. ASSUME work[w].job = "sync", work' = [work EXCEPT ![w].pc = "read", ![w].rev = row[c].revision], Untouched
        PROVE  Spares(w)
    <3> DEFINE pc == "read"  rev == row[c].revision
    <3>1. work[w].job # "launch" /\ pc \notin {"resume", "abort"} /\ work' = [work EXCEPT ![w].pc = pc, ![w].rev = rev]
      BY <2>1
    <3> HIDE DEF pc, rev
    <3>2. Moves(w)
      BY <1>8, <3>1
    <3> QED  BY <1>2, <1>3, <1>4, <1>5, <2>1, <3>2 DEF Untouched, history
  <2> QED  BY <1>19, <1>21, <2>1 DEF LoadSync, At
<1>22. CASE SnapshotMismatch(w)
  BY <1>2, <1>3, <1>4, <1>5, <1>8, <1>22 DEF SnapshotMismatch, history
<1>23. CASE ReadLifecycle(w)
  BY <1>9, <1>23 DEF ReadLifecycle
<1>24. CASE PersistLifecycle(w)
  BY <1>3, <1>5, <1>10, <1>19, <1>24 DEF PersistLifecycle, history
<1>25. CASE FinishSync(w)
  BY <1>2, <1>3, <1>4, <1>5, <1>8, <1>19, <1>25 DEF FinishSync, history
<1> QED  BY <1>11, <1>12, <1>13, <1>14, <1>15, <1>16, <1>17, <1>18, <1>20, <1>21, <1>22, <1>23, <1>24, <1>25
        DEF LaunchStep, SyncStep
----------------------------------------------------------------------------
(* The steps of a launch that spend. *)

LEMMA GiveUpSpends ==
  ASSUME SpendInv, (GraphInv /\ ResumeInv)', NEW w \in Workers, GiveUp(w)
  PROVE  SpendInv'
<1>1. CoreTypeOK
  BY DEF SpendInv, GraphInv
<1>2. Connects /\ UNCHANGED mix
  BY DEF GiveUp, Connects
<1> QED  BY <1>1, <1>2, GiveUpSpares, SparesStep

\* The claim counts every budget that is or may be spent; the connection that it needs shows them all.
LEMMA ClaimSpends ==
  ASSUME SpendInv, (GraphInv /\ ResumeInv)', NEW w \in Workers, ClaimCampaignLaunch(w)
  PROVE  SpendInv'
<1> SUFFICES ASSUME NEW c \in Campaigns, c = work[w].on PROVE SpendInv'
  BY TypeParts, WhereOK DEF SpendInv, GraphInv
<1>1. CoreTypeOK /\ RowsOK /\ RestOK /\ RestOK' /\ WorkOK /\ LaunchesOK
  BY TypeParts DEF SpendInv, GraphInv
<1>2. CASE GiveUp(w)
  BY <1>2, GiveUpSpends
<1>3. ASSUME NEW mode, mode = IF work[w].job = "auto" THEN "auto" ELSE "manual",
             CanClaimLaunch(c, mode, work[w].rev), ClaimLaunch(w, c, mode), Goto(w, "verify"),
             UNCHANGED <<syncing, account, asked>>, Quiet
      PROVE  SpendInv'
  <2>1. /\ \A d \in Campaigns \ {c} : SameRow(d)
        /\ row'[c].connection = row[c].connection /\ row'[c].revision = row[c].revision
        /\ row'[c].status = row[c].status
        /\ row'[c].consent = IF mode = "auto" THEN 0 ELSE row[c].consent
    BY <1>1, <1>3, ClaimedRow
  <2>2. launch'[c].state = "launching" /\ \A d \in Campaigns \ {c} : launch'[d] = launch[d]
    BY <1>1, <1>3 DEF ClaimLaunch, LaunchesOK
  <2>3. Connects /\ UNCHANGED <<mix, conn, account, asked>>
    BY <1>3, <2>1 DEF Quiet, Connects, SameRow
  <2>4. Connected' /\ \A d \in Campaigns : Usable(d)' => Usable(d)
    BY <1>1, <2>3, ConnectsIs DEF SpendInv
  <2>5. Moves(w)
    BY <1>1, <1>3, MovesIs
  <2> SUFFICES ASSUME Undisturbed
               PROVE  /\ \A v \in Workers : Named(v)'
                      /\ \A d \in Campaigns : SpentSound(d)'
                      /\ Cardinality(Spent)' <= Cap
    BY <2>3, <2>4 DEF SpendInv, Undisturbed
  <2>6. ASSUME NEW v \in Workers PROVE Named(v)'
    BY <1>1, <2>3, <2>4, <2>5, StillNamed DEF Remembers, Moves, Elsewhere, SpendInv
  <2>7. ASSUME NEW d \in Campaigns PROVE Spending(d)' => Spending(d)
    BY <2>3, <2>5 DEF Spending, Moves, Elsewhere
  <2>8. ASSUME NEW d \in Campaigns, d # c PROVE SpentSound(d)' /\ (Claimed(d)' => Claimed(d))
    <3>1. Saves(d)
      BY <2>1, <2>2, <2>3, <2>7, <2>8 DEF Saves, SameRow, Running
    <3> QED  BY <2>4, <3>1, SavesSound DEF SpendInv
  <2>9. SpentSound(c)'
    <3>1. row[c].revision # 0 /\ row[c].revision = work[w].rev
      BY <1>3 DEF CanClaimLaunch, GraphLaunchReady, GraphEvidenceReady
    <3>2. row[c].consent # 0 => <<row[c].consent, "auto">> \in asked[c]
      BY DEF SpendInv, SpentSound
    <3>3. AskedFor(c)'
      <4>1. CASE mode = "auto"
        BY <1>3, <2>1, <2>3, <3>1, <3>2, <4>1 DEF CanClaimLaunch, ConsentMatches, AskedFor
      <4>2. CASE mode # "auto"
        <5>1. work[w].job = "launch"
          BY <1>3, <4>2 DEF ClaimCampaignLaunch, At, Launchers
        <5>2. <<row[c].revision, "manual">> \in asked[c]
          BY <3>1, <5>1 DEF SpendInv, Named
        <5> QED  BY <2>1, <2>3, <5>2 DEF AskedFor
      <4> QED  BY <4>1, <4>2
    <3> QED  BY <2>1, <2>2, <2>3, <3>1, <3>2, <3>3 DEF SpentSound
  <2>10. Cardinality(Spent)' <= Cap
    <3> DEFINE others == CommittedBudgets(c)
    <3>1. others \subseteq Campaigns /\ c \notin others
      BY DEF CommittedBudgets
    <3>2. IsFiniteSet(others) /\ Cardinality(others) \in Nat
      BY <3>1, WorkerAssumption, FS_Subset, FS_CardinalityType
    <3>3. IsFiniteSet(others \cup {c}) /\ Cardinality(others \cup {c}) = Cardinality(others) + 1
      BY <3>1, <3>2, FS_AddElement
    <3>4. \A d \in Campaigns \ {c} : Claimed(d) => d \in others
      <4> SUFFICES ASSUME NEW d \in Campaigns, d # c, Claimed(d) PROVE d \in others
        OBVIOUS
      <4>1. Usable(d)
        BY <1>3 DEF CanClaimLaunch, Usable, SpendInv, Connected
      <4>2. launch[d].state # "idle"
        BY <4>1 DEF SpendInv, SpentSound, Claimed
      <4> QED  BY <4>2 DEF CommittedBudgets
    <3>5. Spent' \subseteq others \cup {c}
      BY <2>8, <3>4 DEF Spent
    <3>6. IsFiniteSet(Spent') /\ Cardinality(Spent') <= Cardinality(others \cup {c}) /\ Cardinality(Spent') \in Nat
      BY <3>3, <3>5, FS_Subset, FS_CardinalityType
    <3>7. Cardinality(others) < Cap
      BY <1>3 DEF CanClaimLaunch
    <3> HIDE DEF others
    <3> QED  BY <3>2, <3>3, <3>6, <3>7, LeaseAssumption
  <2> QED  BY <2>6, <2>8, <2>9, <2>10
<1> QED  BY <1>2, <1>3 DEF ClaimCampaignLaunch

LEMMA AttemptSpends ==
  ASSUME SpendInv, (GraphInv /\ ResumeInv)', NEW w \in Workers, AttemptLaunch(w)
  PROVE  SpendInv'
<1> SUFFICES ASSUME NEW c \in Campaigns, c = work[w].on PROVE SpendInv'
  BY TypeParts, WhereOK DEF SpendInv, GraphInv
<1>1. CoreTypeOK /\ RowsOK /\ RestOK /\ RestOK' /\ WorkOK /\ LaunchesOK /\ work \in [Workers -> Job]
  BY TypeParts DEF SpendInv, GraphInv, WorkOK
<1>2. CASE GiveUp(w)
  BY <1>2, GiveUpSpends
<1>3. CASE AttemptAllowed(w, c) /\ MarkAttempt(c) /\ Goto(w, "resume") /\ UNCHANGED <<row, syncing, account, history>> /\ Quiet
  <2>1. UNCHANGED <<mix, row, conn, account, asked>> /\ Connects
    BY <1>3 DEF Quiet, history, Connects
  <2>2. Connected' /\ \A d \in Campaigns : Usable(d)' => Usable(d)
    BY <1>1, <2>1, ConnectsIs DEF SpendInv
  <2>3. launch[c].state # "idle" /\ \A d \in Campaigns : LaunchSpared(d)
    BY <1>1, <1>3, LaunchesSpared DEF AttemptAllowed, LaunchFence, InFlight
  <2>4. /\ work'[w].on = c /\ work'[w].pc = "resume" /\ work'[w].saw = work[w].saw /\ work'[w].job = work[w].job
        /\ work'[w].rev = work[w].rev /\ \A v \in Workers \ {w} : work'[v] = work[v]
    BY <1>1, <1>3 DEF Goto, Job
  <2>5. Honest(w)
    BY <2>4 DEF Honest
  <2>6. ASSUME Undisturbed, NEW v \in Workers PROVE Named(v)'
    BY <1>1, <2>1, <2>2, <2>4, <2>5, <2>6, StillNamed DEF Remembers, SpendInv
  <2>7. ASSUME NEW d \in Campaigns PROVE Saves(d)
    <3>1. Spending(d)' => Spending(d) \/ launch[d].state # "idle"
      BY <2>1, <2>3, <2>4 DEF Spending
    <3> QED  BY <2>1, <2>3, <3>1 DEF Saves, LaunchSpared, Running
  <2> QED  BY <2>1, <2>2, <2>6, <2>7, SpendStep
<1> QED  BY <1>2, <1>3 DEF AttemptLaunch

\* Only the claimed campaign is resumed.
LEMMA ResumeSpends ==
  ASSUME SpendInv, (GraphInv /\ ResumeInv)', NEW w \in Workers, Resume(w)
  PROVE  SpendInv'
<1> SUFFICES ASSUME NEW c \in Campaigns, c = work[w].on PROVE SpendInv'
  BY TypeParts, WhereOK DEF SpendInv, GraphInv
<1>1. CoreTypeOK /\ RowsOK /\ RestOK /\ RestOK' /\ WorkOK /\ account \in [Campaigns -> Account]
  BY TypeParts DEF SpendInv, GraphInv, AccountsOK
<1>2. UNCHANGED <<mix, row, op, launch, conn, asked>> /\ Connects
  BY DEF Resume, Connects
<1>3. Connected' /\ \A d \in Campaigns : Usable(d)' => Usable(d)
  BY <1>1, <1>2, ConnectsIs DEF SpendInv
<1>4. launch[c].state # "idle"
  BY DEF SpendInv, ResumeInv, ResumeHeld, Resume, At
<1>5. /\ \A d \in Campaigns \ {c} : account'[d] = account[d]
      /\ account[c].state = "ON" => account'[c].state = "ON"
  BY <1>1 DEF Resume, ResumeCampaign, Account
<1>6. Moves(w)
  BY <1>1, MovesIs DEF Resume
<1>7. ASSUME Undisturbed, NEW v \in Workers PROVE Named(v)'
  BY <1>1, <1>2, <1>3, <1>5, <1>6, <1>7, StillNamed DEF Remembers, Moves, Elsewhere, SpendInv
<1>8. ASSUME NEW d \in Campaigns PROVE Saves(d)
  <2>1. Spending(d)' => Spending(d) \/ launch[d].state # "idle"
    BY <1>4, <1>5, <1>6 DEF Spending, Moves, Elsewhere
  <2> QED  BY <1>2, <2>1 DEF Saves, Running
<1> QED  BY <1>2, <1>3, <1>7, <1>8, SpendStep

\* A launch is given back only when its connection can no longer be used.
LEMMA AbortSpends ==
  ASSUME SpendInv, (GraphInv /\ ResumeInv)', NEW w \in Workers, AbortLaunch(w)
  PROVE  SpendInv'
<1> SUFFICES ASSUME NEW c \in Campaigns, c = work[w].on PROVE SpendInv'
  BY TypeParts, WhereOK DEF SpendInv, GraphInv
<1>1. CoreTypeOK /\ RowsOK /\ RestOK /\ RestOK' /\ WorkOK /\ LaunchesOK
  BY TypeParts DEF SpendInv, GraphInv
<1>2. CASE GiveUp(w)
  BY <1>2, GiveUpSpends
<1>3. CASE AbortForAuthorization(w, c) /\ End(w) /\ UNCHANGED <<row, syncing, account, history>> /\ Quiet
  <2>1. UNCHANGED <<mix, row, conn, account, asked>> /\ Connects
    BY <1>3 DEF Quiet, history, Connects
  <2>2. Connected' /\ \A d \in Campaigns : Usable(d)' => Usable(d)
    BY <1>1, <2>1, ConnectsIs DEF SpendInv
  <2>3. launch'[c].state = "idle" /\ \A d \in Campaigns \ {c} : launch'[d] = launch[d]
    BY <1>1, <1>3 DEF AbortForAuthorization, LaunchesOK, NoLaunch
  <2>4. Moves(w)
    BY <1>1, <1>3, MovesIs
  <2>5. ASSUME Undisturbed, NEW v \in Workers PROVE Named(v)'
    BY <1>1, <2>1, <2>2, <2>4, <2>5, StillNamed DEF Remembers, Moves, Elsewhere, SpendInv
  <2>6. ASSUME Undisturbed, NEW d \in Campaigns PROVE Saves(d)
    <3>1. Spending(d)' => Spending(d)
      BY <2>1, <2>4 DEF Spending, Moves, Elsewhere
    <3>2. ~Usable(c)
      BY <2>6 DEF AbortLaunch, At, SpendInv, Named
    <3> QED  BY <2>1, <2>2, <2>3, <3>1, <3>2 DEF Saves, Running
  <2> QED  BY <2>1, <2>2, <2>5, <2>6, SpendStep
<1> QED  BY <1>2, <1>3 DEF AbortLaunch
----------------------------------------------------------------------------
(* Failures, requests, consents, the provider and time. *)

LEMMA FailingSpends ==
  ASSUME SpendInv, (GraphInv /\ ResumeInv)', NEW w \in Workers, Failing(w)
  PROVE  SpendInv'
<1> SUFFICES ASSUME NEW c \in Campaigns, c = work[w].on PROVE SpendInv'
  BY TypeParts, WhereOK DEF SpendInv, GraphInv
<1>1. /\ CoreTypeOK /\ RowsOK /\ RestOK /\ RestOK' /\ WorkOK /\ LaunchesOK /\ AccountsOK
      /\ work \in [Workers -> Job] /\ row \in [Campaigns -> Row] /\ conn \in [id : Nat, status : {"active", "error", "revoked"}]
  BY TypeParts DEF SpendInv, GraphInv, WorkOK, RowsOK, RestOK
<1>2. CASE ReadFails(w) \/ Stop(w)
  <2>1. UNCHANGED <<mix, row, conn, account, asked>> /\ Connects
    BY <1>2 DEF ReadFails, Stop, history, Connects
  <2>2. Moves(w)
    BY <1>1, <1>2, MovesIs DEF ReadFails, Stop, Forget
  <2>3. \A d \in Campaigns : LaunchSpared(d)
    BY <1>1, <1>2, LaunchesSpared DEF ReadFails, Stop
  <2>4. Spares(w)
    BY <1>1, <2>1, <2>2, <2>3, RowsSpared, AccountsSpared DEF Spares
  <2> QED  BY <2>1, <2>4, SparesStep
<1>3. CASE TokenRefused(w)
  <2>1. /\ \A d \in Campaigns : /\ row'[d].connection = row[d].connection /\ row'[d].revision = row[d].revision
                                /\ row'[d].status = row[d].status /\ row'[d].consent \in {row[d].consent, 0}
        /\ UNCHANGED <<mix, account, asked>>
    BY <1>1, <1>3 DEF TokenRefused, MarkAuthorizationRequired, Row, history
  <2>2. Connects /\ (conn.id = row[c].connection => conn'.status # "active")
    BY <1>1, <1>3, <2>1 DEF TokenRefused, MarkAuthorizationRequired, Connects
  <2>3. Connected' /\ \A d \in Campaigns : Usable(d)' => Usable(d)
    BY <1>1, <2>2, ConnectsIs DEF SpendInv
  <2>4. \A d \in Campaigns : LaunchSpared(d)
    BY <1>1, <1>3, LaunchesSpared DEF TokenRefused
  <2>5. Elsewhere(w)
    BY <1>1, <1>3, ElsewhereIs DEF TokenRefused, Forget
  <2>6. Honest(w) \/ (Goto(w, "abort") /\ ~Usable(c)')
    <3>1. Goto(w, "abort") => ~Usable(c)'
      BY <2>1, <2>2, <2>3 DEF Usable
    <3>2. Goto(w, "abort") \/ Moves(w)
      BY <1>1, <1>3, MovesIs DEF TokenRefused, Forget
    <3> QED  BY <3>1, <3>2 DEF Moves
  <2>7. Remembers
    BY <2>1, <2>3 DEF Remembers
  <2>8. ASSUME Undisturbed, NEW v \in Workers PROVE Named(v)'
    <3>1. CASE v # w \/ Honest(w)
      BY <1>1, <2>5, <2>7, <2>8, <3>1, StillNamed DEF Elsewhere, SpendInv
    <3>2. CASE v = w /\ Goto(w, "abort") /\ ~Usable(c)'
      <4>1. work'[w].on = c /\ work'[w].saw = work[w].saw /\ work'[w].job = work[w].job /\ work'[w].rev = work[w].rev
        BY <1>1, <3>2 DEF Goto, Job
      <4>2. Named(w)
        BY <2>8 DEF SpendInv
      <4> QED  BY <2>7, <3>2, <4>1, <4>2 DEF Named, Remembers
    <3> QED  BY <2>6, <3>1, <3>2
  <2>9. ASSUME NEW d \in Campaigns PROVE Saves(d)
    <3>1. Spending(d)' => Spending(d)
      BY <2>1, <2>5 DEF Spending, Elsewhere
    <3> QED  BY <2>1, <2>4, <3>1 DEF Saves, LaunchSpared, Running
  <2> QED  BY <2>1, <2>3, <2>8, <2>9, SpendStep
<1> QED  BY <1>2, <1>3 DEF Failing

LEMMA StartingSpends ==
  ASSUME SpendInv, (GraphInv /\ ResumeInv)', NEW w \in Workers, NEW c \in Campaigns, Starting(w, c)
  PROVE  SpendInv'
<1>1. /\ CoreTypeOK /\ RowsOK /\ RestOK /\ RestOK' /\ WorkOK /\ LaunchesOK /\ AccountsOK
      /\ row \in [Campaigns -> Row] /\ work \in [Workers -> Job]
  BY TypeParts DEF SpendInv, GraphInv, RowsOK, WorkOK
<1>2. /\ UNCHANGED row => \A d \in Campaigns : RowSpared(d)
      /\ UNCHANGED account => \A d \in Campaigns : AccountSpared(d)
      /\ UNCHANGED launch \/ ClaimLaunchRecovery(w, c) => \A d \in Campaigns : LaunchSpared(d)
  BY <1>1, RowsSpared, AccountsSpared, LaunchesSpared
<1>3. CASE SubmitDirectCampaign(w, c)
  <2>1. row' = [row EXCEPT ![c].status = "creating"] /\ UNCHANGED <<mix, launch, conn, account, asked>> /\ Moves(w)
    BY <1>1, <1>3, MovesIs DEF SubmitDirectCampaign, ClaimSubmission, KeepsClaim, history
  <2>2. /\ \A d \in Campaigns : /\ row'[d].connection = row[d].connection /\ row'[d].revision = row[d].revision
                                /\ row'[d].consent = row[d].consent
        /\ \A d \in Campaigns : Running(d)' => Running(d)
    BY <1>1, <2>1 DEF Row, Running
  <2>3. Spares(w) /\ Connects
    BY <1>2, <2>1, <2>2 DEF Spares, RowSpared, Connects
  <2> QED  BY <2>1, <2>3, SparesStep
<1>4. CASE UpdateDirectCampaign(w, c)
  <2>1. /\ row' = [row EXCEPT ![c] = WithdrawEvidence(@)] /\ UNCHANGED <<mix, launch, conn, account, asked>>
        /\ launch[c].state = "idle" /\ Usable(c)
    BY <1>4 DEF UpdateDirectCampaign, ClaimProviderEdit, KeepsClaim, history
  <2>2. Moves(w)
    BY <1>1, <1>4, MovesIs DEF UpdateDirectCampaign, ClaimProviderEdit
  <2>3. /\ \A d \in Campaigns \ {c} : SameRow(d)
        /\ row'[c].connection = row[c].connection /\ row'[c].status = row[c].status /\ row'[c].consent = 0
    BY <1>1, <2>1, WithdrawnRow
  <2>4. Connects
    BY <2>1, <2>3 DEF Connects, SameRow
  <2>5. ASSUME Undisturbed PROVE Spares(w)
    <3>1. ~Claimed(c)
      BY <2>1, <2>5 DEF SpendInv, SpentSound, Claimed
    <3>2. \A d \in Campaigns : RowSpared(d)
      BY <2>3, <3>1 DEF RowSpared, SameRow, Running
    <3> QED  BY <1>2, <2>1, <2>2, <3>2 DEF Spares
  <2> QED  BY <2>1, <2>4, <2>5, SparesStep
<1>5. CASE \/ ResubmitDirectCampaign(w, c) \/ RecoverGraph(w, c)
           \/ AutoLaunchCampaign(w, c) \/ RecoverLaunch(w, c) \/ SyncCampaign(w, c)
  <2>1. UNCHANGED <<mix, row, conn, account, asked>> /\ (UNCHANGED launch \/ ClaimLaunchRecovery(w, c))
    BY <1>5 DEF ResubmitDirectCampaign, Reclaim, RecoverGraph, ClaimGraphRecovery, TakeOver, KeepsClaim,
       AutoLaunchCampaign, RecoverLaunch, SyncCampaign, Quiet, history
  <2>2. Moves(w)
    <3>1. \/ \E stage, pc : pc \notin {"resume", "abort"} /\ StartGraph(w, c, stage, pc)
          \/ \E job, pc : job # "launch" /\ pc \notin {"resume", "abort"} /\ Start(w, c, job, pc)
      BY <1>5 DEF ResubmitDirectCampaign, Reclaim, RecoverGraph, ClaimGraphRecovery, TakeOver,
         AutoLaunchCampaign, RecoverLaunch, SyncCampaign
    <3> QED  BY <1>1, <3>1, MovesIs
  <2>3. Spares(w) /\ Connects
    BY <1>2, <2>1, <2>2 DEF Spares, Connects
  <2> QED  BY <2>1, <2>3, SparesStep
<1>6. CASE LaunchCampaign(w, c)
  <2>1. UNCHANGED <<mix, row, launch, conn, account>> /\ Connects
    BY <1>6 DEF LaunchCampaign, Connects
  <2>2. /\ asked \in [Campaigns -> SUBSET (Operations \X {"manual", "auto"})]
        /\ asked' = [asked EXCEPT ![c] = asked[c] \cup {<<row[c].revision, "manual">>}]
    BY <1>1, <1>6 DEF LaunchCampaign, RestOK
  <2>3. (\A d \in Campaigns : asked[d] \subseteq asked'[d]) /\ <<row[c].revision, "manual">> \in asked'[c]
    BY <2>2
  <2>4. Connected' /\ \A d \in Campaigns : Usable(d)' => Usable(d)
    BY <1>1, <2>1, ConnectsIs DEF SpendInv
  <2>5. /\ work'[w].on = c /\ work'[w].pc = "check" /\ work'[w].rev = row[c].revision
        /\ work'[w].saw = NothingSeen /\ NothingSeen.state # "ON"
        /\ \A v \in Workers \ {w} : work'[v] = work[v]
    BY <1>1, <1>6 DEF LaunchCampaign, Start, NothingSeen
  <2>6. ASSUME Undisturbed, NEW v \in Workers PROVE Named(v)'
    <3>1. CASE v # w
      <4>1. Remembers
        BY <2>1, <2>3, <2>4 DEF Remembers
      <4> QED  BY <1>1, <2>5, <2>6, <3>1, <4>1, StillNamed DEF SpendInv
    <3>2. CASE v = w
      BY <2>3, <2>5, <3>2 DEF Named
    <3> QED  BY <3>1, <3>2
  <2>7. ASSUME NEW d \in Campaigns PROVE Saves(d)
    <3>1. Spending(d)' => Spending(d)
      BY <2>1, <2>5 DEF Spending
    <3> QED  BY <2>1, <2>3, <3>1 DEF Saves, Running
  <2> QED  BY <2>1, <2>4, <2>6, <2>7, SpendStep
<1> QED  BY <1>3, <1>4, <1>5, <1>6 DEF Starting

\* A consent is given only to a campaign on which nothing is spent, and withdrawn before a claim spent it.
LEMMA ConsentsSpend ==
  ASSUME SpendInv, (GraphInv /\ ResumeInv)', NEW c \in Campaigns,
         GrantDirectAutoLaunchConsent(c) \/ RevokeDirectAutoLaunchConsent(c)
  PROVE  SpendInv'
<1>1. /\ RowsOK /\ RestOK /\ RestOK' /\ WorkOK
      /\ asked \in [Campaigns -> SUBSET (Operations \X {"manual", "auto"})]
  BY TypeParts DEF SpendInv, GraphInv, RestOK
<1>2. UNCHANGED <<mix, launch, conn, account, work>>
  BY DEF GrantDirectAutoLaunchConsent, RevokeDirectAutoLaunchConsent, ConsentOnly
<1>3. PICK v : row' = [row EXCEPT ![c].consent = v]
  BY DEF GrantDirectAutoLaunchConsent, GrantConsent, RevokeDirectAutoLaunchConsent, RevokeConsent
<1>4. /\ \A d \in Campaigns \ {c} : SameRow(d)
      /\ row'[c].connection = row[c].connection /\ row'[c].revision = row[c].revision
      /\ row'[c].status = row[c].status /\ row'[c].consent = v
  BY <1>1, <1>3, ConsentRow
<1>5. Connects
  BY <1>2, <1>4 DEF Connects, SameRow
<1>6. Connected' /\ \A d \in Campaigns : Usable(d)' <=> Usable(d)
  BY <1>1, <1>2, <1>4, <1>5, ConnectsIs DEF SpendInv, Usable, SameRow
<1>7. /\ \A d \in Campaigns \ {c} : asked'[d] = asked[d]
      /\ \A n : <<n, "manual">> \in asked[c] => <<n, "manual">> \in asked'[c]
  BY <1>1 DEF GrantDirectAutoLaunchConsent, GrantConsent, RevokeDirectAutoLaunchConsent, RevokeConsent
<1>8. \A d \in Campaigns : /\ Spending(d)' <=> Spending(d)
                           /\ Claimed(d)' <=> Claimed(d)
                           /\ Running(d)' <=> Running(d)
  BY <1>2, <1>4 DEF Spending, Claimed, Running, SameRow
<1> SUFFICES ASSUME Undisturbed
             PROVE  /\ \A w \in Workers : Named(w)'
                    /\ \A d \in Campaigns : SpentSound(d)'
                    /\ Cardinality(Spent)' <= Cap
  BY <1>2, <1>6 DEF SpendInv, Undisturbed
<1>9. ASSUME NEW w \in Workers PROVE Named(w)'
  <2>1. Remembers
    BY <1>2, <1>6, <1>7 DEF Remembers
  <2> QED  BY <1>1, <1>2, <2>1, StillNamed DEF SpendInv
<1>10. ASSUME NEW d \in Campaigns, d # c PROVE SpentSound(d)'
  <2>1. SpentSound(d)
    BY DEF SpendInv
  <2>2. launch'[d] = launch[d] /\ row'[d] = row[d] /\ asked'[d] = asked[d]
    BY <1>2, <1>4, <1>7, <1>10 DEF SameRow
  <2> QED  BY <1>6, <1>8, <2>1, <2>2 DEF SpentSound, AskedFor
<1>11. SpentSound(c)'
  <2>1. SpentSound(c)
    BY DEF SpendInv
  <2>2. CASE GrantDirectAutoLaunchConsent(c)
    <3>1. ~Claimed(c)
      BY <2>1, <2>2 DEF GrantDirectAutoLaunchConsent, GrantConsent, SpentSound, Claimed
    <3>2. row'[c].consent = row[c].revision
      BY <1>1, <2>2 DEF GrantDirectAutoLaunchConsent, GrantConsent, RowsOK, Row
    <3>3. <<row'[c].consent, "auto">> \in asked'[c]
      BY <1>1, <2>2, <3>2 DEF GrantDirectAutoLaunchConsent, GrantConsent
    <3> QED  BY <1>2, <1>6, <1>8, <2>1, <3>1, <3>3 DEF SpentSound
  <2>3. CASE RevokeDirectAutoLaunchConsent(c)
    <3>1. row[c].consent # 0 /\ row'[c].consent = 0
      BY <1>1, <2>3 DEF RevokeDirectAutoLaunchConsent, RevokeConsent, RowsOK, Row
    <3>2. AskedFor(c) => AskedFor(c)'
      BY <1>4, <1>7, <3>1 DEF AskedFor
    <3> QED  BY <1>2, <1>4, <1>6, <1>8, <2>1, <3>1, <3>2 DEF SpentSound
  <2> QED  BY <2>2, <2>3
<1>12. Cardinality(Spent)' <= Cap
  BY <1>8, SpentShrinks DEF SpendInv
<1> QED  BY <1>9, <1>10, <1>11, <1>12

\* Nothing is asked for and no goroutine moves.
LEMMA ElseSpends ==
  ASSUME SpendInv, (GraphInv /\ ResumeInv)', UNCHANGED <<mix, launch, work, asked>>, Connects,
         Undisturbed => \A d \in Campaigns :
           /\ row'[d].revision = row[d].revision /\ row'[d].status = row[d].status
           /\ row'[d].consent \in {row[d].consent, 0}
           /\ account[d].state = "ON" => account'[d].state = "ON"
           /\ account'[d].state = "ON" \/ account'[d].late => account[d].state = "ON" \/ account[d].late
  PROVE  SpendInv'
<1>1. RowsOK /\ RestOK /\ RestOK' /\ WorkOK
  BY TypeParts DEF SpendInv, GraphInv
<1>2. Connected' /\ \A d \in Campaigns : Usable(d)' => Usable(d)
  BY <1>1, ConnectsIs DEF SpendInv
<1>3. ASSUME Undisturbed, NEW v \in Workers PROVE Named(v)'
  <2>1. Remembers
    BY <1>2, <1>3 DEF Remembers
  <2> QED  BY <1>1, <1>3, <2>1, StillNamed DEF SpendInv
<1>4. ASSUME Undisturbed, NEW d \in Campaigns PROVE Saves(d)
  BY <1>4 DEF Saves, Spending, Running
<1> QED  BY <1>2, <1>3, <1>4, SpendStep

LEMMA MixKept == ASSUME NEW w \in Workers, GraphStep(w) PROVE UNCHANGED mix
<1>1. ASSUME NEW pc, GoOn(w, pc) \/ See(w, pc) PROVE UNCHANGED mix
  BY <1>1 DEF GoOn, See, Untouched
<1>2. ASSUME NEW pc, NEW after, Carried(w, after, pc) PROVE UNCHANGED mix
  BY <1>2 DEF Carried, OnlyAccount, Forget
<1>3. ASSUME GiveUp(w) \/ OnlyAccount PROVE UNCHANGED mix
  BY <1>3 DEF GiveUp, OnlyAccount
<1>4. ASSUME NEW stage, AdvanceGraphStage(w, stage) PROVE UNCHANGED mix
  BY <1>3, <1>4 DEF AdvanceGraphStage
<1>5. CASE LoadMaterial(w) \/ RecordStage(w) \/ ObserveGraph(w) \/ RequestModeration(w) \/ Complete(w) \/ RecordGraph(w)
  BY <1>5, <1>1, <1>2, <1>3, <1>4
     DEF LoadMaterial, RecordStage, ObserveGraph, RequestModeration, Complete, RecordGraph
<1>6. CASE SubmissionStep(w)
  BY <1>6, <1>1, <1>2, <1>3
     DEF SubmissionStep, FindCampaign, CreateCampaign, RefuseCampaign, FailSubmissionIfAbsent, FindAdGroup,
         CreateAdGroup, ReadAd, CreateAd, ConfirmAd, ReadKeywords, CreateKeywords, ConfirmKeywords, FindAd,
         FindKeywords
<1>7. CASE EditStep(w)
  BY <1>7, <1>1, <1>2, <1>3
     DEF EditStep, UpdateCampaign, RefuseUpdate, FailUpdateIfUnchanged, UpdateAdGroup, UpdateAd,
         ReplaceKeywords, ReadForEdit, WriteEdit, ConfirmEdit
<1> QED  BY <1>5, <1>6, <1>7 DEF GraphStep

LEMMA OthersSpend ==
  ASSUME SpendInv, (GraphInv /\ ResumeInv)'
  PROVE  /\ \A c \in Campaigns : Moderated(c) \/ ResumeArrives(c) \/ ChangedOutside(c) => SpendInv'
         /\ RevokeDirectConnection \/ ReplaceDirectConnection \/ UNCHANGED core => SpendInv'
<1>1. /\ account \in [Campaigns -> Account] /\ row \in [Campaigns -> Row]
      /\ conn \in [id : Nat, status : {"active", "error", "revoked"}]
  BY TypeParts DEF SpendInv, GraphInv, AccountsOK, RowsOK, RestOK
<1>2. ASSUME NEW c \in Campaigns, Moderated(c) PROVE SpendInv'
  <2>1. \A d \in Campaigns : account'[d].state = account[d].state /\ account'[d].late = account[d].late
    BY <1>1, <1>2 DEF Moderated, Account
  <2>2. UNCHANGED <<mix, row, conn, launch, work, asked>> /\ Connects
    BY <1>2 DEF Moderated, history, Connects
  <2> QED  BY <2>1, <2>2, ElseSpends
<1>3. ASSUME NEW c \in Campaigns, ResumeArrives(c) PROVE SpendInv'
  <2>1. /\ \A d \in Campaigns \ {c} : account'[d] = account[d]
        /\ account[c].late /\ account'[c].state = "ON"
    BY <1>1, <1>3 DEF ResumeArrives, Account
  <2>2. UNCHANGED <<mix, row, conn, launch, work, asked>> /\ Connects
    BY <1>3 DEF ResumeArrives, history, Connects
  <2> QED  BY <2>1, <2>2, ElseSpends
<1>4. ASSUME NEW c \in Campaigns, ChangedOutside(c) PROVE SpendInv'
  <2>1. ~Undisturbed
    BY <1>4 DEF ChangedOutside, Fault, Undisturbed
  <2>2. UNCHANGED <<mix, row, conn, launch, work, asked>> /\ Connects
    BY <1>4 DEF ChangedOutside, history, Connects
  <2> QED  BY <2>1, <2>2, ElseSpends
<1>5. ASSUME RevokeDirectConnection \/ ReplaceDirectConnection PROVE SpendInv'
  <2>1. /\ \A d \in Campaigns : /\ row'[d].connection = row[d].connection /\ row'[d].revision = row[d].revision
                                /\ row'[d].status = row[d].status /\ row'[d].consent = 0
    <3>1. NoConsents
      BY <1>5 DEF RevokeDirectConnection, ReplaceDirectConnection
    <3> QED  BY <1>1, <3>1 DEF NoConsents, Row
  <2>2. UNCHANGED <<mix, launch, work, asked, account>>
    BY <1>5 DEF RevokeDirectConnection, ReplaceDirectConnection, ConnectionOnly, history
  <2>3. Connects
    BY <1>1, <1>5, <2>1 DEF RevokeDirectConnection, ReplaceDirectConnection, Connects
  <2> QED  BY <2>1, <2>2, <2>3, ElseSpends
<1>6. ASSUME UNCHANGED core PROVE SpendInv'
  <2>1. UNCHANGED <<mix, row, conn, launch, work, asked, account>> /\ Connects
    BY <1>6 DEF core, Connects
  <2> QED  BY <2>1, ElseSpends
<1> QED  BY <1>2, <1>3, <1>4, <1>5, <1>6

LEMMA TickSpends ==
  ASSUME SpendInv, (GraphInv /\ ResumeInv)', Tick
  PROVE  SpendInv'
<1>1. /\ RowsOK /\ RestOK /\ RestOK' /\ WorkOK /\ work \in [Workers -> Job] /\ launch \in [Campaigns -> LaunchRow]
  BY TypeParts DEF SpendInv, GraphInv, WorkOK, LaunchesOK
<1>2. UNCHANGED <<mix, row, conn, account, asked>> /\ Connects
  BY DEF Tick, history, Connects
<1>3. \A d \in Campaigns : launch'[d].state = launch[d].state
  BY <1>1 DEF Tick, LaunchRow
<1>4. \A w \in Workers : /\ work'[w].on = work[w].on /\ work'[w].pc = work[w].pc /\ work'[w].rev = work[w].rev
                         /\ work'[w].job = work[w].job /\ work'[w].saw = work[w].saw
  BY <1>1 DEF Tick, Job
<1>5. Connected' /\ \A d \in Campaigns : Usable(d)' => Usable(d)
  BY <1>1, <1>2, ConnectsIs DEF SpendInv
<1>6. ASSUME Undisturbed, NEW w \in Workers PROVE Named(w)'
  <2>1. Named(w) /\ work[w].on \in Campaigns
    BY <1>1, <1>6, WhereOK DEF SpendInv
  <2> QED  BY <1>2, <1>4, <1>5, <2>1 DEF Named
<1>7. ASSUME NEW d \in Campaigns PROVE Saves(d)
  <2>1. Spending(d)' => Spending(d)
    BY <1>2, <1>4 DEF Spending
  <2> QED  BY <1>2, <1>3, <2>1 DEF Saves, Running
<1> QED  BY <1>2, <1>5, <1>6, <1>7, SpendStep

LEMMA SpendNext == SpendInv /\ (GraphInv /\ ResumeInv)' /\ [Next]_core => SpendInv'
<1> SUFFICES ASSUME SpendInv, (GraphInv /\ ResumeInv)', [Next]_core PROVE SpendInv'
  OBVIOUS
<1>1. CoreTypeOK /\ mix.on \subseteq Campaigns
  BY MixOK, TypeParts DEF SpendInv, GraphInv, RestOK
<1>2. ASSUME NEW w \in Workers, Work(w) PROVE SpendInv'
  <2>1. CASE ClaimCampaignLaunch(w) \/ AttemptLaunch(w) \/ Resume(w) \/ AbortLaunch(w)
    BY <2>1, ClaimSpends, AttemptSpends, ResumeSpends, AbortSpends
  <2>2. CASE ~(ClaimCampaignLaunch(w) \/ AttemptLaunch(w) \/ Resume(w) \/ AbortLaunch(w))
    <3>1. UNCHANGED mix /\ Connects
      <4>1. Begins /\ KeepsConnection
        BY <1>1, <1>2, GraphBegins, LaunchBegins DEF Work
      <4>2. QuietGraph(w) \/ GraphStep(w)
        BY <1>1, <1>2, LaunchQuiet DEF Work
      <4>3. UNCHANGED mix
        BY <1>1, <4>2, MixKept DEF QuietGraph
      <4>4. conn \in [id : Nat, status : {"active", "error", "revoked"}]
        BY <1>1, TypeParts DEF RestOK
      <4> QED  BY <4>1, <4>3, <4>4 DEF Begins, KeepsConnection, Connects
    <3>2. Undisturbed => Spares(w)
      BY <1>2, <2>2, GraphSpares, LaunchSpares DEF Work
    <3> QED  BY <3>1, <3>2, SparesStep
  <2> QED  BY <2>1, <2>2
<1>3. ASSUME NEW w \in Workers, Failing(w) PROVE SpendInv'
  BY <1>3, FailingSpends
<1>4. ASSUME NEW w \in Workers, NEW c \in mix.on, Starting(w, c) PROVE SpendInv'
  BY <1>1, <1>4, StartingSpends
<1>5. ASSUME NEW c \in mix.on,
             \/ GrantDirectAutoLaunchConsent(c) \/ RevokeDirectAutoLaunchConsent(c)
             \/ Moderated(c) \/ ResumeArrives(c) \/ ChangedOutside(c)
      PROVE  SpendInv'
  BY <1>1, <1>5, ConsentsSpend, OthersSpend
<1>6. CASE RevokeDirectConnection \/ ReplaceDirectConnection \/ UNCHANGED core
  BY <1>6, OthersSpend
<1>7. CASE Tick
  BY <1>7, TickSpends
<1> QED  BY <1>2, <1>3, <1>4, <1>5, <1>6, <1>7 DEF Next

LEMMA SpendInit == CoreInit => SpendInv
<1> SUFFICES ASSUME CoreInit PROVE SpendInv
  OBVIOUS
<1>1. \A w \in Workers : work[w].pc = "idle" /\ work[w].saw = NothingSeen /\ work[w].job = "none"
  BY DEF CoreInit, Idle
<1>2. \A c \in Campaigns : launch[c].state = "idle" /\ resumes[c] = 0
  BY DEF CoreInit, NoLaunch
<1>3. \A c \in Campaigns : row[c].connection = 1 /\ row[c].consent = 0 /\ row[c].status \in {"draft", "accepted"}
  BY DEF CoreInit, Verified, Draft
<1>4. \A c \in Campaigns : account[c].state = "OFF" /\ ~account[c].late
  BY DEF CoreInit, Published, Empty
<1>5. conn.id = 1
  BY DEF CoreInit
<1>6. GraphInv /\ ResumeInv
  BY <1>1, <1>2, GraphInit, CoreInitOK DEF ResumeInv, ResumeHeld, Counted, InFlight
<1>7. Connected
  BY <1>3, <1>5 DEF Connected
<1>8. \A c \in Campaigns : ~Claimed(c) /\ ~Spending(c) /\ ~Running(c)
  BY <1>1, <1>2, <1>3, <1>4 DEF Claimed, Spending, Running
<1>9. \A w \in Workers : Named(w)
  <2>1. \A w \in Workers : work[w].pc # "abort" /\ work[w].saw.state # "ON" /\ work[w].job # "launch"
    <3> SUFFICES ASSUME NEW w \in Workers
                 PROVE  work[w].pc # "abort" /\ work[w].saw.state # "ON" /\ work[w].job # "launch"
      OBVIOUS
    <3>1. work[w].pc = "idle" /\ work[w].job = "none" /\ work[w].saw = NothingSeen
      BY <1>1
    <3>2. NothingSeen.state = "OFF"
      BY DEF NothingSeen
    <3> QED  BY <3>1, <3>2
  <2> QED  BY <2>1 DEF Named
<1>10. \A c \in Campaigns : SpentSound(c)
  BY <1>3, <1>8 DEF SpentSound
<1>11. Spent = {}
  BY <1>8 DEF Spent
<1>12. Cardinality(Spent) <= Cap
  BY <1>11, FS_EmptySet, LeaseAssumption
<1> QED  BY <1>6, <1>7, <1>9, <1>10, <1>12 DEF SpendInv
----------------------------------------------------------------------------
\* What is spent, what was asked for, what the launch rows say and whether the connection can still
\* be used agree at every step of a launch, of its recovery and of its sync.
THEOREM SpendInvariant == Spec => []SpendInv
<1>1. Spec => [](GraphInv /\ ResumeInv)
  BY GraphInvariant, ResumeInvariant, PTL
<1> QED  BY <1>1, SpendInit, SpendNext, PTL DEF Spec

\* As long as nobody starts campaigns in the web interface, money is spent only on a graph that the
\* owner asked to launch, by hand or by a consent that was not withdrawn.
THEOREM LaunchesAreAuthorised == Spec => []LaunchAuthorised
<1>1. SpendInv => LaunchAuthorised
  <2> SUFFICES ASSUME SpendInv, Undisturbed, NEW c \in Campaigns, account[c].state = "ON"
               PROVE  \E request \in asked[c] : VerifiedAs(c, request[1])
    BY DEF LaunchAuthorised
  <2>1. Claimed(c)
    BY DEF Claimed, Spending
  <2>2. row[c].revision # 0 /\ AskedFor(c)
    BY <2>1 DEF SpendInv, SpentSound
  <2>3. PICK mode \in {"manual", "auto"} : <<row[c].revision, mode>> \in asked[c]
    BY <2>2 DEF AskedFor
  <2>4. VerifiedAs(c, row[c].revision)
    <3>1. CampaignSound(c) /\ AccountsOK /\ RowsOK
      BY TypeParts DEF SpendInv, GraphInv
    <3>2. account[c].twice = {} /\ \A n \in Nodes : account[c].content[n] = row[c].revision
      BY <2>2, <3>1 DEF CampaignSound, EvidenceSound
    <3> QED  BY <3>1, <3>2, VerifiedIs, NumbersAreNotMixed
  <2> QED  BY <2>3, <2>4
<1> QED  BY <1>1, SpendInvariant, PTL

\* As long as nobody starts campaigns in the web interface, the budgets that are or may be spent stay
\* within the cap of the workspace, whatever answers are lost or come late.
THEOREM BudgetsAreCapped == Spec => []BudgetCap
<1>1. SpendInv => BudgetCap
  <2> SUFFICES ASSUME SpendInv, Undisturbed PROVE Cardinality({c \in Campaigns : Spending(c)}) <= Cap
    BY DEF BudgetCap
  <2> DEFINE spending == {c \in Campaigns : Spending(c)}
  <2>1. spending \subseteq Spent
    BY DEF Spent, Claimed
  <2>2. IsFiniteSet(Spent) /\ Cardinality(Spent) \in Nat /\ Cardinality(Spent) <= Cap
    BY WorkerAssumption, FS_Subset, FS_CardinalityType DEF Spent, SpendInv
  <2>3. IsFiniteSet(spending) /\ Cardinality(spending) <= Cardinality(Spent) /\ Cardinality(spending) \in Nat
    BY <2>1, <2>2, FS_Subset, FS_CardinalityType
  <2> QED  BY <2>2, <2>3, LeaseAssumption
<1> QED  BY <1>1, SpendInvariant, PTL
=============================================================================
