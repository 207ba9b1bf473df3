------------------------------ MODULE MCWorkspace ------------------------------
(***************************************************************************)
(* The parts of the workspace's backend, each checked alone: a behaviour    *)
(* chooses one part and takes the steps of its module only.  Parts never    *)
(* run together, so they share the variables s1 .. s15, which each part     *)
(* takes in the order its module declares its own.                          *)
(***************************************************************************)
EXTENDS Integers, FiniteSets, TLC

CONSTANTS a1, a2, b1, p1, p2, x1, x2, t1, u1, u2, i1, m1, m2, Noone

VARIABLES part, s1, s2, s3, s4, s5, s6, s7, s8, s9, s10, s11, s12, s13, s14, s15
vars == <<part, s1, s2, s3, s4, s5, s6, s7, s8, s9, s10, s11, s12, s13, s14, s15>>

\* Processes, editors and handlers, whoever a part needs two of; and one alone.
Two == {a1, a2}
One == {b1}
NoProcess == {}
NoKind == <<>>
Kinds == <<"set", "create", "plain">>

Connection == INSTANCE DirectControls WITH Processes <- Two, Editors <- One,
  Kind <- NoKind, MaxAttempts <- 2, MaxGrants <- 3, RefreshLease <- 1, MaxFailures <- 1,
  EditLease <- 1, SyncLease <- 1, MaxEpoch <- 2, MaxSyncs <- 1, MaxVersion <- 1,
  link <- s1, oauth <- s2, latest <- s3, flow <- s4, refresh <- s5, grant <- s6, spilt <- s7,
  trouble <- s8, control <- s9, journal <- s10, list <- s11, site <- s12, edit <- s13, sent <- s14,
  carried <- s15
Lists == INSTANCE DirectControls WITH Processes <- NoProcess, Editors <- Two,
  Kind <- NoKind, MaxAttempts <- 2, MaxGrants <- 2, RefreshLease <- 1, MaxFailures <- 1,
  EditLease <- 1, SyncLease <- 1, MaxEpoch <- 2, MaxSyncs <- 3, MaxVersion <- 1,
  link <- s1, oauth <- s2, latest <- s3, flow <- s4, refresh <- s5, grant <- s6, spilt <- s7,
  trouble <- s8, control <- s9, journal <- s10, list <- s11, site <- s12, edit <- s13, sent <- s14,
  carried <- s15
Edits == INSTANCE DirectControls WITH Processes <- NoProcess, Editors <- Two,
  Kind <- Kinds, MaxAttempts <- 1, MaxGrants <- 1, RefreshLease <- 1, MaxFailures <- 1,
  EditLease <- 1, SyncLease <- 1, MaxEpoch <- 1, MaxSyncs <- 1, MaxVersion <- 2,
  link <- s1, oauth <- s2, latest <- s3, flow <- s4, refresh <- s5, grant <- s6, spilt <- s7,
  trouble <- s8, control <- s9, journal <- s10, list <- s11, site <- s12, edit <- s13, sent <- s14,
  carried <- s15

TwoReplies == <<"send", "send">>
TwoChanges == <<"edit", "delete">>
Replies == INSTANCE Comments WITH Handlers <- Two, CommentKind <- TwoReplies,
  CommentLease <- 1, MaxClock <- 1, MaxPages <- 1, MaxLoss <- 1,
  row <- s1, op <- s2, listing <- s3, call <- s4, thread <- s5, events <- s6, clock <- s7, loss <- s8, times <- s9
Changes == INSTANCE Comments WITH Handlers <- Two, CommentKind <- TwoChanges,
  CommentLease <- 1, MaxClock <- 1, MaxPages <- 1, MaxLoss <- 1,
  row <- s1, op <- s2, listing <- s3, call <- s4, thread <- s5, events <- s6, clock <- s7, loss <- s8, times <- s9
Delays == INSTANCE Comments WITH Handlers <- Two, CommentKind <- TwoChanges,
  CommentLease <- 1, MaxClock <- 2, MaxPages <- 1, MaxLoss <- 0,
  row <- s1, op <- s2, listing <- s3, call <- s4, thread <- s5, events <- s6, clock <- s7, loss <- s8, times <- s9

Stamp == <<1, 2, 2, 3, 4, 5>>
Videos == <<0, 2, 1, 1, 1, 1>>
Present == {2, 4}
Import == INSTANCE History WITH Importers <- Two, Stamp <- Stamp, Videos <- Videos,
  PageSize <- 3, VideoBudget <- 3, Present <- Present, MaxClaims <- 2, MaxFaults <- 1,
  import <- s1, mapped <- s2, posts <- s3, held <- s4, own <- s5, worker <- s6, faults <- s7, reach <- s8, stalled <- s9

TwoTeams == {x1, x2}
OneTeam == {t1}
TwoUsers == {u1, u2}
OneInvitation == {i1}
Nothing == {}
Ownership == INSTANCE Members WITH Handlers <- Two, Teams <- TwoTeams, Users <- TwoUsers,
  Invitations <- Nothing, Unlimited <- Nothing, OwnedLimit <- 1, Seats <- 2, MaxDate <- 1,
  team <- s1, role <- s2, invite <- s3, cutoff <- s4, locks <- s5, request <- s6, date <- s7, void <- s8
Decisions == INSTANCE Members WITH Handlers <- One, Teams <- OneTeam, Users <- TwoUsers,
  Invitations <- OneInvitation, Unlimited <- Nothing, OwnedLimit <- 1, Seats <- 2, MaxDate <- 2,
  team <- s1, role <- s2, invite <- s3, cutoff <- s4, locks <- s5, request <- s6, date <- s7, void <- s8

OneAttempt == {1}
OneAccount == {m1}
Persons == INSTANCE SignIn WITH Attempts <- OneAttempt, Accounts <- Two, Owners <- OneTeam,
  MaxPresses <- 3, MaxAsks <- 1, Nobody <- Noone,
  attempt <- s1, over <- s2, asking <- s3, offered <- s4, presses <- s5, profile <- s6, ask <- s7,
  shown <- s8, identity <- s9, linked <- s10, deal <- s11, session <- s12
SignIns == INSTANCE SignIn WITH Attempts <- Two, Accounts <- OneAccount, Owners <- Nothing,
  MaxPresses <- 3, MaxAsks <- 1, Nobody <- Noone,
  attempt <- s1, over <- s2, asking <- s3, offered <- s4, presses <- s5, profile <- s6, ask <- s7,
  shown <- s8, identity <- s9, linked <- s10, deal <- s11, session <- s12

OneUser == {u1}
Linked(u) == m1
Unlinked(u) == Noone
Claiming == INSTANCE Channels WITH Users <- OneUser, Teams <- OneTeam, Accounts <- OneAccount,
  Claims <- Two, Callers <- One, LinkOf <- Unlinked, MaxChanges <- 1, Nobody <- Noone,
  chat <- s1, hour <- s2, hooks <- s3, heard <- s4, seen <- s5, channel <- s6, right <- s7, told <- s8, staff <- s9, claim <- s10, pressed <- s11, errand <- s12
Inventory == INSTANCE Channels WITH Users <- OneUser, Teams <- Nothing, Accounts <- OneAccount,
  Claims <- Nothing, Callers <- Two, LinkOf <- Linked, MaxChanges <- 2, Nobody <- Noone,
  chat <- s1, hour <- s2, hooks <- s3, heard <- s4, seen <- s5, channel <- s6, right <- s7, told <- s8, staff <- s9, claim <- s10, pressed <- s11, errand <- s12
TwoAccounts == {m1, m2}
Rights == INSTANCE Channels WITH Users <- OneUser, Teams <- Nothing, Accounts <- TwoAccounts,
  Claims <- Nothing, Callers <- One, LinkOf <- Linked, MaxChanges <- 4, Nobody <- Noone,
  chat <- s1, hour <- s2, hooks <- s3, heard <- s4, seen <- s5, channel <- s6, right <- s7, told <- s8, staff <- s9, claim <- s10, pressed <- s11, errand <- s12
Drafts == INSTANCE Discovery WITH Callers <- Two, MaxTakeovers <- 3,
  card <- s1, transfer <- s2, draft <- s3, caller <- s4, made <- s5
TwoVariants == 1..2
Plans == INSTANCE Campaigns WITH Variants <- TwoVariants, MaxPosts <- 2, Callers <- Two, MaxCalls <- 2,
  campaign <- s1, variant <- s2, post <- s3, txn <- s4, calls <- s5
Planning == INSTANCE Campaigns WITH Variants <- TwoVariants, MaxPosts <- 2, Callers <- One, MaxCalls <- 3,
  campaign <- s1, variant <- s2, post <- s3, txn <- s4, calls <- s5
Requests == INSTANCE AILimits WITH Callers <- Two, Slots <- 2, MaxConcurrent <- 1, PerMinute <- 1,
  PerDay <- 2, MonthlyLimit <- 2, Lease <- 3, Timeout <- 1, Minute <- 1, Day <- 2, MaxWait <- 1,
  MaxTime <- 3, MaxRequests <- 3, MaxChanges <- 1, MaxFaults <- 1,
  now <- s1, kind <- s2, plan <- s3, free <- s4, bucket <- s5, leases <- s6, usage <- s7, caller <- s8, granted <- s9, strayed <- s10, faults <- s11
TwoServers == {p1, p2}
Quota == [user |-> [second |-> 1, hour |-> 2], provider |-> [second |-> 1, hour |-> 2]]
Window == [second |-> 2, hour |-> 4]
Hints == INSTANCE Wordstat WITH Callers <- Two, Processes <- TwoServers, Users <- TwoUsers,
  LimitOf <- Quota, Length <- Window, CacheLife <- 1, MaxWait <- 1, MaxTime <- 2, MaxEvents <- 2,
  MaxStops <- 1, Nobody <- Noone,
  now <- s1, caller <- s2, flight <- s3, cache <- s4, ledger <- s5, reserved <- s6, stops <- s7
Analyses == INSTANCE Analysis WITH Visitors <- Two, ClaimLife <- 3, Timeout <- 1, ReadyLife <- 2,
  PartLife <- 1, MaxWait <- 1, MaxTime <- 3, MaxChanges <- 1, MaxPaid <- 3,
  moment <- s1, media <- s2, allowed <- s3, entry <- s4, visitor <- s5, paid <- s6, displaced <- s7
TwoPosts == 1..2
OnePost == {2}
Deliveries == INSTANCE PublishedIndex WITH Readers <- Two, Posts <- TwoPosts, Imported <- OnePost,
  MaxEdits <- 1, MaxDeliveries <- 1,
  article <- s1, revisions <- s2, index <- s3, ready <- s4, reader <- s5, delivered <- s6, unproven <- s7, edits <- s8, deliveries <- s9
PostTasks == {"stats", "sync", "pin", "unpin", "delete"}
ChatTasks == {"participants", "profile"}
Readings == INSTANCE Statistics WITH Posts <- OneAttempt, Callers <- Two, Tasks <- PostTasks,
  MaxMessages <- 2, Cooldown <- 1, Interval <- 1, Day <- 2, MaxTime <- 1,
  minute <- s1, stat <- s2, origin <- s3, live <- s4, top <- s5, topped <- s6, counter <- s7, daily <- s8, runner <- s9
Participants == INSTANCE Statistics WITH Posts <- Nothing, Callers <- Two, Tasks <- ChatTasks,
  MaxMessages <- 0, Cooldown <- 1, Interval <- 1, Day <- 2, MaxTime <- 3,
  minute <- s1, stat <- s2, origin <- s3, live <- s4, top <- s5, topped <- s6, counter <- s7, daily <- s8, runner <- s9
Logins == INSTANCE Sessions WITH Browsers <- TwoTeams, Accounts <- OneAccount, Callbacks <- Two, MaxStarts <- 2,
  MaxStates <- 1, StateLife <- 1, SessionLife <- 1, MaxTime <- 1, MaxLists <- 1, Nobody <- Noone,
  second <- s1, starts <- s2, states <- s3, cookie <- s4, callback <- s5, users <- s6, logins <- s7,
  valid <- s8, token <- s9, mails <- s10, listed <- s11, lists <- s12
Brands == INSTANCE BrandKits WITH Editors <- Two, Templates <- TwoPosts, MaxVersion <- 3,
  template <- s1, save <- s2

\* The variables a part with fewer of them leaves alone: from the k-th on.
Unused13 == s13 = 0 /\ s14 = 0 /\ s15 = 0
Unused12 == s12 = 0 /\ Unused13
Unused10 == s10 = 0 /\ s11 = 0 /\ Unused12
Unused9 == s9 = 0 /\ Unused10
Unused8 == s8 = 0 /\ Unused9
Unused6 == s6 = 0 /\ s7 = 0 /\ Unused8
Unused3 == s3 = 0 /\ s4 = 0 /\ s5 = 0 /\ Unused6
Rest13 == <<s13, s14, s15>>
Rest12 == <<s12, s13, s14, s15>>
Rest10 == <<s10, s11, s12, s13, s14, s15>>
Rest9 == <<s9, s10, s11, s12, s13, s14, s15>>
Rest8 == <<s8, s9, s10, s11, s12, s13, s14, s15>>
Rest6 == <<s6, s7, s8, s9, s10, s11, s12, s13, s14, s15>>
Rest3 == <<s3, s4, s5, s6, s7, s8, s9, s10, s11, s12, s13, s14, s15>>
Init ==
  \/ part = "connection" /\ Connection!Init
  \/ part = "lists" /\ Lists!Init
  \/ part = "edits" /\ Edits!Init
  \/ part = "replies" /\ Replies!Init /\ Unused10
  \/ part = "changes" /\ Changes!Init /\ Unused10
  \/ part = "delays" /\ Delays!Init /\ Unused10
  \/ part = "history" /\ Import!Init /\ Unused10
  \/ part = "owners" /\ Ownership!Init /\ Unused9
  \/ part = "decisions" /\ Decisions!Init /\ Unused9
  \/ part = "accounts" /\ Persons!Init /\ Unused13
  \/ part = "attempts" /\ SignIns!Init /\ Unused13
  \/ part = "claims" /\ Claiming!Init /\ Unused13
  \/ part = "inventory" /\ Inventory!Init /\ Unused13
  \/ part = "rights" /\ Rights!Init /\ Unused13
  \/ part = "drafts" /\ Drafts!Init /\ Unused6
  \/ part = "plans" /\ Plans!Init /\ Unused6
  \/ part = "planning" /\ Planning!Init /\ Unused6
  \/ part = "requests" /\ Requests!Init /\ Unused12
  \/ part = "hints" /\ Hints!Init /\ Unused8
  \/ part = "analyses" /\ Analyses!Init /\ Unused8
  \/ part = "deliveries" /\ Deliveries!Init /\ Unused10
  \/ part = "readings" /\ Readings!Init /\ Unused10
  \/ part = "participants" /\ Participants!Init /\ Unused10
  \/ part = "logins" /\ Logins!Init /\ Unused13
  \/ part = "brands" /\ Brands!Init /\ Unused3
Next ==
  /\ UNCHANGED part
  /\ \/ part = "connection" /\ Connection!Next
     \/ part = "lists" /\ Lists!Next
     \/ part = "edits" /\ Edits!Next
     \/ part = "replies" /\ Replies!Next /\ UNCHANGED Rest10
     \/ part = "changes" /\ Changes!Next /\ UNCHANGED Rest10
     \/ part = "delays" /\ Delays!Next /\ UNCHANGED Rest10
     \/ part = "history" /\ Import!Next /\ UNCHANGED Rest10
     \/ part = "owners" /\ Ownership!Next /\ UNCHANGED Rest9
     \/ part = "decisions" /\ Decisions!Next /\ UNCHANGED Rest9
     \/ part = "accounts" /\ Persons!Next /\ UNCHANGED Rest13
     \/ part = "attempts" /\ SignIns!Next /\ UNCHANGED Rest13
     \/ part = "claims" /\ Claiming!Next /\ UNCHANGED Rest13
     \/ part = "inventory" /\ Inventory!Next /\ UNCHANGED Rest13
     \/ part = "rights" /\ Rights!Next /\ UNCHANGED Rest13
     \/ part = "drafts" /\ Drafts!Next /\ UNCHANGED Rest6
     \/ part = "plans" /\ Plans!Next /\ UNCHANGED Rest6
     \/ part = "planning" /\ Planning!Next /\ UNCHANGED Rest6
     \/ part = "requests" /\ Requests!Next /\ UNCHANGED Rest12
     \/ part = "hints" /\ Hints!Next /\ UNCHANGED Rest8
     \/ part = "analyses" /\ Analyses!Next /\ UNCHANGED Rest8
     \/ part = "deliveries" /\ Deliveries!Next /\ UNCHANGED Rest10
     \/ part = "readings" /\ Readings!Next /\ UNCHANGED Rest10
     \/ part = "participants" /\ Participants!Next /\ UNCHANGED Rest10
     \/ part = "logins" /\ Logins!Next /\ UNCHANGED Rest13
     \/ part = "brands" /\ Brands!Next /\ UNCHANGED Rest3
Spec == Init /\ [][Next]_vars

Symmetry == Permutations(Two) \cup Permutations(TwoTeams)

(* What holds in every part it is about. *)

\* No refresh token is spent whose successor some process still carries or has stored
\* (directAccessToken and the claim of the refresh).
GrantKept == part = "connection" => Connection!GrantKept

\* An import that calls itself complete has every message of the channel once, and never the one
\* being published (ImportMAXChannelHistoryPage); a loss of the right to publish that all webhooks
\* have told about, while its owner had the chat, is recorded and notified (SyncMAXChannelPermissions).
NothingMissed ==
  /\ part = "history" => Import!HistoryComplete /\ Import!OwnMessageRecordable
  /\ part = "rights" => Rights!LossKnown
  /\ part = "deliveries" => Deliveries!OnlyDelivered /\ Deliveries!IndexComplete
  /\ part = "participants" => Participants!DaysAgree
  /\ part = "readings" => Readings!MetadataOwn /\ Readings!ClearedGone

\* No user owns more team workspaces than allowed, no workspace has more members or another owner
\* than its row says (store/workspaces.go); no campaign is left without a variant. Requests to the AI
\* providers stay within what may run at once, per minute, per day and per paid period (store/ai_limits.go,
\* workspace_quotas.go); suggestions within the windows of Wordstat (store/wordstat_quota.go). One
\* template at most is the default, and its editors do not wait for each other (store/brand_kits.go).
LimitsHold ==
  /\ part = "owners" => Ownership!WorkspacesSound
  /\ part = "decisions" => Decisions!WorkspacesSound
  /\ part = "plans" => Plans!KeepsVariant
  /\ part = "planning" => Planning!KeepsVariant
  /\ part = "requests" => Requests!RequestsBounded /\ Requests!MonthlyKept /\ Requests!BucketsKept
  /\ part = "hints" => Hints!BurstKept /\ Hints!FreshNotAskedAgain
  /\ part = "brands" => Brands!OneDefault

\* A session is for the user its MAX account belongs to, and that account proved itself for this
\* very attempt (store/max_auth.go); a channel was proven by its MAX owner for this very workspace
\* (store/tenant.go). A sign-in with Yandex ends in one session, in the browser that began it (store/auth.go).
OwnershipProven ==
  /\ part = "accounts" => Persons!SessionsProven
  /\ part = "attempts" => SignIns!SessionsProven
  /\ part = "claims" => Claiming!ChannelsProven
  /\ part = "inventory" => Inventory!ChannelsProven
  /\ part = "logins" => Logins!StartsSpentOnce

\* A repeated request makes one draft with one copy (store/content_discovery_drafts.go), and a
\* variant of a campaign becomes one post (MaterializeCampaign). An analysis under way or still valid
\* is not paid for again, and what is shown is of the posts as they were (store/content_analysis_cache.go).
DoneOnce ==
  /\ part = "drafts" => Drafts!DraftOnce
  /\ part = "plans" => Plans!MaterializedOnce
  /\ part = "planning" => Planning!MaterializedOnce
  /\ part = "analyses" => Analyses!PaidOnce /\ Analyses!AnswerMatches

\* Transactions that wait for each other's rows: one of them edits a variant, which locks its rows
\* against the order all others keep (UpdateCampaignVariant).
LocksOrdered ==
  /\ part = "plans" => Plans!LocksOrdered
  /\ part = "planning" => Planning!LocksOrdered

\* A person somebody decided about stays as decided until somebody decides again (AcceptWorkspaceInvitation);
\* nothing is scheduled but the revision that was approved (validateLockedSchedulePost). A template
\* is overwritten only by who saw its latest version (UpdateChannelTemplate).
DecisionsStand ==
  /\ [][part = "decisions" => Decisions!DecisionsStand]_vars
  /\ [][part = "plans" => Plans!ApprovedScheduled]_vars
  /\ [][part = "planning" => Planning!ApprovedScheduled]_vars
  /\ [][part = "brands" => Brands!NothingOverwritten]_vars

\* An older authorization, list of campaigns, reading of a chat, change of rights or answer of a
\* discovery request, or count of participants, never replaces a newer one (replaceDirectConnection,
\* ReplaceDirectExternalCampaigns, UpsertObservedBotChat, SyncMAXChannelPermissions,
\* FinishDiscoveryDraft, syncChannelMAXInfoForUser).
NothingOlderWins ==
  /\ [][part = "connection" => Connection!NothingOlderWins]_vars
  /\ [][part = "lists" => Lists!NothingOlderWins]_vars
  /\ [][part = "inventory" => Inventory!NothingOlderWins]_vars
  /\ [][part = "rights" => Rights!NothingOlderWins]_vars
  /\ [][part = "drafts" => Drafts!AnswersStand]_vars
  /\ [][part = "participants" => Participants!ReadingsStand]_vars

ASSUME CommentsNumbered == Replies!KindsOK /\ Changes!KindsOK /\ Delays!KindsOK
ASSUME ControlsNumbered == Connection!ControlsOK /\ Lists!ControlsOK /\ Edits!ControlsOK
ASSUME MembersNumbered == Ownership!MembersOK /\ Decisions!MembersOK
ASSUME PlansNumbered == Plans!PlansOK /\ Planning!PlansOK
ASSUME PostsNumbered == Deliveries!IndexOK
ASSUME MessagesOrdered == Import!HistoryOK
ASSUME DaysTakeTime == Readings!StatisticsOK /\ Participants!StatisticsOK
ASSUME HoursOutlastWaits == Hints!WordstatOK
ASSUME SignInsNumbered == Persons!SignInOK /\ SignIns!SignInOK
ASSUME LeasesLastLonger == Requests!LimitsOK /\ Analyses!AnalysesOK /\ Brands!BrandsOK

\* The requests of a part as WriteOnce sees them: in that part every step is one of its own.
EditPromise == INSTANCE WriteOnce WITH Keys <- 1..3, Rivals <- (1..3) \X (1..3), Idempotent <- {},
  sends <- Edits!Attempted, flying <- Edits!UnderWay, carried <- s15, moot <- {}, verdict <- Edits!Told
ReplyPromise == INSTANCE WriteOnce WITH Keys <- 1..2, Rivals <- (1..2) \X (1..2), Idempotent <- {},
  sends <- Replies!Attempted, flying <- Replies!Flying, carried <- s5.carried, moot <- {},
  verdict <- Replies!Told
ChangePromise == INSTANCE WriteOnce WITH Keys <- 1..2, Rivals <- (1..2) \X (1..2), Idempotent <- {2},
  sends <- Changes!Attempted, flying <- Changes!Flying, carried <- s5.carried, moot <- Changes!Moot,
  verdict <- Changes!Told
DelayPromise == INSTANCE WriteOnce WITH Keys <- 1..2, Rivals <- (1..2) \X (1..2), Idempotent <- {2},
  sends <- Delays!Attempted, flying <- Delays!Flying, carried <- s5.carried, moot <- Delays!Moot,
  verdict <- Delays!Told

\* Edits of campaigns in Yandex Direct implement WriteOnce (ApplyDirectExternalControl and its readback).
EditsKeepPromise ==
  /\ part = "edits" => EditPromise!Init
  /\ [][part = "edits" => [EditPromise!Next]_(EditPromise!promise)]_vars
\* Replies, edits and deletions of comments implement WriteOnce (MutateMAXComment, SyncMAXComments).
CommentsKeepPromise ==
  /\ part = "replies" => ReplyPromise!Init
  /\ part = "changes" => ChangePromise!Init
  /\ part = "delays" => DelayPromise!Init
  /\ [][part = "replies" => [ReplyPromise!Next]_(ReplyPromise!promise)]_vars
  /\ [][part = "changes" => [ChangePromise!Next]_(ChangePromise!promise)]_vars
  /\ [][part = "delays" => [DelayPromise!Next]_(DelayPromise!promise)]_vars
================================================================================
