------------------------------- MODULE Campaigns -------------------------------
(***************************************************************************)
(* The plan of a campaign: its variants become posts, and the posts are    *)
(* scheduled one by one or together while they live their own life.        *)
(*                                                                         *)
(* Every call is one transaction that locks rows one after the other and   *)
(* writes at its end.  A change of a post goes up: triggers write its       *)
(* variant and then the campaign.                                          *)
(***************************************************************************)
EXTENDS Naturals, FiniteSets

CONSTANTS
  Variants,   \* campaign_variants, from 1
  MaxPosts,   \* bound on the posts that are made
  Callers,    \* transactions that may run at once
  MaxCalls    \* bound on the transactions

VARIABLES
  campaign,  \* campaigns: whether it is archived, and its updated_at
  variant,   \* campaign_variants
  post,      \* posts, with the revision that is current and those approved
  txn,       \* the transactions, with the rows they locked
  calls      \* transactions begun

\* What the proofs assume: variants are numbered from 1, and there may be a post.
PlansOK == IsFiniteSet(Variants) /\ Variants = 1..Cardinality(Variants) /\ MaxPosts \in Nat \ {0}

campaigns == <<campaign, variant, post, txn, calls>>

Posts == 1..MaxPosts
TheCampaign == <<"campaign", 0>>
VariantRow(v) == <<"variant", v>>
PostRow(p) == <<"post", p>>

NoPost == [status |-> "none", of |-> 0, revision |-> 0, approved |-> {}, stamp |-> 0]
Idle == [op |-> "none", pc |-> "idle", has |-> {}, on |-> {}, map |-> {}, expect |-> {}, to |-> "none"]
Init ==
  /\ campaign = [status |-> "none", stamp |-> 0]
  /\ variant = [v \in Variants |-> [exists |-> FALSE, post |-> 0, stamp |-> 0]]
  /\ post = [p \in Posts |-> NoPost]
  /\ txn = [h \in Callers |-> Idle] /\ calls = 0

Live == campaign.status = "live"
Planned == {v \in Variants : variant[v].exists}
IsPost(p) == post[p].status \notin {"none", "gone"}
VariantsOf(p) == {v \in Planned : variant[v].post = p}
At(h, op, pc) == txn[h].op = op /\ txn[h].pc = pc
Free(h, row) == \A g \in Callers \ {h} : row \notin txn[g].has
PostCalls == {"schedule", "batch", "move"}

\* Mutant: a batch locks its campaign before the posts.
ParentFirst(op) == IF op \in {"schedule", "move"} THEN "posts" ELSE "campaign"

FirstLock(op) == IF op \in PostCalls THEN "posts" ELSE "campaign"
BeginWith(h, t) ==
  /\ txn[h] = Idle /\ calls < MaxCalls /\ calls' = calls + 1
  /\ txn' = [txn EXCEPT ![h] = [t EXCEPT !.pc = FirstLock(t.op)]]
Begin(h, op, on, expect, to) == BeginWith(h, [Idle EXCEPT !.op = op, !.on = on, !.expect = expect, !.to = to])
Lock(h, row, pc) == txn' = [txn EXCEPT ![h].has = @ \cup {row}, ![h].pc = pc]
End(h) == txn' = [txn EXCEPT ![h] = Idle]
Later(n) == n + 1
Lowest(rows) == CHOOSE n \in rows : \A m \in rows : n <= m
----------------------------------------------------------------------------
(* The plan: the campaign is locked before its variants. *)

CreateCampaign ==
  /\ campaign.status = "none"
  /\ \E rows \in (SUBSET Variants) \ {{}} :
       variant' = [v \in Variants |-> [exists |-> v \in rows, post |-> 0, stamp |-> 1]]
  /\ campaign' = [status |-> "live", stamp |-> 1]
  /\ UNCHANGED <<post, txn, calls>>
NewPost(v) == [NoPost EXCEPT !.status = "draft", !.of = v, !.revision = 1, !.stamp = 1]
\* A campaign around one draft, which is its only variant.
PlanAround(draft) ==
  /\ campaign.status = "none" /\ campaign' = [status |-> "live", stamp |-> 1]
  /\ variant' = [variant EXCEPT ![draft.of] = [exists |-> TRUE, post |-> 1, stamp |-> 1]]
  /\ post' = [post EXCEPT ![1] = draft]
  /\ UNCHANGED <<txn, calls>>
\* The draft of another feature has been revised and approved meanwhile, or not.
CreateCampaignFromExistingDraft ==
  \E v \in Variants, n \in 1..2, approved \in {{}, {1}} :
    PlanAround([NewPost(v) EXCEPT !.revision = n, !.approved = approved])
\* The repetition of a post is a copy that nobody approved.
CreateAnalyticsRepeatPlan == \E v \in Variants : PlanAround(NewPost(v))

AfterCampaign(op) == CASE op = "edit" -> "variant" [] op \in PostCalls -> "posts" [] op = "plan" -> "read" [] OTHER -> "commit"
LockCampaign(h) ==
  /\ txn[h].pc = "campaign" /\ Free(h, TheCampaign)
  /\ IF Live THEN Lock(h, TheCampaign, AfterCampaign(txn[h].op)) ELSE End(h)
  /\ UNCHANGED <<campaign, variant, post, calls>>

BeginMaterialize(h) == Begin(h, "plan", Planned, {}, "none") /\ UNCHANGED <<campaign, variant, post>>
\* The variants are read once the campaign is locked; those that have a post are left out.
ReadPlan(h) ==
  /\ txn[h].pc = "read"
  /\ txn' = [txn EXCEPT ![h].pc = "commit", ![h].on = {v \in @ : variant[v].exists /\ variant[v].post = 0}]
  /\ UNCHANGED <<campaign, variant, post, calls>>
MaterializeCampaign(h) ==
  /\ At(h, "plan", "commit")
  /\ \E made \in [txn[h].on -> {p \in Posts : post[p].status = "none"}] :
       /\ \A v, w \in txn[h].on : v < w => made[v] < made[w]
       /\ post' = [p \in Posts |-> IF \E v \in txn[h].on : made[v] = p THEN NewPost(CHOOSE v \in txn[h].on : made[v] = p)
                                   ELSE post[p]]
       /\ variant' = [v \in Variants |-> IF v \in txn[h].on
                        THEN [variant[v] EXCEPT !.post = made[v], !.stamp = Later(@)] ELSE variant[v]]
  /\ campaign' = IF txn[h].on = {} THEN campaign ELSE [campaign EXCEPT !.stamp = Later(@)]
  /\ End(h) /\ UNCHANGED calls

BeginUpdateCampaign(h) ==
  /\ \E op \in {"update", "archive"} : Begin(h, op, {}, {campaign.stamp}, "none")
  /\ UNCHANGED <<campaign, variant, post>>
UpdateCampaign(h) ==
  /\ At(h, "update", "commit")
  /\ campaign' = IF campaign.stamp \in txn[h].expect THEN [campaign EXCEPT !.stamp = Later(@)] ELSE campaign
  /\ End(h) /\ UNCHANGED <<variant, post, calls>>
ArchiveCampaign(h) ==
  /\ At(h, "archive", "commit")
  /\ campaign' = IF campaign.stamp \in txn[h].expect THEN [status |-> "archived", stamp |-> Later(campaign.stamp)]
                 ELSE campaign
  /\ End(h) /\ UNCHANGED <<variant, post, calls>>

Fresh == {v \in Variants : variant[v].stamp = 0}
BeginAddVariants(h) == Fresh # {} /\ Begin(h, "add", {}, {}, "none") /\ UNCHANGED <<campaign, variant, post>>
AddCampaignVariants(h) ==
  /\ At(h, "add", "commit")
  /\ \E v \in Fresh : variant' = [variant EXCEPT ![v] = [exists |-> TRUE, post |-> 0, stamp |-> 1]]
  /\ campaign' = [campaign EXCEPT !.stamp = Later(@)]
  /\ End(h) /\ UNCHANGED <<post, calls>>

BeginChangeVariant(h) ==
  /\ \E v \in Planned, op \in {"edit", "delete"} : Begin(h, op, {v}, {variant[v].stamp}, "none")
  /\ UNCHANGED <<campaign, variant, post>>
\* The row of the variant is locked whether or not it has a post.
LockEditedVariant(h) ==
  /\ At(h, "edit", "variant")
  /\ \E v \in txn[h].on : Free(h, VariantRow(v)) /\ Lock(h, VariantRow(v), "commit")
  /\ UNCHANGED <<campaign, variant, post, calls>>
Unchanged(h, v) == variant[v].exists /\ variant[v].post = 0 /\ variant[v].stamp \in txn[h].expect
UpdateCampaignVariant(h) ==
  /\ At(h, "edit", "commit")
  /\ \E v \in txn[h].on :
       IF Unchanged(h, v)
       THEN variant' = [variant EXCEPT ![v].stamp = Later(@)] /\ campaign' = [campaign EXCEPT !.stamp = Later(@)]
       ELSE UNCHANGED <<variant, campaign>>
  /\ End(h) /\ UNCHANGED <<post, calls>>
DeleteCampaignVariant(h) ==
  /\ At(h, "delete", "commit")
  /\ \E v \in txn[h].on :
       IF Unchanged(h, v) /\ Planned # {v}
       THEN variant' = [variant EXCEPT ![v].exists = FALSE] /\ campaign' = [campaign EXCEPT !.stamp = Later(@)]
       ELSE UNCHANGED <<variant, campaign>>
  /\ End(h) /\ UNCHANGED <<post, calls>>
----------------------------------------------------------------------------
(* Posts: their row is locked first, then that of the variant, then the campaign. *)

Approved(p) == post[p].revision \in post[p].approved
Schedulable(p) == post[p].status \in {"draft", "scheduled"} /\ Approved(p)

BeginReschedule(h) ==
  /\ \E p \in Posts : IsPost(p) /\ Begin(h, "schedule", {p}, {<<p, post[p].stamp>>}, "scheduled")
  /\ UNCHANGED <<campaign, variant, post>>
\* The posts of the variants are looked up before anything is locked.
BeginBatchSchedule(h) ==
  /\ \E some \in (SUBSET Planned) \ {{}} :
       /\ Live /\ \A v \in some : variant[v].post # 0
       /\ LET posts == {variant[v].post : v \in some} IN
          BeginWith(h, [Idle EXCEPT !.op = "batch", !.on = posts, !.to = "scheduled",
                    !.map = {<<v, variant[v].post>> : v \in some}, !.expect = {<<p, post[p].stamp>> : p \in posts}])
  /\ UNCHANGED <<campaign, variant, post>>
\* The states of a post that its own handlers and the scheduler bring about.
Moves == {<<"scheduled", "draft">>, <<"scheduled", "publishing">>, <<"draft", "publishing">>,
          <<"publishing", "published">>, <<"publishing", "draft">>, <<"published", "draft">>, <<"draft", "gone">>}
BeginLifecycle(h) ==
  /\ \E p \in Posts, s \in {m[2] : m \in Moves} :
       <<post[p].status, s>> \in Moves /\ Begin(h, "move", {p}, {<<p, post[p].stamp>>}, s)
  /\ UNCHANGED <<campaign, variant, post>>

Ready(h, p) ==
  IF txn[h].op = "move" THEN <<post[p].status, txn[h].to>> \in Moves
  ELSE Schedulable(p) /\ <<p, post[p].stamp>> \in txn[h].expect
Unlocked(h) == {p \in txn[h].on : PostRow(p) \notin txn[h].has}

LockSchedulePost(h) ==
  /\ txn[h].pc = "posts"
  /\ LET p == Lowest(Unlocked(h)) IN
     /\ Free(h, PostRow(p))
     /\ IF IsPost(p) /\ Ready(h, p) THEN Lock(h, PostRow(p), IF Unlocked(h) = {p} THEN "variants" ELSE "posts") ELSE End(h)
  /\ UNCHANGED <<campaign, variant, post, calls>>
ToLock(h) == {v \in UNION {VariantsOf(p) : p \in txn[h].on} : VariantRow(v) \notin txn[h].has}
\* A batch looks again whether its variants still have these posts.
LockVariants(h) ==
  /\ txn[h].pc = "variants"
  /\ IF \E m \in txn[h].map : ~variant[m[1]].exists \/ variant[m[1]].post # m[2] THEN End(h)
     ELSE IF ToLock(h) = {} THEN txn' = [txn EXCEPT ![h].pc = IF Live \/ txn[h].op = "batch" THEN "top" ELSE "write"]
     ELSE LET row == VariantRow(Lowest(ToLock(h))) IN Free(h, row) /\ Lock(h, row, "variants")
  /\ UNCHANGED <<campaign, variant, post, calls>>
LockTop(h) ==
  /\ txn[h].pc = "top" /\ Free(h, TheCampaign)
  /\ IF txn[h].op = "batch" /\ ~Live THEN End(h) ELSE Lock(h, TheCampaign, "write")
  /\ UNCHANGED <<campaign, variant, post, calls>>
WritePosts(h) ==
  /\ txn[h].pc = "write"
  /\ post' = [p \in Posts |-> IF p \in txn[h].on THEN [post[p] EXCEPT !.status = txn[h].to, !.stamp = Later(@)] ELSE post[p]]
  /\ variant' = [v \in Variants |->
       IF variant[v].post \in txn[h].on /\ (Live \/ txn[h].op # "move" \/ txn[h].to = "gone")
       THEN [variant[v] EXCEPT !.stamp = Later(@), !.post = IF txn[h].to = "gone" THEN 0 ELSE @] ELSE variant[v]]
  /\ campaign' = IF Live THEN [campaign EXCEPT !.stamp = Later(@)] ELSE campaign
  /\ End(h) /\ UNCHANGED calls

\* A member writes a new revision, or approves the current one.
Revise(p) ==
  /\ post[p].status = "draft" /\ post[p].revision < 2 /\ \A h \in Callers : PostRow(p) \notin txn[h].has
  /\ post' = [post EXCEPT ![p].revision = @ + 1, ![p].stamp = Later(@)]
  /\ UNCHANGED <<campaign, variant, txn, calls>>
Approve(p) ==
  /\ post[p].status = "draft" /\ ~Approved(p) /\ \A h \in Callers : PostRow(p) \notin txn[h].has
  /\ post' = [post EXCEPT ![p].approved = @ \cup {post[p].revision}, ![p].stamp = Later(@)]
  /\ UNCHANGED <<campaign, variant, txn, calls>>

\* The row a transaction waits for; the database gives up one of those that wait for each other.
Wanted(h) ==
  CASE txn[h].pc \in {"campaign", "top"} -> {TheCampaign}
    [] txn[h].pc = "variant"  -> {VariantRow(v) : v \in txn[h].on}
    [] txn[h].pc = "posts"    -> {PostRow(Lowest(Unlocked(h)))}
    [] txn[h].pc = "variants" /\ ToLock(h) # {} -> {VariantRow(Lowest(ToLock(h)))}
    [] OTHER -> {}
WaitsFor(h, g) == Wanted(h) \cap txn[g].has # {}
Cycle(some) == some # {} /\ \A h \in some : \E g \in some \ {h} : WaitsFor(h, g)
DeadlockAborts(h) ==
  /\ \E some \in SUBSET Callers : h \in some /\ Cycle(some)
  /\ End(h) /\ UNCHANGED <<campaign, variant, post, calls>>

Next ==
  \/ CreateCampaign \/ CreateCampaignFromExistingDraft \/ CreateAnalyticsRepeatPlan
  \/ \E p \in Posts : Revise(p) \/ Approve(p)
  \/ \E h \in Callers :
       \/ BeginMaterialize(h) \/ BeginUpdateCampaign(h) \/ BeginAddVariants(h) \/ BeginChangeVariant(h)
       \/ LockCampaign(h) \/ ReadPlan(h) \/ MaterializeCampaign(h) \/ UpdateCampaign(h) \/ ArchiveCampaign(h)
       \/ AddCampaignVariants(h) \/ LockEditedVariant(h) \/ UpdateCampaignVariant(h) \/ DeleteCampaignVariant(h)
       \/ BeginReschedule(h) \/ BeginBatchSchedule(h) \/ BeginLifecycle(h) \/ LockSchedulePost(h)
       \/ LockVariants(h) \/ LockTop(h) \/ WritePosts(h) \/ DeadlockAborts(h)
----------------------------------------------------------------------------
\* A variant has one post at most, and every post made for a variant is its own as long as it exists.
MaterializedOnce ==
  \A p \in Posts : IsPost(p) => VariantsOf(p) = {post[p].of}

\* A campaign is never left without a variant.
KeepsVariant == campaign.status # "none" => Planned # {}

\* Only what was approved is scheduled, and only as it was when the member looked.
ApprovedScheduled ==
  \A p \in Posts : post'[p].status = "scheduled" /\ post'[p].stamp # post[p].stamp =>
    Approved(p) /\ post'[p].revision = post[p].revision

\* Transactions that wait for each other: one of them edits a variant.
LocksOrdered == \A some \in SUBSET Callers : Cycle(some) => \E h \in some : txn[h].op = "edit"
================================================================================
