------------------------------ MODULE DirectGraph ------------------------------
(***************************************************************************)
(* The workflow of a provider operation.  A submission builds the campaign,*)
(* its group, its ad and its keywords one after another, looking first for *)
(* what an earlier attempt left; an edit rewrites them in the same order,  *)
(* checking each time that everything else is as it was.  Then the whole   *)
(* graph is observed, recorded as a revision and sent to moderation.       *)
(* Every call and every transaction is a step; the material of the         *)
(* goroutine says at which stage it believes the operation to be.          *)
(***************************************************************************)
EXTENDS DirectGraphStore

NodeOf == [claimed |-> "campaign", campaign |-> "group", group |-> "ad", ad |-> "keywords"]
Number(w) == op[work[w].on].number
Doing(w, kind, stage, pc) ==
  /\ work[w].job = "graph" /\ work[w].pc = pc /\ work[w].stage = stage
  /\ op[work[w].on].kind = kind
Untouched == UNCHANGED <<mix, row, op, launch, syncing, conn, account, failures, history>>
OnlyAccount == UNCHANGED <<mix, row, op, launch, syncing, conn, history>>

GiveUp(w) == Forget(w) /\ UNCHANGED <<mix, row, conn, account, failures, history>>
GoOn(w, pc) == Goto(w, pc) /\ Untouched

\* What the goroutine goes on with is what the account shows now.
See(w, pc) ==
  /\ work' = [work EXCEPT ![w].pc = pc,
                          ![w].saw = [moderation |-> account[work[w].on].moderation,
                                      state |-> GetGraphCampaign(work[w].on)]]
  /\ Untouched

\* The loop loads the operation it took over.
LoadMaterial(w) ==
  /\ work[w].job = "graph" /\ work[w].pc = "load"
  /\ IF MaterialLoads(work[w].on) THEN GoOn(w, "read") ELSE GiveUp(w)

\* The stage is recorded, and the goroutine goes on from there.
AdvanceGraphStage(w, stage) ==
  LET c == work[w].on IN
  IF CanAdvance(w, c, stage)
  THEN /\ Advanced(c, stage)
       /\ work' = [work EXCEPT ![w].stage = stage, ![w].pc = IF stage = "completed" THEN "again" ELSE "read"]
       /\ UNCHANGED <<mix, launch, syncing, conn, account, failures, history>>
  ELSE GiveUp(w)

\* The provider carried the call out; the answer may be lost, and with it the
\* goroutine, whatever the call had done by then.
Carried(w, after, pc) ==
  \/ account' = after /\ Goto(w, pc) /\ NoFault /\ OnlyAccount
  \/ /\ Fault("lost")
     /\ account' \in {account, after}
     /\ Forget(w) /\ UNCHANGED <<mix, row, conn, history>>
----------------------------------------------------------------------------
(* Submission. *)

\* Mutant: the campaign is created without looking for an earlier one.
CreateWithoutLooking(w) ==
  /\ Doing(w, "submission", "claimed", "read")
  /\ GoOn(w, "write")

\* Mutant: a campaign that an earlier attempt left is taken for a conflict.
FoundIsConflict(w) ==
  /\ Doing(w, "submission", "claimed", "read")
  /\ IF FindUnifiedCampaignByOperationMarker(work[w].on, Number(w)) = 0 THEN GoOn(w, "write") ELSE GiveUp(w)

FindCampaign(w) ==
  /\ Doing(w, "submission", "claimed", "read")
  /\ LET found == FindUnifiedCampaignByOperationMarker(work[w].on, Number(w)) IN
     \/ found = 0 /\ GoOn(w, "write")
     \/ found = 1 /\ GoOn(w, "advance")
     \/ found > 1 /\ GiveUp(w)
CreateCampaign(w) ==
  /\ Doing(w, "submission", "claimed", "write")
  /\ Carried(w, CreateCampaignDraft(work[w].on, Number(w)), "advance")

\* The provider names an error of the campaign itself; whether it created it
\* nevertheless is looked up before the draft is given back.
RefuseCampaign(w) ==
  /\ Doing(w, "submission", "claimed", "write")
  /\ Fault("rejected") /\ Goto(w, "confirm") /\ OnlyAccount
  /\ account' \in {account, CreateCampaignDraft(work[w].on, Number(w))}

\* Mutant: an operation whose first call was refused ends without that look.
FailSubmissionUnread(w) ==
  /\ Doing(w, "submission", "claimed", "confirm")
  /\ FailOperation(w, work[w].on) /\ End(w)
  /\ UNCHANGED <<mix, launch, syncing, conn, account, failures, history>>

FailSubmissionIfAbsent(w) ==
  /\ Doing(w, "submission", "claimed", "confirm")
  /\ LET c == work[w].on IN
     IF FindUnifiedCampaignByOperationMarker(c, Number(w)) = 0
     THEN /\ FailOperation(w, c) /\ End(w)
          /\ UNCHANGED <<mix, launch, syncing, conn, account, failures, history>>
     ELSE GiveUp(w)

FindAdGroup(w) ==
  /\ Doing(w, "submission", "campaign", "read")
  /\ LET found == FindUnifiedAdGroupByTrackingMarker(work[w].on, Number(w)) IN
     \/ found = 0 /\ GoOn(w, "write")
     \/ found = 1 /\ GoOn(w, "advance")
     \/ found > 1 /\ GiveUp(w)
CreateAdGroup(w) ==
  /\ Doing(w, "submission", "campaign", "write")
  /\ Carried(w, CreateUnifiedAdGroup(work[w].on, Number(w)), "advance")

\* A single ad must be the one wanted; an ad whose creation answered with an
\* error is looked for once more.
FindAd(w, pc, absent) ==
  /\ Doing(w, "submission", "group", pc)
  /\ LET found == ListResponsiveAds(work[w].on) IN
     \/ found = Absent /\ absent
     \/ found = Number(w) /\ "ad" \notin account[work[w].on].twice /\ GoOn(w, "advance")
     \/ (found \notin {Absent, Number(w)} \/ "ad" \in account[work[w].on].twice) /\ GiveUp(w)
ReadAd(w) == FindAd(w, "read", GoOn(w, "write"))
CreateAd(w) ==
  /\ Doing(w, "submission", "group", "write")
  /\ \/ Carried(w, CreateResponsiveAd(work[w].on, Number(w)), "advance")
     \/ /\ Fault("lost") /\ Goto(w, "confirm") /\ OnlyAccount
        /\ account' \in {account, CreateResponsiveAd(work[w].on, Number(w))}
ConfirmAd(w) == FindAd(w, "confirm", GiveUp(w))

\* Phrases that are missing are added; then all of them must be there.
FindKeywords(w, pc, missing) ==
  /\ Doing(w, "submission", "ad", pc)
  /\ LET found == ListKeywords(work[w].on) IN
     \/ found \in {Absent, Mixed} /\ missing
     \/ found = Number(w) /\ GoOn(w, "advance")
     \/ found \notin {Absent, Mixed, Number(w)} /\ GiveUp(w)
ReadKeywords(w) == FindKeywords(w, "read", GoOn(w, "write"))
CreateKeywords(w) ==
  /\ Doing(w, "submission", "ad", "write")
  /\ \/ Carried(w, Put(work[w].on, "keywords", Number(w), FALSE), "confirm")
     \/ /\ Fault("lost") /\ Goto(w, "confirm") /\ OnlyAccount
        /\ account' \in AddKeywords(work[w].on, Number(w)) \cup {account}
ConfirmKeywords(w) == FindKeywords(w, "confirm", GiveUp(w))
----------------------------------------------------------------------------
(* Edit. *)

\* Everything before the node has the new content, everything after it the
\* old one, and the node itself either.
EditPrefix(w) ==
  LET c == work[w].on  stage == work[w].stage  at == NodeOf[stage]
      earlier == CASE stage = "claimed" -> {} [] stage = "campaign" -> {"campaign"}
                   [] stage = "group" -> {"campaign", "group"} [] OTHER -> {"campaign", "group", "ad"}
  IN  /\ account[c].state = "OFF" /\ account[c].twice = {}
      /\ \A n \in earlier : account[c].content[n] = Number(w)
      /\ \A n \in Nodes \ (earlier \cup {at}) : account[c].content[n] = op[c].base
      /\ account[c].content[at] \in {op[c].base, Number(w)} \cup (IF at = "keywords" THEN {Mixed} ELSE {})

Rewritten(w) == account[work[w].on].content[NodeOf[work[w].stage]] = Number(w)

\* The graph is read before the write, and again after it whatever it answered.
ReadForEdit(w, stage) ==
  /\ Doing(w, "update", stage, "read")
  /\ \/ EditPrefix(w) /\ Rewritten(w) /\ GoOn(w, "advance")
     \/ EditPrefix(w) /\ ~Rewritten(w) /\ GoOn(w, "write")
     \/ ~EditPrefix(w) /\ GiveUp(w)
WriteEdit(w, stage, written, partly) ==
  /\ Doing(w, "update", stage, "write")
  /\ \/ Carried(w, written, "confirm")
     \/ /\ Fault("lost") /\ Goto(w, "confirm") /\ OnlyAccount
        /\ account' \in partly \cup {account}
ConfirmEdit(w, stage) ==
  /\ Doing(w, "update", stage, "confirm")
  /\ IF EditPrefix(w) /\ Rewritten(w) THEN GoOn(w, "advance") ELSE GiveUp(w)

\* A campaign update that the provider refused ends the operation if the graph
\* is the old one.
RefuseUpdate(w) ==
  /\ Doing(w, "update", "claimed", "write")
  /\ Fault("rejected") /\ Goto(w, "record") /\ OnlyAccount
  /\ account' \in {account, UpdateUnifiedCampaigns(work[w].on, Number(w))}
FailUpdateIfUnchanged(w) ==
  /\ Doing(w, "update", "claimed", "record")
  /\ LET c == work[w].on IN
     IF EditPrefix(w) /\ VerifiedAs(c, op[c].base)
     THEN /\ FailOperation(w, c) /\ End(w)
          /\ UNCHANGED <<mix, launch, syncing, conn, account, failures, history>>
     ELSE GiveUp(w)

UpdateCampaign(w) ==
  \/ ReadForEdit(w, "claimed")
  \/ WriteEdit(w, "claimed", UpdateUnifiedCampaigns(work[w].on, Number(w)),
               {UpdateUnifiedCampaigns(work[w].on, Number(w))})
  \/ ConfirmEdit(w, "claimed")
UpdateAdGroup(w) ==
  \/ ReadForEdit(w, "campaign")
  \/ WriteEdit(w, "campaign", UpdateUnifiedAdGroups(work[w].on, Number(w)),
               {UpdateUnifiedAdGroups(work[w].on, Number(w))})
  \/ ConfirmEdit(w, "campaign")
UpdateAd(w) ==
  \/ ReadForEdit(w, "group")
  \/ WriteEdit(w, "group", UpdateResponsiveAds(work[w].on, Number(w)),
               {UpdateResponsiveAds(work[w].on, Number(w))})
  \/ ConfirmEdit(w, "group")
ReplaceKeywords(w) ==
  \/ ReadForEdit(w, "ad")
  \/ WriteEdit(w, "ad", Put(work[w].on, "keywords", Number(w), FALSE),
               UpdateKeywords(work[w].on, Number(w)))
  \/ ConfirmEdit(w, "ad")
----------------------------------------------------------------------------
(* The whole graph. *)

\* The graph is the one wanted, in one copy, and switched off.
GraphVerified(c, n) == VerifiedAs(c, n) /\ GetGraphCampaign(c) = "OFF"

\* A recorded stage of every kind goes through here.
RecordStage(w) ==
  /\ work[w].job = "graph" /\ work[w].pc = "advance"
  /\ AdvanceGraphStage(w, NextStage[work[w].stage])

ObserveGraph(w) ==
  /\ work[w].job = "graph" /\ work[w].pc = "read" /\ work[w].stage = "keywords"
  /\ IF GraphVerified(work[w].on, Number(w)) THEN GoOn(w, "advance") ELSE GiveUp(w)

\* The graph is read once more, then recorded; the material is loaded again,
\* which needs the connection.
RecordGraph(w) ==
  /\ work[w].job = "graph" /\ work[w].stage = "observed"
  /\ \/ /\ work[w].pc = "read"
        /\ IF GraphVerified(work[w].on, Number(w)) THEN See(w, "record") ELSE GiveUp(w)
     \/ /\ work[w].pc = "record"
        /\ LET c == work[w].on IN
           IF CanRecord(w, c)
           THEN /\ RecordVerified(c, work[w].saw.moderation)
                /\ work' = [work EXCEPT ![w].stage = "verified", ![w].pc = "load", ![w].saw = NothingSeen]
                /\ UNCHANGED <<mix, launch, syncing, conn, account, failures, history>>
           ELSE GiveUp(w)

\* Only a draft is sent to the moderators; when that call answers with an
\* error, the ad must have left the draft all the same.
RequestModeration(w) ==
  /\ work[w].job = "graph" /\ work[w].stage = "verified"
  /\ LET c == work[w].on IN
     \/ /\ work[w].pc = "read"
        /\ IF ~GraphVerified(c, Number(w)) THEN GiveUp(w)
           ELSE IF account[c].moderation = "DRAFT" THEN GoOn(w, "write") ELSE GoOn(w, "advance")
     \/ /\ work[w].pc = "write"
        /\ \/ Carried(w, ModerateAds(c), "advance")
           \/ Fault("lost") /\ Goto(w, "confirm") /\ OnlyAccount /\ account' \in {account, ModerateAds(c)}
     \/ /\ work[w].pc = "confirm"
        /\ IF account[c].moderation # "DRAFT" THEN GoOn(w, "advance") ELSE GiveUp(w)

Complete(w) ==
  /\ work[w].job = "graph" /\ work[w].pc = "read" /\ work[w].stage = "moderation"
  /\ AdvanceGraphStage(w, "completed")
=============================================================================
