---------------------------- MODULE DirectProvider ----------------------------
(***************************************************************************)
(* The calls of the Yandex Direct client: what each of them reads from the *)
(* advertising account, or what it does to the account when the provider   *)
(* carries it out.  Whether the answer arrives is up to the caller's step. *)
(***************************************************************************)
EXTENDS DirectState

\* How many objects carry the marker of operation n; an edit made in the web
\* interface keeps the marker.
Marked(c, node, n) ==
  IF account[c].content[node] \notin {n, Foreign} THEN 0 ELSE IF node \in account[c].twice THEN 2 ELSE 1

FindUnifiedCampaignByOperationMarker(c, n) == Marked(c, "campaign", n)
FindUnifiedAdGroupByTrackingMarker(c, n) == Marked(c, "group", n)
ListResponsiveAds(c) == account[c].content["ad"]
ListKeywords(c) == account[c].content["keywords"]
GetCampaignGraph(c) == [content |-> account[c].content, duplicated |-> account[c].twice # {}]

\* The fingerprint of a graph names the content all of its nodes have.
Fingerprint(graph) ==
  LET found == {graph.content[n] : n \in Nodes}
  IN  IF Cardinality(found) = 1 /\ ~graph.duplicated THEN CHOOSE k \in found : TRUE ELSE Mixed

\* The graph is the one that operation or revision n describes.
VerifiedAs(c, n) == Fingerprint(GetCampaignGraph(c)) = n
GetGraphCampaign(c) == account[c].state

Put(c, node, content, duplicate) ==
  [account EXCEPT ![c].content[node] = content, ![c].twice = IF duplicate THEN @ \cup {node} ELSE @]
Create(c, node, n) == Put(c, node, n, account[c].content[node] # Absent)

CreateCampaignDraft(c, n) == Create(c, "campaign", n)
CreateUnifiedAdGroup(c, n) == Create(c, "group", n)
CreateResponsiveAd(c, n) == Create(c, "ad", n)

\* The missing phrases are added one by one, and some may be refused.
AddKeywords(c, n) == {Put(c, "keywords", k, FALSE) : k \in {n, Mixed}}
UpdateKeywords(c, n) == {Put(c, "keywords", k, FALSE) : k \in {n, Mixed}}

UpdateUnifiedCampaigns(c, n) == Put(c, "campaign", n, FALSE)
UpdateUnifiedAdGroups(c, n) == Put(c, "group", n, FALSE)

\* A new text sends the ad back to the moderators.
UpdateResponsiveAds(c, n) ==
  [account EXCEPT ![c].content["ad"] = n, ![c].moderation = "DRAFT"]

ModerateAds(c) == [account EXCEPT ![c].moderation = IF @ = "DRAFT" THEN "MODERATION" ELSE @]
ResumeCampaign(c) == [account EXCEPT ![c].state = "ON"]
----------------------------------------------------------------------------
(* What happens at the provider without MaxPosty. *)

\* A moderator decides.
Moderated(c) ==
  /\ account[c].moderation = "MODERATION"
  /\ \E verdict \in {"ACCEPTED", "REJECTED"} : account' = [account EXCEPT ![c].moderation = verdict]
  /\ UNCHANGED <<mix, row, op, launch, syncing, conn, work, failures, history>>

\* A Resume call that was given up reaches the provider after all.
ResumeArrives(c) ==
  /\ account[c].late
  /\ account' = [account EXCEPT ![c].state = "ON", ![c].late = FALSE]
  /\ UNCHANGED <<mix, row, op, launch, syncing, conn, work, failures, history>>

\* Somebody edits, starts or stops the campaign in the web interface.
ChangedOutside(c) ==
  /\ account[c].content["campaign"] # Absent
  /\ Fault("outside")
  /\ \/ \E node \in Nodes : account[c].content[node] # Absent /\ account' = Put(c, node, Foreign, FALSE)
     \/ account' = [account EXCEPT ![c].state = IF @ = "ON" THEN "OFF" ELSE "ON"]
  /\ UNCHANGED <<mix, row, op, launch, syncing, conn, work, history>>
=============================================================================
