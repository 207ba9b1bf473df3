------------------------------ MODULE Discovery ------------------------------
(***************************************************************************)
(* A draft made from a card of the content discovery, with its picture or  *)
(* video copied from the source.                                           *)
(*                                                                         *)
(* The client repeats a request under the same id while an earlier call of *)
(* it may still be fetching: a claim with a lease and a generation decides *)
(* whose copy counts.  Meanwhile members use the draft like any other.     *)
(***************************************************************************)
EXTENDS Naturals

CONSTANTS
  Callers,       \* calls of the request that may run at once
  MaxTakeovers   \* bound on the generations of the claim

VARIABLES
  card,      \* content_discovery_candidates: the card, with its day to live
  transfer,  \* content_discovery_draft_operations: the request
  draft,     \* the post; changed: updated_at is not what the request expects
  caller,    \* the calls
  made       \* history: posts and attachments made for the request

discovery == <<card, transfer, draft, caller, made>>

Idle == [pc |-> "idle", generation |-> 0, item |-> "none"]
Init ==
  /\ card = "fresh"
  /\ transfer = [state |-> "none", generation |-> 0, leased |-> FALSE, item |-> "none"]
  /\ draft = [status |-> "none", changed |-> FALSE]
  /\ caller = [h \in Callers |-> Idle]
  /\ made = [posts |-> 0, copies |-> 0]

End(h) == caller' = [caller EXCEPT ![h] = Idle]
At(h, pc) == caller[h].pc = pc
Go(h, pc, item) == caller' = [caller EXCEPT ![h].pc = pc, ![h].item = item]

\* A new search of the member; a card some request was accepted for is kept.
SaveDiscoveryCandidates ==
  /\ card = "expired" /\ transfer.state = "none"
  /\ card' = "gone"
  /\ UNCHANGED <<transfer, draft, caller, made>>
CardExpires == card = "fresh" /\ card' = "expired" /\ UNCHANGED <<transfer, draft, caller, made>>
LeaseEnds ==
  /\ transfer.leased /\ transfer' = [transfer EXCEPT !.leased = FALSE]
  /\ UNCHANGED <<card, draft, caller, made>>

GetDiscoveryCandidate(h) ==
  /\ At(h, "idle") /\ card # "gone"
  /\ Go(h, "claim", "none")
  /\ UNCHANGED <<card, transfer, draft, made>>

Accept(h) ==
  /\ transfer.state = "none" /\ card = "fresh"
  /\ draft' = [status |-> "draft", changed |-> FALSE] /\ made' = [made EXCEPT !.posts = @ + 1]
  /\ transfer' = [transfer EXCEPT !.state = "working", !.generation = 1, !.leased = TRUE]
  /\ caller' = [caller EXCEPT ![h] = [pc |-> "fetch", generation |-> 1, item |-> "none"]]
TakeOver(h) ==
  /\ transfer.state = "working" /\ draft.status # "gone" /\ ~transfer.leased
  /\ transfer.generation < MaxTakeovers
  /\ transfer' = [transfer EXCEPT !.generation = @ + 1, !.leased = TRUE]
  /\ caller' = [caller EXCEPT ![h] = [pc |-> IF transfer.item = "none" THEN "fetch" ELSE "finish",
                                      generation |-> transfer.generation + 1, item |-> transfer.item]]
  /\ UNCHANGED <<draft, made>>
Answered(h) ==
  /\ \/ transfer.state = "none" /\ card # "fresh"
     \/ transfer.state # "none" /\ draft.status = "gone"
     \/ transfer.state = "complete"
     \/ transfer.state = "working" /\ transfer.leased
  /\ End(h) /\ UNCHANGED <<transfer, draft, made>>
ClaimDiscoveryDraft(h) ==
  /\ At(h, "claim") /\ (Accept(h) \/ TakeOver(h) \/ Answered(h))
  /\ UNCHANGED card

\* The download, its conversion and the reservation of the file may all fail.
CopyDiscoveryMedia(h) ==
  /\ At(h, "fetch")
  /\ Go(h, "attach", "none") \/ Go(h, "finish", "unavailable")
  /\ UNCHANGED <<card, transfer, draft, made>>

\* Mutant: any claim of the request counts.
AnyGeneration(h) == transfer.state = "working"

CurrentGeneration(h) == transfer.state = "working" /\ transfer.generation = caller[h].generation
\* The answer of the transaction may be lost.
AddDiscoveryDraftAttachment(h) ==
  /\ At(h, "attach")
  /\ IF draft.status = "draft" /\ CurrentGeneration(h) /\ ~draft.changed
     THEN /\ transfer' = [transfer EXCEPT !.item = "copied"] /\ made' = [made EXCEPT !.copies = @ + 1]
          /\ Go(h, "finish", "copied") \/ Go(h, "finish", "unavailable")
     ELSE Go(h, "finish", "unavailable") /\ UNCHANGED <<transfer, made>>
  /\ UNCHANGED <<card, draft>>
FinishDiscoveryDraft(h) ==
  /\ At(h, "finish")
  /\ transfer' = IF CurrentGeneration(h) THEN [transfer EXCEPT !.state = "complete", !.item = caller[h].item]
                 ELSE transfer
  /\ End(h) /\ UNCHANGED <<card, draft, made>>
CallerStops(h) == ~At(h, "idle") /\ End(h) /\ UNCHANGED <<card, transfer, draft, made>>

\* Members edit the draft, schedule it or delete it.
MemberChangesDraft ==
  /\ draft.status \in {"draft", "left"}
  /\ \E s \in {"draft", "left", "gone"} : draft' = [status |-> s, changed |-> TRUE]
  /\ UNCHANGED <<card, transfer, caller, made>>

Next ==
  \/ SaveDiscoveryCandidates \/ CardExpires \/ LeaseEnds \/ MemberChangesDraft
  \/ \E h \in Callers :
       \/ GetDiscoveryCandidate(h) \/ ClaimDiscoveryDraft(h) \/ CopyDiscoveryMedia(h)
       \/ AddDiscoveryDraftAttachment(h) \/ FinishDiscoveryDraft(h) \/ CallerStops(h)
----------------------------------------------------------------------------
\* However often a request is repeated there is one draft and one copy in it, and no copy is
\* reported that was not made.
DraftOnce ==
  /\ made.posts <= 1 /\ made.copies <= 1
  /\ transfer.item = "copied" => made.copies = 1

\* A copy never reaches a draft somebody changed, and what was answered is not answered otherwise.
AnswersStand ==
  /\ made'.copies > made.copies => ~draft.changed /\ draft.status = "draft"
  /\ transfer.state = "complete" => transfer' = [transfer EXCEPT !.leased = transfer'.leased]
==============================================================================
