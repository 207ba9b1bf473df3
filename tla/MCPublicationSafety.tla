-------------------------- MODULE MCPublicationSafety --------------------------
(***************************************************************************)
(* Three situations of the publication lifecycle, one of which a behaviour *)
(* belongs to: two handlers and two schedulers race over a post; its       *)
(* content needs approval while it is edited and published; two handlers   *)
(* edit, remove and reconcile its message.  The constants of this module   *)
(* itself cover all three: its workers, contents and requests are those of *)
(* any of them.                                                            *)
(***************************************************************************)
EXTENDS Publication, TLC

CONSTANTS q1, m1, m2, h1, h2, g1, g2, s1, s2, c1, c2
VARIABLE situation

ThePost == {q1}
Messages == {m1, m2}
OneHandler == {h1}
TwoHandlers == {h1, h2}
OneScheduler == {s1}
TwoSchedulers == {s1, s2}
OnePool == (s1 :> {g1})
TwoPools == (s1 :> {g1}) @@ (s2 :> {g2})
OneText == {c1}
TwoTexts == {c1, c2}
RaceRequests == {"create", "save", "schedule", "cancel", "publish"}
ReviewRequests == {"create", "schedule", "attach", "review", "edit", "publish", "unpublish"}
RemovalRequests == {"create", "schedule", "discard", "publish", "edit", "unpublish", "sync", "removed"}

Race == INSTANCE Publication WITH Posts <- ThePost, Contents <- OneText, MsgIds <- Messages,
  Handlers <- TwoHandlers, Schedulers <- TwoSchedulers, Pool <- TwoPools, Requests <- RaceRequests,
  Batch <- 1, PublishBudget <- 1, StaleAfter <- 1, MaxTime <- 2, ApprovalRequired <- FALSE
Review == INSTANCE Publication WITH Posts <- ThePost, Contents <- TwoTexts, MsgIds <- Messages,
  Handlers <- OneHandler, Schedulers <- OneScheduler, Pool <- OnePool, Requests <- ReviewRequests,
  Batch <- 1, PublishBudget <- 0, StaleAfter <- 0, MaxTime <- 1, ApprovalRequired <- TRUE
Removal == INSTANCE Publication WITH Posts <- ThePost, Contents <- OneText, MsgIds <- Messages,
  Handlers <- TwoHandlers, Schedulers <- OneScheduler, Pool <- OnePool, Requests <- RemovalRequests,
  Batch <- 1, PublishBudget <- 0, StaleAfter <- 0, MaxTime <- 1, ApprovalRequired <- FALSE

SituationInit ==
  \/ situation = "race" /\ Race!Init
  \/ situation = "review" /\ Review!Init
  \/ situation = "removal" /\ Removal!Init
SituationNext ==
  /\ UNCHANGED situation
  /\ \/ situation = "race" /\ Race!Next
     \/ situation = "review" /\ Review!Next
     \/ situation = "removal" /\ Removal!Next
SituationSpec == SituationInit /\ [][SituationNext]_<<situation, vars>>

Identical == Permutations(TwoHandlers) \cup Permutations(Messages)
================================================================================
