---------------------------- MODULE Publication ----------------------------
(***************************************************************************)
(* The life of a post from draft to MAX message: the posts row, the HTTP   *)
(* handlers and scheduler workers that move it, and the MAX messenger they *)
(* deliver to.                                                             *)
(*                                                                         *)
(* One worker is one goroutine serving one request or one scheduler job.   *)
(* A worker reads a snapshot, decides, and comes back with a conditional   *)
(* UPDATE; between two of its steps every other worker may run.  A content *)
(* stands for everything the publication fingerprint covers (text, format, *)
(* media, buttons).  Time is counted in ticks.                             *)
(***************************************************************************)
EXTENDS Integers, FiniteSets

CONSTANTS
  Posts, Contents, MsgIds,
  Handlers,            \* goroutines serving HTTP requests
  Schedulers,          \* server processes running the scheduler loop
  Pool,                \* Pool[s]: the publishing goroutines of scheduler s
  Requests,            \* the requests handlers may serve
  Batch,               \* how many due posts one cycle takes
  PublishBudget,       \* longest a worker keeps a claim, in ticks
  StaleAfter,          \* age at which a claim counts as interrupted
  MaxTime,             \* bound on the clock
  ApprovalRequired,    \* the workspace sends only approved revisions
  NoPost, NoMsg, NoContent

Workers == Handlers \cup UNION {Pool[s] : s \in Schedulers}

AllRequests == {"create", "save", "schedule", "cancel", "discard", "attach", "review",
                "publish", "edit", "unpublish", "sync", "removed"}

ASSUME BudgetAssumption ==
  /\ PublishBudget \in Nat /\ StaleAfter \in Nat /\ MaxTime \in Nat
  /\ PublishBudget <= StaleAfter
ASSUME PoolAssumption ==
  /\ \A s, t \in Schedulers : s # t => Pool[s] \cap Pool[t] = {}
  /\ \A s \in Schedulers : Pool[s] \cap Handlers = {}
ASSUME NullAssumption ==
  /\ NoPost \notin Posts /\ NoMsg \notin MsgIds /\ NoContent \notin Contents
  /\ Requests \subseteq AllRequests /\ ApprovalRequired \in BOOLEAN /\ Batch \in Nat

VARIABLES
  post,      \* the posts table
  message,   \* what MAX holds under each message id
  now,       \* the clock
  pc,        \* what each worker does next
  on,        \* the post a worker works on
  seen,      \* the row it last read
  fresh,     \* workers whose snapshot still carries the row's updated_at
  since,     \* when it took its claim
  got,       \* the message id MAX answered with
  cycle,     \* each scheduler's cycle: its phase, frozen clock and queue
  approved,  \* history: contents a reviewer approved, by post; any where none has to
  retried    \* history: posts a person sent again after a failure

db      == <<post, message, now>>
worker  == <<pc, on, seen, fresh, since, got>>
history == <<approved, retried>>
vars    == <<post, message, now, pc, on, seen, fresh, since, got, cycle, approved, retried>>

NoSlot == -1
Statuses == {"absent", "draft", "scheduled", "publishing", "published", "failed", "deleted"}
Reviews  == {"draft", "in_review", "approved", "changes_requested"}
Errors   == {"none", "interrupted", "failed", "missing"}
Columns == [status : Statuses, content : Contents, slot : Int, msg : MsgIds \cup {NoMsg},
            fingerprint : Contents \cup {NoContent}, error : Errors, review : Reviews,
            revision : Contents \cup {NoContent}, updated : Int]
\* The CHECK posts_schedule_consistency of migration 001.
Row == {r \in Columns : r.status = "scheduled" <=> r.slot # NoSlot}

\* The places where a worker owns the publishing claim of its post.
SendPcs == {"claimed", "checked", "sent", "failing"}
EditPcs == {"edit_claimed", "edit_checked", "edit_done", "edit_failed", "edit_missing"}
Holding == SendPcs \cup EditPcs
Pcs == {"idle", "saving", "scheduling", "to_publish", "job", "revoked", "to_edit",
        "to_delete", "to_clear", "to_sync", "to_miss"} \cup Holding
\* The places where a worker acts on a row it has kept.
Informed == Pcs \ {"idle", "to_publish", "job", "revoked"}

Holds(w) == pc[w] \in Holding
Live(m)  == message[m].state = "live"
LiveOf(q) == {m \in MsgIds : Live(m) /\ message[m].of = q}

TypeOK ==
  /\ post \in [Posts -> Row]
  /\ message \in [MsgIds -> [state : {"unused", "live", "gone"}, of : Posts \cup {NoPost},
                             text : Contents \cup {NoContent}]]
  /\ now \in Nat
  /\ pc \in [Workers -> Pcs]
  /\ on \in [Workers -> Posts \cup {NoPost}]
  /\ \A w \in Workers : pc[w] = "idle" <=> on[w] = NoPost
  /\ seen \in [Workers -> Row \cup {NoPost}]
  /\ \A w \in Workers : pc[w] \in Informed => seen[w] \in Row
  /\ fresh \subseteq Workers
  /\ since \in [Workers -> Nat]
  /\ got \in [Workers -> MsgIds \cup {NoMsg}]
  /\ cycle \in [Schedulers -> [phase : {"rest", "list", "work"}, at : Nat, jobs : SUBSET Posts]]
  /\ approved \in [Posts -> SUBSET Contents]
  /\ retried \in SUBSET Posts
----------------------------------------------------------------------------
Init ==
  /\ \E c \in Contents :
       post = [q \in Posts |->
                [status |-> "absent", content |-> c, slot |-> NoSlot, msg |-> NoMsg,
                 fingerprint |-> NoContent, error |-> "none", review |-> "draft",
                 revision |-> NoContent, updated |-> 0]]
  /\ message = [m \in MsgIds |-> [state |-> "unused", of |-> NoPost, text |-> NoContent]]
  /\ now = 0
  /\ pc = [w \in Workers |-> "idle"]
  /\ on = [w \in Workers |-> NoPost]
  /\ seen = [w \in Workers |-> NoPost]
  /\ fresh = {}
  /\ since = [w \in Workers |-> 0]
  /\ got = [w \in Workers |-> NoMsg]
  /\ cycle = [s \in Schedulers |-> [phase |-> "rest", at |-> 0, jobs |-> {}]]
  /\ approved = [q \in Posts |-> IF ApprovalRequired THEN {} ELSE Contents]
  /\ retried = {}

Stamped(row) == [row EXCEPT !.updated = now]

\* An UPDATE of row q that stamps updated_at: every other snapshot of the row
\* stops matching it.  keep is the set of workers that read the row back.
Write(q, row, keep) ==
  /\ post' = [post EXCEPT ![q] = Stamped(row)]
  /\ fresh' = (fresh \ {w \in Workers : on[w] = q}) \cup keep

\* The triggers of migration 016: a payload change drops the selected revision.
WithContent(row, c) ==
  IF c = row.content THEN row
  ELSE [row EXCEPT !.content = c, !.review = "draft", !.revision = NoContent]

\* requireApprovedCurrentRevision
IsApproved(row) == ApprovalRequired => row.review = "approved" /\ row.revision # NoContent

Exists(q) == post[q].status \notin {"absent", "deleted"}

\* A worker turns to post q ...
TurnTo(w, q, next) ==
  /\ pc[w] = "idle" /\ Exists(q)
  /\ pc' = [pc EXCEPT ![w] = next]
  /\ on' = [on EXCEPT ![w] = q]
  /\ UNCHANGED <<db, since, got, history>>

\* ... and keeps the row it just read.
Open(w, q, next) ==
  /\ TurnTo(w, q, next)
  /\ seen' = [seen EXCEPT ![w] = post[q]]
  /\ fresh' = fresh \cup {w}
  /\ UNCHANGED cycle

\* A worker returns; what it remembered is gone.
Leave(w) ==
  /\ pc' = [pc EXCEPT ![w] = "idle"]
  /\ on' = [on EXCEPT ![w] = NoPost]
  /\ seen' = [seen EXCEPT ![w] = NoPost]
  /\ since' = [since EXCEPT ![w] = 0]
  /\ got' = [got EXCEPT ![w] = NoMsg]

Return(w) == Leave(w) /\ fresh' = fresh \ {w} /\ UNCHANGED <<db, cycle, history>>

Goto(w, next) == pc' = [pc EXCEPT ![w] = next]

Retrying(q) == retried' = IF post[q].status = "failed" THEN retried \cup {q} ELSE retried
----------------------------------------------------------------------------
(* The editor: rows written in one statement. *)

CreatePost(q, c, at) ==
  /\ "create" \in Requests
  /\ post[q].status = "absent"
  /\ at = NoSlot \/ at > now
  /\ Write(q, [post[q] EXCEPT !.status = IF at = NoSlot THEN "draft" ELSE "scheduled",
                              !.content = c, !.slot = at], {})
  /\ UNCHANGED <<message, now, pc, on, seen, since, got, cycle, history>>

\* DuplicatePost: a new draft with the content and none of the publication.
\* A step of CreatePost in all it changes (PublicationProofs!DuplicateCreates),
\* so Next does not name it again.
DuplicatePost(q, copy) ==
  /\ "create" \in Requests
  /\ Exists(q) /\ post[q].status # "publishing" /\ post[copy].status = "absent"
  /\ Write(copy, [post[copy] EXCEPT !.status = "draft", !.content = post[q].content], {})
  /\ UNCHANGED <<message, now, pc, on, seen, since, got, cycle, history>>

\* A gallery write holds the row lock and refuses a publishing post.
WriteAttachments(q, c) ==
  /\ "attach" \in Requests
  /\ Exists(q) /\ post[q].status # "publishing"
  /\ Write(q, [WithContent(post[q], c) EXCEPT !.review = "draft", !.revision = NoContent], {})
  /\ UNCHANGED <<message, now, pc, on, seen, since, got, cycle, history>>

CancelSchedule(q) ==
  /\ "cancel" \in Requests
  /\ post[q].status = "scheduled"
  /\ Write(q, [post[q] EXCEPT !.status = "draft", !.slot = NoSlot], {})
  /\ UNCHANGED <<message, now, pc, on, seen, since, got, cycle, history>>

DeletePost(q) ==
  /\ "discard" \in Requests
  /\ Exists(q) /\ post[q].status # "publishing" /\ post[q].msg = NoMsg
  /\ Write(q, [post[q] EXCEPT !.status = "deleted", !.slot = NoSlot], {})
  /\ UNCHANGED <<message, now, pc, on, seen, since, got, cycle, history>>
----------------------------------------------------------------------------
(* Review.  None of the three looks at the publication status. *)

CreatePostRevision(q) ==
  /\ "review" \in Requests
  /\ Exists(q)
  /\ Write(q, [post[q] EXCEPT !.revision = post[q].content, !.review = "draft"], {})
  /\ UNCHANGED <<message, now, pc, on, seen, since, got, cycle, history>>

SubmitPostForReview(q) ==
  /\ "review" \in Requests
  /\ Exists(q) /\ post[q].review # "in_review"
  /\ Write(q, [post[q] EXCEPT !.revision = post[q].content, !.review = "in_review"], {})
  /\ UNCHANGED <<message, now, pc, on, seen, since, got, cycle, history>>

DecidePostReview(q, decision) ==
  /\ "review" \in Requests
  /\ Exists(q) /\ post[q].revision # NoContent /\ post[q].review = "in_review"
  /\ Write(q, [post[q] EXCEPT !.review = decision], {})
  /\ approved' = IF decision = "approved"
                 THEN [approved EXCEPT ![q] = @ \cup {post[q].revision}] ELSE approved
  /\ UNCHANGED <<message, now, pc, on, seen, since, got, cycle, retried>>
----------------------------------------------------------------------------
(* The editor: read, validate, then write if the row is unchanged. *)

BeginSave(w, q) == "save" \in Requests /\ Open(w, q, "saving")

\* The edited row of updatePostSnapshot; schedule is the requested slot.
Edited(row, c, schedule) ==
  LET body == WithContent(row, c) IN
  IF schedule = row.slot THEN body
  ELSE IF schedule = NoSlot
       THEN [body EXCEPT !.slot = NoSlot,
                         !.status = IF row.status = "scheduled" THEN "draft" ELSE row.status]
       ELSE [body EXCEPT !.slot = schedule, !.status = "scheduled", !.error = "none"]

\* Mutant: an autosave without the compare-and-swap.
FinishSaveBlind(w, c, schedule) ==
  /\ pc[w] = "saving"
  /\ seen[w].status # "publishing"
  /\ seen[w].status = "published" => schedule = seen[w].slot
  /\ schedule # seen[w].slot /\ schedule # NoSlot => schedule > now
  /\ Write(on[w], Edited(seen[w], c, schedule), {})
  /\ IF schedule \notin {NoSlot, seen[w].slot} THEN Retrying(on[w]) ELSE UNCHANGED retried
  /\ Leave(w)
  /\ UNCHANGED <<message, now, cycle, approved>>

FinishSave(w, c, schedule) ==
  LET q == on[w] IN
  /\ pc[w] = "saving"
  /\ w \in fresh
  /\ seen[w].status # "publishing"
  /\ seen[w].status = "published" => schedule = seen[w].slot
  /\ schedule # seen[w].slot /\ schedule # NoSlot => schedule > now
  /\ Write(q, Edited(seen[w], c, schedule), {})
  /\ IF schedule \notin {NoSlot, seen[w].slot} THEN Retrying(q) ELSE UNCHANGED retried
  /\ Leave(w)
  /\ UNCHANGED <<message, now, cycle, approved>>

BeginSchedule(w, q) ==
  /\ "schedule" \in Requests
  /\ IsApproved(post[q])
  /\ Open(w, q, "scheduling")

SetPostScheduledIfUnchanged(w, at) ==
  LET q == on[w] IN
  /\ pc[w] = "scheduling"
  /\ at > now
  /\ w \in fresh
  /\ seen[w].status \in {"draft", "failed", "scheduled"}
  /\ Write(q, [seen[w] EXCEPT !.status = "scheduled", !.slot = at, !.error = "none"], {})
  /\ Retrying(q)
  /\ Leave(w)
  /\ UNCHANGED <<message, now, cycle, approved>>

\* The compare-and-swap misses: the handler answers a conflict.
SaveConflict(w) ==
  /\ pc[w] \in {"saving", "scheduling"}
  /\ \/ w \notin fresh
     \/ seen[w].status = "publishing"
     \/ pc[w] = "scheduling" /\ seen[w].status = "published"
  /\ Return(w)
----------------------------------------------------------------------------
(* Publishing: by a handler, or by a scheduler worker. *)

BeginPublish(w, q) ==
  /\ "publish" \in Requests
  /\ IsApproved(post[q])
  /\ TurnTo(w, q, "to_publish")
  /\ UNCHANGED <<seen, fresh, cycle>>

\* The claim leaves its owner with the row it read back.
Claim(w, row) ==
  /\ Write(on[w], row, {w})
  /\ seen' = [seen EXCEPT ![w] = Stamped(row)]
  /\ since' = [since EXCEPT ![w] = now]
  /\ UNCHANGED <<message, now, on, got, cycle, approved>>

Claimed(row) == [row EXCEPT !.status = "publishing", !.slot = NoSlot, !.error = "none"]

\* No compare-and-swap on the snapshot: any row in a publishable status is taken.
ClaimForPublishing(w) ==
  LET q == on[w] IN
  /\ pc[w] = "to_publish"
  /\ post[q].status \in {"draft", "scheduled", "failed"}
  /\ Claim(w, Claimed(post[q]))
  /\ Retrying(q)
  /\ Goto(w, "claimed")

PublishRefused(w) ==
  /\ pc[w] = "to_publish"
  /\ post[on[w]].status \notin {"draft", "scheduled", "failed"}
  /\ Return(w)

\* The scheduler's goroutine takes one queued post of its cycle.
TakeJob(s, w, q) ==
  /\ cycle[s].phase = "work" /\ q \in cycle[s].jobs /\ w \in Pool[s]
  /\ pc[w] = "idle"
  /\ cycle' = [cycle EXCEPT ![s].jobs = @ \ {q}]
  /\ IF Exists(q)
     THEN TurnTo(w, q, IF IsApproved(post[q]) THEN "job" ELSE "revoked")
     ELSE UNCHANGED <<pc, on, db, since, got, history>>
  /\ UNCHANGED <<seen, fresh>>

Due(q, at) == post[q].status = "scheduled" /\ post[q].slot <= at

\* Mutant: a revoked approval leaves the post on the calendar.
ClaimApprovedOnly(s, w) ==
  /\ w \in Pool[s] /\ pc[w] = "job"
  /\ Due(on[w], cycle[s].at)
  /\ Claim(w, Claimed(post[on[w]]))
  /\ Goto(w, "claimed")
  /\ UNCHANGED retried

\* A post whose approval is missing is claimed too, and then failed.
ClaimScheduledForPublishing(s, w) ==
  LET q == on[w] IN
  /\ w \in Pool[s] /\ pc[w] \in {"job", "revoked"}
  /\ Due(q, cycle[s].at)
  /\ Claim(w, Claimed(post[q]))
  /\ Goto(w, IF pc[w] = "job" THEN "claimed" ELSE "failing")
  /\ UNCHANGED retried

ScheduleNotDue(s, w) ==
  /\ w \in Pool[s] /\ pc[w] \in {"job", "revoked"}
  /\ ~Due(on[w], cycle[s].at)
  /\ Return(w)

\* Mutant: the approval is checked before the claim only.
PreflightUnapproved(w) ==
  /\ pc[w] = "claimed"
  /\ \E next \in {"checked", "failing"} : Goto(w, next)
  /\ UNCHANGED <<db, on, seen, fresh, since, got, cycle, history>>

\* The second approval check, channel inspection and media upload.
Preflight(w) ==
  /\ pc[w] = "claimed"
  /\ \/ IsApproved(post[on[w]]) /\ Goto(w, "checked")
     \/ Goto(w, "failing")
  /\ UNCHANGED <<db, on, seen, fresh, since, got, cycle, history>>

\* MAX takes the message and says so; or it takes it and the answer is lost or
\* carries no id; or it refuses it.
Send(w) ==
  /\ pc[w] = "checked"
  /\ \/ /\ Goto(w, "failing")
        /\ UNCHANGED <<message, got>>
     \/ \E m \in MsgIds :
          /\ message[m].state = "unused"
          /\ message' = [message EXCEPT ![m] =
               [state |-> "live", of |-> on[w], text |-> seen[w].content]]
          /\ \/ Goto(w, "sent") /\ got' = [got EXCEPT ![w] = m]
             \/ Goto(w, "failing") /\ UNCHANGED got
  /\ UNCHANGED <<post, now, on, seen, fresh, since, cycle, history>>

\* Both outcomes check the status only, not whose claim the row carries.
Settle(w, row) ==
  IF post[on[w]].status = "publishing"
  THEN Write(on[w], row, {}) /\ Leave(w) /\ UNCHANGED <<message, now, cycle, history>>
  ELSE Return(w)

MarkPublished(w) ==
  LET row == post[on[w]] IN
  /\ pc[w] = "sent"
  /\ Settle(w, [row EXCEPT !.status = "published", !.slot = NoSlot, !.msg = got[w],
                           !.error = "none", !.fingerprint = row.content])

MarkPublishFailed(w) ==
  LET row == post[on[w]] IN
  /\ pc[w] = "failing"
  /\ Settle(w, [row EXCEPT !.status = "failed", !.slot = NoSlot, !.error = "failed"])
----------------------------------------------------------------------------
(* Editing a published message. *)

BeginEdit(w, q) ==
  /\ "edit" \in Requests
  /\ post[q].status = "published" /\ post[q].msg # NoMsg
  /\ IsApproved(post[q])
  /\ \/ Live(post[q].msg) /\ Open(w, q, "to_edit")
     \/ ~Live(post[q].msg) /\ Open(w, q, "to_miss")

ClaimPublishedForUpdate(w) ==
  LET q == on[w] IN
  /\ pc[w] = "to_edit"
  /\ w \in fresh /\ post[q].status = "published" /\ post[q].msg = seen[w].msg
  /\ Claim(w, [post[q] EXCEPT !.status = "publishing", !.error = "none"])
  /\ Goto(w, "edit_claimed")
  /\ UNCHANGED retried

EditConflict(w) == pc[w] = "to_edit" /\ w \notin fresh /\ Return(w)

EditCheck(w) ==
  /\ pc[w] = "edit_claimed"
  /\ Goto(w, IF IsApproved(post[on[w]]) THEN "edit_checked" ELSE "edit_failed")
  /\ UNCHANGED <<db, on, seen, fresh, since, got, cycle, history>>

\* MAX applies the edit or not, and its answer says so or not; when the message
\* is gone a re-read finds out, unless the re-read fails as well.
EditInMAX(w) ==
  LET m == seen[w].msg IN
  /\ pc[w] = "edit_checked"
  /\ \/ /\ Live(m)
        /\ message' = [message EXCEPT ![m].text = seen[w].content]
        /\ \E next \in {"edit_done", "edit_failed"} : Goto(w, next)
     \/ /\ \/ Goto(w, "edit_failed")
           \/ ~Live(m) /\ Goto(w, "edit_missing")
        /\ UNCHANGED message
  /\ UNCHANGED <<post, now, on, seen, fresh, since, got, cycle, history>>

\* The row after ReleasePublishedUpdate.
Released(w) ==
  IF pc[w] = "edit_done"
  THEN [post[on[w]] EXCEPT !.status = "published", !.error = "none",
                           !.fingerprint = seen[w].content]
  ELSE [post[on[w]] EXCEPT !.status = "published", !.error = "failed"]

ReleasePublishedUpdate(w) ==
  LET q == on[w] IN
  /\ pc[w] \in {"edit_done", "edit_failed", "edit_missing"}
  /\ w \in fresh /\ post[q].status = "publishing" /\ post[q].msg = seen[w].msg
  /\ IF pc[w] = "edit_missing"
     THEN /\ Write(q, Released(w), {w})
          /\ Goto(w, "to_miss")
          /\ seen' = [seen EXCEPT ![w] = Stamped(Released(w))]
          /\ UNCHANGED <<on, since, got>>
     ELSE Write(q, Released(w), {}) /\ Leave(w)
  /\ UNCHANGED <<message, now, cycle, history>>

\* Another write stamped updated_at since the claim: the claim stays behind.
ReleaseMissed(w) ==
  /\ pc[w] \in {"edit_done", "edit_failed", "edit_missing"}
  /\ w \notin fresh
  /\ Return(w)

MarkMAXPublicationMissing(w) ==
  LET q == on[w] IN
  /\ pc[w] = "to_miss"
  /\ IF post[q].status = "published" /\ post[q].msg = seen[w].msg
     THEN /\ Write(q, [post[q] EXCEPT !.status = "failed", !.msg = NoMsg, !.slot = NoSlot,
                                      !.error = "missing"], {})
          /\ Leave(w) /\ UNCHANGED <<message, now, cycle, history>>
     ELSE Return(w)
----------------------------------------------------------------------------
(* Removing a publication, and noticing that somebody else did. *)

BeginDelete(w, q) ==
  /\ "unpublish" \in Requests
  /\ post[q].msg # NoMsg /\ post[q].status # "publishing"
  /\ Open(w, q, "to_delete")

\* MAX deletes the message, or it was gone already; or the call fails, having
\* removed the message or not.
DeleteInMAX(w) ==
  LET m == seen[w].msg IN
  /\ pc[w] = "to_delete"
  /\ \/ /\ message' = [message EXCEPT ![m].state = "gone"]
        /\ \/ Goto(w, "to_clear") /\ UNCHANGED <<on, seen, fresh, since, got>>
           \/ Leave(w) /\ fresh' = fresh \ {w}
     \/ UNCHANGED message /\ Leave(w) /\ fresh' = fresh \ {w}
  /\ UNCHANGED <<post, now, cycle, history>>

\* Mutant: the deletion is recorded without comparing the message id.
ClearAnyMessage(w) ==
  LET q == on[w] IN
  /\ pc[w] = "to_clear"
  /\ IF post[q].status # "publishing"
     THEN /\ Write(q, [post[q] EXCEPT !.status = "draft", !.msg = NoMsg, !.slot = NoSlot,
                                      !.error = "none"], {})
          /\ Leave(w) /\ UNCHANGED <<message, now, cycle, history>>
     ELSE Return(w)

ClearPublication(w) ==
  LET q == on[w] IN
  /\ pc[w] = "to_clear"
  /\ IF post[q].msg = seen[w].msg /\ post[q].status # "publishing"
     THEN /\ Write(q, [post[q] EXCEPT !.status = "draft", !.msg = NoMsg, !.slot = NoSlot,
                                      !.error = "none"], {})
          /\ Leave(w) /\ UNCHANGED <<message, now, cycle, history>>
     ELSE Return(w)

BeginSync(w, q) ==
  /\ "sync" \in Requests
  /\ post[q].status = "published" /\ post[q].msg # NoMsg
  /\ Open(w, q, "to_sync")

\* GetMessage: a 404 leads to the missing mark, anything else leaves the row.
ReadFromMAX(w) ==
  /\ pc[w] = "to_sync"
  /\ \/ /\ ~Live(seen[w].msg)
        /\ Goto(w, "to_miss") /\ UNCHANGED <<db, on, seen, fresh, since, got, cycle, history>>
     \/ Return(w)

\* A channel administrator deletes the message in MAX itself.
RemovedInMAX(m) ==
  /\ "removed" \in Requests
  /\ Live(m)
  /\ message' = [message EXCEPT ![m].state = "gone"]
  /\ UNCHANGED <<post, now, worker, cycle, history>>
----------------------------------------------------------------------------
(* The scheduler loop, the clock, and the loss of a worker. *)

\* Mutants: every claim counts as stale; an interrupted edit becomes a failure;
\* no warning is left; only rows that know their message are recovered.
RecoveredAlways(row, at) ==
  IF row.status = "publishing"
  THEN [row EXCEPT !.status = IF row.msg # NoMsg THEN "published" ELSE "failed",
                   !.error = "interrupted", !.slot = NoSlot, !.updated = now]
  ELSE row
RecoveredAsFailed(row, at) ==
  IF row.status = "publishing" /\ row.updated < at - StaleAfter
  THEN [row EXCEPT !.status = "failed", !.error = "interrupted", !.updated = now] ELSE row
RecoveredSilently(row, at) ==
  IF row.status = "publishing" /\ row.updated < at - StaleAfter
  THEN [row EXCEPT !.status = IF row.msg # NoMsg THEN "published" ELSE "failed",
                   !.updated = now]
  ELSE row
RecoveredIfKnown(row, at) ==
  IF row.status = "publishing" /\ row.updated < at - StaleAfter /\ row.msg # NoMsg
  THEN [row EXCEPT !.status = "published", !.error = "interrupted", !.updated = now] ELSE row

\* RecoverStalePublishing, the first statement of publishDueAt.
Recovered(row, at) ==
  IF row.status = "publishing" /\ row.updated < at - StaleAfter
  THEN [row EXCEPT !.status = IF row.msg # NoMsg THEN "published" ELSE "failed",
                   !.error = "interrupted", !.slot = NoSlot, !.updated = now]
  ELSE row

StartCycle(s) ==
  /\ cycle[s].phase = "rest"
  /\ post' = [q \in Posts |-> Recovered(post[q], now)]
  /\ fresh' = {w \in fresh : on[w] \in Posts => post'[on[w]] = post[on[w]]}
  /\ cycle' = [cycle EXCEPT ![s] = [phase |-> "list", at |-> now, jobs |-> {}]]
  /\ UNCHANGED <<message, now, pc, on, seen, since, got, history>>

\* The earliest Batch posts that are due.
ListDue(s, jobs) ==
  LET due == {q \in Posts : Due(q, cycle[s].at)} IN
  /\ cycle[s].phase = "list"
  /\ jobs \subseteq due
  /\ jobs = due \/ Cardinality(jobs) = Batch
  /\ Cardinality(jobs) <= Batch
  /\ \A q \in jobs, r \in due \ jobs : post[q].slot <= post[r].slot
  /\ cycle' = [cycle EXCEPT ![s].phase = "work", ![s].jobs = jobs]
  /\ UNCHANGED <<db, worker, history>>

EndCycle(s) ==
  /\ cycle[s].phase = "work" /\ cycle[s].jobs = {}
  /\ \A w \in Pool[s] : pc[w] = "idle"
  /\ cycle' = [cycle EXCEPT ![s] = [phase |-> "rest", at |-> 0, jobs |-> {}]]
  /\ UNCHANGED <<db, worker, history>>

\* The process dies, or the statement it was about to run fails: the worker is
\* gone and whatever it had claimed stays as it is.
Abandon(w) == pc[w] # "idle" /\ Return(w)

\* No worker outlives its deadline.
Tick ==
  /\ now < MaxTime
  /\ \A w \in Workers : Holds(w) => now < since[w] + PublishBudget
  /\ now' = now + 1
  /\ UNCHANGED <<post, message, worker, cycle, history>>
----------------------------------------------------------------------------
EditorStep(w) ==
  \/ \E q \in Posts : BeginSave(w, q) \/ BeginSchedule(w, q)
  \/ \E c \in Contents, at \in 0..MaxTime \cup {NoSlot} : FinishSave(w, c, at)
  \/ \E at \in 0..MaxTime : SetPostScheduledIfUnchanged(w, at)
  \/ SaveConflict(w)

RequestStep(w) ==
  \E q \in Posts : BeginPublish(w, q) \/ BeginEdit(w, q) \/ BeginDelete(w, q) \/ BeginSync(w, q)

\* What a worker does once it has begun.
WorkerStep(w) ==
  \/ ClaimForPublishing(w) \/ PublishRefused(w)
  \/ \E s \in Schedulers : ClaimScheduledForPublishing(s, w) \/ ScheduleNotDue(s, w)
  \/ Preflight(w) \/ Send(w) \/ MarkPublished(w) \/ MarkPublishFailed(w)
  \/ ClaimPublishedForUpdate(w) \/ EditConflict(w) \/ EditCheck(w) \/ EditInMAX(w)
  \/ ReleasePublishedUpdate(w) \/ ReleaseMissed(w) \/ MarkMAXPublicationMissing(w)
  \/ DeleteInMAX(w) \/ ClearPublication(w) \/ ReadFromMAX(w)

SchedulerStep(s) ==
  \/ StartCycle(s) \/ EndCycle(s)
  \/ \E jobs \in SUBSET Posts : ListDue(s, jobs)
  \/ \E w \in Pool[s], q \in Posts : TakeJob(s, w, q)

PostStep(q) ==
  \/ \E c \in Contents, at \in 0..MaxTime \cup {NoSlot} : CreatePost(q, c, at)
  \/ \E c \in Contents : WriteAttachments(q, c)
  \/ CancelSchedule(q) \/ DeletePost(q)
  \/ CreatePostRevision(q) \/ SubmitPostForReview(q)
  \/ \E d \in {"approved", "changes_requested"} : DecidePostReview(q, d)

Next ==
  \/ \E w \in Handlers : EditorStep(w) \/ RequestStep(w)
  \/ \E w \in Workers : WorkerStep(w) \/ Abandon(w)
  \/ \E s \in Schedulers : SchedulerStep(s)
  \/ \E q \in Posts : PostStep(q)
  \/ \E m \in MsgIds : RemovedInMAX(m)
  \/ Tick

Spec == Init /\ [][Next]_vars

\* The scheduler loop runs for ever, every begun request or job ends within its
\* deadline, and time passes.  A job may be lost any number of times, but not
\* for ever at the same point: a server that always dies before its claim
\* promises nothing.
Fairness ==
  /\ \A w \in Workers : WF_vars(WorkerStep(w))
  /\ \A s \in Schedulers : \A w \in Pool[s] : SF_vars(ClaimScheduledForPublishing(s, w))
  /\ \A s \in Schedulers : WF_vars(SchedulerStep(s))
  /\ WF_vars(Tick)
FairSpec == Spec /\ Fairness
----------------------------------------------------------------------------
(* Properties *)

\* A worker that claimed a post owns it alone until it settles the outcome: the
\* ten-minute recovery never overtakes a running publication, and MarkPublished
\* and MarkPublishFailed, which check the status only, settle their own claim.
ClaimExclusive ==
  \A w \in Workers : Holds(w) =>
    /\ post[on[w]].status = "publishing"
    /\ \A v \in Workers \ {w} : Holds(v) => on[v] # on[w]

\* The invariant that carries ClaimExclusive.  A snapshot in fresh is the row
\* itself, and a claim is younger than the deadline and older than its row.
FreshIsCurrent ==
  \A w \in fresh : on[w] \in Posts /\ seen[w] = post[on[w]]
ClaimInTime ==
  \A w \in Workers : Holds(w) =>
    /\ since[w] <= post[on[w]].updated
    /\ since[w] <= now /\ now <= since[w] + PublishBudget
ClaimInv == TypeOK /\ FreshIsCurrent /\ ClaimInTime /\ ClaimExclusive

\* The invariant that carries the five properties of the delivery below.  What a
\* row says of its message, of its review and of what MAX shows; and that a row
\* nobody has sent yet, or sent again after a failure, has nothing in the channel.
RowSound(q) ==
  LET row == post[q] IN
  /\ row.status = "published" => row.msg # NoMsg
  /\ row.msg # NoMsg =>
       /\ row.status \in {"published", "publishing"}
       /\ message[row.msg].of = q /\ message[row.msg].state # "unused"
  /\ row.revision # NoContent => row.status # "absent" /\ row.revision = row.content
  /\ row.review = "approved" /\ row.revision # NoContent => row.revision \in approved[q]
  /\ row.status = "published" /\ row.error = "none" /\ Live(row.msg)
       => message[row.msg].text = row.fingerprint
  /\ q \notin retried =>
       /\ row.status \in {"absent", "draft", "scheduled"} => LiveOf(q) = {}
       /\ row.msg # NoMsg => LiveOf(q) \subseteq {row.msg}
       /\ \A m, n \in LiveOf(q) : m = n

\* What a worker knows of the post it holds.
HolderSound(w) ==
  /\ pc[w] \in SendPcs => post[on[w]].msg = NoMsg
  /\ pc[w] \in EditPcs => post[on[w]].msg = seen[w].msg /\ seen[w].msg # NoMsg
  /\ Holds(w) => post[on[w]].content = seen[w].content
  /\ pc[w] \in {"checked", "edit_checked"} /\ ApprovalRequired
       => seen[w].content \in approved[on[w]]
  /\ pc[w] \in {"claimed", "checked"} /\ on[w] \notin retried => LiveOf(on[w]) = {}
  /\ pc[w] = "sent" =>
       /\ got[w] # NoMsg
       /\ message[got[w]].of = on[w] /\ message[got[w]].state # "unused"
       /\ message[got[w]].text = seen[w].content
       /\ on[w] \notin retried => LiveOf(on[w]) \subseteq {got[w]}
  /\ pc[w] = "edit_done" => message[seen[w].msg].text = seen[w].content

\* What a worker knows of the row it saves, and of the message it is about to
\* edit, delete or declare gone.
MessageKnown(w) ==
  /\ pc[w] = "saving" => seen[w].status \notin {"absent", "deleted"}
  /\ pc[w] \in {"to_edit", "to_delete", "to_sync"}
       => seen[w].msg # NoMsg /\ message[seen[w].msg].state # "unused"
  /\ pc[w] \in {"to_miss", "to_clear", "edit_missing"}
       => seen[w].msg # NoMsg /\ message[seen[w].msg].state = "gone"

DeliveryInv ==
  /\ \A q \in Posts : RowSound(q)
  /\ \A w \in Workers : HolderSound(w) /\ MessageKnown(w)
  /\ \A m \in MsgIds : message[m].state # "unused" =>
       /\ message[m].of \in Posts
       /\ ApprovalRequired => message[m].text \in approved[message[m].of]

\* A row names a MAX message exactly while it is published or being edited, and
\* that message was sent for this post and for no other.
MessageMatchesStatus ==
  \A q \in Posts :
    /\ post[q].status = "published" => post[q].msg # NoMsg
    /\ post[q].msg # NoMsg =>
         /\ post[q].status \in {"published", "publishing"}
         /\ message[post[q].msg].of = q /\ message[post[q].msg].state # "unused"

\* Nothing but a person acting on a failed post puts a second message of that
\* post into the channel: not autosaves, cancelled or moved schedules, several
\* schedulers, lost answers, crashes or the recovery of interrupted claims.
NoSilentDuplicate ==
  \A q \in Posts : Cardinality(LiveOf(q)) > 1 => q \in retried

\* With approval required, every text that ever reached MAX was approved for
\* that post, although the approval is checked outside the claiming statement.
OnlyApprovedSent ==
  ApprovalRequired =>
    \A m \in MsgIds : message[m].state # "unused" => message[m].text \in approved[message[m].of]

\* A published row without an error whose fingerprint equals its content tells
\* the editor there is nothing to push; then MAX shows exactly that content.
NoFalseInSync ==
  \A q \in Posts :
    /\ post[q].status = "published" /\ post[q].error = "none"
    /\ post[q].fingerprint = post[q].content /\ Live(post[q].msg)
    => message[post[q].msg].text = post[q].content

\* A row forgets its message only after the message is gone from MAX: a late
\* deletion, a late 404 or a recovery never detaches a newer publication.
LiveMessageKept ==
  [][\A q \in Posts : post[q].msg # NoMsg /\ Live(post[q].msg) => post'[q].msg = post[q].msg]_vars

\* An interrupted publication does not stay claimed: a cycle settles it once it is
\* older than the recovery age, unless somebody goes on stamping its row until the
\* clock ends.
Recoverable(q) == post[q].status = "publishing" /\ post[q].updated + StaleAfter < MaxTime
InterruptedRecovered == \A q \in Posts : Recoverable(q) ~> ~Recoverable(q)

\* A due post leaves the calendar, approved or not: it cannot occupy the batch
\* of every later cycle.
DueLeavesCalendar ==
  \A q \in Posts : Due(q, now) ~> ~Due(q, now)

\* "Moving the post to publishing blocks concurrent editor and attachment writes
\* until the outbound operation is released": whatever happens to the row during
\* an edit, the compare-and-swap of ReleasePublishedUpdate still matches it.
EditClaimReleasable == \A w \in Workers : pc[w] \in EditPcs => w \in fresh
============================================================================
