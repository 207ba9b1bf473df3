-------------------------------- MODULE Comments --------------------------------
(***************************************************************************)
(* Comments under one publication in MAX: replies, edits and deletions     *)
(* written by the bot on behalf of members, the synchronisation of the     *)
(* list, and MAX's events about removals.                                  *)
(*                                                                         *)
(* A write is claimed under the client's request key, begun, sent once and *)
(* settled.  A write whose outcome is unknown blocks the next one of its   *)
(* kind until somebody shows what became of it.  Message 0 is a comment of *)
(* the bot; a sent comment is named after its request, and its text too.   *)
(***************************************************************************)
EXTENDS Integers, FiniteSets

CONSTANTS
  Handlers,      \* goroutines of HTTP requests
  CommentKind,   \* of each request key: "send", "edit" or "delete"
  CommentLease,  \* lease of an operation: 2 minutes
  MaxClock,      \* bound on the clock that stamps observations
  MaxPages,      \* bound on the synchronisations
  MaxLoss        \* bound on lost answers, rejections and crashes

VARIABLES
  row,       \* max_post_comments
  op,        \* max_post_comment_operations, by request key
  listing,   \* max_post_comment_sync: the latest generation and whether it is claimed
  call,      \* what each goroutine does
  thread,    \* the comments in MAX: their text, or Gone; writes still under way
  events,    \* removals MAX has not reported yet, with their time
  clock, loss,
  times      \* history: how often a request was sent

comments == <<row, op, listing, call, thread, events, clock, loss, times>>

Keys == DOMAIN CommentKind
Sends == {k \in Keys : CommentKind[k] = "send"}
Messages == {0} \cup Sends
Target(k) == IF k \in Sends THEN k ELSE 0
\* Requests have numbers, and message 0 is none of them.
KindsOK ==
  /\ \A k \in Keys : k \in Nat \ {0} /\ CommentKind[k] \in {"send", "edit", "delete"}
  /\ IsFiniteSet(Handlers) /\ CommentLease \in Int
None == -1
Gone == -2
NoCall == [pc |-> "idle", k |-> 0, saw |-> None, fence |-> 0, stamp |-> 0, end |-> ""]
Init ==
  /\ row = [m \in Messages |-> [known |-> m = 0, text |-> 0, deleted |-> FALSE, observed |-> 0, version |-> 1]]
  /\ op = [k \in Keys |-> [state |-> "none", started |-> FALSE, lease |-> 0, fence |-> 0]]
  /\ listing = [generation |-> 0, claimed |-> FALSE]
  /\ call = [h \in Handlers |-> NoCall]
  /\ thread = [text |-> [m \in Messages |-> IF m = 0 THEN 0 ELSE None], late |-> {}, carried |-> {}]
  /\ events = {} /\ clock = 1 /\ loss = 0
  /\ times = [k \in Keys |-> 0]

In(h, pc) == call[h].pc = pc
To(h, pc) == call' = [call EXCEPT ![h].pc = pc]
EndWith(h, state) == call' = [call EXCEPT ![h].pc = "finish", ![h].end = state]
Done(h) == call' = [call EXCEPT ![h] = NoCall]
Loses == loss < MaxLoss /\ loss' = loss + 1
Visible(m) == thread.text[m] >= 0
----------------------------------------------------------------------------
(* What transactions do. *)

\* upsertMAXCommentTx: an older observation is ignored, a tombstone stays.
Upserted(r, text, gone, stamp) ==
  IF r.known /\ r.observed > stamp THEN r
  ELSE IF ~r.known THEN [r EXCEPT !.known = TRUE, !.text = text, !.deleted = gone, !.observed = stamp]
  ELSE [r EXCEPT !.text = IF r.deleted THEN @ ELSE text, !.observed = stamp, !.deleted = @ \/ gone,
                 !.version = @ + (IF (~r.deleted /\ r.text # text) \/ (gone /\ ~r.deleted) THEN 1 ELSE 0)]
Upsert(m, text, gone, stamp) == row' = [row EXCEPT ![m] = Upserted(@, text, gone, stamp)]

\* Mutant: with its lease an operation is over, whether its write began or not.
ExpiredForgotten(k) ==
  IF op[k].state = "sending" /\ op[k].lease = 0 THEN [op[k] EXCEPT !.state = "rejected"] ELSE op[k]

\* A write that began cannot be called off by the end of its lease.
ExpiredOperation(k) ==
  IF op[k].state = "sending" /\ op[k].lease = 0
  THEN [op[k] EXCEPT !.state = IF op[k].started THEN "uncertain" ELSE "rejected"] ELSE op[k]
Expired == [k \in Keys |-> ExpiredOperation(k)]

Rival(k, j) ==
  IF CommentKind[k] = "send" THEN CommentKind[j] = "send" ELSE CommentKind[j] # "send"
Blocked(k) == \E j \in Keys : Rival(k, j) /\ Expired[j].state \in {"sending", "uncertain"}
----------------------------------------------------------------------------
(* MutateMAXComment. *)

\* A request key the store knows is answered from it. Replies name no parent.
BeginMutation(h, k) ==
  /\ In(h, "idle") /\ op[k].state = "none"
  /\ call' = [call EXCEPT ![h] = [NoCall EXCEPT !.k = k, !.pc = IF k \in Sends THEN "claim" ELSE "fetch",
                                                !.fence = row[0].version]]
  /\ UNCHANGED <<row, op, listing, thread, events, clock, loss, times>>
GetComment(h) ==
  /\ In(h, "fetch")
  /\ IF Visible(0) THEN call' = [call EXCEPT ![h].pc = "observe", ![h].saw = thread.text[0]] ELSE Done(h)
  /\ UNCHANGED <<row, op, listing, thread, events, clock, loss, times>>
ObserveMAXComment(h) ==
  /\ In(h, "observe")
  /\ Upsert(0, call[h].saw, FALSE, clock) /\ To(h, "claim")
  /\ UNCHANGED <<op, listing, thread, events, clock, loss, times>>
ClaimMAXCommentOperation(h) ==
  /\ In(h, "claim")
  /\ LET k == call[h].k IN
     IF op[k].state # "none" THEN Done(h) /\ UNCHANGED op
     ELSE IF Blocked(k) \/ (k \notin Sends /\ (row[0].deleted \/ row[0].version # call[h].fence))
     THEN Done(h) /\ op' = op     \* the transaction is rolled back
     ELSE /\ op' = [Expired EXCEPT ![k] = [state |-> "sending", started |-> FALSE, lease |-> CommentLease,
                                           fence |-> call[h].fence]]
          /\ To(h, "begin")
  /\ UNCHANGED <<row, listing, thread, events, clock, loss, times>>

MayBegin(k) == op[k].state = "sending" /\ ~op[k].started /\ op[k].lease > 0
BeginMAXCommentWrite(h) ==
  /\ In(h, "begin")
  /\ LET k == call[h].k IN
     IF MayBegin(k) /\ (k \in Sends \/ (~row[0].deleted /\ row[0].version = op[k].fence))
     THEN op' = [op EXCEPT ![k].started = TRUE] /\ To(h, "write")
     ELSE EndWith(h, "rejected") /\ UNCHANGED op
  /\ UNCHANGED <<row, listing, thread, events, clock, loss, times>>

\* What MAX does with a write: a removed comment is neither edited nor removed.
Effect(k) ==
  CASE CommentKind[k] = "send" -> [thread EXCEPT !.text[k] = k, !.late = @ \ {k}, !.carried = @ \cup {k}]
    [] CommentKind[k] = "edit" /\ Visible(0) -> [thread EXCEPT !.text[0] = k, !.late = @ \ {k}, !.carried = @ \cup {k}]
    [] CommentKind[k] = "delete" /\ Visible(0) -> [thread EXCEPT !.text[0] = Gone, !.late = @ \ {k}, !.carried = @ \cup {k}]
    [] OTHER -> [thread EXCEPT !.late = @ \ {k}]
WriteComment(h) ==
  /\ In(h, "write")
  /\ LET k == call[h].k  accepted == k \in Sends \/ Visible(0) IN
     /\ times' = [times EXCEPT ![k] = @ + 1]
     /\ \/ /\ accepted /\ thread' = Effect(k) /\ UNCHANGED loss
           /\ IF CommentKind[k] = "edit" THEN To(h, "readback") ELSE EndWith(h, "succeeded")
        \/ ~accepted /\ EndWith(h, "rejected") /\ UNCHANGED <<thread, loss>>
        \/ Loses /\ EndWith(h, "rejected") /\ UNCHANGED thread
        \/ Loses /\ EndWith(h, "uncertain") /\ thread' \in {thread, Effect(k), [thread EXCEPT !.late = @ \cup {k}]}
  /\ UNCHANGED <<row, op, listing, events, clock>>
ReadBackEdit(h) ==
  /\ In(h, "readback")
  /\ call' = [call EXCEPT ![h].pc = "finish", ![h].saw = thread.text[0],
                          ![h].end = IF Visible(0) THEN "succeeded" ELSE "uncertain"]
  /\ UNCHANGED <<row, op, listing, thread, events, clock, loss, times>>

Unsettled(k) == op[k].state \in {"sending", "uncertain"}
FinishMAXCommentOperation(h) ==
  /\ In(h, "finish")
  /\ LET k == call[h].k  m == Target(k)  end == call[h].end IN
     IF ~Unsettled(k) THEN UNCHANGED <<row, op>>
     ELSE /\ op' = [op EXCEPT ![k].state = end]
          /\ row' = IF end # "succeeded" THEN row
                    ELSE IF CommentKind[k] = "delete"
                    THEN [row EXCEPT ![m].observed = IF @ > clock THEN @ ELSE clock, ![m].deleted = TRUE,
                                     ![m].version = @ + (IF row[m].deleted THEN 0 ELSE 1)]
                    ELSE [row EXCEPT ![m] = Upserted(@, IF k \in Sends THEN k ELSE call[h].saw, FALSE, clock)]
  /\ Done(h)
  /\ UNCHANGED <<listing, thread, events, clock, loss, times>>
----------------------------------------------------------------------------
(* The snapshot, the synchronisation and the reconciliation. *)

\* GetMAXCommentsSnapshot
GetMAXCommentsSnapshot ==
  /\ Expired # op /\ op' = Expired
  /\ UNCHANGED <<row, listing, call, thread, events, clock, loss, times>>

\* SyncMAXComments; a claim older than a minute may be taken over.
ClaimMAXCommentSync(h) ==
  /\ In(h, "idle") /\ listing.generation < MaxPages
  /\ listing' = [generation |-> listing.generation + 1, claimed |-> TRUE]
  /\ call' = [call EXCEPT ![h] = [NoCall EXCEPT !.pc = "list", !.fence = listing.generation + 1, !.stamp = clock]]
  /\ UNCHANGED <<row, op, thread, events, clock, loss, times>>
\* The page holds what MAX shows at one moment; its messages are stamped with
\* the time of the claim.
ListComments(h) ==
  /\ In(h, "list")
  /\ \/ /\ call' = [call EXCEPT ![h].pc = "apply", ![h].saw = thread.text]
        /\ UNCHANGED <<listing, loss>>
     \/ /\ Loses /\ Done(h)       \* ReleaseMAXCommentSync
        /\ listing' = IF listing.generation = call[h].fence THEN [listing EXCEPT !.claimed = FALSE] ELSE listing
  /\ UNCHANGED <<row, op, thread, events, clock, times>>
ApplyMAXCommentSync(h) ==
  /\ In(h, "apply")
  /\ IF listing.claimed /\ listing.generation = call[h].fence
     THEN /\ row' = [m \in Messages |-> IF call[h].saw[m] < 0 THEN row[m]
                                        ELSE Upserted(row[m], call[h].saw[m], FALSE, call[h].stamp)]
          /\ listing' = [listing EXCEPT !.claimed = FALSE]
          /\ To(h, "settle")
     ELSE Done(h) /\ UNCHANGED <<row, listing>>
  /\ UNCHANGED <<op, thread, events, clock, loss, times>>

\* An uncertain edit is settled by the text it asked for; it is read, and then
\* the operation is finished.
EditShown(k) == Visible(0) /\ thread.text[0] = k
ReconcileMAXCommentEdits(h) ==
  /\ In(h, "settle")
  /\ op' = Expired
  /\ LET shown == {k \in Keys : CommentKind[k] = "edit" /\ Expired[k].state = "uncertain" /\ EditShown(k)} IN
     IF shown = {} THEN Done(h)
     ELSE \E k \in shown : call' = [call EXCEPT ![h] = [NoCall EXCEPT !.pc = "finish", !.k = k,
                                                        !.saw = thread.text[0], !.end = "succeeded"]]
  /\ UNCHANGED <<row, listing, thread, events, clock, loss, times>>

\* A person shows which comment an uncertain reply became.
ReconcileMAXCommentSend(k) ==
  /\ k \in Sends /\ op[k].state = "uncertain" /\ Visible(k)
  /\ Upsert(k, k, FALSE, clock)
  /\ op' = [op EXCEPT ![k].state = "succeeded"]
  /\ UNCHANGED <<listing, call, thread, events, clock, loss, times>>
----------------------------------------------------------------------------
(* MAX. *)

RemovedByModerator(m) ==
  /\ Visible(m) /\ clock < MaxClock
  /\ thread' = [thread EXCEPT !.text[m] = Gone]
  /\ events' = events \cup {<<m, clock>>}
  /\ UNCHANGED <<row, op, listing, call, clock, loss, times>>
\* Events come late and in any order, perhaps twice.
ObserveMAXCommentRemoval(m, at) ==
  /\ <<m, at>> \in events
  /\ Upsert(m, row[m].text, TRUE, at)
  /\ op' = [k \in Keys |-> IF CommentKind[k] = "delete" /\ m = 0 /\ op[k].state = "uncertain"
                           THEN [op[k] EXCEPT !.state = "succeeded"] ELSE op[k]]
  /\ events' \in {events, events \ {<<m, at>>}}
  /\ UNCHANGED <<listing, call, thread, clock, loss, times>>
CarriedOutLate(k) ==
  /\ k \in thread.late
  /\ thread' = Effect(k)
  /\ UNCHANGED <<row, op, listing, call, events, clock, loss, times>>
HandlerDies(h) ==
  /\ ~In(h, "idle") /\ Loses /\ Done(h)
  /\ LET k == call[h].k IN
     /\ times' = IF In(h, "write") THEN [times EXCEPT ![k] = @ + 1] ELSE times
     /\ thread' \in IF In(h, "write") THEN {thread, Effect(k), [thread EXCEPT !.late = @ \cup {k}]} ELSE {thread}
  /\ UNCHANGED <<row, op, listing, events, clock>>
TimePasses ==
  /\ clock < MaxClock /\ clock' = clock + 1
  /\ UNCHANGED <<row, op, listing, call, thread, events, loss, times>>
LeaseRuns(k) ==
  /\ op[k].state = "sending" /\ op[k].lease > 0
  /\ op' = [op EXCEPT ![k].lease = @ - 1]
  /\ UNCHANGED <<row, listing, call, thread, events, clock, loss, times>>
----------------------------------------------------------------------------
HandlerStep(h) ==
  \/ \E k \in Keys : BeginMutation(h, k)
  \/ GetComment(h) \/ ObserveMAXComment(h) \/ ClaimMAXCommentOperation(h) \/ BeginMAXCommentWrite(h)
  \/ WriteComment(h) \/ ReadBackEdit(h) \/ FinishMAXCommentOperation(h)
  \/ ClaimMAXCommentSync(h) \/ ListComments(h) \/ ApplyMAXCommentSync(h) \/ ReconcileMAXCommentEdits(h)
  \/ HandlerDies(h)
Next ==
  \/ \E h \in Handlers : HandlerStep(h)
  \/ GetMAXCommentsSnapshot \/ TimePasses
  \/ \E k \in Keys : ReconcileMAXCommentSend(k) \/ CarriedOutLate(k) \/ LeaseRuns(k)
  \/ \E m \in Messages : RemovedByModerator(m)
  \/ \E e \in events : ObserveMAXCommentRemoval(e[1], e[2])
Spec == Init /\ [][Next]_comments
----------------------------------------------------------------------------
(* What WriteOnce knows of this: see MCWorkspace. *)
Flying ==
  {k \in {call[h].k : h \in {g \in Handlers : In(g, "write")}} \cup thread.late : k \in Sends \/ Visible(0)}
Attempted == [k \in Keys |-> times[k] + Cardinality({h \in Handlers : In(h, "write") /\ call[h].k = k})]
Moot == IF thread.text[0] = Gone THEN {k \in Keys : CommentKind[k] = "delete"} ELSE {}
Told == [k \in Keys |-> IF op[k].state \in {"succeeded", "rejected"} THEN op[k].state ELSE "open"]
================================================================================
