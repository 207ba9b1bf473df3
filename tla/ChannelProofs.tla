------------------------------ MODULE ChannelProofs ------------------------------
(***************************************************************************)
(* Proofs about the parts of a connected channel that are checked alone,   *)
(* for any value of their constants: Comments first, and then, each on its *)
(* own, Channels, PublishedIndex, Statistics and History.  The parts only  *)
(* share the names of some constants.                                      *)
(***************************************************************************)
EXTENDS Comments, Sequences, FiniteSetTheorems, WellFoundedInduction, TLAPS

CONSTANTS
  Users, Teams, Accounts, Callers, MaxChanges, Nobody, Claims, LinkOf(_),
  Readers, Posts, Imported, MaxEdits, MaxDeliveries,
  Tasks, MaxMessages, Cooldown, Interval, Day, MaxTime,
  Importers, Stamp, Videos, PageSize, VideoBudget, Present, MaxClaims, MaxFaults
VARIABLES
  chat, hour, hooks, heard, seen, channel, right, told, staff, claim, pressed, errand,
  article, revisions, index, ready, reader, delivered, unproven, edits, deliveries,
  minute, stat, origin, live, top, topped, counter, daily, runner,
  import, mapped, posts, held, own, worker, faults, reach, stalled

----------------------------------------------------------------------------
(* Comments implements WriteOnce, for any number of requests and handlers: *)
(* whatever is lost, late or removed by others, a reply, an edit or a      *)
(* deletion is written once, never while a rival may be on its way, and    *)
(* what its author is told is true for ever.                               *)

Deletions == {k \in Keys : CommentKind[k] = "delete"}
RivalPairs == {p \in Keys \X Keys : Rival(p[1], p[2])}
Promise == INSTANCE WriteOnceProofs WITH
  Keys <- Keys, Rivals <- RivalPairs, Idempotent <- Deletions,
  sends <- Attempted, flying <- Flying, carried <- thread.carried, moot <- Moot, verdict <- Told

\* Types.
States == {"none", "sending", "uncertain", "succeeded", "rejected"}
Pcs == {"idle", "fetch", "observe", "claim", "begin", "write", "readback", "finish", "list", "apply", "settle"}
Comment == [known : BOOLEAN, text : Int, deleted : BOOLEAN, observed : Int, version : Int]
Operation == [state : States, started : BOOLEAN, lease : Int, fence : Int]
Call == [pc : Pcs, k : Keys \cup {0}, saw : Int \cup [Messages -> Int], fence : Int, stamp : Int,
         end : {"", "succeeded", "rejected", "uncertain"}]
Thread == [text : [Messages -> Int], late : SUBSET Keys, carried : SUBSET Keys]
TypeOK ==
  /\ row \in [Messages -> Comment] /\ op \in [Keys -> Operation] /\ call \in [Handlers -> Call]
  /\ listing \in [generation : Int, claimed : BOOLEAN]
  /\ thread \in Thread /\ events \subseteq Messages \X Int
  /\ clock \in Int /\ loss \in Int /\ times \in [Keys -> Nat]
\* What a goroutine has in hand at each point.
HandOK(h) ==
  /\ call[h].pc \in {"fetch", "observe", "claim", "begin", "write", "readback", "finish"} => call[h].k \in Keys
  /\ call[h].pc \notin {"apply", "settle"} => call[h].saw \in Int
  /\ call[h].pc = "apply" => call[h].saw \in [Messages -> Int]
  /\ call[h].pc = "finish" => call[h].end # ""
Hands == \A h \in Handlers : HandOK(h)

Writers(k) == {h \in Handlers : In(h, "write") /\ call[h].k = k}
\* A goroutine that claimed a request and has neither written it nor lost its outcome.
Holding(h) == In(h, "begin") \/ In(h, "write") \/ (In(h, "finish") /\ call[h].end = "rejected")

CallSound(h) ==
  LET k == call[h].k IN
  /\ Holding(h) => op[k].state # "none" /\ k \notin thread.carried \cup thread.late
  /\ In(h, "begin") => ~op[k].started
  /\ In(h, "write") => op[k].started
  /\ In(h, "readback") \/ (In(h, "finish") /\ call[h].end = "succeeded") => k \in thread.carried
KeySound(k) ==
  /\ times[k] + Cardinality(Writers(k)) = IF op[k].started THEN 1 ELSE 0
  /\ op[k].state = "none" => ~op[k].started
  /\ k \in thread.late \cup thread.carried => op[k].started
  /\ k \in thread.late => k \notin thread.carried
  /\ k \in Flying => Unsettled(k)
ThreadSound ==
  /\ \A e \in events : e[1] = 0 => thread.text[0] = Gone
  /\ \A k \in Keys : CommentKind[k] = "edit" /\ thread.text[0] = k => k \in thread.carried
  /\ \A k \in Sends : Visible(k) => k \in thread.carried
OneHolds == \A g, h \in Handlers : g # h /\ Holding(g) /\ Holding(h) => call[g].k # call[h].k
OneUnsettled == \A j, k \in Keys : j # k /\ Rival(j, k) => ~(Unsettled(j) /\ Unsettled(k))
CommentsInv ==
  /\ TypeOK /\ ThreadSound /\ OneHolds /\ OneUnsettled
  /\ Hands /\ \A h \in Handlers : CallSound(h)
  /\ \A k \in Keys : KeySound(k)

Moves(h) == call' \in [Handlers -> Call] /\ \A g \in Handlers \ {h} : call'[g] = call[g]
----------------------------------------------------------------------------
(* Types. *)

\* An observation stored is a comment again.
LEMMA UpsertedType ==
  ASSUME NEW r \in Comment, NEW text \in Int, NEW gone \in BOOLEAN, NEW stamp \in Int
  PROVE  Upserted(r, text, gone, stamp) \in Comment
<1> DEFINE add == IF (~r.deleted /\ r.text # text) \/ (gone /\ ~r.deleted) THEN 1 ELSE 0
           kept == IF r.deleted THEN r.text ELSE text
<1>1. r.version + add \in Int /\ kept \in Int /\ (r.deleted \/ gone) \in BOOLEAN
  BY DEF Comment
<1>2. Upserted(r, text, gone, stamp) =
        IF r.known /\ r.observed > stamp THEN r
        ELSE IF ~r.known THEN [r EXCEPT !.known = TRUE, !.text = text, !.deleted = gone, !.observed = stamp]
        ELSE [r EXCEPT !.text = kept, !.observed = stamp, !.deleted = r.deleted \/ gone, !.version = r.version + add]
  BY DEF Upserted, Comment
<1> HIDE DEF add, kept
<1> QED
  BY <1>1, <1>2 DEF Comment

\* The end of a lease leaves an operation.
LEMMA ExpiredType ==
  ASSUME TypeOK PROVE Expired \in [Keys -> Operation]
BY DEF TypeOK, Expired, ExpiredOperation, Operation, States

\* What a write does leaves a thread, for which:
LEMMA EffectIs ==
  ASSUME KindsOK, TypeOK, NEW k \in Keys
  PROVE  /\ Effect(k) \in Thread
         /\ Effect(k).late = thread.late \ {k}
         /\ k \in Sends \/ Visible(0) => Effect(k).carried = thread.carried \cup {k}
         /\ ~(k \in Sends \/ Visible(0)) => Effect(k).carried = thread.carried
         /\ \A m \in Messages : m # Target(k) => Effect(k).text[m] = thread.text[m]
         /\ k \in Sends => Effect(k).text[k] = k
         /\ CommentKind[k] = "edit" /\ Visible(0) => Effect(k).text[0] = k
         /\ CommentKind[k] = "delete" /\ Visible(0) => Effect(k).text[0] = Gone
         /\ k \notin Sends /\ ~Visible(0) => Effect(k).text[0] = thread.text[0]
<1>1. /\ thread \in Thread /\ k \in Int /\ CommentKind[k] \in {"send", "edit", "delete"} /\ 0 \in Messages
      /\ k \in Sends <=> CommentKind[k] = "send"
      /\ k # 0
  BY DEF KindsOK, TypeOK, Messages, Sends
<1>2. CASE CommentKind[k] = "send"
  BY <1>1, <1>2 DEF Effect, Thread, Messages, Target
<1>3. CASE CommentKind[k] = "edit"
  BY <1>1, <1>3 DEF Effect, Thread, Messages, Target
<1>4. CASE CommentKind[k] = "delete"
  <2>1. Gone \in Int
    BY DEF Gone
  <2>2. CASE Visible(0)
    BY <1>1, <1>4, <2>1, <2>2 DEF Effect, Thread, Messages, Target
  <2>3. CASE ~Visible(0)
    BY <1>1, <1>4, <2>3 DEF Effect, Thread, Messages, Target
  <2> QED
    BY <2>2, <2>3
<1> QED
  BY <1>1, <1>2, <1>3, <1>4

\* One goroutine takes a step of its own.
LEMMA MoveType ==
  ASSUME TypeOK, NEW h \in Handlers, NEW c \in Call, call' = [call EXCEPT ![h] = c]
  PROVE  Moves(h) /\ call'[h] = c
BY DEF TypeOK, Moves
----------------------------------------------------------------------------
(* What WriteOnce sees. *)

\* A write may still be carried out while a goroutine is at it or MAX is late,
\* unless the comment it is about is gone.
LEMMA FlyingIs ==
  ASSUME TypeOK, Hands
  PROVE  Flying = {k \in Keys : (Writers(k) # {} \/ k \in thread.late) /\ (k \in Sends \/ Visible(0))}
<1>1. thread.late \subseteq Keys
  BY DEF TypeOK, Thread
<1>2. \A h \in Handlers : In(h, "write") => call[h].k \in Keys
  BY DEF Hands, HandOK, In
<1> QED
  BY <1>1, <1>2 DEF Flying, Writers
LEMMA FlyingNext ==
  ASSUME TypeOK', Hands'
  PROVE  Flying' = {k \in Keys : (Writers(k)' # {} \/ k \in thread'.late) /\ (k \in Sends \/ Visible(0)')}
<1>1. thread'.late \subseteq Keys
  BY DEF TypeOK, Thread
<1>2. \A h \in Handlers : In(h, "write")' => call'[h].k \in Keys
  BY DEF Hands, HandOK, In
<1> QED
  BY <1>1, <1>2 DEF Flying, Writers

\* Goroutines are finitely many.
LEMMA WritersFinite ==
  ASSUME KindsOK, NEW k PROVE IsFiniteSet(Writers(k)) /\ Cardinality(Writers(k)) \in Nat
<1>1. IsFiniteSet(Handlers) /\ Writers(k) \subseteq Handlers
  BY DEF KindsOK, Writers
<1> QED
  BY <1>1, FS_Subset, FS_CardinalityType

\* A request was attempted when its write began.
LEMMA AttemptedIs ==
  ASSUME CommentsInv PROVE Attempted = [k \in Keys |-> IF op[k].started THEN 1 ELSE 0]
BY DEF CommentsInv, KeySound, Writers, Attempted
LEMMA AttemptedNext ==
  ASSUME CommentsInv' PROVE Attempted' = [k \in Keys |-> IF op'[k].started THEN 1 ELSE 0]
BY DEF CommentsInv, KeySound, Writers, Attempted

\* What may become of an operation while nothing is written: it is claimed, its
\* outcome becomes unknown, or a true verdict is found.
Settles(k) ==
  /\ op'[k].started = op[k].started
  /\ \/ op'[k].state = op[k].state
     \/ op[k].state = "none" /\ op'[k].state = "sending"
     \/ Unsettled(k) /\ op'[k].state = "uncertain"
     \/ Unsettled(k) /\ op'[k].state = "rejected" /\ k \notin thread.carried \cup Flying
     \/ Unsettled(k) /\ op'[k].state = "succeeded" /\ k \in thread.carried \cup Moot /\ k \notin Flying
Succeeds(h) == In(h, "readback") \/ (In(h, "finish") /\ call[h].end = "succeeded")
\* A goroutine that neither writes nor comes to; it may have claimed a request.
Quiet(h) ==
  \/ call'[h] = call[h]
  \/ /\ ~In(h, "write") /\ ~In(h, "write")'
     /\ Holding(h)' => \/ Holding(h) /\ call'[h].k = call[h].k
                       \/ /\ In(h, "claim") /\ call'[h].k = call[h].k
                          /\ op[call[h].k].state = "none" /\ op'[call[h].k].state = "sending"
     /\ In(h, "begin")' => In(h, "claim")
     /\ Succeeds(h)' => call'[h].k \in thread.carried

\* Such a step keeps the invariant, and is one of WriteOnce.
LEMMA TellingKept ==
  ASSUME KindsOK, CommentsInv, TypeOK', Hands', OneHolds', OneUnsettled',
         thread' = thread, times' = times, events' \subseteq events,
         \A k \in Keys : Settles(k),
         \A h \in Handlers : Quiet(h)
  PROVE  CommentsInv' /\ Promise!Tell
<1>1. \A k : Writers(k)' = Writers(k)
  BY DEF Quiet, Writers, In
<1>2. Flying' = Flying
  BY DEF Quiet, Flying, In, Visible
<1>3. Attempted' = Attempted
  BY <1>1 DEF Attempted, Writers
<1>4. ThreadSound'
  BY DEF CommentsInv, ThreadSound, Visible
<1>5. ASSUME NEW h \in Handlers PROVE CallSound(h)'
  <2>1. CallSound(h) /\ (call[h].pc \in {"claim", "begin", "write", "readback", "finish"} => call[h].k \in Keys)
    BY DEF CommentsInv, Hands, HandOK
  <2>2. call'[h].pc \in {"begin", "write", "readback", "finish"} => call'[h].k \in Keys
    BY DEF Hands, HandOK
  <2>3. CASE call'[h] = call[h]
    BY <2>1, <2>3 DEF CallSound, Holding, In, Settles, Unsettled
  <2>4. CASE call'[h] # call[h]
    <3>1. /\ ~In(h, "write")'
          /\ Holding(h)' => \/ Holding(h) /\ call'[h].k = call[h].k
                            \/ /\ In(h, "claim") /\ call'[h].k = call[h].k
                               /\ op[call[h].k].state = "none" /\ op'[call[h].k].state = "sending"
          /\ In(h, "begin")' => In(h, "claim")
          /\ Succeeds(h)' => call'[h].k \in thread.carried
      BY <2>4 DEF Quiet
    <3>2. ASSUME Holding(h)' PROVE op'[call'[h].k].state # "none" /\ call'[h].k \notin thread.carried \cup thread.late
      <4>1. CASE Holding(h) /\ call'[h].k = call[h].k
        BY <4>1, <2>1, <2>2 DEF CallSound, Holding, In, Settles, Unsettled
      <4>2. CASE In(h, "claim") /\ call'[h].k = call[h].k /\ op[call[h].k].state = "none" /\ op'[call[h].k].state = "sending"
        BY <4>2, <2>1 DEF CommentsInv, KeySound, In
      <4> QED
        BY <3>1, <3>2, <4>1, <4>2
    <3> QED
      BY <3>1, <3>2, <2>1, <2>2 DEF CallSound, Holding, Succeeds, In, Settles, CommentsInv, KeySound
  <2> QED
    BY <2>3, <2>4
<1>6. ASSUME NEW k \in Keys PROVE KeySound(k)'
  <2>1. KeySound(k) /\ Settles(k) /\ Writers(k)' = Writers(k)
    BY <1>1 DEF CommentsInv
  <2> QED
    BY <2>1, <1>2 DEF KeySound, Settles, Unsettled
<1>7. Promise!Tell
  <2>1. Told' \in [Keys -> {"open", "succeeded", "rejected"}] /\ Moot' = Moot
    BY DEF Told, Moot
  <2>2. ASSUME NEW k \in Keys, Told'[k] # Told[k]
        PROVE  /\ Told[k] = "open"
               /\ \/ Told'[k] = "succeeded" /\ k \in thread.carried \cup Moot
                  \/ Told'[k] = "rejected" /\ k \notin thread.carried \cup Flying
    BY <2>2 DEF Settles, Told, Unsettled
  <2> QED
    BY <2>1, <2>2, <1>2, <1>3 DEF Promise!Tell, Promise!Verdicts, Promise!True
<1> QED
  BY <1>4, <1>5, <1>6, <1>7 DEF CommentsInv, Hands

\* A verdict never lets a rival in.
LEMMA StillOneUnsettled ==
  ASSUME CommentsInv, \A k \in Keys : Unsettled(k)' => Unsettled(k) PROVE OneUnsettled'
BY DEF CommentsInv, OneUnsettled, Rival

\* A goroutine that claims nothing does not come to hold what another holds.
LEMMA StillOneHolds ==
  ASSUME CommentsInv, NEW h \in Handlers, Moves(h), Holding(h)' => Holding(h) /\ call'[h].k = call[h].k
  PROVE  OneHolds'
<1>1. \A g \in Handlers : Holding(g)' => Holding(g) /\ call'[g].k = call[g].k
  BY DEF Moves, Holding, In
<1> QED
  BY <1>1 DEF CommentsInv, OneHolds

NothingClaimed == \A k \in Keys : op[k].state = "none" => op'[k].state = "none"
\* A quiet step of one goroutine that claims nothing.
LEMMA LocalKept ==
  ASSUME KindsOK, CommentsInv, TypeOK', NEW h \in Handlers, Moves(h), HandOK(h)', Quiet(h),
         thread' = thread, times' = times, events' \subseteq events,
         \A k \in Keys : Settles(k), NothingClaimed
  PROVE  CommentsInv' /\ Promise!Tell
<1>1. Holding(h)' => Holding(h) /\ call'[h].k = call[h].k
  <2>1. call[h].pc = "claim" => call[h].k \in Keys
    BY DEF CommentsInv, Hands, HandOK
  <2> QED
    BY <2>1 DEF Quiet, NothingClaimed, In, Holding
<1>2. \A g \in Handlers : Quiet(g)
  BY DEF Moves, Quiet
<1>3. Hands'
  BY DEF CommentsInv, Moves, Hands, HandOK
<1>4. \A k \in Keys : Unsettled(k)' => Unsettled(k)
  BY DEF Settles, NothingClaimed, Unsettled
<1> QED
  BY <1>1, <1>2, <1>3, <1>4, StillOneHolds, StillOneUnsettled, TellingKept

\* A lease that ended rejects what was not begun, and nothing of that is on its way.
LEMMA ExpirySettles ==
  ASSUME CommentsInv, NEW k \in Keys, op'[k] = op[k] \/ op'[k] = Expired[k]
  PROVE  Settles(k) /\ (op[k].state = "none" => op'[k].state = "none")
<1>1. ~op[k].started => k \notin thread.carried \cup Flying
  BY FlyingIs DEF CommentsInv, KeySound, CallSound, Writers
<1>2. op \in [Keys -> Operation]
  BY DEF CommentsInv, TypeOK
<1> QED
  BY <1>1, <1>2 DEF Settles, Expired, ExpiredOperation, Unsettled, Operation
LEMMA AllExpirySettles ==
  ASSUME CommentsInv, op' = Expired PROVE (\A k \in Keys : Settles(k)) /\ NothingClaimed
BY ExpirySettles DEF NothingClaimed

\* Nothing happens to the operations.
LEMMA SameSettles ==
  ASSUME op' = op PROVE (\A k \in Keys : Settles(k)) /\ NothingClaimed
BY DEF Settles, NothingClaimed
----------------------------------------------------------------------------
(* The steps of a goroutine that write nothing. *)

\* Moving on, with what is in hand.
LEMMA ToMoves ==
  ASSUME TypeOK, NEW h \in Handlers, NEW pc \in Pcs, To(h, pc)
  PROVE  /\ Moves(h) /\ call'[h].pc = pc /\ call'[h].k = call[h].k /\ call'[h].saw = call[h].saw
         /\ call'[h].end = call[h].end
<1> DEFINE c == [call[h] EXCEPT !.pc = pc]
<1>1. c \in Call /\ call' = [call EXCEPT ![h] = c]
  BY DEF TypeOK, To, Call
<1>2. c.pc = pc /\ c.k = call[h].k /\ c.saw = call[h].saw /\ c.end = call[h].end
  BY DEF TypeOK, Call
<1> HIDE DEF c
<1> QED
  BY <1>1, <1>2, MoveType

\* An idle goroutine.
LEMMA NoCallIs == NoCall \in Call /\ NoCall.pc = "idle" /\ NoCall.saw \in Int
<1>1. NoCall \in Call
  BY DEF NoCall, Call, Pcs, None
<1>2. NoCall.pc = "idle"
  BY DEF NoCall
<1>3. NoCall.saw \in Int
  BY DEF NoCall, None
<1> QED
  BY <1>1, <1>2, <1>3

\* An answer to the caller, or the goroutine's death.
LEMMA DoneMoves ==
  ASSUME TypeOK, NEW h \in Handlers, Done(h)
  PROVE  Moves(h) /\ call'[h] = NoCall /\ HandOK(h)' /\ ~Holding(h)' /\ ~Succeeds(h)' /\ ~In(h, "write")'
<1>2. Moves(h) /\ call'[h] = NoCall
  BY NoCallIs, MoveType DEF Done
<1>3. call'[h].pc = "idle" /\ call'[h].saw \in Int
  BY <1>2, NoCallIs
<1>4. HandOK(h)' /\ ~Holding(h)' /\ ~Succeeds(h)' /\ ~In(h, "write")'
  BY <1>3 DEF HandOK, Holding, Succeeds, In
<1> QED
  BY <1>2, <1>4

\* The write ends one way or another.
LEMMA EndMoves ==
  ASSUME TypeOK, NEW h \in Handlers, NEW end \in {"succeeded", "rejected", "uncertain"}, EndWith(h, end)
  PROVE  /\ Moves(h) /\ call'[h].pc = "finish" /\ call'[h].k = call[h].k /\ call'[h].saw = call[h].saw
         /\ call'[h].end = end
<1> DEFINE c == [call[h] EXCEPT !.pc = "finish", !.end = end]
<1>1. c \in Call /\ call' = [call EXCEPT ![h] = c]
  BY DEF TypeOK, EndWith, Call, Pcs
<1>2. c.pc = "finish" /\ c.k = call[h].k /\ c.saw = call[h].saw /\ c.end = end
  BY DEF TypeOK, Call
<1> HIDE DEF c
<1> QED
  BY <1>1, <1>2, MoveType

\* A request starts.
LEMMA BeginMutationKept ==
  ASSUME KindsOK, CommentsInv, NEW h \in Handlers, NEW k \in Keys, BeginMutation(h, k)
  PROVE  CommentsInv' /\ Promise!Tell
<1> DEFINE pc == IF k \in Sends THEN "claim" ELSE "fetch"
           c == [NoCall EXCEPT !.k = k, !.pc = pc, !.fence = row[0].version]
<1>1. c \in Call /\ c.k = k /\ c.pc \in {"claim", "fetch"} /\ c.saw \in Int
  <2>1. row[0].version \in Int /\ pc \in {"claim", "fetch"}
    BY DEF CommentsInv, TypeOK, Comment, Messages
  <2> HIDE DEF pc
  <2> QED
    BY <2>1, NoCallIs DEF Call, Pcs
<1>2. call' = [call EXCEPT ![h] = c]
  BY DEF BeginMutation
<1> HIDE DEF c
<1>3. TypeOK /\ Moves(h) /\ call'[h] = c
  BY <1>1, <1>2, MoveType DEF CommentsInv
<1>4. TypeOK'
  BY <1>3 DEF TypeOK, Moves, BeginMutation
<1>5. HandOK(h)' /\ Quiet(h)
  BY <1>1, <1>3 DEF HandOK, Quiet, BeginMutation, In, Holding, Succeeds
<1> QED
  BY <1>3, <1>4, <1>5, SameSettles, LocalKept DEF BeginMutation

\* The comment is looked up in MAX.
LEMMA GetCommentKept ==
  ASSUME KindsOK, CommentsInv, NEW h \in Handlers, GetComment(h)
  PROVE  CommentsInv' /\ Promise!Tell
<1> DEFINE c == [call[h] EXCEPT !.pc = "observe", !.saw = thread.text[0]]
<1>1. TypeOK /\ call[h].k \in Keys
  BY DEF CommentsInv, Hands, HandOK, GetComment, In
<1>2. c \in Call /\ c.k = call[h].k /\ c.pc = "observe" /\ c.saw \in Int
  BY <1>1 DEF TypeOK, Call, Pcs, Thread, Messages
<1>3. CASE Visible(0)
  <2>1. call' = [call EXCEPT ![h] = c]
    BY <1>1, <1>3 DEF GetComment, TypeOK, Call
  <2> HIDE DEF c
  <2>2. Moves(h) /\ call'[h] = c
    BY <1>1, <1>2, <2>1, MoveType
  <2>3. HandOK(h)' /\ Quiet(h) /\ TypeOK'
    BY <1>1, <1>2, <2>2 DEF HandOK, Quiet, GetComment, In, Holding, Succeeds, TypeOK, Moves
  <2> QED
    BY <2>2, <2>3, SameSettles, LocalKept DEF GetComment
<1>4. CASE ~Visible(0)
  <2>1. Moves(h) /\ call'[h] = NoCall /\ HandOK(h)' /\ ~Holding(h)' /\ ~Succeeds(h)' /\ ~In(h, "write")'
    BY <1>1, <1>4, DoneMoves DEF GetComment
  <2>2. Quiet(h) /\ TypeOK'
    BY <1>1, <2>1 DEF Quiet, GetComment, In, Holding, Succeeds, TypeOK, Moves
  <2> QED
    BY <2>1, <2>2, SameSettles, LocalKept DEF GetComment
<1> QED
  BY <1>3, <1>4

\* What MAX shows is stored.
LEMMA ObserveMAXCommentKept ==
  ASSUME KindsOK, CommentsInv, NEW h \in Handlers, ObserveMAXComment(h)
  PROVE  CommentsInv' /\ Promise!Tell
<1>1. TypeOK /\ call[h].k \in Keys /\ call[h].saw \in Int /\ In(h, "observe")
  BY DEF CommentsInv, Hands, HandOK, ObserveMAXComment, In
<1>2. Moves(h) /\ call'[h].pc = "claim" /\ call'[h].k = call[h].k /\ call'[h].saw = call[h].saw
  BY <1>1, ToMoves DEF ObserveMAXComment, Pcs
<1>3. Upserted(row[0], call[h].saw, FALSE, clock) \in Comment /\ 0 \in Messages
  BY <1>1, UpsertedType DEF TypeOK, Messages
<1>4. TypeOK'
  BY <1>1, <1>2, <1>3 DEF TypeOK, Moves, ObserveMAXComment, Upsert
<1>5. HandOK(h)' /\ Quiet(h)
  BY <1>1, <1>2 DEF HandOK, Quiet, In, Holding, Succeeds
<1> QED
  BY <1>2, <1>4, <1>5, SameSettles, LocalKept DEF ObserveMAXComment

\* An edit is read back; the write it reads was carried out.
LEMMA ReadBackEditKept ==
  ASSUME KindsOK, CommentsInv, NEW h \in Handlers, ReadBackEdit(h)
  PROVE  CommentsInv' /\ Promise!Tell
<1> DEFINE end == IF Visible(0) THEN "succeeded" ELSE "uncertain"
           c == [call[h] EXCEPT !.pc = "finish", !.saw = thread.text[0], !.end = end]
<1>1. TypeOK /\ call[h].k \in Keys /\ In(h, "readback") /\ call[h].k \in thread.carried
  BY DEF CommentsInv, Hands, HandOK, CallSound, ReadBackEdit, In
<1>2. call' = [call EXCEPT ![h] = c] /\ end \in {"succeeded", "uncertain"}
  BY <1>1 DEF ReadBackEdit, TypeOK, Call
<1> HIDE DEF end
<1>3. c \in Call /\ c.k = call[h].k /\ c.pc = "finish" /\ c.saw \in Int /\ c.end = end
  BY <1>1, <1>2 DEF TypeOK, Call, Pcs, Thread, Messages
<1> HIDE DEF c
<1>4. Moves(h) /\ call'[h] = c
  BY <1>1, <1>2, <1>3, MoveType
<1>5. TypeOK'
  BY <1>1, <1>4 DEF TypeOK, Moves, ReadBackEdit
<1>6. HandOK(h)' /\ Quiet(h)
  BY <1>1, <1>2, <1>3, <1>4 DEF HandOK, Quiet, In, Holding, Succeeds
<1> QED
  BY <1>4, <1>5, <1>6, SameSettles, LocalKept DEF ReadBackEdit

\* The outcome is recorded, unless the operation was settled meanwhile.
LEMMA FinishKept ==
  ASSUME KindsOK, CommentsInv, NEW h \in Handlers, FinishMAXCommentOperation(h)
  PROVE  CommentsInv' /\ Promise!Tell
<1> DEFINE k == call[h].k
           end == call[h].end
           m == Target(k)
<1>1. TypeOK /\ k \in Keys /\ call[h].saw \in Int /\ In(h, "finish") /\ m \in Messages /\ row[m] \in Comment
  BY DEF CommentsInv, Hands, HandOK, FinishMAXCommentOperation, In, TypeOK, Target, Messages
<1>2. Moves(h) /\ call'[h] = NoCall /\ HandOK(h)' /\ ~Holding(h)' /\ ~Succeeds(h)' /\ ~In(h, "write")'
  BY <1>1, DoneMoves DEF FinishMAXCommentOperation
<1>3. Quiet(h)
  BY <1>1, <1>2, NoCallIs DEF Quiet, In
<1>4. CASE ~Unsettled(k)
  <2>1. op' = op /\ TypeOK'
    BY <1>1, <1>2, <1>4 DEF TypeOK, Moves, FinishMAXCommentOperation
  <2> QED
    BY <1>2, <1>3, <2>1, SameSettles, LocalKept DEF FinishMAXCommentOperation
<1>5. CASE Unsettled(k)
  <2>1. op' = [op EXCEPT ![k].state = end]
    BY <1>5 DEF FinishMAXCommentOperation
  <2>2. end \in {"succeeded", "rejected", "uncertain"}
    BY <1>1 DEF TypeOK, Call, CommentsInv, Hands, HandOK, In
  <2>3. row' \in [Messages -> Comment]
    <3>1. CASE end # "succeeded"
      BY <1>1, <1>5, <3>1 DEF FinishMAXCommentOperation, TypeOK
    <3>2. CASE end = "succeeded" /\ CommentKind[k] = "delete"
      <4> DEFINE latest == IF row[m].observed > clock THEN row[m].observed ELSE clock
                 v == row[m].version + (IF row[m].deleted THEN 0 ELSE 1)
                 c == [row[m] EXCEPT !.observed = latest, !.deleted = TRUE, !.version = v]
      <4>1. latest \in Int /\ v \in Int
        BY <1>1 DEF Comment, TypeOK
      <4>2. row' = [row EXCEPT ![m] = c]
        BY <1>1, <1>5, <3>2 DEF FinishMAXCommentOperation, TypeOK, Comment
      <4> HIDE DEF latest, v
      <4>3. c \in Comment
        BY <1>1, <4>1 DEF Comment
      <4> HIDE DEF c
      <4> QED
        BY <1>1, <4>2, <4>3 DEF TypeOK
    <3>3. CASE end = "succeeded" /\ CommentKind[k] # "delete"
      <4> DEFINE text == IF k \in Sends THEN k ELSE call[h].saw
      <4>1. text \in Int /\ clock \in Int
        BY <1>1 DEF KindsOK, TypeOK
      <4>2. row' = [row EXCEPT ![m] = Upserted(row[m], text, FALSE, clock)]
        BY <1>1, <1>5, <3>3 DEF FinishMAXCommentOperation, TypeOK
      <4> HIDE DEF text
      <4>3. Upserted(row[m], text, FALSE, clock) \in Comment
        BY <1>1, <4>1, UpsertedType
      <4> QED
        BY <1>1, <4>2, <4>3 DEF TypeOK
    <3> QED
      BY <3>1, <3>2, <3>3
  <2>4. op' \in [Keys -> Operation]
    BY <1>1, <2>1, <2>2 DEF TypeOK, Operation, States
  <2>5. TypeOK'
    BY <1>1, <1>2, <2>3, <2>4 DEF TypeOK, Moves, FinishMAXCommentOperation
  <2>6. CallSound(h) /\ KeySound(k) /\ Flying = {j \in Keys : (Writers(j) # {} \/ j \in thread.late) /\ (j \in Sends \/ Visible(0))}
    BY <1>1, FlyingIs DEF CommentsInv
  <2>7. end = "rejected" => k \notin thread.carried \cup Flying
    <3>1. end = "rejected" => Holding(h) /\ Writers(k) = {}
      BY <1>1 DEF Holding, In, Writers, CommentsInv, OneHolds
    <3> QED
      BY <2>6, <3>1 DEF CallSound
  <2>8. end = "succeeded" => k \in thread.carried /\ k \notin Flying
    <3>1. end = "succeeded" => k \in thread.carried
      BY <1>1, <2>6 DEF CallSound
    <3>2. k \in thread.carried => Writers(k) = {}
      BY DEF Writers, Holding, CommentsInv, CallSound
    <3> QED
      BY <2>6, <3>1, <3>2 DEF KeySound
  <2>9. /\ \A j \in Keys : j # k => op'[j] = op[j]
        /\ op'[k].state = end /\ op'[k].started = op[k].started
    BY <1>1, <2>1 DEF TypeOK, Operation
  <2>10. \A j \in Keys : Settles(j)
    BY <1>5, <2>2, <2>7, <2>8, <2>9 DEF Settles
  <2>11. NothingClaimed
    BY <1>5, <2>9 DEF NothingClaimed, Unsettled
  <2> QED
    BY <1>2, <1>3, <2>5, <2>10, <2>11, LocalKept DEF FinishMAXCommentOperation
<1> QED
  BY <1>4, <1>5

\* A synchronisation is claimed.
LEMMA ClaimMAXCommentSyncKept ==
  ASSUME KindsOK, CommentsInv, NEW h \in Handlers, ClaimMAXCommentSync(h)
  PROVE  CommentsInv' /\ Promise!Tell
<1> DEFINE g == listing.generation + 1
           c == [NoCall EXCEPT !.pc = "list", !.fence = g, !.stamp = clock]
<1>1. TypeOK /\ g \in Int /\ clock \in Int /\ call' = [call EXCEPT ![h] = c]
  BY DEF CommentsInv, TypeOK, ClaimMAXCommentSync
<1> HIDE DEF g
<1>2. c \in Call /\ c.pc = "list" /\ c.saw \in Int
  BY <1>1, NoCallIs DEF Call, Pcs
<1> HIDE DEF c
<1>3. Moves(h) /\ call'[h] = c
  BY <1>1, <1>2, MoveType
<1>4. TypeOK'
  BY <1>1, <1>3 DEF TypeOK, Moves, ClaimMAXCommentSync, g
<1>5. HandOK(h)' /\ Quiet(h)
  BY <1>2, <1>3 DEF HandOK, Quiet, In, Holding, Succeeds, ClaimMAXCommentSync
<1> QED
  BY <1>3, <1>4, <1>5, SameSettles, LocalKept DEF ClaimMAXCommentSync

\* The page is fetched, or it is not.
LEMMA ListCommentsKept ==
  ASSUME KindsOK, CommentsInv, NEW h \in Handlers, ListComments(h)
  PROVE  CommentsInv' /\ Promise!Tell
<1> DEFINE c == [call[h] EXCEPT !.pc = "apply", !.saw = thread.text]
<1>1. TypeOK /\ In(h, "list") /\ thread.text \in [Messages -> Int]
  BY DEF CommentsInv, TypeOK, ListComments, Thread
<1>2. c \in Call /\ c.pc = "apply" /\ c.saw = thread.text
  BY <1>1 DEF TypeOK, Call, Pcs
<1>3. CASE UNCHANGED <<listing, loss>> /\ call' = [call EXCEPT ![h].pc = "apply", ![h].saw = thread.text]
  <2>1. call' = [call EXCEPT ![h] = c]
    BY <1>1, <1>3 DEF TypeOK, Call
  <2> HIDE DEF c
  <2>2. Moves(h) /\ call'[h] = c
    BY <1>1, <1>2, <2>1, MoveType
  <2>3. HandOK(h)' /\ Quiet(h) /\ TypeOK'
    BY <1>1, <1>2, <1>3, <2>2 DEF HandOK, Quiet, ListComments, In, Holding, Succeeds, TypeOK, Moves
  <2> QED
    BY <2>2, <2>3, SameSettles, LocalKept DEF ListComments
<1>4. CASE /\ Loses /\ Done(h)
           /\ listing' = IF listing.generation = call[h].fence THEN [listing EXCEPT !.claimed = FALSE] ELSE listing
  <2>1. Moves(h) /\ call'[h] = NoCall /\ HandOK(h)' /\ ~Holding(h)' /\ ~Succeeds(h)' /\ ~In(h, "write")'
    BY <1>1, <1>4, DoneMoves
  <2> DEFINE l == [listing EXCEPT !.claimed = FALSE]
  <2>2. listing' \in [generation : Int, claimed : BOOLEAN] /\ loss' \in Int
    <3>1. listing \in [generation : Int, claimed : BOOLEAN] /\ l \in [generation : Int, claimed : BOOLEAN]
      BY <1>1 DEF TypeOK
    <3>2. listing' = l \/ listing' = listing
      BY <1>4
    <3>3. loss' \in Int
      BY <1>1, <1>4 DEF TypeOK, Loses
    <3> QED
      BY <3>1, <3>2, <3>3
  <2>3. TypeOK'
    BY <1>1, <2>1, <2>2 DEF TypeOK, Moves, ListComments
  <2>4. Quiet(h)
    BY <1>1, <2>1, NoCallIs DEF Quiet, In
  <2> QED
    BY <2>1, <2>3, <2>4, SameSettles, LocalKept DEF ListComments
<1> QED
  BY <1>3, <1>4 DEF ListComments

\* The page is applied, unless another synchronisation took over.
LEMMA ApplyMAXCommentSyncKept ==
  ASSUME KindsOK, CommentsInv, NEW h \in Handlers, ApplyMAXCommentSync(h)
  PROVE  CommentsInv' /\ Promise!Tell
<1>1. TypeOK /\ In(h, "apply") /\ call[h].saw \in [Messages -> Int] /\ call[h].stamp \in Int
  BY DEF CommentsInv, TypeOK, Hands, HandOK, ApplyMAXCommentSync, In, Call
<1>2. CASE listing.claimed /\ listing.generation = call[h].fence
  <2>1. Moves(h) /\ call'[h].pc = "settle"
    BY <1>1, <1>2, ToMoves DEF ApplyMAXCommentSync, Pcs
  <2>2. row' \in [Messages -> Comment]
    <3>1. ASSUME NEW m \in Messages PROVE Upserted(row[m], call[h].saw[m], FALSE, call[h].stamp) \in Comment
      BY <1>1, UpsertedType DEF TypeOK
    <3>2. row' = [m \in Messages |-> IF call[h].saw[m] < 0 THEN row[m]
                                     ELSE Upserted(row[m], call[h].saw[m], FALSE, call[h].stamp)]
      BY <1>2 DEF ApplyMAXCommentSync
    <3> QED
      BY <1>1, <3>1, <3>2 DEF TypeOK
  <2>3. TypeOK'
    BY <1>1, <1>2, <2>1, <2>2 DEF TypeOK, Moves, ApplyMAXCommentSync
  <2>4. HandOK(h)' /\ Quiet(h)
    BY <1>1, <2>1 DEF HandOK, Quiet, In, Holding, Succeeds
  <2> QED
    BY <2>1, <2>3, <2>4, SameSettles, LocalKept DEF ApplyMAXCommentSync
<1>3. CASE ~(listing.claimed /\ listing.generation = call[h].fence)
  <2>1. Moves(h) /\ call'[h] = NoCall /\ HandOK(h)' /\ ~Holding(h)' /\ ~Succeeds(h)' /\ ~In(h, "write")'
    BY <1>1, <1>3, DoneMoves DEF ApplyMAXCommentSync
  <2>2. Quiet(h) /\ TypeOK'
    BY <1>1, <1>3, <2>1, NoCallIs DEF Quiet, ApplyMAXCommentSync, In, Holding, Succeeds, TypeOK, Moves
  <2> QED
    BY <2>1, <2>2, SameSettles, LocalKept DEF ApplyMAXCommentSync
<1> QED
  BY <1>2, <1>3

\* An edit whose text the comment shows was carried out.
LEMMA ReconcileMAXCommentEditsKept ==
  ASSUME KindsOK, CommentsInv, NEW h \in Handlers, ReconcileMAXCommentEdits(h)
  PROVE  CommentsInv' /\ Promise!Tell
<1> DEFINE shown == {k \in Keys : CommentKind[k] = "edit" /\ Expired[k].state = "uncertain" /\ EditShown(k)}
<1>1. TypeOK /\ In(h, "settle") /\ Expired \in [Keys -> Operation] /\ op' = Expired
  BY ExpiredType DEF CommentsInv, ReconcileMAXCommentEdits
<1>2. CASE shown = {}
  <2>1. Moves(h) /\ call'[h] = NoCall /\ HandOK(h)' /\ ~Holding(h)' /\ ~Succeeds(h)' /\ ~In(h, "write")'
    BY <1>1, <1>2, DoneMoves DEF ReconcileMAXCommentEdits
  <2>2. Quiet(h) /\ TypeOK'
    BY <1>1, <2>1, NoCallIs DEF Quiet, ReconcileMAXCommentEdits, In, Holding, Succeeds, TypeOK, Moves
  <2> QED
    BY <1>1, <2>1, <2>2, AllExpirySettles, LocalKept DEF ReconcileMAXCommentEdits
<1>3. CASE shown # {}
  <2>1. PICK k \in shown : call' = [call EXCEPT ![h] = [NoCall EXCEPT !.pc = "finish", !.k = k,
                                                        !.saw = thread.text[0], !.end = "succeeded"]]
    BY <1>3 DEF ReconcileMAXCommentEdits
  <2>2. k \in Keys /\ thread.text[0] \in Int /\ k \in thread.carried
    BY <1>1 DEF EditShown, TypeOK, Thread, Messages, CommentsInv, ThreadSound
  <2> HIDE DEF shown
  <2> DEFINE c == [NoCall EXCEPT !.pc = "finish", !.k = k, !.saw = thread.text[0], !.end = "succeeded"]
  <2>3. c \in Call /\ c.pc = "finish" /\ c.k = k /\ c.saw \in Int /\ c.end = "succeeded"
    BY <2>2, NoCallIs DEF Call, Pcs
  <2>4. call' = [call EXCEPT ![h] = c]
    BY <2>1
  <2> HIDE DEF c
  <2>5. Moves(h) /\ call'[h] = c
    BY <1>1, <2>3, <2>4, MoveType
  <2>6. HandOK(h)' /\ Quiet(h) /\ TypeOK'
    BY <1>1, <2>2, <2>3, <2>5 DEF HandOK, Quiet, ReconcileMAXCommentEdits, In, Holding, Succeeds, TypeOK, Moves
  <2> QED
    BY <1>1, <2>5, <2>6, AllExpirySettles, LocalKept DEF ReconcileMAXCommentEdits
<1> QED
  BY <1>2, <1>3
----------------------------------------------------------------------------
(* Steps of others. *)

\* Goroutines stay where they are.
LEMMA AsideKept ==
  ASSUME KindsOK, CommentsInv, TypeOK', call' = call, thread' = thread, times' = times,
         events' \subseteq events, \A k \in Keys : Settles(k), NothingClaimed
  PROVE  CommentsInv' /\ Promise!Tell
<1>1. Hands' /\ OneHolds' /\ \A h \in Handlers : Quiet(h)
  BY DEF CommentsInv, Hands, HandOK, OneHolds, Holding, In, Quiet
<1>2. \A k \in Keys : Unsettled(k)' => Unsettled(k)
  BY DEF Settles, NothingClaimed, Unsettled
<1> QED
  BY <1>1, <1>2, StillOneUnsettled, TellingKept

\* The snapshot takes note of leases that ended.
LEMMA SnapshotKept ==
  ASSUME KindsOK, CommentsInv, GetMAXCommentsSnapshot PROVE CommentsInv' /\ Promise!Tell
<1>1. TypeOK'
  BY ExpiredType DEF CommentsInv, TypeOK, GetMAXCommentsSnapshot
<1> QED
  BY <1>1, AllExpirySettles, AsideKept DEF GetMAXCommentsSnapshot

\* Time passes.
LEMMA TimePassesKept ==
  ASSUME KindsOK, CommentsInv, TimePasses PROVE CommentsInv' /\ Promise!Tell
<1>1. TypeOK'
  BY DEF CommentsInv, TypeOK, TimePasses
<1> QED
  BY <1>1, SameSettles, AsideKept DEF TimePasses

\* A lease comes nearer to its end.
LEMMA LeaseRunsKept ==
  ASSUME KindsOK, CommentsInv, NEW k \in Keys, LeaseRuns(k) PROVE CommentsInv' /\ Promise!Tell
<1>1. op \in [Keys -> Operation] /\ op' = [op EXCEPT ![k] = [op[k] EXCEPT !.lease = op[k].lease - 1]]
  BY DEF CommentsInv, TypeOK, LeaseRuns, Operation
<1>2. op' \in [Keys -> Operation] /\ \A j \in Keys : op'[j].state = op[j].state /\ op'[j].started = op[j].started
  BY <1>1 DEF Operation
<1>3. TypeOK'
  BY <1>2 DEF CommentsInv, TypeOK, LeaseRuns
<1> QED
  BY <1>2, <1>3, AsideKept DEF LeaseRuns, Settles, NothingClaimed

\* A person shows what became of a reply.
LEMMA ReconcileMAXCommentSendKept ==
  ASSUME KindsOK, CommentsInv, NEW k \in Keys, ReconcileMAXCommentSend(k) PROVE CommentsInv' /\ Promise!Tell
<1>1. TypeOK /\ k \in Messages /\ k \in Int /\ op \in [Keys -> Operation]
  BY DEF CommentsInv, TypeOK, ReconcileMAXCommentSend, KindsOK, Messages
<1>2. /\ \A j \in Keys : j # k => op'[j] = op[j]
      /\ op'[k].state = "succeeded" /\ op'[k].started = op[k].started
      /\ op' \in [Keys -> Operation]
  BY <1>1 DEF ReconcileMAXCommentSend, Operation, States
<1>3. k \in thread.carried /\ k \notin Flying
  <2>1. k \in thread.carried
    BY DEF CommentsInv, ThreadSound, ReconcileMAXCommentSend
  <2>2. Writers(k) = {} /\ k \notin thread.late
    BY <2>1 DEF CommentsInv, CallSound, KeySound, Writers, Holding
  <2> QED
    BY <2>1, <2>2, FlyingIs DEF CommentsInv
<1>4. Upserted(row[k], k, FALSE, clock) \in Comment
  BY <1>1, UpsertedType DEF TypeOK
<1>5. TypeOK'
  BY <1>1, <1>2, <1>4 DEF TypeOK, ReconcileMAXCommentSend, Upsert
<1>6. (\A j \in Keys : Settles(j)) /\ NothingClaimed
  BY <1>2, <1>3 DEF Settles, NothingClaimed, ReconcileMAXCommentSend, Unsettled
<1> QED
  BY <1>5, <1>6, AsideKept DEF ReconcileMAXCommentSend

\* MAX reports a removal: it may be the deletion that was asked for.
LEMMA ObserveMAXCommentRemovalKept ==
  ASSUME KindsOK, CommentsInv, NEW m, NEW at, ObserveMAXCommentRemoval(m, at) PROVE CommentsInv' /\ Promise!Tell
<1>1. TypeOK /\ m \in Messages /\ at \in Int /\ row[m].text \in Int
  BY DEF CommentsInv, TypeOK, ObserveMAXCommentRemoval, Comment
<1>2. Upserted(row[m], row[m].text, TRUE, at) \in Comment
  BY <1>1, UpsertedType DEF TypeOK
<1>3. m = 0 => thread.text[0] = Gone
  BY DEF CommentsInv, ThreadSound, ObserveMAXCommentRemoval
<1> DEFINE done(k) == CommentKind[k] = "delete" /\ m = 0 /\ op[k].state = "uncertain"
<1>4. op' = [k \in Keys |-> IF done(k) THEN [op[k] EXCEPT !.state = "succeeded"] ELSE op[k]]
  BY DEF ObserveMAXCommentRemoval
<1>5. ASSUME NEW k \in Keys, done(k) PROVE k \in Moot /\ k \notin Flying
  <2>1. k \in Moot
    BY <1>3, <1>5 DEF Moot
  <2>2. k \notin Sends /\ ~Visible(0)
    BY <1>3, <1>5 DEF Sends, Visible, Gone
  <2> QED
    BY <1>1, <2>1, <2>2, FlyingIs DEF CommentsInv
<1>6. op' \in [Keys -> Operation]
  BY <1>1, <1>4 DEF TypeOK, Operation, States
<1>7. TypeOK'
  BY <1>1, <1>2, <1>6 DEF TypeOK, ObserveMAXCommentRemoval, Upsert
<1>8. (\A k \in Keys : Settles(k)) /\ NothingClaimed
  <2>1. ASSUME NEW k \in Keys PROVE Settles(k) /\ (op[k].state = "none" => op'[k].state = "none")
    <3>1. CASE done(k)
      <4>1. op'[k].state = "succeeded" /\ op'[k].started = op[k].started
        BY <1>1, <1>4, <3>1 DEF TypeOK, Operation
      <4> QED
        BY <1>5, <3>1, <4>1 DEF Settles, Unsettled
    <3>2. CASE ~done(k)
      BY <1>4, <3>2 DEF Settles
    <3> QED
      BY <3>1, <3>2
  <2> QED
    BY <2>1 DEF NothingClaimed
<1> QED
  BY <1>7, <1>8, AsideKept DEF ObserveMAXCommentRemoval
----------------------------------------------------------------------------
(* Claims and writes. *)

\* A request is claimed while no rival is unsettled.
LEMMA ClaimMAXCommentOperationKept ==
  ASSUME KindsOK, CommentsInv, NEW h \in Handlers, ClaimMAXCommentOperation(h)
  PROVE  CommentsInv' /\ Promise!Tell
<1> DEFINE k == call[h].k
           new == [state |-> "sending", started |-> FALSE, lease |-> CommentLease, fence |-> call[h].fence]
           late == \/ op[k].state # "none"
                   \/ Blocked(k) \/ (k \notin Sends /\ (row[0].deleted \/ row[0].version # call[h].fence))
<1>1. TypeOK /\ k \in Keys /\ In(h, "claim") /\ call[h].fence \in Int /\ call[h].saw \in Int
  BY DEF CommentsInv, Hands, HandOK, ClaimMAXCommentOperation, In, TypeOK, Call
<1>2. CASE late
  <2>1. Done(h) /\ op' = op
    BY <1>2 DEF ClaimMAXCommentOperation
  <2>2. Moves(h) /\ call'[h] = NoCall /\ HandOK(h)' /\ ~Holding(h)' /\ ~Succeeds(h)' /\ ~In(h, "write")'
    BY <1>1, <2>1, DoneMoves
  <2>3. Quiet(h) /\ TypeOK'
    BY <1>1, <2>1, <2>2, NoCallIs DEF Quiet, ClaimMAXCommentOperation, In, Holding, Succeeds, TypeOK, Moves
  <2> QED
    BY <2>1, <2>2, <2>3, SameSettles, LocalKept DEF ClaimMAXCommentOperation
<1>3. CASE ~late
  <2>1. op' = [Expired EXCEPT ![k] = new] /\ To(h, "begin") /\ op[k].state = "none" /\ ~Blocked(k)
    BY <1>3 DEF ClaimMAXCommentOperation
  <2>2. new \in Operation /\ new.state = "sending" /\ new.started = FALSE
    BY <1>1 DEF Operation, States, KindsOK
  <2> HIDE DEF new
  <2>3. /\ op' \in [Keys -> Operation] /\ op'[k] = new
        /\ \A j \in Keys : j # k => op'[j] = Expired[j]
    BY <1>1, <2>1, <2>2, ExpiredType
  <2>4. Moves(h) /\ call'[h].pc = "begin" /\ call'[h].k = k /\ call'[h].saw = call[h].saw
    BY <1>1, <2>1, ToMoves DEF Pcs
  <2>5. TypeOK' /\ Hands'
    BY <1>1, <2>3, <2>4 DEF TypeOK, Moves, ClaimMAXCommentOperation, CommentsInv, Hands, HandOK
  <2>6. \A j \in Keys : Settles(j)
    <3>1. op[k].started = FALSE
      BY <1>1, <2>1 DEF CommentsInv, KeySound, TypeOK, Operation
    <3>2. Settles(k)
      BY <2>1, <2>2, <2>3, <3>1 DEF Settles
    <3>3. \A j \in Keys : j # k => Settles(j)
      BY <2>3, ExpirySettles
    <3> QED
      BY <3>2, <3>3
  <2>7. \A g \in Handlers : Quiet(g)
    <3>1. Quiet(h)
      BY <1>1, <2>1, <2>2, <2>3, <2>4 DEF Quiet, In, Holding, Succeeds
    <3> QED
      BY <2>4, <3>1 DEF Moves, Quiet
  <2>8. OneHolds'
    <3>1. \A g \in Handlers \ {h} : Holding(g)' => Holding(g) /\ call'[g].k = call[g].k /\ call[g].k # k
      BY <2>1, <2>4 DEF Moves, Holding, In, CommentsInv, CallSound
    <3> QED
      BY <2>4, <3>1 DEF CommentsInv, OneHolds
  <2>9. OneUnsettled'
    <3>1. ASSUME NEW j \in Keys, j # k, Unsettled(j)' PROVE Unsettled(j) /\ ~Rival(j, k) /\ ~Rival(k, j)
      <4>1. Expired[j].state \in {"sending", "uncertain"}
        BY <2>3, <3>1 DEF Unsettled
      <4>2. Unsettled(j)
        BY <4>1, <1>1 DEF Unsettled, Expired, ExpiredOperation
      <4>3. ~Rival(k, j)
        BY <2>1, <4>1 DEF Blocked
      <4> QED
        BY <4>2, <4>3 DEF Rival
    <3> QED
      BY <3>1 DEF CommentsInv, OneUnsettled, Rival
  <2> QED
    BY <2>5, <2>6, <2>7, <2>8, <2>9, TellingKept DEF ClaimMAXCommentOperation
<1> QED
  BY <1>2, <1>3

\* A goroutine that holds its request steps, and nobody else's is touched.
LEMMA OthersKept ==
  ASSUME CommentsInv, NEW h \in Handlers, Holding(h), Moves(h), thread.carried \subseteq thread'.carried,
         \A j \in Keys : j # call[h].k => /\ op'[j] = op[j]
                                          /\ j \in thread'.carried <=> j \in thread.carried
                                          /\ j \in thread'.late <=> j \in thread.late
  PROVE  /\ \A g \in Handlers \ {h} : CallSound(g)'
         /\ \A j \in Keys : j # call[h].k => h \notin Writers(j) /\ Writers(j) \ {h} = Writers(j)
         /\ Writers(call[h].k) \subseteq {h}
<1>1. \A g \in Handlers \ {h} : Holding(g) => call[g].k # call[h].k /\ call[g].k \in Keys
  BY DEF CommentsInv, OneHolds, Hands, HandOK, Holding, In
<1>2. \A g \in Handlers \ {h} : CallSound(g)'
  BY <1>1 DEF CommentsInv, CallSound, Moves, Holding, In
<1>3. Writers(call[h].k) \subseteq {h}
  BY <1>1 DEF Writers, Holding
<1> QED
  BY <1>2, <1>3 DEF Writers

\* A write begins while nothing of a rival is on its way.
LEMMA BeginMAXCommentWriteKept ==
  ASSUME KindsOK, CommentsInv, NEW h \in Handlers, BeginMAXCommentWrite(h)
  PROVE  CommentsInv' /\ (Promise!Tell \/ \E k \in Keys : Promise!Write(k))
<1> DEFINE k == call[h].k
           may == MayBegin(k) /\ (k \in Sends \/ (~row[0].deleted /\ row[0].version = op[k].fence))
<1>1. TypeOK /\ k \in Keys /\ In(h, "begin") /\ Holding(h) /\ call[h].saw \in Int
  BY DEF CommentsInv, Hands, HandOK, BeginMAXCommentWrite, In, Holding
<1>2. CASE ~may
  <2>1. EndWith(h, "rejected") /\ op' = op
    BY <1>2 DEF BeginMAXCommentWrite
  <2>2. Moves(h) /\ call'[h].pc = "finish" /\ call'[h].k = k /\ call'[h].saw = call[h].saw /\ call'[h].end = "rejected"
    BY <1>1, <2>1, EndMoves
  <2>3. TypeOK'
    BY <1>1, <2>1, <2>2 DEF BeginMAXCommentWrite, TypeOK, Moves
  <2>4. HandOK(h)' /\ Quiet(h)
    BY <1>1, <2>2 DEF Quiet, HandOK, In, Holding, Succeeds
  <2> QED
    BY <2>1, <2>2, <2>3, <2>4, SameSettles, LocalKept DEF BeginMAXCommentWrite
<1>3. CASE may
  <2>1. op' = [op EXCEPT ![k].started = TRUE] /\ To(h, "write") /\ op[k].state = "sending" /\ ~op[k].started
    BY <1>3 DEF BeginMAXCommentWrite, MayBegin
  <2>2. /\ op' \in [Keys -> Operation] /\ op'[k].started = TRUE /\ op'[k].state = "sending"
        /\ \A j \in Keys : j # k => op'[j] = op[j]
    BY <1>1, <2>1 DEF TypeOK, Operation
  <2>3. Moves(h) /\ call'[h].pc = "write" /\ call'[h].k = k /\ call'[h].saw = call[h].saw
    BY <1>1, <2>1, ToMoves DEF Pcs
  <2>4. TypeOK' /\ Hands'
    BY <1>1, <2>2, <2>3 DEF TypeOK, Moves, BeginMAXCommentWrite, CommentsInv, Hands, HandOK
  <2>5. thread' = thread /\ times' = times /\ events' = events
    BY DEF BeginMAXCommentWrite
  <2>6. /\ \A g \in Handlers \ {h} : CallSound(g)'
        /\ \A j \in Keys : j # k => h \notin Writers(j)
        /\ Writers(k) = {}
    <3>1. h \notin Writers(k)
      BY <1>1 DEF Writers, In
    <3> QED
      BY <1>1, <2>2, <2>3, <2>5, <3>1, OthersKept
  <2>7. \A j \in Keys : Writers(j)' = IF j = k THEN {h} ELSE Writers(j)
    <3>1. \A g \in Handlers \ {h} : In(g, "write")' = In(g, "write") /\ call'[g].k = call[g].k
      BY <2>3 DEF Moves, In
    <3>2. In(h, "write")' /\ call'[h].k = k
      BY <2>3 DEF In
    <3>3. \A j \in Keys : j = k => Writers(j)' = {h}
      BY <2>6, <3>1, <3>2 DEF Writers
    <3>4. \A j \in Keys : j # k => Writers(j)' = Writers(j)
      BY <2>6, <3>1, <3>2 DEF Writers
    <3> QED
      BY <3>3, <3>4
  <2>8. CallSound(h)'
    BY <1>1, <2>2, <2>3, <2>5 DEF CommentsInv, CallSound, Holding, In
  <2>9. Flying = {j \in Keys : (Writers(j) # {} \/ j \in thread.late) /\ (j \in Sends \/ Visible(0))}
    BY <1>1, FlyingIs DEF CommentsInv
  <2>10. Flying' = {j \in Keys : (Writers(j)' # {} \/ j \in thread.late) /\ (j \in Sends \/ Visible(0))}
    BY <2>4, <2>5, FlyingNext DEF Visible
  <2>11. Flying' \in {Flying, Flying \cup {k}} /\ Flying \subseteq Flying'
    BY <2>6, <2>7, <2>9, <2>10
  <2>12. ASSUME NEW j \in Keys, j = k PROVE KeySound(j)'
    <3>1. Writers(j)' = {h} /\ Writers(j) = {}
      BY <2>6, <2>7, <2>12
    <3>2. KeySound(j) /\ times[j] \in Nat /\ ~op[j].started
      BY <1>1, <2>1, <2>12 DEF CommentsInv, TypeOK
    <3>3. times[j] = 0 /\ j \notin thread.late \cup thread.carried
      BY <3>1, <3>2, FS_EmptySet DEF KeySound
    <3>4. times'[j] + Cardinality(Writers(j)') = 1
      <4>1. Cardinality({h}) = 1
        BY FS_Singleton
      <4>2. times'[j] = 0
        BY <2>5, <3>3
      <4> QED
        BY <3>1, <4>1, <4>2
    <3>5. op'[j].started = TRUE /\ op'[j].state = "sending"
      BY <2>2, <2>12
    <3> QED
      BY <2>5, <3>3, <3>4, <3>5 DEF KeySound, Unsettled
  <2>13. ASSUME NEW j \in Keys, j # k PROVE KeySound(j)'
    <3>1. KeySound(j) /\ op'[j] = op[j] /\ Writers(j)' = Writers(j) /\ (j \in Flying' => j \in Flying)
      BY <2>2, <2>7, <2>11, <2>13 DEF CommentsInv
    <3> QED
      BY <2>5, <3>1 DEF KeySound, Unsettled
  <2>14. OneHolds' /\ OneUnsettled' /\ ThreadSound'
    <3>1. \A j \in Keys : Unsettled(j)' => Unsettled(j)
      BY <2>1, <2>2 DEF Unsettled
    <3>2. ThreadSound'
      BY <2>5 DEF CommentsInv, ThreadSound, Visible
    <3> QED
      BY <1>1, <2>3, <3>1, <3>2, StillOneHolds, StillOneUnsettled
  <2>15. CommentsInv'
    BY <2>4, <2>6, <2>8, <2>12, <2>13, <2>14, <1>1 DEF CommentsInv
  <2>16. Promise!Write(k)
    <3>1. Attempted[k] = 0 /\ Attempted' = [Attempted EXCEPT ![k] = 1]
      BY <1>1, <2>1, <2>2, <2>15, AttemptedIs, AttemptedNext
    <3>2. Told[k] = "open" /\ Told' = Told /\ Moot' = Moot
      BY <1>1, <2>1, <2>2, <2>5 DEF Told, Moot
    <3>3. \A j \in Flying : ~Rival(j, k) /\ ~Rival(k, j)
      <4>1. ASSUME NEW j \in Flying PROVE j \in Keys /\ j # k /\ Unsettled(j)
        <5>1. k \notin Flying
          BY <1>1, <2>1, <2>6, <2>9 DEF CommentsInv, KeySound
        <5> QED
          BY <2>9, <5>1 DEF CommentsInv, KeySound
      <4>2. Unsettled(k)
        BY <2>1 DEF Unsettled
      <4> QED
        BY <1>1, <4>1, <4>2 DEF CommentsInv, OneUnsettled
    <3>4. \A j \in Flying : {<<j, k>>, <<k, j>>} \cap RivalPairs = {}
      BY <3>3 DEF RivalPairs
    <3> QED
      BY <2>5, <2>11, <3>1, <3>2, <3>4 DEF Promise!Write
  <2> QED
    BY <1>1, <2>15, <2>16
<1> QED
  BY <1>2, <1>3

\* What MAX may do with a write: nothing, what it asks for, or that later.
Lands(k) == thread' = thread \/ thread' = Effect(k) \/ thread' = [thread EXCEPT !.late = @ \cup {k}]

\* A write that was not carried out lands; a deletion leaves no rival in flight.
LEMMA LandsKept ==
  ASSUME KindsOK, CommentsInv, NEW k \in Keys, k \notin thread.carried, Lands(k), events' = events, op' = op
  PROVE  /\ thread' \in Thread /\ ThreadSound'
         /\ \A j \in Keys : j # k => /\ j \in thread'.carried <=> j \in thread.carried
                                     /\ j \in thread'.late <=> j \in thread.late
         /\ thread'.carried \in {thread.carried, thread.carried \cup {k}}
         /\ k \in thread'.carried => k \notin thread'.late /\ (k \in Sends \/ Visible(0))
         /\ Visible(0)' => Visible(0)
         /\ Moot \subseteq Moot' /\ Moot' \subseteq Deletions
<1>1. TypeOK /\ thread \in Thread /\ k # 0 /\ k >= 0 /\ 0 \in Messages /\ Target(k) \in Messages
  BY DEF CommentsInv, TypeOK, KindsOK, Messages, Target
<1>2. /\ \A e \in events : e[1] = 0 => thread.text[0] = Gone
      /\ \A j \in Keys : CommentKind[j] = "edit" /\ thread.text[0] = j => j \in thread.carried
      /\ \A j \in Sends : Visible(j) => j \in thread.carried
  BY DEF CommentsInv, ThreadSound
<1>3. Moot' \subseteq Deletions
  BY DEF Moot, Deletions
<1>4. CASE thread' = thread \/ thread' = [thread EXCEPT !.late = @ \cup {k}]
  <2>1. /\ thread' \in Thread /\ thread'.text = thread.text /\ thread'.carried = thread.carried
        /\ \A j \in Keys : j # k => (j \in thread'.late <=> j \in thread.late)
    BY <1>1, <1>4 DEF Thread
  <2>2. ThreadSound' /\ Moot' = Moot /\ Visible(0)' = Visible(0)
    BY <1>2, <2>1 DEF ThreadSound, Moot, Visible
  <2> QED
    BY <1>3, <2>1, <2>2
<1>5. CASE thread' = Effect(k)
  <2>1. /\ thread' \in Thread /\ thread'.late = thread.late \ {k}
        /\ k \in Sends \/ Visible(0) => thread'.carried = thread.carried \cup {k}
        /\ ~(k \in Sends \/ Visible(0)) => thread'.carried = thread.carried
        /\ \A m \in Messages : m # Target(k) => thread'.text[m] = thread.text[m]
        /\ k \in Sends => thread'.text[k] = k
        /\ CommentKind[k] = "edit" /\ Visible(0) => thread'.text[0] = k
        /\ CommentKind[k] = "delete" /\ Visible(0) => thread'.text[0] = Gone
        /\ k \notin Sends /\ ~Visible(0) => thread'.text[0] = thread.text[0]
    BY <1>1, <1>5, EffectIs
  <2>2. CommentKind[k] \in {"send", "edit", "delete"} /\ (k \in Sends <=> CommentKind[k] = "send")
    BY DEF KindsOK, Sends
  <2>3. \/ thread'.text[0] = thread.text[0]
        \/ k \notin Sends /\ Visible(0) /\ thread'.text[0] \in {k, Gone}
    BY <1>1, <2>1, <2>2 DEF Target
  <2>4. thread'.text[0] = k => k \in thread'.carried \/ thread.text[0] = k
    BY <2>1, <2>3
  <2>5. ThreadSound'
    <3>1. \A e \in events : e[1] = 0 => thread'.text[0] = Gone
      BY <1>2, <2>3 DEF Visible, Gone
    <3>2. ASSUME NEW j \in Keys, CommentKind[j] = "edit", thread'.text[0] = j PROVE j \in thread'.carried
      <4>1. j \in Nat
        BY DEF KindsOK
      <4>2. CASE thread'.text[0] = thread.text[0]
        BY <1>2, <2>1, <3>2, <4>2
      <4>3. CASE k \notin Sends /\ Visible(0) /\ thread'.text[0] \in {k, Gone}
        BY <2>1, <3>2, <4>1, <4>3 DEF Gone
      <4> QED
        BY <2>3, <4>2, <4>3
    <3>3. ASSUME NEW j \in Sends, Visible(j)' PROVE j \in thread'.carried
      <4>1. j \in Messages /\ j # 0
        BY DEF Messages, Sends, KindsOK
      <4>2. CASE j = k
        BY <2>1, <4>2
      <4>3. CASE j # k
        <5>1. thread'.text[j] = thread.text[j]
          BY <2>1, <4>1, <4>3 DEF Target
        <5> QED
          BY <1>2, <2>1, <3>3, <5>1 DEF Visible
      <4> QED
        BY <4>2, <4>3
    <3> QED
      BY <3>1, <3>2, <3>3 DEF ThreadSound
  <2>6. (Visible(0)' => Visible(0)) /\ Moot \subseteq Moot'
    BY <2>3 DEF Visible, Gone, Moot
  <2> QED
    BY <1>3, <2>1, <2>5, <2>6
<1> QED
  BY <1>4, <1>5 DEF Lands

\* A goroutine's write ends.
LEMMA WriterEnds ==
  ASSUME KindsOK, CommentsInv, TypeOK', Hands', NEW h \in Handlers, In(h, "write"), Moves(h),
         Lands(call[h].k), op' = op, events' = events, times' = [times EXCEPT ![call[h].k] = @ + 1],
         ~In(h, "write")', ~In(h, "begin")',
         Holding(h)' => thread' = thread /\ call'[h].k = call[h].k,
         Succeeds(h)' => call[h].k \in thread'.carried /\ call'[h].k = call[h].k
  PROVE  CommentsInv' /\ ((\E k \in Keys : Promise!CarryOut(k)) \/ Promise!Drop)
<1> DEFINE k == call[h].k
<1>1. TypeOK /\ k \in Keys /\ Holding(h) /\ h \in Writers(k)
  BY DEF CommentsInv, Hands, HandOK, In, Holding, Writers
<1>2. op[k].state # "none" /\ op[k].started /\ k \notin thread.carried \cup thread.late
  BY <1>1 DEF CommentsInv, CallSound
<1>3. /\ thread' \in Thread /\ ThreadSound'
      /\ \A j \in Keys : j # k => /\ j \in thread'.carried <=> j \in thread.carried
                                  /\ j \in thread'.late <=> j \in thread.late
      /\ thread'.carried \in {thread.carried, thread.carried \cup {k}}
      /\ k \in thread'.carried => k \notin thread'.late /\ (k \in Sends \/ Visible(0))
      /\ Visible(0)' => Visible(0)
      /\ Moot \subseteq Moot' /\ Moot' \subseteq Deletions
  BY <1>1, <1>2, LandsKept
<1>4. /\ \A g \in Handlers \ {h} : CallSound(g)'
      /\ \A j \in Keys : j # k => h \notin Writers(j) /\ Writers(j) \ {h} = Writers(j)
      /\ Writers(k) \subseteq {h}
  BY <1>1, <1>3, OthersKept
<1>5. \A j \in Keys : Writers(j)' = IF j = k THEN {} ELSE Writers(j)
  <2>1. \A g \in Handlers \ {h} : In(g, "write")' = In(g, "write") /\ call'[g].k = call[g].k
    BY DEF Moves, In
  <2>2. \A j \in Keys : j = k => Writers(j)' = {}
    BY <1>4, <2>1 DEF Writers
  <2>3. \A j \in Keys : j # k => Writers(j)' = Writers(j)
    BY <1>4, <2>1 DEF Writers
  <2> QED
    BY <2>2, <2>3
<1>6. Flying = {j \in Keys : (Writers(j) # {} \/ j \in thread.late) /\ (j \in Sends \/ Visible(0))}
  BY <1>1, FlyingIs DEF CommentsInv
<1>7. Flying' = {j \in Keys : (Writers(j)' # {} \/ j \in thread'.late) /\ (j \in Sends \/ Visible(0)')}
  BY FlyingNext
<1>8. Flying' \subseteq Flying
  <2>1. ASSUME NEW j \in Flying' PROVE j \in Flying
    <3>1. CASE j = k
      BY <1>1, <1>3, <1>6, <1>7, <3>1
    <3>2. CASE j # k
      BY <1>3, <1>5, <1>6, <1>7, <3>2
    <3> QED
      BY <3>1, <3>2
  <2> QED
    BY <2>1
<1>9. CallSound(h)'
  <2>1. Holding(h)' => op'[call'[h].k].state # "none" /\ call'[h].k \notin thread'.carried \cup thread'.late
    BY <1>2
  <2> QED
    BY <2>1 DEF CallSound, Succeeds
<1>10. ASSUME NEW j \in Keys PROVE KeySound(j)'
  <2>1. KeySound(j) /\ times[j] \in Nat /\ times'[j] = IF j = k THEN times[j] + 1 ELSE times[j]
    BY <1>1 DEF CommentsInv, TypeOK
  <2>2. times'[j] + Cardinality(Writers(j)') = IF op[j].started THEN 1 ELSE 0
    <3>1. CASE j = k
      <4>1. Writers(j) = {h} /\ Writers(j)' = {}
        BY <1>1, <1>4, <1>5, <3>1
      <4>2. Cardinality({h}) = 1 /\ Cardinality({}) = 0
        BY FS_Singleton, FS_EmptySet
      <4>3. times[j] + 1 = IF op[j].started THEN 1 ELSE 0
        BY <2>1, <4>1, <4>2 DEF KeySound
      <4>4. Cardinality(Writers(j)') = 0
        BY <4>1, <4>2
      <4> QED
        BY <2>1, <3>1, <4>3, <4>4
    <3>2. CASE j # k
      <4>1. Writers(j)' = Writers(j) /\ times'[j] = times[j]
        BY <1>5, <2>1, <3>2
      <4> QED
        BY <2>1, <4>1 DEF KeySound
    <3> QED
      BY <3>1, <3>2
  <2>3. j \in thread'.late \cup thread'.carried => op[j].started
    BY <1>2, <1>3, <2>1 DEF KeySound
  <2>4. j \in thread'.late => j \notin thread'.carried
    BY <1>3, <2>1 DEF KeySound
  <2> QED
    BY <1>8, <2>1, <2>2, <2>3, <2>4 DEF KeySound, Unsettled
<1>11. OneHolds' /\ OneUnsettled'
  <2>1. \A j \in Keys : Unsettled(j)' => Unsettled(j)
    BY DEF Unsettled
  <2> QED
    BY <1>1, <2>1, StillOneHolds, StillOneUnsettled
<1>12. CommentsInv'
  BY <1>3, <1>4, <1>9, <1>10, <1>11 DEF CommentsInv
<1>13. Attempted' = Attempted /\ Told' = Told
  BY <1>12, AttemptedIs, AttemptedNext DEF Told
<1>14. CASE thread'.carried = thread.carried
  BY <1>3, <1>8, <1>12, <1>13, <1>14 DEF Promise!Drop, Promise!Elsewhere
<1>15. CASE thread'.carried # thread.carried
  <2>1. k \in thread'.carried /\ thread'.carried = thread.carried \cup {k}
    BY <1>3, <1>15
  <2>2. k \in Flying /\ k \notin Flying'
    BY <1>1, <1>3, <1>5, <1>6, <1>7, <2>1
  <2>3. Promise!CarryOut(k)
    BY <1>3, <1>8, <1>13, <2>1, <2>2 DEF Promise!CarryOut, Promise!Elsewhere
  <2> QED
    BY <1>1, <1>12, <2>3
<1> QED
  BY <1>14, <1>15

\* MAX takes the write, refuses it, or its answer is lost.
LEMMA WriteCommentKept ==
  ASSUME KindsOK, CommentsInv, NEW h \in Handlers, WriteComment(h)
  PROVE  CommentsInv' /\ ((\E k \in Keys : Promise!CarryOut(k)) \/ Promise!Drop)
<1> DEFINE k == call[h].k
           accepted == k \in Sends \/ Visible(0)
<1>1. TypeOK /\ k \in Keys /\ In(h, "write") /\ call[h].saw \in Int /\ k \notin thread.carried
  BY DEF CommentsInv, Hands, HandOK, WriteComment, In, CallSound, Holding
<1>2. /\ op' = op /\ row' = row /\ listing' = listing /\ events' = events /\ clock' = clock
      /\ times' = [times EXCEPT ![k] = @ + 1]
  BY DEF WriteComment
<1>3. PICK end \in {"readback", "succeeded", "rejected", "uncertain"} :
        /\ IF end = "readback" THEN To(h, "readback") ELSE EndWith(h, end)
        /\ end \in {"readback", "succeeded"} => thread' = Effect(k) /\ accepted
        /\ end = "rejected" => thread' = thread
        /\ end = "uncertain" => thread' \in {thread, Effect(k), [thread EXCEPT !.late = @ \cup {k}]}
        /\ loss' \in {loss, loss + 1}
  BY DEF WriteComment, Loses
<1>4. /\ Moves(h) /\ call'[h].k = k /\ call'[h].saw = call[h].saw
      /\ call'[h].pc = IF end = "readback" THEN "readback" ELSE "finish"
      /\ end # "readback" => call'[h].end = end
  BY <1>1, <1>3, ToMoves, EndMoves DEF Pcs
<1>5. Lands(k)
  BY <1>3 DEF Lands
<1>6. thread' \in Thread /\ (end \in {"readback", "succeeded"} => k \in thread'.carried)
  <2>1. thread' \in Thread
    BY <1>1, <1>2, <1>5, LandsKept
  <2>2. end \in {"readback", "succeeded"} => k \in thread'.carried
    BY <1>1, <1>3, EffectIs
  <2> QED
    BY <2>1, <2>2
<1>7. TypeOK'
  BY <1>1, <1>2, <1>3, <1>4, <1>6 DEF TypeOK, Moves
<1>8. Hands'
  <2>1. HandOK(h)'
    BY <1>1, <1>3, <1>4 DEF HandOK
  <2> QED
    BY <1>4, <2>1 DEF CommentsInv, Moves, Hands, HandOK
<1>9. /\ ~In(h, "write")' /\ ~In(h, "begin")'
      /\ Holding(h)' => thread' = thread
      /\ Succeeds(h)' => k \in thread'.carried
  BY <1>3, <1>4, <1>6 DEF In, Holding, Succeeds
<1> QED
  BY <1>1, <1>2, <1>4, <1>5, <1>7, <1>8, <1>9, WriterEnds

\* A goroutine dies; its write may land all the same.
LEMMA HandlerDiesKept ==
  ASSUME KindsOK, CommentsInv, NEW h \in Handlers, HandlerDies(h)
  PROVE  CommentsInv' /\ (Promise!Tell \/ (\E k \in Keys : Promise!CarryOut(k)) \/ Promise!Drop)
<1> DEFINE k == call[h].k
<1>1. TypeOK /\ op' = op /\ row' = row /\ listing' = listing /\ events' = events /\ clock' = clock /\ loss' = loss + 1
  BY DEF CommentsInv, HandlerDies, Loses
<1>2. Moves(h) /\ call'[h] = NoCall /\ HandOK(h)' /\ ~Holding(h)' /\ ~Succeeds(h)' /\ ~In(h, "write")'
  BY <1>1, DoneMoves DEF HandlerDies
<1>3. Hands'
  BY <1>2 DEF CommentsInv, Moves, Hands, HandOK
<1>4. ~In(h, "begin")'
  BY <1>2, NoCallIs DEF In
<1>5. CASE In(h, "write")
  <2>1. k \in Keys /\ k \notin thread.carried
    BY <1>5 DEF CommentsInv, Hands, HandOK, In, CallSound, Holding
  <2>2. Lands(k) /\ times' = [times EXCEPT ![k] = @ + 1]
    BY <1>5 DEF HandlerDies, Lands
  <2>3. thread' \in Thread
    BY <1>1, <2>1, <2>2, LandsKept
  <2>4. TypeOK'
    BY <1>1, <1>2, <2>1, <2>2, <2>3 DEF TypeOK, Moves
  <2> QED
    BY <1>1, <1>2, <1>3, <1>4, <1>5, <2>2, <2>4, WriterEnds
<1>6. CASE ~In(h, "write")
  <2>1. thread' = thread /\ times' = times
    BY <1>6 DEF HandlerDies
  <2>2. TypeOK'
    BY <1>1, <1>2, <2>1 DEF TypeOK, Moves
  <2>3. Quiet(h)
    BY <1>2, <1>4, <1>6 DEF Quiet
  <2> QED
    BY <1>1, <1>2, <2>1, <2>2, <2>3, SameSettles, LocalKept
<1> QED
  BY <1>5, <1>6

\* MAX carries out a write whose answer was lost.
LEMMA CarriedOutLateKept ==
  ASSUME KindsOK, CommentsInv, NEW k \in Keys, CarriedOutLate(k)
  PROVE  CommentsInv' /\ (Promise!CarryOut(k) \/ Promise!Drop)
<1>1. /\ TypeOK /\ Hands /\ k \in thread.late /\ thread' = Effect(k)
      /\ UNCHANGED <<row, op, listing, call, events, clock, loss, times>>
  BY DEF CommentsInv, CarriedOutLate
<1>2. k \notin thread.carried /\ op[k].started
  BY <1>1 DEF CommentsInv, KeySound
<1>3. /\ thread' \in Thread /\ ThreadSound'
      /\ \A j \in Keys : j # k => /\ j \in thread'.carried <=> j \in thread.carried
                                  /\ j \in thread'.late <=> j \in thread.late
      /\ thread'.carried \in {thread.carried, thread.carried \cup {k}}
      /\ k \in thread'.carried => k \notin thread'.late /\ (k \in Sends \/ Visible(0))
      /\ Visible(0)' => Visible(0)
      /\ Moot \subseteq Moot' /\ Moot' \subseteq Deletions
  BY <1>1, <1>2, LandsKept DEF Lands
<1>4. TypeOK' /\ Hands' /\ OneHolds' /\ OneUnsettled'
  BY <1>1, <1>3 DEF CommentsInv, TypeOK, Hands, HandOK, OneHolds, Holding, In, OneUnsettled, Unsettled, Rival
<1>5. \A g \in Handlers : Holding(g) => call[g].k # k /\ call[g].k \in Keys
  BY <1>1 DEF CommentsInv, CallSound, Hands, HandOK, Holding, In
<1>6. \A g \in Handlers : CallSound(g)'
  BY <1>1, <1>3, <1>5 DEF CommentsInv, CallSound, Holding, In
<1>7. Writers(k) = {} /\ \A j \in Keys : Writers(j)' = Writers(j)
  BY <1>1, <1>5 DEF Writers, In, Holding
<1>8. k \notin thread'.late
  BY <1>1, EffectIs
<1>9. Flying = {j \in Keys : (Writers(j) # {} \/ j \in thread.late) /\ (j \in Sends \/ Visible(0))}
  BY <1>1, FlyingIs
<1>10. Flying' = {j \in Keys : (Writers(j)' # {} \/ j \in thread'.late) /\ (j \in Sends \/ Visible(0)')}
  BY <1>4, FlyingNext
<1>11. Flying' \subseteq Flying /\ k \notin Flying'
  BY <1>3, <1>7, <1>8, <1>9, <1>10
<1>12. ASSUME NEW j \in Keys PROVE KeySound(j)'
  <2>1. KeySound(j) /\ Writers(j)' = Writers(j) /\ (j \in Flying' => j \in Flying)
    BY <1>7, <1>11 DEF CommentsInv
  <2>2. j \in thread'.late \cup thread'.carried => op[j].started
    BY <1>2, <1>3, <2>1 DEF KeySound
  <2>3. j \in thread'.late => j \notin thread'.carried
    BY <1>3, <2>1 DEF KeySound
  <2> QED
    BY <1>1, <2>1, <2>2, <2>3 DEF KeySound, Unsettled
<1>13. CommentsInv'
  BY <1>3, <1>4, <1>6, <1>12 DEF CommentsInv
<1>14. Attempted' = Attempted /\ Told' = Told
  BY <1>1, <1>13, AttemptedIs, AttemptedNext DEF Told
<1>15. CASE thread'.carried = thread.carried
  BY <1>3, <1>11, <1>13, <1>14, <1>15 DEF Promise!Drop, Promise!Elsewhere
<1>16. CASE thread'.carried # thread.carried
  <2>1. k \in thread'.carried /\ thread'.carried = thread.carried \cup {k}
    BY <1>3, <1>16
  <2>2. k \in Flying
    BY <1>1, <1>3, <1>9, <2>1
  <2> QED
    BY <1>3, <1>11, <1>13, <1>14, <2>1, <2>2 DEF Promise!CarryOut, Promise!Elsewhere
<1> QED
  BY <1>15, <1>16

\* A moderator removes a comment: what was to change it has no effect any more.
LEMMA RemovedByModeratorKept ==
  ASSUME KindsOK, CommentsInv, NEW m \in Messages, RemovedByModerator(m)
  PROVE  CommentsInv' /\ Promise!Drop
<1>1. /\ TypeOK /\ Hands /\ thread \in Thread /\ Visible(m)
      /\ thread' = [thread EXCEPT !.text[m] = Gone] /\ events' = events \cup {<<m, clock>>}
      /\ UNCHANGED <<row, op, listing, call, clock, loss, times>>
  BY DEF CommentsInv, TypeOK, RemovedByModerator
<1>2. /\ thread' \in Thread /\ thread'.carried = thread.carried /\ thread'.late = thread.late
      /\ thread'.text[m] = Gone /\ \A i \in Messages : i # m => thread'.text[i] = thread.text[i]
  <2>1. Gone \in Int
    BY DEF Gone
  <2> QED
    BY <1>1, <2>1 DEF Thread
<1>3. TypeOK' /\ Hands' /\ OneHolds' /\ OneUnsettled'
  <2>1. events' \subseteq Messages \X Int
    BY <1>1 DEF TypeOK
  <2> QED
    <3>1. TypeOK'
      BY <1>1, <1>2, <2>1 DEF TypeOK
    <3>2. Hands'
      BY <1>1 DEF Hands, HandOK
    <3>3. OneHolds'
      BY <1>1 DEF CommentsInv, OneHolds, Holding, In
    <3>4. OneUnsettled'
      BY <1>1 DEF CommentsInv, OneUnsettled, Unsettled, Rival
    <3> QED
      BY <3>1, <3>2, <3>3, <3>4
<1>4. \A i \in Messages : Visible(i)' => Visible(i) /\ thread'.text[i] = thread.text[i]
  BY <1>2 DEF Visible, Gone
<1>5. 0 \in Messages /\ Sends \subseteq Messages
  BY DEF Messages
<1>6. ThreadSound'
  <2>1. thread.text[0] = Gone => thread'.text[0] = Gone
    BY <1>2, <1>5
  <2>2. \A e \in events' : e[1] = 0 => thread'.text[0] = Gone
    BY <1>1, <1>2, <2>1 DEF CommentsInv, ThreadSound
  <2>3. ASSUME NEW j \in Keys, CommentKind[j] = "edit", thread'.text[0] = j PROVE j \in thread'.carried
    <3>1. j \in Nat
      BY DEF KindsOK
    <3>2. thread.text[0] = j
      BY <1>4, <1>5, <2>3, <3>1 DEF Visible
    <3> QED
      BY <1>2, <2>3, <3>2 DEF CommentsInv, ThreadSound
  <2>4. \A j \in Sends : Visible(j)' => j \in thread'.carried
    BY <1>2, <1>4, <1>5 DEF CommentsInv, ThreadSound
  <2> QED
    BY <2>2, <2>3, <2>4 DEF ThreadSound
<1>7. \A g \in Handlers : CallSound(g)'
  BY <1>1, <1>2 DEF CommentsInv, CallSound, Holding, In
<1>8. \A j \in Keys : Writers(j)' = Writers(j)
  BY <1>1 DEF Writers, In
<1>9. Flying' \subseteq Flying
  <2>1. Flying = {j \in Keys : (Writers(j) # {} \/ j \in thread.late) /\ (j \in Sends \/ Visible(0))}
    BY <1>1, FlyingIs
  <2>2. Flying' = {j \in Keys : (Writers(j)' # {} \/ j \in thread'.late) /\ (j \in Sends \/ Visible(0)')}
    BY <1>3, FlyingNext
  <2> QED
    BY <1>2, <1>4, <1>5, <1>8, <2>1, <2>2
<1>10. \A j \in Keys : KeySound(j)'
  <2> SUFFICES ASSUME NEW j \in Keys PROVE KeySound(j)'
    OBVIOUS
  <2>1. KeySound(j) /\ Writers(j)' = Writers(j) /\ (j \in Flying' => j \in Flying)
    BY <1>8, <1>9 DEF CommentsInv
  <2> QED
    BY <1>1, <1>2, <2>1 DEF KeySound, Unsettled
<1>11. CommentsInv'
  BY <1>3, <1>6, <1>7, <1>10 DEF CommentsInv
<1>12. Attempted' = Attempted /\ Told' = Told
  BY <1>1, <1>11, AttemptedIs, AttemptedNext DEF Told
<1>13. Moot \subseteq Moot' /\ Moot' \subseteq Deletions
  BY <1>2, <1>5 DEF Moot, Deletions
<1> QED
  BY <1>2, <1>9, <1>11, <1>12, <1>13 DEF Promise!Drop, Promise!Elsewhere
----------------------------------------------------------------------------
(* Every behaviour. *)

\* At first nothing is asked for.
LEMMA InitSound == ASSUME KindsOK, Init PROVE CommentsInv /\ Promise!Init
<1>1. TypeOK
  <2>1. \A m \in Messages : [known |-> m = 0, text |-> 0, deleted |-> FALSE, observed |-> 0, version |-> 1] \in Comment
    BY DEF Comment
  <2>2. row \in [Messages -> Comment]
    BY <2>1 DEF Init
  <2>3. op \in [Keys -> Operation] /\ listing \in [generation : Int, claimed : BOOLEAN]
    BY DEF Init, Operation, States
  <2>4. call \in [Handlers -> Call]
    BY NoCallIs DEF Init
  <2>5. thread \in Thread
    BY DEF Init, Thread, None
  <2> QED
    BY <2>2, <2>3, <2>4, <2>5 DEF Init, TypeOK
<1>2. \A h \in Handlers : call[h].pc = "idle" /\ call[h].saw \in Int
  BY NoCallIs DEF Init
<1>3. \A k : Writers(k) = {}
  BY <1>2 DEF Writers, In
<1>4. Hands /\ OneHolds /\ \A h \in Handlers : CallSound(h)
  BY <1>2 DEF Hands, HandOK, OneHolds, CallSound, Holding, In
<1>5. /\ \A k \in Keys : op[k].state = "none" /\ op[k].started = FALSE /\ times[k] = 0
      /\ thread.late = {} /\ thread.carried = {} /\ events = {}
      /\ thread.text[0] = 0 /\ \A k \in Sends : thread.text[k] = None
  BY DEF Init, Messages, KindsOK, Sends
<1>6. Flying = {}
  BY <1>1, <1>3, <1>4, <1>5, FlyingIs
<1>7. ASSUME NEW k \in Keys PROVE KeySound(k)
  <2>1. Cardinality(Writers(k)) = 0
    BY <1>3, FS_EmptySet
  <2>2. times[k] = 0 /\ ~op[k].started /\ op[k].state = "none"
    BY <1>5
  <2>3. times[k] + Cardinality(Writers(k)) = 0
    BY <2>1, <2>2
  <2>4. k \notin thread.late /\ k \notin thread.carried /\ k \notin Flying
    BY <1>5, <1>6
  <2> QED
    BY <2>2, <2>3, <2>4 DEF KeySound
<1>8. ThreadSound /\ OneUnsettled
  BY <1>5 DEF ThreadSound, OneUnsettled, Unsettled, Visible, None, KindsOK
<1>9. CommentsInv
  BY <1>1, <1>4, <1>7, <1>8 DEF CommentsInv
<1>10. /\ Attempted = [k \in Keys |-> 0] /\ Told = [k \in Keys |-> "open"] /\ Moot = {}
  BY <1>5, <1>9, AttemptedIs DEF Told, Moot, Gone
<1> QED
  BY <1>5, <1>6, <1>9, <1>10 DEF Promise!Init

\* Every step of Comments is one of WriteOnce, or none.
LEMMA StepSound == ASSUME KindsOK, CommentsInv, [Next]_comments PROVE CommentsInv' /\ [Promise!Next]_(Promise!promise)
<1>1. CASE UNCHANGED comments
  <2>1. \A k : Writers(k)' = Writers(k)
    BY <1>1 DEF comments, Writers, In
  <2>2. Flying' = Flying
    BY <1>1 DEF comments, Flying, In, Visible
  <2>3. TypeOK' /\ ThreadSound' /\ OneHolds' /\ OneUnsettled'
    BY <1>1 DEF comments, CommentsInv, TypeOK, ThreadSound, OneHolds, OneUnsettled, Holding, In, Unsettled, Visible, Rival
  <2>4. Hands' /\ \A h \in Handlers : CallSound(h)'
    BY <1>1 DEF comments, CommentsInv, Hands, HandOK, CallSound, Holding, In
  <2>5. \A k \in Keys : KeySound(k)'
    BY <1>1, <2>1, <2>2 DEF comments, CommentsInv, KeySound, Unsettled
  <2>6. UNCHANGED Promise!promise
    BY <1>1 DEF comments, Promise!promise, Attempted, Flying, Moot, Told, In, Visible
  <2> QED
    BY <2>3, <2>4, <2>5, <2>6 DEF CommentsInv
<1>2. ASSUME NEW h \in Handlers, HandlerStep(h)
      PROVE  CommentsInv' /\ Promise!Next
  <2>1. ASSUME NEW k \in Keys, BeginMutation(h, k) PROVE CommentsInv' /\ Promise!Tell
    BY <2>1, BeginMutationKept
  <2>2. CASE GetComment(h)
    BY <2>2, GetCommentKept DEF Promise!Next
  <2>3. CASE ObserveMAXComment(h)
    BY <2>3, ObserveMAXCommentKept DEF Promise!Next
  <2>4. CASE ClaimMAXCommentOperation(h)
    BY <2>4, ClaimMAXCommentOperationKept DEF Promise!Next
  <2>5. CASE BeginMAXCommentWrite(h)
    BY <2>5, BeginMAXCommentWriteKept DEF Promise!Next
  <2>6. CASE WriteComment(h)
    BY <2>6, WriteCommentKept DEF Promise!Next
  <2>7. CASE ReadBackEdit(h)
    BY <2>7, ReadBackEditKept DEF Promise!Next
  <2>8. CASE FinishMAXCommentOperation(h)
    BY <2>8, FinishKept DEF Promise!Next
  <2>9. CASE ClaimMAXCommentSync(h)
    BY <2>9, ClaimMAXCommentSyncKept DEF Promise!Next
  <2>10. CASE ListComments(h)
    BY <2>10, ListCommentsKept DEF Promise!Next
  <2>11. CASE ApplyMAXCommentSync(h)
    BY <2>11, ApplyMAXCommentSyncKept DEF Promise!Next
  <2>12. CASE ReconcileMAXCommentEdits(h)
    BY <2>12, ReconcileMAXCommentEditsKept DEF Promise!Next
  <2>13. CASE HandlerDies(h)
    BY <2>13, HandlerDiesKept DEF Promise!Next
  <2> QED
    BY <1>2, <2>1, <2>2, <2>3, <2>4, <2>5, <2>6, <2>7, <2>8, <2>9, <2>10, <2>11, <2>12, <2>13 DEF HandlerStep, Promise!Next
<1>3. CASE GetMAXCommentsSnapshot \/ TimePasses
  BY <1>3, SnapshotKept, TimePassesKept DEF Promise!Next
<1>4. ASSUME NEW k \in Keys, ReconcileMAXCommentSend(k) \/ CarriedOutLate(k) \/ LeaseRuns(k)
      PROVE  CommentsInv' /\ Promise!Next
  BY <1>4, ReconcileMAXCommentSendKept, CarriedOutLateKept, LeaseRunsKept DEF Promise!Next
<1>5. ASSUME NEW m \in Messages, RemovedByModerator(m) PROVE CommentsInv' /\ Promise!Next
  BY <1>5, RemovedByModeratorKept DEF Promise!Next
<1>6. ASSUME NEW e \in events, ObserveMAXCommentRemoval(e[1], e[2]) PROVE CommentsInv' /\ Promise!Next
  BY <1>6, ObserveMAXCommentRemovalKept DEF Promise!Next
<1> QED
  BY <1>1, <1>2, <1>3, <1>4, <1>5, <1>6 DEF Next

\* A goroutine holds a request alone, a request has one rival-free claim, and
\* what MAX has carried out or may still carry out is known of its operation.
THEOREM CommentsSound == KindsOK /\ Spec => []CommentsInv
<1> SUFFICES ASSUME KindsOK PROVE Spec => []CommentsInv
  OBVIOUS
<1>1. Init => CommentsInv
  BY InitSound
<1>2. CommentsInv /\ [Next]_comments => CommentsInv'
  BY StepSound
<1> QED
  BY <1>1, <1>2, PTL DEF Spec

\* Comments implements WriteOnce: replies, edits and deletions of comments are
\* written as it promises, through lost and late answers, removals by others,
\* leases that end and goroutines that die.
THEOREM CommentsKeepTheirPromise == KindsOK /\ Spec => Promise!Spec
<1> SUFFICES ASSUME KindsOK PROVE Spec => Promise!Spec
  OBVIOUS
<1>1. Init => CommentsInv /\ Promise!Init
  BY InitSound
<1>2. CommentsInv /\ [Next]_comments => CommentsInv' /\ [Promise!Next]_(Promise!promise)
  BY StepSound
<1> QED
  BY <1>1, <1>2, PTL DEF Spec, Promise!Spec

\* Hence a comment request is written at most once, and what its author is told
\* of it is true, however late MAX answers.
THEOREM CommentVerdictsTrue == KindsOK /\ Spec => []Promise!Truthful
BY CommentsKeepTheirPromise, Promise!VerdictsTrue, PTL

\* And two replies, or an edit and a deletion, are never on their way together.
THEOREM CommentWritesSerial == KindsOK /\ Spec => []Promise!Serial
BY CommentsKeepTheirPromise, Promise!WritesSerial, PTL

\* Some natural numbers have a least one.
LEMMA LeastOf == ASSUME NEW S, S \subseteq Nat, S # {} PROVE \E m \in S : \A n \in S : m <= n
<1> DEFINE R == {ss \in Nat \X Nat : ss[1] < ss[2]}
<1>1. IsWellFoundedOn(R, Nat)
  BY NatLessThanWellFounded DEF OpToRel
<1> HIDE DEF R
<1>2. PICK m \in S : \A n \in S : ~(<<n, m>> \in R)
  BY <1>1, WFMin
<1>3. \A n \in S : ~(n < m)
  BY <1>2 DEF R
<1> QED
  BY <1>3

----------------------------------------------------------------------------
(* Channels: a connected channel was proven by its owner in MAX. *)
OneChannel == INSTANCE Channels
ChannelSpec == OneChannel!Init /\ [][OneChannel!Next]_(OneChannel!channels)

Homes == Users \cup Teams
ChatRow == [in : BOOLEAN, can : BOOLEAN, owner : Accounts, since : Nat]
HookRow == [what : {"added", "removed", "rights", "message"}, at : Nat]
SeenRow == [active : BOOLEAN, owner : Accounts \cup {Nobody}, at : Nat]
ChannelRow == [home : Homes \cup {Nobody}, owner : Accounts \cup {Nobody}, active : BOOLEAN,
               posts : Homes \cup {Nobody}, since : Nat]
ClaimRow == [status : {"none", "pending", "awaiting", "verified", "failed", "expired", "connected"},
             home : Homes \cup {Nobody}, actor : Users \cup {Nobody}, account : Accounts \cup {Nobody},
             asking : BOOLEAN, over : BOOLEAN]
CallRow == [pc : {"read", "write", "check", "finish"},
            what : {"observe", "rights", "refresh", "prepare", "complete", "connect"},
            hook : SUBSET HookRow, at : Nat, user : Users \cup {Nobody}, home : Homes \cup {Nobody},
            claim : Claims \cup {0}, by : {"none", "callback", "poll"}, owner : Accounts \cup {Nobody},
            can : BOOLEAN]

MaxSound == chat \in ChatRow /\ hour \in Nat /\ hooks \subseteq HookRow
DatesSound == seen \in SeenRow /\ right \in [can : BOOLEAN, at : Nat]
\* A claim is verified by the button of its account.
ClaimSound(c) == claim[c].status \in {"verified", "connected"} => <<c, "confirm">> \in pressed
ClaimsSound == claim \in [Claims -> ClaimRow] /\ \A c \in Claims : ClaimSound(c)
\* A call that connects a user's own channel found the account of this user to be the owner.
RequestSound(e) ==
  /\ e \in CallRow \cup {OneChannel!NoErrand}
  /\ e.pc # "idle" /\ e.what = "complete" => e.claim \in Claims
  /\ e.pc = "finish" /\ e.what = "connect" => e.owner = LinkOf(e.user)
CallsSound == errand \in [Callers -> CallRow \cup {OneChannel!NoErrand}] /\ \A h \in Callers : RequestSound(errand[h])
ConnectedBy(c) ==
  claim[c].status = "connected" /\ claim[c].home = channel.home /\ claim[c].account = channel.owner
ChannelSound ==
  /\ channel \in ChannelRow /\ channel.posts \in {Nobody, channel.home}
  /\ channel.home # Nobody => LinkOf(channel.home) = channel.owner \/ \E c \in Claims : ConnectedBy(c)
ChannelInv == MaxSound /\ DatesSound /\ ClaimsSound /\ CallsSound /\ ChannelSound

LEMMA CallStep ==
  ASSUME CallsSound, NEW h \in Callers, NEW e, RequestSound(e), errand' = [errand EXCEPT ![h] = e]
  PROVE  CallsSound'
<1>1. errand' \in [Callers -> CallRow \cup {OneChannel!NoErrand}]
  BY DEF CallsSound, RequestSound
<1>2. \A g \in Callers : errand'[g] = IF g = h THEN e ELSE errand[g]
  BY DEF CallsSound
<1>3. \A g \in Callers : RequestSound(errand'[g])
  BY <1>2 DEF CallsSound
<1> QED
  BY <1>1, <1>3 DEF CallsSound, CallRow, HookRow, Homes, RequestSound, OneChannel!NoErrand

LEMMA CallEnds == ASSUME CallsSound, NEW h \in Callers, OneChannel!End(h) PROVE CallsSound'
<1>1. RequestSound(OneChannel!NoErrand)
  BY DEF RequestSound, OneChannel!NoErrand
<1> QED
  BY <1>1, CallStep DEF OneChannel!End

LEMMA CallGoes ==
  ASSUME CallsSound, NEW h \in Callers, errand[h].pc # "idle", NEW pc \in {"write", "check", "finish"},
         OneChannel!Go(h, pc), errand[h].what = "connect" /\ pc = "finish" => errand[h].owner = LinkOf(errand[h].user)
  PROVE  CallsSound'
<1> DEFINE e == [errand[h] EXCEPT !.pc = pc]
<1>1. errand[h] \in CallRow /\ RequestSound(errand[h])
  BY DEF CallsSound, OneChannel!NoErrand
<1>2. /\ e \in CallRow /\ e.pc = pc /\ e.what = errand[h].what /\ e.claim = errand[h].claim /\ e.owner = errand[h].owner
      /\ e.user = errand[h].user
  BY <1>1 DEF CallRow
<1>3. errand' = [errand EXCEPT ![h] = e]
  BY DEF OneChannel!Go
<1> HIDE DEF e
<1>4. RequestSound(e)
  BY <1>1, <1>2 DEF RequestSound
<1> QED
  BY <1>3, <1>4, CallStep

Fresh(what, hook, at, user, home, c, by) ==
  [pc |-> "read", what |-> what, hook |-> hook, at |-> at, user |-> user, home |-> home, claim |-> c, by |-> by,
   owner |-> Nobody, can |-> FALSE]
LEMMA NewCall ==
  ASSUME CallsSound, NEW h \in Callers, NEW what \in {"observe", "rights", "refresh", "prepare", "complete", "connect"},
         NEW hook \in SUBSET HookRow, NEW at \in Nat, NEW user \in Users \cup {Nobody}, NEW home \in Homes \cup {Nobody},
         NEW c \in Claims \cup {0}, NEW by \in {"none", "callback", "poll"}, what = "complete" => c \in Claims,
         OneChannel!Start(h, Fresh(what, hook, at, user, home, c, by))
  PROVE  CallsSound'
<1> DEFINE e == Fresh(what, hook, at, user, home, c, by)
<1>1. e \in CallRow
  BY DEF CallRow, Fresh
<1>2. e.pc = "read" /\ e.what = what /\ e.claim = c
  BY DEF Fresh
<1>3. errand' = [errand EXCEPT ![h] = e]
  BY DEF OneChannel!Start
<1> HIDE DEF e
<1>4. RequestSound(e)
  BY <1>1, <1>2 DEF RequestSound
<1> QED
  BY <1>3, <1>4, CallStep

LEMMA FreshIs ==
  ASSUME NEW what, NEW hook, NEW at, NEW user, NEW home
  PROVE  /\ [OneChannel!Errand(what) EXCEPT !.hook = hook, !.at = at] = Fresh(what, hook, at, Nobody, Nobody, 0, "none")
         /\ [OneChannel!Errand(what) EXCEPT !.user = user, !.home = home] = Fresh(what, {}, 0, user, home, 0, "none")
         /\ [OneChannel!Errand(what) EXCEPT !.at = at] = Fresh(what, {}, at, Nobody, Nobody, 0, "none")
<1>1. ASSUME NEW e, e = [OneChannel!Errand(what) EXCEPT !.hook = hook, !.at = at]
      PROVE  e = Fresh(what, hook, at, Nobody, Nobody, 0, "none")
  BY <1>1 DEF OneChannel!Errand, Fresh
<1>2. ASSUME NEW e, e = [OneChannel!Errand(what) EXCEPT !.user = user, !.home = home]
      PROVE  e = Fresh(what, {}, 0, user, home, 0, "none")
  BY <1>2 DEF OneChannel!Errand, Fresh
<1>3. ASSUME NEW e, e = [OneChannel!Errand(what) EXCEPT !.at = at]
      PROVE  e = Fresh(what, {}, at, Nobody, Nobody, 0, "none")
  BY <1>3 DEF OneChannel!Errand, Fresh
<1> QED
  BY <1>1, <1>2, <1>3, Zenon

\* What goes on in MAX and how the inventory is read.
LEMMA ChatChangesKept ==
  ASSUME ChannelInv, OneChannel!ChatChanges \/ OneChannel!MessagePosted PROVE ChannelInv'
<1>1. /\ UNCHANGED <<seen, channel, right, claim, pressed, errand>>
  BY DEF OneChannel!ChatChanges, OneChannel!MessagePosted
<1>2. CASE OneChannel!MessagePosted
  <2> DEFINE e == [what |-> "message", at |-> OneChannel!Now]
  <2>1. e \in HookRow
    BY DEF HookRow, OneChannel!Now, ChannelInv, MaxSound
  <2>2. hooks' = hooks \cup {e} /\ UNCHANGED <<chat, hour>>
    BY <1>2 DEF OneChannel!MessagePosted
  <2> HIDE DEF e
  <2>3. MaxSound'
    BY <2>1, <2>2 DEF ChannelInv, MaxSound
  <2> QED
    BY <1>1, <2>3 DEF ChannelInv, DatesSound, ClaimsSound, ClaimSound, CallsSound, RequestSound, ChannelSound, ConnectedBy
<1>3. ASSUME NEW after \in ChatRow, NEW what \in {"added", "removed", "rights", "none"}, OneChannel!Changed(after, what)
      PROVE  MaxSound'
  <2> DEFINE e == [what |-> what, at |-> 2 * hour']
  <2>1. hour' \in Nat
    BY <1>3 DEF OneChannel!Changed, ChannelInv, MaxSound
  <2>2. 2 * hour' \in Nat
    <3>1. \A n \in Nat : 2 * n \in Nat
      OBVIOUS
    <3> QED
      BY <2>1, <3>1
  <2>4. chat' = after /\ hooks' = IF what = "none" THEN hooks ELSE hooks \cup {e}
    BY <1>3 DEF OneChannel!Changed
  <2>3. what # "none" => e \in HookRow
    BY <2>2 DEF HookRow
  <2> HIDE DEF e
  <2> QED
    BY <2>1, <2>3, <2>4 DEF MaxSound, ChannelInv
<1>4. CASE OneChannel!ChatChanges
  <2>1. \A can \in BOOLEAN : [chat EXCEPT !.in = TRUE, !.can = can] \in ChatRow
    BY DEF ChatRow, ChannelInv, MaxSound
  <2>2. [chat EXCEPT !.in = FALSE, !.can = FALSE] \in ChatRow /\ [chat EXCEPT !.can = ~@] \in ChatRow
    BY DEF ChatRow, ChannelInv, MaxSound
  <2>3. \A a \in Accounts : [chat EXCEPT !.owner = a, !.since = hour + 1] \in ChatRow
    <3>1. hour + 1 \in Nat /\ chat \in ChatRow
      BY DEF ChannelInv, MaxSound
    <3> DEFINE n == hour + 1
    <3> HIDE DEF n
    <3>2. \A a \in Accounts : [chat EXCEPT !.owner = a, !.since = n] \in ChatRow
      BY <3>1 DEF ChatRow, n
    <3> QED
      BY <3>2 DEF n
  <2>4. \/ \E can \in BOOLEAN : OneChannel!Changed([chat EXCEPT !.in = TRUE, !.can = can], "added")
        \/ OneChannel!Changed([chat EXCEPT !.in = FALSE, !.can = FALSE], "removed")
        \/ OneChannel!Changed([chat EXCEPT !.can = ~@], "rights")
        \/ \E a \in Accounts : OneChannel!Changed([chat EXCEPT !.owner = a, !.since = hour + 1], "none")
    BY <1>4, Zenon DEF OneChannel!ChatChanges
  <2>5. MaxSound'
    BY <1>3, <2>1, <2>2, <2>3, <2>4, Zenon
  <2> QED
    BY <1>1, <2>5 DEF ChannelInv, DatesSound, ClaimsSound, ClaimSound, CallsSound, RequestSound, ChannelSound, ConnectedBy
<1> QED
  BY <1>2, <1>4

\* The steps of a call that write no claim and no channel.
LEMMA CallOnly ==
  ASSUME ChannelInv, UNCHANGED <<chat, hour, hooks, claim, pressed>>, CallsSound', DatesSound',
         \/ channel' = channel
         \/ /\ channel' \in ChannelRow /\ channel'.home = channel.home
            /\ channel'.owner = channel.owner /\ channel'.posts = channel.posts
  PROVE  ChannelInv'
<1>1. /\ channel' \in ChannelRow /\ channel'.home = channel.home
      /\ channel'.owner = channel.owner /\ channel'.posts = channel.posts
  BY DEF ChannelInv, ChannelSound
<1>2. ClaimsSound' /\ MaxSound'
  BY DEF ChannelInv, MaxSound, ClaimsSound, ClaimSound
<1>3. \A c \in Claims : ConnectedBy(c) => ConnectedBy(c)'
  BY <1>1 DEF ConnectedBy
<1>4. ChannelSound'
  BY <1>1, <1>3 DEF ChannelInv, ChannelSound
<1> QED
  BY <1>2, <1>4 DEF ChannelInv

LEMMA SeenWritten ==
  ASSUME ChannelInv, NEW owner \in Accounts \cup {Nobody}, NEW at \in Nat
  PROVE  /\ OneChannel!TouchObservedBotChat(at) => seen' \in SeenRow
         /\ OneChannel!UpsertObservedBotChat(owner, at) => seen' \in SeenRow
         /\ OneChannel!RefreshObservedBotChatMetadata(owner, at) => seen' \in SeenRow
<1>1. seen \in SeenRow /\ [active |-> TRUE, owner |-> owner, at |-> at] \in SeenRow
  BY DEF ChannelInv, DatesSound, SeenRow
<1>2. [active |-> TRUE, owner |-> IF seen.active THEN seen.owner ELSE Nobody, at |-> at] \in SeenRow
  BY <1>1 DEF SeenRow
<1>3. [seen EXCEPT !.owner = owner, !.at = at] \in SeenRow
  BY <1>1 DEF SeenRow
<1> QED
  BY <1>1, <1>2, <1>3, Zenon DEF OneChannel!TouchObservedBotChat, OneChannel!UpsertObservedBotChat,
     OneChannel!RefreshObservedBotChatMetadata

LEMMA InventoryKept ==
  ASSUME ChannelInv, NEW h \in Callers, NEW e \in hooks, OneChannel!MaxWebhook(h, e) PROVE ChannelInv'
<1>1. /\ e \in HookRow /\ e.at \in Nat /\ CallsSound
      /\ Nobody \in Accounts \cup {Nobody} /\ {e} \in SUBSET HookRow
  BY DEF ChannelInv, MaxSound, HookRow
<1>2. CASE OneChannel!MarkObservedBotChatRemoved(e)
  <2> DEFINE was == [seen EXCEPT !.active = FALSE, !.at = e.at]
  <2>1. was \in SeenRow
    BY <1>1 DEF ChannelInv, DatesSound, SeenRow
  <2> DEFINE off == [channel EXCEPT !.active = FALSE]
  <2>2. off \in ChannelRow /\ off.home = channel.home /\ off.owner = channel.owner /\ off.posts = channel.posts
    BY DEF ChannelInv, ChannelSound, ChannelRow
  <2>3. /\ seen' = seen \/ seen' = was
        /\ channel' = channel \/ channel' = off
        /\ UNCHANGED <<chat, hour, hooks, right, claim, pressed, errand>>
    BY <1>2 DEF OneChannel!MarkObservedBotChatRemoved, OneChannel!max
  <2> HIDE DEF was, off
  <2>4. DatesSound' /\ CallsSound'
    BY <2>1, <2>3 DEF ChannelInv, DatesSound, CallsSound, RequestSound
  <2> QED
    BY <2>2, <2>3, <2>4, CallOnly
<1>3. CASE OneChannel!ObserveMAXChat(h, e)
  <2>1. [OneChannel!Errand("observe") EXCEPT !.hook = {e}, !.at = e.at]
        = Fresh("observe", {e}, e.at, Nobody, Nobody, 0, "none")
    BY FreshIs
  <2>2. /\ OneChannel!Start(h, Fresh("observe", {e}, e.at, Nobody, Nobody, 0, "none"))
        /\ OneChannel!TouchObservedBotChat(e.at) /\ UNCHANGED <<chat, hour, hooks, channel, right, claim, pressed>>
    BY <1>3, <2>1 DEF OneChannel!ObserveMAXChat, OneChannel!max
  <2>3. CallsSound'
    BY <1>1, <2>2, NewCall
  <2>4. DatesSound'
    BY <1>1, <2>2, SeenWritten DEF ChannelInv, DatesSound
  <2> QED
    BY <2>2, <2>3, <2>4, CallOnly
<1>4. CASE OneChannel!RefreshMAXChatPermissions(h, e)
  <2>1. [OneChannel!Errand("rights") EXCEPT !.hook = {e}, !.at = e.at]
        = Fresh("rights", {e}, e.at, Nobody, Nobody, 0, "none")
    BY FreshIs
  <2>2. /\ OneChannel!Start(h, Fresh("rights", {e}, e.at, Nobody, Nobody, 0, "none"))
        /\ UNCHANGED <<chat, hour, hooks, seen, channel, right, claim, pressed>>
    BY <1>4, <2>1 DEF OneChannel!RefreshMAXChatPermissions, OneChannel!max
  <2>3. CallsSound'
    BY <1>1, <2>2, NewCall
  <2>4. DatesSound'
    BY <2>2 DEF ChannelInv, DatesSound
  <2> QED
    BY <2>2, <2>3, <2>4, CallOnly
<1> QED
  BY <1>2, <1>3, <1>4 DEF OneChannel!MaxWebhook, OneChannel!DiscoverMAXChatFromMessage

\* The calls that start without a webhook and without a claim.
LEMMA StartsKept ==
  ASSUME ChannelInv, NEW h \in Callers,
         \/ OneChannel!RefreshDiscoverableChannels(h)
         \/ \E u \in Users : \/ OneChannel!ConnectDiscoverableChannel(h, u)
                             \/ \E home \in OneChannel!Homes : OneChannel!PrepareChannelClaim(h, u, home)
  PROVE  ChannelInv'
<1>1. CallsSound /\ OneChannel!Now \in Nat /\ OneChannel!Homes = Homes /\ {} \in SUBSET HookRow
  BY DEF ChannelInv, MaxSound, OneChannel!Now, OneChannel!Homes, Homes
<1>2. UNCHANGED <<chat, hour, hooks, seen, channel, right, claim, pressed>>
  BY DEF OneChannel!RefreshDiscoverableChannels, OneChannel!ConnectDiscoverableChannel, OneChannel!PrepareChannelClaim,
     OneChannel!max
<1>3. ASSUME OneChannel!RefreshDiscoverableChannels(h) PROVE CallsSound'
  <2>1. [OneChannel!Errand("refresh") EXCEPT !.at = OneChannel!Now]
        = Fresh("refresh", {}, OneChannel!Now, Nobody, Nobody, 0, "none")
    BY FreshIs
  <2>2. OneChannel!Start(h, Fresh("refresh", {}, OneChannel!Now, Nobody, Nobody, 0, "none"))
    BY <1>3, <2>1 DEF OneChannel!RefreshDiscoverableChannels
  <2> QED
    BY <1>1, <2>2, NewCall
<1>4. ASSUME NEW u \in Users, OneChannel!ConnectDiscoverableChannel(h, u) PROVE CallsSound'
  <2>1. [OneChannel!Errand("connect") EXCEPT !.user = u, !.home = u] = Fresh("connect", {}, 0, u, u, 0, "none")
    BY FreshIs
  <2>2. OneChannel!Start(h, Fresh("connect", {}, 0, u, u, 0, "none")) /\ u \in Homes
    BY <1>4, <2>1 DEF OneChannel!ConnectDiscoverableChannel, Homes
  <2> QED
    BY <1>1, <2>2, NewCall
<1>5. ASSUME NEW u \in Users, NEW home \in Homes, OneChannel!PrepareChannelClaim(h, u, home) PROVE CallsSound'
  <2>1. [OneChannel!Errand("prepare") EXCEPT !.user = u, !.home = home] = Fresh("prepare", {}, 0, u, home, 0, "none")
    BY FreshIs
  <2>2. OneChannel!Start(h, Fresh("prepare", {}, 0, u, home, 0, "none"))
    BY <1>5, <2>1 DEF OneChannel!PrepareChannelClaim
  <2> QED
    BY <1>1, <2>2, NewCall
<1>6. CallsSound'
  <2>1. CASE \E u \in Users : OneChannel!ConnectDiscoverableChannel(h, u)
    BY <1>4, <2>1
  <2>2. CASE \E u \in Users, home \in Homes : OneChannel!PrepareChannelClaim(h, u, home)
    BY <1>5, <2>2
  <2> QED
    BY <1>1, <1>3, <2>1, <2>2
<1>7. DatesSound'
  BY <1>2 DEF ChannelInv, DatesSound
<1> QED
  BY <1>2, <1>6, <1>7, CallOnly

\* The steps of a call: a reading, what is written of it, and the check of the membership.
LEMMA ReadingsKept ==
  ASSUME ChannelInv, NEW h \in Callers, OneChannel!ReadChat(h) PROVE ChannelInv'
<1>1. /\ CallsSound /\ errand[h].pc = "read" /\ chat.owner \in Accounts /\ chat.can \in BOOLEAN
      /\ UNCHANGED <<chat, hour, hooks, seen, channel, right, claim, pressed>>
  BY DEF OneChannel!ReadChat, OneChannel!At, OneChannel!max, ChannelInv, MaxSound, ChatRow
<1>2. DatesSound'
  BY <1>1 DEF ChannelInv, DatesSound
<1>3. ASSUME chat.in PROVE CallsSound'
  <2> DEFINE pc == IF errand[h].what = "prepare" THEN "check" ELSE "write"
             e == [errand[h] EXCEPT !.pc = pc, !.owner = chat.owner, !.can = chat.can]
  <2>1. errand[h] \in CallRow /\ RequestSound(errand[h])
    BY <1>1 DEF CallsSound, OneChannel!NoErrand
  <2>2. pc \in {"check", "write"}
    OBVIOUS
  <2>3. errand' = [errand EXCEPT ![h] = e]
    BY <1>3, Zenon DEF OneChannel!ReadChat
  <2> HIDE DEF pc
  <2>4. e \in CallRow /\ e.pc = pc /\ e.what = errand[h].what /\ e.claim = errand[h].claim
    BY <1>1, <2>1, <2>2 DEF CallRow
  <2> HIDE DEF e
  <2>5. RequestSound(e)
    BY <1>1, <2>1, <2>2, <2>4 DEF RequestSound
  <2> QED
    BY <1>1, <2>3, <2>5, CallStep
<1>4. ASSUME ~chat.in PROVE CallsSound'
  BY <1>1, <1>4, CallEnds DEF OneChannel!ReadChat
<1> QED
  BY <1>1, <1>2, <1>3, <1>4, CallOnly

LEMMA WritesKept ==
  ASSUME ChannelInv, NEW h \in Callers, OneChannel!WriteSeen(h) PROVE ChannelInv'
<1>1. /\ CallsSound /\ errand[h].pc = "write" /\ UNCHANGED <<chat, hour, hooks, channel, right, claim, pressed>>
  BY DEF OneChannel!WriteSeen, OneChannel!At, OneChannel!max, ChannelInv
<1>2. errand[h] \in CallRow /\ OneChannel!Now \in Nat
  BY <1>1 DEF CallsSound, OneChannel!NoErrand, OneChannel!Now, ChannelInv, MaxSound
<1> DEFINE owner == errand[h].owner
           at == IF errand[h].what \in {"complete", "connect"} THEN OneChannel!Now ELSE errand[h].at
<1>3. owner \in Accounts \cup {Nobody} /\ at \in Nat /\ errand[h].at \in Nat
  BY <1>2 DEF CallRow
<1>4. OneChannel!RefreshObservedBotChatMetadata(owner, errand[h].at) \/ OneChannel!UpsertObservedBotChat(owner, at)
  BY DEF OneChannel!WriteSeen
<1> HIDE DEF owner, at
<1>5. DatesSound'
  BY <1>1, <1>3, <1>4, SeenWritten DEF ChannelInv, DatesSound
<1>6. CASE OneChannel!End(h)
  BY <1>1, <1>5, <1>6, CallEnds, CallOnly
<1>7. CASE errand[h].what \notin {"observe", "refresh"}
           /\ OneChannel!Go(h, IF errand[h].what \in {"rights", "prepare"} THEN "finish" ELSE "check")
  <2>1. CASE errand[h].what \in {"rights", "prepare"}
    BY <1>1, <1>5, <1>7, <2>1, CallGoes, CallOnly
  <2>2. CASE errand[h].what \notin {"rights", "prepare"}
    BY <1>1, <1>5, <1>7, <2>2, CallGoes, CallOnly
  <2> QED
    BY <2>1, <2>2
<1> QED
  BY <1>6, <1>7 DEF OneChannel!WriteSeen

LEMMA FailuresKept ==
  ASSUME ChannelInv, NEW h \in Callers, OneChannel!CallFails(h) PROVE ChannelInv'
<1>1. CallsSound' /\ DatesSound'
  BY CallEnds DEF OneChannel!CallFails, ChannelInv, DatesSound
<1> QED
  BY <1>1, CallOnly DEF OneChannel!CallFails, OneChannel!max

LEMMA RightsKept ==
  ASSUME ChannelInv, NEW h \in Callers, OneChannel!SyncMAXChannelPermissions(h) PROVE ChannelInv'
<1>1. /\ CallsSound' /\ UNCHANGED <<chat, hour, hooks, seen, channel, claim, pressed>>
  BY CallEnds DEF OneChannel!SyncMAXChannelPermissions, ChannelInv, OneChannel!max
<1>2. errand[h] \in CallRow
  BY DEF OneChannel!SyncMAXChannelPermissions, OneChannel!At, ChannelInv, CallsSound, OneChannel!NoErrand
<1> DEFINE new == [can |-> errand[h].can, at |-> errand[h].at]
<1>3. new \in [can : BOOLEAN, at : Nat]
  BY <1>2 DEF CallRow
<1>4. right' = new \/ right' = right
  BY DEF OneChannel!SyncMAXChannelPermissions
<1> HIDE DEF new
<1>5. DatesSound'
  BY <1>1, <1>3, <1>4 DEF ChannelInv, DatesSound
<1> QED
  BY <1>1, <1>5, CallOnly

----------------------------------------------------------------------------
(* The claims. *)

ClaimStatuses == {"none", "pending", "awaiting", "verified", "failed", "expired", "connected"}
\* What becomes of a row: nobody undoes a connection, and only who pressed the button verifies.
GoesTo(c, r) ==
  /\ r \in ClaimRow
  /\ r.status \in {"verified", "connected"} => <<c, "confirm">> \in pressed
  /\ claim[c].status = "connected" =>
       r.status = "connected" /\ r.home = claim[c].home /\ r.account = claim[c].account

LEMMA StatusSet ==
  ASSUME NEW r \in ClaimRow, NEW s \in ClaimStatuses
  PROVE  /\ [r EXCEPT !.status = s] \in ClaimRow /\ [r EXCEPT !.status = s].status = s
         /\ [r EXCEPT !.status = s].home = r.home /\ [r EXCEPT !.status = s].account = r.account
BY DEF ClaimRow, ClaimStatuses

LEMMA StatusGoes ==
  ASSUME ClaimsSound, NEW c \in Claims, NEW s \in ClaimStatuses, claim[c].status # "connected",
         s \in {"verified", "connected"} => <<c, "confirm">> \in pressed
  PROVE  GoesTo(c, [claim[c] EXCEPT !.status = s])
<1> DEFINE r == [claim[c] EXCEPT !.status = s]
<1>1. r \in ClaimRow /\ r.status = s
  BY StatusSet DEF ClaimsSound
<1> HIDE DEF r
<1>2. GoesTo(c, r)
  BY <1>1 DEF GoesTo
<1> QED
  BY <1>2 DEF r

LEMMA RowStays == ASSUME ClaimsSound, NEW c \in Claims PROVE GoesTo(c, claim[c])
BY DEF ClaimsSound, ClaimSound, GoesTo

LEMMA FailGoes ==
  ASSUME ClaimsSound, NEW c \in Claims, NEW u PROVE GoesTo(c, OneChannel!FailChannelClaim(c, u))
<1>1. GoesTo(c, claim[c])
  BY RowStays
<1>2. claim[c].status \in OneChannel!Open => GoesTo(c, [claim[c] EXCEPT !.status = "failed"])
  BY StatusGoes DEF OneChannel!Open, ClaimStatuses
<1> QED
  BY <1>1, <1>2, Zenon DEF OneChannel!FailChannelClaim

LEMMA ClaimsWritten ==
  ASSUME ChannelInv, UNCHANGED <<chat, hour, hooks, seen, channel, right>>, CallsSound', pressed \subseteq pressed',
         claim' \in [Claims -> ClaimRow], \A c \in Claims : GoesTo(c, claim'[c])
  PROVE  ChannelInv'
<1>1. MaxSound' /\ DatesSound'
  BY DEF ChannelInv, MaxSound, DatesSound
<1>2. ClaimsSound'
  BY DEF ClaimsSound, ClaimSound, GoesTo
<1>3. \A c \in Claims : ConnectedBy(c) => ConnectedBy(c)'
  BY DEF ConnectedBy, GoesTo
<1>4. ChannelSound'
  BY <1>3 DEF ChannelInv, ChannelSound
<1> QED
  BY <1>1, <1>2, <1>4 DEF ChannelInv

LEMMA ClaimWritten ==
  ASSUME ChannelInv, UNCHANGED <<chat, hour, hooks, seen, channel, right>>, CallsSound', pressed \subseteq pressed',
         NEW c \in Claims, NEW r, GoesTo(c, r), claim' = [claim EXCEPT ![c] = r]
  PROVE  ChannelInv'
<1>1. claim \in [Claims -> ClaimRow] /\ r \in ClaimRow
  BY DEF ChannelInv, ClaimsSound, GoesTo
<1>2. claim' \in [Claims -> ClaimRow] /\ \A d \in Claims : claim'[d] = IF d = c THEN r ELSE claim[d]
  BY <1>1
<1>3. \A d \in Claims : GoesTo(d, claim'[d])
  BY <1>2, RowStays DEF ChannelInv
<1> QED
  BY <1>2, <1>3, ClaimsWritten

LEMMA CreationKept ==
  ASSUME ChannelInv, NEW h \in Callers, OneChannel!CreateChannelClaim(h) PROVE ChannelInv'
<1>1. /\ CallsSound' /\ ClaimsSound /\ errand[h] \in CallRow
      /\ UNCHANGED <<chat, hour, hooks, seen, channel, right, pressed>>
  BY CallEnds DEF OneChannel!CreateChannelClaim, OneChannel!At, ChannelInv, CallsSound, OneChannel!NoErrand, OneChannel!max
<1>2. CASE UNCHANGED claim
  <2>1. claim' \in [Claims -> ClaimRow] /\ \A c \in Claims : GoesTo(c, claim'[c])
    BY <1>1, <1>2, RowStays DEF ClaimsSound
  <2> QED
    BY <1>1, <2>1, ClaimsWritten
<1> DEFINE new == [OneChannel!NoClaim EXCEPT !.status = "pending", !.home = errand[h].home, !.actor = errand[h].user]
           Was(d) == IF claim[d].status \in OneChannel!Open /\ claim[d].over THEN [claim[d] EXCEPT !.status = "expired"]
                     ELSE IF claim[d].status \in OneChannel!Open /\ claim[d].home = errand[h].home
                     THEN [claim[d] EXCEPT !.status = "failed"] ELSE claim[d]
<1>3. new = [status |-> "pending", home |-> errand[h].home, actor |-> errand[h].user, account |-> Nobody,
             asking |-> FALSE, over |-> FALSE]
  <2>1. ASSUME NEW e, e = new
        PROVE  e = [status |-> "pending", home |-> errand[h].home, actor |-> errand[h].user, account |-> Nobody,
                    asking |-> FALSE, over |-> FALSE]
    BY <2>1 DEF OneChannel!NoClaim
  <2> QED
    BY <2>1, Zenon
<1>4. new \in ClaimRow /\ new.status = "pending"
  BY <1>1, <1>3 DEF CallRow, ClaimRow
<1>5. \A d \in Claims : GoesTo(d, Was(d))
  <2> TAKE d \in Claims
  <2>1. GoesTo(d, claim[d])
    BY <1>1, RowStays
  <2>2. claim[d].status \in OneChannel!Open =>
          GoesTo(d, [claim[d] EXCEPT !.status = "expired"]) /\ GoesTo(d, [claim[d] EXCEPT !.status = "failed"])
    BY <1>1, StatusGoes DEF OneChannel!Open, ClaimStatuses
  <2> QED
    BY <2>1, <2>2, Zenon
<1>6. ASSUME NEW c \in Claims, claim[c].status = "none", claim' = [d \in Claims |-> IF d = c THEN new ELSE Was(d)]
      PROVE  ChannelInv'
  <2> HIDE DEF new, Was
  <2>1. GoesTo(c, new)
    BY <1>4, <1>6 DEF GoesTo
  <2>2. \A d \in Claims : claim'[d] = IF d = c THEN new ELSE Was(d)
    BY <1>6
  <2>3. \A d \in Claims : GoesTo(d, claim'[d])
    BY <1>5, <2>1, <2>2
  <2>4. claim' \in [Claims -> ClaimRow]
    BY <1>6, <2>2, <2>3 DEF GoesTo
  <2> QED
    BY <1>1, <2>3, <2>4, ClaimsWritten
<1>7. \/ UNCHANGED claim
      \/ \E c \in Claims : claim[c].status = "none" /\ claim' = [d \in Claims |-> IF d = c THEN new ELSE Was(d)]
  BY Zenon DEF OneChannel!CreateChannelClaim
<1> QED
  BY <1>2, <1>6, <1>7, Zenon

\* What happens to a claim between its creation and its completion.
LEMMA ConfirmationsKept ==
  ASSUME ChannelInv, NEW c \in Claims,
         \/ OneChannel!SendChannelClaimConfirmation(c) \/ OneChannel!ClaimExpires(c)
         \/ \E a \in Accounts : OneChannel!StartChannelClaimConfirmation(c, a)
         \/ \E button \in {"confirm", "cancel"} : OneChannel!PressButton(c, button)
  PROVE  ChannelInv'
<1>1. ClaimsSound /\ claim[c] \in ClaimRow /\ UNCHANGED <<chat, hour, hooks, seen, channel, right, errand>>
  BY DEF OneChannel!SendChannelClaimConfirmation, OneChannel!ClaimExpires, OneChannel!StartChannelClaimConfirmation,
     OneChannel!PressButton, OneChannel!max, ChannelInv, ClaimsSound
<1>2. CallsSound' /\ GoesTo(c, claim[c])
  BY <1>1, RowStays DEF ChannelInv, CallsSound, RequestSound
<1>3. CASE \E button \in {"confirm", "cancel"} : OneChannel!PressButton(c, button)
  <2>1. claim' \in [Claims -> ClaimRow] /\ \A d \in Claims : GoesTo(d, claim'[d])
    BY <1>1, <1>3, RowStays DEF OneChannel!PressButton, ClaimsSound
  <2>2. pressed \subseteq pressed'
    BY <1>3 DEF OneChannel!PressButton
  <2> QED
    BY <1>1, <1>2, <2>1, <2>2, ClaimsWritten
<1>4. CASE OneChannel!ClaimExpires(c)
  <2> DEFINE r == [claim[c] EXCEPT !.over = TRUE]
  <2>1. r \in ClaimRow /\ r.status = claim[c].status /\ r.home = claim[c].home /\ r.account = claim[c].account
    BY <1>1 DEF ClaimRow
  <2>2. claim' = [claim EXCEPT ![c] = r] /\ UNCHANGED pressed
    BY <1>4, Zenon DEF OneChannel!ClaimExpires
  <2> HIDE DEF r
  <2>3. GoesTo(c, r)
    BY <1>2, <2>1 DEF GoesTo
  <2> QED
    BY <1>1, <1>2, <2>2, <2>3, ClaimWritten
<1>5. ASSUME NEW a \in Accounts, OneChannel!StartChannelClaimConfirmation(c, a) PROVE ChannelInv'
  <2> DEFINE r == [claim[c] EXCEPT !.status = "awaiting", !.account = a, !.asking = TRUE]
             gone == [claim[c] EXCEPT !.status = "expired"]
  <2>1. r \in ClaimRow /\ r.status = "awaiting"
    BY <1>1 DEF ClaimRow
  <2>2. /\ claim[c].status = "pending" /\ UNCHANGED pressed
        /\ claim' = [claim EXCEPT ![c] = r] \/ claim' = [claim EXCEPT ![c] = gone]
    BY <1>5, Zenon DEF OneChannel!StartChannelClaimConfirmation
  <2>3. GoesTo(c, gone)
    BY <1>1, <2>2, StatusGoes DEF ClaimStatuses
  <2> HIDE DEF r, gone
  <2>4. GoesTo(c, r)
    BY <2>1, <2>2 DEF GoesTo
  <2> QED
    BY <1>1, <1>2, <2>2, <2>3, <2>4, ClaimWritten
<1>6. CASE OneChannel!SendChannelClaimConfirmation(c)
  <2> DEFINE Off(r) == [r EXCEPT !.asking = FALSE]
             failed == OneChannel!FailChannelClaim(c, claim[c].home)
  <2>1. \A r \in ClaimRow : /\ Off(r) \in ClaimRow /\ Off(r).status = r.status /\ Off(r).home = r.home
                            /\ Off(r).account = r.account
    BY DEF ClaimRow
  <2>2. GoesTo(c, failed)
    BY <1>1, FailGoes
  <2>3. \/ claim' = [claim EXCEPT ![c] = Off(failed)]
        \/ claim' = [claim EXCEPT ![c] = Off(claim[c])]
    BY <1>6, Zenon DEF OneChannel!SendChannelClaimConfirmation
  <2>4. pressed \subseteq pressed'
    BY <1>6 DEF OneChannel!SendChannelClaimConfirmation
  <2> HIDE DEF Off, failed
  <2>5. GoesTo(c, Off(failed)) /\ GoesTo(c, Off(claim[c]))
    BY <1>2, <2>1, <2>2 DEF GoesTo
  <2> QED
    BY <1>1, <1>2, <2>3, <2>4, <2>5, ClaimWritten
<1> QED
  BY <1>3, <1>4, <1>5, <1>6

LEMMA CallbacksKept ==
  ASSUME ChannelInv, NEW h \in Callers, NEW c \in Claims,
         OneChannel!HandleMessageCallback(h, c) \/ OneChannel!GetChannelClaim(h, c)
  PROVE  ChannelInv'
<1>1. CallsSound /\ ClaimsSound /\ GoesTo(c, claim[c]) /\ {} \in SUBSET HookRow
  BY RowStays DEF ChannelInv
<1>2. ASSUME NEW by \in {"callback", "poll"},
             OneChannel!Start(h, [OneChannel!Errand("complete") EXCEPT !.claim = c, !.by = by])
      PROVE  CallsSound'
  <2>1. [OneChannel!Errand("complete") EXCEPT !.claim = c, !.by = by] = Fresh("complete", {}, 0, Nobody, Nobody, c, by)
    <3>1. ASSUME NEW e, e = [OneChannel!Errand("complete") EXCEPT !.claim = c, !.by = by]
          PROVE  e = Fresh("complete", {}, 0, Nobody, Nobody, c, by)
      BY <3>1 DEF OneChannel!Errand, Fresh
    <3> QED
      BY <3>1, Zenon
  <2>2. OneChannel!Start(h, Fresh("complete", {}, 0, Nobody, Nobody, c, by))
    BY <1>2, <2>1
  <2> QED
    BY <1>1, <2>2, NewCall
<1>3. CASE <<c, "confirm">> \in pressed /\ OneChannel!ConfirmChannelClaim(h, c)
  <2> DEFINE r == [claim[c] EXCEPT !.status = "verified"]
  <2>1. /\ claim[c].status \in {"awaiting", "verified"} /\ UNCHANGED <<chat, hour, hooks, seen, channel, right, pressed>>
        /\ OneChannel!Start(h, [OneChannel!Errand("complete") EXCEPT !.claim = c, !.by = "callback"])
    BY <1>3 DEF OneChannel!ConfirmChannelClaim, OneChannel!max
  <2>2. claim' = [claim EXCEPT ![c] = r]
    BY <1>3, Zenon DEF OneChannel!ConfirmChannelClaim
  <2>3. GoesTo(c, r)
    BY <1>1, <1>3, <2>1, StatusGoes DEF ClaimStatuses
  <2> HIDE DEF r
  <2>4. CallsSound'
    BY <1>2, <2>1
  <2> QED
    BY <2>1, <2>2, <2>3, <2>4, ClaimWritten
<1>4. CASE OneChannel!CancelChannelClaim(c)
  <2> DEFINE r == [claim[c] EXCEPT !.status = "failed"]
  <2>1. claim[c].status = "awaiting" /\ UNCHANGED <<chat, hour, hooks, seen, channel, right, pressed, errand>>
    BY <1>4 DEF OneChannel!CancelChannelClaim, OneChannel!max
  <2>2. claim' = [claim EXCEPT ![c] = r]
    BY <1>4, Zenon DEF OneChannel!CancelChannelClaim
  <2>3. GoesTo(c, r)
    BY <1>1, <2>1, StatusGoes DEF ClaimStatuses
  <2> HIDE DEF r
  <2>4. CallsSound'
    BY <1>1, <2>1 DEF CallsSound, RequestSound
  <2> QED
    BY <2>1, <2>2, <2>3, <2>4, ClaimWritten
<1>5. CASE OneChannel!GetChannelClaim(h, c)
  <2> DEFINE r == [claim[c] EXCEPT !.status = "expired"]
  <2>1. /\ claim[c].status \in OneChannel!Open /\ UNCHANGED <<chat, hour, hooks, seen, channel, right, pressed>>
        /\ \/ claim' = [claim EXCEPT ![c] = r] /\ UNCHANGED errand
           \/ claim' = claim /\ OneChannel!Start(h, [OneChannel!Errand("complete") EXCEPT !.claim = c, !.by = "poll"])
    BY <1>5, Zenon DEF OneChannel!GetChannelClaim, OneChannel!max
  <2>2. GoesTo(c, r)
    BY <1>1, <2>1, StatusGoes DEF ClaimStatuses, OneChannel!Open
  <2> HIDE DEF r
  <2>3. UNCHANGED errand => CallsSound'
    BY <1>1 DEF CallsSound, RequestSound
  <2>4. CASE claim' = [claim EXCEPT ![c] = r] /\ UNCHANGED errand
    BY <2>1, <2>2, <2>3, <2>4, ClaimWritten
  <2>5. CASE claim' = claim /\ OneChannel!Start(h, [OneChannel!Errand("complete") EXCEPT !.claim = c, !.by = "poll"])
    <3>1. CallsSound'
      BY <1>2, <2>5
    <3>2. claim' \in [Claims -> ClaimRow] /\ \A d \in Claims : GoesTo(d, claim'[d])
      BY <1>1, <2>5, RowStays DEF ClaimsSound
    <3> QED
      BY <2>1, <3>1, <3>2, ClaimsWritten
  <2> QED
    BY <2>1, <2>4, <2>5
<1> QED
  BY <1>3, <1>4, <1>5 DEF OneChannel!HandleMessageCallback

LEMMA ChecksKept ==
  ASSUME ChannelInv, NEW h \in Callers, OneChannel!CheckMembership(h) PROVE ChannelInv'
<1>1. /\ CallsSound /\ ClaimsSound /\ errand[h].pc = "check"
      /\ UNCHANGED <<chat, hour, hooks, seen, channel, right, pressed>>
  BY DEF OneChannel!CheckMembership, OneChannel!At, OneChannel!max, ChannelInv
<1>2. errand[h] \in CallRow /\ RequestSound(errand[h]) /\ OneChannel!Now \in Nat
  BY <1>1 DEF CallsSound, OneChannel!NoErrand, OneChannel!Now, ChannelInv, MaxSound
<1> DEFINE owns == errand[h].owner = OneChannel!Proven(errand[h])
           e == [errand[h] EXCEPT !.pc = "write", !.at = OneChannel!Now]
           c == errand[h].claim
           who == IF errand[h].by = "callback" THEN claim[c].home ELSE claim[c].actor
           r == OneChannel!FailChannelClaim(c, who)
<1>3. e \in CallRow /\ e.pc = "write" /\ e.what = errand[h].what /\ e.claim = errand[h].claim
  BY <1>2 DEF CallRow
<1>4. \/ /\ errand[h].what = "prepare" /\ UNCHANGED claim /\ errand' = [errand EXCEPT ![h] = e]
      \/ owns /\ UNCHANGED claim /\ OneChannel!Go(h, "finish")
      \/ UNCHANGED claim /\ OneChannel!End(h)
      \/ errand[h].what = "complete" /\ claim' = [claim EXCEPT ![c] = r] /\ OneChannel!End(h)
  BY Zenon DEF OneChannel!CheckMembership
<1>5. owns /\ errand[h].what = "connect" => errand[h].owner = LinkOf(errand[h].user)
  BY DEF OneChannel!Proven
<1>6. errand[h].what = "complete" => c \in Claims
  BY <1>1, <1>2 DEF RequestSound
<1>7. errand[h].what = "complete" => GoesTo(c, r)
  BY <1>1, <1>6, FailGoes
<1> HIDE DEF e, owns, who, r
<1>8. UNCHANGED claim => claim' \in [Claims -> ClaimRow] /\ \A d \in Claims : GoesTo(d, claim'[d])
  BY <1>1, RowStays DEF ClaimsSound
<1>9. CASE errand[h].what = "prepare" /\ UNCHANGED claim /\ errand' = [errand EXCEPT ![h] = e]
  <2>1. RequestSound(e)
    BY <1>3, <1>9 DEF RequestSound
  <2>2. CallsSound'
    BY <1>1, <1>9, <2>1, CallStep
  <2> QED
    BY <1>1, <1>8, <1>9, <2>2, ClaimsWritten
<1>10. CASE owns /\ UNCHANGED claim /\ OneChannel!Go(h, "finish")
  <2>1. CallsSound'
    BY <1>1, <1>5, <1>10, CallGoes
  <2> QED
    BY <1>1, <1>8, <1>10, <2>1, ClaimsWritten
<1>11. CASE UNCHANGED claim /\ OneChannel!End(h)
  BY <1>1, <1>8, <1>11, CallEnds, ClaimsWritten
<1>12. CASE errand[h].what = "complete" /\ claim' = [claim EXCEPT ![c] = r] /\ OneChannel!End(h)
  BY <1>1, <1>6, <1>7, <1>12, CallEnds, ClaimWritten
<1> QED
  BY <1>4, <1>9, <1>10, <1>11, <1>12

\* The channel is written by who proved to own it, or has no other owner than before.
LEMMA ChannelWritten ==
  ASSUME ChannelInv, UNCHANGED <<chat, hour, hooks, seen, pressed>>, CallsSound', right' \in [can : BOOLEAN, at : Nat],
         claim' \in [Claims -> ClaimRow], \A d \in Claims : GoesTo(d, claim'[d]),
         channel' \in ChannelRow, channel'.posts \in {Nobody, channel'.home},
         channel'.home # Nobody => LinkOf(channel'.home) = channel'.owner \/ \E d \in Claims : ConnectedBy(d)'
  PROVE  ChannelInv'
<1>1. MaxSound' /\ DatesSound'
  BY DEF ChannelInv, MaxSound, DatesSound
<1>2. ClaimsSound'
  BY DEF ClaimsSound, ClaimSound, GoesTo
<1>3. ChannelSound'
  BY DEF ChannelSound
<1> QED
  BY <1>1, <1>2, <1>3 DEF ChannelInv

\* The hour in which the channel got its owner.
ConnectedSince(owner) == IF channel.home # Nobody /\ channel.owner = owner THEN channel.since ELSE hour

LEMMA ConnectionsAre ==
  ASSUME ChannelInv, NEW home \in Homes \cup {Nobody}, NEW owner \in Accounts \cup {Nobody}
  PROVE  /\ OneChannel!Connected(home, owner) \in ChannelRow
         /\ OneChannel!Connected(home, owner).home = home /\ OneChannel!Connected(home, owner).owner = owner
         /\ OneChannel!Connected(home, owner).posts = channel.posts
         /\ OneChannel!Connected(home, owner).since = ConnectedSince(owner)
<1> DEFINE n == ConnectedSince(owner)
           c1 == [channel EXCEPT !.home = home]
           c2 == [c1 EXCEPT !.owner = owner]
           c3 == [c2 EXCEPT !.active = TRUE]
           c4 == [c3 EXCEPT !.since = n]
           became == [channel EXCEPT !.home = home, !.owner = owner, !.active = TRUE, !.since = n]
<1>1. channel \in ChannelRow /\ n \in Nat
  BY DEF ChannelInv, ChannelSound, MaxSound, ChannelRow, ConnectedSince
<1>2. OneChannel!Connected(home, owner) = became
  BY DEF OneChannel!Connected, ConnectedSince
<1> HIDE DEF n
<1>3. became = c4
  BY <1>1 DEF ChannelRow
<1>4. c1 \in ChannelRow /\ c1.home = home /\ c1.posts = channel.posts
  BY <1>1 DEF ChannelRow
<1> HIDE DEF c1
<1>5. c2 \in ChannelRow /\ c2.home = home /\ c2.posts = channel.posts /\ c2.owner = owner
  BY <1>4 DEF ChannelRow
<1> HIDE DEF c2
<1>6. c3 \in ChannelRow /\ c3.home = home /\ c3.posts = channel.posts /\ c3.owner = owner
  BY <1>5 DEF ChannelRow
<1> HIDE DEF c3
<1>7. c4 \in ChannelRow /\ c4.home = home /\ c4.posts = channel.posts /\ c4.owner = owner /\ c4.since = n
  BY <1>1, <1>6 DEF ChannelRow
<1> QED
  BY <1>2, <1>3, <1>7 DEF n

LEMMA RightReset ==
  ASSUME ChannelInv, right' = IF channel.home = Nobody THEN [can |-> TRUE, at |-> 0] ELSE right
  PROVE  right' \in [can : BOOLEAN, at : Nat]
BY DEF ChannelInv, DatesSound

LEMMA CompletionsKept ==
  ASSUME ChannelInv, NEW h \in Callers, OneChannel!CompleteChannelClaim(h) PROVE ChannelInv'
<1>1. /\ CallsSound /\ CallsSound' /\ ClaimsSound /\ errand[h].pc = "finish" /\ errand[h].what = "complete"
      /\ UNCHANGED <<chat, hour, hooks, seen, pressed>>
  BY CallEnds DEF OneChannel!CompleteChannelClaim, OneChannel!At, OneChannel!max, ChannelInv
<1> DEFINE c == errand[h].claim
           home == claim[c].home
           owner == errand[h].owner
           who == IF errand[h].by = "callback" THEN claim[c].home ELSE claim[c].actor
           gone == OneChannel!FailChannelClaim(c, who)
           r == [claim[c] EXCEPT !.status = "connected"]
           became == OneChannel!Connected(home, owner)
<1>2. errand[h] \in CallRow /\ RequestSound(errand[h])
  BY <1>1 DEF CallsSound, OneChannel!NoErrand
<1>3. c \in Claims /\ claim[c] \in ClaimRow
  BY <1>1, <1>2 DEF RequestSound, ClaimsSound
<1>4. home \in Homes \cup {Nobody} /\ owner \in Accounts \cup {Nobody}
  BY <1>2, <1>3 DEF ClaimRow, CallRow
<1>5. \/ /\ claim[c].status = "verified" /\ claim[c].account = owner
         /\ channel.home \in {Nobody, home} \/ channel.posts = Nobody
         /\ channel' = became /\ claim' = [claim EXCEPT ![c] = r]
         /\ right' = IF channel.home = Nobody THEN [can |-> TRUE, at |-> 0] ELSE right
      \/ UNCHANGED <<channel, right>> /\ claim' = [claim EXCEPT ![c] = gone]
      \/ UNCHANGED <<channel, right, claim>>
  BY Zenon DEF OneChannel!CompleteChannelClaim, OneChannel!Movable
<1>6. GoesTo(c, gone)
  BY <1>1, <1>3, FailGoes
<1>7. /\ became \in ChannelRow /\ became.home = home /\ became.owner = owner /\ became.posts = channel.posts
  BY <1>4, ConnectionsAre
<1>8. claim[c].status = "verified" => GoesTo(c, r)
  BY <1>1, <1>3, StatusGoes DEF ClaimStatuses, ClaimsSound, ClaimSound
<1>9. r \in ClaimRow /\ r.status = "connected" /\ r.home = home /\ r.account = claim[c].account
  BY <1>3, StatusSet DEF ClaimStatuses
<1>10. channel.posts \in {Nobody, channel.home}
  BY DEF ChannelInv, ChannelSound
<1> HIDE DEF gone, r, became
<1>11. CASE /\ claim[c].status = "verified" /\ claim[c].account = owner
            /\ channel.home \in {Nobody, home} \/ channel.posts = Nobody
            /\ channel' = became /\ claim' = [claim EXCEPT ![c] = r]
            /\ right' = IF channel.home = Nobody THEN [can |-> TRUE, at |-> 0] ELSE right
  <2>1. claim' \in [Claims -> ClaimRow] /\ \A d \in Claims : claim'[d] = IF d = c THEN r ELSE claim[d]
    BY <1>1, <1>9, <1>11 DEF ClaimsSound
  <2>2. \A d \in Claims : GoesTo(d, claim'[d])
    BY <1>1, <1>8, <1>11, <2>1, RowStays
  <2>3. PICK d \in Claims : d = c
    BY <1>3
  <2>6. ConnectedBy(d)'
    BY <1>7, <1>9, <1>11, <2>1, <2>3 DEF ConnectedBy
  <2>4. channel'.posts \in {Nobody, channel'.home}
    BY <1>7, <1>10, <1>11
  <2>5. right' \in [can : BOOLEAN, at : Nat]
    BY <1>11, RightReset
  <2> QED
    BY <1>1, <1>3, <1>7, <1>11, <2>1, <2>2, <2>6, <2>4, <2>5, ChannelWritten
<1>12. CASE UNCHANGED <<channel, right>> /\ claim' = [claim EXCEPT ![c] = gone]
  BY <1>1, <1>3, <1>6, <1>12, ClaimWritten
<1>13. CASE UNCHANGED <<channel, right, claim>>
  <2>1. claim' \in [Claims -> ClaimRow] /\ \A d \in Claims : GoesTo(d, claim'[d])
    BY <1>1, <1>13, RowStays DEF ClaimsSound
  <2> QED
    BY <1>1, <1>13, <2>1, ClaimsWritten
<1> QED
  BY <1>5, <1>11, <1>12, <1>13

LEMMA StoresKept ==
  ASSUME ChannelInv, NEW h \in Callers, OneChannel!StoreDiscoverableChannel(h) PROVE ChannelInv'
<1>1. /\ CallsSound /\ CallsSound' /\ ClaimsSound /\ errand[h].pc = "finish" /\ errand[h].what = "connect"
      /\ UNCHANGED <<chat, hour, hooks, seen, claim, pressed>>
  BY CallEnds DEF OneChannel!StoreDiscoverableChannel, OneChannel!At, OneChannel!max, ChannelInv
<1> DEFINE user == errand[h].user
           owner == errand[h].owner
           became == OneChannel!Connected(user, owner)
<1>2. errand[h] \in CallRow /\ owner = LinkOf(user)
  BY <1>1 DEF CallsSound, RequestSound, OneChannel!NoErrand
<1>3. user \in Homes \cup {Nobody} /\ owner \in Accounts \cup {Nobody}
  BY <1>2 DEF CallRow, Homes
<1>4. became \in ChannelRow /\ became.home = user /\ became.owner = owner /\ became.posts = channel.posts
  BY <1>3, ConnectionsAre
<1>5. claim' \in [Claims -> ClaimRow] /\ \A d \in Claims : GoesTo(d, claim'[d])
  BY <1>1, RowStays DEF ClaimsSound
<1>6. channel.posts \in {Nobody, channel.home}
  BY DEF ChannelInv, ChannelSound
<1>7. \/ /\ channel.home \in {Nobody, user} /\ channel' = became
         /\ right' = IF channel.home = Nobody THEN [can |-> TRUE, at |-> 0] ELSE right
      \/ UNCHANGED <<channel, right>>
  BY Zenon DEF OneChannel!StoreDiscoverableChannel
<1> HIDE DEF became
<1>8. CASE channel.home \in {Nobody, user} /\ channel' = became
           /\ right' = IF channel.home = Nobody THEN [can |-> TRUE, at |-> 0] ELSE right
  <2>1. channel'.posts \in {Nobody, channel'.home} /\ LinkOf(channel'.home) = channel'.owner
    BY <1>2, <1>4, <1>6, <1>8
  <2>2. right' \in [can : BOOLEAN, at : Nat]
    BY <1>8, RightReset
  <2> QED
    BY <1>1, <1>4, <1>5, <1>8, <2>1, <2>2, ChannelWritten
<1>9. CASE UNCHANGED <<channel, right>>
  BY <1>1, <1>5, <1>9, ClaimsWritten
<1> QED
  BY <1>7, <1>8, <1>9

LEMMA WorkspaceKept ==
  ASSUME ChannelInv, OneChannel!WritePost \/ OneChannel!DeleteChannelContent \/ OneChannel!StaffLeaves PROVE ChannelInv'
<1>1. /\ CallsSound /\ ClaimsSound /\ UNCHANGED <<chat, hour, hooks, seen, right, claim, pressed, errand>>
  BY DEF OneChannel!WritePost, OneChannel!DeleteChannelContent, OneChannel!StaffLeaves, OneChannel!max, ChannelInv
<1>2. CallsSound' /\ right' \in [can : BOOLEAN, at : Nat]
  BY <1>1 DEF CallsSound, RequestSound, ChannelInv, DatesSound
<1>3. claim' \in [Claims -> ClaimRow] /\ \A d \in Claims : GoesTo(d, claim'[d])
  BY <1>1, RowStays DEF ClaimsSound
<1> DEFINE filled == [channel EXCEPT !.posts = channel.home]
<1>4. /\ channel \in ChannelRow /\ channel.posts \in {Nobody, channel.home}
      /\ channel.home # Nobody => LinkOf(channel.home) = channel.owner \/ \E c \in Claims : ConnectedBy(c)
  BY DEF ChannelInv, ChannelSound
<1>5. filled \in ChannelRow /\ filled.home = channel.home /\ filled.owner = channel.owner /\ filled.posts = channel.home
  BY <1>4 DEF ChannelRow
<1>6. OneChannel!NoChannel \in ChannelRow /\ OneChannel!NoChannel.home = Nobody /\ OneChannel!NoChannel.posts = Nobody
  BY DEF OneChannel!NoChannel, ChannelRow
<1>7. channel' \in {filled, OneChannel!NoChannel, channel}
  BY Zenon DEF OneChannel!WritePost, OneChannel!DeleteChannelContent, OneChannel!StaffLeaves
<1> HIDE DEF filled
<1>8. channel' \in ChannelRow /\ channel'.posts \in {Nobody, channel'.home}
  BY <1>4, <1>5, <1>6, <1>7
<1>9. channel'.home # Nobody => LinkOf(channel'.home) = channel'.owner \/ \E d \in Claims : ConnectedBy(d)'
  BY <1>1, <1>4, <1>5, <1>6, <1>7 DEF ConnectedBy
<1> QED
  BY <1>1, <1>2, <1>3, <1>8, <1>9, ChannelWritten

LEMMA ChannelStarts == ASSUME OneChannel!Init PROVE ChannelInv
<1>1. MaxSound
  BY DEF OneChannel!Init, MaxSound, ChatRow, HookRow
<1>2. DatesSound
  BY DEF OneChannel!Init, DatesSound, SeenRow
<1>3. ClaimsSound
  <2>1. OneChannel!NoClaim \in ClaimRow /\ OneChannel!NoClaim.status = "none"
    BY DEF OneChannel!NoClaim, ClaimRow
  <2> QED
    BY <2>1 DEF OneChannel!Init, ClaimsSound, ClaimSound
<1>4. CallsSound
  BY DEF OneChannel!Init, CallsSound, RequestSound, OneChannel!NoErrand
<1>5. ChannelSound
  BY DEF OneChannel!Init, ChannelSound, OneChannel!NoChannel, ChannelRow
<1> QED
  BY <1>1, <1>2, <1>3, <1>4, <1>5 DEF ChannelInv

LEMMA ChannelStutters == ASSUME ChannelInv, UNCHANGED OneChannel!channels PROVE ChannelInv'
BY DEF OneChannel!channels, ChannelInv, MaxSound, DatesSound, ClaimsSound, ClaimSound, CallsSound, RequestSound, ChannelSound,
   ConnectedBy

LEMMA ChannelStep == ASSUME ChannelInv, OneChannel!Next PROVE ChannelInv'
<1>1. CASE OneChannel!ChatChanges \/ OneChannel!MessagePosted
  BY <1>1, ChatChangesKept
<1>2. CASE OneChannel!WritePost \/ OneChannel!DeleteChannelContent \/ OneChannel!StaffLeaves
  BY <1>2, WorkspaceKept
<1>3. ASSUME NEW c \in Claims,
             \/ OneChannel!SendChannelClaimConfirmation(c) \/ OneChannel!ClaimExpires(c)
             \/ \E a \in Accounts : OneChannel!StartChannelClaimConfirmation(c, a)
             \/ \E button \in {"confirm", "cancel"} : OneChannel!PressButton(c, button)
      PROVE  ChannelInv'
  BY <1>3, ConfirmationsKept
<1>4. ASSUME NEW h \in Callers,
             \/ OneChannel!ReadChat(h) \/ OneChannel!WriteSeen(h) \/ OneChannel!CallFails(h)
             \/ OneChannel!CheckMembership(h) \/ OneChannel!SyncMAXChannelPermissions(h)
             \/ OneChannel!CreateChannelClaim(h) \/ OneChannel!CompleteChannelClaim(h)
             \/ OneChannel!StoreDiscoverableChannel(h)
      PROVE  ChannelInv'
  BY <1>4, ReadingsKept, WritesKept, FailuresKept, ChecksKept, RightsKept, CreationKept, CompletionsKept, StoresKept
<1>5. ASSUME NEW h \in Callers,
             \/ OneChannel!RefreshDiscoverableChannels(h)
             \/ \E u \in Users : \/ OneChannel!ConnectDiscoverableChannel(h, u)
                                 \/ \E home \in OneChannel!Homes : OneChannel!PrepareChannelClaim(h, u, home)
      PROVE  ChannelInv'
  BY <1>5, StartsKept
<1>6. ASSUME NEW h \in Callers, NEW e \in hooks, OneChannel!MaxWebhook(h, e) PROVE ChannelInv'
  BY <1>6, InventoryKept
<1>7. ASSUME NEW h \in Callers, NEW c \in Claims,
             OneChannel!HandleMessageCallback(h, c) \/ OneChannel!GetChannelClaim(h, c)
      PROVE  ChannelInv'
  BY <1>7, CallbacksKept
<1> QED
  BY <1>1, <1>2, <1>3, <1>4, <1>5, <1>6, <1>7, Zenon DEF OneChannel!Next

\* Every reachable state of the chat, the inventory, the claims and the calls satisfies ChannelInv
\* (internal/store/tenant.go, internal/app/app.go): a claim is verified by the button of its account,
\* and a call that connects a user's own channel found the account of this user to be the owner.
THEOREM ChannelIsSound == ChannelSpec => []ChannelInv
<1>1. OneChannel!Init => ChannelInv
  BY ChannelStarts
<1>2. ChannelInv /\ [OneChannel!Next]_(OneChannel!channels) => ChannelInv'
  BY ChannelStep, ChannelStutters
<1> QED
  BY <1>1, <1>2, PTL DEF ChannelSpec

\* A connected channel was proven by its MAX owner for this very workspace: by the button of a claim
\* that the account pressed, or by the account linked to the user; its posts are of the workspace
\* (completeChannelClaim, StoreDiscoverableChannel).
THEOREM ChannelIsProven == ChannelSpec => []OneChannel!ChannelsProven
<1>1. ChannelInv => OneChannel!ChannelsProven
  <2> SUFFICES ASSUME ChannelInv, channel.home # Nobody PROVE OneChannel!ChannelsProven
    BY DEF OneChannel!ChannelsProven
  <2>1. \A c \in Claims : ConnectedBy(c) =>
          claim[c].home = channel.home /\ claim[c].account = channel.owner /\ <<c, "confirm">> \in pressed
    BY DEF ChannelInv, ClaimsSound, ClaimSound, ConnectedBy
  <2> QED
    BY <2>1 DEF ChannelInv, ChannelSound, OneChannel!ChannelsProven
<1> QED
  BY <1>1, ChannelIsSound, PTL

SeenStands == seen'.at >= seen.at /\ (seen'.active /\ ~seen.active => seen'.at > seen.at)
RightStands == channel'.home = channel.home /\ channel.home # Nobody => right'.at >= right.at
LEMMA SeenForward ==
  ASSUME ChannelInv, NEW at \in Nat, NEW owner,
         \/ OneChannel!TouchObservedBotChat(at) \/ OneChannel!UpsertObservedBotChat(owner, at)
         \/ OneChannel!RefreshObservedBotChatMetadata(owner, at) \/ UNCHANGED seen
         \/ at >= seen.at /\ seen' = [seen EXCEPT !.active = FALSE, !.at = at]
  PROVE  SeenStands
<1>1. seen \in SeenRow /\ seen.at \in Nat /\ seen.active \in BOOLEAN
  BY DEF ChannelInv, DatesSound, SeenRow
<1>2. CASE seen' = seen
  BY <1>1, <1>2 DEF SeenStands
<1>3. ASSUME NEW o, at > seen.at \/ (at = seen.at /\ seen.active), seen' = [active |-> TRUE, owner |-> o, at |-> at]
      PROVE  SeenStands
  BY <1>1, <1>3 DEF SeenStands
<1> DEFINE moved == [seen EXCEPT !.owner = owner, !.at = at]
           off == [seen EXCEPT !.active = FALSE, !.at = at]
<1>4. moved.at = at /\ off.at = at /\ off.active = FALSE
  BY <1>1 DEF SeenRow
<1>5. \/ seen' = seen
      \/ \E o : (at > seen.at \/ (at = seen.at /\ seen.active)) /\ seen' = [active |-> TRUE, owner |-> o, at |-> at]
      \/ seen.active /\ at >= seen.at /\ seen' = moved
      \/ at >= seen.at /\ seen' = off
  BY Zenon DEF OneChannel!TouchObservedBotChat, OneChannel!UpsertObservedBotChat, OneChannel!Newer,
     OneChannel!RefreshObservedBotChatMetadata
<1> HIDE DEF moved, off
<1>6. CASE seen.active /\ at >= seen.at /\ seen' = moved
  BY <1>1, <1>4, <1>6 DEF SeenStands
<1>7. CASE at >= seen.at /\ seen' = off
  BY <1>1, <1>4, <1>7 DEF SeenStands
<1> QED
  BY <1>2, <1>3, <1>5, <1>6, <1>7

\* What is dated earlier never undoes what is dated later: a webhook the reading of a later one, a reading
\* of a chat that began earlier the one that began later (UpsertObservedBotChat, SyncMAXChannelPermissions).
THEOREM ChannelDatesStand == ChannelSpec => [][OneChannel!NothingOlderWins]_(OneChannel!channels)
<1>1. ASSUME ChannelInv, OneChannel!Next PROVE SeenStands
  <2>1. CASE UNCHANGED seen
    BY <1>1, <2>1, SeenForward
  <2>2. ASSUME NEW h \in Callers, NEW e \in hooks, OneChannel!MaxWebhook(h, e) PROVE SeenStands
    <3>1. e.at \in Nat
      BY <1>1 DEF ChannelInv, MaxSound, HookRow
    <3>2. \/ e.at >= seen.at /\ seen' = [seen EXCEPT !.active = FALSE, !.at = e.at]
          \/ UNCHANGED seen
          \/ OneChannel!TouchObservedBotChat(e.at)
      BY <2>2, Zenon DEF OneChannel!MaxWebhook, OneChannel!MarkObservedBotChatRemoved, OneChannel!ObserveMAXChat,
         OneChannel!RefreshMAXChatPermissions, OneChannel!DiscoverMAXChatFromMessage
    <3> QED
      BY <1>1, <3>1, <3>2, SeenForward, Zenon
  <2>3. ASSUME NEW h \in Callers, OneChannel!WriteSeen(h) PROVE SeenStands
    <3>1. errand[h] \in CallRow /\ OneChannel!Now \in Nat
      BY <1>1, <2>3 DEF ChannelInv, CallsSound, OneChannel!NoErrand, OneChannel!Now, MaxSound, OneChannel!WriteSeen,
         OneChannel!At
    <3>2. errand[h].at \in Nat
      BY <3>1 DEF CallRow
    <3>3. \/ OneChannel!RefreshObservedBotChatMetadata(errand[h].owner, errand[h].at)
          \/ OneChannel!UpsertObservedBotChat(errand[h].owner, OneChannel!Now)
          \/ OneChannel!UpsertObservedBotChat(errand[h].owner, errand[h].at)
      BY <2>3 DEF OneChannel!WriteSeen
    <3> QED
      BY <1>1, <3>1, <3>2, <3>3, SeenForward
  <2>4. \/ UNCHANGED seen
        \/ \E h \in Callers, e \in hooks : OneChannel!MaxWebhook(h, e)
        \/ \E h \in Callers : OneChannel!WriteSeen(h)
    BY <1>1 DEF OneChannel!Next, OneChannel!ChatChanges, OneChannel!MessagePosted, OneChannel!WritePost,
       OneChannel!DeleteChannelContent, OneChannel!StaffLeaves, OneChannel!SendChannelClaimConfirmation,
       OneChannel!ClaimExpires, OneChannel!StartChannelClaimConfirmation, OneChannel!PressButton,
       OneChannel!ReadChat, OneChannel!CallFails, OneChannel!CheckMembership, OneChannel!SyncMAXChannelPermissions,
       OneChannel!CreateChannelClaim, OneChannel!CompleteChannelClaim, OneChannel!StoreDiscoverableChannel,
       OneChannel!RefreshDiscoverableChannels, OneChannel!ConnectDiscoverableChannel, OneChannel!PrepareChannelClaim,
       OneChannel!HandleMessageCallback, OneChannel!ConfirmChannelClaim, OneChannel!CancelChannelClaim,
       OneChannel!GetChannelClaim
  <2> QED
    BY <2>1, <2>2, <2>3, <2>4
<1>2. ASSUME ChannelInv, OneChannel!Next PROVE RightStands
  <2>1. right.at \in Nat
    BY <1>2 DEF ChannelInv, DatesSound
  <2>2. CASE right' = right
    BY <2>1, <2>2 DEF RightStands
  <2>3. ASSUME NEW h \in Callers, OneChannel!SyncMAXChannelPermissions(h) PROVE RightStands
    <3>1. errand[h] \in CallRow
      BY <1>2, <2>3 DEF OneChannel!SyncMAXChannelPermissions, OneChannel!At, ChannelInv, CallsSound, OneChannel!NoErrand
    <3>2. errand[h].at \in Nat
      BY <3>1 DEF CallRow
    <3>3. right' = right \/ (right' = [can |-> errand[h].can, at |-> errand[h].at] /\ errand[h].at > right.at)
      BY <2>3 DEF OneChannel!SyncMAXChannelPermissions, OneChannel!RightNewer
    <3> QED
      BY <2>1, <2>2, <3>2, <3>3 DEF RightStands
  <2>4. CASE channel.home = Nobody
    BY <2>4 DEF RightStands
  <2>5. ASSUME NEW h \in Callers, OneChannel!CompleteChannelClaim(h) \/ OneChannel!StoreDiscoverableChannel(h)
        PROVE  right' = right \/ channel.home = Nobody
    BY <2>5, Zenon DEF OneChannel!CompleteChannelClaim, OneChannel!StoreDiscoverableChannel
  <2>6. ASSUME NEW h \in Callers, NEW e \in hooks, OneChannel!MaxWebhook(h, e) PROVE right' = right
    BY <2>6 DEF OneChannel!MaxWebhook, OneChannel!MarkObservedBotChatRemoved, OneChannel!ObserveMAXChat,
       OneChannel!RefreshMAXChatPermissions, OneChannel!DiscoverMAXChatFromMessage
  <2>7. \/ right' = right
        \/ \E h \in Callers : \/ OneChannel!CompleteChannelClaim(h) \/ OneChannel!StoreDiscoverableChannel(h)
                              \/ OneChannel!SyncMAXChannelPermissions(h)
                              \/ \E e \in hooks : OneChannel!MaxWebhook(h, e)
    BY <1>2 DEF OneChannel!Next, OneChannel!ChatChanges, OneChannel!MessagePosted, OneChannel!WritePost,
       OneChannel!DeleteChannelContent, OneChannel!StaffLeaves, OneChannel!SendChannelClaimConfirmation,
       OneChannel!ClaimExpires, OneChannel!StartChannelClaimConfirmation, OneChannel!PressButton,
       OneChannel!ReadChat, OneChannel!WriteSeen, OneChannel!CallFails, OneChannel!CheckMembership,
       OneChannel!CreateChannelClaim, OneChannel!RefreshDiscoverableChannels,
       OneChannel!ConnectDiscoverableChannel, OneChannel!PrepareChannelClaim,
       OneChannel!HandleMessageCallback, OneChannel!ConfirmChannelClaim, OneChannel!CancelChannelClaim,
       OneChannel!GetChannelClaim
  <2> QED
    BY <2>2, <2>3, <2>4, <2>5, <2>6, <2>7
<1>3. ASSUME ChannelInv, OneChannel!Next PROVE OneChannel!NothingOlderWins
  BY <1>1, <1>2, <1>3 DEF SeenStands, RightStands, OneChannel!NothingOlderWins
<1> QED
  BY <1>3, ChannelIsSound, PTL DEF ChannelSpec

----------------------------------------------------------------------------
(* A loss of the right to publish. *)

\* Nothing but messages is dated later.
Latest(at) == \A d \in hooks : d.what # "message" => d.at <= at
EventsSound ==
  /\ heard \subseteq hooks
  /\ \A e \in hooks : e.at > 0 /\ (e.what # "message" => e.at <= 2 * hour)
  /\ \A e, d \in hooks : e.what # "message" /\ d.what # "message" /\ e.at = d.at => e = d
\* Which webhook a call is about; that of the latest change has read what is still so.
Brought(e, r) == r.hook = {e} /\ r.at = e.at
TalkSound(r) ==
  /\ r.pc # "idle" /\ r.what = "rights" =>
       /\ \E e \in hooks : e.what = "rights" /\ Brought(e, r)
       /\ r.pc # "check"
       /\ r.pc = "finish" => r.at <= seen.at
       /\ r.pc # "read" /\ Latest(r.at) => r.can = chat.can /\ (2 * chat.since < r.at => r.owner = chat.owner)
  /\ r.pc # "idle" /\ r.what = "observe" => \E e \in hooks : e.what \in {"added", "message"} /\ Brought(e, r)
  /\ r.pc # "idle" /\ r.what \notin {"rights", "observe"} => r.hook = {}
TalksSound == \A h \in Callers : TalkSound(errand[h])
SeenSound == seen.active \/ seen.at = 0 \/ \E e \in hooks : e.what = "removed" /\ e.at = seen.at
RightSound ==
  /\ told \in Nat /\ (right.can \/ told > 0)
  /\ right.at = 0 \/ \E e \in hooks : e.what = "rights" /\ e.at = right.at
  /\ right.at > 0 /\ Latest(right.at) => right.can = chat.can
\* The account the channel is connected for owned the chat then, and does now.
Owned(at) == 2 * chat.since < at /\ 2 * channel.since < at /\ channel.home # Nobody /\ channel.owner = chat.owner
AnswerSound(e) ==
  /\ e.what \in {"added", "removed"} => e.at <= seen.at
  /\ e.what = "rights" /\ Latest(e.at) /\ seen.at <= e.at /\ Owned(e.at) => right.at = e.at
HeardSound == \A e \in heard : AnswerSound(e)
LossInv == EventsSound /\ TalksSound /\ SeenSound /\ RightSound /\ HeardSound

LEMMA TypesAre ==
  ASSUME ChannelInv
  PROVE  /\ seen.at \in Nat /\ seen.active \in BOOLEAN /\ right.at \in Nat /\ right.can \in BOOLEAN /\ hour \in Nat
         /\ chat.since \in Nat /\ channel.since \in Nat /\ chat.can \in BOOLEAN
         /\ \A e \in hooks : e.at \in Nat
         /\ \A h \in Callers : errand[h] \in CallRow \cup {OneChannel!NoErrand}
BY DEF ChannelInv, MaxSound, DatesSound, SeenRow, ChatRow, ChannelSound, ChannelRow, HookRow, CallsSound

LEMMA TalkMoves ==
  ASSUME ChannelInv, ChannelInv', TalksSound, UNCHANGED <<chat, hooks>>, SeenStands, NEW h \in Callers, NEW e, TalkSound(e)',
         errand' = [errand EXCEPT ![h] = e]
  PROVE  TalksSound'
<1>1. \A g \in Callers : errand'[g] = IF g = h THEN e ELSE errand[g]
  BY DEF ChannelInv, CallsSound
<1>2. seen.at \in Nat /\ seen'.at \in Nat /\ seen.at <= seen'.at
  BY TypesAre DEF SeenStands, ChannelInv, DatesSound, SeenRow
<1>3. ASSUME NEW g \in Callers, g # h PROVE TalkSound(errand[g])'
  <2>1. PICK r \in CallRow \cup {OneChannel!NoErrand} : r = errand[g]
    BY TypesAre
  <2>2. errand'[g] = r /\ TalkSound(r)
    BY <1>1, <1>3, <2>1 DEF TalksSound
  <2>3. r.pc # "idle" => r.at \in Nat
    BY DEF CallRow, OneChannel!NoErrand
  <2>4. TalkSound(r)'
    BY <1>2, <2>2, <2>3 DEF TalkSound, Latest
  <2> QED
    BY <2>2, <2>4 DEF TalkSound, Latest
<1>4. TalkSound(errand[h])'
  BY <1>1 DEF TalkSound, Latest
<1> QED
  BY <1>3, <1>4 DEF TalksSound

\* Only calls, the inventory and what is handled change.
LEMMA SeenMoves ==
  ASSUME ChannelInv, ChannelInv', LossInv, UNCHANGED <<chat, hour, hooks, right, told>>, SeenStands, SeenSound', TalksSound',
         channel'.home = channel.home, channel'.owner = channel.owner, channel'.since = channel.since,
         heard' \subseteq hooks, \A e \in heard' \ heard : AnswerSound(e)'
  PROVE  LossInv'
<1>1. seen.at \in Nat /\ seen'.at \in Nat /\ seen.at <= seen'.at /\ \A e \in hooks : e.at \in Nat
  BY TypesAre DEF SeenStands, ChannelInv, DatesSound, SeenRow
<1>2. EventsSound' /\ RightSound'
  BY DEF LossInv, EventsSound, RightSound, Latest
<1>3. ASSUME NEW e \in heard PROVE AnswerSound(e)'
  <2>1. AnswerSound(e) /\ e.at \in Nat
    BY <1>1, <1>3 DEF LossInv, HeardSound, EventsSound
  <2> QED
    BY <1>1, <2>1 DEF AnswerSound, Latest, Owned
<1>4. HeardSound'
  BY <1>3 DEF HeardSound
<1> QED
  BY <1>2, <1>4 DEF LossInv

LEMMA CallOnlyMoves ==
  ASSUME ChannelInv, ChannelInv', LossInv, UNCHANGED <<chat, hour, hooks, heard, seen, channel, right, told>>,
         NEW h \in Callers, NEW e, TalkSound(e)', errand' = [errand EXCEPT ![h] = e]
  PROVE  LossInv'
<1>1. SeenStands
  BY TypesAre DEF SeenStands
<1>2. TalksSound'
  BY <1>1, TalkMoves DEF LossInv
<1>3. SeenSound' /\ heard' \subseteq hooks
  BY DEF LossInv, SeenSound, EventsSound
<1> QED
  BY <1>1, <1>2, <1>3, SeenMoves

LEMMA IdleTalk == TalkSound(OneChannel!NoErrand)'
BY DEF TalkSound, OneChannel!NoErrand

LEMMA FreshTalk ==
  ASSUME NEW what \in {"refresh", "prepare", "complete", "connect"}, NEW at, NEW user, NEW home, NEW c, NEW by
  PROVE  TalkSound(Fresh(what, {}, at, user, home, c, by))'
BY DEF TalkSound, Fresh

LEMMA LossEnds ==
  ASSUME ChannelInv, ChannelInv', LossInv, NEW h \in Callers, OneChannel!End(h),
         UNCHANGED <<chat, hour, hooks, heard, seen, channel, right, told>>
  PROVE  LossInv'
<1>1. errand' = [errand EXCEPT ![h] = OneChannel!NoErrand]
  BY DEF OneChannel!End
<1> QED
  BY <1>1, IdleTalk, CallOnlyMoves

LEMMA LossStutters ==
  ASSUME LossInv, UNCHANGED <<chat, hour, hooks, heard, seen, channel, right, told, errand>> PROVE LossInv'
BY DEF LossInv, EventsSound, TalksSound, TalkSound, Latest, SeenSound, RightSound, HeardSound, AnswerSound, Owned

LEMMA TalkKept ==
  ASSUME ChannelInv, ChannelInv', UNCHANGED <<chat, hooks>>, SeenStands,
         NEW r \in CallRow \cup {OneChannel!NoErrand}, TalkSound(r)
  PROVE  TalkSound(r)'
<1>1. seen.at \in Nat /\ seen'.at \in Nat /\ seen.at <= seen'.at
  BY TypesAre DEF SeenStands, ChannelInv, DatesSound, SeenRow
<1>2. r.pc # "idle" => r.at \in Nat
  BY DEF CallRow, OneChannel!NoErrand
<1> QED
  BY <1>1, <1>2 DEF TalkSound, Latest

LEMMA TalksStay ==
  ASSUME ChannelInv, ChannelInv', TalksSound, UNCHANGED <<chat, hooks, errand>>, SeenStands PROVE TalksSound'
<1>1. ASSUME NEW g \in Callers PROVE TalkSound(errand[g])'
  <2>1. PICK r \in CallRow \cup {OneChannel!NoErrand} : r = errand[g]
    BY TypesAre
  <2>2. TalkSound(r)'
    BY <2>1, TalkKept DEF TalksSound
  <2> QED
    BY <2>1, <2>2 DEF TalkSound, Latest
<1> QED
  BY <1>1 DEF TalksSound

\* What happens in MAX: with a webhook of its own, or without one if only the owner changes.
LEMMA ChatMoves ==
  ASSUME ChannelInv, LossInv, UNCHANGED <<heard, seen, channel, right, told, errand>>, EventsSound',
         hooks \subseteq hooks',
         \A at \in Nat : at <= 2 * hour /\ Latest(at)' =>
           Latest(at) /\ chat'.can = chat.can /\ (2 * chat'.since < at => 2 * chat.since < at /\ chat'.owner = chat.owner)
  PROVE  LossInv'
<1>1. \A e \in hooks : e.at \in Nat /\ (e.what # "message" => e.at <= 2 * hour)
  BY TypesAre DEF LossInv, EventsSound
<1>2. ASSUME NEW g \in Callers PROVE TalkSound(errand[g])'
  <2>1. PICK r \in CallRow \cup {OneChannel!NoErrand} : r = errand[g]
    BY TypesAre
  <2>2. TalkSound(r) /\ errand'[g] = r
    BY <2>1 DEF LossInv, TalksSound
  <2>3. r.pc # "idle" /\ r.what = "rights" =>
          /\ \E e \in hooks' : e.what = "rights" /\ Brought(e, r)
          /\ r.at \in Nat /\ r.at <= 2 * hour
    BY <1>1, <2>2 DEF TalkSound, Brought
  <2>4. r.pc # "idle" /\ r.what = "rights" /\ r.pc # "read" /\ Latest(r.at)' =>
          r.can = chat'.can /\ (2 * chat'.since < r.at => r.owner = chat'.owner)
    BY <2>2, <2>3 DEF TalkSound
  <2>5. TalkSound(r)'
    BY <2>2, <2>3, <2>4 DEF TalkSound
  <2> QED
    BY <2>2, <2>5 DEF TalkSound, Latest
<1>3. SeenSound'
  BY DEF LossInv, SeenSound
<1>4. RightSound'
  <2>1. right.at = 0 \/ \E e \in hooks' : e.what = "rights" /\ e.at = right.at
    BY DEF LossInv, RightSound
  <2>2. right.at > 0 => right.at \in Nat /\ right.at <= 2 * hour
    BY <1>1, TypesAre DEF LossInv, RightSound
  <2>3. right.at > 0 /\ Latest(right.at)' => right.can = chat'.can
    BY <2>2 DEF LossInv, RightSound
  <2> QED
    BY <2>1, <2>3 DEF LossInv, RightSound, Latest
<1>5. ASSUME NEW e \in heard PROVE AnswerSound(e)'
  <2>1. AnswerSound(e) /\ e \in hooks
    BY DEF LossInv, HeardSound, EventsSound
  <2>2. e.at \in Nat /\ (e.what # "message" => e.at <= 2 * hour)
    BY <1>1, <2>1
  <2>3. e.what = "rights" /\ Latest(e.at)' /\ Owned(e.at)' => Latest(e.at) /\ Owned(e.at)
    BY <2>2 DEF Owned
  <2> QED
    BY <2>1, <2>2, <2>3 DEF AnswerSound
<1>6. TalksSound' /\ HeardSound'
  BY <1>2, <1>5 DEF TalksSound, HeardSound
<1> QED
  BY <1>3, <1>4, <1>6 DEF LossInv

LEMMA EventNew ==
  ASSUME ChannelInv, EventsSound, NEW n, hooks' = hooks \cup {n}, n.at \in Nat, n.at > 0, UNCHANGED heard, hour' \in Nat,
         hour <= hour', n.what # "message" => 2 * hour < n.at /\ n.at <= 2 * hour'
  PROVE  EventsSound'
<1>1. \A e \in hooks : e.at \in Nat /\ e.at > 0 /\ (e.what # "message" => e.at <= 2 * hour)
  BY TypesAre DEF EventsSound
<1>2. hour \in Nat
  BY TypesAre
<1>3. \A e \in hooks' : e.at > 0 /\ (e.what # "message" => e.at <= 2 * hour')
  BY <1>1, <1>2
<1>4. \A e, d \in hooks' : e.what # "message" /\ d.what # "message" /\ e.at = d.at => e = d
  <2>1. \A e \in hooks : e.what # "message" /\ n.what # "message" => e.at # n.at
    BY <1>1, <1>2
  <2> QED
    BY <2>1 DEF EventsSound
<1> QED
  BY <1>3, <1>4 DEF EventsSound

LEMMA ChatLoss ==
  ASSUME ChannelInv, LossInv, OneChannel!ChatChanges \/ OneChannel!MessagePosted PROVE LossInv'
<1>1. UNCHANGED <<heard, seen, channel, right, told, errand>>
  BY DEF OneChannel!ChatChanges, OneChannel!MessagePosted
<1>2. hour \in Nat /\ EventsSound /\ \A e \in hooks : e.at \in Nat
  BY TypesAre DEF LossInv
<1>3. CASE OneChannel!MessagePosted
  <2> DEFINE n == [what |-> "message", at |-> OneChannel!Now]
  <2>1. hooks' = hooks \cup {n} /\ UNCHANGED <<chat, hour>>
    BY <1>3 DEF OneChannel!MessagePosted
  <2>2. n.what = "message" /\ n.at \in Nat /\ n.at > 0
    BY <1>2 DEF OneChannel!Now
  <2> HIDE DEF n
  <2>3. EventsSound'
    BY <1>1, <1>2, <2>1, <2>2, EventNew
  <2>4. \A at \in Nat : Latest(at)' => Latest(at)
    BY <2>1 DEF Latest
  <2> QED
    BY <1>1, <2>1, <2>3, <2>4, ChatMoves
<1>4. ASSUME NEW after, NEW what \in {"added", "removed", "rights"}, OneChannel!Changed(after, what) PROVE LossInv'
  <2> DEFINE n == [what |-> what, at |-> 2 * hour']
  <2>1. hooks' = hooks \cup {n} /\ hour' = hour + 1
    BY <1>4 DEF OneChannel!Changed
  <2>2. n.what # "message" /\ n.at = 2 * hour + 2
    BY <1>2, <2>1
  <2> HIDE DEF n
  <2>3. EventsSound'
    BY <1>1, <1>2, <2>1, <2>2, EventNew
  <2>4. \A at \in Nat : at <= 2 * hour => ~Latest(at)'
    BY <1>2, <2>1, <2>2 DEF Latest
  <2> QED
    BY <1>1, <2>1, <2>3, <2>4, ChatMoves
<1>5. ASSUME NEW a \in Accounts, OneChannel!Changed([chat EXCEPT !.owner = a, !.since = hour + 1], "none") PROVE LossInv'
  <2>1. hooks' = hooks /\ hour' = hour + 1
    BY <1>5 DEF OneChannel!Changed
  <2>2. chat'.can = chat.can /\ chat'.since = hour + 1
    BY <1>5 DEF OneChannel!Changed, ChannelInv, MaxSound, ChatRow
  <2>3. EventsSound'
    BY <1>1, <1>2, <2>1 DEF EventsSound
  <2>4. \A at \in Nat : at <= 2 * hour => ~(2 * chat'.since < at) /\ (Latest(at)' => Latest(at))
    BY <1>2, <2>1, <2>2 DEF Latest
  <2> QED
    BY <1>1, <2>1, <2>2, <2>3, <2>4, ChatMoves
<1>6. CASE OneChannel!ChatChanges
  <2>1. \/ \E can \in BOOLEAN : OneChannel!Changed([chat EXCEPT !.in = TRUE, !.can = can], "added")
        \/ OneChannel!Changed([chat EXCEPT !.in = FALSE, !.can = FALSE], "removed")
        \/ OneChannel!Changed([chat EXCEPT !.can = ~@], "rights")
        \/ \E a \in Accounts : OneChannel!Changed([chat EXCEPT !.owner = a, !.since = hour + 1], "none")
    BY <1>6, Zenon DEF OneChannel!ChatChanges
  <2> QED
    BY <1>4, <1>5, <2>1, Zenon
<1> QED
  BY <1>3, <1>6

LEMMA StartsLoss ==
  ASSUME ChannelInv, ChannelInv', LossInv, NEW h \in Callers,
         NEW what \in {"refresh", "prepare", "complete", "connect"}, NEW at, NEW user, NEW home, NEW c, NEW by,
         OneChannel!Start(h, Fresh(what, {}, at, user, home, c, by)),
         UNCHANGED <<chat, hour, hooks, heard, seen, channel, right, told>>
  PROVE  LossInv'
<1> DEFINE e == Fresh(what, {}, at, user, home, c, by)
<1>1. TalkSound(e)' /\ errand' = [errand EXCEPT ![h] = e]
  BY FreshTalk DEF OneChannel!Start
<1> HIDE DEF e
<1> QED
  BY <1>1, CallOnlyMoves

LEMMA HookTalk ==
  ASSUME NEW e \in hooks'
  PROVE  /\ e.what \in {"added", "message"} => TalkSound(Fresh("observe", {e}, e.at, Nobody, Nobody, 0, "none"))'
         /\ e.what = "rights" => TalkSound(Fresh("rights", {e}, e.at, Nobody, Nobody, 0, "none"))'
BY DEF TalkSound, Fresh, Brought

LEMMA RequestsLoss ==
  ASSUME ChannelInv, ChannelInv', LossInv, NEW h \in Callers,
         \/ OneChannel!RefreshDiscoverableChannels(h)
         \/ \E u \in Users : \/ OneChannel!ConnectDiscoverableChannel(h, u)
                             \/ \E home \in OneChannel!Homes : OneChannel!PrepareChannelClaim(h, u, home)
         \/ \E c \in Claims : OneChannel!HandleMessageCallback(h, c) \/ OneChannel!GetChannelClaim(h, c)
  PROVE  LossInv'
<1>1. UNCHANGED <<chat, hour, hooks, heard, seen, channel, right, told>>
  BY DEF OneChannel!RefreshDiscoverableChannels, OneChannel!ConnectDiscoverableChannel, OneChannel!PrepareChannelClaim,
     OneChannel!HandleMessageCallback, OneChannel!ConfirmChannelClaim, OneChannel!CancelChannelClaim,
     OneChannel!GetChannelClaim, OneChannel!max
<1>2. ASSUME OneChannel!RefreshDiscoverableChannels(h) PROVE LossInv'
  <2>1. OneChannel!Start(h, Fresh("refresh", {}, OneChannel!Now, Nobody, Nobody, 0, "none"))
    <3>1. [OneChannel!Errand("refresh") EXCEPT !.at = OneChannel!Now]
          = Fresh("refresh", {}, OneChannel!Now, Nobody, Nobody, 0, "none")
      BY FreshIs
    <3> QED
      BY <1>2, <3>1 DEF OneChannel!RefreshDiscoverableChannels
  <2> QED
    BY <1>1, <2>1, StartsLoss
<1>3. ASSUME NEW u \in Users, OneChannel!ConnectDiscoverableChannel(h, u) PROVE LossInv'
  <2>1. OneChannel!Start(h, Fresh("connect", {}, 0, u, u, 0, "none"))
    BY <1>3, FreshIs DEF OneChannel!ConnectDiscoverableChannel
  <2> QED
    BY <1>1, <2>1, StartsLoss
<1>4. ASSUME NEW u \in Users, NEW home, OneChannel!PrepareChannelClaim(h, u, home) PROVE LossInv'
  <2>1. OneChannel!Start(h, Fresh("prepare", {}, 0, u, home, 0, "none"))
    BY <1>4, FreshIs DEF OneChannel!PrepareChannelClaim
  <2> QED
    BY <1>1, <2>1, StartsLoss
<1>5. ASSUME NEW c \in Claims, OneChannel!HandleMessageCallback(h, c) \/ OneChannel!GetChannelClaim(h, c) PROVE LossInv'
  <2>1. \A by : [OneChannel!Errand("complete") EXCEPT !.claim = c, !.by = by] = Fresh("complete", {}, 0, Nobody, Nobody, c, by)
    <3>1. ASSUME NEW by, NEW e, e = [OneChannel!Errand("complete") EXCEPT !.claim = c, !.by = by]
          PROVE  e = Fresh("complete", {}, 0, Nobody, Nobody, c, by)
      BY <3>1 DEF OneChannel!Errand, Fresh
    <3> QED
      BY <3>1, Zenon
  <2>2. \/ UNCHANGED errand
        \/ \E by : OneChannel!Start(h, Fresh("complete", {}, 0, Nobody, Nobody, c, by))
    <3>1. \/ UNCHANGED errand
          \/ \E by : OneChannel!Start(h, [OneChannel!Errand("complete") EXCEPT !.claim = c, !.by = by])
      BY <1>5, Zenon DEF OneChannel!HandleMessageCallback, OneChannel!ConfirmChannelClaim, OneChannel!CancelChannelClaim,
         OneChannel!GetChannelClaim
    <3> QED
      BY <2>1, <3>1
  <2> QED
    BY <1>1, <2>2, StartsLoss, LossStutters
<1> QED
  BY <1>2, <1>3, <1>4, <1>5

LEMMA UpsertReaches ==
  ASSUME ChannelInv, NEW at \in Nat, NEW owner, OneChannel!UpsertObservedBotChat(owner, at)
  PROVE  SeenStands /\ seen'.at >= at /\ (seen'.active \/ UNCHANGED seen)
<1>1. SeenStands
  BY SeenForward
<1>2. seen.at \in Nat /\ seen.active \in BOOLEAN
  BY TypesAre
<1> QED
  BY <1>1, <1>2 DEF OneChannel!UpsertObservedBotChat, OneChannel!Newer, SeenStands

LEMMA SeenSoundKept ==
  ASSUME SeenSound, UNCHANGED hooks, seen'.active \/ UNCHANGED seen PROVE SeenSound'
BY DEF SeenSound

LEMMA WebhookLoss ==
  ASSUME ChannelInv, ChannelInv', LossInv, NEW h \in Callers, NEW e \in hooks, OneChannel!MaxWebhook(h, e) PROVE LossInv'
<1>1. /\ e.at \in Nat /\ e.at > 0 /\ UNCHANGED <<chat, hour, hooks, right, told>>
      /\ channel'.home = channel.home /\ channel'.owner = channel.owner /\ channel'.since = channel.since
      /\ EventsSound /\ TalksSound /\ SeenSound
  <2>1. e.at \in Nat /\ e.at > 0
    BY TypesAre DEF LossInv, EventsSound
  <2>2. UNCHANGED <<chat, hour, hooks, right, told>>
    BY DEF OneChannel!MaxWebhook, OneChannel!MarkObservedBotChatRemoved, OneChannel!ObserveMAXChat, OneChannel!max,
       OneChannel!RefreshMAXChatPermissions, OneChannel!DiscoverMAXChatFromMessage
  <2> DEFINE off == [channel EXCEPT !.active = FALSE]
  <2>3. off.home = channel.home /\ off.owner = channel.owner /\ off.since = channel.since
    BY DEF ChannelInv, ChannelSound, ChannelRow
  <2>4. channel' = channel \/ channel' = off
    BY DEF OneChannel!MaxWebhook, OneChannel!MarkObservedBotChatRemoved, OneChannel!ObserveMAXChat,
       OneChannel!RefreshMAXChatPermissions, OneChannel!DiscoverMAXChatFromMessage
  <2> HIDE DEF off
  <2> QED
    BY <2>1, <2>2, <2>3, <2>4 DEF LossInv
<1>2. CASE e.what \in {"added", "message"} /\ OneChannel!ObserveMAXChat(h, e)
  <2> DEFINE f == Fresh("observe", {e}, e.at, Nobody, Nobody, 0, "none")
  <2>1. errand' = [errand EXCEPT ![h] = f] /\ UNCHANGED heard
    BY <1>2, FreshIs DEF OneChannel!ObserveMAXChat, OneChannel!Start
  <2>2. TalkSound(f)'
    BY <1>1, <1>2, HookTalk
  <2> HIDE DEF f
  <2>3. OneChannel!TouchObservedBotChat(e.at)
    BY <1>2 DEF OneChannel!ObserveMAXChat
  <2>4. SeenStands /\ SeenSound'
    BY <1>1, <2>3, SeenForward, SeenSoundKept DEF OneChannel!TouchObservedBotChat
  <2>5. TalksSound'
    BY <1>1, <2>1, <2>2, <2>4, TalkMoves
  <2>6. heard' \subseteq hooks /\ heard' \ heard = {}
    BY <1>1, <2>1 DEF EventsSound
  <2> QED
    BY <1>1, <2>4, <2>5, <2>6, SeenMoves
<1>3. CASE e.what = "removed" /\ OneChannel!MarkObservedBotChatRemoved(e)
  <2> DEFINE was == [seen EXCEPT !.active = FALSE, !.at = e.at]
  <2>1. was.at = e.at
    BY DEF ChannelInv, DatesSound, SeenRow
  <2>2. /\ UNCHANGED errand /\ heard' = heard \cup {e}
        /\ (e.at >= seen.at /\ seen' = was) \/ (~(e.at >= seen.at) /\ UNCHANGED seen)
    BY <1>3, Zenon DEF OneChannel!MarkObservedBotChatRemoved
  <2>3. SeenStands
    BY <1>1, <2>2, SeenForward
  <2> HIDE DEF was
  <2>4. SeenSound' /\ e.at <= seen'.at
    <3>1. CASE seen' = was
      BY <1>1, <1>3, <2>1, <3>1 DEF SeenSound
    <3>2. CASE ~(e.at >= seen.at) /\ UNCHANGED seen
      BY <1>1, <3>2, TypesAre DEF SeenSound
    <3> QED
      BY <2>2, <3>1, <3>2
  <2>5. TalksSound'
    BY <1>1, <2>2, <2>3, TalksStay
  <2>6. AnswerSound(e)'
    BY <1>3, <2>4 DEF AnswerSound
  <2>7. heard' \subseteq hooks /\ \A d \in heard' \ heard : AnswerSound(d)'
    BY <1>1, <2>2, <2>6 DEF EventsSound
  <2> QED
    BY <1>1, <2>3, <2>4, <2>5, <2>7, SeenMoves
<1>4. CASE e.what = "rights" /\ OneChannel!RefreshMAXChatPermissions(h, e)
  <2> DEFINE f == Fresh("rights", {e}, e.at, Nobody, Nobody, 0, "none")
  <2>1. errand' = [errand EXCEPT ![h] = f] /\ UNCHANGED <<heard, seen, channel>>
    BY <1>4, FreshIs DEF OneChannel!RefreshMAXChatPermissions, OneChannel!Start
  <2>2. TalkSound(f)'
    BY <1>1, <1>4, HookTalk
  <2> HIDE DEF f
  <2> QED
    BY <1>1, <2>1, <2>2, CallOnlyMoves
<1> QED
  BY <1>2, <1>3, <1>4 DEF OneChannel!MaxWebhook, OneChannel!DiscoverMAXChatFromMessage

LEMMA ReadingsLoss ==
  ASSUME ChannelInv, ChannelInv', LossInv, NEW h \in Callers, OneChannel!ReadChat(h) PROVE LossInv'
<1>1. errand[h].pc = "read" /\ UNCHANGED <<chat, hour, hooks, heard, seen, channel, right, told>>
  BY DEF OneChannel!ReadChat, OneChannel!At, OneChannel!max
<1>2. CASE OneChannel!End(h)
  BY <1>1, <1>2, LossEnds
<1>3. PICK r \in CallRow : r = errand[h]
  BY <1>1, TypesAre DEF OneChannel!NoErrand
<1> DEFINE pc == IF r.what = "prepare" THEN "check" ELSE "write"
<1>4. CASE chat.in
  <2>1. PICK can \in BOOLEAN, owner \in Accounts : can = chat.can /\ owner = chat.owner
    BY DEF ChannelInv, MaxSound, ChatRow
  <2> DEFINE e1 == [r EXCEPT !.pc = pc]
             e2 == [e1 EXCEPT !.owner = owner]
             e == [e2 EXCEPT !.can = can]
  <2>2. errand' = [errand EXCEPT ![h] = [r EXCEPT !.pc = pc, !.owner = owner, !.can = can]]
    BY <1>3, <1>4, <2>1, Zenon DEF OneChannel!ReadChat
  <2>3. pc \in {"check", "write"} /\ (pc = "check" => r.what = "prepare")
    OBVIOUS
  <2> HIDE DEF pc
  <2>4. [r EXCEPT !.pc = pc, !.owner = owner, !.can = can] = e
    BY DEF CallRow
  <2>5. e1 \in CallRow /\ e1.pc = pc /\ e1.what = r.what /\ e1.hook = r.hook /\ e1.at = r.at
    BY <2>3 DEF CallRow
  <2> HIDE DEF e1
  <2>6. e2 \in CallRow /\ e2.pc = pc /\ e2.what = r.what /\ e2.hook = r.hook /\ e2.at = r.at /\ e2.owner = owner
    BY <2>5 DEF CallRow
  <2> HIDE DEF e2
  <2>7. e.pc = pc /\ e.what = r.what /\ e.hook = r.hook /\ e.at = r.at /\ e.owner = owner /\ e.can = can
    BY <2>6 DEF CallRow
  <2> HIDE DEF e
  <2>8. TalkSound(r) /\ r.pc = "read"
    BY <1>1, <1>3 DEF LossInv, TalksSound
  <2>9. TalkSound(e)'
    BY <1>1, <2>1, <2>3, <2>7, <2>8 DEF TalkSound, Brought
  <2>10. errand' = [errand EXCEPT ![h] = e]
    BY <2>2, <2>4
  <2> QED
    BY <1>1, <2>9, <2>10, CallOnlyMoves
<1> QED
  BY <1>2, <1>4 DEF OneChannel!ReadChat

\* A call that has read the chat goes on.
LEMMA TalkGoes ==
  ASSUME UNCHANGED <<chat, hooks>>, NEW r \in CallRow, TalkSound(r), r.pc # "read", NEW pc \in {"write", "check", "finish"},
         r.what = "rights" => pc = "finish" /\ r.at <= seen'.at
  PROVE  TalkSound([r EXCEPT !.pc = pc])'
<1>1. PICK e : e = [r EXCEPT !.pc = pc]
  OBVIOUS
<1>2. /\ e.pc = pc /\ e.what = r.what /\ e.hook = r.hook /\ e.at = r.at /\ e.owner = r.owner /\ e.can = r.can
      /\ r.pc # "idle"
  BY <1>1 DEF CallRow
<1>3. TalkSound(e)'
  BY <1>2 DEF TalkSound, Brought, Latest
<1> QED
  BY <1>1, <1>3 DEF TalkSound, Brought, Latest

LEMMA WritesLoss ==
  ASSUME ChannelInv, ChannelInv', LossInv, NEW h \in Callers, OneChannel!WriteSeen(h) PROVE LossInv'
<1>1. /\ errand[h].pc = "write" /\ UNCHANGED <<chat, hour, hooks, channel, right, told>>
      /\ EventsSound /\ TalksSound /\ SeenSound /\ OneChannel!Now \in Nat
  BY TypesAre DEF OneChannel!WriteSeen, OneChannel!At, OneChannel!max, LossInv, OneChannel!Now
<1>2. PICK r \in CallRow : r = errand[h]
  BY <1>1, TypesAre DEF OneChannel!NoErrand
<1>3. TalkSound(r) /\ r.at \in Nat /\ r.pc = "write"
  BY <1>1, <1>2 DEF TalksSound, CallRow
<1>4. \/ r.what = "refresh" /\ OneChannel!RefreshObservedBotChatMetadata(r.owner, r.at)
      \/ r.what # "refresh" /\ \E at \in Nat : OneChannel!UpsertObservedBotChat(r.owner, at)
                                               /\ (r.what \in {"observe", "rights"} => at = r.at)
  BY <1>1, <1>2, <1>3 DEF OneChannel!WriteSeen
<1>5. SeenStands /\ (seen'.active \/ UNCHANGED seen) /\ (r.what \in {"observe", "rights"} => r.at <= seen'.at)
  <2>1. CASE r.what = "refresh" /\ OneChannel!RefreshObservedBotChatMetadata(r.owner, r.at)
    <3>1. SeenStands
      BY <1>3, <2>1, SeenForward
    <3> DEFINE moved == [seen EXCEPT !.owner = r.owner, !.at = r.at]
    <3>2. moved.active = seen.active
      BY DEF ChannelInv, DatesSound, SeenRow
    <3>3. (seen.active /\ seen' = moved) \/ UNCHANGED seen
      BY <2>1 DEF OneChannel!RefreshObservedBotChatMetadata
    <3> HIDE DEF moved
    <3> QED
      BY <2>1, <3>1, <3>2, <3>3
  <2>2. ASSUME NEW at \in Nat, OneChannel!UpsertObservedBotChat(r.owner, at), r.what \in {"observe", "rights"} => at = r.at
        PROVE  SeenStands /\ (seen'.active \/ UNCHANGED seen) /\ (r.what \in {"observe", "rights"} => r.at <= seen'.at)
    <3>1. seen'.at \in Nat
      BY DEF ChannelInv, DatesSound, SeenRow
    <3> QED
      BY <2>2, <3>1, UpsertReaches
  <2> QED
    BY <1>4, <2>1, <2>2
<1>6. SeenSound'
  BY <1>1, <1>5, SeenSoundKept
<1>7. CASE r.what \in {"observe", "refresh"} /\ OneChannel!End(h) /\ heard' = OneChannel!Heard(h)
  <2>1. TalksSound'
    BY <1>1, <1>5, <1>7, IdleTalk, TalkMoves DEF OneChannel!End
  <2>2. r.what = "refresh" => heard' = heard
    BY <1>2, <1>3, <1>7 DEF TalkSound, OneChannel!Heard
  <2>3. ASSUME r.what = "observe" PROVE heard' \subseteq hooks /\ \A e \in heard' \ heard : AnswerSound(e)'
    <3>1. PICK e \in hooks : e.what \in {"added", "message"} /\ Brought(e, r)
      BY <1>3, <2>3 DEF TalkSound
    <3>2. heard' = heard \cup {e}
      BY <1>2, <1>7, <3>1 DEF Brought, OneChannel!Heard
    <3>3. AnswerSound(e)'
      BY <1>5, <2>3, <3>1 DEF Brought, AnswerSound
    <3> QED
      BY <1>1, <3>2, <3>3 DEF EventsSound
  <2>4. heard' \subseteq hooks /\ \A e \in heard' \ heard : AnswerSound(e)'
    <3>1. CASE r.what = "refresh"
      <4>1. heard' \subseteq hooks /\ heard' \ heard = {}
        BY <1>1, <2>2, <3>1 DEF EventsSound
      <4> QED
        BY <4>1
    <3> QED
      BY <1>7, <2>3, <3>1
  <2> QED
    BY <1>1, <1>5, <1>6, <2>1, <2>4, SeenMoves
<1>8. ASSUME NEW pc \in {"finish", "check"}, r.what = "rights" => pc = "finish", OneChannel!Go(h, pc), UNCHANGED heard
      PROVE  LossInv'
  <2>1. TalkSound([r EXCEPT !.pc = pc])'
    BY <1>1, <1>3, <1>5, <1>8, TalkGoes
  <2>2. errand' = [errand EXCEPT ![h] = [r EXCEPT !.pc = pc]]
    BY <1>2, <1>8 DEF OneChannel!Go
  <2>3. TalksSound'
    BY <1>1, <1>5, <2>1, <2>2, TalkMoves
  <2>4. heard' \subseteq hooks /\ heard' \ heard = {}
    BY <1>1, <1>8 DEF EventsSound
  <2> QED
    BY <1>1, <1>5, <1>6, <2>3, <2>4, SeenMoves
<1>9. \/ r.what \in {"observe", "refresh"} /\ OneChannel!End(h) /\ heard' = OneChannel!Heard(h)
      \/ \E pc \in {"finish", "check"} : (r.what = "rights" => pc = "finish") /\ OneChannel!Go(h, pc) /\ UNCHANGED heard
  BY <1>2, Zenon DEF OneChannel!WriteSeen
<1> QED
  BY <1>7, <1>8, <1>9

LEMMA ChecksLoss ==
  ASSUME ChannelInv, ChannelInv', LossInv, NEW h \in Callers,
         OneChannel!CheckMembership(h) \/ OneChannel!CallFails(h) \/ OneChannel!CreateChannelClaim(h)
  PROVE  LossInv'
<1>1. UNCHANGED <<chat, hour, hooks, heard, seen, channel, right, told>>
  BY DEF OneChannel!CheckMembership, OneChannel!CallFails, OneChannel!CreateChannelClaim, OneChannel!max
<1>2. CASE OneChannel!End(h)
  BY <1>1, <1>2, LossEnds
<1>3. CASE OneChannel!CheckMembership(h) /\ ~OneChannel!End(h)
  <2>1. errand[h].pc = "check"
    BY <1>3 DEF OneChannel!CheckMembership, OneChannel!At
  <2>2. PICK r \in CallRow : r = errand[h]
    BY <2>1, TypesAre DEF OneChannel!NoErrand
  <2>3. TalkSound(r) /\ r.pc = "check" /\ r.what # "rights"
    BY <2>1, <2>2 DEF LossInv, TalksSound, TalkSound
  <2>4. PICK now : now = OneChannel!Now
    OBVIOUS
  <2> DEFINE e == [r EXCEPT !.pc = "write", !.at = now]
  <2>5. \/ r.what = "prepare" /\ errand' = [errand EXCEPT ![h] = e]
        \/ OneChannel!Go(h, "finish")
    BY <1>3, <2>2, <2>4, Zenon DEF OneChannel!CheckMembership
  <2>6. e.pc = "write" /\ e.what = r.what /\ e.hook = r.hook
    BY DEF CallRow
  <2>7. r.what = "prepare" => TalkSound(e)'
    <3> HIDE DEF e
    <3> QED
      BY <2>3, <2>6 DEF TalkSound
  <2>8. TalkSound([r EXCEPT !.pc = "finish"])'
    BY <1>1, <2>3, TalkGoes
  <2>9. OneChannel!Go(h, "finish") => errand' = [errand EXCEPT ![h] = [r EXCEPT !.pc = "finish"]]
    BY <2>2 DEF OneChannel!Go
  <2> HIDE DEF e
  <2> QED
    BY <1>1, <2>5, <2>7, <2>8, <2>9, CallOnlyMoves
<1> QED
  BY <1>2, <1>3 DEF OneChannel!CallFails, OneChannel!CreateChannelClaim

\* The webhook of a lost right is heard: it is the latest of the channel, or a later one was.
LEMMA RightsLoss ==
  ASSUME ChannelInv, ChannelInv', LossInv, NEW h \in Callers, OneChannel!SyncMAXChannelPermissions(h) PROVE LossInv'
<1>1. /\ errand[h].pc = "finish" /\ errand[h].what = "rights" /\ UNCHANGED <<chat, hour, hooks, seen, channel>>
      /\ errand' = [errand EXCEPT ![h] = OneChannel!NoErrand]
      /\ EventsSound /\ TalksSound /\ SeenSound /\ RightSound /\ HeardSound
  BY DEF OneChannel!SyncMAXChannelPermissions, OneChannel!At, OneChannel!End, OneChannel!max, LossInv
<1>2. PICK r \in CallRow : r = errand[h]
  BY <1>1, TypesAre DEF OneChannel!NoErrand
<1>3. TalkSound(r)
  BY <1>1, <1>2 DEF TalksSound
<1>4. PICK d \in hooks : d.what = "rights" /\ Brought(d, r)
  BY <1>1, <1>2, <1>3 DEF TalkSound
<1>5. /\ d.at \in Nat /\ d.at > 0 /\ r.at = d.at /\ d.at <= seen.at /\ seen.at \in Nat /\ right.at \in Nat /\ r.can \in BOOLEAN
      /\ Latest(d.at) => r.can = chat.can /\ (2 * chat.since < d.at => r.owner = chat.owner)
  BY <1>1, <1>2, <1>3, <1>4, TypesAre DEF EventsSound, TalkSound, Brought, CallRow
<1>6. heard' = heard \cup {d}
  BY <1>2, <1>4 DEF OneChannel!SyncMAXChannelPermissions, OneChannel!Heard, Brought
<1> DEFINE Goes == seen.active /\ seen.at <= d.at /\ channel.home # Nobody /\ channel.owner = r.owner /\ d.at > right.at
<1>7. \/ Goes /\ right' = [can |-> r.can, at |-> d.at] /\ told' = IF ~r.can /\ right.can THEN d.at ELSE told
      \/ ~Goes /\ UNCHANGED <<right, told>>
  BY <1>2, <1>5 DEF OneChannel!SyncMAXChannelPermissions, OneChannel!RightNewer
<1>8. EventsSound' /\ SeenSound' /\ TalksSound'
  <2>1. SeenStands
    BY <1>1, TypesAre DEF SeenStands
  <2>2. TalksSound'
    BY <1>1, <2>1, IdleTalk, TalkMoves
  <2> QED
    BY <1>1, <1>6, <2>2 DEF EventsSound, SeenSound
<1>9. RightSound'
  <2>1. CASE Goes /\ right' = [can |-> r.can, at |-> d.at] /\ told' = IF ~r.can /\ right.can THEN d.at ELSE told
    <3>1. right'.can = r.can /\ right'.at = d.at
      BY <2>1
    <3>2. told' \in Nat /\ (right'.can \/ told' > 0)
      BY <1>1, <1>5, <2>1, <3>1 DEF RightSound
    <3>3. Latest(right.at)' => right'.can = chat'.can
      BY <1>1, <1>5, <3>1 DEF Latest
    <3> QED
      BY <1>1, <1>4, <3>1, <3>2, <3>3 DEF RightSound
  <2>2. CASE UNCHANGED <<right, told>>
    BY <1>1, <2>2 DEF RightSound, Latest
  <2> QED
    BY <1>7, <2>1, <2>2
<1>10. ASSUME NEW e \in heard PROVE AnswerSound(e)'
  <2>1. AnswerSound(e) /\ e \in hooks /\ e.at \in Nat
    BY <1>1, TypesAre DEF HeardSound, EventsSound
  <2>2. ASSUME e.what = "rights", Latest(e.at)', seen'.at <= e.at, Owned(e.at)' PROVE right'.at = e.at
    <3>1. Latest(e.at) /\ seen.at <= e.at /\ Owned(e.at)
      BY <1>1, <2>2 DEF Latest, Owned
    <3>2. right.at = e.at /\ d.at <= e.at
      BY <1>4, <2>1, <2>2, <3>1 DEF AnswerSound, Latest
    <3> QED
      BY <1>5, <1>7, <2>1, <3>2
  <2>3. e.what \in {"added", "removed"} => e.at <= seen'.at
    BY <1>1, <2>1 DEF AnswerSound
  <2> QED
    BY <2>2, <2>3 DEF AnswerSound
<1>11. AnswerSound(d)'
  <2>1. ASSUME Latest(d.at)', seen'.at <= d.at, Owned(d.at)' PROVE right'.at = d.at
    <3>1. Latest(d.at) /\ seen.at = d.at /\ Owned(d.at)
      BY <1>1, <1>5, <2>1 DEF Latest, Owned
    <3>2. seen.active
      BY <1>1, <1>4, <1>5, <3>1 DEF SeenSound, EventsSound
    <3>3. channel.home # Nobody /\ channel.owner = r.owner
      BY <1>5, <3>1 DEF Owned
    <3>4. right.at = 0 \/ right.at <= d.at
      BY <1>1, <3>1 DEF RightSound, Latest
    <3> QED
      BY <1>5, <1>7, <3>1, <3>2, <3>3, <3>4
  <2> QED
    BY <1>4, <2>1 DEF AnswerSound
<1>12. HeardSound'
  BY <1>6, <1>10, <1>11 DEF HeardSound
<1> QED
  BY <1>8, <1>9, <1>12 DEF LossInv

\* Who connects the channel was not there when the latest right was lost, unless nothing changes for the owner.
LEMMA ConnectionLoss ==
  ASSUME ChannelInv, ChannelInv', LossInv, UNCHANGED <<chat, hour, hooks, heard, seen, told>>, TalksSound', RightSound',
         \A at \in Nat : at <= 2 * hour /\ Owned(at)' => Owned(at) /\ UNCHANGED right
  PROVE  LossInv'
<1>1. EventsSound' /\ SeenSound'
  BY DEF LossInv, EventsSound, SeenSound
<1>2. ASSUME NEW e \in heard PROVE AnswerSound(e)'
  <2>1. AnswerSound(e) /\ e.at \in Nat /\ (e.what # "message" => e.at <= 2 * hour)
    BY TypesAre DEF LossInv, HeardSound, EventsSound
  <2>2. e.what = "rights" /\ Owned(e.at)' => Owned(e.at) /\ UNCHANGED right
    BY <2>1
  <2> QED
    BY <2>1, <2>2 DEF AnswerSound, Latest
<1> QED
  BY <1>1, <1>2 DEF LossInv, HeardSound

LEMMA ConnectedLoss ==
  ASSUME ChannelInv, ChannelInv', LossInv, NEW h \in Callers, OneChannel!End(h),
         UNCHANGED <<chat, hour, hooks, heard, seen, told>>,
         NEW home \in Homes \cup {Nobody}, NEW owner \in Accounts \cup {Nobody}, channel' = OneChannel!Connected(home, owner),
         right' = IF channel.home = Nobody THEN [can |-> TRUE, at |-> 0] ELSE right
  PROVE  LossInv'
<1>1. channel'.owner = owner /\ channel'.since = ConnectedSince(owner)
  BY ConnectionsAre
<1>2. hour \in Nat
  BY TypesAre
<1>3. TalksSound'
  <2>1. SeenStands
    BY TypesAre DEF SeenStands
  <2> QED
    BY <2>1, IdleTalk, TalkMoves DEF OneChannel!End, LossInv
<1>4. RightSound'
  <2>1. CASE channel.home = Nobody
    <3>1. right'.can /\ right'.at = 0 /\ told \in Nat
      BY <2>1 DEF LossInv, RightSound
    <3>2. ~(right'.at > 0)
      BY <3>1
    <3> QED
      BY <3>1, <3>2 DEF RightSound
  <2>2. CASE channel.home # Nobody
    BY <2>2 DEF LossInv, RightSound, Latest
  <2> QED
    BY <2>1, <2>2
<1>5. ASSUME NEW at \in Nat, at <= 2 * hour, Owned(at)' PROVE Owned(at) /\ UNCHANGED right
  <2>1. 2 * channel'.since < at /\ owner = chat.owner /\ 2 * chat.since < at
    BY <1>1, <1>5 DEF Owned
  <2>2. channel.home # Nobody /\ channel.owner = owner /\ channel'.since = channel.since
    BY <1>1, <1>2, <1>5, <2>1 DEF ConnectedSince
  <2> QED
    BY <2>1, <2>2 DEF Owned
<1> QED
  BY <1>3, <1>4, <1>5, ConnectionLoss

LEMMA ConnectsLoss ==
  ASSUME ChannelInv, ChannelInv', LossInv, NEW h \in Callers,
         OneChannel!CompleteChannelClaim(h) \/ OneChannel!StoreDiscoverableChannel(h)
  PROVE  LossInv'
<1>1. /\ errand[h].pc = "finish" /\ OneChannel!End(h) /\ UNCHANGED <<chat, hour, hooks, heard, seen, told>>
  BY DEF OneChannel!CompleteChannelClaim, OneChannel!StoreDiscoverableChannel, OneChannel!At, OneChannel!max
<1>2. errand[h] \in CallRow /\ RequestSound(errand[h]) /\ claim \in [Claims -> ClaimRow]
  BY <1>1 DEF ChannelInv, CallsSound, ClaimsSound, OneChannel!NoErrand
<1>3. errand[h].owner \in Accounts \cup {Nobody}
  BY <1>2 DEF CallRow
<1>4. CASE UNCHANGED <<channel, right>>
  BY <1>1, <1>4, LossEnds
<1>5. ASSUME OneChannel!CompleteChannelClaim(h), ~UNCHANGED <<channel, right>> PROVE LossInv'
  <2>1. errand[h].claim \in Claims
    BY <1>1, <1>2, <1>5 DEF RequestSound, OneChannel!CompleteChannelClaim
  <2>2. claim[errand[h].claim].home \in Homes \cup {Nobody}
    BY <1>2, <2>1 DEF ClaimRow
  <2>3. /\ channel' = OneChannel!Connected(claim[errand[h].claim].home, errand[h].owner)
        /\ right' = IF channel.home = Nobody THEN [can |-> TRUE, at |-> 0] ELSE right
    BY <1>5, Zenon DEF OneChannel!CompleteChannelClaim
  <2> QED
    BY <1>1, <1>3, <2>2, <2>3, ConnectedLoss
<1>6. ASSUME OneChannel!StoreDiscoverableChannel(h), ~UNCHANGED <<channel, right>> PROVE LossInv'
  <2>1. errand[h].user \in Homes \cup {Nobody}
    BY <1>2 DEF CallRow, Homes
  <2>2. /\ channel' = OneChannel!Connected(errand[h].user, errand[h].owner)
        /\ right' = IF channel.home = Nobody THEN [can |-> TRUE, at |-> 0] ELSE right
    BY <1>6, Zenon DEF OneChannel!StoreDiscoverableChannel
  <2> QED
    BY <1>1, <1>3, <2>1, <2>2, ConnectedLoss
<1> QED
  BY <1>4, <1>5, <1>6

LEMMA WorkspaceLoss ==
  ASSUME ChannelInv, ChannelInv', LossInv, OneChannel!WritePost \/ OneChannel!DeleteChannelContent PROVE LossInv'
<1>1. UNCHANGED <<chat, hour, hooks, heard, seen, right, told, errand>>
  BY DEF OneChannel!WritePost, OneChannel!DeleteChannelContent, OneChannel!max
<1>2. TalksSound' /\ RightSound'
  BY <1>1 DEF LossInv, TalksSound, TalkSound, RightSound, Latest
<1> DEFINE filled == [channel EXCEPT !.posts = channel.home]
<1>3. filled.home = channel.home /\ filled.owner = channel.owner /\ filled.since = channel.since
  BY DEF ChannelInv, ChannelSound, ChannelRow
<1>4. channel' = filled \/ channel'.home = Nobody
  BY DEF OneChannel!WritePost, OneChannel!DeleteChannelContent, OneChannel!NoChannel
<1> HIDE DEF filled
<1>5. \A at : Owned(at)' => Owned(at)
  BY <1>1, <1>3, <1>4 DEF Owned
<1> QED
  BY <1>1, <1>2, <1>5, ConnectionLoss

LEMMA LossStep == ASSUME ChannelInv, ChannelInv', LossInv, OneChannel!Next PROVE LossInv'
<1>1. CASE OneChannel!ChatChanges \/ OneChannel!MessagePosted
  BY <1>1, ChatLoss
<1>2. CASE OneChannel!WritePost \/ OneChannel!DeleteChannelContent
  BY <1>2, WorkspaceLoss
<1>3. CASE OneChannel!StaffLeaves
  BY <1>3, LossStutters DEF OneChannel!StaffLeaves, OneChannel!max
<1>4. ASSUME NEW c \in Claims,
             \/ OneChannel!SendChannelClaimConfirmation(c) \/ OneChannel!ClaimExpires(c)
             \/ \E a \in Accounts : OneChannel!StartChannelClaimConfirmation(c, a)
             \/ \E button \in {"confirm", "cancel"} : OneChannel!PressButton(c, button)
      PROVE  LossInv'
  <2>1. UNCHANGED <<chat, hour, hooks, heard, seen, channel, right, told, errand>>
    BY <1>4 DEF OneChannel!SendChannelClaimConfirmation, OneChannel!ClaimExpires, OneChannel!PressButton,
       OneChannel!StartChannelClaimConfirmation, OneChannel!max
  <2> QED
    BY <2>1, LossStutters
<1>5. ASSUME NEW h \in Callers,
             \/ OneChannel!ReadChat(h) \/ OneChannel!WriteSeen(h) \/ OneChannel!CallFails(h)
             \/ OneChannel!CheckMembership(h) \/ OneChannel!SyncMAXChannelPermissions(h)
             \/ OneChannel!CreateChannelClaim(h) \/ OneChannel!CompleteChannelClaim(h)
             \/ OneChannel!StoreDiscoverableChannel(h)
      PROVE  LossInv'
  BY <1>5, ReadingsLoss, WritesLoss, ChecksLoss, RightsLoss, ConnectsLoss
<1>6. ASSUME NEW h \in Callers,
             \/ OneChannel!RefreshDiscoverableChannels(h)
             \/ \E u \in Users : \/ OneChannel!ConnectDiscoverableChannel(h, u)
                                 \/ \E home \in OneChannel!Homes : OneChannel!PrepareChannelClaim(h, u, home)
             \/ \E c \in Claims : OneChannel!HandleMessageCallback(h, c) \/ OneChannel!GetChannelClaim(h, c)
      PROVE  LossInv'
  BY <1>6, RequestsLoss, Zenon
<1>7. ASSUME NEW h \in Callers, NEW e \in hooks, OneChannel!MaxWebhook(h, e) PROVE LossInv'
  BY <1>7, WebhookLoss
<1> QED
  BY <1>1, <1>2, <1>3, <1>4, <1>5, <1>6, <1>7, Zenon DEF OneChannel!Next

LEMMA LossStarts == ASSUME OneChannel!Init PROVE LossInv
<1>1. EventsSound
  BY DEF OneChannel!Init, EventsSound
<1>2. TalksSound
  BY DEF OneChannel!Init, TalksSound, TalkSound, OneChannel!NoErrand
<1>3. SeenSound /\ RightSound /\ HeardSound
  BY DEF OneChannel!Init, SeenSound, RightSound, HeardSound
<1> QED
  BY <1>1, <1>2, <1>3 DEF LossInv

\* Every reachable state satisfies LossInv: a call about the latest webhook has read what is still so, and a
\* webhook that was handled has moved the inventory to its date or recorded the rights it told of.
THEOREM LossIsSound == ChannelSpec => []LossInv
<1>1. OneChannel!Init => LossInv
  BY LossStarts
<1>2. ChannelInv /\ ChannelInv' /\ LossInv /\ [OneChannel!Next]_(OneChannel!channels) => LossInv'
  BY LossStep, LossStutters DEF OneChannel!channels
<1> QED
  BY <1>1, <1>2, ChannelIsSound, PTL DEF ChannelSpec

\* Once every webhook was handled, a loss of the right to publish is recorded and its owner was notified, if the
\* account the channel is connected for has owned the chat since before the loss and nothing newer was read of
\* it (RefreshMAXChatPermissions, SyncMAXChannelPermissions).
THEOREM LossIsKnown == ChannelSpec => []OneChannel!LossKnown
<1>1. ASSUME ChannelInv, LossInv, OneChannel!Settled, OneChannel!Lost, NEW at \in OneChannel!LastRights,
             OneChannel!Concerned(at)
      PROVE  ~right.can /\ told > 0
  <2>1. /\ EventsSound /\ HeardSound /\ RightSound /\ hooks \subseteq heard
        /\ seen.at \in Nat /\ \A e \in hooks : e.at \in Nat
    BY <1>1, TypesAre DEF LossInv, OneChannel!Settled
  <2>2. PICK d \in hooks : d.at = at /\ d.what = "rights" /\ \A c \in hooks : c.what = "rights" => c.at <= d.at
    BY <1>1 DEF OneChannel!LastRights
  <2>3. at \in Nat /\ at > 0 /\ d \in heard
    BY <2>1, <2>2 DEF EventsSound
  <2>4. \A c \in hooks : c.what \in {"added", "removed"} => c.at <= at
    BY <1>1, <2>1, <2>3 DEF HeardSound, AnswerSound, OneChannel!Concerned
  <2>5. \A c \in hooks : c.what \in {"added", "removed", "rights", "message"}
    BY <1>1 DEF ChannelInv, MaxSound, HookRow
  <2>6. Latest(at)
    BY <2>2, <2>4, <2>5 DEF Latest
  <2>7. Owned(at) /\ seen.at <= at
    BY <1>1 DEF OneChannel!Lost, OneChannel!Concerned, Owned
  <2>8. right.at = at
    BY <2>1, <2>2, <2>3, <2>6, <2>7 DEF HeardSound, AnswerSound
  <2>9. ~right.can
    BY <1>1, <2>1, <2>3, <2>6, <2>8 DEF RightSound, OneChannel!Lost
  <2> QED
    BY <2>1, <2>9 DEF RightSound
<1>2. ChannelInv /\ LossInv => OneChannel!LossKnown
  BY <1>1 DEF OneChannel!LossKnown
<1> QED
  BY <1>2, ChannelIsSound, LossIsSound, PTL

----------------------------------------------------------------------------
(* PublishedIndex: the index holds what was delivered, and once complete all of it. *)
Published == INSTANCE PublishedIndex
PublishedSpec == Published!Init /\ [][Published!Next]_(Published!published)

Fingers == Published!Payload \cup {Published!Unknown}
ArticleRow == [text : 1..2, media : 1..2, finger : Fingers, status : {"draft", "published", "publishing"}, live : BOOLEAN]
PublishedRow == [post : Posts, text : 1..2, proof : {"confirmed", "imported"}]
OldRow == [text : 0..2, finger : Fingers]
ReaderRow == [pc : {"idle", "page", "row", "find"}, cursor : Nat, row : OldRow, pending : SUBSET PublishedRow]
Has(some, p, t) == \E e \in some : e.post = p /\ e.text = t
EntriesSound(some) == some \subseteq PublishedRow /\ \A e \in some : <<e.post, e.text>> \in delivered
Known(finger) == finger # Published!Unknown

\* A fingerprint is of a text that was delivered, and so is the first revision of an imported post.
ArticlesSound ==
  /\ article \in [Posts -> ArticleRow] /\ delivered \subseteq Posts \X (1..2)
  /\ \A p \in Posts : Known(article[p].finger) => <<p, article[p].finger[1]>> \in delivered
  /\ \A p \in Posts : p \in Imported => <<p, 1>> \in delivered
Covered(p, some) ==
  article[p].live /\ Known(article[p].finger) /\ p \notin unproven => Has(some, p, article[p].finger[1])
\* Who reads the old rows has all posts up to his cursor, and what was delivered since he read a row is in the index.
ReaderSound(q) ==
  /\ EntriesSound(q.pending)
  /\ q.pc = "page" => \A p \in Posts : p <= q.cursor => Covered(p, index \cup q.pending)
  /\ q.pc = "row" =>
       /\ q.cursor \in Posts /\ \A p \in Posts : p < q.cursor => Covered(p, index \cup q.pending)
       /\ Known(q.row.finger) => <<q.cursor, q.row.finger[1]>> \in delivered
       /\ q.row.text \in 1..2
       /\ article[q.cursor].finger = q.row.finger \/ Has(index, q.cursor, article[q.cursor].finger[1])
  /\ q.pc = "find" => ready
PublishedInv ==
  /\ ArticlesSound /\ EntriesSound(index) /\ ready \in BOOLEAN
  /\ reader \in [Readers -> ReaderRow] /\ \A r \in Readers : ReaderSound(reader[r])
  /\ ready => \A p \in Posts : Covered(p, index)

\* The index and what is delivered only grow, and a post changes its fingerprint, or becomes live, with an entry.
Onward ==
  /\ ArticlesSound' /\ EntriesSound(index)' /\ delivered \subseteq delivered' /\ unproven \subseteq unproven'
  /\ \A p \in Posts, t \in 1..2 : Has(index, p, t) => Has(index', p, t)
  /\ \A p \in Posts : \/ article'[p].finger = article[p].finger /\ (article'[p].live => article[p].live)
                      \/ Has(index', p, article'[p].finger[1])

LEMMA FirstIsText == ASSUME NEW f \in Fingers, Known(f) PROVE f[1] \in 1..2
BY DEF Fingers, Known, Published!Payload, Published!Texts

LEMMA CoveredStays ==
  ASSUME PublishedInv, Onward, NEW p \in Posts, NEW some \in SUBSET PublishedRow, Covered(p, index \cup some)
  PROVE  Covered(p, index \cup some)'
<1> SUFFICES ASSUME article'[p].live, Known(article'[p].finger), p \notin unproven'
             PROVE  Has(index' \cup some, p, article'[p].finger[1])
  BY DEF Covered
<1>1. CASE Has(index', p, article'[p].finger[1])
  BY <1>1 DEF Has
<1>2. CASE article'[p].finger = article[p].finger /\ (article'[p].live => article[p].live)
  <2>1. article[p].finger \in Fingers
    BY DEF PublishedInv, ArticlesSound, ArticleRow
  <2>2. article[p].finger[1] \in 1..2
    BY <1>2, <2>1, FirstIsText
  <2>3. Has(index \cup some, p, article[p].finger[1])
    BY <1>2 DEF Covered, Onward
  <2>4. Has(index, p, article[p].finger[1]) \/ Has(some, p, article[p].finger[1])
    BY <2>3 DEF Has
  <2>5. Has(index', p, article[p].finger[1]) \/ Has(some, p, article[p].finger[1])
    BY <2>2, <2>4 DEF Onward
  <2> QED
    BY <1>2, <2>5 DEF Has
<1> QED
  BY <1>1, <1>2 DEF Onward

LEMMA ReaderStays ==
  ASSUME Published!IndexOK, PublishedInv, Onward, ready => ready', NEW q \in ReaderRow, ReaderSound(q)
  PROVE  ReaderSound(q)'
<1>1. q.pending \in SUBSET PublishedRow
  BY DEF ReaderRow
<1>2. EntriesSound(q.pending)'
  BY DEF ReaderSound, EntriesSound, Onward
<1>3. q.pc = "page" => \A p \in Posts : p <= q.cursor => Covered(p, index \cup q.pending)'
  BY <1>1, CoveredStays DEF ReaderSound
<1>4. ASSUME q.pc = "row"
      PROVE  /\ q.cursor \in Posts /\ \A p \in Posts : p < q.cursor => Covered(p, index \cup q.pending)'
             /\ Known(q.row.finger) => <<q.cursor, q.row.finger[1]>> \in delivered'
             /\ q.row.text \in 1..2
             /\ article'[q.cursor].finger = q.row.finger \/ Has(index', q.cursor, article'[q.cursor].finger[1])
  <2>1. /\ q.cursor \in Posts /\ \A p \in Posts : p < q.cursor => Covered(p, index \cup q.pending)
        /\ Known(q.row.finger) => <<q.cursor, q.row.finger[1]>> \in delivered
        /\ q.row.text \in 1..2
        /\ article[q.cursor].finger = q.row.finger \/ Has(index, q.cursor, article[q.cursor].finger[1])
    BY <1>4 DEF ReaderSound
  <2>2. \A p \in Posts : p < q.cursor => Covered(p, index \cup q.pending)'
    BY <1>1, <2>1, CoveredStays
  <2>3. PICK p \in Posts : p = q.cursor
    BY <2>1
  <2>4. article'[p].finger = q.row.finger \/ Has(index', p, article'[p].finger[1])
    <3>1. CASE article'[p].finger = article[p].finger
      <4>1. article[p].finger \in Fingers
        BY DEF PublishedInv, ArticlesSound, ArticleRow
      <4>2. CASE Known(article[p].finger)
        BY <2>1, <2>3, <3>1, <4>1, <4>2, FirstIsText DEF Onward
      <4>3. CASE ~Known(article[p].finger)
        <5>1. CASE article[p].finger = q.row.finger
          BY <3>1, <5>1
        <5>2. CASE Has(index, p, article[p].finger[1])
          <6>1. PICK e \in index : e.post = p /\ e.text = article[p].finger[1]
            BY <5>2 DEF Has
          <6>2. e.text \in 1..2
            BY <6>1 DEF PublishedInv, EntriesSound, PublishedRow
          <6> QED
            BY <3>1, <5>2, <6>1, <6>2 DEF Onward
        <5> QED
          BY <2>1, <2>3, <5>1, <5>2
      <4> QED
        BY <4>2, <4>3
    <3> QED
      BY <3>1 DEF Onward
  <2> QED
    BY <2>1, <2>2, <2>3, <2>4 DEF Onward
<1>5. q.pc = "find" => ready'
  BY DEF ReaderSound
<1> QED
  BY <1>2, <1>3, <1>4, <1>5 DEF ReaderSound

LEMMA PublishedMoves ==
  ASSUME Published!IndexOK, PublishedInv, Onward, ready => ready', ready' \in BOOLEAN,
         ready' => ready \/ \A p \in Posts : Covered(p, index)',
         reader' \in [Readers -> ReaderRow],
         \A r \in Readers : reader'[r] = reader[r] \/ ReaderSound(reader[r])'
  PROVE  PublishedInv'
<1>1. ASSUME NEW r \in Readers PROVE ReaderSound(reader[r])'
  <2>1. PICK q \in ReaderRow : q = reader[r]
    BY DEF PublishedInv
  <2>2. ReaderSound(q)'
    BY <2>1, ReaderStays DEF PublishedInv
  <2>3. CASE reader'[r] = reader[r]
    BY <2>1, <2>2, <2>3
  <2> QED
    BY <2>3
<1>2. ASSUME ready, NEW p \in Posts PROVE Covered(p, index)'
  <2>1. Covered(p, index \cup {})
    BY <1>2 DEF PublishedInv, Covered
  <2>2. Covered(p, index \cup {})'
    BY <2>1, CoveredStays
  <2> QED
    BY <2>2 DEF Covered
<1> QED
  BY <1>1, <1>2 DEF PublishedInv, Onward

\* Recording a text keeps every text that was recorded.
Grown(some, more, p, t) ==
  /\ more \in SUBSET PublishedRow /\ Has(more, p, t)
  /\ \A x \in Posts, u \in 1..2 : Has(some, x, u) => Has(more, x, u)
  /\ \A e \in more : e \in some \/ (e.post = p /\ e.text = t)
LEMMA Recorded ==
  ASSUME NEW some \in SUBSET PublishedRow, NEW p \in Posts, NEW t \in 1..2, NEW proof \in {"confirmed", "imported"}
  PROVE  Grown(some, Published!RecordPublishedContent(some, p, t, proof), p, t)
<1>0. PICK more : more = Published!RecordPublishedContent(some, p, t, proof)
  OBVIOUS
<1> SUFFICES Grown(some, more, p, t)
  BY <1>0, Zenon
<1>1. PICK c : c = [post |-> p, text |-> t, proof |-> "confirmed"]
  OBVIOUS
<1>2. PICK i : i = [post |-> p, text |-> t, proof |-> "imported"]
  OBVIOUS
<1>3. PICK n : n = [post |-> p, text |-> t, proof |-> proof]
  OBVIOUS
<1>7. /\ c \in PublishedRow /\ c.post = p /\ c.text = t
      /\ i \in PublishedRow /\ i.post = p /\ i.text = t
      /\ n \in PublishedRow /\ n.post = p /\ n.text = t
  BY <1>1, <1>2, <1>3 DEF PublishedRow
<1>4. more = IF c \in some THEN some ELSE (some \ {i}) \cup {n}
  BY <1>0, <1>1, <1>2, <1>3, Zenon DEF Published!RecordPublishedContent
<1>5. CASE c \in some
  BY <1>4, <1>5, <1>7 DEF Has, Grown
<1>6. CASE c \notin some
  <2>1. more = (some \ {i}) \cup {n}
    BY <1>4, <1>6
  <2>2. ASSUME NEW x \in Posts, NEW u \in 1..2, Has(some, x, u) PROVE Has(more, x, u)
    <3>1. PICK e \in some : e.post = x /\ e.text = u
      BY <2>2 DEF Has
    <3>2. CASE e = i
      BY <1>7, <2>1, <3>1, <3>2 DEF Has
    <3>3. CASE e # i
      BY <2>1, <3>1, <3>3 DEF Has
    <3> QED
      BY <3>2, <3>3
  <2> QED
    BY <1>7, <2>1, <2>2 DEF Has, Grown
<1> QED
  BY <1>5, <1>6

LEMMA PublishedTyped ==
  ASSUME PublishedInv, NEW p \in Posts
  PROVE  /\ article[p] \in ArticleRow /\ article[p].text \in 1..2 /\ article[p].media \in 1..2
         /\ article[p].finger \in Fingers /\ article[p].live \in BOOLEAN /\ index \in SUBSET PublishedRow
         /\ (Known(article[p].finger) => <<p, article[p].finger[1]>> \in delivered)
BY DEF PublishedInv, ArticlesSound, ArticleRow, EntriesSound

\* A post changes, and its fingerprint does not.
LEMMA ArticleTurns ==
  ASSUME Published!IndexOK, PublishedInv, NEW p \in Posts, NEW a \in ArticleRow, article' = [article EXCEPT ![p] = a],
         a.finger = article[p].finger, a.live = article[p].live, delivered \subseteq delivered',
         delivered' \subseteq Posts \X (1..2), UNCHANGED <<index, ready, reader, unproven>>
  PROVE  PublishedInv'
<1>1. /\ article' \in [Posts -> ArticleRow]
      /\ \A x \in Posts : article'[x].finger = article[x].finger /\ article'[x].live = article[x].live
  BY DEF PublishedInv, ArticlesSound
<1>2. ArticlesSound'
  BY <1>1 DEF PublishedInv, ArticlesSound, Known
<1>3. Onward
  BY <1>1, <1>2 DEF PublishedInv, Onward, EntriesSound
<1> QED
  BY <1>3, PublishedMoves DEF PublishedInv

LEMMA EditKept == ASSUME Published!IndexOK, PublishedInv, NEW p \in Posts, Published!EditPost(p) PROVE PublishedInv'
<1>1. PICK t \in 1..2, m \in 1..2 : article' = [article EXCEPT ![p].text = t, ![p].media = m]
  BY DEF Published!EditPost, Published!Texts
<1>2. PICK b \in ArticleRow : b = article[p]
  BY PublishedTyped
<1>3. PICK a : a = [b EXCEPT !.text = t, !.media = m]
  OBVIOUS
<1>4. a \in ArticleRow /\ a.finger = b.finger /\ a.live = b.live
  BY <1>3 DEF ArticleRow
<1>5. article' = [article EXCEPT ![p] = a]
  <2>1. article' = [article EXCEPT ![p] = [article[p] EXCEPT !.text = t, !.media = m]]
    BY <1>1 DEF PublishedInv, ArticlesSound, ArticleRow
  <2> QED
    BY <1>2, <1>3, <2>1, Zenon
<1>6. UNCHANGED <<index, ready, reader, unproven, delivered>> /\ delivered \subseteq Posts \X (1..2)
  BY DEF Published!EditPost, PublishedInv, ArticlesSound
<1> QED
  BY <1>2, <1>4, <1>5, <1>6, ArticleTurns

LEMMA StatusKept ==
  ASSUME Published!IndexOK, PublishedInv, NEW p \in Posts, Published!ClaimForPublishing(p) \/ Published!PublishingEnds(p)
  PROVE  PublishedInv'
<1>1. PICK s \in {"draft", "published", "publishing"} : article' = [article EXCEPT ![p].status = s]
  <2>1. CASE Published!ClaimForPublishing(p)
    BY <2>1, Zenon DEF Published!ClaimForPublishing
  <2>2. CASE Published!PublishingEnds(p)
    <3>1. PICK s \in {"draft", "published"} : s = IF article[p].live THEN "published" ELSE "draft"
      OBVIOUS
    <3>2. article' = [article EXCEPT ![p].status = s]
      BY <2>2, <3>1, Zenon DEF Published!PublishingEnds
    <3>3. s \in {"draft", "published", "publishing"}
      OBVIOUS
    <3> QED
      BY <3>2, <3>3, Zenon
  <2> QED
    BY <2>1, <2>2
<1>2. PICK b \in ArticleRow : b = article[p]
  BY PublishedTyped
<1>3. PICK a : a = [b EXCEPT !.status = s]
  OBVIOUS
<1>4. a \in ArticleRow /\ a.finger = b.finger /\ a.live = b.live
  BY <1>3 DEF ArticleRow
<1>5. article' = [article EXCEPT ![p] = a]
  BY <1>1, <1>2, <1>3, Zenon
<1>6. UNCHANGED <<index, ready, reader, unproven>> /\ delivered' \in {delivered, delivered \cup {<<p, b.text>>}}
  BY <1>2 DEF Published!ClaimForPublishing, Published!PublishingEnds, Published!Delivered
<1>7. delivered \subseteq Posts \X (1..2) /\ b.text \in 1..2
  BY <1>2 DEF PublishedInv, ArticlesSound, ArticleRow
<1>8. delivered \subseteq delivered' /\ delivered' \subseteq Posts \X (1..2)
  BY <1>6, <1>7
<1> QED
  BY <1>2, <1>4, <1>5, <1>6, <1>8, ArticleTurns

LEMMA PublishedKept ==
  ASSUME Published!IndexOK, PublishedInv, NEW p \in Posts, Published!MarkPublished(p) PROVE PublishedInv'
<1>1. PICK b \in ArticleRow : b = article[p]
  BY PublishedTyped
<1>2. PICK t \in 1..2, m \in 1..2 : t = b.text /\ m = b.media
  BY DEF ArticleRow
<1>3. PICK f : f = <<t, m>>
  OBVIOUS
<1>14. f \in Fingers /\ f[1] = t
  BY <1>3 DEF Fingers, Published!Payload, Published!Texts
<1>4. PICK a : a = [b EXCEPT !.status = "published", !.live = TRUE, !.finger = f]
  OBVIOUS
<1>5. a \in ArticleRow /\ a.finger = f
  BY <1>4, <1>14 DEF ArticleRow
<1>6. article' = [article EXCEPT ![p] = a]
  <2>1. article' = [article EXCEPT ![p].status = "published", ![p].live = TRUE, ![p].finger = f]
    BY <1>1, <1>2, <1>3, Zenon DEF Published!MarkPublished, Published!PublicationFingerprint
  <2>2. article' = [article EXCEPT ![p] = [article[p] EXCEPT !.status = "published", !.live = TRUE, !.finger = f]]
    BY <2>1 DEF PublishedInv, ArticlesSound, ArticleRow
  <2> QED
    BY <1>1, <1>4, <2>2, Zenon
<1>7. delivered' = delivered \cup {<<p, t>>} /\ UNCHANGED <<ready, reader, unproven>>
  BY <1>1, <1>2 DEF Published!MarkPublished, Published!Delivered
<1>8. index' = Published!RecordPublishedContent(index, p, t, "confirmed")
  BY <1>1, <1>2, Zenon DEF Published!MarkPublished
<1>9. /\ index' \in SUBSET PublishedRow /\ Has(index', p, t)
      /\ \A x \in Posts, u \in 1..2 : Has(index, x, u) => Has(index', x, u)
      /\ \A e \in index' : e \in index \/ (e.post = p /\ e.text = t)
  <2>1. index \in SUBSET PublishedRow /\ "confirmed" \in {"confirmed", "imported"}
    BY PublishedTyped
  <2> QED
    BY <1>8, <2>1, Recorded DEF Grown
<1>10. EntriesSound(index)'
  BY <1>7, <1>9 DEF EntriesSound, PublishedInv
<1>11. /\ article' \in [Posts -> ArticleRow] /\ article'[p] = a
       /\ \A x \in Posts \ {p} : article'[x] = article[x]
  BY <1>5, <1>6 DEF PublishedInv, ArticlesSound
<1>12. ArticlesSound'
  BY <1>5, <1>7, <1>11, <1>14 DEF PublishedInv, ArticlesSound, Known
<1>13. Onward
  BY <1>5, <1>7, <1>9, <1>10, <1>11, <1>12, <1>14 DEF Onward
<1> QED
  BY <1>7, <1>13, PublishedMoves DEF PublishedInv

LEMMA ImportKept ==
  ASSUME Published!IndexOK, PublishedInv, NEW p \in Posts,
         Published!CreatePostRevision(p) \/ Published!RecordImportedPublishedContent(p)
  PROVE  PublishedInv'
<1>1. UNCHANGED <<article, ready, reader, delivered, unproven>>
  BY DEF Published!CreatePostRevision, Published!RecordImportedPublishedContent
<1>2. index' = index \/ \E t \in 1..2 : <<p, t>> \in delivered /\ index' = Published!RecordPublishedContent(index, p, t, "imported")
  <2>1. CASE Published!CreatePostRevision(p)
    BY <2>1 DEF Published!CreatePostRevision
  <2>2. CASE Published!RecordImportedPublishedContent(p)
    <3>1. PICK d \in delivered : d[1] = p /\ index' = Published!RecordPublishedContent(index, p, d[2], "imported")
      BY <2>2 DEF Published!RecordImportedPublishedContent
    <3>2. d \in Posts \X (1..2)
      BY DEF PublishedInv, ArticlesSound
    <3>3. PICK t \in 1..2 : t = d[2] /\ <<p, t>> = d
      BY <3>1, <3>2
    <3> QED
      BY <3>1, <3>3, Zenon
  <2> QED
    BY <2>1, <2>2
<1>3. ASSUME NEW t \in 1..2, <<p, t>> \in delivered, index' = Published!RecordPublishedContent(index, p, t, "imported")
      PROVE  EntriesSound(index)' /\ \A x \in Posts, u \in 1..2 : Has(index, x, u) => Has(index', x, u)
  <2>1. index \in SUBSET PublishedRow /\ "imported" \in {"confirmed", "imported"}
    BY PublishedTyped
  <2>2. /\ index' \in SUBSET PublishedRow
        /\ \A x \in Posts, u \in 1..2 : Has(index, x, u) => Has(index', x, u)
        /\ \A e \in index' : e \in index \/ (e.post = p /\ e.text = t)
    BY <1>3, <2>1, Recorded DEF Grown
  <2> QED
    BY <1>1, <1>3, <2>2 DEF EntriesSound, PublishedInv
<1>4. EntriesSound(index)' /\ \A x \in Posts, u \in 1..2 : Has(index, x, u) => Has(index', x, u)
  <2>1. CASE index' = index
    BY <1>1, <2>1 DEF PublishedInv, EntriesSound
  <2> QED
    BY <1>2, <1>3, <2>1
<1>5. Onward
  BY <1>1, <1>4 DEF PublishedInv, ArticlesSound, Onward, Known
<1> QED
  BY <1>1, <1>5, PublishedMoves DEF PublishedInv

\* A reader goes on, and posts and deliveries stay.
LEMMA ReaderTurns ==
  ASSUME Published!IndexOK, PublishedInv, NEW r \in Readers, NEW q \in ReaderRow, reader' = [reader EXCEPT ![r] = q],
         UNCHANGED <<article, delivered>>, unproven \subseteq unproven', EntriesSound(index)',
         \A p \in Posts, t \in 1..2 : Has(index, p, t) => Has(index', p, t),
         ready => ready', ready' \in BOOLEAN, ready' => ready \/ \A p \in Posts : Covered(p, index)', ReaderSound(q)'
  PROVE  PublishedInv'
<1>1. Onward
  BY DEF PublishedInv, ArticlesSound, Onward, Known
<1>2. reader' \in [Readers -> ReaderRow] /\ reader'[r] = q /\ \A x \in Readers \ {r} : reader'[x] = reader[x]
  BY DEF PublishedInv
<1>3. ASSUME NEW x \in Readers PROVE reader'[x] = reader[x] \/ ReaderSound(reader[x])'
  <2>1. CASE x = r
    BY <1>2, <2>1
  <2> QED
    BY <1>2, <2>1
<1> QED
  BY <1>1, <1>2, <1>3, PublishedMoves

LEMMA BeginKept ==
  ASSUME Published!IndexOK, PublishedInv, NEW r \in Readers,
         \/ Published!EnsurePublishedContentIndex(r) \/ Published!FindPublishedDiscoveryReferences(r)
         \/ Published!RequestFails(r)
  PROVE  PublishedInv'
<1>1. UNCHANGED <<article, delivered, unproven, index, ready>>
  BY DEF Published!EnsurePublishedContentIndex, Published!FindPublishedDiscoveryReferences, Published!RequestFails
<1>2. PICK q \in ReaderRow : /\ reader' = [reader EXCEPT ![r] = q] /\ q.cursor = 0 /\ q.pending = {}
                             /\ q.pc \in {"idle", "page", "find"} /\ (q.pc = "find" => ready)
  <2>1. CASE Published!EnsurePublishedContentIndex(r)
    <3>1. PICK pc \in {"idle", "page", "find"} : pc = IF ready THEN "find" ELSE "page"
      OBVIOUS
    <3>2. PICK q : q = [Published!Idle EXCEPT !.pc = pc]
      OBVIOUS
    <3>3. q \in ReaderRow /\ q.pc = pc /\ q.cursor = 0 /\ q.pending = {}
      BY <3>2 DEF Published!Idle, Published!NoRow, ReaderRow, OldRow, Fingers
    <3>4. reader' = [reader EXCEPT ![r] = q]
      BY <2>1, <3>1, <3>2, Zenon DEF Published!EnsurePublishedContentIndex, Published!Go
    <3>5. q.pc \in {"idle", "page", "find"} /\ (q.pc = "find" => ready)
      BY <3>1, <3>3
    <3> QED
      BY <3>3, <3>4, <3>5, Zenon
  <2>2. CASE Published!FindPublishedDiscoveryReferences(r) \/ Published!RequestFails(r)
    <3>1. PICK q : q = Published!Idle
      OBVIOUS
    <3>2. q \in ReaderRow /\ q.pc = "idle" /\ q.cursor = 0 /\ q.pending = {}
      BY <3>1 DEF Published!Idle, Published!NoRow, ReaderRow, OldRow, Fingers
    <3>3. reader' = [reader EXCEPT ![r] = q]
      BY <2>2, <3>1, Zenon DEF Published!FindPublishedDiscoveryReferences, Published!RequestFails, Published!Go
    <3>4. q.pc \in {"idle", "page", "find"} /\ (q.pc = "find" => ready)
      BY <3>2
    <3> QED
      BY <3>2, <3>3, <3>4, Zenon
  <2> QED
    BY <2>1, <2>2
<1>3. \A p \in Posts : ~(p <= q.cursor)
  <2>1. \A p \in Posts : ~(p <= 0)
    BY DEF Published!IndexOK
  <2> QED
    BY <1>2, <2>1, Zenon
<1>4. ReaderSound(q)'
  BY <1>1, <1>2, <1>3 DEF ReaderSound, EntriesSound
<1>5. EntriesSound(index)' /\ ready \in BOOLEAN
  BY <1>1 DEF PublishedInv, EntriesSound
<1> QED
  BY <1>1, <1>2, <1>4, <1>5, ReaderTurns

LEMMA PageKept ==
  ASSUME Published!IndexOK, PublishedInv, NEW r \in Readers, Published!ReadPublishedIndexBackfillPage(r)
  PROVE  PublishedInv'
<1>1. PICK q \in ReaderRow : q = reader[r]
  BY DEF PublishedInv
<1>2. q.pc = "page" /\ ReaderSound(q) /\ Published!Beyond(q.cursor) # {}
  BY <1>1 DEF PublishedInv, Published!ReadPublishedIndexBackfillPage, Published!At
<1>3. PICK p : p = CHOOSE o \in Published!Beyond(q.cursor) : \A x \in Published!Beyond(q.cursor) : o <= x
  OBVIOUS
<1>4. p \in Published!Beyond(q.cursor) /\ \A x \in Published!Beyond(q.cursor) : p <= x
  <2>1. Published!Beyond(q.cursor) \subseteq Nat
    BY DEF Published!Beyond, Published!IndexOK
  <2>2. \E o \in Published!Beyond(q.cursor) : \A x \in Published!Beyond(q.cursor) : o <= x
    BY <1>2, <2>1, LeastOf
  <2> QED
    BY <1>3, <2>2
<1>5. p \in Posts /\ p \in Nat /\ q.cursor \in Nat
  BY <1>4 DEF Published!Beyond, Published!IndexOK, ReaderRow
<1>6. PICK b \in ArticleRow : b = article[p]
  BY <1>5, PublishedTyped
<1>7. PICK stored : stored = [text |-> b.text, finger |-> b.finger]
  OBVIOUS
<1>8. stored \in OldRow /\ stored.text \in 1..2 /\ stored.finger = b.finger
  BY <1>7 DEF OldRow, ArticleRow
<1>9. PICK n : n = [q EXCEPT !.pc = "row", !.cursor = p, !.row = stored]
  OBVIOUS
<1>10. n \in ReaderRow /\ n.pc = "row" /\ n.cursor = p /\ n.row = stored /\ n.pending = q.pending
  BY <1>5, <1>8, <1>9 DEF ReaderRow
<1>11. reader' = [reader EXCEPT ![r] = n]
  BY <1>1, <1>3, <1>6, <1>7, <1>9, Zenon DEF Published!ReadPublishedIndexBackfillPage, Published!Go
<1>12. UNCHANGED <<article, delivered, unproven, index, ready>>
  BY DEF Published!ReadPublishedIndexBackfillPage
<1>13. ASSUME NEW x \in Posts, x < p PROVE Covered(x, index \cup q.pending)
  <2>0. x \in Nat
    BY DEF Published!IndexOK
  <2>1. CASE x <= q.cursor
    BY <1>2, <2>1 DEF ReaderSound
  <2>2. CASE x > q.cursor
    <3>1. x \notin Published!Beyond(q.cursor)
      BY <1>4, <1>5, <1>13, <2>0
    <3>2. ~article[x].live
      BY <2>2, <3>1 DEF Published!Beyond, Published!Historical
    <3> QED
      BY <3>2 DEF Covered
  <2> QED
    BY <1>5, <2>0, <2>1, <2>2
<1>14. Known(b.finger) => <<p, b.finger[1]>> \in delivered
  BY <1>5, <1>6, PublishedTyped
<1>15. ReaderSound(n)
  BY <1>2, <1>5, <1>6, <1>8, <1>10, <1>13, <1>14 DEF ReaderSound
<1>16. ReaderSound(n)'
  BY <1>12, <1>15 DEF ReaderSound, EntriesSound, Covered
<1>17. EntriesSound(index)' /\ ready \in BOOLEAN
  BY <1>12 DEF PublishedInv, EntriesSound
<1> QED
  BY <1>10, <1>11, <1>12, <1>16, <1>17, ReaderTurns

\* What the backfill finds of a post was delivered, and is the text of the fingerprint it read unless nothing proves it.
LEMMA FoundIs ==
  ASSUME PublishedInv, NEW p \in Posts, NEW stored \in OldRow, stored.text \in 1..2,
         Known(stored.finger) => <<p, stored.finger[1]>> \in delivered,
         NEW found, found = Published!Provable(p, stored, article[p].media)
  PROVE  \/ found = {} /\ (Known(stored.finger) => stored.finger # <<stored.text, article[p].media>>
                                               /\ stored.finger \notin revisions[p])
         \/ \E t \in 1..2, proof \in {"confirmed", "imported"} :
              /\ found = {<<t, proof>>} /\ <<p, t>> \in delivered
              /\ \/ stored.finger[1] = t
                 \/ Known(stored.finger) => stored.finger # <<stored.text, article[p].media>> /\ stored.finger \notin revisions[p]
<1>1. PICK m : m = article[p].media
  OBVIOUS
<1>2. stored.finger \in Fingers
  BY DEF OldRow
<1>3. Published!Proven(stored, m) <=> Known(stored.finger) /\ stored.finger = <<stored.text, m>>
  BY DEF Published!Proven, Published!PublicationFingerprint, Known
<1>4. CASE Published!Proven(stored, m)
  <2>1. found = {<<stored.text, "confirmed">>}
    BY <1>1, <1>4, Zenon DEF Published!Provable
  <2>2. stored.finger[1] = stored.text
    BY <1>3, <1>4
  <2>3. <<p, stored.text>> \in delivered
    BY <1>3, <1>4, <2>2
  <2>4. "confirmed" \in {"confirmed", "imported"}
    OBVIOUS
  <2> QED
    BY <2>1, <2>2, <2>3, <2>4, Zenon
<1>5. CASE ~Published!Proven(stored, m)
  <2>1. found = Published!BackfillPublishedRevision(p, stored.finger)
    BY <1>1, <1>5, Zenon DEF Published!Provable
  <2>2. Known(stored.finger) => stored.finger # <<stored.text, article[p].media>>
    BY <1>1, <1>3, <1>5, Zenon
  <2>3. CASE Known(stored.finger) /\ stored.finger \in revisions[p]
    <3>1. found = {<<stored.finger[1], "confirmed">>}
      BY <2>1, <2>3, Zenon DEF Published!BackfillPublishedRevision, Known
    <3>2. PICK t \in 1..2 : t = stored.finger[1]
      BY <1>2, <2>3, FirstIsText
    <3>3. found = {<<t, "confirmed">>} /\ <<p, t>> \in delivered
      BY <2>3, <3>1, <3>2, Zenon
    <3>4. "confirmed" \in {"confirmed", "imported"}
      OBVIOUS
    <3> QED
      BY <3>2, <3>3, <3>4, Zenon
  <2>4. CASE ~(Known(stored.finger) /\ stored.finger \in revisions[p])
    <3>1. found = IF p \in Imported THEN {<<1, "imported">>} ELSE {}
      BY <2>1, <2>4, Zenon DEF Published!BackfillPublishedRevision, Known
    <3>2. p \in Imported => <<p, 1>> \in delivered
      BY DEF PublishedInv, ArticlesSound
    <3>3. 1 \in 1..2 /\ "imported" \in {"confirmed", "imported"}
      OBVIOUS
    <3> QED
      BY <2>2, <2>4, <3>1, <3>2, <3>3, Zenon
  <2> QED
    BY <2>3, <2>4
<1> QED
  BY <1>4, <1>5

LEMMA BackfillKept ==
  ASSUME Published!IndexOK, PublishedInv, NEW r \in Readers, Published!BackfillPost(r) PROVE PublishedInv'
<1>1. PICK q \in ReaderRow : q = reader[r]
  BY DEF PublishedInv
<1>2. q.pc = "row" /\ ReaderSound(q)
  BY <1>1 DEF PublishedInv, Published!BackfillPost, Published!At
<1>3. PICK p \in Posts, stored \in OldRow : p = q.cursor /\ stored = q.row
  BY <1>2 DEF ReaderSound, ReaderRow
<1>4. /\ stored.text \in 1..2 /\ (Known(stored.finger) => <<p, stored.finger[1]>> \in delivered)
      /\ article[p].finger = stored.finger \/ Has(index, p, article[p].finger[1])
      /\ \A x \in Posts : x < p => Covered(x, index \cup q.pending)
      /\ EntriesSound(q.pending) /\ q.pending \in SUBSET PublishedRow
  BY <1>2, <1>3 DEF ReaderSound, ReaderRow
<1>5. PICK found : found = Published!Provable(p, stored, article[p].media)
  OBVIOUS
<1> DEFINE Nothing == Known(stored.finger) => stored.finger # <<stored.text, article[p].media>> /\ stored.finger \notin revisions[p]
<1>6. \/ found = {} /\ Nothing
      \/ \E t \in 1..2, proof \in {"confirmed", "imported"} :
           found = {<<t, proof>>} /\ <<p, t>> \in delivered /\ (stored.finger[1] = t \/ Nothing)
  <2>1. Known(stored.finger) => <<p, stored.finger[1]>> \in delivered
    BY <1>4
  <2>2. stored.text \in 1..2
    BY <1>4
  <2> HIDE DEF Nothing
  <2>3. Nothing <=> (Known(stored.finger) => stored.finger # <<stored.text, article[p].media>> /\ stored.finger \notin revisions[p])
    BY DEF Nothing
  <2> QED
    BY <1>5, <2>1, <2>2, <2>3, FoundIs, ZenonT(60)
<1>7. PICK more : more = IF found = {} THEN q.pending
                         ELSE LET f == CHOOSE x \in found : TRUE IN Published!RecordPublishedContent(q.pending, p, f[1], f[2])
  BY Zenon
<1>8. /\ more \in SUBSET PublishedRow /\ EntriesSound(more)
      /\ \A x \in Posts, u \in 1..2 : Has(q.pending, x, u) => Has(more, x, u)
      /\ Has(more, p, stored.finger[1]) \/ Nothing
  <2>1. CASE found = {} /\ Nothing
    <3>1. more = q.pending
      BY <1>7, <2>1, Zenon
    <3> QED
      BY <1>4, <2>1, <3>1
  <2>2. ASSUME NEW t \in 1..2, NEW proof \in {"confirmed", "imported"}, found = {<<t, proof>>}, <<p, t>> \in delivered,
               stored.finger[1] = t \/ Nothing
        PROVE  /\ more \in SUBSET PublishedRow /\ EntriesSound(more)
               /\ \A x \in Posts, u \in 1..2 : Has(q.pending, x, u) => Has(more, x, u)
               /\ Has(more, p, stored.finger[1]) \/ Nothing
    <3>1. PICK f : f = <<t, proof>>
      OBVIOUS
    <3>2. (CHOOSE x \in found : TRUE) = f
      BY <2>2, <3>1
    <3>3. f[1] = t /\ f[2] = proof /\ found # {}
      BY <2>2, <3>1
    <3>4. more = Published!RecordPublishedContent(q.pending, p, t, proof)
      BY <1>7, <3>2, <3>3, Zenon
    <3>5. Grown(q.pending, more, p, t)
      BY <1>4, <3>4, Recorded
    <3>6. EntriesSound(more)
      BY <1>4, <2>2, <3>5 DEF Grown, EntriesSound
    <3> QED
      BY <2>2, <3>5, <3>6 DEF Grown
  <2> QED
    BY <1>6, <2>1, <2>2, Zenon
<1>9. PICK n : n = [q EXCEPT !.pc = "page", !.row = Published!NoRow, !.pending = more]
  OBVIOUS
<1>10. n \in ReaderRow /\ n.pc = "page" /\ n.cursor = p /\ n.pending = more
  <2>1. Published!NoRow \in OldRow
    BY DEF Published!NoRow, OldRow, Fingers
  <2> QED
    BY <1>3, <1>8, <1>9, <2>1 DEF ReaderRow
<1>11. reader' = [reader EXCEPT ![r] = n]
  BY <1>1, <1>3, <1>5, <1>7, <1>9, Zenon DEF Published!BackfillPost, Published!Go
<1>12. UNCHANGED <<article, delivered, index, ready>>
  BY DEF Published!BackfillPost
<1>13. unproven \subseteq unproven' /\ (Nothing /\ Known(stored.finger) => p \in unproven')
  <2>1. unproven' = IF Published!Edited(p, stored) /\ stored.finger \notin revisions[p] THEN unproven \cup {p} ELSE unproven
    BY <1>1, <1>3, Zenon DEF Published!BackfillPost
  <2>2. stored.finger # <<stored.text, article[p].media>> => Published!Edited(p, stored)
    BY DEF Published!Edited, Published!PublicationFingerprint
  <2> QED
    BY <2>1, <2>2
<1>14. ASSUME NEW x \in Posts, x <= p, article[x].live, Known(article[x].finger), x \notin unproven'
       PROVE  Has(index \cup more, x, article[x].finger[1])
  <2>1. article[x].finger[1] \in 1..2
    BY <1>14, FirstIsText, PublishedTyped
  <2>2. CASE x = p
    <3>1. CASE article[p].finger = stored.finger
      BY <1>8, <1>13, <1>14, <2>2, <3>1 DEF Has
    <3>2. CASE Has(index, p, article[p].finger[1])
      BY <2>2, <3>2 DEF Has
    <3> QED
      BY <1>4, <3>1, <3>2
  <2>3. CASE x # p
    <3>1. x < p
      BY <1>14, <2>3 DEF Published!IndexOK
    <3>2. Has(index \cup q.pending, x, article[x].finger[1])
      BY <1>4, <1>13, <1>14, <3>1 DEF Covered
    <3>3. Has(index, x, article[x].finger[1]) \/ Has(q.pending, x, article[x].finger[1])
      BY <3>2 DEF Has
    <3>4. Has(index, x, article[x].finger[1]) \/ Has(more, x, article[x].finger[1])
      BY <1>8, <2>1, <3>3
    <3> QED
      BY <3>4 DEF Has
  <2> QED
    BY <2>2, <2>3
<1>15. \A x \in Posts : x <= p => Covered(x, index \cup more)'
  BY <1>12, <1>14 DEF Covered
<1>16. ReaderSound(n)'
  BY <1>8, <1>10, <1>12, <1>15 DEF ReaderSound, EntriesSound
<1>17. EntriesSound(index)' /\ ready \in BOOLEAN
  BY <1>12 DEF PublishedInv, EntriesSound
<1> QED
  BY <1>10, <1>11, <1>12, <1>13, <1>16, <1>17, ReaderTurns

LEMMA IndexCompleteKept ==
  ASSUME Published!IndexOK, PublishedInv, NEW r \in Readers, Published!CompleteBackfill(r) PROVE PublishedInv'
<1>1. PICK q \in ReaderRow : q = reader[r]
  BY DEF PublishedInv
<1>2. q.pc = "page" /\ ReaderSound(q) /\ Published!Beyond(q.cursor) = {}
  BY <1>1 DEF PublishedInv, Published!CompleteBackfill, Published!At
<1>3. q.pending \in SUBSET PublishedRow /\ EntriesSound(q.pending) /\ index \in SUBSET PublishedRow
  BY <1>2 DEF ReaderSound, ReaderRow, PublishedInv, EntriesSound
<1>4. index' = index \cup {e \in q.pending : [e EXCEPT !.proof = "confirmed"] \notin index}
  BY <1>1, Zenon DEF Published!CompleteBackfill
<1>5. UNCHANGED <<article, delivered, unproven>> /\ ready' = TRUE
  BY DEF Published!CompleteBackfill
<1>6. EntriesSound(index)'
  BY <1>3, <1>4, <1>5 DEF PublishedInv, EntriesSound
<1>7. ASSUME NEW x, NEW u, Has(index \cup q.pending, x, u) PROVE Has(index', x, u)
  <2>1. PICK e \in index \cup q.pending : e.post = x /\ e.text = u
    BY <1>7 DEF Has
  <2>2. CASE e \in index'
    BY <2>1, <2>2 DEF Has
  <2>3. CASE e \notin index'
    <3>1. PICK c : c = [e EXCEPT !.proof = "confirmed"]
      OBVIOUS
    <3>2. e \in PublishedRow
      BY <1>3, <2>1
    <3>3. c.post = e.post /\ c.text = e.text
      BY <3>1, <3>2 DEF PublishedRow
    <3>4. c \in index
      BY <1>4, <2>1, <2>3, <3>1, Zenon
    <3>5. c \in index'
      BY <1>4, <3>4, Zenon
    <3> QED
      BY <2>1, <3>3, <3>5 DEF Has
  <2> QED
    BY <2>2, <2>3
<1>8. ASSUME NEW x \in Posts PROVE Covered(x, index)'
  <2>0. x \in Nat /\ q.cursor \in Nat
    BY DEF Published!IndexOK, ReaderRow
  <2>1. CASE x <= q.cursor
    <3>1. Covered(x, index \cup q.pending)
      BY <1>2, <2>1 DEF ReaderSound
    <3> QED
      BY <1>5, <1>7, <3>1 DEF Covered
  <2>2. CASE x > q.cursor
    BY <1>2, <1>5, <2>2 DEF Covered, Published!Beyond, Published!Historical
  <2> QED
    BY <2>0, <2>1, <2>2
<1>9. PICK n : n = [Published!Idle EXCEPT !.pc = "find"]
  OBVIOUS
<1>10. n \in ReaderRow /\ n.pc = "find" /\ n.pending = {}
  BY <1>9 DEF Published!Idle, Published!NoRow, ReaderRow, OldRow, Fingers
<1>11. reader' = [reader EXCEPT ![r] = n]
  BY <1>9, Zenon DEF Published!CompleteBackfill, Published!Go
<1>12. ReaderSound(n)'
  BY <1>5, <1>10 DEF ReaderSound, EntriesSound
<1>13. \A p \in Posts, t \in 1..2 : Has(index, p, t) => Has(index', p, t)
  BY <1>7 DEF Has
<1> QED
  BY <1>5, <1>6, <1>8, <1>10, <1>11, <1>12, <1>13, ReaderTurns

LEMMA PublishedInit == Published!IndexOK /\ Published!Init => PublishedInv
<1> SUFFICES ASSUME Published!IndexOK, Published!Init PROVE PublishedInv
  OBVIOUS
<1>1. /\ article \in [Posts -> UNION {Published!Old(p) : p \in Posts}]
      /\ \A p \in Posts : article[p] \in Published!Old(p)
      /\ index = {} /\ ready = FALSE /\ reader = [r \in Readers |-> Published!Idle]
      /\ delivered = {<<p, 1>> : p \in {q \in Posts : article[q].live}}
  BY DEF Published!Init
<1>2. ASSUME NEW p \in Posts, NEW a, a = article[p]
      PROVE  /\ a \in ArticleRow /\ (Known(a.finger) => a.finger[1] = 1 /\ a.live) /\ (p \in Imported => a.live)
  <2>1. a \in Published!Old(p)
    BY <1>1, <1>2
  <2>2. /\ a \in [text : 1..2, media : {1}, finger : {Published!Unknown, <<1, 1>>}, status : {"draft", "published"}, live : BOOLEAN]
        /\ ~a.live => p \notin Imported /\ a.finger = Published!Unknown
    BY <2>1 DEF Published!Old, Published!Texts
  <2>3. {Published!Unknown, <<1, 1>>} \subseteq Fingers
    BY DEF Fingers, Published!Payload, Published!Texts
  <2>4. a \in ArticleRow
    BY <2>2, <2>3 DEF ArticleRow
  <2> QED
    BY <2>2, <2>4 DEF Known
<1>3. article \in [Posts -> ArticleRow]
  BY <1>1, <1>2
<1>4. \A p \in Posts : article[p].live => <<p, 1>> \in delivered
  BY <1>1
<1>5. delivered \subseteq Posts \X (1..2)
  BY <1>1
<1>6. ArticlesSound
  BY <1>2, <1>3, <1>4, <1>5 DEF ArticlesSound
<1>7. PICK n : n = Published!Idle
  OBVIOUS
<1>8. n \in ReaderRow /\ n.pc = "idle" /\ n.pending = {}
  BY <1>7 DEF Published!Idle, Published!NoRow, ReaderRow, OldRow, Fingers
<1>9. ReaderSound(n)
  BY <1>8 DEF ReaderSound, EntriesSound
<1>10. reader \in [Readers -> ReaderRow] /\ \A r \in Readers : ReaderSound(reader[r])
  BY <1>1, <1>7, <1>8, <1>9
<1> QED
  BY <1>1, <1>6, <1>10 DEF PublishedInv, EntriesSound

LEMMA PublishedStep ==
  ASSUME Published!IndexOK, PublishedInv, [Published!Next]_(Published!published) PROVE PublishedInv'
<1>1. CASE UNCHANGED Published!published
  <2>1. UNCHANGED <<article, index, ready, reader, delivered, unproven>>
    BY <1>1 DEF Published!published
  <2>2. EntriesSound(index)' /\ ArticlesSound'
    BY <2>1 DEF PublishedInv, EntriesSound, ArticlesSound, Known
  <2>3. Onward
    BY <2>1, <2>2 DEF Onward
  <2> QED
    BY <2>1, <2>3, PublishedMoves DEF PublishedInv
<1>2. ASSUME NEW p \in Posts, Published!EditPost(p) \/ Published!CreatePostRevision(p) \/ Published!MarkPublished(p)
      PROVE  PublishedInv'
  BY <1>2, EditKept, ImportKept, PublishedKept
<1>3. ASSUME NEW p \in Posts,
             Published!ClaimForPublishing(p) \/ Published!PublishingEnds(p) \/ Published!RecordImportedPublishedContent(p)
      PROVE  PublishedInv'
  BY <1>3, StatusKept, ImportKept
<1>4. ASSUME NEW r \in Readers,
             \/ Published!EnsurePublishedContentIndex(r) \/ Published!FindPublishedDiscoveryReferences(r)
             \/ Published!RequestFails(r)
      PROVE  PublishedInv'
  BY <1>4, BeginKept
<1>5. ASSUME NEW r \in Readers,
             \/ Published!ReadPublishedIndexBackfillPage(r) \/ Published!BackfillPost(r)
             \/ Published!CompleteBackfill(r)
      PROVE  PublishedInv'
  BY <1>5, PageKept, BackfillKept, IndexCompleteKept
<1> QED
  BY <1>1, <1>2, <1>3, <1>4, <1>5 DEF Published!Next

\* The inductive invariant of the index of published content (internal/store/content_discovery_history.go): a
\* fingerprint is of a delivered text, and a request that reads the old rows has every post up to its cursor.
THEOREM IndexSound == Published!IndexOK /\ PublishedSpec => []PublishedInv
<1> SUFFICES ASSUME Published!IndexOK PROVE PublishedSpec => []PublishedInv
  OBVIOUS
<1>1. Published!Init => PublishedInv
  BY PublishedInit
<1>2. PublishedInv /\ [Published!Next]_(Published!published) => PublishedInv'
  BY PublishedStep
<1> QED
  BY <1>1, <1>2, PTL DEF PublishedSpec

\* Whatever is edited, published, imported or read at once: nothing is held against a new idea that never reached the
\* channel, and once the index is called complete it has every post with the text of its fingerprint, except posts
\* edited since with no revision of that text.
THEOREM IndexHoldsWhatWasPublished ==
  Published!IndexOK /\ PublishedSpec => [](Published!OnlyDelivered /\ Published!IndexComplete)
<1> SUFFICES ASSUME Published!IndexOK PROVE PublishedSpec => [](Published!OnlyDelivered /\ Published!IndexComplete)
  OBVIOUS
<1>1. PublishedInv => Published!OnlyDelivered /\ Published!IndexComplete
  <2> SUFFICES ASSUME PublishedInv PROVE Published!OnlyDelivered /\ Published!IndexComplete
    OBVIOUS
  <2>1. Published!OnlyDelivered
    BY DEF PublishedInv, EntriesSound, Published!OnlyDelivered
  <2>2. \A r \in Readers : Published!At(r, "find") => ready
    BY DEF PublishedInv, ReaderSound, Published!At
  <2>3. ready => \A p \in Posts : article[p].live /\ article[p].finger # Published!Unknown /\ p \notin unproven =>
                   \E e \in index : e.post = p /\ e.text = article[p].finger[1]
    BY DEF PublishedInv, Covered, Known, Has
  <2> QED
    BY <2>1, <2>2, <2>3 DEF Published!IndexComplete
<1> QED
  BY <1>1, IndexSound, PTL
----------------------------------------------------------------------------
(* Statistics: what is stored is true of the publication it is stored with. *)
Stats == INSTANCE Statistics
StatisticsSpec == Stats!Init /\ [][Stats!Next]_(Stats!statistics)

OnPost == {"claim", "again", "read", "gone", "pin", "store", "set", "look", "clear", "flag", "delete", "forget"}
StatRow == [status : {"draft", "published", "publishing", "missing"}, message : Nat, published : Int,
            attempted : Int, synced : Int, pinned : BOOLEAN, views : Nat]
RunnerRow == [at : OnPost \cup {"idle", "due", "count", "chat", "sync"}, task : Tasks \cup {""}, post : Posts \cup {0},
              message : Nat, stamp : Nat, read : Nat, pinned : BOOLEAN]
ReadingRow == [stamp : Int, read : Int]

\* A row names a message made for its post; without one it is a draft or missing, and what it shows is its message's.
StatSound(p, stored) ==
  /\ stored.message # 0 => stored.message \in 1..Len(origin) /\ origin[stored.message] = p
  /\ stored.status \in {"published", "publishing"} => stored.message # 0 /\ stored.views \in {0, stored.message}
  /\ stored.status \in {"draft", "missing"} => stored.message = 0
  /\ stored.pinned => stored.message \in topped
\* A message that is there is the one its post names.
LiveSound == \A m \in live : m \in 1..Len(origin) /\ stat[origin[m]].message = m
\* Who found a message gone, or deleted it, is right for ever: no identifier is used twice.
RunnerSound(q) ==
  /\ q.at \in OnPost => q.post \in Posts /\ q.message \in 1..Len(origin)
  /\ q.at \in {"gone", "forget"} => q.message \notin live
  /\ q.pinned => q.at \in {"store", "flag"} /\ q.message \in topped
  /\ q.stamp <= minute
DaysSound ==
  /\ minute \in 0..MaxTime
  /\ counter \in [attempted : Int, synced : Int, info : Int, read : Int]
  /\ daily \in [0..(MaxTime \div Day) -> ReadingRow]
  /\ Stats!DaysAgree
MessagesSound == origin \in Seq(Posts) /\ live \subseteq Nat /\ top \in {0} \cup topped
StatisticsInv ==
  /\ MessagesSound /\ LiveSound /\ DaysSound
  /\ stat \in [Posts -> StatRow] /\ \A p \in Posts : StatSound(p, stat[p])
  /\ runner \in [Callers -> RunnerRow] /\ \A c \in Callers : RunnerSound(runner[c])

\* The invariant implies the properties.
LEMMA StatisticsProperties == StatisticsInv => Stats!MetadataOwn /\ Stats!ClearedGone /\ Stats!DaysAgree
<1> SUFFICES ASSUME StatisticsInv PROVE Stats!MetadataOwn /\ Stats!ClearedGone /\ Stats!DaysAgree
  OBVIOUS
<1>1. Stats!MetadataOwn
  BY DEF StatisticsInv, StatSound, Stats!MetadataOwn
<1>2. Stats!ClearedGone
  <2> SUFFICES ASSUME NEW p \in Posts, stat[p].status \in {"missing", "draft"}, NEW m \in live PROVE origin[m] # p
    BY DEF Stats!ClearedGone
  <2>1. stat[p].message = 0
    BY DEF StatisticsInv, StatSound
  <2> QED
    BY <2>1 DEF StatisticsInv, LiveSound, MessagesSound
<1> QED
  BY <1>1, <1>2 DEF StatisticsInv, DaysSound

LEMMA IdleSound == ASSUME minute \in Nat PROVE Stats!Idle \in RunnerRow /\ RunnerSound(Stats!Idle)
<1>1. "idle" \in OnPost \cup {"idle", "due", "count", "chat", "sync"} /\ "" \in Tasks \cup {""} /\ 0 \in Posts \cup {0}
  OBVIOUS
<1>2. 0 \in Nat /\ FALSE \in BOOLEAN
  OBVIOUS
<1>3. PICK r : r = Stats!Idle
  OBVIOUS
<1>4. r \in RunnerRow
  BY <1>1, <1>2, <1>3 DEF RunnerRow, Stats!Idle
<1>5. r.at = "idle" /\ r.pinned = FALSE /\ r.stamp = 0
  BY <1>3 DEF Stats!Idle
<1>6. RunnerSound(r)
  BY <1>5 DEF RunnerSound, OnPost
<1> QED
  BY <1>3, <1>4, <1>6

LEMMA StatisticsInit == ASSUME Stats!StatisticsOK, Stats!Init PROVE StatisticsInv
<1>1. Stats!Never \in Int /\ MaxTime \div Day \in Nat
  BY DEF Stats!StatisticsOK, Stats!Never
<1>2. MessagesSound /\ LiveSound
  BY DEF Stats!Init, MessagesSound, LiveSound
<1>3. DaysSound
  BY <1>1 DEF Stats!Init, Stats!StatisticsOK, DaysSound, Stats!DaysAgree, ReadingRow
<1>4. stat \in [Posts -> StatRow] /\ \A p \in Posts : StatSound(p, stat[p])
  BY <1>1 DEF Stats!Init, StatRow, StatSound
<1>5. runner \in [Callers -> RunnerRow] /\ \A c \in Callers : RunnerSound(runner[c])
  <2>1. PICK r : r = Stats!Idle
    OBVIOUS
  <2>2. r \in RunnerRow /\ RunnerSound(r)
    BY <1>3, <2>1, IdleSound DEF DaysSound
  <2> QED
    BY <2>1, <2>2 DEF Stats!Init
<1> QED
  BY <1>2, <1>3, <1>4, <1>5 DEF StatisticsInv

\* A step that leaves MAX and the channel's rows alone, and whose rows and runners are sound.
LEMMA RowsStep ==
  ASSUME StatisticsInv, UNCHANGED <<minute, origin, live, top, topped, counter, daily>>,
         stat' \in [Posts -> StatRow], runner' \in [Callers -> RunnerRow],
         \A p \in Posts : StatSound(p, stat'[p]) /\ (stat'[p].message = stat[p].message \/ stat[p].message \notin live),
         \A c \in Callers : RunnerSound(runner'[c])
  PROVE  StatisticsInv'
<1>1. MessagesSound' /\ DaysSound'
  BY DEF StatisticsInv, MessagesSound, DaysSound, Stats!DaysAgree, Stats!Never
<1>2. LiveSound'
  BY DEF StatisticsInv, MessagesSound, LiveSound
<1>3. \A p \in Posts : StatSound(p, stat[p])'
  BY DEF StatSound
<1>4. \A c \in Callers : RunnerSound(runner[c])'
  BY DEF RunnerSound
<1> QED
  BY <1>1, <1>2, <1>3, <1>4 DEF StatisticsInv

\* One runner goes on.
LEMMA RunnerTo ==
  ASSUME StatisticsInv, NEW c \in Callers, NEW r \in RunnerRow, RunnerSound(r), runner' = [runner EXCEPT ![c] = r]
  PROVE  runner' \in [Callers -> RunnerRow] /\ \A x \in Callers : RunnerSound(runner'[x])
BY DEF StatisticsInv

LEMMA OnlyRunner ==
  ASSUME StatisticsInv, NEW c \in Callers, NEW r \in RunnerRow, RunnerSound(r), runner' = [runner EXCEPT ![c] = r],
         UNCHANGED <<minute, stat, origin, live, top, topped, counter, daily>>
  PROVE  StatisticsInv'
<1>1. runner' \in [Callers -> RunnerRow] /\ \A x \in Callers : RunnerSound(runner'[x])
  BY RunnerTo
<1>2. \A p \in Posts : StatSound(p, stat'[p]) /\ stat'[p].message = stat[p].message
  BY DEF StatisticsInv
<1>3. stat' \in [Posts -> StatRow]
  BY DEF StatisticsInv
<1> QED
  BY <1>1, <1>2, <1>3, RowsStep


\* A request that stops, or only moves on.
LEMMA StopsKept ==
  ASSUME StatisticsInv, NEW c \in Callers, Stats!Stops(c), UNCHANGED <<minute, stat, origin, live, top, topped, counter, daily>>
  PROVE  StatisticsInv'
<1>1. PICK r : r = Stats!Idle
  OBVIOUS
<1>2. runner' = [runner EXCEPT ![c] = r]
  BY <1>1, Zenon DEF Stats!Stops
<1>3. minute \in Nat
  BY DEF StatisticsInv, DaysSound
<1>4. r \in RunnerRow /\ RunnerSound(r)
  BY <1>1, <1>3, IdleSound
<1> QED
  BY <1>2, <1>4, OnlyRunner

LEMMA RunnerGoes ==
  ASSUME StatisticsInv, NEW c \in Callers, NEW at \in OnPost \cup {"idle", "due", "count", "chat", "sync"}, Stats!Goes(c, at)
  PROVE  \E r \in RunnerRow :
           /\ runner' = [runner EXCEPT ![c] = r]
           /\ r.at = at /\ r.post = runner[c].post /\ r.message = runner[c].message /\ r.stamp = runner[c].stamp
           /\ r.pinned = runner[c].pinned
<1>1. PICK q \in RunnerRow : q = runner[c]
  BY DEF StatisticsInv
<1>2. PICK r : r = [q EXCEPT !.at = at]
  OBVIOUS
<1>3. /\ r \in RunnerRow /\ r.at = at /\ r.post = q.post /\ r.message = q.message /\ r.stamp = q.stamp
      /\ r.pinned = q.pinned
  BY <1>2 DEF RunnerRow
<1>4. runner' = [runner EXCEPT ![c] = r]
  BY <1>1, <1>2, Zenon DEF Stats!Goes
<1> QED
  BY <1>1, <1>3, <1>4

\* A row that is published, or is being updated, names a message.
LEMMA RowOf ==
  ASSUME StatisticsInv, NEW p \in Posts
  PROVE  /\ stat[p] \in StatRow /\ StatSound(p, stat[p]) /\ Len(origin) \in Nat
         /\ stat[p].message # 0 => stat[p].message \in 1..Len(origin)
         /\ stat[p].status = "published" => stat[p].message \in 1..Len(origin)
<1>1. Len(origin) \in Nat
  BY DEF StatisticsInv, MessagesSound
<1> QED
  BY <1>1 DEF StatisticsInv, StatSound

LEMMA TaskStarts ==
  ASSUME StatisticsInv, NEW c \in Callers, NEW task, NEW at \in (OnPost \ {"gone", "forget"}) \cup {"due", "count", "chat"},
         NEW p \in Posts \cup {0}, NEW m \in Nat, at \in OnPost => p \in Posts /\ m \in 1..Len(origin),
         Stats!Starts(c, task, at, p, m), UNCHANGED <<minute, stat, origin, live, top, topped, counter, daily>>
  PROVE  StatisticsInv'
<1>1. minute \in Nat
  BY DEF StatisticsInv, DaysSound
<1>2. PICK q : q = Stats!Idle
  OBVIOUS
<1>3. q \in RunnerRow /\ q.pinned = FALSE
  BY <1>1, <1>2, IdleSound DEF Stats!Idle
<1>4. PICK r : r = [q EXCEPT !.task = task, !.at = at, !.post = p, !.message = m, !.stamp = minute]
  OBVIOUS
<1>5. runner' = [runner EXCEPT ![c] = r] /\ task \in Tasks
  BY <1>2, <1>4, Zenon DEF Stats!Starts
<1>6. /\ r \in RunnerRow /\ r.at = at /\ r.post = p /\ r.message = m /\ r.stamp = minute /\ r.pinned = FALSE
  BY <1>1, <1>3, <1>4, <1>5 DEF RunnerRow
<1>7. RunnerSound(r)
  BY <1>1, <1>6 DEF RunnerSound, OnPost
<1> QED
  BY <1>5, <1>6, <1>7, OnlyRunner

LEMMA BeginsKept ==
  ASSUME StatisticsInv, NEW c \in Callers,
         \/ Stats!BeginCycle(c) \/ Stats!SyncMAXPublication(c) \/ Stats!PinPost(c) \/ Stats!UnpinPost(c)
         \/ Stats!DeletePublication(c) \/ Stats!BeginParticipants(c) \/ Stats!TestChannel(c)
  PROVE  StatisticsInv'
<1>1. UNCHANGED <<minute, stat, origin, live, top, topped, counter, daily>>
  BY DEF Stats!BeginCycle, Stats!SyncMAXPublication, Stats!PinPost, Stats!UnpinPost, Stats!DeletePublication,
         Stats!BeginParticipants, Stats!TestChannel, Stats!inMAX, Stats!channelRows
<1>2. CASE Stats!BeginCycle(c) \/ Stats!BeginParticipants(c) \/ Stats!TestChannel(c)
  <2>1. \/ Stats!Starts(c, "stats", "due", 0, 0) \/ Stats!Starts(c, "participants", "count", 0, 0)
        \/ Stats!Starts(c, "profile", "chat", 0, 0)
    BY <1>2 DEF Stats!BeginCycle, Stats!BeginParticipants, Stats!TestChannel
  <2>2. \A at \in {"due", "count", "chat"} : at \notin OnPost
    BY DEF OnPost
  <2>3. ASSUME NEW task, NEW at \in {"due", "count", "chat"}, Stats!Starts(c, task, at, 0, 0) PROVE StatisticsInv'
    BY <1>1, <2>2, <2>3, TaskStarts
  <2> QED
    BY <2>1, <2>3
<1>3. CASE Stats!SyncMAXPublication(c) \/ Stats!PinPost(c) \/ Stats!UnpinPost(c) \/ Stats!DeletePublication(c)
  <2>1. PICK p \in Posts :
          /\ stat[p].status = "published" \/ stat[p].message # 0
          /\ \/ Stats!Starts(c, "sync", "claim", p, stat[p].message) \/ Stats!Starts(c, "pin", "set", p, stat[p].message)
             \/ Stats!Starts(c, "unpin", "look", p, stat[p].message)
             \/ Stats!Starts(c, "delete", "delete", p, stat[p].message)
    BY <1>3, Zenon DEF Stats!SyncMAXPublication, Stats!PinPost, Stats!UnpinPost, Stats!DeletePublication
  <2>2. PICK m : m = stat[p].message
    OBVIOUS
  <2>3. m \in Nat /\ m \in 1..Len(origin)
    BY <2>1, <2>2, RowOf DEF StatRow
  <2>4. \A at \in {"claim", "set", "look", "delete"} : at \in OnPost \ {"gone", "forget"}
    BY DEF OnPost
  <2>5. ASSUME NEW task, NEW at \in {"claim", "set", "look", "delete"}, Stats!Starts(c, task, at, p, m)
        PROVE  StatisticsInv'
    BY <1>1, <2>3, <2>4, <2>5, TaskStarts
  <2> QED
    BY <2>1, <2>2, <2>5
<1> QED
  BY <1>2, <1>3

\* The scheduler finds a post, and reads its row again.
LEMMA FindsPostKept ==
  ASSUME StatisticsInv, NEW c \in Callers, NEW p \in Posts, stat[p].status = "published", NEW at \in {"claim", "read"},
         ~runner[c].pinned,
         runner' = [runner EXCEPT ![c].at = at, ![c].post = p, ![c].message = stat[p].message],
         UNCHANGED <<minute, stat, origin, live, top, topped, counter, daily>>
  PROVE  StatisticsInv'
<1>1. PICK q \in RunnerRow : q = runner[c]
  BY DEF StatisticsInv
<1>2. RunnerSound(q) /\ ~q.pinned
  BY <1>1 DEF StatisticsInv
<1>3. PICK m : m = stat[p].message
  OBVIOUS
<1>4. m \in Nat /\ m \in 1..Len(origin)
  BY <1>3, RowOf DEF StatRow
<1>5. PICK r : r = [q EXCEPT !.at = at, !.post = p, !.message = m]
  OBVIOUS
<1>6. r \in RunnerRow /\ r.at = at /\ r.post = p /\ r.message = m /\ r.stamp = q.stamp /\ r.pinned = q.pinned
  BY <1>4, <1>5 DEF RunnerRow, OnPost
<1>7. RunnerSound(r)
  BY <1>2, <1>4, <1>6 DEF RunnerSound, OnPost
<1>8. runner' = [runner EXCEPT ![c] = r]
  BY <1>1, <1>3, <1>5 DEF StatisticsInv, RunnerRow
<1> QED
  BY <1>6, <1>7, <1>8, OnlyRunner

LEMMA SchedulerReadsKept ==
  ASSUME StatisticsInv, NEW c \in Callers, Stats!ListPostsDueForStats(c) \/ Stats!SyncForWorker(c) PROVE StatisticsInv'
<1>1. UNCHANGED <<minute, stat, origin, live, top, topped, counter, daily>>
  BY DEF Stats!ListPostsDueForStats, Stats!SyncForWorker, Stats!inMAX, Stats!channelRows
<1>2. runner[c].at \in {"due", "again"} /\ ~runner[c].pinned
  BY DEF StatisticsInv, RunnerSound, Stats!ListPostsDueForStats, Stats!SyncForWorker, Stats!Runs
<1>3. CASE Stats!ListPostsDueForStats(c)
  BY <1>1, <1>2, <1>3, FindsPostKept DEF Stats!ListPostsDueForStats
<1>4. CASE Stats!SyncForWorker(c)
  <2>1. PICK p : p = runner[c].post
    OBVIOUS
  <2>2. p \in Posts
    BY <1>4, <2>1 DEF StatisticsInv, RunnerSound, OnPost, Stats!SyncForWorker, Stats!Runs
  <2>3. CASE stat[p].status = "published"
    <3>1. runner' = [runner EXCEPT ![c].at = "read", ![c].message = stat[p].message]
      BY <1>4, <2>1, <2>3, Zenon DEF Stats!SyncForWorker
    <3>2. runner' = [runner EXCEPT ![c].at = "read", ![c].post = p, ![c].message = stat[p].message]
      BY <2>1, <3>1 DEF StatisticsInv, RunnerRow
    <3> QED
      BY <1>1, <1>2, <2>2, <2>3, <3>2, FindsPostKept
  <2>4. CASE stat[p].status # "published"
    <3>1. Stats!Stops(c)
      BY <1>4, <2>1, <2>4, Zenon DEF Stats!SyncForWorker
    <3> QED
      BY <1>1, <3>1, StopsKept
  <2> QED
    BY <2>3, <2>4
<1> QED
  BY <1>3, <1>4

\* A question to MAX and its answer.
LEMMA GetMessageKept == ASSUME StatisticsInv, NEW c \in Callers, Stats!GetMessage(c) PROVE StatisticsInv'
<1>1. UNCHANGED <<minute, stat, origin, live, top, topped, counter, daily>> /\ runner[c].at = "read"
  BY DEF Stats!GetMessage, Stats!Runs, Stats!inMAX, Stats!channelRows
<1>2. runner[c].post \in Posts /\ runner[c].message \in 1..Len(origin) /\ ~runner[c].pinned /\ runner[c].stamp <= minute
  BY <1>1 DEF StatisticsInv, RunnerSound, OnPost
<1>3. PICK at : at = IF runner[c].message \in live THEN "pin" ELSE "gone"
  OBVIOUS
<1>4. at \in OnPost /\ at \in {"pin", "gone"} /\ (at = "gone" => runner[c].message \notin live)
  BY <1>3 DEF OnPost
<1>5. Stats!Goes(c, at)
  BY <1>3, Zenon DEF Stats!GetMessage
<1>6. PICK r \in RunnerRow : /\ runner' = [runner EXCEPT ![c] = r] /\ r.at = at
                             /\ r.post = runner[c].post /\ r.message = runner[c].message /\ r.stamp = runner[c].stamp
                             /\ r.pinned = runner[c].pinned
  BY <1>4, <1>5, RunnerGoes
<1>7. RunnerSound(r)
  BY <1>2, <1>4, <1>6 DEF RunnerSound
<1> QED
  BY <1>1, <1>6, <1>7, OnlyRunner

LEMMA GetPinnedKept == ASSUME StatisticsInv, NEW c \in Callers, Stats!GetPinnedMessage(c) PROVE StatisticsInv'
<1>1. UNCHANGED <<minute, stat, origin, live, top, topped, counter, daily>> /\ runner[c].at = "pin"
  BY DEF Stats!GetPinnedMessage, Stats!Runs, Stats!inMAX, Stats!channelRows
<1>2. PICK q \in RunnerRow : q = runner[c]
  BY DEF StatisticsInv
<1>3. q.post \in Posts /\ q.message \in 1..Len(origin) /\ q.stamp <= minute
  BY <1>1, <1>2 DEF StatisticsInv, RunnerSound, OnPost
<1>4. PICK flag \in BOOLEAN : flag = (top = q.message)
  OBVIOUS
<1>5. flag => q.message \in topped
  <2>1. flag => top = q.message
    BY <1>4, Zenon
  <2>2. top = q.message => q.message \in topped
    BY <1>3 DEF StatisticsInv, MessagesSound
  <2> QED
    BY <2>1, <2>2
<1>6. PICK r : r = [q EXCEPT !.at = "store", !.pinned = flag]
  OBVIOUS
<1>7. r \in RunnerRow /\ r.at = "store" /\ r.post = q.post /\ r.message = q.message /\ r.stamp = q.stamp /\ r.pinned = flag
  BY <1>6 DEF RunnerRow, OnPost
<1>8. RunnerSound(r)
  BY <1>3, <1>5, <1>7 DEF RunnerSound
<1>9. runner' = [runner EXCEPT ![c].at = "store", ![c].pinned = flag]
  BY <1>2, <1>4 DEF Stats!GetPinnedMessage
<1>10. runner' = [runner EXCEPT ![c] = r]
  BY <1>2, <1>6, <1>9 DEF StatisticsInv, RunnerRow
<1> QED
  BY <1>1, <1>7, <1>8, <1>10, OnlyRunner

LEMMA LookAtPinKept == ASSUME StatisticsInv, NEW c \in Callers, Stats!LookAtPin(c) PROVE StatisticsInv'
<1>1. UNCHANGED <<minute, stat, origin, live, top, topped, counter, daily>> /\ runner[c].at = "look"
  BY DEF Stats!LookAtPin, Stats!Runs, Stats!inMAX, Stats!channelRows
<1>2. runner[c].post \in Posts /\ runner[c].message \in 1..Len(origin) /\ ~runner[c].pinned /\ runner[c].stamp <= minute
  BY <1>1 DEF StatisticsInv, RunnerSound, OnPost
<1>3. PICK at : at = IF top = runner[c].message THEN "clear" ELSE "flag"
  OBVIOUS
<1>4. at \in OnPost /\ at \in {"clear", "flag"}
  BY <1>3 DEF OnPost
<1>5. Stats!Goes(c, at)
  BY <1>3, Zenon DEF Stats!LookAtPin
<1>6. PICK r \in RunnerRow : /\ runner' = [runner EXCEPT ![c] = r] /\ r.at = at
                             /\ r.post = runner[c].post /\ r.message = runner[c].message /\ r.stamp = runner[c].stamp
                             /\ r.pinned = runner[c].pinned
  BY <1>4, <1>5, RunnerGoes
<1>7. RunnerSound(r)
  BY <1>2, <1>4, <1>6 DEF RunnerSound
<1> QED
  BY <1>1, <1>6, <1>7, OnlyRunner

LEMMA GetChatKept == ASSUME StatisticsInv, NEW c \in Callers, Stats!GetChat(c) PROVE StatisticsInv'
<1>1. UNCHANGED <<minute, stat, origin, live, top, topped, counter, daily>> /\ runner[c].at = "chat"
  BY DEF Stats!GetChat, Stats!Runs, Stats!inMAX, Stats!channelRows
<1>2. PICK q \in RunnerRow : q = runner[c]
  BY DEF StatisticsInv
<1>3. minute \in Nat
  BY DEF StatisticsInv, DaysSound
<1>4. PICK r : r = [q EXCEPT !.at = "sync", !.read = minute]
  OBVIOUS
<1>5. r \in RunnerRow /\ r.at = "sync" /\ r.stamp = q.stamp /\ r.pinned = q.pinned
  BY <1>3, <1>4 DEF RunnerRow
<1>6. RunnerSound(r)
  BY <1>1, <1>2, <1>5 DEF RunnerSound, StatisticsInv, OnPost
<1>7. runner' = [runner EXCEPT ![c] = r]
  BY <1>2, <1>4 DEF Stats!GetChat, StatisticsInv, RunnerRow
<1> QED
  BY <1>1, <1>5, <1>6, <1>7, OnlyRunner

LEMMA RequestFailsKept == ASSUME StatisticsInv, NEW c \in Callers, Stats!RequestFails(c) PROVE StatisticsInv'
<1>1. UNCHANGED <<minute, stat, origin, live, top, topped, counter, daily>> /\ Stats!Stops(c)
  BY DEF Stats!RequestFails, Stats!inMAX, Stats!channelRows
<1> QED
  BY <1>1, StopsKept

\* The channel's rows. A step that changes them and a runner.
LEMMA DaysStep ==
  ASSUME StatisticsInv, UNCHANGED <<minute, stat, origin, live, top, topped>>,
         NEW c \in Callers, NEW r \in RunnerRow, RunnerSound(r), runner' = [runner EXCEPT ![c] = r], DaysSound'
  PROVE  StatisticsInv'
<1>1. runner' \in [Callers -> RunnerRow] /\ \A x \in Callers : RunnerSound(runner'[x])
  BY RunnerTo
<1>2. MessagesSound' /\ LiveSound'
  BY DEF StatisticsInv, MessagesSound, LiveSound
<1>3. \A p \in Posts : StatSound(p, stat[p])'
  BY DEF StatisticsInv, StatSound
<1>4. \A x \in Callers : RunnerSound(runner[x])'
  BY <1>1 DEF RunnerSound
<1>5. stat' \in [Posts -> StatRow]
  BY DEF StatisticsInv
<1> QED
  BY <1>1, <1>2, <1>3, <1>4, <1>5 DEF StatisticsInv

LEMMA ParticipantsClaimKept ==
  ASSUME StatisticsInv, NEW c \in Callers, Stats!ClaimChannelParticipantStatsAttempt(c) PROVE StatisticsInv'
<1>1. UNCHANGED <<minute, stat, origin, live, top, topped, daily>> /\ runner[c].at = "count"
  BY DEF Stats!ClaimChannelParticipantStatsAttempt, Stats!Runs, Stats!inMAX
<1>2. PICK q \in RunnerRow : q = runner[c]
  BY DEF StatisticsInv
<1>3. minute \in Nat
  BY DEF StatisticsInv, DaysSound
<1>4. CASE counter.attempted <= q.stamp - Interval
  <2>1. counter' = [counter EXCEPT !.attempted = q.stamp]
    BY <1>2, <1>4, Zenon DEF Stats!ClaimChannelParticipantStatsAttempt
  <2>2. runner' = [runner EXCEPT ![c].at = "chat", ![c].stamp = minute]
    BY <1>2, <1>4, Zenon DEF Stats!ClaimChannelParticipantStatsAttempt
  <2>3. PICK r : r = [q EXCEPT !.at = "chat", !.stamp = minute]
    OBVIOUS
  <2>4. r \in RunnerRow /\ r.at = "chat" /\ r.stamp = minute /\ r.pinned = q.pinned
    BY <1>3, <2>3 DEF RunnerRow
  <2>5. RunnerSound(r)
    BY <1>1, <1>2, <1>3, <2>4 DEF RunnerSound, StatisticsInv, OnPost
  <2>6. runner' = [runner EXCEPT ![c] = r]
    BY <1>2, <2>2, <2>3 DEF StatisticsInv, RunnerRow
  <2>7. /\ counter' \in [attempted : Int, synced : Int, info : Int, read : Int]
        /\ counter'.synced = counter.synced /\ counter'.read = counter.read
    <3>1. PICK k \in [attempted : Int, synced : Int, info : Int, read : Int] : k = counter
      BY DEF StatisticsInv, DaysSound
    <3>2. q.stamp \in Nat
      BY DEF RunnerRow
    <3>3. counter' = [k EXCEPT !.attempted = q.stamp]
      BY <2>1, <3>1
    <3> QED
      BY <3>1, <3>2, <3>3
  <2>8. DaysSound'
    BY <1>1, <2>7 DEF StatisticsInv, DaysSound, Stats!DaysAgree, Stats!Never
  <2> QED
    BY <1>1, <2>4, <2>5, <2>6, <2>8, DaysStep
<1>5. CASE ~(counter.attempted <= q.stamp - Interval)
  <2>1. Stats!Stops(c) /\ UNCHANGED counter
    BY <1>2, <1>5, Zenon DEF Stats!ClaimChannelParticipantStatsAttempt
  <2> QED
    BY <1>1, <2>1, StopsKept
<1> QED
  BY <1>4, <1>5

LEMMA DivOrdered ==
  ASSUME NEW d \in Nat \ {0}, NEW a \in Nat, NEW b \in Nat, a <= b
  PROVE  a \div d \in 0..(b \div d)
OBVIOUS

\* A reading is stored: it is not older than any.
LEMMA SyncChannelKept ==
  ASSUME Stats!StatisticsOK, StatisticsInv, NEW c \in Callers, Stats!SyncChannelMAXInfo(c)
  PROVE  StatisticsInv' /\ Stats!ReadingsStand
<1>1. UNCHANGED <<minute, stat, origin, live, top, topped>> /\ Stats!Stops(c)
  BY DEF Stats!SyncChannelMAXInfo, Stats!inMAX
<1>2. PICK q \in RunnerRow : q = runner[c]
  BY DEF StatisticsInv
<1>3. q.stamp \in Nat /\ q.read \in Nat /\ q.stamp <= MaxTime /\ MaxTime \in Nat /\ Day \in Nat \ {0}
  <2>1. q.stamp \in Nat /\ q.read \in Nat
    BY DEF RunnerRow
  <2>2. q.stamp <= minute
    BY <1>2 DEF StatisticsInv, RunnerSound
  <2>3. minute \in 0..MaxTime /\ MaxTime \in Nat /\ Day \in Nat \ {0}
    BY DEF StatisticsInv, DaysSound, Stats!StatisticsOK
  <2> QED
    BY <2>1, <2>2, <2>3
<1>4. PICK day : day = q.stamp \div Day
  OBVIOUS
<1>5. day \in 0..(MaxTime \div Day)
  BY <1>3, <1>4, DivOrdered
<1>6. CASE Stats!Late(c)
  <2>1. UNCHANGED <<counter, daily>>
    BY <1>6 DEF Stats!SyncChannelMAXInfo, Stats!channelRows
  <2>2. Stats!ReadingsStand
    BY <2>1 DEF Stats!ReadingsStand, StatisticsInv, DaysSound, ReadingRow
  <2> QED
    BY <1>1, <2>1, <2>2, StopsKept
<1>7. CASE ~Stats!Late(c)
  <2>1. counter.synced <= q.stamp
    BY <1>2, <1>3, <1>7 DEF Stats!Late, StatisticsInv, DaysSound
  <2>2. /\ counter' \in [attempted : Int, synced : Int, info : Int, read : Int]
        /\ counter'.synced = q.stamp /\ counter'.read = q.read
    BY <1>2, <1>3, <1>7 DEF Stats!SyncChannelMAXInfo, StatisticsInv, DaysSound
  <2>3. PICK reading : reading = [stamp |-> q.stamp, read |-> q.read]
    OBVIOUS
  <2>4. reading \in ReadingRow /\ reading.stamp = q.stamp
    BY <1>3, <2>3 DEF ReadingRow
  <2>5. daily' = [daily EXCEPT ![day] = IF q.stamp >= daily[day].stamp THEN reading ELSE daily[day]]
    BY <1>2, <1>4, <1>7, <2>3, Zenon DEF Stats!SyncChannelMAXInfo
  <2>6. \A d \in 0..(MaxTime \div Day) : daily[d].stamp <= counter.synced /\ daily[d] \in ReadingRow
    BY DEF StatisticsInv, DaysSound, Stats!DaysAgree
  <2>7. daily' = [daily EXCEPT ![day] = reading]
    <3>1. PICK old \in ReadingRow : old = daily[day]
      BY <1>5, <2>6
    <3>2. old.stamp <= counter.synced /\ old.stamp \in Int /\ counter.synced \in Int
      BY <1>5, <2>6, <3>1 DEF ReadingRow, StatisticsInv, DaysSound
    <3>3. q.stamp >= old.stamp
      BY <1>3, <2>1, <3>2
    <3> QED
      BY <2>5, <3>1, <3>3, Zenon
  <2>8. daily' \in [0..(MaxTime \div Day) -> ReadingRow]
    BY <2>4, <2>7 DEF StatisticsInv, DaysSound
  <2>9. /\ daily'[day] = reading
        /\ \A d \in 0..(MaxTime \div Day) : d # day => daily'[d] = daily[d]
    BY <1>5, <2>7 DEF StatisticsInv, DaysSound
  <2>10. \A d \in 0..(MaxTime \div Day) : daily'[d].stamp <= q.stamp /\ daily[d].stamp <= daily'[d].stamp
    <3> SUFFICES ASSUME NEW d \in 0..(MaxTime \div Day)
                 PROVE  daily'[d].stamp <= q.stamp /\ daily[d].stamp <= daily'[d].stamp
      OBVIOUS
    <3>1. PICK old \in ReadingRow : old = daily[d]
      BY <2>6
    <3>2. old.stamp <= counter.synced /\ old.stamp \in Int /\ counter.synced \in Int
      BY <2>6, <3>1 DEF ReadingRow, StatisticsInv, DaysSound
    <3>3. daily'[d] \in {old, reading}
      BY <2>9, <3>1
    <3> QED
      BY <1>3, <2>1, <2>4, <3>1, <3>2, <3>3
  <2>11. DaysSound'
    <3>1. Stats!DaysAgree'
      BY <1>4, <2>2, <2>3, <2>8, <2>9, <2>10 DEF Stats!DaysAgree, Stats!Never
    <3> QED
      BY <1>1, <2>2, <2>8, <3>1 DEF StatisticsInv, DaysSound
  <2>12. Stats!ReadingsStand
    BY <2>1, <2>2, <2>10 DEF Stats!ReadingsStand, StatisticsInv, DaysSound
  <2>13. PICK r : r = Stats!Idle
    OBVIOUS
  <2>14. minute \in Nat
    BY DEF StatisticsInv, DaysSound
  <2>15. r \in RunnerRow /\ RunnerSound(r)
    BY <2>13, <2>14, IdleSound
  <2>16. runner' = [runner EXCEPT ![c] = r]
    BY <1>1, <2>13, Zenon DEF Stats!Stops
  <2> QED
    BY <1>1, <2>11, <2>12, <2>15, <2>16, DaysStep
<1> QED
  BY <1>6, <1>7

\* One row changes, and perhaps one runner.
LEMMA OneRow ==
  ASSUME StatisticsInv, UNCHANGED <<minute, origin, live, top, topped, counter, daily>>,
         NEW p \in Posts, NEW stored \in StatRow, StatSound(p, stored), stored.message = stat[p].message \/ stat[p].message \notin live,
         stat' = [stat EXCEPT ![p] = stored],
         runner' \in [Callers -> RunnerRow], \A c \in Callers : RunnerSound(runner'[c])
  PROVE  StatisticsInv'
<1>1. stat' \in [Posts -> StatRow]
  BY DEF StatisticsInv
<1>2. \A x \in Posts : StatSound(x, stat'[x]) /\ (stat'[x].message = stat[x].message \/ stat[x].message \notin live)
  BY DEF StatisticsInv
<1> QED
  BY <1>1, <1>2, RowsStep

LEMMA StopsSound ==
  ASSUME StatisticsInv, NEW c \in Callers, Stats!Stops(c)
  PROVE  runner' \in [Callers -> RunnerRow] /\ \A x \in Callers : RunnerSound(runner'[x])
<1>1. PICK r : r = Stats!Idle
  OBVIOUS
<1>2. minute \in Nat
  BY DEF StatisticsInv, DaysSound
<1>3. r \in RunnerRow /\ RunnerSound(r)
  BY <1>1, <1>2, IdleSound
<1>4. runner' = [runner EXCEPT ![c] = r]
  BY <1>1, Zenon DEF Stats!Stops
<1> QED
  BY <1>3, <1>4, RunnerTo

\* The flag of a post is set with the message it is about; the others only lose theirs.
LEMMA FlagKept ==
  ASSUME StatisticsInv, UNCHANGED <<minute, origin, live, top, topped, counter, daily>>,
         NEW c \in Callers, Stats!Stops(c), NEW rows \in [Posts -> StatRow],
         \A x \in Posts : StatSound(x, rows[x]) /\ rows[x].message = stat[x].message,
         runner[c].post \in Posts, runner[c].pinned => runner[c].message \in topped, Stats!Locked(c),
         stat' = Stats!Flagged(c, rows)
  PROVE  StatisticsInv'
<1>1. PICK q \in RunnerRow : q = runner[c]
  BY DEF StatisticsInv
<1>2. q.pinned \in BOOLEAN /\ rows[q.post].message = q.message
  BY <1>1 DEF RunnerRow, Stats!Locked
<1>3. ASSUME NEW x \in Posts PROVE stat'[x] \in StatRow /\ StatSound(x, stat'[x]) /\ stat'[x].message = stat[x].message
  <2>1. PICK o \in StatRow : o = rows[x]
    OBVIOUS
  <2>2. StatSound(x, o) /\ o.message = stat[x].message
    BY <2>1
  <2>3. \E b \in BOOLEAN : /\ stat'[x] = [o EXCEPT !.pinned = b] \/ stat'[x] = o
                           /\ b => b = FALSE \/ (x = q.post /\ q.pinned)
    <3>1. CASE x = q.post
      <4>1. stat'[x] = [o EXCEPT !.pinned = q.pinned]
        BY <1>1, <2>1, <3>1 DEF Stats!Flagged
      <4> QED
        BY <1>2, <3>1, <4>1, Zenon
    <3>2. CASE x # q.post
      <4>1. stat'[x] = [o EXCEPT !.pinned = FALSE] \/ stat'[x] = o
        BY <1>1, <2>1, <3>2 DEF Stats!Flagged
      <4> QED
        BY <4>1
    <3> QED
      BY <3>1, <3>2
  <2>4. PICK b \in BOOLEAN : /\ stat'[x] = [o EXCEPT !.pinned = b] \/ stat'[x] = o
                             /\ b => x = q.post /\ q.pinned
    BY <2>3
  <2>5. CASE stat'[x] = o
    BY <2>2, <2>5
  <2>6. CASE stat'[x] = [o EXCEPT !.pinned = b]
    <3>1. PICK n : n = [o EXCEPT !.pinned = b]
      OBVIOUS
    <3>2. n \in StatRow /\ n.status = o.status /\ n.message = o.message /\ n.views = o.views /\ n.pinned = b
      BY <3>1 DEF StatRow
    <3>3. b => o.message \in topped
      BY <1>1, <1>2, <2>1, <2>4
    <3>4. StatSound(x, n)
      BY <2>2, <3>2, <3>3 DEF StatSound
    <3> QED
      BY <2>2, <2>6, <3>1, <3>2, <3>4
  <2> QED
    BY <2>4, <2>5, <2>6
<1>4. stat' = [x \in Posts |-> stat'[x]]
  BY DEF Stats!Flagged
<1>5. stat' \in [Posts -> StatRow]
  BY <1>3, <1>4
<1> QED
  BY <1>3, <1>5, StopsSound, RowsStep

LEMMA SetPinnedKept == ASSUME StatisticsInv, NEW c \in Callers, Stats!SetPublicationPinned(c) PROVE StatisticsInv'
<1>1. /\ UNCHANGED <<minute, origin, live, top, topped, counter, daily>> /\ runner[c].at = "flag" /\ Stats!Stops(c)
      /\ Stats!Locked(c) => stat' = Stats!Flagged(c, stat)
      /\ ~Stats!Locked(c) => stat' = stat
  BY DEF Stats!SetPublicationPinned, Stats!Runs, Stats!inMAX, Stats!channelRows
<1>2. runner[c].post \in Posts /\ (runner[c].pinned => runner[c].message \in topped)
  BY <1>1 DEF StatisticsInv, RunnerSound, OnPost
<1>3. CASE Stats!Locked(c)
  <2>1. stat \in [Posts -> StatRow] /\ \A x \in Posts : StatSound(x, stat[x])
    BY DEF StatisticsInv
  <2> QED
    BY <1>1, <1>2, <1>3, <2>1, FlagKept
<1>4. CASE ~Stats!Locked(c)
  BY <1>1, <1>4, StopsKept
<1> QED
  BY <1>3, <1>4

LEMMA SyncMetadataKept == ASSUME StatisticsInv, NEW c \in Callers, Stats!SyncPublicationMetadata(c) PROVE StatisticsInv'
<1>1. PICK p : p = runner[c].post
  OBVIOUS
<1>2. PICK q \in RunnerRow : q = runner[c]
  BY DEF StatisticsInv
<1>3. /\ UNCHANGED <<minute, origin, live, top, topped, counter, daily>> /\ q.at = "store" /\ Stats!Stops(c)
      /\ ~Stats!Locked(c) => stat' = stat
  BY <1>2 DEF Stats!SyncPublicationMetadata, Stats!Runs, Stats!inMAX, Stats!channelRows
<1>4. p \in Posts /\ (q.pinned => q.message \in topped)
  BY <1>1, <1>2, <1>3 DEF StatisticsInv, RunnerSound, OnPost
<1>5. CASE Stats!Locked(c)
  <2>1. PICK o \in StatRow : o = stat[p]
    BY <1>4 DEF StatisticsInv
  <2>2. StatSound(p, o) /\ o.status = "published" /\ o.message = q.message
    BY <1>1, <1>2, <1>4, <1>5, <2>1 DEF StatisticsInv, Stats!Locked
  <2>3. q.message \in Nat /\ q.stamp \in Int
    <3>1. q.message \in Nat /\ q.stamp \in Nat
      BY DEF RunnerRow
    <3> QED
      BY <3>1
  <2>4. PICK n : n = [o EXCEPT !.views = q.message, !.synced = q.stamp, !.attempted = q.stamp]
    OBVIOUS
  <2>5. n \in StatRow /\ n.status = o.status /\ n.message = o.message /\ n.views = q.message /\ n.pinned = o.pinned
    <3>1. /\ o.status \in {"draft", "published", "publishing", "missing"} /\ o.message \in Nat /\ o.published \in Int
          /\ o.pinned \in BOOLEAN
      BY DEF StatRow
    <3>2. n = [status |-> o.status, message |-> o.message, published |-> o.published, attempted |-> q.stamp,
               synced |-> q.stamp, pinned |-> o.pinned, views |-> q.message]
      BY <2>4 DEF StatRow
    <3> QED
      BY <2>3, <3>1, <3>2 DEF StatRow
  <2>6. StatSound(p, n)
    BY <2>2, <2>5 DEF StatSound
  <2>7. PICK rows : rows = [stat EXCEPT ![p] = n]
    OBVIOUS
  <2>8. rows \in [Posts -> StatRow] /\ \A x \in Posts : StatSound(x, rows[x]) /\ rows[x].message = stat[x].message
    BY <2>1, <2>5, <2>6, <2>7 DEF StatisticsInv
  <2>9. rows = [stat EXCEPT ![p].views = q.message, ![p].synced = q.stamp, ![p].attempted = q.stamp]
    BY <1>4, <2>1, <2>4, <2>7 DEF StatisticsInv, StatRow
  <2>10. stat' = Stats!Flagged(c, rows)
    BY <1>1, <1>2, <1>5, <2>9, Zenon DEF Stats!SyncPublicationMetadata
  <2> QED
    BY <1>1, <1>2, <1>3, <1>4, <1>5, <2>8, <2>10, FlagKept
<1>6. CASE ~Stats!Locked(c)
  BY <1>3, <1>6, StopsKept
<1> QED
  BY <1>5, <1>6

LEMMA StatsAttemptKept == ASSUME Stats!StatisticsOK, StatisticsInv, NEW c \in Callers, Stats!ClaimPostStatsAttempt(c) PROVE StatisticsInv'
<1>1. PICK p : p = runner[c].post
  OBVIOUS
<1>2. PICK q \in RunnerRow : q = runner[c]
  BY DEF StatisticsInv
<1>3. UNCHANGED <<minute, origin, live, top, topped, counter, daily>> /\ q.at = "claim"
  BY <1>2 DEF Stats!ClaimPostStatsAttempt, Stats!Runs, Stats!inMAX, Stats!channelRows
<1>4. p \in Posts /\ RunnerSound(q) /\ q.stamp \in Nat
  BY <1>1, <1>2, <1>3 DEF StatisticsInv, RunnerSound, OnPost, RunnerRow
<1>5. CASE Stats!Stops(c) /\ UNCHANGED stat
  BY <1>3, <1>5, StopsKept
<1>6. CASE /\ stat' = [stat EXCEPT ![p].attempted = q.stamp]
           /\ Stats!Goes(c, IF runner[c].task = "stats" THEN "again" ELSE "read")
  <2>1. PICK o \in StatRow : o = stat[p]
    BY <1>4 DEF StatisticsInv
  <2>2. PICK n : n = [o EXCEPT !.attempted = q.stamp]
    OBVIOUS
  <2>3. n \in StatRow /\ n.status = o.status /\ n.message = o.message /\ n.views = o.views /\ n.pinned = o.pinned
    BY <1>4, <2>2 DEF StatRow
  <2>4. StatSound(p, n)
    BY <1>4, <2>1, <2>3 DEF StatSound, StatisticsInv
  <2>5. stat' = [stat EXCEPT ![p] = n]
    BY <1>6, <2>1, <2>2, Zenon
  <2>6. PICK at \in {"again", "read"} : Stats!Goes(c, at)
    BY <1>6
  <2>7. at \in OnPost
    BY DEF OnPost
  <2>8. PICK r \in RunnerRow : /\ runner' = [runner EXCEPT ![c] = r] /\ r.at = at
                               /\ r.post = q.post /\ r.message = q.message /\ r.stamp = q.stamp /\ r.pinned = q.pinned
    BY <1>2, <2>6, <2>7, RunnerGoes
  <2>9. RunnerSound(r)
    BY <1>3, <1>4, <2>8 DEF RunnerSound, OnPost
  <2>10. runner' \in [Callers -> RunnerRow] /\ \A x \in Callers : RunnerSound(runner'[x])
    BY <2>8, <2>9, RunnerTo
  <2> QED
    BY <1>3, <1>4, <2>1, <2>3, <2>4, <2>5, <2>10, OneRow
<1> QED
  BY <1>1, <1>2, <1>5, <1>6 DEF Stats!ClaimPostStatsAttempt

\* A row loses a message that is gone.
LEMMA ClearedKept ==
  ASSUME Stats!StatisticsOK, StatisticsInv, UNCHANGED <<minute, origin, live, top, topped, counter, daily>>,
         NEW c \in Callers, Stats!Stops(c), NEW p \in Posts, NEW status \in {"missing", "draft"},
         stat[p].message \notin live,
         stat' = [stat EXCEPT ![p].status = status, ![p].message = 0, ![p].attempted = Stats!Never, ![p].pinned = FALSE]
  PROVE  StatisticsInv'
<1>1. PICK o \in StatRow : o = stat[p]
  BY DEF StatisticsInv
<1>2. PICK never : never = Stats!Never
  OBVIOUS
<1>3. never \in Int
  BY <1>2 DEF Stats!Never, Stats!StatisticsOK
<1>4. PICK n : n = [o EXCEPT !.status = status, !.message = 0, !.attempted = never, !.pinned = FALSE]
  OBVIOUS
<1>5. n \in StatRow /\ n.status = status /\ n.message = 0 /\ n.pinned = FALSE
  BY <1>3, <1>4 DEF StatRow
<1>6. StatSound(p, n)
  BY <1>5 DEF StatSound
<1>7. stat' = [stat EXCEPT ![p] = n]
  BY <1>1, <1>2, <1>4 DEF StatisticsInv, StatRow
<1> QED
  BY <1>5, <1>6, <1>7, StopsSound, OneRow

LEMMA MissingKept == ASSUME Stats!StatisticsOK, StatisticsInv, NEW c \in Callers, Stats!MarkMAXPublicationMissing(c) PROVE StatisticsInv'
<1>1. PICK p : p = runner[c].post
  OBVIOUS
<1>2. /\ UNCHANGED <<minute, origin, live, top, topped, counter, daily>> /\ runner[c].at = "gone" /\ Stats!Stops(c)
      /\ ~Stats!Locked(c) => stat' = stat
      /\ Stats!Locked(c) => stat' = [stat EXCEPT ![p].status = "missing", ![p].message = 0,
                                                 ![p].attempted = Stats!Never, ![p].pinned = FALSE]
  BY <1>1 DEF Stats!MarkMAXPublicationMissing, Stats!Runs, Stats!inMAX, Stats!channelRows
<1>3. p \in Posts /\ runner[c].message \notin live
  BY <1>1, <1>2 DEF StatisticsInv, RunnerSound, OnPost
<1>4. CASE Stats!Locked(c)
  <2>1. stat[p].message \notin live
    BY <1>1, <1>3, <1>4 DEF Stats!Locked
  <2> QED
    BY <1>2, <1>3, <1>4, <2>1, ClearedKept
<1>5. CASE ~Stats!Locked(c)
  BY <1>2, <1>5, StopsKept
<1> QED
  BY <1>4, <1>5

LEMMA ClearKept == ASSUME Stats!StatisticsOK, StatisticsInv, NEW c \in Callers, Stats!ClearPublication(c) PROVE StatisticsInv'
<1>1. PICK p : p = runner[c].post
  OBVIOUS
<1>2. /\ UNCHANGED <<minute, origin, live, top, topped, counter, daily>> /\ runner[c].at = "forget" /\ Stats!Stops(c)
      /\ ~Stats!Clearable(c) => stat' = stat
      /\ Stats!Clearable(c) => stat' = [stat EXCEPT ![p].status = "draft", ![p].message = 0,
                                                    ![p].attempted = Stats!Never, ![p].pinned = FALSE]
  BY <1>1 DEF Stats!ClearPublication, Stats!Runs, Stats!inMAX, Stats!channelRows
<1>3. p \in Posts /\ runner[c].message \notin live
  BY <1>1, <1>2 DEF StatisticsInv, RunnerSound, OnPost
<1>4. CASE Stats!Clearable(c)
  <2>1. stat[p].message \notin live
    BY <1>1, <1>3, <1>4 DEF Stats!Clearable
  <2> QED
    BY <1>2, <1>3, <1>4, <2>1, ClearedKept
<1>5. CASE ~Stats!Clearable(c)
  BY <1>2, <1>5, StopsKept
<1> QED
  BY <1>4, <1>5

\* An update of a published post only borrows its status.
LEMMA BorrowedKept ==
  ASSUME StatisticsInv, NEW p \in Posts, Stats!ClaimPublishedForUpdate(p) \/ Stats!ReleasePublishedUpdate(p) PROVE StatisticsInv'
<1>1. UNCHANGED <<minute, origin, live, top, topped, counter, daily, runner>>
  BY DEF Stats!ClaimPublishedForUpdate, Stats!ReleasePublishedUpdate, Stats!inMAX, Stats!channelRows
<1>2. PICK o \in StatRow : o = stat[p]
  BY DEF StatisticsInv
<1>3. PICK status \in {"published", "publishing"} : stat' = [stat EXCEPT ![p].status = status]
  BY DEF Stats!ClaimPublishedForUpdate, Stats!ReleasePublishedUpdate
<1>4. o.status \in {"published", "publishing"} /\ StatSound(p, o)
  BY <1>2 DEF Stats!ClaimPublishedForUpdate, Stats!ReleasePublishedUpdate, StatisticsInv
<1>5. PICK n : n = [o EXCEPT !.status = status]
  OBVIOUS
<1>6. n \in StatRow /\ n.status = status /\ n.message = o.message /\ n.views = o.views /\ n.pinned = o.pinned
  BY <1>5 DEF StatRow
<1>7. StatSound(p, n)
  BY <1>4, <1>6 DEF StatSound
<1>8. stat' = [stat EXCEPT ![p] = n]
  BY <1>2, <1>3, <1>5, Zenon
<1>9. runner' \in [Callers -> RunnerRow] /\ \A c \in Callers : RunnerSound(runner'[c])
  BY <1>1 DEF StatisticsInv
<1> QED
  BY <1>1, <1>2, <1>6, <1>7, <1>8, <1>9, OneRow

\* MAX changes: messages appear with new numbers, and some go. What a runner knows stays true.
LEMMA MAXStep ==
  ASSUME StatisticsInv, UNCHANGED <<stat, origin, counter, daily, minute>>,
         live' \subseteq live, topped \subseteq topped', top' \in {0} \cup topped',
         NEW r \in RunnerRow, RunnerSound(r)', runner' = runner \/ \E c \in Callers : runner' = [runner EXCEPT ![c] = r]
  PROVE  StatisticsInv'
<1>1. MessagesSound'
  BY DEF StatisticsInv, MessagesSound
<1>2. LiveSound' /\ DaysSound'
  BY DEF StatisticsInv, LiveSound, DaysSound, Stats!DaysAgree, Stats!Never
<1>3. \A p \in Posts : StatSound(p, stat[p])'
  BY DEF StatisticsInv, StatSound
<1>4. \A x \in Callers : RunnerSound(runner[x])'
  <2>1. \A x \in Callers : RunnerSound(runner[x])
    BY DEF StatisticsInv
  <2>2. ASSUME NEW q, RunnerSound(q) PROVE RunnerSound(q)'
    BY <2>2 DEF RunnerSound
  <2>3. ASSUME NEW x \in Callers PROVE RunnerSound(runner[x])'
    <3>1. runner'[x] = r \/ runner'[x] = runner[x]
      BY DEF StatisticsInv
    <3>2. PICK q : q = runner'[x]
      OBVIOUS
    <3>3. RunnerSound(q)'
      BY <2>1, <2>2, <3>1, <3>2
    <3> QED
      BY <3>2, <3>3 DEF RunnerSound
  <2> QED
    BY <2>3
<1>5. runner' \in [Callers -> RunnerRow] /\ stat' \in [Posts -> StatRow]
  BY DEF StatisticsInv
<1> QED
  BY <1>1, <1>2, <1>3, <1>4, <1>5 DEF StatisticsInv

LEMMA PinMessageKept == ASSUME StatisticsInv, NEW c \in Callers, Stats!PinMessage(c) PROVE StatisticsInv'
<1>1. PICK q \in RunnerRow : q = runner[c]
  BY DEF StatisticsInv
<1>2. /\ UNCHANGED <<minute, stat, origin, live, counter, daily>> /\ q.at = "set"
      /\ top' = q.message /\ topped' = topped \cup {q.message}
  BY <1>1 DEF Stats!PinMessage, Stats!Runs, Stats!channelRows
<1>3. q.post \in Posts /\ q.message \in 1..Len(origin) /\ q.stamp <= minute
  BY <1>1, <1>2 DEF StatisticsInv, RunnerSound, OnPost
<1>4. CASE Stats!Stops(c)
  <2>1. PICK r : r = Stats!Idle
    OBVIOUS
  <2>2. minute \in Nat
    BY DEF StatisticsInv, DaysSound
  <2>3. r \in RunnerRow /\ r.at = "idle" /\ r.pinned = FALSE /\ r.stamp = 0
    BY <2>1, <2>2, IdleSound DEF Stats!Idle
  <2>4. RunnerSound(r)'
    BY <1>2, <2>2, <2>3 DEF RunnerSound, OnPost
  <2>5. runner' = [runner EXCEPT ![c] = r]
    BY <1>4, <2>1, Zenon DEF Stats!Stops
  <2> QED
    BY <1>2, <2>3, <2>4, <2>5, MAXStep
<1>5. CASE runner' = [runner EXCEPT ![c].at = "flag", ![c].pinned = TRUE]
  <2>1. PICK r : r = [q EXCEPT !.at = "flag", !.pinned = TRUE]
    OBVIOUS
  <2>2. r \in RunnerRow /\ r.at = "flag" /\ r.pinned = TRUE /\ r.post = q.post /\ r.message = q.message /\ r.stamp = q.stamp
    BY <2>1 DEF RunnerRow, OnPost
  <2>3. RunnerSound(r)'
    BY <1>2, <1>3, <2>2 DEF RunnerSound
  <2>4. runner' = [runner EXCEPT ![c] = r]
    BY <1>1, <1>5, <2>1 DEF StatisticsInv, RunnerRow
  <2> QED
    BY <1>2, <2>2, <2>3, <2>4, MAXStep
<1> QED
  BY <1>4, <1>5 DEF Stats!PinMessage

LEMMA UnpinMessageKept == ASSUME StatisticsInv, NEW c \in Callers, Stats!UnpinMessage(c) PROVE StatisticsInv'
<1>1. PICK q \in RunnerRow : q = runner[c]
  BY DEF StatisticsInv
<1>2. /\ UNCHANGED <<minute, stat, origin, live, topped, counter, daily>> /\ q.at = "clear" /\ top' = 0
  BY <1>1 DEF Stats!UnpinMessage, Stats!Runs, Stats!channelRows
<1>3. q.post \in Posts /\ q.message \in 1..Len(origin) /\ q.stamp <= minute /\ ~q.pinned
  BY <1>1, <1>2 DEF StatisticsInv, RunnerSound, OnPost
<1>4. CASE Stats!Stops(c)
  <2>1. PICK r : r = Stats!Idle
    OBVIOUS
  <2>2. minute \in Nat
    BY DEF StatisticsInv, DaysSound
  <2>3. r \in RunnerRow /\ r.at = "idle" /\ r.pinned = FALSE /\ r.stamp = 0
    BY <2>1, <2>2, IdleSound DEF Stats!Idle
  <2>4. RunnerSound(r)'
    BY <1>2, <2>2, <2>3 DEF RunnerSound, OnPost
  <2>5. runner' = [runner EXCEPT ![c] = r]
    BY <1>4, <2>1, Zenon DEF Stats!Stops
  <2> QED
    BY <1>2, <2>3, <2>4, <2>5, MAXStep
<1>5. CASE Stats!Goes(c, "flag")
  <2>1. "flag" \in OnPost \cup {"idle", "due", "count", "chat", "sync"}
    BY DEF OnPost
  <2>2. PICK r \in RunnerRow : /\ runner' = [runner EXCEPT ![c] = r] /\ r.at = "flag"
                               /\ r.post = q.post /\ r.message = q.message /\ r.stamp = q.stamp /\ r.pinned = q.pinned
    BY <1>1, <1>5, <2>1, RunnerGoes
  <2>3. RunnerSound(r)'
    BY <1>2, <1>3, <2>2 DEF RunnerSound
  <2> QED
    BY <1>2, <2>2, <2>3, MAXStep
<1> QED
  BY <1>4, <1>5 DEF Stats!UnpinMessage

LEMMA DeleteMessageKept == ASSUME StatisticsInv, NEW c \in Callers, Stats!DeleteMessage(c) PROVE StatisticsInv'
<1>1. PICK q \in RunnerRow : q = runner[c]
  BY DEF StatisticsInv
<1>2. /\ UNCHANGED <<minute, stat, origin, topped, counter, daily>> /\ q.at = "delete"
      /\ live' = live \ {q.message} /\ top' \in {0, top}
  BY <1>1 DEF Stats!DeleteMessage, Stats!Vanish, Stats!Runs, Stats!channelRows
<1>3. q.post \in Posts /\ q.message \in 1..Len(origin) /\ q.stamp <= minute /\ ~q.pinned
  BY <1>1, <1>2 DEF StatisticsInv, RunnerSound, OnPost
<1>4. live' \subseteq live /\ top' \in {0} \cup topped'
  BY <1>2 DEF StatisticsInv, MessagesSound
<1>5. CASE Stats!Stops(c)
  <2>1. PICK r : r = Stats!Idle
    OBVIOUS
  <2>2. minute \in Nat
    BY DEF StatisticsInv, DaysSound
  <2>3. r \in RunnerRow /\ r.at = "idle" /\ r.pinned = FALSE /\ r.stamp = 0
    BY <2>1, <2>2, IdleSound DEF Stats!Idle
  <2>4. RunnerSound(r)'
    BY <1>2, <2>2, <2>3 DEF RunnerSound, OnPost
  <2>5. runner' = [runner EXCEPT ![c] = r]
    BY <1>5, <2>1, Zenon DEF Stats!Stops
  <2> QED
    BY <1>2, <1>4, <2>3, <2>4, <2>5, MAXStep
<1>6. CASE Stats!Goes(c, "forget")
  <2>1. "forget" \in OnPost \cup {"idle", "due", "count", "chat", "sync"}
    BY DEF OnPost
  <2>2. PICK r \in RunnerRow : /\ runner' = [runner EXCEPT ![c] = r] /\ r.at = "forget"
                               /\ r.post = q.post /\ r.message = q.message /\ r.stamp = q.stamp /\ r.pinned = q.pinned
    BY <1>1, <1>6, <2>1, RunnerGoes
  <2>3. RunnerSound(r)'
    BY <1>2, <1>3, <2>2 DEF RunnerSound
  <2> QED
    BY <1>2, <1>4, <2>2, <2>3, MAXStep
<1> QED
  BY <1>5, <1>6 DEF Stats!DeleteMessage

LEMMA ChangedInMAXKept == ASSUME StatisticsInv, Stats!ChangedInMAX PROVE StatisticsInv'
<1>1. /\ UNCHANGED <<minute, stat, origin, counter, daily, runner>>
  BY DEF Stats!ChangedInMAX, Stats!channelRows
<1>2. live' \subseteq live /\ topped \subseteq topped' /\ top' \in {0} \cup topped'
  BY DEF Stats!ChangedInMAX, Stats!Vanish, StatisticsInv, MessagesSound
<1>3. PICK r : r = Stats!Idle
  OBVIOUS
<1>4. minute \in Nat
  BY DEF StatisticsInv, DaysSound
<1>5. r \in RunnerRow /\ r.at = "idle" /\ r.pinned = FALSE /\ r.stamp = 0
  BY <1>3, <1>4, IdleSound DEF Stats!Idle
<1>6. RunnerSound(r)'
  BY <1>1, <1>4, <1>5 DEF RunnerSound, OnPost
<1> QED
  BY <1>1, <1>2, <1>5, <1>6, MAXStep

\* A new message gets a number of its own, and its post had none.
LEMMA MarkPublishedKept == ASSUME Stats!StatisticsOK, StatisticsInv, NEW p \in Posts, Stats!MarkPublished(p) PROVE StatisticsInv'
<1>1. PICK n \in Nat : n = Len(origin)
  BY DEF StatisticsInv, MessagesSound
<1>2. UNCHANGED <<minute, top, topped, counter, daily, runner>>
  BY DEF Stats!MarkPublished, Stats!channelRows
<1>3. /\ origin' \in Seq(Posts) /\ Len(origin') = n + 1 /\ origin'[n + 1] = p
      /\ \A m \in 1..n : origin'[m] = origin[m] /\ origin[m] \in Posts
  BY <1>1 DEF Stats!MarkPublished, StatisticsInv, MessagesSound
<1>4. live' = live \cup {n + 1}
  BY <1>3 DEF Stats!MarkPublished
<1>5. PICK never : never = Stats!Never
  OBVIOUS
<1>6. never \in Int /\ minute \in Int
  BY <1>5 DEF Stats!Never, Stats!StatisticsOK, StatisticsInv, DaysSound
<1>7. PICK stored : stored = [status |-> "published", message |-> n + 1, published |-> minute,
                        attempted |-> never, synced |-> never, pinned |-> FALSE, views |-> 0]
  OBVIOUS
<1>8. stored \in StatRow /\ stored.status = "published" /\ stored.message = n + 1 /\ stored.pinned = FALSE /\ stored.views = 0
  BY <1>6, <1>7 DEF StatRow
<1>9. stat' = [stat EXCEPT ![p] = stored]
  BY <1>3, <1>5, <1>7, Zenon DEF Stats!MarkPublished
<1>10. stat' \in [Posts -> StatRow] /\ stat'[p] = stored /\ \A x \in Posts : x # p => stat'[x] = stat[x]
  BY <1>8, <1>9 DEF StatisticsInv
<1>11. \A m \in live : origin[m] # p
  BY StatisticsProperties DEF Stats!ClearedGone, Stats!MarkPublished
<1>12. MessagesSound'
  BY <1>2, <1>3, <1>4 DEF StatisticsInv, MessagesSound
<1>13. LiveSound'
  <2> SUFFICES ASSUME NEW m \in live' PROVE m \in 1..(n + 1) /\ stat'[origin'[m]].message = m
    BY <1>3 DEF LiveSound
  <2>1. CASE m = n + 1
    BY <1>3, <1>8, <1>10, <2>1
  <2>2. CASE m \in live
    <3>1. m \in 1..n /\ stat[origin[m]].message = m
      BY <1>1, <2>2 DEF StatisticsInv, LiveSound
    <3> QED
      BY <1>3, <1>10, <1>11, <2>2, <3>1
  <2> QED
    BY <1>4, <2>1, <2>2
<1>14. DaysSound'
  BY <1>2 DEF StatisticsInv, DaysSound, Stats!DaysAgree, Stats!Never
<1>15. \A x \in Posts : StatSound(x, stat[x])'
  <2> SUFFICES ASSUME NEW x \in Posts PROVE StatSound(x, stat[x])'
    OBVIOUS
  <2>1. CASE x = p
    BY <1>3, <1>8, <1>10, <2>1 DEF StatSound
  <2>2. CASE x # p
    <3>1. StatSound(x, stat[x]) /\ stat'[x] = stat[x] /\ stat[x] \in StatRow
      BY <1>10, <2>2 DEF StatisticsInv
    <3> QED
      BY <1>1, <1>2, <1>3, <3>1 DEF StatSound
  <2> QED
    BY <2>1, <2>2
<1>16. \A x \in Callers : RunnerSound(runner[x])'
  <2> SUFFICES ASSUME NEW x \in Callers PROVE RunnerSound(runner[x])'
    OBVIOUS
  <2>1. RunnerSound(runner[x]) /\ runner' = runner
    BY <1>2 DEF StatisticsInv
  <2>2. PICK q \in RunnerRow : q = runner[x]
    BY DEF StatisticsInv
  <2>3. RunnerSound(q)'
    <3>1. q.at \in OnPost => q.post \in Posts /\ q.message \in 1..n
      BY <1>1, <2>1, <2>2 DEF RunnerSound
    <3>2. q.at \in {"gone", "forget"} => q.at \in OnPost /\ q.message \notin live
      BY <2>1, <2>2 DEF RunnerSound, OnPost
    <3>3. q.at \in {"gone", "forget"} => q.message \notin live'
      BY <1>4, <3>1, <3>2
    <3>4. q.at \in OnPost => q.message \in 1..Len(origin')
      BY <1>3, <3>1
    <3> QED
      BY <1>2, <2>1, <2>2, <3>1, <3>3, <3>4 DEF RunnerSound
  <2> QED
    BY <2>1, <2>2, <2>3
<1> QED
  BY <1>2, <1>10, <1>12, <1>13, <1>14, <1>15, <1>16 DEF StatisticsInv

LEMMA StatisticsTick == ASSUME Stats!StatisticsOK, StatisticsInv, Stats!Tick PROVE StatisticsInv'
<1>1. UNCHANGED <<stat, origin, live, top, topped, counter, daily, runner>> /\ minute' = minute + 1 /\ minute < MaxTime
  BY DEF Stats!Tick, Stats!inMAX, Stats!channelRows
<1>2. minute \in Nat /\ minute' \in 0..MaxTime
  BY <1>1 DEF StatisticsInv, DaysSound, Stats!StatisticsOK
<1>3. MessagesSound' /\ LiveSound' /\ \A p \in Posts : StatSound(p, stat[p])'
  BY <1>1 DEF StatisticsInv, MessagesSound, LiveSound, StatSound
<1>4. DaysSound'
  BY <1>1, <1>2 DEF StatisticsInv, DaysSound, Stats!DaysAgree, Stats!Never
<1>5. \A x \in Callers : RunnerSound(runner[x])'
  <2>1. \A x \in Callers : runner[x].stamp \in Nat /\ RunnerSound(runner[x])
    BY DEF StatisticsInv, RunnerRow
  <2> QED
    BY <1>1, <1>2, <2>1 DEF RunnerSound
<1> QED
  BY <1>1, <1>3, <1>4, <1>5 DEF StatisticsInv

\* Every step keeps the invariant.
LEMMA StatisticsNext == ASSUME Stats!StatisticsOK, StatisticsInv, [Stats!Next]_(Stats!statistics) PROVE StatisticsInv'
<1>1. CASE UNCHANGED Stats!statistics
  <2>1. UNCHANGED <<minute, stat, origin, live, top, topped, counter, daily, runner>>
    BY <1>1 DEF Stats!statistics
  <2>2. stat' \in [Posts -> StatRow] /\ runner' \in [Callers -> RunnerRow]
    BY <2>1 DEF StatisticsInv
  <2>3. /\ \A p \in Posts : StatSound(p, stat'[p]) /\ stat'[p].message = stat[p].message
        /\ \A c \in Callers : RunnerSound(runner'[c])
    BY <2>1 DEF StatisticsInv
  <2> QED
    BY <2>1, <2>2, <2>3, RowsStep
<1>2. ASSUME NEW c \in Callers,
             \/ Stats!BeginCycle(c) \/ Stats!ListPostsDueForStats(c) \/ Stats!SyncMAXPublication(c)
             \/ Stats!ClaimPostStatsAttempt(c) \/ Stats!SyncForWorker(c) \/ Stats!GetMessage(c)
             \/ Stats!MarkMAXPublicationMissing(c) \/ Stats!GetPinnedMessage(c) \/ Stats!SyncPublicationMetadata(c)
             \/ Stats!PinPost(c) \/ Stats!UnpinPost(c) \/ Stats!PinMessage(c)
      PROVE  StatisticsInv'
  BY <1>2, BeginsKept, SchedulerReadsKept, StatsAttemptKept, GetMessageKept, MissingKept, GetPinnedKept,
     SyncMetadataKept, PinMessageKept
<1>3. ASSUME NEW c \in Callers,
             \/ Stats!LookAtPin(c) \/ Stats!UnpinMessage(c) \/ Stats!SetPublicationPinned(c)
             \/ Stats!DeletePublication(c) \/ Stats!DeleteMessage(c) \/ Stats!ClearPublication(c)
             \/ Stats!BeginParticipants(c) \/ Stats!ClaimChannelParticipantStatsAttempt(c) \/ Stats!TestChannel(c)
             \/ Stats!GetChat(c) \/ Stats!SyncChannelMAXInfo(c) \/ Stats!RequestFails(c)
      PROVE  StatisticsInv'
  BY <1>3, LookAtPinKept, UnpinMessageKept, SetPinnedKept, BeginsKept, DeleteMessageKept, ClearKept,
     ParticipantsClaimKept, GetChatKept, SyncChannelKept, RequestFailsKept
<1>4. ASSUME NEW p \in Posts, Stats!MarkPublished(p) \/ Stats!ClaimPublishedForUpdate(p) \/ Stats!ReleasePublishedUpdate(p)
      PROVE  StatisticsInv'
  BY <1>4, MarkPublishedKept, BorrowedKept
<1>5. CASE Stats!ChangedInMAX \/ Stats!Tick
  BY <1>5, ChangedInMAXKept, StatisticsTick
<1> QED
  BY <1>1, <1>2, <1>3, <1>4, <1>5 DEF Stats!Next

LEMMA ReadingsNotOlder == ASSUME Stats!StatisticsOK, StatisticsInv, [Stats!Next]_(Stats!statistics) PROVE Stats!ReadingsStand
<1>1. ASSUME counter'.synced = counter.synced, daily' = daily PROVE Stats!ReadingsStand
  BY <1>1 DEF StatisticsInv, DaysSound, ReadingRow, Stats!ReadingsStand
<1>2. ASSUME NEW c \in Callers, Stats!ClaimChannelParticipantStatsAttempt(c) PROVE Stats!ReadingsStand
  <2>1. counter'.synced = counter.synced /\ daily' = daily
    <3>1. daily' = daily
      BY <1>2 DEF Stats!ClaimChannelParticipantStatsAttempt
    <3>2. PICK k \in [attempted : Int, synced : Int, info : Int, read : Int] : k = counter
      BY DEF StatisticsInv, DaysSound
    <3>3. counter' = [k EXCEPT !.attempted = runner[c].stamp] \/ counter' = k
      BY <1>2, <3>2, Zenon DEF Stats!ClaimChannelParticipantStatsAttempt
    <3> QED
      BY <3>1, <3>2, <3>3
  <2> QED
    BY <1>1, <2>1
<1>3. ASSUME NEW c \in Callers, Stats!SyncChannelMAXInfo(c) PROVE Stats!ReadingsStand
  BY <1>3, SyncChannelKept
<1>4. CASE UNCHANGED <<counter, daily>>
  BY <1>1, <1>4
<1>5. \/ UNCHANGED <<counter, daily>>
      \/ \E c \in Callers : Stats!ClaimChannelParticipantStatsAttempt(c) \/ Stats!SyncChannelMAXInfo(c)
  <2>1. UNCHANGED Stats!statistics => UNCHANGED <<counter, daily>>
    BY DEF Stats!statistics
  <2>2. ASSUME NEW c \in Callers,
             \/ Stats!BeginCycle(c) \/ Stats!ListPostsDueForStats(c) \/ Stats!SyncMAXPublication(c)
             \/ Stats!ClaimPostStatsAttempt(c) \/ Stats!SyncForWorker(c) \/ Stats!GetMessage(c)
             \/ Stats!MarkMAXPublicationMissing(c) \/ Stats!GetPinnedMessage(c) \/ Stats!SyncPublicationMetadata(c)
             \/ Stats!PinPost(c) \/ Stats!UnpinPost(c) \/ Stats!PinMessage(c)
        PROVE  UNCHANGED <<counter, daily>>
    BY <2>2 DEF Stats!channelRows, Stats!BeginCycle, Stats!ListPostsDueForStats, Stats!SyncMAXPublication,
       Stats!ClaimPostStatsAttempt, Stats!SyncForWorker, Stats!GetMessage, Stats!MarkMAXPublicationMissing,
       Stats!GetPinnedMessage, Stats!SyncPublicationMetadata, Stats!PinPost, Stats!UnpinPost, Stats!PinMessage
  <2>3. ASSUME NEW c \in Callers,
             \/ Stats!LookAtPin(c) \/ Stats!UnpinMessage(c) \/ Stats!SetPublicationPinned(c)
             \/ Stats!DeletePublication(c) \/ Stats!DeleteMessage(c) \/ Stats!ClearPublication(c)
             \/ Stats!BeginParticipants(c) \/ Stats!TestChannel(c) \/ Stats!GetChat(c) \/ Stats!RequestFails(c)
        PROVE  UNCHANGED <<counter, daily>>
    BY <2>3 DEF Stats!channelRows, Stats!LookAtPin, Stats!UnpinMessage, Stats!SetPublicationPinned,
       Stats!DeletePublication, Stats!DeleteMessage, Stats!ClearPublication, Stats!BeginParticipants,
       Stats!TestChannel, Stats!GetChat, Stats!RequestFails
  <2>4. ASSUME NEW p \in Posts, Stats!MarkPublished(p) \/ Stats!ClaimPublishedForUpdate(p) \/ Stats!ReleasePublishedUpdate(p)
        PROVE  UNCHANGED <<counter, daily>>
    BY <2>4 DEF Stats!channelRows, Stats!MarkPublished, Stats!ClaimPublishedForUpdate, Stats!ReleasePublishedUpdate
  <2>5. Stats!ChangedInMAX \/ Stats!Tick => UNCHANGED <<counter, daily>>
    BY DEF Stats!channelRows, Stats!ChangedInMAX, Stats!Tick
  <2> QED
    BY <2>1, <2>2, <2>3, <2>4, <2>5 DEF Stats!Next
<1> QED
  BY <1>2, <1>3, <1>4, <1>5

\* The inductive invariant of the statistics of MAX, for any posts and callers.
THEOREM StatisticsSound == Stats!StatisticsOK /\ StatisticsSpec => []StatisticsInv
<1> SUFFICES ASSUME Stats!StatisticsOK PROVE StatisticsSpec => []StatisticsInv
  OBVIOUS
<1>1. Stats!Init => StatisticsInv
  BY StatisticsInit
<1>2. StatisticsInv /\ [Stats!Next]_(Stats!statistics) => StatisticsInv'
  BY StatisticsNext
<1> QED
  BY <1>1, <1>2, PTL DEF StatisticsSpec

\* What is stored about a publication is its own message's, what is called gone is gone, and the day's snapshot is
\* the channel's reading (lockPublishedPost, MarkMAXPublicationMissing, ClearPublication, syncChannelMAXInfoForUser).
THEOREM StatisticsAreTheirOwn ==
  Stats!StatisticsOK /\ StatisticsSpec => [](Stats!MetadataOwn /\ Stats!ClearedGone /\ Stats!DaysAgree)
BY StatisticsSound, StatisticsProperties, PTL

\* A reading is never replaced by an older one, neither in the channel's row nor in a day's snapshot.
THEOREM NoOlderReading == Stats!StatisticsOK /\ StatisticsSpec => [][Stats!ReadingsStand]_(Stats!statistics)
<1> SUFFICES ASSUME Stats!StatisticsOK PROVE StatisticsSpec => [][Stats!ReadingsStand]_(Stats!statistics)
  OBVIOUS
<1>1. StatisticsInv /\ [Stats!Next]_(Stats!statistics) => [Stats!ReadingsStand]_(Stats!statistics)
  BY ReadingsNotOlder
<1>2. StatisticsSpec => []StatisticsInv
  BY StatisticsSound
<1> QED
  BY <1>1, <1>2, PTL DEF StatisticsSpec
----------------------------------------------------------------------------
(* History: an import misses no message, and takes none for another's. *)
Import == INSTANCE History
ImportSpec == Import!Init /\ [][Import!Next]_(Import!history)

ImportRow == [status : {"none", "in_progress", "failed", "complete"}, generation : Nat, run : Nat, cursor : Nat,
              processed : Int, claim : {"free", "held", "expired"}, previous : BOOLEAN]
OwnRow == [status : {"draft", "publishing", "published", "failed"}, message : Nat, alive : BOOLEAN]
WorkerRow == [pc : {"idle", "fetch", "apply", "release"}, generation : Nat, before : Nat,
              page : SUBSET Import!Ids, limited : BOOLEAN]
HistoryTypeOK ==
  /\ import \in ImportRow /\ own \in OwnRow /\ worker \in [Importers -> WorkerRow]
  /\ mapped \in [Import!Ids -> Nat] /\ posts \in [Import!Ids -> {"none", "own", "imported"}]
  /\ held \in 0..Len(Stamp) /\ reach \in 0..Len(Stamp) /\ stalled \in BOOLEAN

\* A run has a number; what it saw has a post, and was in the channel.
SeenBy(run) == {m \in Import!Ids : mapped[m] = run /\ run # 0}
RunSound ==
  /\ import.run <= import.generation
  /\ import.status = "none" <=> import.run = 0
  /\ \A m \in Import!Ids :
       /\ mapped[m] <= import.run
       /\ mapped[m] # 0 => posts[m] # "none"
       /\ posts[m] # "none" => m <= held
  /\ reach <= held
  /\ import.processed = Cardinality(SeenBy(import.run))
\* Down to its cursor a run has seen what there was when it began, and no message without the older ones;
\* and what an earlier run saw has only seen messages below it.
Halfway ==
  /\ import.cursor = Import!Newest => \A m \in Import!Ids : mapped[m] # import.run
  /\ import.cursor # Import!Newest =>
       /\ \A m \in 1..reach : Stamp[m] > import.cursor => mapped[m] = import.run
       /\ \A m, k \in Import!Ids :
            mapped[m] = import.run /\ k < m /\ Stamp[k] > import.cursor => mapped[k] = import.run
  /\ ~stalled => \A m, k \in Import!Ids : mapped[m] \notin {0, import.run} /\ k < m => mapped[k] # 0
Whole ==
  /\ \A m \in 1..reach : mapped[m] # 0
  /\ \A m, k \in Import!Ids : mapped[m] # 0 /\ k < m => mapped[k] # 0
ProgressSound ==
  /\ import.status \in {"in_progress", "failed"} => Halfway
  /\ import.status = "complete" /\ ~stalled => Whole
\* A page is the newest part, up to a boundary, of what the channel held when it was read.
Shown(h, before) == {m \in 1..h : before = Import!Newest \/ Stamp[m] <= before}
PageOf(h, q) ==
  /\ q.page \subseteq Shown(h, q.before)
  /\ \A m \in q.page, k \in Shown(h, q.before) : m <= k => k \in q.page
  /\ ~q.limited /\ Cardinality(q.page) < PageSize => q.page = Shown(h, q.before)
  /\ q.limited \/ ~(Cardinality(q.page) < PageSize) => q.page # {}
PageSound(q) ==
  \E h \in 0..held :
    /\ PageOf(h, q)
    /\ q.generation = import.generation => reach <= h /\ \A m \in Import!Ids : mapped[m] # 0 => m <= h
WorkerSound(q) ==
  q.pc # "idle" =>
    /\ q.generation <= import.generation
    /\ q.generation = import.generation => q.before = import.cursor
    /\ q.pc = "apply" => PageSound(q)
WorkersSound ==
  /\ \A w \in Importers : WorkerSound(worker[w])
  /\ \A v, w \in Importers :
       v # w /\ worker[v].pc # "idle" /\ worker[w].pc # "idle" => worker[v].generation # worker[w].generation
\* While its publisher lives, the message of the post is nobody's.
OwnSound ==
  /\ own.status = "draft" => own.message = 0
  /\ own.alive => own.status = "publishing"
  /\ own.alive /\ own.message # 0 => own.message \in 1..held /\ posts[own.message] = "none"
HistoryInv == HistoryTypeOK /\ RunSound /\ ProgressSound /\ WorkersSound /\ OwnSound

\* Messages have the numbers from 1.
LEMMA IdsAre ==
  ASSUME Import!HistoryOK
  PROVE  /\ Len(Stamp) \in Nat /\ Import!Ids = 1..Len(Stamp) /\ Stamp \in [Import!Ids -> Nat \ {0}]
         /\ \A m, n \in Import!Ids : m <= n => Stamp[m] <= Stamp[n]
         /\ IsFiniteSet(Import!Ids)
<1>1. Len(Stamp) \in Nat /\ Import!Ids = 1..Len(Stamp) /\ Stamp \in [Import!Ids -> Nat \ {0}]
  BY DEF Import!HistoryOK, Import!Ids
<1>2. IsFiniteSet(1..Len(Stamp))
  BY <1>1, FS_Interval
<1> QED
  BY <1>1, <1>2 DEF Import!HistoryOK
\* Numbers up to a bound have a greatest one.
LEMMA GreatestOf == ASSUME NEW b \in Nat, NEW S, S \subseteq 0..b, S # {} PROVE \E m \in S : \A n \in S : n <= m
<1> DEFINE R == {b - n : n \in S}
<1>1. R \subseteq Nat /\ R # {}
  <2>1. \A n \in S : b - n \in Nat
    OBVIOUS
  <2> QED
    BY <2>1
<1>2. PICK r \in R : \A x \in R : r <= x
  BY <1>1, LeastOf
<1>3. PICK m \in S : r = b - m
  BY <1>2
<1>4. \A n \in S : b - n \in R
  OBVIOUS
<1>5. \A n \in S : n <= m
  BY <1>2, <1>3, <1>4
<1> QED
  BY <1>5
\* The instance counts as its environment does.
LEMMA HistoryCount == ASSUME NEW S PROVE Import!Cardinality(S) = Cardinality(S)
BY DEF Import!Cardinality, Cardinality, Import!IsFiniteSet, IsFiniteSet
\* An idle importer has nothing.
LEMMA IdleImporter == Import!Idle \in WorkerRow /\ Import!Idle.pc = "idle"
BY DEF Import!Idle, WorkerRow, Import!Newest

\* An importer that goes on keeps its claim and its boundary.
LEMMA ImporterGoes ==
  ASSUME Import!HistoryOK, HistoryInv, NEW w \in Importers, NEW r \in WorkerRow,
         UNCHANGED <<import, mapped, reach>>, held' \in 0..Len(Stamp), held <= held',
         \/ r.pc = "idle"
         \/ /\ worker[w].pc # "idle" /\ r.generation = worker[w].generation /\ r.before = worker[w].before
            /\ r.pc = "apply" => PageSound(r),
         worker' = [worker EXCEPT ![w] = r]
  PROVE  worker' \in [Importers -> WorkerRow] /\ WorkersSound'
<1>1. worker' \in [Importers -> WorkerRow] /\ worker'[w] = r /\ \A v \in Importers : v # w => worker'[v] = worker[v]
  BY DEF HistoryInv, HistoryTypeOK
<1>2. ASSUME NEW q, PageSound(q) PROVE PageSound(q)'
  <2>1. PICK h \in 0..held : /\ PageOf(h, q)
                             /\ q.generation = import.generation => reach <= h /\ \A m \in Import!Ids : mapped[m] # 0 => m <= h
    BY <1>2 DEF PageSound
  <2>2. h \in 0..held' /\ PageOf(h, q)'
    BY <2>1 DEF HistoryInv, HistoryTypeOK, PageOf, Shown
  <2> QED
    BY <2>1, <2>2 DEF PageSound
<1>3. ASSUME NEW q, WorkerSound(q) PROVE WorkerSound(q)'
  BY <1>2, <1>3 DEF WorkerSound
<1>4. WorkerSound(r)
  BY DEF HistoryInv, WorkersSound, WorkerSound
<1>5. \A v \in Importers : WorkerSound(worker[v])'
  <2> SUFFICES ASSUME NEW v \in Importers PROVE WorkerSound(worker[v])'
    OBVIOUS
  <2>1. PICK q : q = worker'[v]
    OBVIOUS
  <2>2. WorkerSound(q)'
    BY <1>1, <1>3, <1>4, <2>1 DEF HistoryInv, WorkersSound
  <2> QED
    BY <2>1, <2>2 DEF WorkerSound, PageSound, PageOf, Shown
<1>6. \A u, v \in Importers :
        u # v /\ worker'[u].pc # "idle" /\ worker'[v].pc # "idle" => worker'[u].generation # worker'[v].generation
  BY <1>1 DEF HistoryInv, WorkersSound
<1> QED
  BY <1>1, <1>5, <1>6 DEF WorkersSound

\* What MAX answers is the newest part up to the boundary; a page that is not full is all of it.
LEMMA PageIs ==
  ASSUME Import!HistoryOK, NEW U, U \subseteq 1..Len(Stamp),
         NEW P, P = {m \in U : Import!Cardinality({n \in U : n > m}) < PageSize}
  PROVE  /\ P \subseteq U
         /\ \A m \in P, k \in U : m <= k => k \in P
         /\ Cardinality(P) < PageSize => P = U
<1>1. Len(Stamp) \in Nat /\ PageSize \in Nat \ {0} /\ U \subseteq 0..Len(Stamp)
  BY IdsAre DEF Import!HistoryOK
<1>2. IsFiniteSet(U) /\ \A V \in SUBSET U : IsFiniteSet(V) /\ Cardinality(V) \in Nat
  <2>1. IsFiniteSet(1..Len(Stamp))
    BY <1>1, FS_Interval
  <2>2. \A V \in SUBSET U : IsFiniteSet(V)
    BY <2>1, FS_Subset
  <2> QED
    BY <2>2, FS_CardinalityType
<1>3. ASSUME NEW V \in SUBSET U, NEW W \in SUBSET V PROVE Cardinality(W) <= Cardinality(V)
  BY <1>2, FS_Subset
<1>4. \A m \in U : m \in P <=> Cardinality({n \in U : n > m}) < PageSize
  BY HistoryCount
<1>5. ASSUME NEW m \in P, NEW k \in U, m <= k PROVE k \in P
  <2> DEFINE V == {n \in U : n > m}  W == {n \in U : n > k}
  <2>1. V \in SUBSET U /\ W \in SUBSET V
    <3>1. m \in Int /\ k \in Int /\ \A n \in U : n \in Int
      BY <1>1
    <3>2. \A n \in U : n > k => n > m
      BY <1>5, <3>1
    <3> QED
      BY <3>2
  <2>2. Cardinality(W) <= Cardinality(V) /\ Cardinality(V) \in Nat /\ Cardinality(W) \in Nat
    BY <1>2, <1>3, <2>1
  <2>3. Cardinality(V) < PageSize
    BY <1>4
  <2>4. Cardinality(W) < PageSize
    BY <1>1, <2>2, <2>3
  <2> QED
    BY <1>4, <2>4
<1>6. ASSUME Cardinality(P) < PageSize, P # U PROVE FALSE
  <2>1. U \ P \subseteq 0..Len(Stamp) /\ U \ P # {}
    BY <1>1, <1>6
  <2>2. PICK m \in U \ P : \A n \in U \ P : n <= m
    BY <1>1, <2>1, GreatestOf
  <2> DEFINE V == {n \in U : n > m}
  <2>3. V \in SUBSET P /\ P \in SUBSET U
    <3>1. m \in Int /\ \A n \in U : n \in Int
      BY <1>1
    <3>2. \A n \in U : n > m => n \in P
      BY <2>2, <3>1
    <3> QED
      BY <3>2
  <2>4. Cardinality(V) <= Cardinality(P) /\ Cardinality(V) \in Nat /\ Cardinality(P) \in Nat
    BY <1>2, <1>3, <2>3
  <2>5. Cardinality(V) < PageSize
    BY <1>1, <1>6, <2>4
  <2> QED
    BY <1>4, <2>2, <2>5
<1> QED
  BY <1>5, <1>6
\* What is kept of a page is its newest part, and never nothing.
LEMMA PrefixIs ==
  ASSUME Import!HistoryOK, NEW P, P \subseteq 1..Len(Stamp), NEW F, F = Import!Prefix(P)
  PROVE  /\ F \subseteq P
         /\ \A m \in F, k \in P : m <= k => k \in F
         /\ P # {} => F # {}
<1>1. Len(Stamp) \in Nat /\ Import!Ids = 1..Len(Stamp) /\ P \subseteq 0..Len(Stamp)
  BY IdsAre
<1>2. F = {m \in P : \A n \in P : n >= m => Import!LookUps({k \in P : k >= n}) <= VideoBudget}
  BY DEF Import!Prefix
<1>3. \A m \in F, k \in P : m <= k => k \in F
  BY <1>1, <1>2
<1>4. ASSUME P # {} PROVE F # {}
  <2>1. PICK m \in P : \A n \in P : n <= m
    BY <1>1, <1>4, GreatestOf
  <2>2. ASSUME NEW n \in P, n >= m PROVE Import!LookUps({k \in P : k >= n}) <= VideoBudget
    <3>1. m \in Int /\ \A k \in P : k \in Int
      BY <1>1
    <3>2. n = m
      BY <2>1, <2>2, <3>1
    <3>3. \A k \in P : k >= n <=> k = m
      BY <2>1, <3>1, <3>2
    <3>4. {k \in P : k >= n} = {m}
      BY <3>3
    <3> QED
      BY <1>1, <3>4 DEF Import!HistoryOK
  <2> QED
    BY <1>2, <2>1, <2>2
<1> QED
  BY <1>2, <1>3, <1>4
\* While nothing is written about the import, only the channel may grow.
LEMMA RunSame ==
  ASSUME Import!HistoryOK, HistoryInv, UNCHANGED <<import, mapped, posts, reach, stalled>>,
         held' \in 0..Len(Stamp), held <= held'
  PROVE  RunSound' /\ ProgressSound'
<1>1. RunSound'
  <2>1. held \in Nat /\ held' \in Nat /\ reach \in Nat /\ \A m \in Import!Ids : m \in Nat
    BY IdsAre DEF HistoryInv, HistoryTypeOK
  <2>2. SeenBy(import.run)' = SeenBy(import.run)
    BY DEF SeenBy
  <2> QED
    BY <2>1, <2>2 DEF HistoryInv, RunSound
<1>2. ProgressSound'
  BY DEF HistoryInv, ProgressSound, Halfway, Whole
<1> QED
  BY <1>1, <1>2
\* An importer reads a page, or fails to.
LEMMA GetMessagesPageKept ==
  ASSUME Import!HistoryOK, HistoryInv, NEW w \in Importers, Import!GetMessagesPage(w) PROVE HistoryInv'
<1>1. /\ UNCHANGED <<import, mapped, posts, held, own, reach, stalled>>
      /\ held' \in 0..Len(Stamp) /\ held <= held' /\ worker[w].pc = "fetch"
  <2>1. held \in 0..Len(Stamp)
    BY DEF HistoryInv, HistoryTypeOK
  <2> QED
    BY <2>1, IdsAre DEF Import!GetMessagesPage, Import!At
<1>2. RunSound' /\ ProgressSound' /\ OwnSound'
  BY <1>1, RunSame DEF HistoryInv, OwnSound
<1>3. PICK q \in WorkerRow : q = worker[w]
  BY DEF HistoryInv, HistoryTypeOK
<1>4. CASE \E r \in WorkerRow :
             /\ r.generation = q.generation /\ r.before = q.before /\ (r.pc = "apply" => PageSound(r))
             /\ worker' = [worker EXCEPT ![w] = r]
  <2>1. PICK r \in WorkerRow :
             /\ r.generation = q.generation /\ r.before = q.before /\ (r.pc = "apply" => PageSound(r))
             /\ worker' = [worker EXCEPT ![w] = r]
    BY <1>4
  <2>2. worker' \in [Importers -> WorkerRow] /\ WorkersSound'
    BY <1>1, <1>3, <2>1, ImporterGoes
  <2> QED
    BY <1>1, <1>2, <2>2 DEF HistoryInv, HistoryTypeOK
<1>5. CASE Import!Go(w, "release")
  <2>1. PICK r : r = [q EXCEPT !.pc = "release"]
    OBVIOUS
  <2>2. r \in WorkerRow /\ r.pc = "release" /\ r.generation = q.generation /\ r.before = q.before
    BY <2>1 DEF WorkerRow
  <2>3. worker' = [worker EXCEPT ![w] = r]
    BY <1>3, <1>5, <2>1, Zenon DEF Import!Go
  <2> QED
    BY <1>4, <2>2, <2>3
<1>6. CASE worker' = [worker EXCEPT ![w].pc = "apply", ![w].page = Import!Prefix(Import!Page(worker[w].before)),
                                    ![w].limited = Import!Prefix(Import!Page(worker[w].before)) # Import!Page(worker[w].before)]
  <2>1. PICK U : U = Shown(held, q.before)
    OBVIOUS
  <2>2. PICK P : P = Import!Page(worker[w].before)
    OBVIOUS
  <2>3. PICK F : F = Import!Prefix(P)
    OBVIOUS
  <2>4. PICK l \in BOOLEAN : l <=> F # P
    OBVIOUS
  <2>5. held \in 0..Len(Stamp) /\ Len(Stamp) \in Nat /\ Import!Ids = 1..Len(Stamp)
    BY IdsAre DEF HistoryInv, HistoryTypeOK
  <2>6. U \subseteq 1..held /\ U \subseteq 1..Len(Stamp)
    BY <2>1, <2>5 DEF Shown
  <2>7. P = {m \in U : Import!Cardinality({n \in U : n > m}) < PageSize}
    BY <1>3, <2>1, <2>2 DEF Import!Page, Import!Upto, Shown
  <2>8. /\ P \subseteq U /\ \A m \in P, k \in U : m <= k => k \in P
        /\ Cardinality(P) < PageSize => P = U
    BY <2>6, <2>7, PageIs
  <2>9. F \subseteq P /\ (\A m \in F, k \in P : m <= k => k \in F) /\ (P # {} => F # {})
    BY <2>3, <2>6, <2>8, PrefixIs
  <2>10. PICK r : r = [q EXCEPT !.pc = "apply", !.page = F, !.limited = l]
    OBVIOUS
  <2>11. r \in WorkerRow /\ r.generation = q.generation /\ r.before = q.before /\ r.page = F /\ r.limited = l
    BY <2>5, <2>6, <2>8, <2>9, <2>10 DEF WorkerRow
  <2>12. worker' = [worker EXCEPT ![w] = r]
    <3>1. worker' = [worker EXCEPT ![w] = [worker[w] EXCEPT !.pc = "apply", !.page = Import!Prefix(Import!Page(worker[w].before)),
                                    !.limited = Import!Prefix(Import!Page(worker[w].before)) # Import!Page(worker[w].before)]]
      BY <1>6 DEF HistoryInv, HistoryTypeOK, WorkerRow
    <3>2. (Import!Prefix(Import!Page(worker[w].before)) # Import!Page(worker[w].before)) = l
      BY <2>2, <2>3, <2>4, Zenon
    <3> QED
      BY <1>3, <2>2, <2>3, <2>10, <3>1, <3>2, Zenon
  <2>13. PageOf(held, r)
    <3>1. ASSUME ~r.limited, Cardinality(r.page) < PageSize PROVE r.page = U
      BY <2>4, <2>8, <2>11, <3>1
    <3>2. ASSUME r.limited PROVE r.page # {}
      BY <2>4, <2>9, <2>11, <3>2
    <3>3. ASSUME r.page = {} PROVE Cardinality(r.page) < PageSize
      <4>1. Cardinality(r.page) = 0
        BY <3>3, FS_EmptySet
      <4> QED
        BY <4>1 DEF Import!HistoryOK
    <3>4. r.page \subseteq U /\ \A m \in r.page, k \in U : m <= k => k \in r.page
      BY <2>8, <2>9, <2>11
    <3> QED
      BY <2>1, <2>11, <3>1, <3>2, <3>3, <3>4 DEF PageOf
  <2>14. reach <= held /\ \A m \in Import!Ids : mapped[m] # 0 => m <= held
    BY DEF HistoryInv, RunSound
  <2>15. PageSound(r)
    BY <2>5, <2>13, <2>14 DEF PageSound
  <2> QED
    BY <1>4, <2>11, <2>12, <2>15
<1> QED
  BY <1>5, <1>6 DEF Import!GetMessagesPage

\* A claim begins a run, or goes on with one; whoever had an earlier claim has it no more.
LEMMA ClaimImportKept ==
  ASSUME Import!HistoryOK, HistoryInv, NEW w \in Importers, Import!ClaimMAXHistoryImport(w) PROVE HistoryInv'
<1>1. UNCHANGED <<mapped, posts, held, own, stalled>> /\ worker[w].pc = "idle"
  BY DEF Import!ClaimMAXHistoryImport, Import!At
<1>2. PICK i \in ImportRow, n \in Nat : i = import /\ n = i.generation + 1
  BY DEF HistoryInv, HistoryTypeOK, ImportRow
<1>3. i.run <= i.generation /\ \A m \in Import!Ids : mapped[m] \in Nat /\ mapped[m] <= i.run /\ i.run \in Nat
  BY <1>2 DEF HistoryInv, HistoryTypeOK, RunSound, ImportRow
<1>4. PICK j \in ImportRow :
         /\ import' = j /\ j.generation = n /\ j.status = "in_progress"
         /\ \/ i.status \in {"none", "complete"} /\ reach' = held
               /\ j.run = n /\ j.cursor = Import!Newest /\ j.processed = 0
            \/ i.status \in {"in_progress", "failed"} /\ reach' = reach
               /\ j.run = i.run /\ j.cursor = i.cursor /\ j.processed = i.processed
  <2>1. PICK old : old = [i EXCEPT !.generation = n, !.status = "in_progress", !.claim = "held"]
    OBVIOUS
  <2>2. old \in ImportRow /\ old.generation = n /\ old.status = "in_progress"
        /\ old.run = i.run /\ old.cursor = i.cursor /\ old.processed = i.processed
    BY <2>1 DEF ImportRow
  <2>3. CASE i.status \in {"none", "complete"}
    <3>1. PICK p \in BOOLEAN : p <=> import.status = "complete"
      OBVIOUS
    <3>2. PICK j : j = [old EXCEPT !.run = n, !.cursor = Import!Newest, !.processed = 0, !.previous = p]
      OBVIOUS
    <3>3. /\ j \in ImportRow /\ j.generation = n /\ j.status = "in_progress"
          /\ j.run = n /\ j.cursor = Import!Newest /\ j.processed = 0
      <4>1. Import!Newest = 0
        BY DEF Import!Newest
      <4>2. j.generation = n /\ j.status = "in_progress" /\ j.run = n /\ j.cursor = 0 /\ j.processed = 0
        BY <2>2, <3>2, <4>1 DEF ImportRow
      <4>3. j = [status |-> "in_progress", generation |-> n, run |-> n, cursor |-> 0, processed |-> 0,
                 claim |-> old.claim, previous |-> p] /\ old.claim \in {"free", "held", "expired"}
        BY <2>2, <3>2, <4>1 DEF ImportRow
      <4>4. j \in ImportRow
        BY <4>3 DEF ImportRow
      <4> QED
        BY <4>1, <4>2, <4>4
    <3>4. (import.status = "complete") = p
      BY <3>1, Zenon
    <3>5. /\ reach' = held
          /\ import' = [[import EXCEPT !.generation = import.generation + 1, !.status = "in_progress", !.claim = "held"]
                         EXCEPT !.run = import.generation + 1, !.cursor = Import!Newest, !.processed = 0,
                                !.previous = import.status = "complete"]
      BY <1>2, <2>3, Zenon DEF Import!ClaimMAXHistoryImport
    <3>6. import' = j
      BY <1>2, <2>1, <3>2, <3>4, <3>5, Zenon
    <3> QED
      BY <2>3, <3>3, <3>5, <3>6
  <2>4. CASE ~(i.status \in {"none", "complete"})
    <3>1. /\ reach' = reach
          /\ import' = [import EXCEPT !.generation = import.generation + 1, !.status = "in_progress", !.claim = "held"]
      BY <1>2, <2>4, Zenon DEF Import!ClaimMAXHistoryImport
    <3>2. import' = old
      BY <1>2, <2>1, <3>1, Zenon
    <3>3. i.status \in {"in_progress", "failed"}
      BY <2>4 DEF ImportRow
    <3> QED
      BY <2>2, <3>1, <3>2, <3>3
  <2> QED
    BY <2>3, <2>4
<1>5. /\ held \in 0..Len(Stamp) /\ Len(Stamp) \in Nat /\ Import!Ids = 1..Len(Stamp)
      /\ reach' \in 0..held /\ reach' \in 0..Len(Stamp) /\ reach \in Nat /\ reach <= held
  BY <1>4, IdsAre DEF HistoryInv, HistoryTypeOK, RunSound
<1>6. RunSound'
  <2>1. \A m \in Import!Ids :
          mapped'[m] <= j.run /\ (mapped'[m] # 0 => posts'[m] # "none") /\ (posts'[m] # "none" => m <= held')
    <3>1. j.run \in Nat /\ i.run <= j.run
      BY <1>2, <1>3, <1>4 DEF ImportRow
    <3>2. \A m \in Import!Ids : mapped[m] <= j.run
      BY <1>3, <3>1
    <3> QED
      BY <1>1, <3>2 DEF HistoryInv, RunSound
  <2>2. j.run <= j.generation /\ j.run # 0
    BY <1>2, <1>3, <1>4 DEF HistoryInv, RunSound, ImportRow
  <2>3. j.processed = Cardinality({m \in Import!Ids : mapped[m] = j.run /\ j.run # 0})
    <3>1. CASE j.run = n /\ j.processed = 0
      <4>1. {m \in Import!Ids : mapped[m] = j.run /\ j.run # 0} = {}
        BY <1>2, <1>3, <3>1 DEF ImportRow
      <4> QED
        BY <3>1, <4>1, FS_EmptySet
    <3>2. CASE j.run = i.run /\ j.processed = i.processed
      BY <1>2, <3>2 DEF HistoryInv, RunSound, SeenBy
    <3> QED
      BY <1>4, <3>1, <3>2
  <2>4. SeenBy(import.run)' = {m \in Import!Ids : mapped[m] = j.run /\ j.run # 0}
    BY <1>1, <1>4 DEF SeenBy
  <2> QED
    BY <1>1, <1>4, <1>5, <2>1, <2>2, <2>3, <2>4 DEF RunSound
<1>7. ProgressSound'
  <2>1. CASE /\ i.status \in {"none", "complete"} /\ reach' = held
             /\ j.run = n /\ j.cursor = Import!Newest /\ j.processed = 0
    <3>1. \A m \in Import!Ids : mapped[m] # j.run
      BY <1>2, <1>3, <2>1 DEF ImportRow
    <3>2. ASSUME ~stalled, NEW m \in Import!Ids, NEW k \in Import!Ids, mapped[m] # 0, k < m PROVE mapped[k] # 0
      <4>1. i.status # "none"
        BY <1>2, <1>3, <3>2 DEF HistoryInv, RunSound
      <4>2. Whole
        BY <1>2, <2>1, <3>2, <4>1 DEF HistoryInv, ProgressSound
      <4> QED
        BY <3>2, <4>2 DEF Whole
    <3>3. Halfway'
      BY <1>1, <1>4, <2>1, <3>1, <3>2 DEF Halfway
    <3> QED
      BY <1>4, <3>3 DEF ProgressSound
  <2>2. CASE /\ i.status \in {"in_progress", "failed"} /\ reach' = reach
             /\ j.run = i.run /\ j.cursor = i.cursor /\ j.processed = i.processed
    <3>1. Halfway
      BY <1>2, <2>2 DEF HistoryInv, ProgressSound
    <3>2. Halfway'
      BY <1>1, <1>2, <1>4, <2>2, <3>1 DEF Halfway
    <3> QED
      BY <1>4, <3>2 DEF ProgressSound
  <2> QED
    BY <1>4, <2>1, <2>2
<1>8. worker' \in [Importers -> WorkerRow] /\ WorkersSound'
  <2>1. PICK r : r = [Import!Idle EXCEPT !.pc = "fetch", !.generation = n, !.before = j.cursor]
    OBVIOUS
  <2>2. r \in WorkerRow /\ r.pc = "fetch" /\ r.generation = n /\ r.before = j.cursor
    BY <2>1, IdleImporter DEF WorkerRow, ImportRow
  <2>3. worker' = [worker EXCEPT ![w] = r]
    <3>1. worker' = [worker EXCEPT ![w] = [Import!Idle EXCEPT !.pc = "fetch", !.generation = import'.generation, !.before = import'.cursor]]
      BY Zenon DEF Import!ClaimMAXHistoryImport
    <3> QED
      BY <1>4, <2>1, <3>1, Zenon
  <2>4. worker' \in [Importers -> WorkerRow] /\ worker'[w] = r /\ \A v \in Importers : v # w => worker'[v] = worker[v]
    BY <2>2, <2>3 DEF HistoryInv, HistoryTypeOK
  <2>5. \A v \in Importers : worker[v].pc # "idle" => worker[v].generation # n
    BY <1>2 DEF HistoryInv, HistoryTypeOK, WorkersSound, WorkerSound, WorkerRow, ImportRow
  <2>6. ASSUME NEW q \in WorkerRow, WorkerSound(q) PROVE WorkerSound(q)'
    <3>1. q.pc # "idle" => q.generation <= i.generation /\ q.generation # n /\ q.generation <= n
      BY <1>2, <2>6 DEF WorkerSound, WorkerRow, ImportRow
    <3>2. ASSUME q.pc = "apply" PROVE PageSound(q)'
      <4>1. PICK h \in 0..held : PageOf(h, q)
        BY <2>6, <3>2 DEF WorkerSound, PageSound
      <4>2. h \in 0..held' /\ PageOf(h, q)' /\ q.generation # import'.generation
        BY <1>1, <1>4, <3>1, <3>2, <4>1 DEF PageOf, Shown
      <4> QED
        BY <4>2 DEF PageSound
    <3> QED
      BY <1>4, <3>1, <3>2 DEF WorkerSound
  <2>7. WorkerSound(r)'
    BY <1>4, <2>2 DEF WorkerSound, ImportRow
  <2>8. \A v \in Importers : WorkerSound(worker[v])'
    <3> SUFFICES ASSUME NEW v \in Importers PROVE WorkerSound(worker[v])'
      OBVIOUS
    <3>1. PICK q \in WorkerRow : q = worker'[v]
      BY <2>4
    <3>2. WorkerSound(q)'
      BY <2>4, <2>6, <2>7, <3>1 DEF HistoryInv, WorkersSound
    <3> QED
      BY <3>1, <3>2 DEF WorkerSound, PageSound, PageOf, Shown
  <2>9. \A u, v \in Importers :
          u # v /\ worker'[u].pc # "idle" /\ worker'[v].pc # "idle" => worker'[u].generation # worker'[v].generation
    BY <2>2, <2>4, <2>5 DEF HistoryInv, WorkersSound
  <2> QED
    BY <2>4, <2>8, <2>9 DEF WorkersSound
<1>9. OwnSound'
  BY <1>1 DEF HistoryInv, OwnSound
<1> QED
  BY <1>1, <1>4, <1>5, <1>6, <1>7, <1>8, <1>9 DEF HistoryInv, HistoryTypeOK

\* A claim that is given up, or lapses, leaves the run where it is.
LEMMA ClaimEnds ==
  ASSUME Import!HistoryOK, HistoryInv, NEW j \in ImportRow, import' = j,
         j.generation = import.generation, j.run = import.run, j.cursor = import.cursor, j.processed = import.processed,
         j.status = import.status \/ (import.status = "in_progress" /\ j.status = "failed"),
         UNCHANGED <<mapped, posts, held, reach, stalled>>
  PROVE  RunSound' /\ ProgressSound'
<1>1. SeenBy(import.run)' = SeenBy(import.run)
  BY DEF SeenBy
<1>2. RunSound'
  BY <1>1 DEF HistoryInv, RunSound
<1>3. (Halfway => Halfway') /\ (Whole => Whole')
  BY DEF Halfway, Whole
<1> QED
  BY <1>2, <1>3 DEF HistoryInv, ProgressSound
\* An importer that ends, whatever becomes of its claim.
LEMMA ImporterEnds ==
  ASSUME Import!HistoryOK, HistoryInv, NEW w \in Importers, worker' = [worker EXCEPT ![w] = Import!Idle],
         import'.generation = import.generation, import'.cursor = import.cursor, UNCHANGED <<mapped, held, reach>>
  PROVE  worker' \in [Importers -> WorkerRow] /\ WorkersSound'
<1>1. worker' \in [Importers -> WorkerRow] /\ worker'[w].pc = "idle" /\ \A v \in Importers : v # w => worker'[v] = worker[v]
  BY IdleImporter DEF HistoryInv, HistoryTypeOK
<1>2. ASSUME NEW q, WorkerSound(q) PROVE WorkerSound(q)'
  BY <1>2 DEF WorkerSound, PageSound, PageOf, Shown
<1>3. \A v \in Importers : WorkerSound(worker[v])'
  <2> SUFFICES ASSUME NEW v \in Importers PROVE WorkerSound(worker[v])'
    OBVIOUS
  <2>1. PICK q : q = worker'[v]
    OBVIOUS
  <2>2. v # w => WorkerSound(q)'
    BY <1>1, <1>2, <2>1 DEF HistoryInv, WorkersSound
  <2> QED
    BY <1>1, <2>1, <2>2 DEF WorkerSound, PageSound, PageOf, Shown
<1>4. \A u, v \in Importers :
        u # v /\ worker'[u].pc # "idle" /\ worker'[v].pc # "idle" => worker'[u].generation # worker'[v].generation
  BY <1>1 DEF HistoryInv, WorkersSound
<1> QED
  BY <1>1, <1>3, <1>4 DEF WorkersSound
\* Only the holder of the latest claim gives the import up.
LEMMA ReleaseImportKept ==
  ASSUME Import!HistoryOK, HistoryInv, NEW w \in Importers, Import!ReleaseMAXHistoryImport(w) PROVE HistoryInv'
<1>1. UNCHANGED <<mapped, posts, held, own, reach, stalled>> /\ worker' = [worker EXCEPT ![w] = Import!Idle]
  BY Zenon DEF Import!ReleaseMAXHistoryImport
<1>2. PICK i \in ImportRow : i = import
  BY DEF HistoryInv, HistoryTypeOK
<1>3. PICK j \in ImportRow :
         /\ import' = j /\ j.generation = i.generation /\ j.run = i.run /\ j.cursor = i.cursor /\ j.processed = i.processed
         /\ j.status = i.status \/ (i.status = "in_progress" /\ j.status = "failed")
  <2>1. PICK f : f = [i EXCEPT !.status = "failed", !.claim = "free"]
    OBVIOUS
  <2>2. f \in ImportRow /\ f.generation = i.generation /\ f.run = i.run /\ f.cursor = i.cursor /\ f.processed = i.processed
        /\ f.status = "failed"
    BY <2>1 DEF ImportRow
  <2>3. CASE Import!CurrentGeneration(w)
    <3>1. import' = f
      BY <1>2, <2>1, <2>3, Zenon DEF Import!ReleaseMAXHistoryImport
    <3> QED
      BY <1>2, <2>2, <2>3, <3>1 DEF Import!CurrentGeneration
  <2>4. CASE ~Import!CurrentGeneration(w)
    <3>1. import' = i
      BY <1>2, <2>4, Zenon DEF Import!ReleaseMAXHistoryImport
    <3> QED
      BY <3>1
  <2> QED
    BY <2>3, <2>4
<1>4. RunSound' /\ ProgressSound'
  BY <1>1, <1>2, <1>3, ClaimEnds
<1>5. worker' \in [Importers -> WorkerRow] /\ WorkersSound'
  BY <1>1, <1>2, <1>3, ImporterEnds
<1>6. OwnSound'
  BY <1>1 DEF HistoryInv, OwnSound
<1> QED
  BY <1>1, <1>3, <1>4, <1>5, <1>6 DEF HistoryInv, HistoryTypeOK
\* The lease of a claim ends.
LEMMA LeaseEndsKept == ASSUME Import!HistoryOK, HistoryInv, Import!LeaseEnds PROVE HistoryInv'
<1>1. UNCHANGED <<mapped, posts, held, own, worker, reach, stalled>> /\ import' = [import EXCEPT !.claim = "expired"]
  BY Zenon DEF Import!LeaseEnds
<1>2. PICK i \in ImportRow : i = import
  BY DEF HistoryInv, HistoryTypeOK
<1>3. PICK j : j = [i EXCEPT !.claim = "expired"]
  OBVIOUS
<1>4. j \in ImportRow /\ j.generation = i.generation /\ j.run = i.run /\ j.cursor = i.cursor /\ j.processed = i.processed
      /\ j.status = i.status
  BY <1>3 DEF ImportRow
<1>5. import' = j
  BY <1>1, <1>2, <1>3, Zenon
<1>6. RunSound' /\ ProgressSound'
  BY <1>1, <1>2, <1>4, <1>5, ClaimEnds
<1>7. ASSUME NEW q, WorkerSound(q) PROVE WorkerSound(q)'
  BY <1>1, <1>2, <1>4, <1>5, <1>7 DEF WorkerSound, PageSound, PageOf, Shown
<1>8. \A v \in Importers : WorkerSound(worker[v])'
  <2> SUFFICES ASSUME NEW v \in Importers PROVE WorkerSound(worker[v])'
    OBVIOUS
  <2>1. PICK q : q = worker[v]
    OBVIOUS
  <2>2. WorkerSound(q)'
    BY <1>7, <2>1 DEF HistoryInv, WorkersSound
  <2> QED
    BY <1>1, <2>1, <2>2 DEF WorkerSound, PageSound, PageOf, Shown
<1>9. WorkersSound' /\ OwnSound'
  BY <1>1, <1>8 DEF HistoryInv, WorkersSound, OwnSound
<1> QED
  BY <1>1, <1>4, <1>5, <1>6, <1>9 DEF HistoryInv, HistoryTypeOK
\* An importer dies.
LEMMA ImporterDiesKept ==
  ASSUME Import!HistoryOK, HistoryInv, NEW w \in Importers, Import!ImporterDies(w) PROVE HistoryInv'
<1>1. UNCHANGED <<import, mapped, posts, held, own, reach, stalled>> /\ worker' = [worker EXCEPT ![w] = Import!Idle]
  BY Zenon DEF Import!ImporterDies
<1>2. held' \in 0..Len(Stamp) /\ held <= held'
  BY <1>1, IdsAre DEF HistoryInv, HistoryTypeOK
<1>3. RunSound' /\ ProgressSound'
  BY <1>1, <1>2, RunSame
<1>4. worker' \in [Importers -> WorkerRow] /\ WorkersSound'
  BY <1>1, ImporterEnds
<1>5. OwnSound'
  BY <1>1 DEF HistoryInv, OwnSound
<1> QED
  BY <1>1, <1>2, <1>3, <1>4, <1>5 DEF HistoryInv, HistoryTypeOK

\* The channel grows.
LEMMA ChannelGrows ==
  ASSUME Import!HistoryOK, HistoryInv, UNCHANGED <<import, mapped, posts, worker, reach, stalled>>,
         held' \in 0..Len(Stamp), held <= held'
  PROVE  RunSound' /\ ProgressSound' /\ WorkersSound'
<1>1. RunSound' /\ ProgressSound'
  BY RunSame
<1>2. ASSUME NEW q, WorkerSound(q) PROVE WorkerSound(q)'
  <2>1. ASSUME PageSound(q) PROVE PageSound(q)'
    <3>1. PICK h \in 0..held : /\ PageOf(h, q)
                               /\ q.generation = import.generation => reach <= h /\ \A m \in Import!Ids : mapped[m] # 0 => m <= h
      BY <2>1 DEF PageSound
    <3>2. h \in 0..held' /\ PageOf(h, q)'
      BY <3>1 DEF HistoryInv, HistoryTypeOK, PageOf, Shown
    <3> QED
      BY <3>1, <3>2 DEF PageSound
  <2> QED
    BY <1>2, <2>1 DEF WorkerSound
<1>3. \A v \in Importers : WorkerSound(worker[v])'
  <2> SUFFICES ASSUME NEW v \in Importers PROVE WorkerSound(worker[v])'
    OBVIOUS
  <2>1. PICK q : q = worker[v]
    OBVIOUS
  <2>2. WorkerSound(q)'
    BY <1>2, <2>1 DEF HistoryInv, WorkersSound
  <2> QED
    BY <2>1, <2>2 DEF WorkerSound, PageSound, PageOf, Shown
<1> QED
  BY <1>1, <1>3 DEF HistoryInv, WorkersSound
\* Somebody else writes, or the post is sent.
LEMMA MessageAppears ==
  ASSUME Import!HistoryOK, HistoryInv, Import!SomebodyWrites \/ Import!SendPost PROVE HistoryInv'
<1>1. UNCHANGED <<import, mapped, posts, worker, reach, stalled>> /\ held + 1 \in Import!Ids /\ held' = held + 1
  BY DEF Import!SomebodyWrites, Import!SendPost
<1>2. held' \in 0..Len(Stamp) /\ held <= held' /\ held \in Nat
  BY <1>1, IdsAre DEF HistoryInv, HistoryTypeOK
<1>3. RunSound' /\ ProgressSound' /\ WorkersSound'
  BY <1>1, <1>2, ChannelGrows
<1>4. own' \in OwnRow /\ OwnSound'
  <2>1. CASE Import!SomebodyWrites
    BY <1>1, <1>2, <2>1 DEF Import!SomebodyWrites, HistoryInv, HistoryTypeOK, OwnSound
  <2>2. CASE Import!SendPost
    <3>1. PICK o \in OwnRow : o = own
      BY DEF HistoryInv, HistoryTypeOK
    <3>2. PICK p : p = [o EXCEPT !.message = held + 1]
      OBVIOUS
    <3>3. p \in OwnRow /\ p.message = held + 1 /\ p.status = o.status /\ p.alive = o.alive
      BY <1>2, <3>2 DEF OwnRow
    <3>4. own' = p /\ own.alive
      BY <2>2, <3>1, <3>2, Zenon DEF Import!SendPost
    <3>5. posts[held + 1] = "none"
      BY <1>1, <1>2 DEF HistoryInv, RunSound
    <3> QED
      BY <1>1, <1>2, <3>1, <3>3, <3>4, <3>5 DEF HistoryInv, OwnSound
  <2> QED
    BY <2>1, <2>2
<1> QED
  BY <1>1, <1>2, <1>3, <1>4 DEF HistoryInv, HistoryTypeOK
\* What happens to the post, short of its message.
LEMMA PostGoesOn ==
  ASSUME Import!HistoryOK, HistoryInv, Import!ClaimPost \/ Import!PublisherDies \/ Import!RecoverStalePublishing
  PROVE  HistoryInv'
<1>1. UNCHANGED <<import, mapped, posts, held, worker, reach, stalled>>
  BY DEF Import!ClaimPost, Import!PublisherDies, Import!RecoverStalePublishing
<1>2. held' \in 0..Len(Stamp) /\ held <= held'
  BY <1>1, IdsAre DEF HistoryInv, HistoryTypeOK
<1>3. RunSound' /\ ProgressSound' /\ WorkersSound'
  BY <1>1, <1>2, ChannelGrows
<1>4. own' \in OwnRow /\ OwnSound'
  <2>1. PICK o \in OwnRow : o = own
    BY DEF HistoryInv, HistoryTypeOK
  <2>2. CASE Import!ClaimPost
    <3>1. PICK p : p = [o EXCEPT !.status = "publishing", !.alive = TRUE]
      OBVIOUS
    <3>2. p \in OwnRow /\ p.status = "publishing" /\ p.message = o.message
      BY <3>1 DEF OwnRow
    <3>3. own' = p /\ o.message = 0
      BY <2>1, <2>2, <3>1, Zenon DEF Import!ClaimPost, HistoryInv, OwnSound
    <3> QED
      BY <3>2, <3>3 DEF OwnSound
  <2>3. CASE Import!PublisherDies
    <3>1. PICK p : p = [o EXCEPT !.alive = FALSE]
      OBVIOUS
    <3>2. p \in OwnRow /\ p.status = o.status /\ p.message = o.message /\ p.alive = FALSE
      BY <3>1 DEF OwnRow
    <3>3. own' = p
      BY <2>1, <2>3, <3>1, Zenon DEF Import!PublisherDies
    <3> QED
      BY <2>1, <3>2, <3>3 DEF HistoryInv, OwnSound
  <2>4. CASE Import!RecoverStalePublishing
    <3>1. PICK p : p = [o EXCEPT !.status = "failed"]
      OBVIOUS
    <3>2. p \in OwnRow /\ p.status = "failed" /\ p.alive = o.alive
      BY <3>1 DEF OwnRow
    <3>3. own' = p /\ ~o.alive
      BY <2>1, <2>4, <3>1, Zenon DEF Import!RecoverStalePublishing
    <3> QED
      BY <3>2, <3>3 DEF OwnSound
  <2> QED
    BY <2>2, <2>3, <2>4
<1> QED
  BY <1>1, <1>2, <1>3, <1>4 DEF HistoryInv, HistoryTypeOK
\* The post is recorded with its message, which nobody has.
LEMMA RecordPostKept == ASSUME Import!HistoryOK, HistoryInv, Import!RecordPost PROVE HistoryInv'
<1>1. /\ UNCHANGED <<import, mapped, held, worker, reach, stalled>> /\ own.alive /\ own.message # 0
      /\ posts' = [posts EXCEPT ![own.message] = "own"]
      /\ own' = [own EXCEPT !.status = "published", !.alive = FALSE]
  BY Zenon DEF Import!RecordPost
<1>2. own.message \in 1..held /\ held \in 0..Len(Stamp) /\ Len(Stamp) \in Nat /\ Import!Ids = 1..Len(Stamp) /\ own.message \in Import!Ids
  BY <1>1, IdsAre DEF HistoryInv, HistoryTypeOK, OwnSound
<1>3. /\ posts' \in [Import!Ids -> {"none", "own", "imported"}] /\ posts'[own.message] = "own"
      /\ \A m \in Import!Ids : m # own.message => posts'[m] = posts[m]
  BY <1>1, <1>2 DEF HistoryInv, HistoryTypeOK
<1>4. RunSound'
  <2>1. SeenBy(import.run)' = SeenBy(import.run)
    BY <1>1 DEF SeenBy
  <2> QED
    BY <1>1, <1>2, <1>3, <2>1 DEF HistoryInv, RunSound
<1>5. ProgressSound'
  BY <1>1 DEF HistoryInv, ProgressSound, Halfway, Whole
<1>6. WorkersSound'
  BY <1>1 DEF HistoryInv, WorkersSound, WorkerSound, PageSound, PageOf, Shown
<1>7. own' \in OwnRow /\ OwnSound'
  <2>1. PICK o \in OwnRow : o = own
    BY DEF HistoryInv, HistoryTypeOK
  <2>2. PICK p : p = [o EXCEPT !.status = "published", !.alive = FALSE]
    OBVIOUS
  <2>3. p \in OwnRow /\ p.status = "published" /\ p.alive = FALSE
    BY <2>2 DEF OwnRow
  <2>4. own' = p
    BY <1>1, <2>1, <2>2, Zenon
  <2> QED
    BY <2>3, <2>4 DEF OwnSound
<1> QED
  BY <1>1, <1>3, <1>4, <1>5, <1>6, <1>7 DEF HistoryInv, HistoryTypeOK

\* What a page that is stored adds: it is seen by the run, and so far by nobody who comes later.
LEMMA PageStored ==
  ASSUME Import!HistoryOK, HistoryInv, import.run # 0, NEW page, page \subseteq Import!Ids,
         mapped' = [m \in Import!Ids |-> IF m \in page THEN import.run ELSE mapped[m]]
  PROVE  /\ Import!Counted(page) \subseteq Import!Ids
         /\ {m \in Import!Ids : mapped'[m] = import.run /\ import.run # 0} = SeenBy(import.run) \cup Import!Counted(page)
         /\ Cardinality(SeenBy(import.run) \cup Import!Counted(page))
              = Cardinality(SeenBy(import.run)) + Cardinality(Import!Counted(page))
         /\ Cardinality(Import!Counted(page)) \in Nat
<1>1. Import!Counted(page) = {m \in page : mapped[m] # import.run} /\ SeenBy(import.run) = {m \in Import!Ids : mapped[m] = import.run}
  BY DEF Import!Counted, SeenBy
<1>2. Import!Counted(page) \cap SeenBy(import.run) = {}
  BY <1>1
<1>3. IsFiniteSet(Import!Counted(page)) /\ IsFiniteSet(SeenBy(import.run))
  BY <1>1, IdsAre, FS_Subset
<1>4. Cardinality(SeenBy(import.run) \cup Import!Counted(page))
        = Cardinality(SeenBy(import.run)) + Cardinality(Import!Counted(page)) - Cardinality(SeenBy(import.run) \cap Import!Counted(page))
  BY <1>3, FS_Union
<1>5. Cardinality(SeenBy(import.run) \cap Import!Counted(page)) = 0
  <2>1. SeenBy(import.run) \cap Import!Counted(page) = {}
    BY <1>2
  <2> QED
    BY <2>1, FS_EmptySet
<1>6. Cardinality(SeenBy(import.run)) \in Nat /\ Cardinality(Import!Counted(page)) \in Nat
  BY <1>3, FS_CardinalityType
<1> QED
  BY <1>1, <1>4, <1>5, <1>6
\* The oldest message of a page.
LEMMA OldestIs ==
  ASSUME Import!HistoryOK, NEW w \in Importers, worker[w].page \subseteq Import!Ids, worker[w].page # {}
  PROVE  \E o \in worker[w].page : Import!Oldest(w) = Stamp[o] /\ \A m \in worker[w].page : o <= m
<1>1. worker[w].page \subseteq Nat
  BY IdsAre
<1>2. PICK m \in worker[w].page : \A n \in worker[w].page : m <= n
  BY <1>1, LeastOf
<1>3. Import!Min(worker[w].page) \in worker[w].page /\ \A n \in worker[w].page : Import!Min(worker[w].page) <= n
  BY <1>2 DEF Import!Min
<1> QED
  BY <1>3 DEF Import!Oldest
\* A page is stored: down to the new cursor, or down to the end, the run has seen what there was.
LEMMA PageKeeps ==
  ASSUME Import!HistoryOK, HistoryInv, NEW w \in Importers, worker[w].pc = "apply", Import!CurrentGeneration(w),
         mapped' = [m \in Import!Ids |-> IF m \in worker[w].page THEN import.run ELSE mapped[m]],
         UNCHANGED <<held, reach>>, import'.run = import.run,
         stalled' = (stalled \/ Import!MaxHistoryPageCursor(w).end = "stalled"),
         \/ /\ import'.status = "complete"
            /\ Import!MaxHistoryPageCursor(w).end # "more" \/ Import!Overlap(w)
         \/ /\ import'.status = "in_progress" /\ Import!MaxHistoryPageCursor(w).end = "more"
            /\ import'.cursor = Import!MaxHistoryPageCursor(w).next
  PROVE  ProgressSound'
<1>1. PICK q \in WorkerRow : q = worker[w]
  BY DEF HistoryInv, HistoryTypeOK
<1>2. PICK i \in ImportRow : i = import
  BY DEF HistoryInv, HistoryTypeOK
<1>3. /\ Len(Stamp) \in Nat /\ Import!Ids = 1..Len(Stamp) /\ Stamp \in [Import!Ids -> Nat \ {0}]
      /\ \A m, n \in Import!Ids : m <= n => Stamp[m] <= Stamp[n]
      /\ held \in 0..Len(Stamp) /\ reach \in Nat /\ reach <= held
      /\ q.before \in Nat /\ q.page \subseteq Import!Ids
      /\ mapped \in [Import!Ids -> Nat] /\ \A m \in Import!Ids : mapped[m] <= i.run
  BY <1>1, <1>2, IdsAre DEF HistoryInv, HistoryTypeOK, RunSound, WorkerRow
<1>4. q.pc = "apply" /\ q.generation = i.generation /\ i.status = "in_progress" /\ q.before = i.cursor /\ i.run # 0 /\ i.run \in Nat
  BY <1>1, <1>2 DEF Import!CurrentGeneration, HistoryInv, WorkersSound, WorkerSound, RunSound, ImportRow
<1>5. Halfway
  BY <1>2, <1>4 DEF HistoryInv, ProgressSound
<1>6. PICK h \in 0..held : PageOf(h, q) /\ reach <= h /\ \A m \in Import!Ids : mapped[m] # 0 => m <= h
  BY <1>1, <1>2, <1>4 DEF HistoryInv, WorkersSound, WorkerSound, PageSound
<1>7. \A m \in Import!Ids : mapped'[m] = IF m \in q.page THEN i.run ELSE mapped[m]
  BY <1>1, <1>2
<1>8. \A m \in q.page : m \in 1..h /\ (q.before = 0 \/ Stamp[m] <= q.before)
  BY <1>6 DEF PageOf, Shown, Import!Newest
\* What is not shown was seen before.
<1>9. ASSUME NEW m \in Import!Ids, NEW k \in Import!Ids, mapped'[m] = i.run, k <= m, q.before # 0, Stamp[k] > q.before
      PROVE mapped'[k] = i.run
  <2>1. m \notin q.page
    <3>1. Stamp[k] <= Stamp[m] /\ Stamp[k] \in Nat /\ Stamp[m] \in Nat /\ q.before \in Nat
      BY <1>3, <1>9
    <3>2. m \in q.page => Stamp[m] <= q.before
      BY <1>8, <1>9
    <3> QED
      BY <1>9, <3>1, <3>2
  <2>2. mapped[m] = i.run
    BY <1>7, <1>9, <2>1
  <2>3. mapped[k] = i.run
    BY <1>2, <1>3, <1>4, <1>5, <1>9, <2>2 DEF Halfway, Import!Newest
  <2> QED
    BY <1>7, <2>3
<1>10. ASSUME NEW k \in 1..reach, q.before # 0, Stamp[k] > q.before PROVE mapped'[k] = i.run
  <2>1. k \in Import!Ids
    BY <1>3
  <2>2. mapped[k] = i.run
    BY <1>2, <1>4, <1>5, <1>10 DEF Halfway, Import!Newest
  <2> QED
    BY <1>7, <2>1, <2>2
\* What is shown, down to the oldest message of the page, is in the page.
<1>11. ASSUME NEW k \in Import!Ids, k <= h, q.before = 0 \/ ~(Stamp[k] > q.before), NEW o \in q.page, o <= k
       PROVE mapped'[k] = i.run
  <2>1. k \in Shown(h, q.before)
    BY <1>3, <1>11 DEF Shown, Import!Newest
  <2>2. k \in q.page
    BY <1>6, <1>11, <2>1 DEF PageOf
  <2> QED
    BY <1>7, <2>2
<1>12. \A m \in Import!Ids : mapped'[m] # 0 => m <= h
  BY <1>6, <1>7, <1>8
<1>13. ~stalled => \A m, k \in Import!Ids : mapped[m] \notin {0, i.run} /\ k < m => mapped[k] # 0
  BY <1>2, <1>5 DEF Halfway
<1>14. CASE /\ import'.status = "in_progress" /\ Import!MaxHistoryPageCursor(w).end = "more"
            /\ import'.cursor = Import!MaxHistoryPageCursor(w).next
  <2>1. /\ ~(~q.limited /\ Import!Cardinality(q.page) < PageSize)
        /\ import'.cursor = Import!Oldest(w)
    BY <1>1, <1>14 DEF Import!MaxHistoryPageCursor
  <2>2. q.limited \/ ~(Cardinality(q.page) < PageSize)
    BY <2>1, HistoryCount
  <2>3. q.page # {}
    BY <1>6, <2>2 DEF PageOf
  <2>4. PICK o \in q.page : Import!Oldest(w) = Stamp[o] /\ \A m \in q.page : o <= m
    BY <1>1, <1>3, <2>3, OldestIs
  <2>5. PICK c \in Nat \ {0} : c = import'.cursor /\ c = Stamp[o]
    BY <1>3, <2>1, <2>4
  <2>6. ASSUME NEW k \in Import!Ids, Stamp[k] > c PROVE o <= k
    BY <1>3, <2>5, <2>6
  <2>7. \A k \in 1..reach : Stamp[k] > c => mapped'[k] = i.run
    <3> SUFFICES ASSUME NEW k \in 1..reach, Stamp[k] > c PROVE mapped'[k] = i.run
      OBVIOUS
    <3>1. k \in Import!Ids /\ k <= h
      BY <1>3, <1>6
    <3> QED
      BY <1>10, <1>11, <2>6, <3>1
  <2>8. \A m, k \in Import!Ids : mapped'[m] = i.run /\ k < m /\ Stamp[k] > c => mapped'[k] = i.run
    <3> SUFFICES ASSUME NEW m \in Import!Ids, NEW k \in Import!Ids, mapped'[m] = i.run, k < m, Stamp[k] > c
                 PROVE mapped'[k] = i.run
      OBVIOUS
    <3>1. m <= h
      BY <1>4, <1>12
    <3>2. k <= m /\ k <= h
      BY <1>3, <3>1
    <3> QED
      BY <1>9, <1>11, <2>6, <3>2
  <2>9. ASSUME ~stalled', NEW m \in Import!Ids, NEW k \in Import!Ids, mapped'[m] \notin {0, i.run}, k < m PROVE mapped'[k] # 0
    <3>1. mapped[m] \notin {0, i.run} /\ ~stalled
      BY <1>7, <2>9
    <3>2. mapped[k] # 0
      BY <1>13, <2>9, <3>1
    <3> QED
      BY <1>4, <1>7, <3>2
  <2>10. Halfway'
    BY <1>2, <2>5, <2>7, <2>8, <2>9 DEF Halfway, Import!Newest
  <2> QED
    BY <1>14, <2>10 DEF ProgressSound
<1>15. CASE /\ import'.status = "complete"
            /\ Import!MaxHistoryPageCursor(w).end # "more" \/ Import!Overlap(w)
  <2>1. CASE stalled'
    BY <1>15, <2>1 DEF ProgressSound
  <2>2. CASE ~stalled'
    <3>1. ~stalled /\ Import!MaxHistoryPageCursor(w).end # "stalled"
      BY <2>2
\* Below the page, or below what an earlier run saw in it, nothing is missing.
    <3>2. ASSUME NEW k \in Import!Ids, k <= h, q.before = 0 \/ ~(Stamp[k] > q.before) PROVE mapped'[k] # 0
      <4>1. CASE Import!MaxHistoryPageCursor(w).end # "more"
        <5>1. ~q.limited /\ Import!Cardinality(q.page) < PageSize
          BY <1>1, <3>1, <4>1 DEF Import!MaxHistoryPageCursor
        <5>2. q.page = Shown(h, q.before)
          BY <1>6, <5>1, HistoryCount DEF PageOf
        <5>3. k \in q.page
          BY <1>3, <3>2, <5>2 DEF Shown, Import!Newest
        <5> QED
          BY <1>4, <1>7, <5>3
      <4>2. CASE Import!Overlap(w)
        <5>1. PICK o \in q.page : mapped[o] \notin {0, i.run}
          BY <1>1, <1>2, <4>2 DEF Import!Overlap
        <5>2. CASE k < o
          <6>1. mapped[k] # 0
            BY <1>3, <1>13, <3>1, <5>1, <5>2
          <6> QED
            BY <1>4, <1>7, <6>1
        <5>3. CASE o <= k
          BY <1>4, <1>11, <3>2, <5>3
        <5> QED
          BY <1>3, <5>2, <5>3
      <4> QED
        BY <1>15, <4>1, <4>2
    <3>3. ASSUME NEW m \in 1..reach PROVE mapped'[m] # 0
      <4>1. m \in Import!Ids /\ m <= h
        BY <1>3, <1>6
      <4> QED
        BY <1>4, <1>10, <3>2, <4>1
    <3>4. ASSUME NEW m \in Import!Ids, NEW k \in Import!Ids, mapped'[m] # 0, k < m PROVE mapped'[k] # 0
      <4>1. k <= h /\ k <= m
        BY <1>3, <1>12, <3>4
      <4>2. CASE mapped'[m] = i.run
        BY <1>4, <1>9, <3>2, <4>1, <4>2
      <4>3. CASE mapped'[m] # i.run
        <5>1. mapped[m] \notin {0, i.run}
          BY <1>7, <3>4, <4>3
        <5>2. mapped[k] # 0
          BY <1>13, <3>1, <3>4, <5>1
        <5> QED
          BY <1>4, <1>7, <5>2
      <4> QED
        BY <4>2, <4>3
    <3> QED
      BY <1>15, <3>3, <3>4 DEF ProgressSound, Whole
  <2> QED
    BY <2>1, <2>2
<1> QED
  BY <1>14, <1>15
\* A page is stored by the holder of the latest claim, while nothing is being published.
LEMMA ApplyPageKept ==
  ASSUME Import!HistoryOK, HistoryInv, NEW w \in Importers, Import!ApplyMAXHistoryPage(w) PROVE HistoryInv'
<1>1. UNCHANGED <<held, own, reach>> /\ worker[w].pc = "apply"
  BY DEF Import!ApplyMAXHistoryPage, Import!At
<1>2. /\ Len(Stamp) \in Nat /\ Import!Ids = 1..Len(Stamp)
      /\ held \in 0..Len(Stamp) /\ held' \in 0..Len(Stamp) /\ held <= held'
  BY <1>1, IdsAre DEF HistoryInv, HistoryTypeOK
<1>3. CASE ~Import!CurrentGeneration(w) \/ Import!PublicationInProgress
  <2>1. UNCHANGED <<import, mapped, posts, stalled>> /\ worker' = [worker EXCEPT ![w].pc = "release"]
    BY <1>3, Zenon DEF Import!ApplyMAXHistoryPage, Import!Go
  <2>2. PICK q \in WorkerRow : q = worker[w]
    BY DEF HistoryInv, HistoryTypeOK
  <2>3. PICK r : r = [q EXCEPT !.pc = "release"]
    OBVIOUS
  <2>4. r \in WorkerRow /\ r.pc = "release" /\ r.generation = q.generation /\ r.before = q.before
    BY <2>3 DEF WorkerRow
  <2>5. worker' = [worker EXCEPT ![w] = r]
    BY <2>1, <2>2, <2>3, Zenon
  <2>6. worker' \in [Importers -> WorkerRow] /\ WorkersSound'
    BY <1>1, <1>2, <2>1, <2>2, <2>4, <2>5, ImporterGoes
  <2>7. RunSound' /\ ProgressSound' /\ OwnSound'
    BY <1>1, <1>2, <2>1, RunSame DEF HistoryInv, OwnSound
  <2> QED
    BY <1>1, <2>1, <2>6, <2>7 DEF HistoryInv, HistoryTypeOK
<1>4. CASE Import!CurrentGeneration(w) /\ ~Import!PublicationInProgress
  <2>1. PICK page : page = worker[w].page
    OBVIOUS
  <2>2. PICK whole \in BOOLEAN : whole <=> Import!MaxHistoryPageCursor(w).end # "more" \/ Import!Overlap(w)
    OBVIOUS
  <2>3. PICK i \in ImportRow : i = import
    BY DEF HistoryInv, HistoryTypeOK
  <2>4. page \in SUBSET Import!Ids
    BY <2>1 DEF HistoryInv, HistoryTypeOK, WorkerRow
  <2>5. /\ mapped' = [m \in Import!Ids |-> IF m \in page THEN import.run ELSE mapped[m]]
        /\ posts' = [m \in Import!Ids |-> IF m \in page /\ posts[m] = "none" THEN "imported" ELSE posts[m]]
        /\ worker' = [worker EXCEPT ![w] = Import!Idle]
    BY <1>4, <2>1, Zenon DEF Import!ApplyMAXHistoryPage
  <2>6. stalled' = (stalled \/ Import!MaxHistoryPageCursor(w).end = "stalled")
    BY <1>4, Zenon DEF Import!ApplyMAXHistoryPage
  <2>7. i.status = "in_progress" /\ i.run # 0 /\ worker[w].generation = i.generation
    BY <1>4, <2>3 DEF Import!CurrentGeneration, HistoryInv, RunSound
  <2>8. PICK c \in Nat : /\ c = IF whole THEN Import!Newest ELSE Import!MaxHistoryPageCursor(w).next
    <3>1. CASE whole
      BY <3>1 DEF Import!Newest
    <3>2. CASE ~whole
      <4>1. Import!MaxHistoryPageCursor(w).next \in Nat
        <5>1. /\ ~(~worker[w].limited /\ Import!Cardinality(page) < PageSize)
              /\ Import!MaxHistoryPageCursor(w).next = Import!Oldest(w)
          BY <2>1, <2>2, <3>2 DEF Import!MaxHistoryPageCursor
        <5>2. worker[w].limited \/ ~(Cardinality(page) < PageSize)
          BY <5>1, HistoryCount
        <5>3. PageSound(worker[w])
          BY <1>1 DEF HistoryInv, WorkersSound, WorkerSound
        <5>4. page # {}
          BY <2>1, <5>2, <5>3 DEF PageSound, PageOf
        <5>5. PICK o \in page : Import!Oldest(w) = Stamp[o]
          BY <2>1, <2>4, <5>4, OldestIs
        <5> QED
          BY <2>4, <5>1, <5>5, IdsAre
      <4> QED
        BY <3>2, <4>1
    <3> QED
      BY <3>1, <3>2
  <2>9. PICK n : n = Cardinality(Import!Counted(page))
    OBVIOUS
  <2>10. PICK s : s = IF whole THEN "complete" ELSE i.status
    OBVIOUS
  <2>11. PICK j : j = [i EXCEPT !.processed = i.processed + n, !.claim = "free", !.status = s, !.cursor = c]
    OBVIOUS
  <2>12. import' = j
    <3>1. import' = [import EXCEPT !.processed = import.processed + Import!Cardinality(Import!Counted(worker[w].page)), !.claim = "free",
                        !.status = IF Import!MaxHistoryPageCursor(w).end # "more" \/ Import!Overlap(w) THEN "complete" ELSE import.status,
                        !.cursor = IF Import!MaxHistoryPageCursor(w).end # "more" \/ Import!Overlap(w)
                                   THEN Import!Newest ELSE Import!MaxHistoryPageCursor(w).next]
      BY <1>4, <2>3 DEF Import!ApplyMAXHistoryPage, ImportRow
    <3>2. Import!Cardinality(Import!Counted(worker[w].page)) = n
      BY <2>1, <2>9, HistoryCount
    <3>3. (Import!MaxHistoryPageCursor(w).end # "more" \/ Import!Overlap(w)) = whole
      BY <2>2, Zenon
    <3>4. s = (IF Import!MaxHistoryPageCursor(w).end # "more" \/ Import!Overlap(w) THEN "complete" ELSE import.status)
      BY <2>3, <2>10, <3>3, Zenon
    <3>5. c = (IF Import!MaxHistoryPageCursor(w).end # "more" \/ Import!Overlap(w)
               THEN Import!Newest ELSE Import!MaxHistoryPageCursor(w).next)
      BY <2>8, <3>3, Zenon
    <3> QED
      BY <2>3, <2>11, <3>1, <3>2, <3>4, <3>5, Zenon
  <2>13. Import!Counted(page) \subseteq Import!Ids /\ n \in Nat
         /\ {m \in Import!Ids : mapped'[m] = i.run /\ i.run # 0} = SeenBy(i.run) \cup Import!Counted(page)
         /\ Cardinality(SeenBy(i.run) \cup Import!Counted(page)) = Cardinality(SeenBy(i.run)) + n
    BY <2>3, <2>4, <2>5, <2>7, <2>9, PageStored
  <2>14. /\ j \in ImportRow /\ j.generation = i.generation /\ j.run = i.run /\ j.cursor = c /\ j.status = s
         /\ j.processed = i.processed + n
    <3>1. i.processed + n \in Int /\ s \in {"none", "in_progress", "failed", "complete"}
      BY <2>10, <2>13 DEF ImportRow
    <3> QED
      BY <2>8, <2>11, <3>1 DEF ImportRow
  <2>15. ProgressSound'
    <3>1. j.run = i.run /\ ((s = "complete" /\ whole) \/ (s = "in_progress" /\ ~whole /\ c = Import!MaxHistoryPageCursor(w).next))
      BY <2>7, <2>8, <2>10, <2>14
    <3> QED
      BY <1>1, <1>4, <2>1, <2>2, <2>3, <2>5, <2>6, <2>12, <2>14, <3>1, PageKeeps
  <2>16. worker' \in [Importers -> WorkerRow] /\ WorkersSound'
    <3>1. worker' \in [Importers -> WorkerRow] /\ worker'[w].pc = "idle" /\ \A v \in Importers : v # w => worker'[v] = worker[v]
      BY <2>5, IdleImporter DEF HistoryInv, HistoryTypeOK
    <3>2. ASSUME NEW q, WorkerSound(q), q.pc # "idle" => q.generation # i.generation PROVE WorkerSound(q)'
      BY <1>1, <2>3, <2>12, <2>14, <3>2 DEF WorkerSound, PageSound, PageOf, Shown
    <3>3. \A v \in Importers : v # w /\ worker[v].pc # "idle" => worker[v].generation # i.generation
      BY <1>1, <2>7 DEF HistoryInv, WorkersSound
    <3>4. \A v \in Importers : WorkerSound(worker[v])'
      <4> SUFFICES ASSUME NEW v \in Importers PROVE WorkerSound(worker[v])'
        OBVIOUS
      <4>1. PICK q : q = worker'[v]
        OBVIOUS
      <4>2. v # w => WorkerSound(q)'
        BY <3>1, <3>2, <3>3, <4>1 DEF HistoryInv, WorkersSound
      <4> QED
        BY <3>1, <4>1, <4>2 DEF WorkerSound, PageSound, PageOf, Shown
    <3>5. \A u, v \in Importers :
            u # v /\ worker'[u].pc # "idle" /\ worker'[v].pc # "idle" => worker'[u].generation # worker'[v].generation
      BY <3>1 DEF HistoryInv, WorkersSound
    <3> QED
      BY <3>1, <3>4, <3>5 DEF WorkersSound
  <2>17. RunSound'
    <3>1. SeenBy(import.run)' = SeenBy(i.run) \cup Import!Counted(page)
      BY <2>12, <2>13, <2>14 DEF SeenBy
    <3>2. i.processed = Cardinality(SeenBy(i.run)) /\ i.run <= i.generation /\ reach <= held
      BY <2>3 DEF HistoryInv, RunSound
    <3>3. import'.processed = Cardinality(SeenBy(import.run)')
      BY <2>12, <2>13, <2>14, <3>1, <3>2
    <3>4. \A m \in page : m <= held
      <4>1. PageSound(worker[w])
        BY <1>1 DEF HistoryInv, WorkersSound, WorkerSound
      <4>2. PICK h \in 0..held : worker[w].page \subseteq Shown(h, worker[w].before)
        BY <4>1 DEF PageSound, PageOf
      <4> QED
        BY <1>2, <2>1, <4>2 DEF Shown
    <3>5. ASSUME NEW m \in Import!Ids
          PROVE /\ mapped'[m] <= i.run /\ (mapped'[m] # 0 => posts'[m] # "none") /\ (posts'[m] # "none" => m <= held)
      <4>1. CASE m \in page
        <5>1. mapped'[m] = i.run /\ i.run \in Nat
          BY <2>3, <2>5, <4>1 DEF ImportRow
        <5>2. posts'[m] # "none"
          BY <2>5, <4>1
        <5> QED
          BY <3>4, <4>1, <5>1, <5>2
      <4>2. CASE m \notin page
        <5>1. mapped'[m] = mapped[m] /\ posts'[m] = posts[m]
          BY <2>5, <4>2
        <5> QED
          BY <2>3, <5>1 DEF HistoryInv, RunSound
      <4> QED
        BY <4>1, <4>2
    <3>6. import'.status # "none" /\ import'.run # 0
      BY <2>7, <2>10, <2>12, <2>14
    <3> QED
      BY <1>1, <2>12, <2>14, <3>2, <3>3, <3>5, <3>6 DEF RunSound
  <2>18. OwnSound'
    BY <1>1, <1>4 DEF HistoryInv, OwnSound, Import!PublicationInProgress
  <2>19. /\ mapped' \in [Import!Ids -> Nat] /\ posts' \in [Import!Ids -> {"none", "own", "imported"}]
         /\ stalled' \in BOOLEAN
    <3>1. import.run \in Nat
      BY DEF HistoryInv, HistoryTypeOK, ImportRow
    <3>2. mapped' \in [Import!Ids -> Nat] /\ posts' \in [Import!Ids -> {"none", "own", "imported"}]
      BY <2>5, <3>1 DEF HistoryInv, HistoryTypeOK
    <3> QED
      BY <2>6, <3>2
  <2> QED
    BY <1>1, <2>12, <2>14, <2>15, <2>16, <2>17, <2>18, <2>19 DEF HistoryInv, HistoryTypeOK
<1> QED
  BY <1>3, <1>4

\* Nothing is imported at first.
LEMMA HistoryInit == ASSUME Import!HistoryOK, Import!Init PROVE HistoryInv
<1>1. held \in 0..Len(Stamp) /\ Len(Stamp) \in Nat /\ Import!Ids = 1..Len(Stamp)
  BY IdsAre DEF Import!Init, Import!HistoryOK
<1>2. HistoryTypeOK
  <2>1. import \in ImportRow
    BY DEF Import!Init, Import!Newest, ImportRow
  <2>2. own \in OwnRow /\ worker \in [Importers -> WorkerRow]
    BY IdleImporter DEF Import!Init, OwnRow
  <2>3. mapped \in [Import!Ids -> Nat] /\ posts \in [Import!Ids -> {"none", "own", "imported"}]
    BY DEF Import!Init
  <2>4. reach \in 0..Len(Stamp)
    BY <1>1 DEF Import!Init
  <2>5. stalled \in BOOLEAN
    BY Zenon DEF Import!Init
  <2> QED
    BY <1>1, <2>1, <2>2, <2>3, <2>4, <2>5 DEF HistoryTypeOK
<1>3. RunSound
  <2>1. import.run = 0 /\ import.generation = 0 /\ import.status = "none" /\ import.processed = 0
    BY DEF Import!Init
  <2>2. SeenBy(import.run) = {}
    BY <2>1 DEF SeenBy
  <2>3. Cardinality(SeenBy(import.run)) = 0
    BY <2>2, FS_EmptySet
  <2> QED
    BY <1>1, <2>1, <2>3 DEF Import!Init, RunSound
<1>4. ProgressSound /\ OwnSound
  BY DEF Import!Init, ProgressSound, OwnSound
<1>5. WorkersSound
  BY IdleImporter DEF Import!Init, WorkersSound, WorkerSound
<1> QED
  BY <1>2, <1>3, <1>4, <1>5 DEF HistoryInv
\* Every step keeps the invariant.
LEMMA HistoryStep == ASSUME Import!HistoryOK, HistoryInv, [Import!Next]_(Import!history) PROVE HistoryInv'
<1>1. CASE Import!Next
  <2>1. ASSUME NEW w \in Importers,
               \/ Import!ClaimMAXHistoryImport(w) \/ Import!GetMessagesPage(w) \/ Import!ApplyMAXHistoryPage(w)
               \/ Import!ReleaseMAXHistoryImport(w) \/ Import!ImporterDies(w)
        PROVE HistoryInv'
    BY <2>1, ClaimImportKept, GetMessagesPageKept, ApplyPageKept, ReleaseImportKept, ImporterDiesKept
  <2>2. CASE Import!LeaseEnds
    BY <2>2, LeaseEndsKept
  <2>3. CASE Import!SomebodyWrites \/ Import!SendPost
    BY <2>3, MessageAppears
  <2>4. CASE Import!ClaimPost \/ Import!PublisherDies \/ Import!RecoverStalePublishing
    BY <2>4, PostGoesOn
  <2>5. CASE Import!RecordPost
    BY <2>5, RecordPostKept
  <2> QED
    BY <1>1, <2>1, <2>2, <2>3, <2>4, <2>5, Zenon DEF Import!Next
<1>2. CASE UNCHANGED Import!history
  BY <1>2 DEF Import!history, HistoryInv, HistoryTypeOK, RunSound, SeenBy, ProgressSound, Halfway, Whole,
    WorkersSound, WorkerSound, PageSound, PageOf, Shown, OwnSound
<1> QED
  BY <1>1, <1>2

\* Whoever imports, dies, lets a claim lapse or comes back with an old page, and whatever is written to the
\* channel meanwhile, the run, its cursor and its pages fit together.
THEOREM HistorySound == Import!HistoryOK /\ ImportSpec => []HistoryInv
<1> SUFFICES ASSUME Import!HistoryOK PROVE ImportSpec => []HistoryInv
  OBVIOUS
<1>1. Import!Init => HistoryInv
  BY HistoryInit
<1>2. HistoryInv /\ [Import!Next]_(Import!history) => HistoryInv'
  BY HistoryStep
<1> QED
  BY <1>1, <1>2, PTL DEF ImportSpec

\* A completed import has a post for every message that was in the channel when its run began, unless a run
\* stopped at a boundary it could not pass, and has counted each message once; and the message that is being
\* published is never imported as somebody else's (ImportMAXChannelHistoryPage, ApplyMAXHistoryPage).
THEOREM HistoryIsComplete ==
  Import!HistoryOK /\ ImportSpec => [](Import!HistoryComplete /\ Import!OwnMessageRecordable)
<1> SUFFICES ASSUME Import!HistoryOK PROVE ImportSpec => [](Import!HistoryComplete /\ Import!OwnMessageRecordable)
  OBVIOUS
<1>1. HistoryInv => Import!HistoryComplete /\ Import!OwnMessageRecordable
  <2> SUFFICES ASSUME HistoryInv PROVE Import!HistoryComplete /\ Import!OwnMessageRecordable
    OBVIOUS
  <2>1. ASSUME import.status = "complete", ~stalled, NEW m \in 1..reach PROVE mapped[m] # 0 /\ posts[m] # "none"
    <3>1. m \in Import!Ids
      BY IdsAre DEF HistoryInv, HistoryTypeOK
    <3>2. mapped[m] # 0
      BY <2>1 DEF HistoryInv, ProgressSound, Whole
    <3> QED
      BY <3>1, <3>2 DEF HistoryInv, RunSound
  <2>2. import.processed = Import!Cardinality({m \in Import!Ids : mapped[m] = import.run /\ import.run # 0})
    BY HistoryCount DEF HistoryInv, RunSound, SeenBy
  <2>3. Import!OwnMessageRecordable
    BY DEF HistoryInv, OwnSound, Import!OwnMessageRecordable
  <2> QED
    BY <2>1, <2>2, <2>3 DEF Import!HistoryComplete
<1>2. ImportSpec => []HistoryInv
  BY HistorySound
<1> QED
  BY <1>1, <1>2, PTL
==================================================================================
