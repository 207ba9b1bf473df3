------------------------- MODULE PublicationProofs -------------------------
(***************************************************************************)
(* Publishing claims are exclusive for any number of posts, handlers and   *)
(* scheduler processes, as long as the recovery age is not shorter than    *)
(* the time a worker may keep its claim.                                   *)
(*                                                                         *)
(* The lemmas follow the shapes of the steps: a row written by somebody    *)
(* without a claim, a claim taken, kept or settled, a worker that turns to *)
(* a post or returns from it.                                              *)
(*                                                                         *)
(* The second part is about what the channel receives: rows name the right *)
(* message, only a person who acts on a failure sends a second one, only   *)
(* approved text is sent, a row that looks in sync is, and no live message *)
(* is forgotten.  Its invariant is DeliveryInv, which leans on ClaimInv:   *)
(* while a worker holds a post nobody else changes the row's message and   *)
(* content.                                                                *)
(***************************************************************************)
EXTENDS Publication, FiniteSetTheorems, TLAPS

\* What an UPDATE leaves behind: a well-typed row that carries the stamp, every
\* other row as it was, and no snapshot of the row but those that are kept.
LEMMA WriteRow ==
  ASSUME TypeOK, NEW q \in Posts, NEW row \in Row, NEW keep \in SUBSET Workers,
         Write(q, row, keep)
  PROVE  /\ post' \in [Posts -> Row]
         /\ post'[q] = Stamped(row) /\ Stamped(row) \in Row
         /\ post'[q].status = row.status /\ post'[q].updated = now
         /\ \A p \in Posts : p # q => post'[p] = post[p]
         /\ fresh' \subseteq Workers
         /\ \A w \in Workers : w \in fresh' <=> w \in keep \/ (w \in fresh /\ on[w] # q)
<1>1. now \in Int /\ post \in [Posts -> Row] /\ fresh \subseteq Workers
  BY DEF TypeOK
<1>2. /\ Stamped(row) \in Row
      /\ Stamped(row).status = row.status /\ Stamped(row).updated = now
  BY <1>1 DEF Row, Columns, Stamped
<1>3. /\ post' = [post EXCEPT ![q] = Stamped(row)]
      /\ fresh' = (fresh \ {w \in Workers : on[w] = q}) \cup keep
  BY DEF Write
<1> QED BY <1>1, <1>2, <1>3

\* What a returning worker forgets.
LEMMA LeaveWorker ==
  ASSUME TypeOK, NEW w \in Workers, Leave(w)
  PROVE  /\ pc' \in [Workers -> Pcs] /\ on' \in [Workers -> Posts \cup {NoPost}]
         /\ seen' \in [Workers -> Row \cup {NoPost}] /\ since' \in [Workers -> Nat]
         /\ got' \in [Workers -> MsgIds \cup {NoMsg}]
         /\ pc'[w] = "idle" /\ on'[w] = NoPost
         /\ \A v \in Workers : v # w => /\ pc'[v] = pc[v] /\ on'[v] = on[v]
                                        /\ seen'[v] = seen[v] /\ since'[v] = since[v]
  BY DEF TypeOK, Leave, Pcs

LEMMA HoldingPcs ==
  /\ Holding \subseteq Informed /\ Holding \subseteq Pcs
  /\ "idle" \notin Informed /\ "idle" \in Pcs /\ "idle" \notin Holding
  BY DEF Holding, Informed, Pcs, SendPcs, EditPcs

\* The two updates whose status depends on a case distinction.
LEMMA Placed ==
  ASSUME NEW row \in Row, NEW status \in Statuses, NEW c \in Contents, NEW slot \in Int,
         status = "scheduled" <=> slot # NoSlot
  PROVE  [row EXCEPT !.status = status, !.content = c, !.slot = slot] \in Row
  BY DEF Row, Columns

LEMMA Settled ==
  ASSUME NEW row \in Row, NEW status \in Statuses, NEW error \in Errors, NEW slot \in Int,
         NEW time \in Int, status = "scheduled" <=> slot # NoSlot
  PROVE  [row EXCEPT !.status = status, !.error = error, !.slot = slot, !.updated = time] \in Row
  BY DEF Row, Columns

\* Somebody without a claim writes a row, and does not release a claimed one.
LEMMA OutsiderWrite ==
  ASSUME ClaimInv, NEW q \in Posts, NEW row \in Row, Write(q, row, {}),
         post[q].status = "publishing" => row.status = "publishing",
         UNCHANGED <<message, now, pc, on, seen, since, got, cycle>>,
         approved' \in [Posts -> SUBSET Contents], retried' \in SUBSET Posts
  PROVE  ClaimInv'
<1> USE DEF ClaimInv
<1>0. TypeOK /\ {} \in SUBSET Workers
  OBVIOUS
<1>1. /\ post' \in [Posts -> Row]
      /\ post'[q].status = row.status /\ post'[q].updated = now
      /\ \A p \in Posts : p # q => post'[p] = post[p]
      /\ fresh' \subseteq Workers
      /\ \A w \in Workers : w \in fresh' <=> (w \in fresh /\ on[w] # q)
  BY <1>0, WriteRow
<1>2. TypeOK'
  BY <1>1 DEF TypeOK
<1>3. FreshIsCurrent'
  BY <1>1 DEF FreshIsCurrent, TypeOK
<1>4. ASSUME NEW w \in Workers, Holds(w)
      PROVE  /\ on[w] \in Posts /\ post'[on[w]].status = "publishing"
             /\ since[w] <= post'[on[w]].updated
  <2>1. on[w] \in Posts
    BY <1>4, HoldingPcs DEF TypeOK, Holds
  <2>2. CASE on[w] = q
    BY <1>1, <1>4, <2>2 DEF ClaimInTime, ClaimExclusive
  <2>3. CASE on[w] # q
    BY <1>1, <1>4, <2>1, <2>3 DEF ClaimInTime, ClaimExclusive
  <2> QED BY <2>1, <2>2, <2>3
<1>5. ClaimInTime'
  BY <1>4 DEF ClaimInTime, Holds
<1>6. ClaimExclusive'
  BY <1>4 DEF ClaimExclusive, Holds
<1> QED BY <1>2, <1>3, <1>5, <1>6

\* A worker returns without touching a row.
LEMMA ReturnStep ==
  ASSUME ClaimInv, NEW w \in Workers, Return(w)
  PROVE  ClaimInv'
<1> USE DEF ClaimInv
<1>1. TypeOK /\ Leave(w)
  BY DEF Return
<1>2. /\ pc' \in [Workers -> Pcs] /\ on' \in [Workers -> Posts \cup {NoPost}]
      /\ seen' \in [Workers -> Row \cup {NoPost}] /\ since' \in [Workers -> Nat]
      /\ got' \in [Workers -> MsgIds \cup {NoMsg}]
      /\ pc'[w] = "idle" /\ on'[w] = NoPost
      /\ \A v \in Workers : v # w => /\ pc'[v] = pc[v] /\ on'[v] = on[v]
                                     /\ seen'[v] = seen[v] /\ since'[v] = since[v]
  BY <1>1, LeaveWorker
<1>3. fresh' = fresh \ {w} /\ UNCHANGED <<post, message, now, cycle, approved, retried>>
  BY DEF Return, db, history
<1>4. TypeOK'
  BY <1>2, <1>3, HoldingPcs DEF TypeOK
<1>5. FreshIsCurrent'
  BY <1>2, <1>3 DEF FreshIsCurrent, TypeOK
<1>6. ClaimInTime'
  BY <1>2, <1>3, HoldingPcs DEF ClaimInTime, Holds
<1>7. ClaimExclusive'
  BY <1>2, <1>3, HoldingPcs DEF ClaimExclusive, Holds
<1> QED BY <1>4, <1>5, <1>6, <1>7

\* A worker writes the row it works on and returns: either the claim is its own
\* or nobody has claimed the row.
LEMMA SettleStep ==
  ASSUME ClaimInv, NEW w \in Workers, on[w] \in Posts, NEW row \in Row,
         Write(on[w], row, {}), Leave(w),
         Holds(w) \/ post[on[w]].status # "publishing",
         UNCHANGED <<message, now, cycle>>,
         approved' \in [Posts -> SUBSET Contents], retried' \in SUBSET Posts
  PROVE  ClaimInv'
<1> USE DEF ClaimInv
<1>0. TypeOK /\ {} \in SUBSET Workers
  OBVIOUS
<1>1. /\ post' \in [Posts -> Row]
      /\ \A p \in Posts : p # on[w] => post'[p] = post[p]
      /\ fresh' \subseteq Workers
      /\ \A v \in Workers : v \in fresh' <=> (v \in fresh /\ on[v] # on[w])
  BY <1>0, WriteRow
<1>2. /\ pc' \in [Workers -> Pcs] /\ on' \in [Workers -> Posts \cup {NoPost}]
      /\ seen' \in [Workers -> Row \cup {NoPost}] /\ since' \in [Workers -> Nat]
      /\ got' \in [Workers -> MsgIds \cup {NoMsg}]
      /\ pc'[w] = "idle" /\ on'[w] = NoPost
      /\ \A v \in Workers : v # w => /\ pc'[v] = pc[v] /\ on'[v] = on[v]
                                     /\ seen'[v] = seen[v] /\ since'[v] = since[v]
  BY <1>0, LeaveWorker
<1>3. TypeOK'
  <2>1. \A v \in Workers : pc'[v] = "idle" <=> on'[v] = NoPost
    BY <1>2 DEF TypeOK
  <2>2. \A v \in Workers : pc'[v] \in Informed => seen'[v] \in Row
    BY <1>2, HoldingPcs DEF TypeOK
  <2> QED BY <1>1, <1>2, <2>1, <2>2 DEF TypeOK
<1>4. FreshIsCurrent'
  <2> SUFFICES ASSUME NEW v \in fresh'
               PROVE  on'[v] \in Posts /\ seen'[v] = post'[on'[v]]
    BY DEF FreshIsCurrent
  <2>1. v \in Workers /\ v \in fresh /\ on[v] # on[w] /\ v # w
    BY <1>1
  <2> QED BY <2>1, <1>1, <1>2 DEF FreshIsCurrent
<1>5. ASSUME NEW v \in Workers, Holds(v)'
      PROVE  /\ v # w /\ Holds(v) /\ on'[v] = on[v] /\ on[v] \in Posts /\ on[v] # on[w]
             /\ since'[v] = since[v] /\ post'[on[v]] = post[on[v]]
  <2>1. v # w /\ Holds(v) /\ on'[v] = on[v] /\ since'[v] = since[v]
    BY <1>2, <1>5, HoldingPcs DEF Holds
  <2>2. on[v] \in Posts
    BY <2>1, HoldingPcs DEF TypeOK, Holds
  <2>3. on[v] # on[w]
    BY <2>1 DEF ClaimExclusive
  <2> QED BY <2>1, <2>2, <2>3, <1>1
<1>6. ClaimInTime'
  BY <1>5 DEF ClaimInTime
<1>7. ClaimExclusive'
  BY <1>5 DEF ClaimExclusive
<1> QED BY <1>3, <1>4, <1>6, <1>7

\* A worker takes the claim of a row nobody has claimed.
LEMMA ClaimStep ==
  ASSUME ClaimInv, NEW w \in Workers, on[w] \in Posts, NEW row \in Row,
         NEW next \in Holding, Claim(w, row), Goto(w, next),
         row.status = "publishing", post[on[w]].status # "publishing",
         retried' \in SUBSET Posts
  PROVE  ClaimInv'
<1> USE DEF ClaimInv
<1> DEFINE q == on[w]
<1>0. TypeOK /\ {w} \in SUBSET Workers /\ Write(q, row, {w})
  BY DEF Claim
<1>1. /\ post' \in [Posts -> Row] /\ post'[q] = Stamped(row) /\ Stamped(row) \in Row
      /\ post'[q].status = "publishing" /\ post'[q].updated = now
      /\ \A p \in Posts : p # q => post'[p] = post[p]
      /\ fresh' \subseteq Workers
      /\ \A v \in Workers : v \in fresh' <=> (v = w \/ (v \in fresh /\ on[v] # q))
  BY <1>0, WriteRow
<1>2. /\ pc' = [pc EXCEPT ![w] = next]
      /\ seen' = [seen EXCEPT ![w] = Stamped(row)] /\ since' = [since EXCEPT ![w] = now]
      /\ UNCHANGED <<message, now, on, got, cycle, approved>>
  BY DEF Claim, Goto
<1>3. TypeOK'
  <2>1. \A v \in Workers : pc'[v] = "idle" <=> on'[v] = NoPost
    BY <1>2, HoldingPcs, NullAssumption DEF TypeOK
  <2>2. \A v \in Workers : pc'[v] \in Informed => seen'[v] \in Row
    BY <1>1, <1>2, HoldingPcs DEF TypeOK
  <2>3. pc' \in [Workers -> Pcs] /\ seen' \in [Workers -> Row \cup {NoPost}]
        /\ since' \in [Workers -> Nat]
    BY <1>1, <1>2, HoldingPcs DEF TypeOK
  <2> QED BY <1>1, <1>2, <2>1, <2>2, <2>3 DEF TypeOK
<1>4. FreshIsCurrent'
  BY <1>1, <1>2 DEF FreshIsCurrent, TypeOK
<1>5. ASSUME NEW v \in Workers, v # w, Holds(v)'
      PROVE  Holds(v) /\ on[v] \in Posts /\ on[v] # q /\ since'[v] = since[v]
  <2>1. Holds(v) /\ since'[v] = since[v]
    BY <1>2, <1>5 DEF Holds, TypeOK
  <2>2. on[v] \in Posts
    BY <2>1, HoldingPcs DEF TypeOK, Holds
  <2> QED BY <2>1, <2>2 DEF ClaimExclusive
<1>6. now \in Nat /\ PublishBudget \in Nat /\ since'[w] = now
  BY <1>2, BudgetAssumption DEF TypeOK
<1>7. ClaimInTime'
  <2> SUFFICES ASSUME NEW v \in Workers, Holds(v)'
               PROVE  /\ since'[v] <= post'[on[v]].updated
                      /\ since'[v] <= now /\ now <= since'[v] + PublishBudget
    BY <1>2 DEF ClaimInTime
  <2>1. CASE v = w
    BY <2>1, <1>1, <1>6
  <2>2. CASE v # w
    BY <2>2, <1>1, <1>5 DEF ClaimInTime
  <2> QED BY <2>1, <2>2
<1>8. ClaimExclusive'
  BY <1>1, <1>2, <1>5 DEF ClaimExclusive
<1> QED BY <1>3, <1>4, <1>7, <1>8

\* A worker goes on without touching a row; it enters a claim from a claim only.
LEMMA GotoStep ==
  ASSUME ClaimInv, NEW w \in Workers, NEW next \in Pcs \ {"idle"},
         pc[w] # "idle", Goto(w, next),
         next \in Informed => seen[w] \in Row,
         next \in Holding => Holds(w),
         UNCHANGED <<post, now, on, seen, fresh, since, cycle, history>>,
         message' \in [MsgIds -> [state : {"unused", "live", "gone"}, of : Posts \cup {NoPost},
                                  text : Contents \cup {NoContent}]],
         got' \in [Workers -> MsgIds \cup {NoMsg}]
  PROVE  ClaimInv'
<1> USE DEF ClaimInv, history
<1>1. /\ pc' = [pc EXCEPT ![w] = next] /\ pc' \in [Workers -> Pcs]
      /\ pc'[w] = next /\ \A v \in Workers : v # w => pc'[v] = pc[v]
  BY DEF Goto, TypeOK
<1>2. TypeOK'
  <2>1. \A v \in Workers : pc'[v] = "idle" <=> on'[v] = NoPost
    BY <1>1 DEF TypeOK
  <2>2. \A v \in Workers : pc'[v] \in Informed => seen'[v] \in Row
    BY <1>1 DEF TypeOK
  <2> QED BY <1>1, <2>1, <2>2 DEF TypeOK
<1>3. FreshIsCurrent'
  BY DEF FreshIsCurrent
<1>4. \A v \in Workers : Holds(v)' => Holds(v)
  BY <1>1 DEF Holds
<1>5. ClaimInTime'
  BY <1>4 DEF ClaimInTime
<1>6. ClaimExclusive'
  BY <1>4 DEF ClaimExclusive
<1> QED BY <1>2, <1>3, <1>5, <1>6

\* An idle worker turns to a post, keeping the row it read or not.
LEMMA TurnStep ==
  ASSUME ClaimInv, NEW w \in Workers, NEW q \in Posts, NEW next \in (Pcs \ {"idle"}) \ Holding,
         TurnTo(w, q, next),
         \/ seen' = seen /\ fresh' = fresh /\ next \notin Informed
         \/ seen' = [seen EXCEPT ![w] = post[q]] /\ fresh' = fresh \cup {w},
         cycle' \in [Schedulers -> [phase : {"rest", "list", "work"}, at : Nat,
                                    jobs : SUBSET Posts]]
  PROVE  ClaimInv'
<1> USE DEF ClaimInv, history, db
<1>1. /\ pc[w] = "idle" /\ w \notin fresh /\ on[w] = NoPost
      /\ pc' = [pc EXCEPT ![w] = next] /\ on' = [on EXCEPT ![w] = q]
      /\ UNCHANGED <<post, message, now, since, got, approved, retried>>
  BY NullAssumption DEF TurnTo, FreshIsCurrent, TypeOK
<1>2. /\ pc' \in [Workers -> Pcs] /\ on' \in [Workers -> Posts \cup {NoPost}]
      /\ pc'[w] = next /\ on'[w] = q
      /\ \A v \in Workers : v # w => pc'[v] = pc[v] /\ on'[v] = on[v] /\ seen'[v] = seen[v]
  BY <1>1 DEF TypeOK
<1>3. TypeOK'
  <2>1. \A v \in Workers : pc'[v] = "idle" <=> on'[v] = NoPost
    BY <1>2, NullAssumption DEF TypeOK
  <2>2. /\ seen' \in [Workers -> Row \cup {NoPost}] /\ fresh' \subseteq Workers
        /\ next \in Informed => seen'[w] \in Row
    BY DEF TypeOK
  <2>3. \A v \in Workers : pc'[v] \in Informed => seen'[v] \in Row
    BY <1>2, <2>2 DEF TypeOK
  <2> QED BY <1>1, <1>2, <2>1, <2>2, <2>3 DEF TypeOK
<1>4. FreshIsCurrent'
  BY <1>1, <1>2 DEF FreshIsCurrent, TypeOK
<1>5. \A v \in Workers : Holds(v)' => Holds(v) /\ v # w
  BY <1>2 DEF Holds
<1>6. ClaimInTime'
  BY <1>1, <1>2, <1>5 DEF ClaimInTime
<1>7. ClaimExclusive'
  BY <1>1, <1>2, <1>5 DEF ClaimExclusive
<1> QED BY <1>3, <1>4, <1>6, <1>7

\* The recovery of stale claims releases none that a worker holds.
LEMMA StartCycleStep ==
  ASSUME ClaimInv, NEW s \in Schedulers, StartCycle(s)
  PROVE  ClaimInv'
<1> USE DEF ClaimInv, history
<1>1. /\ post' = [q \in Posts |-> Recovered(post[q], now)]
      /\ fresh' = {w \in fresh : on[w] \in Posts => post'[on[w]] = post[on[w]]}
      /\ cycle' = [cycle EXCEPT ![s] = [phase |-> "list", at |-> now, jobs |-> {}]]
      /\ UNCHANGED <<message, now, pc, on, seen, since, got, approved, retried>>
  BY DEF StartCycle
<1>2. ASSUME NEW q \in Posts
      PROVE  post'[q] \in Row
  <2>1. post[q] \in Row /\ now \in Int /\ post'[q] = Recovered(post[q], now)
    BY <1>1 DEF TypeOK
  <2>2. CASE post[q].status = "publishing" /\ post[q].updated < now - StaleAfter
    <3> DEFINE status == IF post[q].msg # NoMsg THEN "published" ELSE "failed"
    <3>1. status \in Statuses /\ status # "scheduled"
      BY DEF Statuses
    <3>2. post'[q] = [post[q] EXCEPT !.status = status, !.error = "interrupted",
                                     !.slot = NoSlot, !.updated = now]
      BY <2>1, <2>2 DEF Recovered
    <3>3. "interrupted" \in Errors /\ NoSlot \in Int
      BY DEF Errors, NoSlot
    <3> HIDE DEF status
    <3>4. [post[q] EXCEPT !.status = status, !.error = "interrupted", !.slot = NoSlot,
                          !.updated = now] \in Row
      BY <2>1, <3>1, <3>3, Settled
    <3> QED BY <3>2, <3>4
  <2>3. CASE ~(post[q].status = "publishing" /\ post[q].updated < now - StaleAfter)
    BY <2>1, <2>3 DEF Recovered
  <2> QED BY <2>2, <2>3
<1>3. TypeOK'
  BY <1>1, <1>2 DEF TypeOK
<1>4. FreshIsCurrent'
  BY <1>1 DEF FreshIsCurrent
<1>5. ASSUME NEW w \in Workers, Holds(w)
      PROVE  on[w] \in Posts /\ post'[on[w]] = post[on[w]]
  <2>1. /\ on[w] \in Posts /\ since[w] \in Nat /\ now \in Nat
        /\ post[on[w]].updated \in Int
    BY <1>5, HoldingPcs DEF TypeOK, Holds, Row, Columns
  <2>2. since[w] <= post[on[w]].updated /\ now <= since[w] + PublishBudget
    BY <1>5 DEF ClaimInTime
  <2>3. ~(post[on[w]].updated < now - StaleAfter)
    BY <2>1, <2>2, BudgetAssumption
  <2> QED BY <1>1, <2>1, <2>3 DEF Recovered
<1>6. ClaimInTime'
  BY <1>1, <1>5 DEF ClaimInTime, Holds
<1>7. ClaimExclusive'
  BY <1>1, <1>5 DEF ClaimExclusive, Holds
<1> QED BY <1>3, <1>4, <1>6, <1>7

\* Time passes for no worker beyond its deadline.
LEMMA TickStep ==
  ASSUME ClaimInv, Tick
  PROVE  ClaimInv'
<1> USE DEF ClaimInv, history, worker
<1>1. /\ now' = now + 1 /\ now \in Nat
      /\ UNCHANGED <<post, message, pc, on, seen, fresh, since, got, cycle, approved, retried>>
      /\ \A w \in Workers : Holds(w) => now < since[w] + PublishBudget
  BY DEF Tick, TypeOK
<1>2. TypeOK'
  BY <1>1 DEF TypeOK
<1>3. FreshIsCurrent'
  BY <1>1 DEF FreshIsCurrent
<1>4. ClaimInTime'
  <2> SUFFICES ASSUME NEW w \in Workers, Holds(w)
               PROVE  /\ since[w] <= post[on[w]].updated
                      /\ since[w] <= now + 1 /\ now + 1 <= since[w] + PublishBudget
    BY <1>1 DEF ClaimInTime, Holds
  <2>1. since[w] \in Nat /\ now \in Nat /\ PublishBudget \in Nat
    BY BudgetAssumption DEF TypeOK
  <2>2. since[w] <= post[on[w]].updated /\ since[w] <= now
    BY DEF ClaimInTime
  <2> QED BY <1>1, <2>1, <2>2
<1>5. ClaimExclusive'
  BY <1>1 DEF ClaimExclusive, Holds
<1> QED BY <1>2, <1>3, <1>4, <1>5

\* The row edits of one statement.
LEMMA PostStepInv ==
  ASSUME ClaimInv, NEW q \in Posts, PostStep(q)
  PROVE  ClaimInv'
<1> USE DEF ClaimInv
<1>0. /\ post[q] \in Row /\ now \in Nat /\ approved \in [Posts -> SUBSET Contents]
      /\ retried \in SUBSET Posts
  BY DEF TypeOK
<1>1. ASSUME NEW c \in Contents, NEW at \in 0..MaxTime \cup {NoSlot}, CreatePost(q, c, at)
      PROVE  ClaimInv'
  <2> DEFINE status == IF at = NoSlot THEN "draft" ELSE "scheduled"
             row == [post[q] EXCEPT !.status = status, !.content = c, !.slot = at]
  <2>1. at \in Int /\ status \in Statuses /\ (status = "scheduled" <=> at # NoSlot)
    BY BudgetAssumption DEF NoSlot, Statuses
  <2>2. Write(q, row, {}) /\ post[q].status # "publishing"
    BY <1>1 DEF CreatePost
  <2>3. row \in Row
    <3> HIDE DEF status
    <3> QED BY <1>0, <2>1, Placed
  <2> QED BY <1>0, <1>1, <2>2, <2>3, OutsiderWrite DEF CreatePost, history
<1>2. ASSUME NEW c \in Contents, WriteAttachments(q, c)
      PROVE  ClaimInv'
  <2> DEFINE body == WithContent(post[q], c)
             row == [body EXCEPT !.review = "draft", !.revision = NoContent]
  <2>1. body \in Row
    BY <1>0 DEF WithContent, Row, Columns, Reviews
  <2>2. row \in Row
    BY <2>1 DEF Row, Columns, Reviews
  <2> QED BY <1>0, <1>2, <2>2, OutsiderWrite DEF WriteAttachments, history
<1>4. CASE CancelSchedule(q)
  <2> DEFINE row == [post[q] EXCEPT !.status = "draft", !.slot = NoSlot]
  <2>0. "draft" \in Statuses /\ NoSlot \in Int
    BY DEF Statuses, NoSlot
  <2>1. row \in Row
    BY <1>0, <2>0 DEF Row, Columns
  <2> QED BY <1>0, <1>4, <2>1, OutsiderWrite DEF CancelSchedule, history
<1>5. CASE DeletePost(q)
  <2> DEFINE row == [post[q] EXCEPT !.status = "deleted", !.slot = NoSlot]
  <2>0. "deleted" \in Statuses /\ NoSlot \in Int
    BY DEF Statuses, NoSlot
  <2>1. row \in Row
    BY <1>0, <2>0 DEF Row, Columns
  <2> QED BY <1>0, <1>5, <2>1, OutsiderWrite DEF DeletePost, history
<1>6. CASE CreatePostRevision(q)
  <2> DEFINE row == [post[q] EXCEPT !.revision = post[q].content, !.review = "draft"]
  <2>1. row \in Row /\ row.status = post[q].status
    BY <1>0 DEF Row, Columns, Reviews
  <2> QED BY <1>0, <1>6, <2>1, OutsiderWrite DEF CreatePostRevision, history
<1>7. CASE SubmitPostForReview(q)
  <2> DEFINE row == [post[q] EXCEPT !.revision = post[q].content, !.review = "in_review"]
  <2>1. row \in Row /\ row.status = post[q].status
    BY <1>0 DEF Row, Columns, Reviews
  <2> QED BY <1>0, <1>7, <2>1, OutsiderWrite DEF SubmitPostForReview, history
<1>8. ASSUME NEW d \in {"approved", "changes_requested"}, DecidePostReview(q, d)
      PROVE  ClaimInv'
  <2> DEFINE row == [post[q] EXCEPT !.review = d]
  <2>1. row \in Row /\ row.status = post[q].status
    BY <1>0 DEF Row, Columns, Reviews
  <2>2. post[q].revision \in Contents
    BY <1>0, <1>8 DEF DecidePostReview, Row, Columns
  <2>3. approved' \in [Posts -> SUBSET Contents]
    BY <1>0, <1>8, <2>2 DEF DecidePostReview
  <2> QED BY <1>0, <1>8, <2>1, <2>3, OutsiderWrite DEF DecidePostReview
<1> QED
  BY <1>1, <1>2, <1>4, <1>5, <1>6, <1>7, <1>8 DEF PostStep

\* A worker that has begun works on a post.
LEMMA Busy ==
  ASSUME TypeOK, NEW w \in Workers, pc[w] # "idle"
  PROVE  on[w] \in Posts /\ post[on[w]] \in Row
  BY DEF TypeOK

\* The editor's read-validate-write handlers.
LEMMA EditorStepInv ==
  ASSUME ClaimInv, NEW w \in Handlers, EditorStep(w)
  PROVE  ClaimInv'
<1> USE DEF ClaimInv
<1>0. /\ w \in Workers /\ TypeOK
      /\ {"saving", "scheduling"} \subseteq (Pcs \ {"idle"}) \ Holding
      /\ {"saving", "scheduling"} \subseteq Informed
      /\ approved \in [Posts -> SUBSET Contents] /\ retried \in SUBSET Posts
      /\ cycle \in [Schedulers -> [phase : {"rest", "list", "work"}, at : Nat,
                                   jobs : SUBSET Posts]]
  BY DEF Workers, Pcs, Holding, SendPcs, EditPcs, Informed, TypeOK
<1>1. ASSUME NEW q \in Posts, BeginSave(w, q) \/ BeginSchedule(w, q)
      PROVE  ClaimInv'
  <2>1. PICK next \in {"saving", "scheduling"} : Open(w, q, next)
    BY <1>1 DEF BeginSave, BeginSchedule
  <2> QED BY <1>0, <2>1, TurnStep DEF Open
<1>2. ASSUME NEW c \in Contents, NEW at \in 0..MaxTime \cup {NoSlot}, FinishSave(w, c, at)
      PROVE  ClaimInv'
  <2> DEFINE row == Edited(seen[w], c, at)
  <2>1. /\ pc[w] = "saving" /\ Write(on[w], row, {}) /\ Leave(w) /\ w \in fresh
        /\ seen[w].status # "publishing" /\ UNCHANGED <<message, now, cycle, approved>>
    BY <1>2 DEF FinishSave
  <2>2. /\ on[w] \in Posts /\ seen[w] = post[on[w]] /\ seen[w] \in Row
    BY <1>0, <2>1, Busy DEF FreshIsCurrent
  <2>3. row \in Row
    <3>1. WithContent(seen[w], c) \in Row
      BY <2>2 DEF WithContent, Row, Columns, Reviews
    <3>2. at \in Int /\ NoSlot \in Int
      BY BudgetAssumption DEF NoSlot
    <3>3. /\ "none" \in Errors /\ "draft" \in Statuses /\ "scheduled" \in Statuses
          /\ seen[w].status \in Statuses
      BY <2>2 DEF Errors, Statuses, Row, Columns
    <3>4. \A status \in Statuses \ {"scheduled"} :
            [WithContent(seen[w], c) EXCEPT !.slot = NoSlot, !.status = status] \in Row
      BY <3>1, <3>2 DEF Row, Columns
    <3>5. at # NoSlot => [WithContent(seen[w], c) EXCEPT !.slot = at, !.status = "scheduled",
                                                         !.error = "none"] \in Row
      BY <3>1, <3>2, <3>3 DEF Row, Columns
    <3>6. (IF seen[w].status = "scheduled" THEN "draft" ELSE seen[w].status)
            \in Statuses \ {"scheduled"}
      BY <3>3
    <3> QED BY <3>1, <3>3, <3>4, <3>5, <3>6 DEF Edited
  <2>4. retried' \in SUBSET Posts
    BY <1>0, <1>2, <2>2 DEF FinishSave, Retrying
  <2> HIDE DEF row
  <2> QED BY <1>0, <2>1, <2>2, <2>3, <2>4, SettleStep
<1>3. ASSUME NEW at \in 0..MaxTime, SetPostScheduledIfUnchanged(w, at)
      PROVE  ClaimInv'
  <2> DEFINE row == [seen[w] EXCEPT !.status = "scheduled", !.slot = at, !.error = "none"]
  <2>1. /\ pc[w] = "scheduling" /\ Write(on[w], row, {}) /\ Leave(w) /\ w \in fresh
        /\ seen[w].status # "publishing" /\ UNCHANGED <<message, now, cycle, approved>>
    BY <1>3 DEF SetPostScheduledIfUnchanged
  <2>2. /\ on[w] \in Posts /\ seen[w] = post[on[w]] /\ seen[w] \in Row
    BY <1>0, <2>1, Busy DEF FreshIsCurrent
  <2>3. "scheduled" \in Statuses /\ "none" \in Errors /\ at \in Int /\ at # NoSlot
    BY BudgetAssumption DEF Statuses, Errors, NoSlot
  <2>4. row \in Row
    BY <2>2, <2>3 DEF Row, Columns
  <2>5. retried' \in SUBSET Posts
    BY <1>0, <1>3, <2>2 DEF SetPostScheduledIfUnchanged, Retrying
  <2> HIDE DEF row
  <2> QED BY <1>0, <2>1, <2>2, <2>4, <2>5, SettleStep
<1>4. CASE SaveConflict(w)
  BY <1>0, <1>4, ReturnStep DEF SaveConflict
<1> QED BY <1>1, <1>2, <1>3, <1>4 DEF EditorStep

\* A handler begins a publication, an edit, a deletion or a synchronisation.
LEMMA RequestStepInv ==
  ASSUME ClaimInv, NEW w \in Handlers, RequestStep(w)
  PROVE  ClaimInv'
<1> USE DEF ClaimInv
<1> DEFINE Nexts == {"to_edit", "to_miss", "to_delete", "to_sync"}
<1>0. /\ w \in Workers
      /\ Nexts \subseteq (Pcs \ {"idle"}) \ Holding
      /\ "to_publish" \in (Pcs \ {"idle"}) \ Holding /\ "to_publish" \notin Informed
      /\ cycle \in [Schedulers -> [phase : {"rest", "list", "work"}, at : Nat,
                                   jobs : SUBSET Posts]]
  BY DEF Workers, Pcs, Holding, SendPcs, EditPcs, Informed, TypeOK
<1>1. PICK q \in Posts : BeginPublish(w, q) \/ (\E next \in Nexts : Open(w, q, next))
  BY DEF RequestStep, BeginEdit, BeginDelete, BeginSync
<1>2. CASE BeginPublish(w, q)
  BY <1>0, <1>2, TurnStep DEF BeginPublish
<1>3. CASE \E next \in Nexts : Open(w, q, next)
  <2>1. PICK next \in Nexts : Open(w, q, next)
    BY <1>3
  <2> QED BY <1>0, <2>1, TurnStep DEF Open
<1> QED BY <1>1, <1>2, <1>3

\* The two ways into a claim.
LEMMA ClaimActions ==
  ASSUME ClaimInv, NEW w \in Workers,
         \/ ClaimForPublishing(w)
         \/ \E s \in Schedulers : ClaimScheduledForPublishing(s, w)
         \/ ClaimPublishedForUpdate(w)
  PROVE  ClaimInv'
<1> USE DEF ClaimInv
<1>0. /\ retried \in SUBSET Posts /\ {"claimed", "failing", "edit_claimed"} \subseteq Holding
      /\ "publishing" \in Statuses /\ "none" \in Errors /\ NoSlot \in Int
  BY DEF TypeOK, Holding, SendPcs, EditPcs, Statuses, Errors, NoSlot
<1>1. CASE ClaimForPublishing(w)
  <2>1. on[w] \in Posts /\ post[on[w]] \in Row
    BY <1>1, Busy DEF ClaimForPublishing
  <2>2. Claimed(post[on[w]]) \in Row /\ Claimed(post[on[w]]).status = "publishing"
    BY <1>0, <2>1 DEF Row, Columns, Claimed
  <2>3. retried' \in SUBSET Posts
    BY <1>0, <1>1, <2>1 DEF ClaimForPublishing, Retrying
  <2> QED BY <1>0, <1>1, <2>1, <2>2, <2>3, ClaimStep DEF ClaimForPublishing
<1>2. ASSUME NEW s \in Schedulers, ClaimScheduledForPublishing(s, w)
      PROVE  ClaimInv'
  <2>1. on[w] \in Posts /\ post[on[w]] \in Row
    BY <1>2, Busy DEF ClaimScheduledForPublishing
  <2>2. Claimed(post[on[w]]) \in Row /\ Claimed(post[on[w]]).status = "publishing"
    BY <1>0, <2>1 DEF Row, Columns, Claimed
  <2>3. /\ Claim(w, Claimed(post[on[w]])) /\ retried' = retried
        /\ Goto(w, IF pc[w] = "job" THEN "claimed" ELSE "failing")
        /\ post[on[w]].status # "publishing"
    BY <1>2 DEF ClaimScheduledForPublishing, Due
  <2>4. PICK next \in Holding : Goto(w, next)
    BY <1>0, <2>3
  <2> QED BY <1>0, <2>1, <2>2, <2>3, <2>4, ClaimStep
<1>3. CASE ClaimPublishedForUpdate(w)
  <2> DEFINE row == [post[on[w]] EXCEPT !.status = "publishing", !.error = "none"]
  <2>1. on[w] \in Posts /\ post[on[w]] \in Row /\ post[on[w]].status = "published"
    BY <1>3, Busy DEF ClaimPublishedForUpdate
  <2>2. row \in Row /\ row.status = "publishing"
    BY <1>0, <2>1 DEF Row, Columns
  <2>3. /\ Claim(w, row) /\ retried' = retried /\ Goto(w, "edit_claimed")
        /\ post[on[w]].status # "publishing"
    BY <1>3 DEF ClaimPublishedForUpdate
  <2> HIDE DEF row
  <2> QED BY <1>0, <2>1, <2>2, <2>3, ClaimStep
<1> QED BY <1>1, <1>2, <1>3

\* The steps in which a worker talks to MAX or checks the approval again.
LEMMA TalkActions ==
  ASSUME ClaimInv, NEW w \in Workers,
         Preflight(w) \/ Send(w) \/ EditCheck(w) \/ EditInMAX(w)
  PROVE  ClaimInv'
<1> USE DEF ClaimInv
<1> DEFINE Nexts == {"checked", "failing", "sent", "edit_checked", "edit_failed", "edit_done",
                     "edit_missing"}
           Froms == {"claimed", "checked", "edit_claimed", "edit_checked"}
           Table == [MsgIds -> [state : {"unused", "live", "gone"}, of : Posts \cup {NoPost},
                                text : Contents \cup {NoContent}]]
<1>0. /\ Nexts \subseteq Pcs \ {"idle"} /\ Nexts \subseteq Holding /\ Nexts \subseteq Informed
      /\ Froms \subseteq Holding /\ Froms \subseteq Informed /\ "idle" \notin Froms
      /\ message \in Table /\ got \in [Workers -> MsgIds \cup {NoMsg}]
  BY DEF TypeOK, Pcs, Holding, SendPcs, EditPcs, Informed
<1>1. pc[w] \in Froms
  BY DEF Preflight, Send, EditCheck, EditInMAX
<1>2. /\ on[w] \in Posts /\ Holds(w) /\ seen[w] \in Row /\ seen[w].content \in Contents
  BY <1>0, <1>1, Busy DEF TypeOK, Holds, Row, Columns
<1>3. PICK next \in Nexts : Goto(w, next)
  BY DEF Preflight, Send, EditCheck, EditInMAX
<1>4. UNCHANGED <<post, now, on, seen, fresh, since, cycle, history>>
  BY DEF Preflight, Send, EditCheck, EditInMAX, db
<1>5. message' \in Table /\ got' \in [Workers -> MsgIds \cup {NoMsg}]
  <2>1. CASE Preflight(w) \/ EditCheck(w)
    BY <1>0, <2>1 DEF Preflight, EditCheck, db
  <2>2. CASE Send(w)
    BY <1>0, <1>2, <2>2 DEF Send
  <2>3. CASE EditInMAX(w)
    BY <1>0, <1>2, <2>3 DEF EditInMAX
  <2> QED BY <2>1, <2>2, <2>3
<1> HIDE DEF Nexts, Froms
<1> QED BY <1>0, <1>1, <1>2, <1>3, <1>4, <1>5, GotoStep

\* The steps that settle a row and return, or find nothing to settle.
LEMMA SettleActions ==
  ASSUME ClaimInv, NEW w \in Workers,
         \/ MarkPublished(w) \/ MarkPublishFailed(w)
         \/ MarkMAXPublicationMissing(w) \/ ClearPublication(w)
  PROVE  ClaimInv'
<1> USE DEF ClaimInv
<1>0. /\ {"published", "failed", "draft"} \subseteq Statuses
      /\ {"none", "failed", "missing"} \subseteq Errors /\ NoSlot \in Int
      /\ {"sent", "failing"} \subseteq Holding
      /\ approved \in [Posts -> SUBSET Contents] /\ retried \in SUBSET Posts
  BY DEF Statuses, Errors, NoSlot, Holding, SendPcs, EditPcs, TypeOK
<1>1. on[w] \in Posts /\ post[on[w]] \in Row
  BY Busy DEF MarkPublished, MarkPublishFailed, MarkMAXPublicationMissing, ClearPublication
<1>2. CASE Return(w)
  BY <1>2, ReturnStep
<1>3. ASSUME NEW row \in Row, Write(on[w], row, {}), Leave(w),
             UNCHANGED <<message, now, cycle, history>>,
             Holds(w) \/ post[on[w]].status # "publishing"
      PROVE  ClaimInv'
  BY <1>0, <1>1, <1>3, SettleStep DEF history
<1>4. CASE MarkPublished(w)
  <2> DEFINE row == [post[on[w]] EXCEPT !.status = "published", !.slot = NoSlot, !.msg = got[w],
                                        !.error = "none", !.fingerprint = post[on[w]].content]
  <2>1. got[w] \in MsgIds \cup {NoMsg}
    BY DEF TypeOK
  <2>2. row \in Row
    BY <1>0, <1>1, <2>1 DEF Row, Columns
  <2>3. pc[w] = "sent" /\ Settle(w, row)
    BY <1>4 DEF MarkPublished
  <2> HIDE DEF row
  <2> QED BY <1>0, <1>2, <1>3, <2>2, <2>3 DEF Settle, Holds
<1>5. CASE MarkPublishFailed(w)
  <2> DEFINE row == [post[on[w]] EXCEPT !.status = "failed", !.slot = NoSlot, !.error = "failed"]
  <2>1. row \in Row
    BY <1>0, <1>1 DEF Row, Columns
  <2>2. pc[w] = "failing" /\ Settle(w, row)
    BY <1>5 DEF MarkPublishFailed
  <2> HIDE DEF row
  <2> QED BY <1>0, <1>2, <1>3, <2>1, <2>2 DEF Settle, Holds
<1>6. CASE MarkMAXPublicationMissing(w)
  <2> DEFINE row == [post[on[w]] EXCEPT !.status = "failed", !.msg = NoMsg, !.slot = NoSlot,
                                        !.error = "missing"]
  <2>1. row \in Row
    BY <1>0, <1>1 DEF Row, Columns
  <2>2. \/ Return(w)
        \/ /\ Write(on[w], row, {}) /\ Leave(w) /\ UNCHANGED <<message, now, cycle, history>>
           /\ post[on[w]].status # "publishing"
    BY <1>6 DEF MarkMAXPublicationMissing
  <2> HIDE DEF row
  <2> QED BY <1>2, <1>3, <2>1, <2>2
<1>7. CASE ClearPublication(w)
  <2> DEFINE row == [post[on[w]] EXCEPT !.status = "draft", !.msg = NoMsg, !.slot = NoSlot,
                                        !.error = "none"]
  <2>1. row \in Row
    BY <1>0, <1>1 DEF Row, Columns
  <2>2. \/ Return(w)
        \/ /\ Write(on[w], row, {}) /\ Leave(w) /\ UNCHANGED <<message, now, cycle, history>>
           /\ post[on[w]].status # "publishing"
    BY <1>7 DEF ClearPublication
  <2> HIDE DEF row
  <2> QED BY <1>2, <1>3, <2>1, <2>2
<1> QED BY <1>4, <1>5, <1>6, <1>7

\* Releasing an edit claim; when the message is missing the worker keeps the
\* row it read back and goes on without the claim.
LEMMA ReleaseAction ==
  ASSUME ClaimInv, NEW w \in Workers, ReleasePublishedUpdate(w)
  PROVE  ClaimInv'
<1> USE DEF ClaimInv
<1> DEFINE q == on[w]
           row == Released(w)
<1>0. /\ TypeOK /\ "published" \in Statuses /\ {"none", "failed"} \subseteq Errors
      /\ approved \in [Posts -> SUBSET Contents] /\ retried \in SUBSET Posts
      /\ {"edit_done", "edit_failed", "edit_missing"} \subseteq Holding
      /\ "to_miss" \in Informed /\ "to_miss" \in Pcs /\ "to_miss" \notin Holding
      /\ {w} \in SUBSET Workers
  BY DEF Statuses, Errors, Holding, SendPcs, EditPcs, Informed, Pcs, TypeOK
<1>1. /\ q \in Posts /\ post[q] \in Row /\ Holds(w) /\ seen[w] \in Row
  BY <1>0, Busy, HoldingPcs DEF ReleasePublishedUpdate, Holds, TypeOK
<1>2. row \in Row /\ row.status = "published"
  <2>1. seen[w].content \in Contents /\ post[q].slot = NoSlot
    BY <1>1 DEF Row, Columns, ClaimExclusive
  <2> QED BY <1>0, <1>1, <2>1 DEF Row, Columns, Released
<1> HIDE DEF row
<1>3. CASE pc[w] # "edit_missing"
  <2>1. Write(q, row, {}) /\ Leave(w) /\ UNCHANGED <<message, now, cycle, history>>
    BY <1>3 DEF ReleasePublishedUpdate, row
  <2> QED BY <1>0, <1>1, <1>2, <2>1, SettleStep DEF history
<1>4. CASE pc[w] = "edit_missing"
  <2>1. /\ Write(q, row, {w})
        /\ pc' = [pc EXCEPT ![w] = "to_miss"] /\ seen' = [seen EXCEPT ![w] = Stamped(row)]
        /\ UNCHANGED <<on, since, got, message, now, cycle, approved, retried>>
    BY <1>4 DEF ReleasePublishedUpdate, Goto, history, row
  <2>2. /\ post' \in [Posts -> Row] /\ post'[q] = Stamped(row) /\ Stamped(row) \in Row
        /\ \A p \in Posts : p # q => post'[p] = post[p]
        /\ fresh' \subseteq Workers
        /\ \A v \in Workers : v \in fresh' <=> (v = w \/ (v \in fresh /\ on[v] # q))
    BY <1>0, <1>1, <1>2, <2>1, WriteRow
  <2>3. /\ pc' \in [Workers -> Pcs] /\ seen' \in [Workers -> Row \cup {NoPost}]
        /\ \A v \in Workers : pc'[v] = "idle" <=> on'[v] = NoPost
        /\ \A v \in Workers : pc'[v] \in Informed => seen'[v] \in Row
    BY <1>0, <1>4, <2>1, <2>2, HoldingPcs DEF TypeOK
  <2>4. TypeOK'
    BY <2>1, <2>2, <2>3 DEF TypeOK
  <2>5. FreshIsCurrent'
    BY <1>1, <2>1, <2>2 DEF FreshIsCurrent, TypeOK
  <2>6. ASSUME NEW v \in Workers, Holds(v)'
        PROVE  Holds(v) /\ v # w /\ on[v] \in Posts /\ post'[on[v]] = post[on[v]]
    <3>1. Holds(v) /\ v # w
      BY <1>0, <2>1, <2>6 DEF Holds, TypeOK
    <3>2. on[v] \in Posts
      BY <3>1, HoldingPcs DEF TypeOK, Holds
    <3> QED BY <1>1, <2>2, <3>1, <3>2 DEF ClaimExclusive
  <2>7. ClaimInTime'
    BY <2>1, <2>6 DEF ClaimInTime
  <2>8. ClaimExclusive'
    BY <2>1, <2>6 DEF ClaimExclusive
  <2> QED BY <2>4, <2>5, <2>7, <2>8
<1> QED BY <1>3, <1>4

\* Deleting in MAX, and the re-read of a published message.
LEMMA RemovalActions ==
  ASSUME ClaimInv, NEW w \in Workers, DeleteInMAX(w) \/ ReadFromMAX(w)
  PROVE  ClaimInv'
<1> USE DEF ClaimInv
<1> DEFINE Table == [MsgIds -> [state : {"unused", "live", "gone"}, of : Posts \cup {NoPost},
                                text : Contents \cup {NoContent}]]
<1>0. /\ {"to_delete", "to_sync", "to_clear", "to_miss"} \subseteq Informed
      /\ {"to_clear", "to_miss"} \subseteq (Pcs \ {"idle"}) \ Holding
      /\ "idle" \notin {"to_delete", "to_sync"}
      /\ message \in Table /\ got \in [Workers -> MsgIds \cup {NoMsg}]
  BY DEF Informed, Pcs, Holding, SendPcs, EditPcs, TypeOK
<1>1. pc[w] \in {"to_delete", "to_sync"} /\ seen[w] \in Row
  BY <1>0 DEF DeleteInMAX, ReadFromMAX, TypeOK
<1>2. CASE DeleteInMAX(w)
  <2>1. message' \in Table
    BY <1>0, <1>2 DEF DeleteInMAX
  <2>2. /\ UNCHANGED <<post, now, cycle, history>>
        /\ \/ Goto(w, "to_clear") /\ UNCHANGED <<on, seen, fresh, since, got>>
           \/ Leave(w) /\ fresh' = fresh \ {w}
    BY <1>2 DEF DeleteInMAX
  <2>3. CASE Goto(w, "to_clear") /\ UNCHANGED <<on, seen, fresh, since, got>>
    BY <1>0, <1>1, <2>1, <2>2, <2>3, GotoStep
  <2>4. CASE Leave(w) /\ fresh' = fresh \ {w}
    <3>1. /\ pc' \in [Workers -> Pcs] /\ on' \in [Workers -> Posts \cup {NoPost}]
          /\ seen' \in [Workers -> Row \cup {NoPost}] /\ since' \in [Workers -> Nat]
          /\ got' \in [Workers -> MsgIds \cup {NoMsg}]
          /\ pc'[w] = "idle" /\ on'[w] = NoPost
          /\ \A v \in Workers : v # w => /\ pc'[v] = pc[v] /\ on'[v] = on[v]
                                         /\ seen'[v] = seen[v] /\ since'[v] = since[v]
      BY <2>4, LeaveWorker
    <3>2. fresh' = fresh \ {w} /\ UNCHANGED <<post, now, cycle, approved, retried>>
      BY <2>2, <2>4 DEF history
    <3>3. TypeOK'
      BY <2>1, <3>1, <3>2, HoldingPcs DEF TypeOK
    <3>4. FreshIsCurrent'
      BY <3>1, <3>2 DEF FreshIsCurrent, TypeOK
    <3>5. ClaimInTime'
      BY <3>1, <3>2, HoldingPcs DEF ClaimInTime, Holds
    <3>6. ClaimExclusive'
      BY <3>1, <3>2, HoldingPcs DEF ClaimExclusive, Holds
    <3> QED BY <3>3, <3>4, <3>5, <3>6
  <2> QED BY <2>2, <2>3, <2>4
<1>3. CASE ReadFromMAX(w)
  <2>1. CASE Return(w)
    BY <2>1, ReturnStep
  <2>2. CASE Goto(w, "to_miss") /\ UNCHANGED <<db, on, seen, fresh, since, got, cycle, history>>
    BY <1>0, <1>1, <2>2, GotoStep DEF db
  <2> QED BY <1>3, <2>1, <2>2 DEF ReadFromMAX
<1> QED BY <1>2, <1>3

LEMMA WorkerStepInv ==
  ASSUME ClaimInv, NEW w \in Workers, WorkerStep(w) \/ Abandon(w)
  PROVE  ClaimInv'
<1>1. CASE Return(w)
  BY <1>1, ReturnStep
<1> QED
  BY <1>1, ClaimActions, TalkActions, SettleActions, ReleaseAction, RemovalActions
  DEF WorkerStep, Abandon, PublishRefused, ScheduleNotDue, EditConflict, ReleaseMissed

\* The steps of a scheduler cycle.
LEMMA SchedulerStepInv ==
  ASSUME ClaimInv, NEW s \in Schedulers, SchedulerStep(s)
  PROVE  ClaimInv'
<1> USE DEF ClaimInv
<1> DEFINE Cycles == [Schedulers -> [phase : {"rest", "list", "work"}, at : Nat,
                                     jobs : SUBSET Posts]]
<1>0. cycle \in Cycles
  BY DEF TypeOK
<1>1. ASSUME cycle' \in Cycles, UNCHANGED <<db, worker, history>>
      PROVE  ClaimInv'
  <2>1. TypeOK'
    BY <1>1 DEF TypeOK, db, worker, history
  <2> QED BY <1>1, <2>1 DEF db, worker, history, FreshIsCurrent, ClaimInTime, ClaimExclusive, Holds
<1>2. CASE StartCycle(s)
  BY <1>2, StartCycleStep
<1>3. CASE EndCycle(s)
  <2>1. cycle' \in Cycles
    BY <1>0, <1>3 DEF EndCycle
  <2> QED BY <1>1, <1>3, <2>1 DEF EndCycle
<1>4. ASSUME NEW jobs \in SUBSET Posts, ListDue(s, jobs)
      PROVE  ClaimInv'
  <2>1. cycle' \in Cycles
    BY <1>0, <1>4 DEF ListDue
  <2> QED BY <1>1, <1>4, <2>1 DEF ListDue
<1>5. ASSUME NEW w \in Pool[s], NEW q \in Posts, TakeJob(s, w, q)
      PROVE  ClaimInv'
  <2>1. cycle' \in Cycles
    BY <1>0, <1>5 DEF TakeJob
  <2>2. w \in Workers /\ UNCHANGED <<seen, fresh>>
    BY <1>5 DEF Workers, TakeJob
  <2>3. CASE Exists(q)
    <3>1. PICK next \in {"job", "revoked"} : TurnTo(w, q, next)
      BY <1>5, <2>3 DEF TakeJob
    <3>2. next \in (Pcs \ {"idle"}) \ Holding /\ next \notin Informed
      BY DEF Pcs, Holding, SendPcs, EditPcs, Informed
    <3> QED BY <2>1, <2>2, <3>1, <3>2, TurnStep
  <2>4. CASE ~Exists(q)
    BY <1>1, <1>5, <2>1, <2>4 DEF TakeJob, db, worker, history
  <2> QED BY <2>3, <2>4
<1> QED BY <1>2, <1>3, <1>4, <1>5 DEF SchedulerStep

\* A duplicated post starts like one typed in with the same content: every step
\* of DuplicatePost is one of CreatePost, so Next leaves it out.
THEOREM DuplicateCreates ==
  ASSUME TypeOK, NEW q \in Posts, NEW copy \in Posts, DuplicatePost(q, copy)
  PROVE  post[q].content \in Contents /\ CreatePost(copy, post[q].content, NoSlot)
<1>1. post[q].content \in Contents /\ post[copy].slot = NoSlot /\ post[copy] \in Row
  BY DEF DuplicatePost, TypeOK, Row, Columns
<1>2. [post[copy] EXCEPT !.status = "draft", !.content = post[q].content]
        = [post[copy] EXCEPT !.status = "draft", !.content = post[q].content, !.slot = NoSlot]
  BY <1>1 DEF Row, Columns
<1> QED BY <1>1, <1>2 DEF DuplicatePost, CreatePost

\* Someone else deletes the message in MAX: no row and no worker notices.
LEMMA RemovedStep ==
  ASSUME ClaimInv, NEW m \in MsgIds, RemovedInMAX(m)
  PROVE  ClaimInv'
<1> USE DEF ClaimInv
<1>1. UNCHANGED <<post, now, pc, on, seen, fresh, since, got, cycle, approved, retried>>
  BY DEF RemovedInMAX, worker, history
<1>2. message' \in [MsgIds -> [state : {"unused", "live", "gone"}, of : Posts \cup {NoPost},
                              text : Contents \cup {NoContent}]]
  BY DEF RemovedInMAX, TypeOK
<1> QED BY <1>1, <1>2 DEF TypeOK, FreshIsCurrent, ClaimInTime, ClaimExclusive, Holds

LEMMA InitInv == ASSUME Init PROVE ClaimInv
<1>1. PICK c \in Contents :
        post = [q \in Posts |->
                 [status |-> "absent", content |-> c, slot |-> NoSlot, msg |-> NoMsg,
                  fingerprint |-> NoContent, error |-> "none", review |-> "draft",
                  revision |-> NoContent, updated |-> 0]]
  BY DEF Init
<1>2. post \in [Posts -> Row]
  BY <1>1 DEF Row, Columns, Statuses, Errors, Reviews, NoSlot
<1>3. TypeOK
  BY <1>2, HoldingPcs DEF Init, TypeOK
<1>4. \A w \in Workers : ~Holds(w)
  BY HoldingPcs DEF Init, Holds
<1> QED BY <1>3, <1>4 DEF ClaimInv, Init, FreshIsCurrent, ClaimInTime, ClaimExclusive

LEMMA NextInv == ASSUME ClaimInv, [Next]_vars PROVE ClaimInv'
<1>1. CASE Next
  BY <1>1, EditorStepInv, RequestStepInv, WorkerStepInv, SchedulerStepInv, PostStepInv,
     RemovedStep, TickStep DEF Next
<1>2. CASE UNCHANGED vars
  BY <1>2 DEF vars, ClaimInv, TypeOK, FreshIsCurrent, ClaimInTime, ClaimExclusive, Holds
<1> QED BY <1>1, <1>2

\* The inductive invariant: no snapshot that still matches updated_at differs
\* from its row, and no claim is older than its deadline or its row.
THEOREM ClaimInvariant == Spec => []ClaimInv
<1> QED BY InitInv, NextInv, PTL DEF Spec

\* Rows, workers and scheduler cycles keep their types.
THEOREM TypeCorrect == Spec => []TypeOK
<1>1. ClaimInv => TypeOK
  BY DEF ClaimInv
<1> QED BY <1>1, ClaimInvariant, PTL

\* A claimed post belongs to one worker until that worker settles it: the
\* recovery of stale claims never overtakes a running publication.
THEOREM ClaimsAreExclusive == Spec => []ClaimExclusive
<1>1. ClaimInv => ClaimExclusive
  BY DEF ClaimInv
<1> QED BY <1>1, ClaimInvariant, PTL
----------------------------------------------------------------------------
(* What the channel receives. *)

\* MAX never forgets what it was sent, and histories only grow.
Remembered ==
  \A m \in MsgIds : message[m].state # "unused" =>
    /\ message'[m].of = message[m].of /\ message'[m].state # "unused"
    /\ message[m].state = "gone" => message'[m].state = "gone"
Grow ==
  /\ \A q \in Posts : approved[q] \subseteq approved'[q]
  /\ retried \subseteq retried'
Same(w) == pc'[w] = pc[w] /\ on'[w] = on[w] /\ seen'[w] = seen[w] /\ got'[w] = got[w]
Undisturbed(w) ==
  /\ Same(w)
  /\ Holds(w) => /\ post'[on[w]].msg = post[on[w]].msg
                 /\ post'[on[w]].content = post[on[w]].content
Known(w) == HolderSound(w) /\ MessageKnown(w)

\* What every step leaves behind: sound rows and workers, and no row that forgot
\* a message that is still in the channel.
Kept(q) == post[q].msg # NoMsg /\ Live(post[q].msg) => post'[q].msg = post[q].msg
Delivered == DeliveryInv' /\ \A q \in Posts : Kept(q)

\* A worker that holds a post works on a post and knows a message or none.
LEMMA Holder ==
  ASSUME ClaimInv, NEW w \in Workers, Holds(w)
  PROVE  on[w] \in Posts /\ post[on[w]] \in Row /\ seen[w] \in Row
         /\ post[on[w]].status = "publishing"
  BY HoldingPcs DEF ClaimInv, TypeOK, Holds, ClaimExclusive

\* What a worker knows stays true while the post it holds keeps its message and
\* content, MAX keeps the texts of that post and no new message of it appears.
LEMMA OtherWorker ==
  ASSUME ClaimInv, DeliveryInv, NEW w \in Workers, Same(w), Remembered, Grow,
         Holds(w) =>
           /\ post'[on[w]].msg = post[on[w]].msg /\ post'[on[w]].content = post[on[w]].content
           /\ \A m \in MsgIds : message[m].state # "unused" /\ message[m].of = on[w]
                => message'[m].text = message[m].text /\ (Live(m)' => Live(m))
           /\ \A m \in MsgIds : Live(m)' /\ message'[m].of = on[w] => Live(m)
  PROVE  Known(w)'
<1>1. Known(w)
  BY DEF DeliveryInv, Known
<1>2. MessageKnown(w)'
  <2>1. pc[w] \in {"to_edit", "to_delete", "to_sync", "to_miss", "to_clear", "edit_missing"}
          => seen[w] \in Row /\ seen[w].msg \in MsgIds \cup {NoMsg}
    BY DEF ClaimInv, TypeOK, Informed, Pcs, Holding, SendPcs, EditPcs, Row, Columns
  <2> QED BY <1>1, <2>1 DEF Known, MessageKnown, Same, Remembered
<1>3. CASE Holds(w)
  <2>1. /\ on[w] \in Posts /\ seen[w].msg \in MsgIds \cup {NoMsg} /\ RowSound(on[w])
        /\ got[w] \in MsgIds \cup {NoMsg}
    BY <1>3, Holder DEF DeliveryInv, Row, Columns, ClaimInv, TypeOK
  <2>2. pc[w] = "edit_done" =>
          /\ seen[w].msg \in MsgIds /\ message[seen[w].msg].of = on[w]
          /\ message[seen[w].msg].state # "unused"
    BY <1>1, <2>1 DEF Known, HolderSound, RowSound, EditPcs
  <2>3. LiveOf(on[w])' \subseteq LiveOf(on[w])
    BY <1>3, <2>1 DEF Same, LiveOf, Live, Remembered
  <2>4. pc[w] = "sent" =>
       /\ got[w] # NoMsg
       /\ message'[got[w]].of = on[w] /\ message'[got[w]].state # "unused"
       /\ message'[got[w]].text = seen[w].content
    BY <1>1, <1>3, <2>1 DEF Known, HolderSound, Remembered
  <2>5. on[w] \notin retried' => on[w] \notin retried
    BY DEF Grow
  <2>6. approved[on[w]] \subseteq approved'[on[w]]
    BY <2>1 DEF Grow
  <2> QED BY <1>1, <1>2, <1>3, <2>1, <2>2, <2>3, <2>4, <2>5, <2>6
             DEF Known, HolderSound, Same, Holds
<1>4. CASE ~Holds(w)
  BY <1>1, <1>2, <1>4 DEF Known, HolderSound, Same, Holds, Holding, SendPcs, EditPcs
<1> QED BY <1>3, <1>4

\* A row that is not written stays sound while its messages keep their texts and
\* no new one appears.
LEMMA OtherRow ==
  ASSUME TypeOK, NEW q \in Posts, RowSound(q), post'[q] = post[q], Remembered, Grow,
         post[q].status = "published" => \A m \in MsgIds : message[m].state # "unused" /\ message[m].of = q
              => message'[m].text = message[m].text,
         \A m \in MsgIds : Live(m)' /\ message'[m].of = q => Live(m)
  PROVE  RowSound(q)'
<1>1. post[q].msg \in MsgIds \cup {NoMsg}
  BY DEF TypeOK, Row, Columns
<1>2. LiveOf(q)' \subseteq LiveOf(q)
  BY DEF LiveOf, Live, Remembered
<1>3. approved[q] \subseteq approved'[q] /\ (q \notin retried' => q \notin retried)
  BY DEF Grow
<1>4. post[q].msg # NoMsg =>
       /\ message'[post[q].msg].of = q /\ message'[post[q].msg].state # "unused"
       /\ Live(post[q].msg)' => Live(post[q].msg)
       /\ post[q].status = "published" => message'[post[q].msg].text = message[post[q].msg].text
  BY <1>1 DEF RowSound, Remembered, Live
<1> QED BY <1>1, <1>2, <1>3, <1>4 DEF RowSound

LEMMA IdleSound ==
  ASSUME NEW w \in Workers, pc'[w] \in {"idle", "scheduling", "to_publish", "job", "revoked"}
  PROVE  Known(w)'
  BY DEF Known, HolderSound, MessageKnown, Holds, Holding, SendPcs, EditPcs

\* A step that leaves MAX alone: the rows it writes and the workers it moves are
\* sound again, the others keep what they had.
LEMMA QuietStep ==
  ASSUME ClaimInv, DeliveryInv, UNCHANGED message, Grow,
         NEW P \in SUBSET Posts, NEW W \in SUBSET Workers,
         \A q \in Posts \ P : post'[q] = post[q],
         \A q \in P : RowSound(q)' /\ Kept(q),
         \A v \in Workers \ W : Undisturbed(v),
         \A w \in W : Known(w)'
  PROVE  Delivered
<1>1. Remembered /\ \A m \in MsgIds : Live(m)' = Live(m)
  BY DEF Remembered, Live
<1>2. ASSUME NEW q \in Posts \ P PROVE RowSound(q)'
  <2>1. TypeOK /\ RowSound(q) /\ post'[q] = post[q]
    BY DEF DeliveryInv, ClaimInv
  <2> QED BY <1>1, <2>1, OtherRow
<1>3. ASSUME NEW v \in Workers \ W PROVE Known(v)'
  BY <1>1, OtherWorker DEF Undisturbed
<1>4. \A m \in MsgIds : message'[m].state # "unused" =>
       /\ message'[m].of \in Posts
       /\ ApprovalRequired => message'[m].text \in approved'[message'[m].of]
  BY DEF DeliveryInv, Grow
<1> QED BY <1>2, <1>3, <1>4 DEF DeliveryInv, Known, Delivered, Kept

\* A worker that returns without writing leaves everything sound.
LEMMA ReturnDelivery ==
  ASSUME ClaimInv, DeliveryInv, NEW w \in Workers, Return(w)
  PROVE  Delivered
<1>1. /\ UNCHANGED <<post, message, approved, retried>> /\ TypeOK /\ pc'[w] = "idle"
      /\ \A v \in Workers \ {w} : Same(v)
  BY DEF Return, Leave, db, history, Same, ClaimInv, TypeOK
<1>2. Known(w)' /\ Grow
  BY <1>1, IdleSound DEF Grow
<1>3. /\ {} \in SUBSET Posts /\ {w} \in SUBSET Workers
      /\ \A q \in Posts \ {} : post'[q] = post[q]
      /\ \A v \in Workers \ {w} : Undisturbed(v)
      /\ \A v \in {w} : Known(v)'
  BY <1>1, <1>2 DEF Undisturbed
<1> QED BY <1>1, <1>2, <1>3, QuietStep

\* A row written in one statement by nobody who holds it.
LEMMA OutsiderDelivery ==
  ASSUME ClaimInv, DeliveryInv, NEW q \in Posts, NEW row \in Row, Write(q, row, {}),
         UNCHANGED <<message, pc, on, seen, got>>, Grow, RowSound(q)', Kept(q),
         post[q].status = "publishing" => row.msg = post[q].msg /\ row.content = post[q].content
  PROVE  Delivered
<1>1. /\ TypeOK /\ {} \in SUBSET Workers /\ post'[q] = Stamped(row)
      /\ \A p \in Posts : p # q => post'[p] = post[p]
  <2>1. TypeOK /\ {} \in SUBSET Workers
    BY DEF ClaimInv
  <2> QED BY <2>1, WriteRow
<1>2. Stamped(row).msg = row.msg /\ Stamped(row).content = row.content
  BY DEF Stamped, Row, Columns
<1>3. ASSUME NEW v \in Workers
      PROVE  Undisturbed(v)
  <2>1. Same(v)
    BY DEF Same
  <2>2. CASE Holds(v)
    <3>1. on[v] \in Posts /\ post[on[v]].status = "publishing"
      BY <2>2, Holder
    <3> QED BY <1>1, <1>2, <2>1, <3>1 DEF Undisturbed
  <2> QED BY <2>1, <2>2 DEF Undisturbed
<1>4. /\ {q} \in SUBSET Posts /\ {} \in SUBSET Workers
      /\ \A p \in Posts \ {q} : post'[p] = post[p]
      /\ \A p \in {q} : RowSound(p)' /\ Kept(p)
      /\ \A v \in Workers \ {} : Undisturbed(v)
  BY <1>1, <1>3
<1> QED BY <1>4, QuietStep

\* A worker writes the row it works on and returns.
LEMMA SettleDelivery ==
  ASSUME ClaimInv, DeliveryInv, NEW w \in Workers, on[w] \in Posts, NEW row \in Row,
         Write(on[w], row, {}), Leave(w), Holds(w) \/ post[on[w]].status # "publishing",
         UNCHANGED message, Grow, \A q \in Posts : q = on[w] => RowSound(q)' /\ Kept(q)
  PROVE  Delivered
<1>1. /\ TypeOK /\ {} \in SUBSET Workers
      /\ \A p \in Posts : p # on[w] => post'[p] = post[p]
  <2>1. TypeOK /\ {} \in SUBSET Workers
    BY DEF ClaimInv
  <2> QED BY <2>1, WriteRow
<1>2. pc'[w] = "idle" /\ \A v \in Workers \ {w} : Same(v)
  BY <1>1 DEF Leave, Same, TypeOK
<1>3. ASSUME NEW v \in Workers \ {w}, Holds(v)
      PROVE  post'[on[v]] = post[on[v]]
  <2>1. on[v] \in Posts /\ post[on[v]].status = "publishing"
    BY <1>3, Holder
  <2>2. on[v] # on[w]
    BY <1>3, <2>1 DEF ClaimInv, ClaimExclusive
  <2> QED BY <1>1, <2>1, <2>2
<1>4. Known(w)'
  BY <1>2, IdleSound
<1>5. /\ {on[w]} \in SUBSET Posts /\ {w} \in SUBSET Workers
      /\ \A p \in Posts \ {on[w]} : post'[p] = post[p]
      /\ \A p \in {on[w]} : RowSound(p)' /\ Kept(p)
      /\ \A v \in Workers \ {w} : Undisturbed(v)
      /\ \A v \in {w} : Known(v)'
  BY <1>1, <1>2, <1>3, <1>4 DEF Undisturbed
<1> QED BY <1>5, QuietStep

\* An idle worker turns to a post and knows what its place asks for.
LEMMA TurnDelivery ==
  ASSUME ClaimInv, DeliveryInv, NEW w \in Workers, NEW q \in Posts, NEW next \in Pcs,
         TurnTo(w, q, next), \A v \in Workers \ {w} : seen'[v] = seen[v], Known(w)'
  PROVE  Delivered
<1>1. /\ UNCHANGED <<post, message, approved, retried>> /\ TypeOK
      /\ \A v \in Workers \ {w} : Same(v)
  BY DEF TurnTo, db, history, Same, ClaimInv, TypeOK
<1>2. /\ {} \in SUBSET Posts /\ {w} \in SUBSET Workers /\ Grow
      /\ \A p \in Posts \ {} : post'[p] = post[p]
      /\ \A v \in Workers \ {w} : Undisturbed(v)
      /\ \A v \in {w} : Known(v)'
  BY <1>1 DEF Grow, Undisturbed
<1> QED BY <1>1, <1>2, QuietStep

\* A worker goes on without writing a row or telling MAX anything.
LEMMA GoDelivery ==
  ASSUME ClaimInv, DeliveryInv, NEW w \in Workers, NEW next \in Pcs, Goto(w, next),
         UNCHANGED <<post, message, on, seen, got, history>>, Known(w)'
  PROVE  Delivered
<1>1. TypeOK /\ Grow /\ \A v \in Workers \ {w} : Same(v)
  BY DEF Goto, history, Same, ClaimInv, TypeOK, Grow
<1>2. /\ {} \in SUBSET Posts /\ {w} \in SUBSET Workers
      /\ \A p \in Posts \ {} : post'[p] = post[p]
      /\ \A v \in Workers \ {w} : Undisturbed(v)
      /\ \A v \in {w} : Known(v)'
  BY <1>1 DEF Undisturbed
<1> QED BY <1>1, <1>2, QuietStep

\* A worker takes the claim of a row nobody has claimed.
LEMMA ClaimDelivery ==
  ASSUME ClaimInv, DeliveryInv, NEW w \in Workers, on[w] \in Posts, NEW row \in Row,
         NEW next \in Pcs, Claim(w, row), Goto(w, next), post[on[w]].status # "publishing",
         Grow, Known(w)', \A q \in Posts : q = on[w] => RowSound(q)' /\ Kept(q)
  PROVE  Delivered
<1>1. /\ TypeOK /\ {w} \in SUBSET Workers /\ Write(on[w], row, {w})
      /\ UNCHANGED <<message, on, got>>
      /\ \A v \in Workers \ {w} : pc'[v] = pc[v] /\ seen'[v] = seen[v]
  BY DEF ClaimInv, Claim, Goto, TypeOK
<1>2. \A p \in Posts : p # on[w] => post'[p] = post[p]
  BY <1>1, WriteRow
<1>3. ASSUME NEW v \in Workers \ {w}
      PROVE  Same(v) /\ (Holds(v) => post'[on[v]] = post[on[v]])
  <2>1. Holds(v) => on[v] \in Posts /\ on[v] # on[w]
    BY Holder
  <2> QED BY <1>1, <1>2, <2>1 DEF Same
<1>4. /\ {on[w]} \in SUBSET Posts /\ {w} \in SUBSET Workers
      /\ \A p \in Posts \ {on[w]} : post'[p] = post[p]
      /\ \A p \in {on[w]} : RowSound(p)' /\ Kept(p)
      /\ \A v \in Workers \ {w} : Undisturbed(v)
      /\ \A v \in {w} : Known(v)'
  BY <1>1, <1>2, <1>3 DEF Undisturbed
<1> QED BY <1>1, <1>4, QuietStep

\* The row edits of one statement.
LEMMA PostStepDelivery ==
  ASSUME ClaimInv, DeliveryInv, NEW q \in Posts, PostStep(q)
  PROVE  Delivered
<1>0. /\ post[q] \in Row /\ now \in Nat /\ RowSound(q) /\ TypeOK
      /\ approved \in [Posts -> SUBSET Contents]
  BY DEF TypeOK, ClaimInv, DeliveryInv
<1>1. ASSUME NEW row \in Row, Write(q, row, {}),
             UNCHANGED <<message, now, pc, on, seen, since, got, cycle, retried>>,
             \A p \in Posts : approved[p] \subseteq approved'[p],
             row.msg = post[q].msg, row.fingerprint = post[q].fingerprint,
             row.error = post[q].error,
             post[q].status = "publishing" => row.content = post[q].content,
             \/ row.status = post[q].status /\ row.status # "absent"
             \/ /\ row.status \in {"draft", "scheduled"}
                /\ post[q].status \in {"absent", "draft", "scheduled"}
             \/ row.status = "deleted" /\ row.msg = NoMsg,
             row.revision # NoContent => row.status # "absent" /\ row.revision = row.content,
             row.review = "approved" /\ row.revision # NoContent => row.revision \in approved'[q]
      PROVE  Delivered
  <2>1. post'[q] = Stamped(row)
    <3>1. {} \in SUBSET Workers
      OBVIOUS
    <3> QED BY <1>0, <1>1, <3>1, WriteRow
  <2>2. RowSound(q)' /\ Kept(q)
    <3>1. /\ post'[q].status = row.status /\ post'[q].msg = row.msg /\ post'[q].error = row.error
          /\ post'[q].content = row.content /\ post'[q].fingerprint = row.fingerprint
          /\ post'[q].revision = row.revision /\ post'[q].review = row.review
      BY <2>1 DEF Stamped, Row, Columns
    <3>2. LiveOf(q)' = LiveOf(q) /\ \A m \in MsgIds \cup {NoMsg} : Live(m)' = Live(m)
      BY <1>1 DEF LiveOf, Live
    <3>3. post[q].status \in Statuses /\ post[q].msg \in MsgIds \cup {NoMsg}
      BY <1>0 DEF Row, Columns
    <3> QED BY <1>0, <1>1, <3>1, <3>2, <3>3 DEF RowSound, Statuses, Kept
  <2>3. Grow
    BY <1>1 DEF Grow
  <2> QED BY <1>1, <2>2, <2>3, OutsiderDelivery
<1>2. ASSUME NEW c \in Contents, NEW at \in 0..MaxTime \cup {NoSlot}, CreatePost(q, c, at)
      PROVE  Delivered
  <2> DEFINE status == IF at = NoSlot THEN "draft" ELSE "scheduled"
             row == [post[q] EXCEPT !.status = status, !.content = c, !.slot = at]
  <2>1. at \in Int /\ status \in {"draft", "scheduled"} /\ status \in Statuses
        /\ (status = "scheduled" <=> at # NoSlot)
    BY BudgetAssumption DEF NoSlot, Statuses
  <2>2. Write(q, row, {}) /\ post[q].status = "absent"
        /\ UNCHANGED <<message, now, pc, on, seen, since, got, cycle, approved, retried>>
    BY <1>2 DEF CreatePost, history
  <2>3. row \in Row
    <3> HIDE DEF status
    <3> QED BY <1>0, <2>1, Placed
  <2>4. post[q].revision = NoContent
    BY <1>0, <2>2 DEF RowSound
  <2>5. /\ row.msg = post[q].msg /\ row.fingerprint = post[q].fingerprint
        /\ row.error = post[q].error /\ row.status = status /\ row.revision = NoContent
    <3> HIDE DEF status
    <3> QED BY <1>0, <2>4 DEF Row, Columns
  <2> HIDE DEF row, status
  <2> QED BY <1>1, <2>1, <2>2, <2>3, <2>5
<1>3. ASSUME NEW c \in Contents, WriteAttachments(q, c)
      PROVE  Delivered
  <2> DEFINE body == WithContent(post[q], c)
             row == [body EXCEPT !.review = "draft", !.revision = NoContent]
  <2>1. body \in Row /\ body.status = post[q].status /\ body.msg = post[q].msg
        /\ body.fingerprint = post[q].fingerprint /\ body.error = post[q].error
    BY <1>0 DEF WithContent, Row, Columns, Reviews
  <2>2. row \in Row /\ row.status = post[q].status /\ row.msg = post[q].msg
        /\ row.fingerprint = post[q].fingerprint /\ row.error = post[q].error
        /\ row.revision = NoContent
    BY <2>1 DEF Row, Columns, Reviews
  <2>3. /\ Write(q, row, {}) /\ post[q].status \notin {"absent", "publishing"}
        /\ UNCHANGED <<message, now, pc, on, seen, since, got, cycle, approved, retried>>
    BY <1>3 DEF WriteAttachments, Exists, history
  <2> HIDE DEF row
  <2> QED BY <1>1, <2>2, <2>3
<1>4. CASE CancelSchedule(q)
  <2> DEFINE row == [post[q] EXCEPT !.status = "draft", !.slot = NoSlot]
  <2>1. "draft" \in Statuses /\ NoSlot \in Int
    BY DEF Statuses, NoSlot
  <2>2. row \in Row /\ row.status = "draft" /\ row.msg = post[q].msg
        /\ row.fingerprint = post[q].fingerprint /\ row.error = post[q].error
        /\ row.content = post[q].content /\ row.revision = post[q].revision
        /\ row.review = post[q].review
    BY <1>0, <2>1 DEF Row, Columns
  <2>3. /\ Write(q, row, {}) /\ post[q].status = "scheduled"
        /\ UNCHANGED <<message, now, pc, on, seen, since, got, cycle, approved, retried>>
    BY <1>4 DEF CancelSchedule, history
  <2> HIDE DEF row
  <2> QED BY <1>0, <1>1, <2>2, <2>3 DEF RowSound
<1>5. CASE DeletePost(q)
  <2> DEFINE row == [post[q] EXCEPT !.status = "deleted", !.slot = NoSlot]
  <2>1. "deleted" \in Statuses /\ NoSlot \in Int
    BY DEF Statuses, NoSlot
  <2>2. row \in Row /\ row.status = "deleted" /\ row.msg = post[q].msg
        /\ row.fingerprint = post[q].fingerprint /\ row.error = post[q].error
        /\ row.content = post[q].content /\ row.revision = post[q].revision
        /\ row.review = post[q].review
    BY <1>0, <2>1 DEF Row, Columns
  <2>3. /\ Write(q, row, {}) /\ post[q].status # "publishing" /\ post[q].msg = NoMsg
        /\ UNCHANGED <<message, now, pc, on, seen, since, got, cycle, approved, retried>>
    BY <1>5 DEF DeletePost, history
  <2> HIDE DEF row
  <2> QED BY <1>0, <1>1, <2>2, <2>3 DEF RowSound
<1>6. CASE CreatePostRevision(q)
  <2> DEFINE row == [post[q] EXCEPT !.revision = post[q].content, !.review = "draft"]
  <2>1. row \in Row /\ row.status = post[q].status /\ row.msg = post[q].msg
        /\ row.fingerprint = post[q].fingerprint /\ row.error = post[q].error
        /\ row.content = post[q].content /\ row.revision = post[q].content
        /\ row.review = "draft"
    BY <1>0 DEF Row, Columns, Reviews
  <2>2. /\ Write(q, row, {}) /\ post[q].status # "absent"
        /\ UNCHANGED <<message, now, pc, on, seen, since, got, cycle, approved, retried>>
    BY <1>6 DEF CreatePostRevision, Exists, history
  <2> HIDE DEF row
  <2> QED BY <1>1, <2>1, <2>2
<1>7. CASE SubmitPostForReview(q)
  <2> DEFINE row == [post[q] EXCEPT !.revision = post[q].content, !.review = "in_review"]
  <2>1. row \in Row /\ row.status = post[q].status /\ row.msg = post[q].msg
        /\ row.fingerprint = post[q].fingerprint /\ row.error = post[q].error
        /\ row.content = post[q].content /\ row.revision = post[q].content
        /\ row.review = "in_review"
    BY <1>0 DEF Row, Columns, Reviews
  <2>2. /\ Write(q, row, {}) /\ post[q].status # "absent"
        /\ UNCHANGED <<message, now, pc, on, seen, since, got, cycle, approved, retried>>
    BY <1>7 DEF SubmitPostForReview, Exists, history
  <2> HIDE DEF row
  <2> QED BY <1>1, <2>1, <2>2
<1>8. ASSUME NEW d \in {"approved", "changes_requested"}, DecidePostReview(q, d)
      PROVE  Delivered
  <2> DEFINE row == [post[q] EXCEPT !.review = d]
  <2>1. row \in Row /\ row.status = post[q].status /\ row.msg = post[q].msg
        /\ row.fingerprint = post[q].fingerprint /\ row.error = post[q].error
        /\ row.content = post[q].content /\ row.revision = post[q].revision
        /\ row.review = d
    BY <1>0 DEF Row, Columns, Reviews
  <2>2. /\ Write(q, row, {}) /\ post[q].status # "absent" /\ post[q].revision # NoContent
        /\ UNCHANGED <<message, now, pc, on, seen, since, got, cycle, retried>>
    BY <1>8 DEF DecidePostReview, Exists
  <2>3. /\ d = "approved" => approved' = [approved EXCEPT ![q] = @ \cup {post[q].revision}]
        /\ d # "approved" => approved' = approved
    BY <1>8 DEF DecidePostReview
  <2>4. /\ \A p \in Posts : approved[p] \subseteq approved'[p]
        /\ d = "approved" => row.revision \in approved'[q]
    BY <1>0, <2>1, <2>3
  <2> HIDE DEF row
  <2> QED BY <1>0, <1>1, <2>1, <2>2, <2>4 DEF RowSound
<1> QED
  BY <1>2, <1>3, <1>4, <1>5, <1>6, <1>7, <1>8 DEF PostStep

\* The editor's read-validate-write handlers.
LEMMA EditorStepDelivery ==
  ASSUME ClaimInv, DeliveryInv, NEW w \in Handlers, EditorStep(w)
  PROVE  Delivered
<1>0. /\ w \in Workers /\ TypeOK /\ {"saving", "scheduling"} \subseteq Pcs \ {"idle"}
  BY DEF Workers, Pcs, ClaimInv
<1>1. ASSUME NEW q \in Posts, BeginSave(w, q) \/ BeginSchedule(w, q)
      PROVE  Delivered
  <2>1. PICK next \in {"saving", "scheduling"} : Open(w, q, next)
    BY <1>1 DEF BeginSave, BeginSchedule
  <2>2. /\ TurnTo(w, q, next) /\ pc'[w] = next
        /\ \A v \in Workers \ {w} : seen'[v] = seen[v]
    BY <1>0, <2>1 DEF Open, TurnTo, TypeOK
  <2>3. seen'[w].status \notin {"absent", "deleted"}
    BY <1>0, <2>1 DEF Open, TurnTo, Exists, TypeOK
  <2>4. Known(w)'
    BY <2>2, <2>3 DEF Known, HolderSound, MessageKnown, Holds, Holding, SendPcs, EditPcs
  <2> QED BY <1>0, <2>2, <2>4, TurnDelivery
\* A handler writes back a row that nobody has touched since it was read.
<1>2. ASSUME NEW row \in Row, w \in fresh, pc[w] \in {"saving", "scheduling"},
             Write(on[w], row, {}), Leave(w), UNCHANGED <<message, now, cycle, approved>>,
             seen[w].status # "publishing", row.msg = seen[w].msg,
             row.fingerprint = seen[w].fingerprint,
             row.revision # NoContent =>
               row.revision = seen[w].revision /\ row.review = seen[w].review
               /\ row.content = seen[w].content,
             seen[w].status = "published" => row.status = "published",
             row.status = seen[w].status => row.error = seen[w].error \/ row.status # "published",
             row.status # seen[w].status => row.status \in {"draft", "scheduled"},
             row.status \in {"draft", "scheduled"} =>
               seen[w].status \in {"draft", "scheduled"} \/ retried' = retried \cup {on[w]},
             retried' \in {retried, retried \cup {on[w]}}
      PROVE  Delivered
  <2>1. /\ on[w] \in Posts /\ seen[w] = post[on[w]] /\ RowSound(on[w])
        /\ post[on[w]] \in Row
    BY <1>0, <1>2, Busy DEF ClaimInv, FreshIsCurrent, DeliveryInv
  <2>2. {} \in SUBSET Workers
    OBVIOUS
  <2>3. post'[on[w]] = Stamped(row)
    BY <1>0, <1>2, <2>1, <2>2, WriteRow
  <2>4. Grow
    BY <1>2 DEF Grow
  <2>5. ASSUME NEW q \in Posts, q = on[w]
        PROVE  RowSound(q)' /\ Kept(q)
    <3>1. /\ post'[q].status = row.status /\ post'[q].msg = row.msg /\ post'[q].error = row.error
          /\ post'[q].content = row.content /\ post'[q].fingerprint = row.fingerprint
          /\ post'[q].revision = row.revision /\ post'[q].review = row.review
      BY <2>3, <2>5 DEF Stamped, Row, Columns
    <3>2. LiveOf(q)' = LiveOf(q) /\ \A m \in MsgIds \cup {NoMsg} : Live(m)' = Live(m)
      BY <1>2 DEF LiveOf, Live
    <3>3. post[q].status \in Statuses /\ post[q].msg \in MsgIds \cup {NoMsg}
      BY <2>1, <2>5 DEF Row, Columns
    <3>4. approved' = approved /\ message' = message
      BY <1>2
    <3> QED BY <1>2, <2>1, <2>5, <3>1, <3>2, <3>3, <3>4 DEF RowSound, Statuses, Kept
  <2> QED BY <1>0, <1>2, <2>1, <2>4, <2>5, SettleDelivery
<1>3. ASSUME NEW c \in Contents, NEW at \in 0..MaxTime \cup {NoSlot}, FinishSave(w, c, at)
      PROVE  Delivered
  <2> DEFINE row == Edited(seen[w], c, at)
             body == WithContent(seen[w], c)
  <2>1. /\ pc[w] = "saving" /\ Write(on[w], row, {}) /\ Leave(w) /\ w \in fresh
        /\ seen[w].status # "publishing" /\ UNCHANGED <<message, now, cycle, approved>>
        /\ seen[w].status = "published" => at = seen[w].slot
        /\ IF at \notin {NoSlot, seen[w].slot} THEN Retrying(on[w]) ELSE UNCHANGED retried
    BY <1>3 DEF FinishSave
  <2>2. /\ on[w] \in Posts /\ seen[w] = post[on[w]] /\ seen[w] \in Row /\ RowSound(on[w])
    BY <1>0, <2>1, Busy DEF ClaimInv, FreshIsCurrent, DeliveryInv
  <2>3. /\ body \in Row /\ body.status = seen[w].status /\ body.msg = seen[w].msg
        /\ body.fingerprint = seen[w].fingerprint /\ body.error = seen[w].error
        /\ body.slot = seen[w].slot
        /\ body.revision # NoContent =>
             body.revision = seen[w].revision /\ body.review = seen[w].review
             /\ body.content = seen[w].content
    BY <2>2 DEF WithContent, Row, Columns, Reviews
  <2>4. at \in Int /\ NoSlot \in Int /\ "none" \in Errors /\ {"draft", "scheduled"} \subseteq Statuses
    BY BudgetAssumption DEF NoSlot, Errors, Statuses
  <2>5. /\ row.msg = body.msg /\ row.fingerprint = body.fingerprint
        /\ row.revision = body.revision /\ row.review = body.review /\ row.content = body.content
        /\ row \in Row
    <3>1. CASE at = seen[w].slot
      BY <2>3, <3>1 DEF Edited
    <3>2. CASE at # seen[w].slot /\ at = NoSlot
      <4>1. row = [body EXCEPT !.slot = NoSlot,
                       !.status = IF seen[w].status = "scheduled" THEN "draft" ELSE seen[w].status]
        BY <3>2 DEF Edited
      <4> HIDE DEF row, body
      <4> QED BY <2>2, <2>3, <2>4, <4>1 DEF Row, Columns
    <3>3. CASE at # seen[w].slot /\ at # NoSlot
      <4>1. row = [body EXCEPT !.slot = at, !.status = "scheduled", !.error = "none"]
        BY <3>3 DEF Edited
      <4> HIDE DEF row, body
      <4> QED BY <2>3, <2>4, <3>3, <4>1 DEF Row, Columns
    <3> QED BY <3>1, <3>2, <3>3
  <2>6. /\ at = seen[w].slot => row.status = seen[w].status /\ row.error = seen[w].error
        /\ at # seen[w].slot /\ at = NoSlot /\ seen[w].status = "scheduled" => row.status = "draft"
        /\ at # seen[w].slot /\ at = NoSlot /\ seen[w].status # "scheduled"
             => row.status = seen[w].status /\ row.error = seen[w].error
        /\ at # seen[w].slot /\ at # NoSlot => row.status = "scheduled"
    <3>1. body \in Columns
      BY <2>3 DEF Row
    <3> HIDE DEF body
    <3> QED BY <2>3, <3>1 DEF Edited, body, Columns
  <2>7. retried' = IF at \notin {NoSlot, seen[w].slot} /\ seen[w].status = "failed"
                   THEN retried \cup {on[w]} ELSE retried
    BY <2>1, <2>2 DEF Retrying
  <2>8. seen[w].status \in Statuses \ {"absent", "deleted", "publishing"}
    BY <1>0, <2>1, <2>2 DEF DeliveryInv, MessageKnown, Row, Columns
  <2> HIDE DEF row, body
  <2> QED BY <1>2, <2>1, <2>2, <2>3, <2>5, <2>6, <2>7, <2>8 DEF Statuses
<1>4. ASSUME NEW at \in 0..MaxTime, SetPostScheduledIfUnchanged(w, at)
      PROVE  Delivered
  <2> DEFINE row == [seen[w] EXCEPT !.status = "scheduled", !.slot = at, !.error = "none"]
  <2>1. /\ pc[w] = "scheduling" /\ Write(on[w], row, {}) /\ Leave(w) /\ w \in fresh
        /\ seen[w].status \in {"draft", "failed", "scheduled"} /\ Retrying(on[w])
        /\ UNCHANGED <<message, now, cycle, approved>>
    BY <1>4 DEF SetPostScheduledIfUnchanged
  <2>2. /\ on[w] \in Posts /\ seen[w] = post[on[w]] /\ seen[w] \in Row
    BY <1>0, <2>1, Busy DEF ClaimInv, FreshIsCurrent
  <2>3. "scheduled" \in Statuses /\ "none" \in Errors /\ at \in Int /\ at # NoSlot
    BY BudgetAssumption DEF Statuses, Errors, NoSlot
  <2>4. /\ row \in Row /\ row.status = "scheduled" /\ row.msg = seen[w].msg
        /\ row.fingerprint = seen[w].fingerprint /\ row.content = seen[w].content
        /\ row.revision = seen[w].revision /\ row.review = seen[w].review
    BY <2>2, <2>3 DEF Row, Columns
  <2>5. retried' = IF seen[w].status = "failed" THEN retried \cup {on[w]} ELSE retried
    BY <2>1, <2>2 DEF Retrying
  <2> HIDE DEF row
  <2> QED BY <1>2, <2>1, <2>2, <2>4, <2>5
<1>5. CASE SaveConflict(w)
  BY <1>0, <1>5, ReturnDelivery DEF SaveConflict
<1> QED BY <1>1, <1>3, <1>4, <1>5 DEF EditorStep

\* A handler begins a publication, an edit, a deletion or a synchronisation: the
\* row it keeps names a message MAX was sent.
LEMMA RequestStepDelivery ==
  ASSUME ClaimInv, DeliveryInv, NEW w \in Handlers, RequestStep(w)
  PROVE  Delivered
<1>0. w \in Workers /\ TypeOK
  BY DEF Workers, ClaimInv
<1>1. PICK q \in Posts :
        \/ BeginPublish(w, q)
        \/ \E next \in {"to_edit", "to_delete", "to_sync", "to_miss"} :
             /\ Open(w, q, next) /\ post[q].msg # NoMsg
             /\ next = "to_miss" => ~Live(post[q].msg)
  BY DEF RequestStep, BeginEdit, BeginDelete, BeginSync
<1>2. CASE BeginPublish(w, q)
  <2>1. /\ TurnTo(w, q, "to_publish") /\ pc'[w] = "to_publish" /\ "to_publish" \in Pcs
        /\ \A v \in Workers \ {w} : seen'[v] = seen[v]
    BY <1>0, <1>2 DEF BeginPublish, TurnTo, TypeOK, Pcs
  <2> QED BY <1>0, <2>1, IdleSound, TurnDelivery
<1>3. ASSUME NEW next \in {"to_edit", "to_delete", "to_sync", "to_miss"}, Open(w, q, next),
             post[q].msg # NoMsg, next = "to_miss" => ~Live(post[q].msg)
      PROVE  Delivered
  <2>1. /\ TurnTo(w, q, next) /\ pc'[w] = next /\ seen'[w] = post[q] /\ message' = message
        /\ next \in Pcs /\ \A v \in Workers \ {w} : seen'[v] = seen[v]
    BY <1>0, <1>3 DEF Open, TurnTo, TypeOK, Pcs, db
  <2>2. /\ message[post[q].msg].state # "unused" /\ post[q].msg \in MsgIds
        /\ message \in [MsgIds -> [state : {"unused", "live", "gone"}, of : Posts \cup {NoPost},
                                   text : Contents \cup {NoContent}]]
    BY <1>0, <1>3 DEF DeliveryInv, RowSound, TypeOK, Row, Columns
  <2>3. next = "to_miss" => message[post[q].msg].state = "gone"
    BY <1>3, <2>2 DEF Live
  <2>4. Known(w)'
    BY <1>3, <2>1, <2>2, <2>3
       DEF Known, HolderSound, MessageKnown, Holds, Holding, SendPcs, EditPcs
  <2> QED BY <1>0, <2>1, <2>4, TurnDelivery
<1> QED BY <1>1, <1>2, <1>3

\* The two ways into a claim.
LEMMA ClaimActionsDelivery ==
  ASSUME ClaimInv, DeliveryInv, NEW w \in Workers,
         \/ ClaimForPublishing(w)
         \/ \E s \in Schedulers : ClaimScheduledForPublishing(s, w)
         \/ ClaimPublishedForUpdate(w)
  PROVE  Delivered
<1>0. /\ {"claimed", "failing", "edit_claimed"} \subseteq Pcs /\ TypeOK
      /\ "publishing" \in Statuses /\ "none" \in Errors /\ NoSlot \in Int
  BY DEF Pcs, Holding, SendPcs, EditPcs, Statuses, Errors, NoSlot, ClaimInv
<1>1. ASSUME NEW next \in {"claimed", "failing"}, on[w] \in Posts,
             post[on[w]].status \in {"draft", "scheduled", "failed"},
             Claim(w, Claimed(post[on[w]])), Goto(w, next),
             retried' = IF post[on[w]].status = "failed" THEN retried \cup {on[w]} ELSE retried
      PROVE  Delivered
  <2>0. PICK q \in Posts : q = on[w]
    BY <1>1
  <2> DEFINE row == Claimed(post[q])
  <2>1. post[q] \in Row /\ RowSound(q) /\ post[q].msg = NoMsg
    BY <2>0, <1>0, <1>1 DEF DeliveryInv, RowSound, TypeOK, Row, Columns
  <2>2. /\ row \in Row /\ row.status = "publishing" /\ row.msg = NoMsg
        /\ row.content = post[q].content /\ row.revision = post[q].revision
        /\ row.review = post[q].review
    BY <1>0, <2>1 DEF Row, Columns, Claimed
  <2>3. /\ Write(q, row, {w}) /\ seen' = [seen EXCEPT ![w] = Stamped(row)] /\ on' = on
        /\ UNCHANGED <<message, got, approved>> /\ pc' = [pc EXCEPT ![w] = next]
        /\ Claim(w, row)
    BY <1>1, <2>0 DEF Claim, Goto
  <2>4. {w} \in SUBSET Workers
    OBVIOUS
  <2> HIDE DEF row
  <2>5. post'[q] = Stamped(row) /\ Stamped(row).status = "publishing" /\ Stamped(row).msg = NoMsg
        /\ Stamped(row).content = row.content /\ Stamped(row).revision = row.revision
        /\ Stamped(row).review = row.review
    BY <1>0, <2>2, <2>3, <2>4, WriteRow DEF Stamped, Row, Columns
  <2>6. pc'[w] = next /\ seen'[w] = Stamped(row) /\ on'[w] = q
    BY <1>0, <2>0, <2>3 DEF TypeOK
  <2>7. LiveOf(q)' = LiveOf(q) /\ (q \notin retried' => LiveOf(q) = {})
    BY <1>1, <2>0, <2>1, <2>3 DEF LiveOf, Live, RowSound
  <2>8. Grow
    BY <1>1, <2>0, <2>3 DEF Grow
  <2>9. RowSound(q)' /\ Kept(q)
    BY <2>1, <2>2, <2>3, <2>5, <2>7, <2>8 DEF RowSound, Grow, Kept
  <2>10. Known(w)'
    <3>1. next \notin EditPcs /\ next \in Holding
      BY DEF EditPcs, SendPcs, Holding
    <3>2. (LiveOf(on[w]))' = LiveOf(q)'
      BY <2>6 DEF LiveOf
    <3> QED BY <2>5, <2>6, <2>7, <3>1, <3>2 DEF Known, HolderSound, MessageKnown, Holds
  <2> QED BY <1>0, <1>1, <2>0, <2>2, <2>3, <2>8, <2>9, <2>10, ClaimDelivery
<1>2. CASE ClaimForPublishing(w)
  <2>1. on[w] \in Posts
    BY <1>0, <1>2, Busy DEF ClaimForPublishing
  <2> QED BY <1>1, <1>2, <2>1 DEF ClaimForPublishing, Retrying
<1>3. ASSUME NEW s \in Schedulers, ClaimScheduledForPublishing(s, w)
      PROVE  Delivered
  <2>1. on[w] \in Posts
    BY <1>0, <1>3, Busy DEF ClaimScheduledForPublishing
  <2>2. /\ Claim(w, Claimed(post[on[w]])) /\ retried' = retried
        /\ post[on[w]].status = "scheduled"
        /\ Goto(w, IF pc[w] = "job" THEN "claimed" ELSE "failing")
    BY <1>3 DEF ClaimScheduledForPublishing, Due
  <2>3. PICK next \in {"claimed", "failing"} : Goto(w, next)
    BY <2>2
  <2> QED BY <1>1, <2>1, <2>2, <2>3
<1>4. CASE ClaimPublishedForUpdate(w)
  <2>0. PICK q \in Posts : q = on[w]
    BY <1>0, <1>4, Busy DEF ClaimPublishedForUpdate
  <2> DEFINE row == [post[q] EXCEPT !.status = "publishing", !.error = "none"]
  <2>1. post[q] \in Row /\ RowSound(q) /\ post[q].status = "published"
    BY <1>0, <1>4, <2>0 DEF ClaimPublishedForUpdate, DeliveryInv, TypeOK
  <2>2. /\ row \in Row /\ row.status = "publishing" /\ row.msg = post[q].msg
        /\ row.content = post[q].content /\ row.revision = post[q].revision
        /\ row.review = post[q].review
    BY <1>0, <2>1 DEF Row, Columns
  <2>3. /\ Claim(w, row) /\ retried' = retried /\ Goto(w, "edit_claimed")
    BY <1>4, <2>0 DEF ClaimPublishedForUpdate
  <2>4. /\ Write(q, row, {w}) /\ seen' = [seen EXCEPT ![w] = Stamped(row)] /\ on' = on
        /\ UNCHANGED <<message, got, approved>> /\ pc' = [pc EXCEPT ![w] = "edit_claimed"]
    BY <2>0, <2>3 DEF Claim, Goto
  <2>5. {w} \in SUBSET Workers
    OBVIOUS
  <2> HIDE DEF row
  <2>6. post'[q] = Stamped(row) /\ Stamped(row).status = "publishing"
        /\ Stamped(row).msg = row.msg
        /\ Stamped(row).content = row.content /\ Stamped(row).revision = row.revision
        /\ Stamped(row).review = row.review
    BY <1>0, <2>1, <2>2, <2>4, <2>5, WriteRow DEF Stamped, Row, Columns
  <2>7. pc'[w] = "edit_claimed" /\ seen'[w] = Stamped(row) /\ on'[w] = q
    BY <1>0, <2>0, <2>4 DEF TypeOK
  <2>8. Grow /\ LiveOf(q)' = LiveOf(q)
    BY <2>3, <2>4 DEF Grow, LiveOf, Live
  <2>9. RowSound(q)' /\ Kept(q)
    BY <2>1, <2>2, <2>3, <2>4, <2>6, <2>8 DEF RowSound, Kept
  <2>10. Known(w)'
    <3>1. "edit_claimed" \notin SendPcs
      BY DEF SendPcs
    <3>2. post[q].msg # NoMsg
      BY <2>1 DEF RowSound
    <3> QED BY <2>2, <2>6, <2>7, <3>1, <3>2 DEF Known, HolderSound, MessageKnown, Holds
  <2> QED BY <1>0, <2>0, <2>1, <2>2, <2>3, <2>8, <2>9, <2>10, ClaimDelivery
<1> QED BY <1>2, <1>3, <1>4

\* A step that tells MAX something about the posts Q, whose rows and holders are
\* sound again; nobody else holds one of them.
LEMMA MAXStep ==
  ASSUME ClaimInv, DeliveryInv, UNCHANGED <<post, history>>, Remembered,
         NEW Q \in SUBSET Posts, NEW W \in SUBSET Workers,
         \A v \in Workers \ W : Same(v) /\ (Holds(v) => on[v] \notin Q),
         \A m \in MsgIds : message[m].state # "unused" /\ message[m].of \notin Q
           => message'[m].text = message[m].text,
         \A m \in MsgIds : Live(m)' /\ message'[m].of \notin Q => Live(m),
         \A q \in Q : RowSound(q)', \A w \in W : Known(w)',
         \A m \in MsgIds : message'[m].state # "unused" =>
           message'[m].of \in Posts /\ (ApprovalRequired => message'[m].text \in approved[message'[m].of])
  PROVE  Delivered
<1>1. Grow /\ TypeOK
  BY DEF Grow, history, ClaimInv
<1>2. ASSUME NEW q \in Posts \ Q PROVE RowSound(q)'
  <2>1. RowSound(q) /\ post'[q] = post[q]
    BY DEF DeliveryInv
  <2> QED BY <1>1, <2>1, OtherRow
<1>3. ASSUME NEW v \in Workers \ W PROVE Known(v)'
  <2>1. Remembered /\ \A m \in MsgIds : message[m].state = "gone" => message[m].state # "unused"
    OBVIOUS
  <2>2. ASSUME Holds(v), NEW m \in MsgIds, message[m].state # "unused", message[m].of = on[v]
        PROVE  message'[m].text = message[m].text /\ (Live(m)' => Live(m))
    BY <2>2 DEF Remembered
  <2>3. ASSUME Holds(v), NEW m \in MsgIds, Live(m)', message'[m].of = on[v]
        PROVE  Live(m)
    BY <2>3
  <2> QED BY <1>1, <2>2, <2>3, OtherWorker
<1>4. approved' = approved
  BY DEF history
<1>5. \A q \in Posts : Kept(q)
  BY DEF Kept
<1> QED BY <1>2, <1>3, <1>4, <1>5 DEF DeliveryInv, Known, Delivered

\* The approval is checked again under the claim: what is approved is the content
\* the worker read back.
LEMMA CheckActions ==
  ASSUME ClaimInv, DeliveryInv, NEW w \in Workers, Preflight(w) \/ EditCheck(w)
  PROVE  Delivered
<1>0. /\ TypeOK /\ Known(w) /\ pc[w] \in {"claimed", "edit_claimed"} /\ Holds(w)
      /\ {"checked", "failing", "edit_checked", "edit_failed"} \subseteq Pcs
      /\ (pc[w] = "claimed" <=> pc[w] \in SendPcs) /\ (pc[w] = "edit_claimed" <=> pc[w] \in EditPcs)
  BY DEF ClaimInv, DeliveryInv, Known, Preflight, EditCheck, Pcs, Holds, Holding, SendPcs, EditPcs
<1>1. /\ on[w] \in Posts /\ RowSound(on[w])
  BY <1>0, Holder DEF DeliveryInv
<1>2. UNCHANGED <<post, message, on, seen, got, history>>
  BY DEF Preflight, EditCheck, db
<1>3. PICK next \in {"checked", "failing", "edit_checked", "edit_failed"} :
        /\ Goto(w, next)
        /\ pc[w] = "claimed" => next \in {"checked", "failing"}
        /\ pc[w] = "edit_claimed" => next \in {"edit_checked", "edit_failed"}
        /\ next \in {"checked", "edit_checked"} => IsApproved(post[on[w]])
  BY DEF Preflight, EditCheck
<1>4. pc'[w] = next
  BY <1>0, <1>3 DEF Goto, TypeOK
<1>5. next \in {"checked", "edit_checked"} /\ ApprovalRequired
        => seen[w].content \in approved[on[w]]
  BY <1>0, <1>1, <1>3 DEF IsApproved, RowSound, Known, HolderSound
<1>6. (LiveOf(on[w]))' = LiveOf(on[w]) /\ retried' = retried /\ approved' = approved
  BY <1>2 DEF LiveOf, Live, history
<1>7. (next \in SendPcs <=> pc[w] \in SendPcs) /\ (next \in EditPcs <=> pc[w] \in EditPcs)
  BY <1>0, <1>3 DEF SendPcs, EditPcs
<1>8. Known(w)'
  BY <1>0, <1>2, <1>3, <1>4, <1>5, <1>6, <1>7
     DEF Known, HolderSound, MessageKnown, Holds, Holding
<1> QED BY <1>0, <1>2, <1>3, <1>8, GoDelivery

\* A new message: of a post that had none, unless somebody retried a failure.
LEMMA SendDelivery ==
  ASSUME ClaimInv, DeliveryInv, NEW w \in Workers, Send(w)
  PROVE  Delivered
<1>0. /\ TypeOK /\ Known(w) /\ pc[w] = "checked" /\ Holds(w) /\ pc[w] \in SendPcs
      /\ {"sent", "failing"} \subseteq Pcs
      /\ UNCHANGED <<post, now, on, seen, fresh, since, cycle, history>>
  BY DEF ClaimInv, DeliveryInv, Known, Send, Pcs, Holds, Holding, SendPcs, EditPcs
<1>1. PICK q \in Posts : q = on[w] /\ RowSound(q) /\ post[q].msg = NoMsg
                         /\ post[q].status = "publishing"
  BY <1>0, Holder DEF DeliveryInv, Known, HolderSound
<1>2. CASE Goto(w, "failing") /\ UNCHANGED <<message, got>>
  <2>1. pc'[w] = "failing"
    BY <1>0, <1>2 DEF Goto, TypeOK
  <2>2. Known(w)'
    BY <1>0, <2>1 DEF Known, HolderSound, MessageKnown, Holds, Holding, SendPcs, EditPcs
  <2> QED BY <1>0, <1>2, <2>2, GoDelivery
<1>3. ASSUME NEW m \in MsgIds, message[m].state = "unused",
             message' = [message EXCEPT ![m] =
               [state |-> "live", of |-> on[w], text |-> seen[w].content]],
             \/ Goto(w, "sent") /\ got' = [got EXCEPT ![w] = m]
             \/ Goto(w, "failing") /\ UNCHANGED got
      PROVE  Delivered
  <2>1. /\ message'[m] = [state |-> "live", of |-> q, text |-> seen[w].content]
        /\ \A n \in MsgIds \ {m} : message'[n] = message[n]
    BY <1>0, <1>1, <1>3 DEF TypeOK
  <2>2. Remembered
    BY <1>3, <2>1 DEF Remembered
  <2>3. \A v \in Workers \ {w} : Same(v) /\ (Holds(v) => on[v] \notin {q})
    BY <1>0, <1>1, <1>3 DEF Same, Goto, TypeOK, ClaimInv, ClaimExclusive
  <2>4. /\ \A n \in MsgIds \ {m} : Live(n)' = Live(n)
        /\ Live(m)' /\ ~Live(m)
    BY <1>3, <2>1 DEF Live
  <2>5. q \notin retried => LiveOf(q)' = {m}
    BY <1>0, <1>1, <2>1, <2>4 DEF LiveOf, Known, HolderSound
  <2>6. RowSound(q)'
    BY <1>0, <1>1, <2>5 DEF RowSound, history
  <2>7. Known(w)'
    <3>1. (pc'[w] = "sent" /\ got'[w] = m) \/ pc'[w] = "failing"
      BY <1>0, <1>3 DEF Goto, TypeOK
    <3>2. q \notin retried => (LiveOf(on[w]))' \subseteq {m}
      BY <1>0, <1>1, <2>5 DEF LiveOf
    <3>3. m # NoMsg
      BY NullAssumption
    <3>4. message'[m].of = q /\ message'[m].state # "unused" /\ message'[m].text = seen[w].content
      BY <2>1
    <3> QED BY <1>0, <1>1, <3>1, <3>2, <3>3, <3>4
            DEF Known, HolderSound, MessageKnown, Holds, Holding, SendPcs, EditPcs, history
  <2>8. \A n \in MsgIds : message'[n].state # "unused" =>
           message'[n].of \in Posts /\ (ApprovalRequired => message'[n].text \in approved[message'[n].of])
    BY <1>0, <1>1, <2>1 DEF DeliveryInv, Known, HolderSound
  <2>9. /\ {q} \in SUBSET Posts /\ {w} \in SUBSET Workers
        /\ \A n \in MsgIds : message[n].state # "unused" /\ message[n].of \notin {q}
             => message'[n].text = message[n].text
        /\ \A n \in MsgIds : Live(n)' /\ message'[n].of \notin {q} => Live(n)
        /\ \A p \in {q} : RowSound(p)'
        /\ \A v \in {w} : Known(v)'
    BY <1>3, <2>1, <2>4, <2>6, <2>7
  <2> QED BY <1>0, <2>2, <2>3, <2>8, <2>9, MAXStep
<1> QED BY <1>2, <1>3 DEF Send

\* An edit shows, if anything, the content the worker read back; the row is
\* claimed, so it promises nothing of the text until the claim is released.
LEMMA EditDelivery ==
  ASSUME ClaimInv, DeliveryInv, NEW w \in Workers, EditInMAX(w)
  PROVE  Delivered
<1>0. /\ TypeOK /\ Known(w) /\ pc[w] = "edit_checked" /\ Holds(w) /\ pc[w] \in EditPcs
      /\ {"edit_done", "edit_failed", "edit_missing"} \subseteq Pcs
      /\ UNCHANGED <<post, now, on, seen, fresh, since, got, cycle, history>>
  BY DEF ClaimInv, DeliveryInv, Known, EditInMAX, Pcs, Holds, Holding, SendPcs, EditPcs
<1>1. PICK q \in Posts : q = on[w] /\ RowSound(q) /\ post[q].status = "publishing"
                         /\ post[q] \in Row
  BY <1>0, Holder DEF DeliveryInv
<1>2. PICK m \in MsgIds : m = seen[w].msg /\ m = post[q].msg /\ message[m].of = q
                          /\ message[m].state \in {"live", "gone"}
  BY <1>0, <1>1 DEF Known, HolderSound, RowSound, Row, Columns, TypeOK
<1>3. CASE /\ UNCHANGED message
           /\ \/ Goto(w, "edit_failed")
              \/ ~Live(m) /\ Goto(w, "edit_missing")
  <2>1. PICK next \in {"edit_failed", "edit_missing"} :
          Goto(w, next) /\ (next = "edit_missing" => ~Live(m))
    BY <1>3
  <2>2. pc'[w] = next
    BY <1>0, <2>1 DEF Goto, TypeOK
  <2>3. Known(w)'
    BY <1>0, <1>2, <1>3, <2>1, <2>2, NullAssumption
       DEF Known, HolderSound, MessageKnown, Holds, Holding, SendPcs, EditPcs, Live
  <2> QED BY <1>0, <1>3, <2>1, <2>3, GoDelivery
<1>4. ASSUME Live(m), message' = [message EXCEPT ![m].text = seen[w].content],
             NEW next \in {"edit_done", "edit_failed"}, Goto(w, next)
      PROVE  Delivered
  <2>1. /\ message'[m].state = message[m].state /\ message'[m].of = message[m].of
        /\ message'[m].text = seen[w].content
        /\ \A n \in MsgIds \ {m} : message'[n] = message[n]
    BY <1>0, <1>4 DEF TypeOK
  <2>2. Remembered /\ \A n \in MsgIds : Live(n)' = Live(n)
    BY <2>1 DEF Remembered, Live
  <2>3. \A v \in Workers \ {w} : Same(v) /\ (Holds(v) => on[v] \notin {q})
    BY <1>0, <1>1, <1>4 DEF Same, Goto, TypeOK, ClaimInv, ClaimExclusive
  <2>4. LiveOf(q)' = LiveOf(q)
    BY <2>1, <2>2 DEF LiveOf
  <2>5. RowSound(q)'
    BY <1>0, <1>1, <1>2, <2>1, <2>2, <2>4 DEF RowSound, history
  <2>6. Known(w)'
    <3>1. pc'[w] = next
      BY <1>0, <1>4 DEF Goto, TypeOK
    <3> QED BY <1>0, <1>2, <2>1, <3>1, NullAssumption
            DEF Known, HolderSound, MessageKnown, Holds, Holding, SendPcs, EditPcs
  <2>7. \A n \in MsgIds : message'[n].state # "unused" =>
           message'[n].of \in Posts /\ (ApprovalRequired => message'[n].text \in approved[message'[n].of])
    BY <1>0, <1>1, <1>2, <2>1 DEF DeliveryInv, Known, HolderSound
  <2>8. /\ {q} \in SUBSET Posts /\ {w} \in SUBSET Workers
        /\ \A n \in MsgIds : message[n].state # "unused" /\ message[n].of \notin {q}
             => message'[n].text = message[n].text
        /\ \A n \in MsgIds : Live(n)' /\ message'[n].of \notin {q} => Live(n)
        /\ \A p \in {q} : RowSound(p)'
        /\ \A v \in {w} : Known(v)'
    BY <1>2, <2>1, <2>2, <2>5, <2>6
  <2> QED BY <1>0, <2>2, <2>3, <2>7, <2>8, MAXStep
<1> QED BY <1>2, <1>3, <1>4 DEF EditInMAX

\* A message disappears from the channel, by a handler or by somebody else.
LEMMA GoneDelivery ==
  ASSUME ClaimInv, DeliveryInv, NEW m \in MsgIds, message[m].state # "unused",
         message' = [message EXCEPT ![m].state = "gone"], UNCHANGED <<post, history>>,
         NEW W \in SUBSET Workers, \A v \in Workers \ W : Same(v),
         message'[m].state = "gone" => \A w \in W : Known(w)'
  PROVE  Delivered
<1>1. /\ message'[m].state = "gone" /\ message'[m].of = message[m].of
      /\ message'[m].text = message[m].text
      /\ \A n \in MsgIds \ {m} : message'[n] = message[n]
  BY DEF ClaimInv, TypeOK
<1>2. Remembered /\ \A n \in MsgIds : Live(n)' => Live(n)
  BY <1>1 DEF Remembered, Live
<1>3. /\ {} \in SUBSET Posts
      /\ \A v \in Workers \ W : Same(v) /\ (Holds(v) => on[v] \notin {})
      /\ \A n \in MsgIds : message[n].state # "unused" /\ message[n].of \notin {}
           => message'[n].text = message[n].text
      /\ \A n \in MsgIds : Live(n)' /\ message'[n].of \notin {} => Live(n)
      /\ \A p \in {} : RowSound(p)'
      /\ \A v \in W : Known(v)'
  BY <1>1, <1>2
<1>4. \A n \in MsgIds : message'[n].state # "unused" =>
         message'[n].of \in Posts /\ (ApprovalRequired => message'[n].text \in approved[message'[n].of])
  BY <1>1 DEF DeliveryInv
<1> QED BY <1>2, <1>3, <1>4, MAXStep

LEMMA RemovalDelivery ==
  ASSUME ClaimInv, DeliveryInv, NEW w \in Workers, DeleteInMAX(w) \/ ReadFromMAX(w)
  PROVE  Delivered
<1>0. /\ TypeOK /\ Known(w) /\ pc[w] \in {"to_delete", "to_sync"} /\ UNCHANGED <<post, history>>
      /\ {"to_clear", "to_miss"} \subseteq Pcs
  BY DEF ClaimInv, DeliveryInv, Known, DeleteInMAX, ReadFromMAX, Return, db, Pcs
<1>1. PICK m \in MsgIds : m = seen[w].msg /\ message[m].state \in {"live", "gone"}
  BY <1>0 DEF Known, MessageKnown, TypeOK, Informed, Pcs, Holding, SendPcs, EditPcs, Row, Columns
<1>2. CASE DeleteInMAX(w)
  <2>1. CASE message' = [message EXCEPT ![m].state = "gone"]
    <3>1. \/ pc'[w] = "idle"
          \/ pc'[w] = "to_clear" /\ seen'[w] = seen[w]
      BY <1>0, <1>2 DEF DeleteInMAX, Goto, Leave, TypeOK
    <3>2. \A v \in Workers \ {w} : Same(v)
      BY <1>0, <1>2 DEF DeleteInMAX, Goto, Leave, TypeOK, Same
    <3>3. message'[m].state = "gone" => Known(w)'
      BY <1>1, <3>1, NullAssumption
         DEF Known, HolderSound, MessageKnown, Holds, Holding, SendPcs, EditPcs
    <3>4. {w} \in SUBSET Workers /\ (message'[m].state = "gone" => \A v \in {w} : Known(v)')
      BY <3>3
    <3> QED BY <1>0, <1>1, <2>1, <3>2, <3>4, GoneDelivery
  <2>2. CASE UNCHANGED message /\ Leave(w) /\ fresh' = fresh \ {w}
    <3>1. Return(w)
      BY <1>2, <2>2 DEF DeleteInMAX, Return, db
    <3> QED BY <3>1, ReturnDelivery
  <2> QED BY <1>1, <1>2, <2>1, <2>2 DEF DeleteInMAX
<1>3. CASE ReadFromMAX(w)
  <2>1. CASE Return(w)
    BY <2>1, ReturnDelivery
  <2>2. CASE /\ ~Live(m) /\ Goto(w, "to_miss")
             /\ UNCHANGED <<db, on, seen, fresh, since, got, cycle, history>>
    <3>1. pc'[w] = "to_miss"
      BY <1>0, <2>2 DEF Goto, TypeOK
    <3>2. Known(w)'
      BY <1>0, <1>1, <2>2, <3>1, NullAssumption
         DEF Known, HolderSound, MessageKnown, Holds, Holding, SendPcs, EditPcs, Live, db
    <3> QED BY <1>0, <2>2, <3>2, GoDelivery DEF db
  <2> QED BY <1>1, <1>3, <2>1, <2>2 DEF ReadFromMAX
<1> QED BY <1>2, <1>3

LEMMA RemovedDelivery ==
  ASSUME ClaimInv, DeliveryInv, NEW m \in MsgIds, RemovedInMAX(m)
  PROVE  Delivered
<1>1. /\ message[m].state # "unused" /\ message' = [message EXCEPT ![m].state = "gone"]
      /\ UNCHANGED <<post, history>> /\ {} \in SUBSET Workers
      /\ \A v \in Workers \ {} : Same(v)
      /\ message'[m].state = "gone" => \A v \in {} : Known(v)'
  BY DEF RemovedInMAX, Live, worker, Same
<1> QED BY <1>1, GoneDelivery

\* The outcomes of a publication, and a message found missing or deleted.
LEMMA SettleActionsDelivery ==
  ASSUME ClaimInv, DeliveryInv, NEW w \in Workers,
         \/ MarkPublished(w) \/ MarkPublishFailed(w)
         \/ MarkMAXPublicationMissing(w) \/ ClearPublication(w)
  PROVE  Delivered
<1>0. /\ {"published", "failed", "draft"} \subseteq Statuses
      /\ {"none", "failed", "missing"} \subseteq Errors /\ NoSlot \in Int
      /\ TypeOK /\ Known(w) /\ got[w] \in MsgIds \cup {NoMsg}
      /\ pc[w] \in {"sent", "failing", "to_miss", "to_clear"}
  BY DEF Statuses, Errors, NoSlot, ClaimInv, DeliveryInv, Known, TypeOK,
         MarkPublished, MarkPublishFailed, MarkMAXPublicationMissing, ClearPublication
<1>1. PICK q \in Posts : q = on[w] /\ post[q] \in Row /\ RowSound(q)
  BY <1>0, Busy DEF DeliveryInv
<1>2. CASE Return(w)
  BY <1>2, ReturnDelivery
\* The row is written, and its claim was this worker's or nobody's.
<1>3. ASSUME NEW row \in Row, Write(q, row, {}), Leave(w),
             UNCHANGED <<message, now, cycle, history>>,
             Holds(w) \/ post[q].status # "publishing",
             row.content = post[q].content, row.revision = post[q].revision,
             row.review = post[q].review, post[q].status # "absent",
             row.msg = post[q].msg \/ post[q].msg = NoMsg \/ ~Live(post[q].msg),
             \/ row.status = "failed" /\ row.msg = NoMsg
             \/ row.status = "draft" /\ row.msg = NoMsg /\ (q \notin retried => LiveOf(q) = {})
             \/ /\ row.status = "published" /\ row.msg # NoMsg
                /\ message[row.msg].of = q /\ message[row.msg].state # "unused"
                /\ message[row.msg].text = row.fingerprint
                /\ q \notin retried => LiveOf(q) \subseteq {row.msg}
      PROVE  Delivered
  <2>1. {} \in SUBSET Workers
    OBVIOUS
  <2>2. post'[q] = Stamped(row)
    BY <1>0, <1>3, <2>1, WriteRow
  <2>3. /\ post'[q].status = row.status /\ post'[q].msg = row.msg /\ post'[q].error = row.error
        /\ post'[q].content = row.content /\ post'[q].fingerprint = row.fingerprint
        /\ post'[q].revision = row.revision /\ post'[q].review = row.review
    BY <2>2 DEF Stamped, Row, Columns
  <2>4. LiveOf(q)' = LiveOf(q) /\ approved' = approved /\ retried' = retried
    BY <1>3 DEF LiveOf, Live, history
  <2>5. RowSound(q)' /\ Kept(q)
    BY <1>1, <1>3, <2>3, <2>4 DEF RowSound, Kept
  <2>6. Grow /\ \A p \in Posts : p = on[w] => RowSound(p)' /\ Kept(p)
    BY <1>1, <2>4, <2>5 DEF Grow
  <2> QED BY <1>1, <1>3, <2>6, SettleDelivery
<1>4. CASE MarkPublished(w)
  <2> DEFINE row == [post[q] EXCEPT !.status = "published", !.slot = NoSlot, !.msg = got[w],
                                    !.error = "none", !.fingerprint = post[q].content]
  <2>1. /\ row \in Row /\ row.status = "published" /\ row.msg = got[w]
        /\ row.fingerprint = post[q].content /\ row.content = post[q].content
        /\ row.revision = post[q].revision /\ row.review = post[q].review
    BY <1>0, <1>1 DEF Row, Columns
  <2>2. pc[w] = "sent" /\ Settle(w, row)
    BY <1>1, <1>4 DEF MarkPublished
  <2>3. /\ got[w] # NoMsg /\ message[got[w]].of = q /\ message[got[w]].state # "unused"
        /\ message[got[w]].text = post[q].content
        /\ q \notin retried => LiveOf(q) \subseteq {got[w]}
        /\ Holds(w) /\ post[q].msg = NoMsg
    BY <1>0, <1>1, <2>2 DEF Known, HolderSound, Holds, Holding, SendPcs
  <2> HIDE DEF row
  <2> QED BY <1>1, <1>2, <1>3, <2>1, <2>2, <2>3 DEF Settle
<1>5. CASE MarkPublishFailed(w)
  <2> DEFINE row == [post[q] EXCEPT !.status = "failed", !.slot = NoSlot, !.error = "failed"]
  <2>1. /\ row \in Row /\ row.status = "failed" /\ row.msg = post[q].msg
        /\ row.content = post[q].content
        /\ row.revision = post[q].revision /\ row.review = post[q].review
    BY <1>0, <1>1 DEF Row, Columns
  <2>2. pc[w] = "failing" /\ Settle(w, row)
    BY <1>1, <1>5 DEF MarkPublishFailed
  <2>3. post[q].msg = NoMsg /\ Holds(w)
    BY <1>0, <1>1, <2>2 DEF Known, HolderSound, Holds, Holding, SendPcs
  <2> HIDE DEF row
  <2> QED BY <1>1, <1>2, <1>3, <2>1, <2>2, <2>3 DEF Settle
<1>6. CASE MarkMAXPublicationMissing(w)
  <2> DEFINE row == [post[q] EXCEPT !.status = "failed", !.msg = NoMsg, !.slot = NoSlot,
                                    !.error = "missing"]
  <2>1. /\ row \in Row /\ row.status = "failed" /\ row.msg = NoMsg
        /\ row.content = post[q].content
        /\ row.revision = post[q].revision /\ row.review = post[q].review
    BY <1>0, <1>1 DEF Row, Columns
  <2>2. \/ Return(w)
        \/ /\ Write(q, row, {}) /\ Leave(w) /\ UNCHANGED <<message, now, cycle, history>>
           /\ post[q].status = "published" /\ ~Live(post[q].msg)
    BY <1>0, <1>1, <1>6 DEF MarkMAXPublicationMissing, Known, MessageKnown, Live
  <2> HIDE DEF row
  <2> QED BY <1>1, <1>2, <1>3, <2>1, <2>2
<1>7. CASE ClearPublication(w)
  <2> DEFINE row == [post[q] EXCEPT !.status = "draft", !.msg = NoMsg, !.slot = NoSlot,
                                    !.error = "none"]
  <2>1. /\ row \in Row /\ row.status = "draft" /\ row.msg = NoMsg
        /\ row.content = post[q].content
        /\ row.revision = post[q].revision /\ row.review = post[q].review
    BY <1>0, <1>1 DEF Row, Columns
  <2>2. \/ Return(w)
        \/ /\ Write(q, row, {}) /\ Leave(w) /\ UNCHANGED <<message, now, cycle, history>>
           /\ post[q].status # "publishing" /\ post[q].msg = seen[w].msg /\ pc[w] = "to_clear"
    BY <1>1, <1>7 DEF ClearPublication
  <2>3. ASSUME pc[w] = "to_clear", post[q].msg = seen[w].msg, post[q].status # "publishing"
        PROVE  /\ post[q].status = "published" /\ ~Live(post[q].msg)
               /\ q \notin retried => LiveOf(q) = {}
    BY <1>0, <1>1, <2>3 DEF Known, MessageKnown, RowSound, LiveOf, Live
  <2> HIDE DEF row
  <2> QED BY <1>1, <1>2, <1>3, <2>1, <2>2, <2>3
<1> QED BY <1>4, <1>5, <1>6, <1>7

\* Releasing an edit claim.  A fingerprint is written only when MAX confirmed the
\* text; any other outcome leaves an error.
LEMMA ReleaseDelivery ==
  ASSUME ClaimInv, DeliveryInv, NEW w \in Workers, ReleasePublishedUpdate(w)
  PROVE  Delivered
<1>0. /\ TypeOK /\ Known(w) /\ pc[w] \in {"edit_done", "edit_failed", "edit_missing"}
      /\ Holds(w) /\ pc[w] \in EditPcs
      /\ {"none", "failed"} \subseteq Errors /\ "published" \in Statuses /\ "to_miss" \in Pcs
      /\ UNCHANGED <<message, now, cycle, history>>
  BY DEF ClaimInv, DeliveryInv, Known, ReleasePublishedUpdate, Holds, Holding, EditPcs, SendPcs,
         Errors, Statuses, Pcs
<1>1. PICK q \in Posts : q = on[w] /\ post[q] \in Row /\ RowSound(q) /\ seen[w] \in Row
                         /\ post[q].status = "publishing" /\ post[q].msg = seen[w].msg
                         /\ seen[w].msg # NoMsg
  BY <1>0, Holder DEF DeliveryInv, Known, HolderSound
<1> DEFINE row == Released(w)
<1>2. /\ row \in Row /\ row.status = "published" /\ row.msg = post[q].msg
      /\ row.content = post[q].content /\ row.revision = post[q].revision
      /\ row.review = post[q].review
      /\ row.error = "none" => /\ pc[w] = "edit_done" /\ row.fingerprint = seen[w].content
  <2>1. seen[w].content \in Contents /\ post[q].slot = NoSlot
    BY <1>1 DEF Row, Columns
  <2> QED BY <1>0, <1>1, <2>1 DEF Row, Columns, Released
<1> HIDE DEF row
<1>3. ASSUME NEW keep \in SUBSET Workers, Write(q, row, keep)
      PROVE  RowSound(q)' /\ Kept(q) /\ Stamped(row).msg = post[q].msg
             /\ \A p \in Posts \ {q} : post'[p] = post[p]
  <2>1. post'[q] = Stamped(row) /\ \A p \in Posts : p # q => post'[p] = post[p]
    BY <1>0, <1>2, <1>3, WriteRow
  <2>2. /\ post'[q].status = row.status /\ post'[q].msg = row.msg /\ post'[q].error = row.error
        /\ post'[q].content = row.content /\ post'[q].fingerprint = row.fingerprint
        /\ post'[q].revision = row.revision /\ post'[q].review = row.review
        /\ Stamped(row).msg = row.msg
    BY <1>2, <2>1 DEF Stamped, Row, Columns
  <2>3. LiveOf(q)' = LiveOf(q) /\ approved' = approved /\ retried' = retried
    BY <1>0 DEF LiveOf, Live, history
  <2>4. row.error = "none" => message[row.msg].text = row.fingerprint
    BY <1>0, <1>1, <1>2 DEF Known, HolderSound
  <2> QED BY <1>0, <1>1, <1>2, <2>1, <2>2, <2>3, <2>4 DEF RowSound, Kept
<1>4. CASE pc[w] # "edit_missing"
  <2>1. Write(q, row, {}) /\ Leave(w) /\ {} \in SUBSET Workers
    BY <1>1, <1>4 DEF ReleasePublishedUpdate, row
  <2>2. Grow /\ \A p \in Posts : p = on[w] => RowSound(p)' /\ Kept(p)
    BY <1>0, <1>1, <1>3, <2>1 DEF Grow, history
  <2> QED BY <1>0, <1>1, <1>2, <2>1, <2>2, SettleDelivery
<1>5. CASE pc[w] = "edit_missing"
  <2>1. /\ Write(q, row, {w}) /\ {w} \in SUBSET Workers
        /\ pc' = [pc EXCEPT ![w] = "to_miss"] /\ seen' = [seen EXCEPT ![w] = Stamped(row)]
        /\ UNCHANGED <<on, since, got>>
    BY <1>1, <1>5 DEF ReleasePublishedUpdate, Goto, row
  <2>2. pc'[w] = "to_miss" /\ seen'[w] = Stamped(row) /\ \A v \in Workers \ {w} : Same(v)
    BY <1>0, <2>1 DEF TypeOK, Same
  <2>3. Known(w)'
    BY <1>0, <1>1, <1>3, <1>5, <2>1, <2>2
       DEF Known, HolderSound, MessageKnown, Holds, Holding, SendPcs, EditPcs
  <2>4. \A v \in Workers \ {w} : Holds(v) => on[v] \in Posts /\ on[v] # q
    BY <1>0, <1>1, Holder DEF ClaimInv, ClaimExclusive
  <2>5. /\ {q} \in SUBSET Posts /\ Grow
        /\ \A p \in Posts \ {q} : post'[p] = post[p]
        /\ \A p \in {q} : RowSound(p)' /\ Kept(p)
        /\ \A v \in Workers \ {w} : Undisturbed(v)
        /\ \A v \in {w} : Known(v)'
    BY <1>0, <1>3, <2>1, <2>2, <2>3, <2>4 DEF Undisturbed, Grow, history
  <2> QED BY <1>0, <2>1, <2>5, QuietStep
<1> QED BY <1>4, <1>5

LEMMA WorkerStepDelivery ==
  ASSUME ClaimInv, DeliveryInv, NEW w \in Workers, WorkerStep(w) \/ Abandon(w)
  PROVE  Delivered
<1>1. CASE Return(w)
  BY <1>1, ReturnDelivery
<1> QED
  BY <1>1, ClaimActionsDelivery, CheckActions, SendDelivery, EditDelivery, SettleActionsDelivery,
     ReleaseDelivery, RemovalDelivery
  DEF WorkerStep, Abandon, PublishRefused, ScheduleNotDue, EditConflict, ReleaseMissed

\* A cycle recovers interrupted claims, lists due posts and hands them out.
LEMMA SchedulerStepDelivery ==
  ASSUME ClaimInv, DeliveryInv, NEW s \in Schedulers, SchedulerStep(s)
  PROVE  Delivered
<1>0. TypeOK /\ {} \in SUBSET Posts /\ {} \in SUBSET Workers
  BY DEF ClaimInv
<1>1. ASSUME UNCHANGED <<db, worker, history>>
      PROVE  Delivered
  <2>1. /\ UNCHANGED message /\ Grow
        /\ \A p \in Posts \ {} : post'[p] = post[p]
        /\ \A p \in {} : RowSound(p)' /\ Kept(p)
        /\ \A v \in Workers \ {} : Undisturbed(v)
        /\ \A v \in {} : Known(v)'
    BY <1>1 DEF db, worker, history, Grow, Undisturbed, Same
  <2> QED BY <1>0, <2>1, QuietStep
<1>2. CASE StartCycle(s)
  <2>1. /\ post' = [q \in Posts |-> Recovered(post[q], now)]
        /\ UNCHANGED <<message, pc, on, seen, got, approved, retried>>
    BY <1>2 DEF StartCycle, history
  <2>2. ASSUME NEW q \in Posts
        PROVE  /\ RowSound(q)' /\ Kept(q) /\ post'[q].msg = post[q].msg
               /\ post'[q].content = post[q].content
    <3>1. post'[q] = Recovered(post[q], now) /\ post[q] \in Row /\ RowSound(q)
      BY <1>0, <2>1 DEF TypeOK, DeliveryInv
    <3> DEFINE status == IF post[q].msg # NoMsg THEN "published" ELSE "failed"
    <3>2. \/ post'[q] = post[q]
          \/ /\ post[q].status = "publishing"
             /\ post'[q] = [post[q] EXCEPT !.status = status, !.error = "interrupted",
                                           !.slot = NoSlot, !.updated = now]
      BY <3>1 DEF Recovered
    <3>3. \/ post'[q] = post[q]
          \/ /\ post[q].status = "publishing" /\ post'[q].status = status
             /\ post'[q].error = "interrupted" /\ post'[q].msg = post[q].msg
             /\ post'[q].content = post[q].content /\ post'[q].revision = post[q].revision
             /\ post'[q].review = post[q].review
      BY <3>1, <3>2 DEF Row, Columns
    <3>4. LiveOf(q)' = LiveOf(q) /\ \A m \in MsgIds \cup {NoMsg} : Live(m)' = Live(m)
      BY <2>1 DEF LiveOf, Live
    <3>5. post[q].msg \in MsgIds \cup {NoMsg}
      BY <3>1 DEF Row, Columns
    <3> QED BY <2>1, <3>1, <3>3, <3>4, <3>5 DEF RowSound, Kept
  <2>3. \A v \in Workers \ {} : Undisturbed(v)
    <3>1. \A v \in Workers : Holds(v) => on[v] \in Posts
      BY Holder
    <3> QED BY <2>1, <2>2, <3>1 DEF Undisturbed, Same
  <2>4. /\ Posts \in SUBSET Posts /\ Grow
        /\ \A p \in Posts \ Posts : post'[p] = post[p]
        /\ \A v \in {} : Known(v)'
    BY <2>1 DEF Grow
  <2> QED BY <1>0, <2>1, <2>2, <2>3, <2>4, QuietStep
<1>3. CASE EndCycle(s)
  BY <1>1, <1>3 DEF EndCycle
<1>4. ASSUME NEW jobs \in SUBSET Posts, ListDue(s, jobs)
      PROVE  Delivered
  BY <1>1, <1>4 DEF ListDue
<1>5. ASSUME NEW w \in Pool[s], NEW q \in Posts, TakeJob(s, w, q)
      PROVE  Delivered
  <2>1. w \in Workers /\ {"job", "revoked"} \subseteq Pcs
    BY DEF Workers, Pcs
  <2>2. CASE Exists(q)
    <3>1. PICK next \in {"job", "revoked"} : TurnTo(w, q, next)
      BY <1>5, <2>2 DEF TakeJob
    <3>2. pc'[w] = next /\ \A v \in Workers \ {w} : seen'[v] = seen[v]
      BY <1>0, <1>5, <2>1, <3>1 DEF TakeJob, TurnTo, TypeOK
    <3>3. Known(w)'
      BY <2>1, <3>2, IdleSound
    <3> QED BY <2>1, <3>1, <3>2, <3>3, TurnDelivery
  <2>3. CASE ~Exists(q)
    BY <1>1, <1>5, <2>3 DEF TakeJob, db, worker, history
  <2> QED BY <2>2, <2>3
<1> QED BY <1>2, <1>3, <1>4, <1>5 DEF SchedulerStep

LEMMA DeliveryInit == ASSUME Init PROVE DeliveryInv
<1>1. PICK c \in Contents :
        post = [q \in Posts |->
                 [status |-> "absent", content |-> c, slot |-> NoSlot, msg |-> NoMsg,
                  fingerprint |-> NoContent, error |-> "none", review |-> "draft",
                  revision |-> NoContent, updated |-> 0]]
  BY DEF Init
<1>2. \A m \in MsgIds : message[m].state = "unused"
  BY DEF Init
<1>3. \A w \in Workers : pc[w] = "idle"
  BY DEF Init
<1>4. \A q \in Posts : RowSound(q)
  BY <1>1, <1>2 DEF RowSound, LiveOf, Live
<1>5. \A w \in Workers : HolderSound(w) /\ MessageKnown(w)
  BY <1>3 DEF HolderSound, MessageKnown, Holds, Holding, SendPcs, EditPcs
<1> QED BY <1>2, <1>4, <1>5 DEF DeliveryInv

LEMMA DeliveryNext == ASSUME ClaimInv, DeliveryInv, [Next]_vars PROVE Delivered
<1>1. CASE Tick \/ UNCHANGED vars
  <2>1. /\ UNCHANGED <<post, message, approved, retried>>
        /\ UNCHANGED <<pc, on, seen, got>>
    BY <1>1 DEF Tick, vars, worker, history
  <2>2. /\ {} \in SUBSET Posts /\ {} \in SUBSET Workers /\ Grow
        /\ \A p \in Posts \ {} : post'[p] = post[p]
        /\ \A p \in {} : RowSound(p)' /\ Kept(p)
        /\ \A v \in Workers \ {} : Undisturbed(v)
        /\ \A v \in {} : Known(v)'
    BY <2>1 DEF Grow, Undisturbed, Same
  <2> QED BY <2>1, <2>2, QuietStep
<1> QED
  BY <1>1, EditorStepDelivery, RequestStepDelivery, WorkerStepDelivery, SchedulerStepDelivery,
     PostStepDelivery, RemovedDelivery DEF Next

\* The inductive invariant of the delivery, on top of that of the claims.
THEOREM DeliveryInvariant == Spec => [](ClaimInv /\ DeliveryInv)
<1>1. Init => ClaimInv /\ DeliveryInv
  BY InitInv, DeliveryInit
<1>2. ClaimInv /\ DeliveryInv /\ [Next]_vars => ClaimInv' /\ DeliveryInv'
  BY NextInv, DeliveryNext DEF Delivered
<1> QED BY <1>1, <1>2, PTL DEF Spec

\* A row names a MAX message exactly while it is published or being edited, and
\* that message was sent for this post and for no other.
THEOREM RowsNameTheirMessage == Spec => []MessageMatchesStatus
<1>1. DeliveryInv => MessageMatchesStatus
  BY DEF DeliveryInv, RowSound, MessageMatchesStatus
<1> QED BY <1>1, DeliveryInvariant, PTL

\* Only a person who acts on a failed post puts a second message of it into the
\* channel: at any moment at most one is there for every other post.
THEOREM OneMessagePerPost == Spec => []NoSilentDuplicate
<1>1. ASSUME DeliveryInv PROVE NoSilentDuplicate
  <2> SUFFICES ASSUME NEW q \in Posts, q \notin retried
               PROVE  ~(Cardinality(LiveOf(q)) > 1)
    BY DEF NoSilentDuplicate
  <2>1. \A m, n \in LiveOf(q) : m = n
    BY <1>1 DEF DeliveryInv, RowSound
  <2>2. CASE LiveOf(q) = {}
    BY <2>2, FS_EmptySet
  <2>3. CASE LiveOf(q) # {}
    <3>1. PICK m \in LiveOf(q) : LiveOf(q) = {m}
      BY <2>1, <2>3
    <3>2. Cardinality({m}) = 1
      BY FS_Singleton
    <3> QED BY <3>1, <3>2
  <2> QED BY <2>2, <2>3
<1> QED BY <1>1, DeliveryInvariant, PTL

\* With approval required, every text that ever reached MAX was approved for that
\* post, although the approval is checked in another statement than the claim.
THEOREM ApprovedTextsOnly == Spec => []OnlyApprovedSent
<1>1. DeliveryInv => OnlyApprovedSent
  BY DEF DeliveryInv, OnlyApprovedSent
<1> QED BY <1>1, DeliveryInvariant, PTL

\* A published row without an error whose fingerprint equals its content tells the
\* truth: MAX shows that content, or the message is gone.
THEOREM InSyncMeansInSync == Spec => []NoFalseInSync
<1>1. DeliveryInv => NoFalseInSync
  BY DEF DeliveryInv, RowSound, NoFalseInSync
<1> QED BY <1>1, DeliveryInvariant, PTL

\* A row forgets its message only when the message is gone: no late deletion, late
\* 404 or recovery detaches a newer publication.
THEOREM LiveMessagesAreKept == Spec => LiveMessageKept
<1>1. ClaimInv /\ DeliveryInv /\ [Next]_vars
        => [\A q \in Posts : post[q].msg # NoMsg /\ Live(post[q].msg)
              => post'[q].msg = post[q].msg]_vars
  BY DeliveryNext DEF Delivered, Kept
<1> QED BY <1>1, DeliveryInvariant, PTL DEF Spec, LiveMessageKept
===============================================================================
