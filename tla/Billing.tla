------------------------------ MODULE Billing ------------------------------
(***************************************************************************)
(* The paid subscription of one workspace: its contract, the payment       *)
(* attempts made for it, and the YooKassa payments behind them.            *)
(*                                                                         *)
(* Every transaction takes the workspace's advisory lock, so it is one     *)
(* step; what interleaves are the calls to the provider between them.  An  *)
(* actor is a goroutine: a checkout or webhook handler, or one cycle of a  *)
(* scheduler, which keeps the clock it started with.  A tick is a day:     *)
(* retry delays, leases and checkout lifetimes are shorter and appear as   *)
(* steps that may come at any moment.                                      *)
(***************************************************************************)
EXTENDS Integers, FiniteSets, Sequences

CONSTANTS
  Attempts,      \* identities of payment attempts
  Handlers, Schedulers,
  Retry, Trials, \* delay between renewals of a period, and how many there are
  Window,        \* how long a prepared attempt may be posted
  IdemLife,      \* how long the provider remembers an idempotency key
  MaxTime,       \* bound on the clock
  Mixes,         \* what a behaviour may contain, and its bounds
  NoAttempt

Actors == Handlers \cup Schedulers
AllRequests == {"checkout", "cancel", "retain", "resume", "detach", "operator", "webhook"}
AllFaults == {"crash", "lost", "refused", "unavailable", "publishing"}

ASSUME DurationAssumption ==
  /\ {Retry, Trials, Window, IdemLife} \subseteq Nat \ {0}
  /\ MaxTime \in Nat
ASSUME MixAssumption ==
  /\ Mixes \subseteq [requests : SUBSET AllRequests,  \* of owners, operators and the provider
                     faults : SUBSET AllFaults,      \* what may go wrong
                     outcomes : SUBSET {"succeeded", "unsaved", "canceled", "revoked"},
                     month : Nat \ {0},    \* length of a period
                     grace : Nat \ {0},    \* grace window
                     horizon : Nat \ {0},  \* how long a pending payment is polled
                     lag : Nat,            \* how far a cycle's clock may fall behind
                     schedulers : SUBSET Schedulers, attempts : Nat, checkouts : Nat]
  /\ \A m \in Mixes : Window + m.lag <= IdemLife
ASSUME IdentityAssumption ==
  /\ NoAttempt \notin Attempts /\ Handlers \cap Schedulers = {}

VARIABLES
  contract,  \* the billing_subscription_contracts row
  attempt,   \* the billing_payment_attempts rows
  offer,     \* end of the period a pending cancellation intent is for
  receipts,  \* webhook receipts, by payment and status
  paid,      \* history: the periods ever activated
  pays,      \* the payments the provider made under each attempt's key
  posted,    \* when the provider first saw the key
  comp,      \* the owner has complimentary access
  live,      \* the kill switch BILLING_LIVE_ENABLED
  mix,       \* what this behaviour contains
  now, pc, on, got, at

db     == <<contract, attempt, offer, receipts, paid>>
mode   == <<comp, live, mix>>
remote == <<pays, posted>>
vars   == <<contract, attempt, offer, receipts, paid, pays, posted, comp, live, mix, now, pc, on, got, at>>

Never == -1
OpenStatuses == {"prepared", "pending", "manual_review"}
AttemptStatuses == OpenStatuses \cup {"unused", "succeeded", "canceled", "failed"}
Charged == {"succeeded", "unsaved"}     \* the card was kept, or not
Stopped == {"canceled", "revoked"}      \* declined, or the card is unusable
PaymentStatuses == {"pending"} \cup Charged \cup Stopped
NoPayment == [index |-> 0, status |-> "pending"]

Attempt == [status : AttemptStatuses, purpose : {"checkout", "renewal"}, number : Nat,
            start : Int, discount : BOOLEAN, created : Int, started : Int, bound : Nat]

\* Values have their types, and the CHECK of migration 021 holds: a contract that
\* runs without a payment method is canceled.
TypeOK ==
  /\ contract.status \in {"none", "ended"} \/ contract.method \/ contract.cancel
  /\ contract \in [status : {"none", "active", "past_due", "ended"}, end : Int, method : BOOLEAN,
                   cancel : BOOLEAN, next : Int, grace : Int, trials : Nat, used : BOOLEAN,
                   discount : BOOLEAN]
  /\ attempt \in [Attempts -> Attempt]
  /\ offer \in Int
  /\ receipts \subseteq [of : Attempts, index : Nat, status : PaymentStatuses, failed : BOOLEAN]
  /\ paid \subseteq [by : Attempts, start : Int, end : Int, discount : BOOLEAN]
  /\ pays \in [Attempts -> Seq([status : PaymentStatuses, at : Nat])]
  /\ posted \in [Attempts -> Int]
  /\ mix \in Mixes /\ comp \in BOOLEAN /\ live \in BOOLEAN /\ now \in Nat
  /\ pc \in [Actors -> {"idle", "due", "cycle", "begin", "post", "lost", "rejected", "attach",
                        "check", "notify", "observe", "suspect"}]
  /\ on \in [Actors -> Attempts \cup {NoAttempt}]
  /\ got \in [Actors -> [index : Nat, status : PaymentStatuses]]
  /\ at \in [Actors -> Int]

Init ==
  /\ contract = [status |-> "none", end |-> Never, method |-> FALSE, cancel |-> FALSE,
                 next |-> Never, grace |-> Never, trials |-> 0, used |-> FALSE, discount |-> FALSE]
  /\ attempt = [a \in Attempts |->
                 [status |-> "unused", purpose |-> "checkout", number |-> 1, start |-> Never,
                  discount |-> FALSE, created |-> Never, started |-> Never, bound |-> 0]]
  /\ offer = Never /\ receipts = {} /\ paid = {}
  /\ pays = [a \in Attempts |-> <<>>] /\ posted = [a \in Attempts |-> Never]
  /\ mix \in Mixes
  /\ comp = FALSE /\ live = TRUE /\ now = 0
  /\ pc = [w \in Actors |-> "idle"] /\ on = [w \in Actors |-> NoAttempt]
  /\ got = [w \in Actors |-> NoPayment] /\ at = [w \in Actors |-> Never]

Running == contract.status \in {"active", "past_due"}
Renewals == {a \in Attempts : attempt[a].purpose = "renewal"}
OpenRenewal == \E a \in Renewals : attempt[a].status \in OpenStatuses

\* A POST may have created a payment that no row names yet.
Unbound(a) == attempt[a].started # Never /\ attempt[a].bound = 0
UnboundSubmitted == \E a \in Renewals : attempt[a].status \in OpenStatuses /\ Unbound(a)
Untouched(a) == attempt[a].started = Never /\ attempt[a].bound = 0

\* An actor goes on, or returns to where it waits for work.
Goto(w, next) == pc' = [pc EXCEPT ![w] = next]
Done(w) ==
  /\ Goto(w, IF w \in Schedulers THEN "cycle" ELSE "idle")
  /\ on' = [on EXCEPT ![w] = NoAttempt]
  /\ got' = [got EXCEPT ![w] = NoPayment]
  /\ at' = IF w \in Schedulers THEN at ELSE [at EXCEPT ![w] = Never]
Stay(w) == UNCHANGED <<on, got, at>>
----------------------------------------------------------------------------
(* What the transactions do to the contract and to the attempts. *)

Prepared(purpose, number, start, discount, time) ==
  [status |-> "prepared", purpose |-> purpose, number |-> number, start |-> start,
   discount |-> discount, created |-> time, started |-> Never, bound |-> 0]

\* Mutant: a cancellation fails renewals whose outcome is unknown.
SuppressedAll ==
  [a \in Attempts |->
    IF attempt[a].purpose = "renewal" /\ attempt[a].status = "prepared"
    THEN [attempt[a] EXCEPT !.status = "failed"] ELSE attempt[a]]

\* Prepared renewals end with their contract or with its cancellation: as
\* failures when no POST began, for manual review when one did.
Suppressed ==
  [a \in Attempts |->
    IF attempt[a].purpose = "renewal" /\ attempt[a].status = "prepared"
    THEN [attempt[a] EXCEPT !.status = IF Untouched(a) THEN "failed" ELSE "manual_review"]
    ELSE attempt[a]]

\* downgradeBillingWorkspaceTx; it rolls back while a post is being published.
Downgrade ==
  /\ contract' = [contract EXCEPT !.status = "ended", !.method = FALSE, !.cancel = FALSE,
                                  !.next = Never, !.grace = Never, !.discount = FALSE]
  /\ attempt' = Suppressed
  /\ UNCHANGED <<offer, receipts, paid>>

\* An operator has to look at the attempt; the contract is retried later.
ManualReview(a, time) ==
  /\ attempt' = [attempt EXCEPT ![a].status = "manual_review"]
  /\ contract' = IF attempt[a].purpose = "renewal" /\ Running
                 THEN [contract EXCEPT !.next = time + Retry] ELSE contract
  /\ UNCHANGED <<offer, receipts, paid>>

\* FailBillingProviderCreate, as every caller uses it.
FailForReview(a, time) ==
  IF attempt[a].status \in {"prepared", "pending"} THEN ManualReview(a, time) ELSE UNCHANGED db

\* Mutant: any paid renewal extends the contract.
StillCurrentAlways(a) == TRUE

\* billingRenewalStillCurrentTx
StillCurrent(a) ==
  /\ Running /\ ~contract.cancel /\ contract.method
  /\ contract.end = attempt[a].start

\* Mutant: the discount is not used up.
ActivatedAgain(a, saved, end) ==
  IF attempt[a].purpose = "checkout"
  THEN [contract EXCEPT !.status = "active", !.end = end, !.method = saved, !.cancel = ~saved,
                        !.next = end, !.grace = Never, !.discount = FALSE, !.trials = 0]
  ELSE [contract EXCEPT !.status = "active", !.end = end,
                        !.method = saved /\ ~(contract.cancel /\ ~contract.method),
                        !.cancel = contract.cancel \/ ~saved, !.next = end, !.grace = Never,
                        !.trials = 0]

\* The contract a paid attempt leaves behind.
Activated(a, saved, end) ==
  IF attempt[a].purpose = "checkout"
  THEN [contract EXCEPT !.status = "active", !.end = end, !.method = saved, !.cancel = ~saved,
                        !.next = end, !.grace = Never, !.discount = FALSE, !.trials = 0]
  ELSE [contract EXCEPT !.status = "active", !.end = end,
                        !.method = saved /\ ~(contract.cancel /\ ~contract.method),
                        !.cancel = contract.cancel \/ ~saved, !.next = end, !.grace = Never,
                        !.discount = FALSE, !.trials = 0]

\* activateBillingAttempt
Activate(a, rows, payment, saved) ==
  LET start == IF attempt[a].purpose = "renewal" THEN attempt[a].start ELSE payment.at IN
  /\ paid' = paid \cup {[by |-> a, start |-> start, end |-> start + mix.month,
                         discount |-> attempt[a].discount]}
  /\ contract' = Activated(a, saved, start + mix.month)
  /\ attempt' = [rows EXCEPT ![a].status = "succeeded"]
  /\ UNCHANGED offer

AtLeast(m, n) == IF m >= n THEN m ELSE n

\* cancelBillingAttempt
CancelAttempt(a, rows, revoked, time) ==
  /\ attempt' = [rows EXCEPT ![a].status = "canceled"]
  /\ UNCHANGED paid
  /\ IF attempt[a].purpose = "renewal" /\ StillCurrent(a)
     THEN IF revoked
          THEN /\ contract' = [contract EXCEPT !.method = FALSE, !.cancel = TRUE,
                    !.next = contract.end, !.grace = Never, !.discount = FALSE,
                    !.trials = AtLeast(contract.trials, attempt[a].number)]
               /\ offer' = Never
          ELSE /\ contract' = [contract EXCEPT !.status = "past_due",
                    !.trials = attempt[a].number, !.next = time + Retry,
                    !.grace = IF contract.grace # Never THEN contract.grace ELSE time + mix.grace]
               /\ UNCHANGED offer
     ELSE UNCHANGED <<contract, offer>>
----------------------------------------------------------------------------
(* The owner. *)

\* A new row; which of the identities it gets does not matter.
Fresh(a) ==
  /\ attempt[a].status = "unused"
  /\ Cardinality({b \in Attempts : attempt[b].status # "unused"}) < mix.attempts
  /\ a = CHOOSE b \in Attempts : attempt[b].status = "unused"

\* CreateBillingCheckoutAttempt: a checkout nobody posted expires, an open one
\* is taken up again, and a new one is made otherwise.
Checkout(h, a) ==
  LET expired == [b \in Attempts |->
        IF /\ attempt[b].purpose = "checkout" /\ attempt[b].status = "prepared"
           /\ Untouched(b) /\ attempt[b].created < now
        THEN [attempt[b] EXCEPT !.status = "failed"] ELSE attempt[b]]
      open == {b \in Attempts : expired[b].purpose = "checkout"
                                 /\ expired[b].status \in OpenStatuses}
  IN
  /\ "checkout" \in mix.requests /\ live /\ ~comp /\ ~Running
  /\ pc[h] = "idle"
  /\ IF open # {}
     THEN a \in open /\ expired[a].status = "prepared" /\ attempt' = expired
     ELSE /\ Fresh(a)
          /\ Cardinality({b \in Attempts \ Renewals : attempt[b].status # "unused"}) < mix.checkouts
          /\ attempt' = [expired EXCEPT ![a] = Prepared("checkout", 1, Never, FALSE, now)]
  /\ Goto(h, "begin")
  /\ on' = [on EXCEPT ![h] = a] /\ at' = [at EXCEPT ![h] = now]
  /\ UNCHANGED <<contract, offer, receipts, paid, mode, remote, now, got>>

CancellationIntent ==
  /\ {"cancel", "retain"} \cap mix.requests # {}
  /\ Running /\ ~contract.cancel
  /\ offer' = contract.end
  /\ UNCHANGED <<contract, attempt, receipts, paid, mode, remote, now, pc, on, got, at>>

\* AcceptBillingRetentionOffer
AcceptOffer ==
  /\ "retain" \in mix.requests /\ live /\ ~comp
  /\ Running /\ offer = contract.end
  /\ ~contract.used /\ contract.method /\ ~OpenRenewal
  /\ contract' = [contract EXCEPT !.used = TRUE, !.discount = TRUE, !.cancel = FALSE]
  /\ offer' = Never
  /\ UNCHANGED <<attempt, receipts, paid, mode, remote, now, pc, on, got, at>>

\* Mutant: the cancellation does not wait for a submitted renewal.
ConfirmAnyway ==
  /\ "cancel" \in mix.requests
  /\ Running /\ offer = contract.end
  /\ attempt' = Suppressed
  /\ contract' = [contract EXCEPT !.cancel = TRUE]
  /\ offer' = Never
  /\ UNCHANGED <<receipts, paid, mode, remote, now, pc, on, got, at>>

\* ConfirmBillingCancellation
ConfirmCancellation ==
  /\ "cancel" \in mix.requests
  /\ Running /\ offer = contract.end
  /\ ~UnboundSubmitted
  /\ attempt' = Suppressed
  /\ contract' = [contract EXCEPT !.cancel = TRUE]
  /\ offer' = Never
  /\ UNCHANGED <<receipts, paid, mode, remote, now, pc, on, got, at>>

ResumeSubscription ==
  /\ "resume" \in mix.requests /\ live /\ ~comp
  /\ Running /\ contract.cancel /\ contract.method
  /\ contract' = [contract EXCEPT !.cancel = FALSE]
  /\ UNCHANGED <<attempt, offer, receipts, paid, mode, remote, now, pc, on, got, at>>

DetachPaymentMethod ==
  /\ "detach" \in mix.requests
  /\ Running /\ ~UnboundSubmitted
  /\ contract.method \/ ~contract.cancel
  /\ attempt' = Suppressed
  /\ contract' = [contract EXCEPT !.method = FALSE, !.cancel = TRUE, !.next = contract.end,
                                  !.discount = FALSE]
  /\ offer' = Never
  /\ UNCHANGED <<receipts, paid, mode, remote, now, pc, on, got, at>>

\* An operator grants or revokes complimentary access, or throws the switch.
Operator ==
  /\ "operator" \in mix.requests
  /\ \/ comp' = ~comp /\ UNCHANGED live
     \/ live' = ~live /\ UNCHANGED comp
  /\ UNCHANGED <<db, mix, remote, now, pc, on, got, at>>
----------------------------------------------------------------------------
(* The scheduler's billing cycle. *)

Due(time) == Running /\ contract.next <= time /\ ~comp

\* ListDueBillingContracts
StartCycle(s) ==
  /\ s \in mix.schedulers /\ pc[s] = "idle"
  /\ Goto(s, IF Due(now) THEN "due" ELSE "cycle")
  /\ at' = [at EXCEPT ![s] = now]
  /\ UNCHANGED <<db, mode, remote, now, on, got>>

\* Mutant: an open renewal postpones the end of the grace window.
ExhaustedWithoutOpen(time) ==
  \/ contract.cancel /\ time >= contract.end
  \/ contract.status = "past_due" /\ contract.trials >= Trials
  \/ contract.grace # Never /\ time >= contract.grace /\ ~OpenRenewal

\* The subscription has run out.
Exhausted(time) ==
  \/ contract.cancel /\ time >= contract.end
  \/ contract.status = "past_due" /\ contract.trials >= Trials
  \/ contract.grace # Never /\ time >= contract.grace

\* Past its end, the contract runs on in its grace window.
Overdue(time) == time >= contract.end /\ (contract.status = "active" \/ contract.grace = Never)
InGrace(time) ==
  IF Overdue(time)
  THEN [contract EXCEPT !.status = "past_due",
          !.grace = IF contract.grace # Never THEN contract.grace ELSE time + mix.grace]
  ELSE contract

\* The contract's next attempt number was used before in this cycle.
Taken == \E b \in Renewals :
  attempt[b].start = contract.end /\ attempt[b].number = contract.trials + 1

\* PrepareBillingRenewal; the unique indexes of migration 021 admit one open
\* renewal and one attempt of each number in a cycle.
PrepareRenewal(s, a) ==
  /\ pc[s] = "due" /\ live /\ Due(at[s])
  /\ Goto(s, "cycle") /\ Stay(s)
  /\ \/ Exhausted(at[s]) /\ Downgrade
     \/ /\ ~Exhausted(at[s]) /\ OpenRenewal
        /\ contract' = [InGrace(at[s]) EXCEPT !.next = at[s]]
        /\ UNCHANGED <<attempt, offer, receipts, paid>>
     \/ /\ ~Exhausted(at[s]) /\ ~OpenRenewal
        /\ Fresh(a)
        /\ ~Taken /\ contract.method
        /\ attempt' = [attempt EXCEPT ![a] =
             Prepared("renewal", contract.trials + 1, contract.end, contract.discount, at[s])]
        /\ contract' = [InGrace(at[s]) EXCEPT !.next = at[s]]
        /\ UNCHANGED <<offer, receipts, paid>>
  /\ UNCHANGED <<mode, remote, now>>

\* ApplyBillingLifecycleWithoutRenewal, when the kill switch is off.
LifecycleOnly(s) ==
  /\ pc[s] = "due" /\ ~live /\ Running
  /\ Goto(s, "cycle") /\ Stay(s)
  /\ \/ Exhausted(at[s]) /\ Downgrade
     \/ /\ ~Exhausted(at[s]) /\ Overdue(at[s])
        /\ contract' = [InGrace(at[s]) EXCEPT !.next = at[s]]
        /\ UNCHANGED <<attempt, offer, receipts, paid>>
  /\ UNCHANGED <<mode, remote, now>>

\* The contract changed meanwhile, its attempt number is taken, or a downgrade
\* met a post that is being published: the transaction leaves nothing behind.
SkipLifecycle(s) ==
  /\ pc[s] = "due"
  /\ \/ ~Running
     \/ live /\ ~Due(at[s])
     \/ ~live /\ ~Exhausted(at[s]) /\ ~Overdue(at[s])
     \/ live /\ ~Exhausted(at[s]) /\ ~OpenRenewal /\ Taken
     \/ "publishing" \in mix.faults /\ Exhausted(at[s])
  /\ Goto(s, "cycle") /\ Stay(s)
  /\ UNCHANGED <<db, mode, remote, now>>

\* ListBillingAttemptsForWorker.  Its lease lasts two minutes, less than a cycle
\* may wait for the provider, and nothing compares its token.
PickAttempt(s, a) ==
  /\ pc[s] = "cycle"
  /\ \/ attempt[a].status = "prepared" /\ live /\ ~comp /\ Goto(s, "begin")
     \/ attempt[a].status = "pending" /\ attempt[a].bound # 0 /\ Goto(s, "check")
  /\ on' = [on EXCEPT ![s] = a]
  /\ UNCHANGED <<db, mode, remote, now, got, at>>

EndCycle(s) ==
  /\ pc[s] = "cycle"
  /\ Goto(s, "idle") /\ at' = [at EXCEPT ![s] = Never]
  /\ UNCHANGED <<db, mode, remote, now, on, got>>
----------------------------------------------------------------------------
(* Creating a payment: the durable boundary, the POST, and its answer. *)

\* Mutant: an old attempt is posted again.
BeginProviderCreateLate(w) ==
  LET a == on[w] IN
  /\ pc[w] = "begin"
  /\ IF \/ comp \/ attempt[a].status # "prepared"
        \/ attempt[a].purpose = "renewal" /\ ~(Running /\ ~contract.cancel /\ contract.method)
     THEN Done(w) /\ UNCHANGED db
     ELSE /\ attempt' = [attempt EXCEPT ![a].started = IF @ = Never THEN at[w] ELSE @]
          /\ Goto(w, "post") /\ Stay(w) /\ UNCHANGED <<contract, offer, receipts, paid>>
  /\ UNCHANGED <<mode, remote, now>>

\* BeginBillingProviderCreate
BeginProviderCreate(w) ==
  LET a == on[w] IN
  /\ pc[w] = "begin"
  /\ IF comp \/ attempt[a].status # "prepared"
     THEN Done(w) /\ UNCHANGED db
     ELSE IF at[w] >= attempt[a].created + Window
     THEN Done(w) /\ ManualReview(a, at[w])
     ELSE IF attempt[a].purpose = "renewal" /\ ~(Running /\ ~contract.cancel /\ contract.method)
     THEN Done(w) /\ UNCHANGED db
     ELSE /\ attempt' = [attempt EXCEPT ![a].started = IF @ = Never THEN at[w] ELSE @]
          /\ Goto(w, "post") /\ Stay(w) /\ UNCHANGED <<contract, offer, receipts, paid>>
  /\ UNCHANGED <<mode, remote, now>>

\* The payment a POST with the attempt's key leads to: the one the provider
\* remembers, or a new one.
Remembered(a) == pays[a] # <<>> /\ now < posted[a] + IdemLife
NewPayment(a, status) ==
  /\ pays' = [pays EXCEPT ![a] = Append(@, [status |-> status, at |-> now])]
  /\ posted' = [posted EXCEPT ![a] = now]
FirstStatuses(a) == IF attempt[a].purpose = "checkout" THEN {"pending"} ELSE {"pending"} \cup mix.outcomes

\* CreatePayment.  The POST may be refused, or be lost before or after the
\* provider took it; a repeated checkout may come back without its form.
CreatePayment(w) ==
  LET a == on[w] IN
  /\ pc[w] = "post"
  /\ \/ "refused" \in mix.faults /\ Goto(w, "rejected") /\ Stay(w) /\ UNCHANGED remote
     \/ "lost" \in mix.faults /\ Goto(w, "lost") /\ Stay(w) /\ UNCHANGED remote
     \/ /\ \/ Remembered(a) /\ UNCHANGED remote
           \/ ~Remembered(a) /\ \E status \in FirstStatuses(a) : NewPayment(a, status)
        /\ \/ "lost" \in mix.faults /\ Goto(w, "lost") /\ Stay(w)
           \/ LET last == pays'[a][Len(pays'[a])] IN
              /\ Goto(w, IF attempt[a].purpose = "checkout" /\ last.status # "pending"
                         THEN "suspect" ELSE "attach")
              /\ got' = [got EXCEPT ![w] = [index |-> Len(pays'[a]), status |-> last.status]]
              /\ UNCHANGED <<on, at>>
  /\ UNCHANGED <<db, mode, now>>

\* Mutant: an unknown outcome counts as a failed trial.
LostAsFailure(w) ==
  LET a == on[w] IN
  /\ pc[w] = "lost"
  /\ IF attempt[a].status = "prepared" /\ attempt[a].purpose = "renewal"
     THEN /\ attempt' = [attempt EXCEPT ![a].status = "failed"]
          /\ contract' = [contract EXCEPT !.trials = attempt[a].number, !.next = at[w] + Retry]
     ELSE UNCHANGED <<attempt, contract>>
  /\ Done(w)
  /\ UNCHANGED <<offer, receipts, paid, mode, remote, now>>

\* recordBillingCreateFailure for an unknown outcome: the attempt stays prepared
\* for another POST, or goes to review when that would come too late.
CreateFailed(w) ==
  /\ pc[w] = "lost"
  /\ FailForReview(on[w], at[w]) \/ UNCHANGED db
  /\ Done(w)
  /\ UNCHANGED <<mode, remote, now>>

\* The provider refused the request: nothing was created, review it is.
CreateRejected(w) ==
  /\ pc[w] = "rejected"
  /\ FailForReview(on[w], at[w])
  /\ Done(w)
  /\ UNCHANGED <<mode, remote, now>>

\* QuarantineBillingProviderPayment
Quarantine(w) ==
  LET a == on[w] IN
  /\ pc[w] = "suspect"
  /\ attempt' = IF /\ attempt[a].status \in {"prepared", "manual_review"}
                   /\ attempt[a].bound \in {0, got[w].index}
                THEN [attempt EXCEPT ![a].status = "manual_review", ![a].bound = got[w].index]
                ELSE attempt
  /\ Done(w)
  /\ UNCHANGED <<contract, offer, receipts, paid, mode, remote, now>>

\* AttachBillingProviderPayment: bound before or by somebody else, or not at all.
AttachPayment(w) ==
  LET a == on[w]  i == got[w].index  row == attempt[a] IN
  /\ pc[w] = "attach"
  /\ IF \/ row.status \in {"prepared", "pending"} /\ row.bound \in {0, i}
        \/ row.status \in {"succeeded", "canceled"} /\ row.bound = i
     THEN /\ attempt' = IF row.status \in {"prepared", "pending"}
                        THEN [attempt EXCEPT ![a].status = "pending", ![a].bound = i] ELSE attempt
          /\ IF got[w].status # "pending" THEN Goto(w, "notify") /\ Stay(w)
             ELSE IF w \in Schedulers /\ attempt'[a].status = "pending"
             THEN Goto(w, "check") /\ Stay(w) ELSE Done(w)
          /\ UNCHANGED <<contract, offer, receipts, paid>>
     ELSE Done(w) /\ (FailForReview(a, at[w]) \/ UNCHANGED db)
  /\ UNCHANGED <<mode, remote, now>>
----------------------------------------------------------------------------
(* Reconciling with the provider's canonical payment. *)

\* The provider settles a payment.
SettlePayment(a, i, status) ==
  /\ i \in DOMAIN pays[a] /\ pays[a][i].status = "pending"
  /\ pays' = [pays EXCEPT ![a][i] = [status |-> status, at |-> now]]
  /\ UNCHANGED <<db, mode, posted, now, pc, on, got, at>>

\* A notification arrives, once or again, and its payment is read back.
Webhook(h, a, i) ==
  /\ "webhook" \in mix.requests
  /\ pc[h] = "idle" /\ i \in DOMAIN pays[a] /\ pays[a][i].status # "pending"
  /\ Goto(h, "notify")
  /\ on' = [on EXCEPT ![h] = a] /\ at' = [at EXCEPT ![h] = now]
  /\ got' = [got EXCEPT ![h] = [index |-> i, status |-> pays[a][i].status]]
  /\ UNCHANGED <<db, mode, remote, now>>

\* processBillingAttempt: a pending attempt is reviewed at its horizon, or its
\* payment is read.
CheckStatus(w) ==
  LET a == on[w]  i == attempt[a].bound IN
  /\ pc[w] = "check"
  /\ IF at[w] >= (IF attempt[a].started # Never THEN attempt[a].started ELSE attempt[a].created)
                 + mix.horizon
     THEN FailForReview(a, at[w]) /\ Done(w)
     ELSE /\ UNCHANGED db
          /\ \/ "unavailable" \in mix.faults /\ Done(w)
             \/ /\ i \in DOMAIN pays[a]
                /\ Goto(w, "observe")
                /\ got' = [got EXCEPT ![w] = [index |-> i, status |-> pays[a][i].status]]
                /\ UNCHANGED <<on, at>>
  /\ UNCHANGED <<mode, remote, now>>

Receipt(a, payment, failed) ==
  [of |-> a, index |-> payment.index, status |-> payment.status, failed |-> failed]

\* ReconcileBillingPayment of a payment not seen before in this status.
Settlement(w) ==
  LET a == on[w]
      payment == got[w]
      rows == IF attempt[a].bound # 0 THEN attempt
              ELSE [attempt EXCEPT ![a].bound = payment.index,
                                   ![a].status = IF @ = "prepared" THEN "pending" ELSE @]
      record(failed) ==
        receipts' = IF pc[w] = "notify" THEN receipts \cup {Receipt(a, payment, failed)}
                    ELSE receipts
  IN
  IF rows[a].bound # payment.index
  THEN record(TRUE) /\ UNCHANGED <<contract, attempt, offer, paid>>
  ELSE IF payment.status \in Charged /\ rows[a].status # "succeeded"
  THEN IF attempt[a].purpose = "renewal" /\ ~StillCurrent(a)
       THEN /\ attempt' = [rows EXCEPT ![a].status = "manual_review"]
            /\ record(TRUE) /\ UNCHANGED <<contract, offer, paid>>
       ELSE /\ Activate(a, rows, pays[a][payment.index], payment.status = "succeeded")
            /\ record(FALSE)
  ELSE IF payment.status \in Stopped /\ rows[a].status \notin {"canceled", "succeeded"}
  THEN CancelAttempt(a, rows, payment.status = "revoked", at[w]) /\ record(FALSE)
  ELSE attempt' = rows /\ record(FALSE) /\ UNCHANGED <<contract, offer, paid>>

\* The payment is not the one the row is bound to, or it was paid for a renewal
\* that no longer extends the contract.
IntegrityFails(w) ==
  LET a == on[w] IN
  \/ attempt[a].bound \notin {0, got[w].index}
  \/ /\ got[w].status \in Charged /\ attempt[a].status # "succeeded"
     /\ attempt[a].purpose = "renewal" /\ ~StillCurrent(a)

\* A failed receipt sends the attempt to review in a transaction of its own.
Reconcile(w) ==
  LET seen == {r \in receipts : /\ r.of = on[w] /\ r.index = got[w].index
                                /\ r.status = got[w].status} IN
  /\ pc[w] \in {"notify", "observe"}
  /\ IF pc[w] = "notify" /\ seen # {}
     THEN /\ UNCHANGED db
          /\ IF \E r \in seen : r.failed THEN Goto(w, "rejected") /\ Stay(w) ELSE Done(w)
     ELSE /\ Settlement(w)
          /\ IF IntegrityFails(w) THEN Goto(w, "rejected") /\ Stay(w) ELSE Done(w)
  /\ UNCHANGED <<mode, remote, now>>

\* The process dies or the request is abandoned; its memory is gone.
Abandon(w) ==
  /\ "crash" \in mix.faults /\ pc[w] # "idle"
  /\ Goto(w, "idle")
  /\ on' = [on EXCEPT ![w] = NoAttempt] /\ got' = [got EXCEPT ![w] = NoPayment]
  /\ at' = [at EXCEPT ![w] = Never]
  /\ UNCHANGED <<db, mode, remote, now>>

\* A day passes; a cancellation intent lives for half an hour.
Tick ==
  /\ now < MaxTime
  /\ \A w \in Actors : pc[w] # "idle" => now < at[w] + mix.lag
  /\ now' = now + 1 /\ offer' = Never
  /\ UNCHANGED <<contract, attempt, receipts, paid, mode, remote, pc, on, got, at>>
----------------------------------------------------------------------------
WorkerStep(w) ==
  \/ BeginProviderCreate(w) \/ CreatePayment(w) \/ CreateFailed(w) \/ CreateRejected(w)
  \/ Quarantine(w) \/ AttachPayment(w) \/ CheckStatus(w) \/ Reconcile(w)

SchedulerStep(s) ==
  \/ StartCycle(s) \/ LifecycleOnly(s) \/ SkipLifecycle(s) \/ EndCycle(s)
  \/ \E a \in Attempts : PrepareRenewal(s, a) \/ PickAttempt(s, a)

HandlerStep(h) == \E a \in Attempts :
  Checkout(h, a) \/ \E i \in DOMAIN pays[a] : Webhook(h, a, i)

OwnerStep ==
  \/ CancellationIntent \/ AcceptOffer \/ ConfirmCancellation
  \/ ResumeSubscription \/ DetachPaymentMethod

ProviderStep == \E a \in Attempts : \E i \in DOMAIN pays[a] :
  \E status \in mix.outcomes : SettlePayment(a, i, status)

Next ==
  \/ \E w \in Actors : WorkerStep(w) \/ Abandon(w)
  \/ \E s \in Schedulers : SchedulerStep(s)
  \/ \E h \in Handlers : HandlerStep(h)
  \/ OwnerStep \/ Operator \/ ProviderStep \/ Tick

Spec == Init /\ [][Next]_vars

\* A scheduler that is not killed again and again goes through its cycles, a due
\* row is worked on in the end (next_attempt_at orders the batches), an answer
\* does come now and then, and a post does not stay in publication for ever.
Fairness == \A s \in Schedulers :
  /\ WF_vars(StartCycle(s)) /\ WF_vars(EndCycle(s))
  /\ SF_vars(\E a \in Attempts : PrepareRenewal(s, a))
  /\ SF_vars(LifecycleOnly(s))
  /\ \A a \in Attempts : SF_vars(PickAttempt(s, a))
  /\ SF_vars(BeginProviderCreate(s)) /\ SF_vars(CreatePayment(s) /\ pc'[s] \in {"attach", "suspect"})
  /\ SF_vars(AttachPayment(s)) /\ SF_vars(CheckStatus(s) /\ (pc'[s] = "observe" \/ attempt' # attempt))
  /\ SF_vars(Quarantine(s)) /\ SF_vars(Reconcile(s)) /\ WF_vars(WorkerStep(s))

FairSpec == Spec /\ Fairness
----------------------------------------------------------------------------
(* Properties *)

\* An attempt is charged at most once, however often its POST is repeated: the
\* create window closes before the provider forgets the key.
OneChargePerAttempt == \A a \in Attempts : Len(pays[a]) <= 1

\* No period is debited twice, whatever becomes of its earlier attempts.
OneDebitPerCycle ==
  \A a, b \in Renewals :
    /\ a # b /\ attempt[a].start = attempt[b].start
    /\ \E i \in DOMAIN pays[a] : pays[a][i].status \in Charged
    => \A i \in DOMAIN pays[b] : pays[b][i].status \notin Charged

\* The outcome of a renewal is unknown to the rows, or its money is unassigned.
Unresolved(a) ==
  \E i \in DOMAIN pays[a] : \/ pays[a][i].status = "pending"
                            \/ pays[a][i].status \in Charged /\ attempt[a].status # "succeeded"

Debits(a) == Len(pays'[a]) > Len(pays[a])

\* While the outcome of a renewal is unresolved no other renewal is debited,
\* even in a later contract.
DebitsWhenResolved == \A a, b \in Renewals : a # b /\ Debits(a) => ~Unresolved(b)
UnresolvedStopsDebits == [][DebitsWhenResolved]_vars

\* A confirmed cancellation or detached card is an exact cutoff for debits.
DebitsBeforeCutoff == \A a \in Renewals : Debits(a) => ~contract.cancel
CancelCutoff == [][DebitsBeforeCutoff]_vars

\* Every paid renewal extends a paid period, and no two paid periods overlap: a
\* late payment for an old contract does not displace the new one.
PeriodsDisjoint ==
  /\ \A p, q \in paid : p # q => p.end <= q.start \/ q.end <= p.start
  /\ \A p \in paid : attempt[p.by].purpose = "renewal" => \E q \in paid : q.end = p.start

\* The retention discount is granted for one period in the life of a contract.
RetentionOnce == Cardinality({p \in paid : p.discount}) <= 1

\* Values have their types, a contract that runs without a card is canceled, and
\* the retention discount is granted once.
ContractSound == TypeOK /\ RetentionOnce

\* Money the provider took is matched to a period or reported for review, unless
\* complimentary access or the kill switch suspends the work.
Honoured(a) == attempt[a].status \in {"succeeded", "manual_review"}
PaymentHonoured == \A a \in Attempts :
  (\E i \in DOMAIN pays[a] : pays[a][i].status \in Charged) ~> (Honoured(a) \/ comp \/ ~live)

\* A contract past its end is renewed, ends, is in its grace window, or waits for
\* its next retry: no unresolved payment keeps an unpaid subscription running.
UnpaidEnds ==
  (Running /\ now >= contract.end) ~>
    \/ ~Running \/ now < contract.end \/ comp
    \/ contract.grace # Never /\ now < contract.grace
    \/ now < contract.next

\* A renewal is debited when its period begins, and not before.
NoEarlyDebit == [][ \A a \in Renewals : Debits(a) => now >= attempt[a].start ]_vars
============================================================================
