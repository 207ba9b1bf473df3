--------------------------- MODULE BillingProofs ---------------------------
(***************************************************************************)
(* Proofs about Billing: what holds of the rows, the payments and the      *)
(* actors in every reachable state, and the properties that follow.        *)
(***************************************************************************)
EXTENDS Billing, FiniteSetTheorems, TLAPS

Open(a) == attempt[a].status \in OpenStatuses
Renewal(a) == attempt[a].purpose = "renewal"

\* What a row says agrees with the payments made under its key: a row whose POST may have begun
\* stays open until its one payment is settled, and its key was first seen after it was created.
RowSound(a) ==
  /\ attempt[a].status = "unused" => ~Renewal(a) /\ ~attempt[a].discount
  /\ attempt[a].status # "unused" => attempt[a].created \in Nat /\ attempt[a].created <= now
  /\ attempt[a].started # Never => attempt[a].status \in OpenStatuses \cup {"succeeded", "canceled"}
  /\ pays[a] # <<>> => attempt[a].started # Never /\ attempt[a].created <= posted[a]
  /\ Len(pays[a]) <= 1
  /\ attempt[a].bound <= Len(pays[a])
  /\ attempt[a].status = "succeeded" => pays[a] # <<>> /\ pays[a][1].status \in Charged
  /\ attempt[a].status = "canceled" => pays[a] # <<>> /\ pays[a][1].status \in Stopped

Busy == {"begin", "post", "lost", "rejected", "attach", "check", "notify", "observe", "suspect"}
Reading == {"attach", "notify", "observe", "suspect"}

\* The clock of an actor at work lags behind by no more than the mix allows; a POST is on its way
\* only for a row that was begun within its window; what was read of a payment is as it was made.
ActorSound(w) ==
  /\ pc[w] \in Busy => on[w] \in Attempts /\ attempt[on[w]].status # "unused"
  /\ pc[w] # "idle" => at[w] \in Nat /\ at[w] <= now /\ now <= at[w] + mix.lag
  /\ pc[w] = "post" => /\ attempt[on[w]].started # Never
                       /\ at[w] < attempt[on[w]].created + Window
  /\ pc[w] \in Reading => /\ pays[on[w]] # <<>> /\ got[w].index = 1
                          /\ got[w].status \in {"pending", pays[on[w]][1].status}

\* The unique index of migration 021: one open renewal.
OneOpenRenewal == \A a, b \in Attempts :
  Open(a) /\ Open(b) /\ Renewal(a) /\ Renewal(b) => a = b

\* The retention discount waits in the contract or in the open renewal, until one period has it.
DiscountSound ==
  /\ contract.discount => contract.used
  /\ \A a \in Attempts : attempt[a].discount => Renewal(a) /\ contract.used
  /\ \A p \in paid : p.discount =>
       /\ contract.used /\ ~contract.discount
       /\ \A a \in Attempts : Open(a) => ~attempt[a].discount
       /\ \A q \in paid : q.discount => p = q

BillingInv ==
  /\ TypeOK
  /\ \A a \in Attempts : RowSound(a)
  /\ \A w \in Actors : ActorSound(w)
  /\ OneOpenRenewal
  /\ DiscountSound

\* A checkout is open only while no contract runs, and then it is the only one; a payment is made
\* after its row.
CheckoutInv ==
  /\ \A a, b \in Attempts : Open(a) /\ Open(b) /\ ~Renewal(a) /\ ~Renewal(b) => a = b
  /\ Running => \A a \in Attempts : Open(a) => Renewal(a)
  /\ \A a \in Attempts : pays[a] # <<>> => attempt[a].created <= pays[a][1].at

Settled(a) == Renewal(a) /\ attempt[a].status = "succeeded"
Dead(a) == attempt[a].status \in {"failed", "canceled"}

\* Nothing is due before the end of the period just paid.
Ahead == contract.status = "active" /\ contract.grace = Never /\ contract.next = contract.end /\ ~OpenRenewal

\* The contract has left every period behind that a renewal paid, and no later contract returns to
\* one; of the renewals made for one period all but one have come to nothing.
DebitInv ==
  /\ \A a \in Attempts : Settled(a) =>
       /\ attempt[a].start < contract.end
       /\ attempt[a].start <= now \/ Ahead
       /\ \A c \in Attempts : Open(c) /\ ~Renewal(c) => attempt[a].start <= attempt[c].created
  /\ \A a, b \in Attempts : a # b /\ Renewal(a) /\ Renewal(b) /\ attempt[a].start = attempt[b].start
                            => Dead(a) \/ Dead(b)

\* One process runs the billing cycles.
OneProcess == \A m \in Mixes : \A s, t \in m.schedulers : s = t

\* A POST on its way to the first debit of a renewal holds off every end of the contract.
CutoffInv ==
  /\ \A s \in Schedulers : pc[s] # "idle" => s \in mix.schedulers
  /\ \A h \in Handlers : pc[h] \notin {"due", "cycle"}
  /\ \A h \in Handlers : pc[h] \in {"begin", "post"} => ~Renewal(on[h])
  /\ \A w \in Actors :
       pc[w] = "post" /\ Renewal(on[w]) /\ pays[on[w]] = <<>> => Running /\ ~contract.cancel

\* A contract ends before the time that was paid for.
EndsEarly == Running /\ ~Running' /\ now < contract.end

\* The paid periods follow each other up to the end of the contract, or lie in the past; a new
\* contract begins after all of them.
PeriodInv ==
  /\ \A p \in paid :
       /\ p.start < p.end /\ attempt[p.by].status # "unused"
       /\ Running => p.end <= contract.end
       /\ ~Running => p.end <= now
       /\ \A c \in Attempts : Open(c) /\ ~Renewal(c) => p.end <= attempt[c].created
       /\ Renewal(p.by) => \E q \in paid : q.end = p.start
  /\ Running => \E p \in paid : p.end = contract.end
  /\ \A p, q \in paid : p # q => p.end <= q.start \/ q.end <= p.start
----------------------------------------------------------------------------
(* TypeOK in parts. *)

Contract == [status : {"none", "active", "past_due", "ended"}, end : Int, method : BOOLEAN,
             cancel : BOOLEAN, next : Int, grace : Int, trials : Nat, used : BOOLEAN,
             discount : BOOLEAN]
Carded == contract.status \in {"none", "ended"} \/ contract.method \/ contract.cancel
ContractOK == contract \in Contract /\ Carded
RowsOK == attempt \in [Attempts -> Attempt]
LedgerOK ==
  /\ receipts \subseteq [of : Attempts, index : Nat, status : PaymentStatuses, failed : BOOLEAN]
  /\ paid \subseteq [by : Attempts, start : Int, end : Int, discount : BOOLEAN]
Payment == [status : PaymentStatuses, at : Nat]
RemoteOK == pays \in [Attempts -> Seq(Payment)] /\ posted \in [Attempts -> Int]
ModeOK == offer \in Int /\ mix \in Mixes /\ comp \in BOOLEAN /\ live \in BOOLEAN /\ now \in Nat
Places == {"idle", "due", "cycle", "begin", "post", "lost", "rejected", "attach", "check", "notify",
           "observe", "suspect"}
ActorsOK ==
  /\ pc \in [Actors -> Places] /\ on \in [Actors -> Attempts \cup {NoAttempt}]
  /\ got \in [Actors -> [index : Nat, status : PaymentStatuses]] /\ at \in [Actors -> Int]

LEMMA TypeParts ==
  TypeOK <=> ContractOK /\ RowsOK /\ LedgerOK /\ RemoteOK /\ ModeOK /\ ActorsOK
BY DEF TypeOK, ContractOK, Contract, Carded, RowsOK, LedgerOK, RemoteOK, ModeOK, ActorsOK, Payment, Places

LEMMA ContractFields ==
  ASSUME NEW d \in Contract
  PROVE  /\ \A v \in {"none", "active", "past_due", "ended"} : [d EXCEPT !.status = v] \in Contract
         /\ \A v \in Int : [d EXCEPT !.end = v] \in Contract
         /\ \A v \in Int : [d EXCEPT !.next = v] \in Contract
         /\ \A v \in Int : [d EXCEPT !.grace = v] \in Contract
         /\ \A v \in Nat : [d EXCEPT !.trials = v] \in Contract
         /\ \A v \in BOOLEAN : [d EXCEPT !.method = v] \in Contract
         /\ \A v \in BOOLEAN : [d EXCEPT !.cancel = v] \in Contract
         /\ \A v \in BOOLEAN : [d EXCEPT !.used = v] \in Contract
         /\ \A v \in BOOLEAN : [d EXCEPT !.discount = v] \in Contract
BY DEF Contract

LEMMA TypePartsNext ==
  (ContractOK /\ RowsOK /\ LedgerOK /\ RemoteOK /\ ModeOK /\ ActorsOK)' => TypeOK'
BY DEF TypeOK, ContractOK, Contract, Carded, RowsOK, LedgerOK, RemoteOK, ModeOK, ActorsOK, Payment, Places
----------------------------------------------------------------------------
(* What the invariants need to know of a step. *)

\* The rows keep what they were made for; none is opened or begun anew.
Lives == \A a \in Attempts :
  /\ attempt'[a].purpose = attempt[a].purpose /\ attempt'[a].discount = attempt[a].discount
  /\ attempt'[a].start = attempt[a].start /\ attempt'[a].created = attempt[a].created
  /\ Open(a) => attempt'[a].status # "unused"
  /\ ~Open(a) => attempt'[a].status = attempt[a].status
  /\ attempt[a].started # Never => attempt'[a].started # Never

\* The rows in use keep what they were made for, and settled ones stay as they are.
Kept == \A a \in Attempts : attempt[a].status # "unused" =>
  /\ attempt'[a].purpose = attempt[a].purpose /\ attempt'[a].start = attempt[a].start
  /\ attempt'[a].status # "unused" /\ attempt'[a].created = attempt[a].created
  /\ ~Open(a) => attempt'[a].status = attempt[a].status
  /\ attempt[a].started # Never => attempt'[a].started # Never

Unpaid == \A a \in Attempts : attempt'[a].status = "succeeded" => attempt[a].status = "succeeded"

\* No period is paid, and no contract begins.
Tame == contract'.end = contract.end /\ (Running' => Running) /\ paid' = paid /\ Unpaid

\* A row begins: for the next period of the contract, or to make a contract.
New(a) ==
  /\ Tame /\ attempt'[a].status = "prepared"
  /\ \A b \in Attempts : b # a => (attempt'[b].status = "unused" <=> attempt[b].status = "unused")
  /\ \/ Renewal(a)' /\ Running /\ ~OpenRenewal /\ attempt'[a].start = contract.end /\ contract.next <= now
     \/ /\ ~Renewal(a)' /\ ~Running /\ attempt'[a].created = now
        /\ \A b \in Attempts : ~Renewal(b) /\ b # a => ~Open(b)'

\* A period is paid: the first of a contract, or the one that follows its last.
Renewed == \E a \in Attempts, start \in Int :
  /\ Open(a) /\ pays[a] # <<>> /\ attempt'[a].status = "succeeded"
  /\ \A b \in Attempts : b # a => attempt'[b].status = attempt[b].status
  /\ IF Renewal(a) THEN Running /\ contract.end = start /\ start = attempt[a].start
                   ELSE start = pays[a][1].at
  /\ paid' = paid \cup {[by |-> a, start |-> start, end |-> start + mix.month,
                         discount |-> attempt[a].discount]}
  /\ contract'.status = "active" /\ contract'.end = start + mix.month
  /\ contract'.next = contract'.end /\ contract'.grace = Never

\* What a step may do to the rows and to the contract.
Onward ==
  /\ Kept /\ (Tame \/ Renewed)
  /\ \A a \in Attempts : attempt[a].status = "unused" /\ attempt'[a].status # "unused" => New(a)

\* No discount is granted and no period paid.
Calm == contract'.used = contract.used /\ (contract'.discount => contract.discount) /\ paid' = paid

\* The provider and the clock do not move.
Steady == pays' = pays /\ posted' = posted /\ now' = now /\ mix' = mix

\* Only w may go on.
Others(w) == \A v \in Actors : v # w =>
  pc'[v] = pc[v] /\ on'[v] = on[v] /\ got'[v] = got[v] /\ at'[v] = at[v]

LEMMA MixFacts ==
  ASSUME TypeOK
  PROVE  /\ mix.lag \in Nat /\ mix.month \in Nat \ {0} /\ mix.grace \in Nat \ {0}
         /\ mix.horizon \in Nat \ {0} /\ mix.outcomes \subseteq Charged \cup Stopped
         /\ mix.schedulers \subseteq Schedulers /\ Window + mix.lag <= IdemLife
BY MixAssumption DEF TypeOK, Charged, Stopped

LEMMA OpenKept ==
  ASSUME OneOpenRenewal, Lives
  PROVE  OneOpenRenewal'
<1>1. ASSUME NEW a \in Attempts, Open(a)' PROVE Open(a) BY <1>1 DEF Lives, Open
<1> QED BY <1>1 DEF OneOpenRenewal, Lives, Renewal

LEMMA DiscountKept ==
  ASSUME DiscountSound, Lives, Calm
  PROVE  DiscountSound'
<1>1. ASSUME NEW a \in Attempts, Open(a)' PROVE Open(a) BY <1>1 DEF Lives, Open
<1> QED BY <1>1 DEF DiscountSound, Lives, Calm, Renewal

\* An actor that waits is not disturbed while the provider and the clock stand still.
LEMMA ActorKept ==
  ASSUME NEW w \in Actors, ActorSound(w), Kept, Steady, TypeOK,
         pc'[w] = pc[w], on'[w] = on[w], got'[w] = got[w], at'[w] = at[w]
  PROVE  ActorSound(w)'
BY DEF ActorSound, Kept, Steady, Busy, Reading

LEMMA LivesKept == Lives => Kept
BY DEF Lives, Kept, Open, OpenStatuses

LEMMA LivesOnward == Lives /\ (Tame \/ Renewed) => Onward
<1>1. Lives => \A a \in Attempts : attempt[a].status = "unused" => attempt'[a].status = "unused"
  BY DEF Lives, Open, OpenStatuses
<1> QED BY <1>1, LivesKept DEF Onward

LEMMA OthersKept ==
  ASSUME BillingInv, Kept, Steady, NEW w \in Actors, Others(w), ActorSound(w)'
  PROVE  \A v \in Actors : ActorSound(v)'
BY ActorKept DEF Others, BillingInv

\* Steps that leave rows and payments alone.
LEMMA QuietStep ==
  ASSUME BillingInv, attempt' = attempt, pays' = pays, posted' = posted, Calm,
         now' \in Nat, now' >= now
  PROVE  /\ Lives /\ \A a \in Attempts : RowSound(a)'
         /\ OneOpenRenewal' /\ DiscountSound'
<1>1. Lives BY DEF Lives, Open, OpenStatuses
<1>2. ASSUME NEW a \in Attempts PROVE RowSound(a)'
  <2>1. RowSound(a) /\ now \in Nat BY DEF BillingInv, TypeOK
  <2> QED BY <2>1 DEF RowSound, Renewal
<1>3. OneOpenRenewal' BY <1>1, OpenKept DEF BillingInv
<1>4. DiscountSound' BY <1>1, DiscountKept DEF BillingInv
<1> QED BY <1>1, <1>2, <1>3, <1>4

LEMMA InitBilling == Init => BillingInv
<1> SUFFICES ASSUME Init PROVE BillingInv OBVIOUS
<1>1. TypeOK
  <2>1. ContractOK BY DEF Init, ContractOK, Contract, Carded, Never
  <2>2. RowsOK BY DEF Init, RowsOK, Attempt, AttemptStatuses, OpenStatuses, Never
  <2>3. LedgerOK BY DEF Init, LedgerOK
  <2>6. ModeOK
    <3>1. comp \in BOOLEAN /\ live \in BOOLEAN BY Zenon DEF Init
    <3>2. offer \in Int /\ mix \in Mixes /\ now \in Nat BY DEF Init, Never
    <3> QED BY <3>1, <3>2 DEF ModeOK
  <2>4. RemoteOK BY DEF Init, RemoteOK, Never
  <2>5. ActorsOK BY DEF Init, ActorsOK, Places, Never, NoPayment, PaymentStatuses
  <2> QED BY <2>1, <2>2, <2>3, <2>4, <2>5, <2>6, TypeParts
<1>2. ASSUME NEW a \in Attempts PROVE RowSound(a) BY DEF Init, RowSound, Renewal, Never, OpenStatuses
<1>3. ASSUME NEW w \in Actors PROVE ActorSound(w) BY DEF Init, ActorSound, Busy, Reading
<1>4. OneOpenRenewal BY DEF Init, OneOpenRenewal, Open, OpenStatuses
<1>5. DiscountSound BY DEF Init, DiscountSound, Renewal
<1> QED BY <1>1, <1>2, <1>3, <1>4, <1>5 DEF BillingInv
----------------------------------------------------------------------------
(* Steps of one actor: how it goes on, and what its transaction does. *)

\* What a transaction leaves behind in the database.
Committed ==
  /\ ContractOK' /\ RowsOK' /\ LedgerOK' /\ offer' \in Int
  /\ Lives /\ DiscountSound' /\ (\A a \in Attempts : RowSound(a)') /\ (Tame \/ Renewed)

LEMMA ActorStep ==
  ASSUME BillingInv, NEW w \in Actors, Committed, Steady, UNCHANGED <<comp, live>>,
         ActorsOK', Others(w), ActorSound(w)'
  PROVE  BillingInv' /\ Onward
<1>1. TypeOK'
  <2>1. RemoteOK' /\ ModeOK' BY TypeParts DEF BillingInv, Steady, RemoteOK, ModeOK, Committed
  <2> QED BY <2>1, TypePartsNext DEF Committed
<1>2. OneOpenRenewal' BY OpenKept DEF Committed, BillingInv
<1>3. \A v \in Actors : ActorSound(v)' BY OthersKept, LivesKept DEF Committed
<1> QED BY <1>1, <1>2, <1>3, LivesOnward DEF BillingInv, Committed

LEMMA NothingCommitted ==
  ASSUME BillingInv, UNCHANGED <<contract, attempt, receipts, paid>>, offer' \in Int, Steady
  PROVE  Committed
<1>1. Calm BY DEF Calm
<1>2. now' \in Nat /\ now' >= now BY DEF BillingInv, TypeOK, Steady
<1>3. Lives /\ DiscountSound' /\ \A a \in Attempts : RowSound(a)' BY <1>1, <1>2, QuietStep DEF Steady
<1>4. ContractOK' /\ RowsOK' /\ LedgerOK' BY TypeParts DEF BillingInv, ContractOK, Carded, RowsOK, LedgerOK
<1>5. Tame BY DEF Tame, Unpaid, Running
<1> QED BY <1>3, <1>4, <1>5 DEF Committed

LEMMA GotoStays ==
  ASSUME ActorsOK, NEW w \in Actors, NEW p \in Places, Goto(w, p), Stay(w)
  PROVE  /\ ActorsOK' /\ Others(w) /\ pc'[w] = p
         /\ on'[w] = on[w] /\ got'[w] = got[w] /\ at'[w] = at[w]
BY DEF ActorsOK, Goto, Stay, Others

LEMMA ActorDone ==
  ASSUME BillingInv, NEW w \in Actors, Done(w), Lives, Steady, pc[w] # "idle"
  PROVE  ActorsOK' /\ Others(w) /\ ActorSound(w)'
<1>1. ActorsOK /\ ActorSound(w) BY TypeParts DEF BillingInv
<1>2. NoPayment \in [index : Nat, status : PaymentStatuses] BY DEF NoPayment, PaymentStatuses
<1>3. ActorsOK' BY <1>1, <1>2 DEF ActorsOK, Done, Goto, Places, Never
<1>4. Others(w) BY <1>1 DEF Others, Done, Goto, ActorsOK
<1>5. /\ pc'[w] = IF w \in Schedulers THEN "cycle" ELSE "idle"
      /\ w \in Schedulers => at'[w] = at[w]
  BY <1>1 DEF Done, Goto, ActorsOK
<1>6. ActorSound(w)' BY <1>1, <1>5 DEF ActorSound, Busy, Reading, Steady
<1> QED BY <1>3, <1>4, <1>6

\* A row that is open goes to review.
LEMMA ReviewCommits ==
  ASSUME BillingInv, NEW a \in Attempts, NEW time \in Nat, Open(a), ManualReview(a, time), Steady
  PROVE  Committed
<1>1. ContractOK /\ RowsOK /\ LedgerOK /\ offer \in Int BY TypeParts DEF BillingInv, ModeOK
<1>2. RowsOK' BY <1>1 DEF RowsOK, ManualReview, Attempt, AttemptStatuses, OpenStatuses
<1>3. ContractOK' BY <1>1, DurationAssumption DEF ContractOK, Contract, Carded, ManualReview, Running
<1>4. LedgerOK' /\ offer' \in Int BY <1>1 DEF LedgerOK, ManualReview
<1>5. Lives BY <1>1 DEF Lives, ManualReview, RowsOK, Attempt, Open, OpenStatuses
<1>6. Calm BY <1>1 DEF Calm, ManualReview, ContractOK, Contract
<1>7. DiscountSound' BY <1>5, <1>6, DiscountKept DEF BillingInv
<1>8. ASSUME NEW b \in Attempts PROVE RowSound(b)'
  <2>1. RowSound(b) /\ RowSound(a) BY DEF BillingInv
  <2> QED BY <1>1, <2>1 DEF RowSound, Renewal, ManualReview, RowsOK, Attempt, Steady, Open, OpenStatuses
<1>10. Unpaid BY <1>1 DEF Unpaid, ManualReview, RowsOK, Attempt
<1>9. Tame BY <1>1, <1>10 DEF Tame, ManualReview, ContractOK, Contract, Running
<1> QED BY <1>2, <1>3, <1>4, <1>5, <1>7, <1>8, <1>9 DEF Committed

LEMMA FailCommits ==
  ASSUME BillingInv, NEW a \in Attempts, NEW time \in Nat, Steady,
         FailForReview(a, time) \/ UNCHANGED db
  PROVE  Committed
<1>1. CASE UNCHANGED db
  <2>1. offer' \in Int BY <1>1, TypeParts DEF BillingInv, ModeOK, db
  <2> QED BY <1>1, <2>1, NothingCommitted DEF db
<1>2. CASE Open(a) /\ ManualReview(a, time) BY <1>2, ReviewCommits
<1> QED BY <1>1, <1>2 DEF FailForReview, Open, OpenStatuses

\* Prepared renewals end: as failures if no POST began, for review otherwise.
LEMMA SuppressedRows ==
  ASSUME BillingInv, attempt' = Suppressed, Steady
  PROVE  RowsOK' /\ Lives /\ Unpaid /\ \A a \in Attempts : RowSound(a)'
<1>1. RowsOK BY TypeParts DEF BillingInv
<1>5. Unpaid BY <1>1 DEF Unpaid, Suppressed, RowsOK, Attempt
<1>2. RowsOK' BY <1>1 DEF RowsOK, Suppressed, Attempt, AttemptStatuses, OpenStatuses
<1>3. Lives BY <1>1 DEF Lives, Suppressed, RowsOK, Attempt, Open, OpenStatuses
<1>4. ASSUME NEW b \in Attempts PROVE RowSound(b)'
  <2>1. RowSound(b) BY DEF BillingInv
  <2> QED BY <1>1, <2>1 DEF RowSound, Renewal, Suppressed, Untouched, RowsOK, Attempt, Steady, OpenStatuses
<1> QED BY <1>2, <1>3, <1>4, <1>5

LEMMA DowngradeCommits ==
  ASSUME BillingInv, Downgrade, Running, Steady
  PROVE  Committed
<1>1. ContractOK /\ LedgerOK /\ offer \in Int BY TypeParts DEF BillingInv, ModeOK
<1>2. RowsOK' /\ Lives /\ Unpaid /\ \A a \in Attempts : RowSound(a)' BY SuppressedRows DEF Downgrade
<1>3. ContractOK'
  <2>0. Never \in Int BY DEF Never
  <2>1. contract' \in Contract BY <1>1, <2>0, ContractFields, Zenon DEF ContractOK, Downgrade
  <2>2. contract'.status = "ended" BY <1>1 DEF ContractOK, Contract, Downgrade
  <2> QED BY <2>1, <2>2 DEF ContractOK, Carded
<1>4. LedgerOK' /\ offer' \in Int BY <1>1 DEF LedgerOK, Downgrade
<1>5. Calm BY <1>1 DEF Calm, Downgrade, ContractOK, Contract
<1>6. DiscountSound' BY <1>2, <1>5, DiscountKept DEF BillingInv
<1>7. Tame BY <1>1, <1>2 DEF Tame, Downgrade, ContractOK, Contract, Running
<1> QED BY <1>2, <1>3, <1>4, <1>6, <1>7 DEF Committed
----------------------------------------------------------------------------
(* Steps that write nothing. *)

LEMMA QuietActor ==
  ASSUME BillingInv, NEW w \in Actors, UNCHANGED <<db, mode, remote, now>>,
         ActorsOK', Others(w), ActorSound(w)'
  PROVE  BillingInv' /\ Onward
<1>1. Steady BY DEF Steady, mode, remote
<1>2. offer' \in Int BY TypeParts DEF BillingInv, ModeOK, db
<1>3. Committed BY <1>1, <1>2, NothingCommitted DEF db
<1> QED BY <1>1, <1>3, ActorStep DEF mode

LEMMA StartCycleKeeps ==
  ASSUME BillingInv, NEW s \in Schedulers, StartCycle(s)
  PROVE  BillingInv' /\ Onward
<1>1. s \in Actors /\ ActorsOK /\ now \in Nat /\ now' = now /\ mix' = mix
  BY TypeParts DEF BillingInv, Actors, ModeOK, StartCycle, mode
<1>2. mix.lag \in Nat BY MixFacts DEF BillingInv
<1>3. ActorsOK' BY <1>1 DEF ActorsOK, StartCycle, Goto, Places
<1>4. Others(s) BY <1>1 DEF Others, StartCycle, Goto, ActorsOK
<1>5. pc'[s] \in {"due", "cycle"} /\ at'[s] = now BY <1>1 DEF StartCycle, Goto, ActorsOK
<1>6. ActorSound(s)' BY <1>1, <1>2, <1>5 DEF ActorSound, Busy, Reading
<1> QED BY <1>1, <1>3, <1>4, <1>6, QuietActor DEF StartCycle

LEMMA SkipLifecycleKeeps ==
  ASSUME BillingInv, NEW s \in Schedulers, SkipLifecycle(s)
  PROVE  BillingInv' /\ Onward
<1>1. s \in Actors /\ ActorsOK /\ ActorSound(s) /\ now' = now /\ mix' = mix /\ "cycle" \in Places
  BY TypeParts DEF BillingInv, Actors, SkipLifecycle, mode, Places
<1>2. ActorsOK' /\ Others(s) /\ pc'[s] = "cycle" /\ at'[s] = at[s]
  BY <1>1, GotoStays DEF SkipLifecycle
<1>3. ActorSound(s)' BY <1>1, <1>2 DEF ActorSound, Busy, Reading, SkipLifecycle
<1> QED BY <1>1, <1>2, <1>3, QuietActor DEF SkipLifecycle

LEMMA PickAttemptKeeps ==
  ASSUME BillingInv, NEW s \in Schedulers, NEW a \in Attempts, PickAttempt(s, a)
  PROVE  BillingInv' /\ Onward
<1>1. /\ s \in Actors /\ ActorsOK /\ ActorSound(s) /\ now' = now /\ mix' = mix
      /\ attempt' = attempt
  BY TypeParts DEF BillingInv, Actors, PickAttempt, mode, db
<1>2. ActorsOK' /\ Others(s) BY <1>1 DEF ActorsOK, PickAttempt, Goto, Places, Others
<1>3. pc'[s] \in {"begin", "check"} /\ at'[s] = at[s] /\ on'[s] = a /\ pc[s] = "cycle"
  BY <1>1 DEF PickAttempt, Goto, ActorsOK
<1>4. attempt[a].status # "unused" BY DEF PickAttempt
<1>5. ActorSound(s)' BY <1>1, <1>3, <1>4 DEF ActorSound, Busy, Reading
<1> QED BY <1>1, <1>2, <1>5, QuietActor DEF PickAttempt

LEMMA EndCycleKeeps ==
  ASSUME BillingInv, NEW s \in Schedulers, EndCycle(s)
  PROVE  BillingInv' /\ Onward
<1>1. s \in Actors /\ ActorsOK BY TypeParts DEF BillingInv, Actors
<1>2. on' = on /\ got' = got BY DEF EndCycle
<1>5. ActorsOK' BY <1>1, <1>2 DEF ActorsOK, EndCycle, Goto, Places, Never
<1>6. Others(s) BY <1>1, <1>2 DEF ActorsOK, EndCycle, Goto, Others
<1>3. pc'[s] = "idle" BY <1>1 DEF EndCycle, Goto, ActorsOK
<1>4. ActorSound(s)' BY <1>3 DEF ActorSound, Busy, Reading
<1> QED BY <1>1, <1>4, <1>5, <1>6, QuietActor DEF EndCycle

LEMMA AbandonKeeps ==
  ASSUME BillingInv, NEW w \in Actors, Abandon(w)
  PROVE  BillingInv' /\ Onward
<1>1. ActorsOK BY TypeParts DEF BillingInv
<1>2. NoPayment \in [index : Nat, status : PaymentStatuses] BY DEF NoPayment, PaymentStatuses
<1>3. ActorsOK' /\ Others(w) BY <1>1, <1>2 DEF ActorsOK, Abandon, Goto, Places, Others, Never
<1>4. pc'[w] = "idle" BY <1>1 DEF Abandon, Goto, ActorsOK
<1>5. ActorSound(w)' BY <1>4 DEF ActorSound, Busy, Reading
<1> QED BY <1>3, <1>5, QuietActor DEF Abandon

\* The only payment of a row is its first.
LEMMA OnePayment ==
  ASSUME BillingInv, NEW a \in Attempts
  PROVE  /\ pays[a] \in Seq(Payment)
         /\ DOMAIN pays[a] = 1 .. Len(pays[a]) /\ Len(pays[a]) \in Nat
         /\ \A i \in DOMAIN pays[a] : i = 1 /\ pays[a] # <<>>
         /\ pays[a] # <<>> => Len(pays[a]) = 1 /\ pays[a][1] \in Payment
<1>1. RowSound(a) /\ pays[a] \in Seq(Payment) BY TypeParts DEF BillingInv, RemoteOK
<1>2. DOMAIN pays[a] = 1 .. Len(pays[a]) /\ Len(pays[a]) \in Nat BY <1>1
<1>3. pays[a] = <<>> <=> Len(pays[a]) = 0 BY <1>1
<1>4. Len(pays[a]) <= 1 BY <1>1 DEF RowSound
<1>5. ASSUME pays[a] # <<>> PROVE Len(pays[a]) = 1
  <2>1. Len(pays[a]) # 0 BY <1>3, <1>5
  <2>2. \A n \in Nat : n <= 1 /\ n # 0 => n = 1 OBVIOUS
  <2> QED BY <1>2, <1>4, <2>1, <2>2, Zenon
<1>6. ASSUME NEW i \in DOMAIN pays[a] PROVE i = 1 /\ pays[a] # <<>>
  <2>1. i \in Nat /\ 1 <= i /\ i <= Len(pays[a]) BY <1>2
  <2>2. i = 1 /\ Len(pays[a]) # 0 BY <1>2, <1>4, <2>1
  <2> QED BY <1>3, <2>2
<1>7. ASSUME pays[a] # <<>> PROVE pays[a][1] \in Payment
  <2>1. 1 \in 1 .. Len(pays[a]) BY <1>5, <1>7
  <2> QED BY <1>1, <2>1
<1> QED BY <1>1, <1>2, <1>5, <1>6, <1>7

LEMMA WebhookKeeps ==
  ASSUME BillingInv, NEW h \in Handlers, NEW a \in Attempts, NEW i \in DOMAIN pays[a],
         Webhook(h, a, i)
  PROVE  BillingInv' /\ Onward
<1>1. /\ h \in Actors /\ ActorsOK /\ now \in Nat /\ now' = now /\ mix' = mix
      /\ attempt' = attempt /\ pays' = pays
  BY TypeParts DEF BillingInv, Actors, ModeOK, Webhook, mode, db, remote
<1>2. i = 1 /\ pays[a] # <<>> /\ pays[a][1].status \in PaymentStatuses /\ i \in Nat
  BY OnePayment DEF Payment
<1>3. attempt[a].status # "unused"
  BY <1>2 DEF BillingInv, RowSound, OpenStatuses
<1>4. mix.lag \in Nat BY MixFacts DEF BillingInv
<1>5. ActorsOK' /\ Others(h)
  BY <1>1, <1>2 DEF ActorsOK, Webhook, Goto, Places, Others
<1>6. /\ pc'[h] = "notify" /\ on'[h] = a /\ at'[h] = now
      /\ got'[h] = [index |-> 1, status |-> pays[a][1].status]
  BY <1>1, <1>2 DEF Webhook, Goto, ActorsOK
<1>7. ActorSound(h)' BY <1>1, <1>2, <1>3, <1>4, <1>6 DEF ActorSound, Busy, Reading
<1> QED BY <1>1, <1>5, <1>7, QuietActor DEF Webhook
----------------------------------------------------------------------------
(* The owner, the operator, the provider and the clock. *)

LEMMA OwnerKeeps ==
  ASSUME BillingInv, Committed, Steady, UNCHANGED <<comp, live, pc, on, got, at>>
  PROVE  BillingInv' /\ Onward
<1>1. TypeOK'
  <2>1. RemoteOK' /\ ModeOK' /\ ActorsOK'
    BY TypeParts DEF BillingInv, Steady, RemoteOK, ModeOK, ActorsOK, Committed
  <2> QED BY <2>1, TypePartsNext DEF Committed
<1>2. OneOpenRenewal' BY OpenKept DEF Committed, BillingInv
<1>3. \A v \in Actors : ActorSound(v)' BY ActorKept, LivesKept DEF Committed, BillingInv
<1> QED BY <1>1, <1>2, <1>3, LivesOnward DEF BillingInv, Committed

LEMMA CancellationIntentKeeps ==
  ASSUME BillingInv, CancellationIntent
  PROVE  BillingInv' /\ Onward
<1>1. Steady BY DEF CancellationIntent, Steady, mode, remote
<1>2. offer' \in Int BY TypeParts DEF BillingInv, ContractOK, Contract, CancellationIntent
<1>3. Committed BY <1>1, <1>2, NothingCommitted DEF CancellationIntent
<1> QED BY <1>1, <1>3, OwnerKeeps DEF CancellationIntent, mode

LEMMA AcceptOfferKeeps ==
  ASSUME BillingInv, AcceptOffer
  PROVE  BillingInv' /\ Onward
<1>1. Steady BY DEF AcceptOffer, Steady, mode, remote
<1>2. ContractOK /\ RowsOK /\ LedgerOK BY TypeParts DEF BillingInv
<1>3. ContractOK'
  <2>1. contract' \in Contract BY <1>2, ContractFields, Zenon DEF ContractOK, AcceptOffer
  <2>2. contract'.method BY <1>2 DEF ContractOK, Contract, AcceptOffer
  <2> QED BY <2>1, <2>2 DEF ContractOK, Carded
<1>4. RowsOK' /\ LedgerOK' /\ offer' \in Int BY <1>2 DEF AcceptOffer, RowsOK, LedgerOK, Never
<1>5. Lives BY DEF AcceptOffer, Lives, Open, OpenStatuses
<1>6. \A a \in Attempts : RowSound(a)' BY <1>1 DEF AcceptOffer, BillingInv, RowSound, Renewal, Steady
<1>7. DiscountSound'
  <2>1. ~contract.used /\ contract'.used /\ paid' = paid /\ attempt' = attempt
    BY <1>2 DEF AcceptOffer, ContractOK, Contract
  <2> QED BY <2>1 DEF BillingInv, DiscountSound, Renewal
<1>20. Tame BY <1>2 DEF Tame, Unpaid, AcceptOffer, ContractOK, Contract, Running
<1>8. Committed BY <1>3, <1>4, <1>5, <1>6, <1>7, <1>20 DEF Committed
<1> QED BY <1>1, <1>8, OwnerKeeps DEF AcceptOffer, mode

LEMMA ConfirmCancellationKeeps ==
  ASSUME BillingInv, ConfirmCancellation
  PROVE  BillingInv' /\ Onward
<1>1. Steady BY DEF ConfirmCancellation, Steady, mode, remote
<1>2. ContractOK /\ LedgerOK BY TypeParts DEF BillingInv
<1>3. ContractOK'
  <2>1. contract' \in Contract BY <1>2, ContractFields, Zenon DEF ContractOK, ConfirmCancellation
  <2>2. contract'.cancel BY <1>2 DEF ContractOK, Contract, ConfirmCancellation
  <2> QED BY <2>1, <2>2 DEF ContractOK, Carded
<1>4. RowsOK' /\ Lives /\ Unpaid /\ \A a \in Attempts : RowSound(a)' BY <1>1, SuppressedRows DEF ConfirmCancellation
<1>5. LedgerOK' /\ offer' \in Int BY <1>2 DEF ConfirmCancellation, LedgerOK, Never
<1>6. Calm BY <1>2 DEF Calm, ConfirmCancellation, ContractOK, Contract
<1>7. DiscountSound' BY <1>4, <1>6, DiscountKept DEF BillingInv
<1>20. Tame BY <1>2, <1>4 DEF Tame, ConfirmCancellation, ContractOK, Contract, Running
<1>8. Committed BY <1>3, <1>4, <1>5, <1>7, <1>20 DEF Committed
<1> QED BY <1>1, <1>8, OwnerKeeps DEF ConfirmCancellation, mode

LEMMA ResumeSubscriptionKeeps ==
  ASSUME BillingInv, ResumeSubscription
  PROVE  BillingInv' /\ Onward
<1>1. Steady /\ attempt' = attempt /\ paid' = paid /\ offer' = offer /\ receipts' = receipts
  BY DEF ResumeSubscription, Steady, mode, remote
<1>2. ContractOK /\ RowsOK /\ LedgerOK /\ offer \in Int BY TypeParts DEF BillingInv, ModeOK
<1>3. ContractOK'
  <2>1. contract' \in Contract BY <1>2, ContractFields, Zenon DEF ContractOK, ResumeSubscription
  <2>2. contract'.method BY <1>2 DEF ContractOK, Contract, ResumeSubscription
  <2> QED BY <2>1, <2>2 DEF ContractOK, Carded
<1>4. Calm BY <1>1, <1>2 DEF Calm, ResumeSubscription, ContractOK, Contract
<1>5. now' \in Nat /\ now' >= now /\ pays' = pays /\ posted' = posted
  BY <1>1, TypeParts DEF BillingInv, ModeOK, Steady
<1>6. Lives /\ DiscountSound' /\ \A a \in Attempts : RowSound(a)' BY <1>1, <1>4, <1>5, QuietStep
<1>20. Tame BY <1>2 DEF Tame, Unpaid, ResumeSubscription, ContractOK, Contract, Running
<1>7. Committed BY <1>1, <1>2, <1>3, <1>6, <1>20 DEF Committed, RowsOK, LedgerOK
<1> QED BY <1>1, <1>7, OwnerKeeps DEF ResumeSubscription, mode

LEMMA DetachKeeps ==
  ASSUME BillingInv, DetachPaymentMethod
  PROVE  BillingInv' /\ Onward
<1>1. Steady BY DEF DetachPaymentMethod, Steady, mode, remote
<1>2. ContractOK /\ LedgerOK BY TypeParts DEF BillingInv
<1>3. ContractOK'
  <2>0. contract.end \in Int BY <1>2 DEF ContractOK, Contract
  <2>1. contract' \in Contract
    BY <1>2, <2>0, ContractFields, Zenon DEF ContractOK, DetachPaymentMethod
  <2>2. contract'.cancel BY <1>2 DEF ContractOK, Contract, DetachPaymentMethod
  <2> QED BY <2>1, <2>2 DEF ContractOK, Carded
<1>4. RowsOK' /\ Lives /\ Unpaid /\ \A a \in Attempts : RowSound(a)' BY <1>1, SuppressedRows DEF DetachPaymentMethod
<1>5. LedgerOK' /\ offer' \in Int BY <1>2 DEF DetachPaymentMethod, LedgerOK, Never
<1>6. Calm BY <1>2 DEF Calm, DetachPaymentMethod, ContractOK, Contract
<1>7. DiscountSound' BY <1>4, <1>6, DiscountKept DEF BillingInv
<1>20. Tame BY <1>2, <1>4 DEF Tame, DetachPaymentMethod, ContractOK, Contract, Running
<1>8. Committed BY <1>3, <1>4, <1>5, <1>7, <1>20 DEF Committed
<1> QED BY <1>1, <1>8, OwnerKeeps DEF DetachPaymentMethod, mode

LEMMA OperatorKeeps ==
  ASSUME BillingInv, Operator
  PROVE  BillingInv' /\ Onward
<1>1. Steady /\ UNCHANGED <<contract, attempt, offer, receipts, paid>>
  BY DEF Operator, Steady, remote, db
<1>2. Committed BY <1>1, NothingCommitted, TypeParts DEF BillingInv, ModeOK
<1>3. comp' \in BOOLEAN /\ live' \in BOOLEAN BY Zenon DEF Operator, BillingInv, TypeOK
<1>4. TypeOK'
  <2>1. RemoteOK' /\ ActorsOK' /\ ModeOK'
    BY <1>1, <1>3, TypeParts DEF BillingInv, RemoteOK, ActorsOK, ModeOK, Steady, Operator
  <2> QED BY <1>2, <2>1, TypePartsNext DEF Committed
<1>5. OneOpenRenewal' BY <1>2, OpenKept DEF Committed, BillingInv
<1>6. \A v \in Actors : ActorSound(v)' BY <1>1, <1>2, ActorKept, LivesKept DEF Committed, BillingInv, Operator
<1> QED BY <1>2, <1>4, <1>5, <1>6, LivesOnward DEF BillingInv, Committed

LEMMA TickKeeps ==
  ASSUME BillingInv, Tick
  PROVE  BillingInv' /\ Onward
<1>1. now \in Nat /\ mix.lag \in Nat /\ mix' = mix /\ now' = now + 1
  BY MixFacts DEF BillingInv, TypeOK, Tick, mode
<1>2. TypeOK'
  <2>1. ContractOK' /\ RowsOK' /\ LedgerOK' /\ RemoteOK' /\ ActorsOK'
    BY TypeParts DEF BillingInv, ContractOK, Carded, RowsOK, LedgerOK, RemoteOK, ActorsOK, Tick, remote
  <2>2. ModeOK' BY <1>1, TypeParts DEF BillingInv, ModeOK, Tick, mode, Never
  <2> QED BY <2>1, <2>2, TypePartsNext
<1>3. Calm BY DEF Calm, Tick
<1>4. /\ Lives /\ \A a \in Attempts : RowSound(a)'
      /\ OneOpenRenewal' /\ DiscountSound'
  BY <1>1, <1>3, QuietStep DEF Tick, remote
<1>5. ASSUME NEW w \in Actors PROVE ActorSound(w)'
  <2>1. ActorSound(w) /\ (pc[w] # "idle" => now < at[w] + mix.lag) BY DEF BillingInv, Tick
  <2> QED BY <1>1, <2>1 DEF ActorSound, Busy, Reading, Tick, remote
<1>6. Tame BY DEF Tame, Unpaid, Tick, Running
<1> QED BY <1>2, <1>4, <1>5, <1>6, LivesOnward DEF BillingInv

LEMMA SettlePaymentKeeps ==
  ASSUME BillingInv, NEW a \in Attempts, NEW i \in DOMAIN pays[a], NEW status \in mix.outcomes,
         SettlePayment(a, i, status)
  PROVE  BillingInv' /\ Onward
<1>1. i = 1 /\ pays[a] # <<>> /\ pays[a][1].status = "pending" /\ pays[a] \in Seq(Payment)
      /\ Len(pays[a]) = 1
  BY OnePayment DEF SettlePayment
<1>2. now \in Nat /\ now' = now /\ mix' = mix /\ RemoteOK
  BY TypeParts DEF BillingInv, ModeOK, SettlePayment, mode
<1>3. [status |-> status, at |-> now] \in Payment
  BY <1>2, MixFacts DEF BillingInv, Payment, PaymentStatuses
<1>4. /\ pays' \in [Attempts -> Seq(Payment)]
      /\ \A b \in Attempts : Len(pays'[b]) = Len(pays[b]) /\ (pays[b] # <<>> <=> pays'[b] # <<>>)
      /\ \A b \in Attempts : pays[b] # <<>> /\ pays'[b][1] # pays[b][1] => pays[b][1].status = "pending"
  <2>1. pays' = [pays EXCEPT ![a] = [pays[a] EXCEPT ![1] = [status |-> status, at |-> now]]]
    BY <1>1, <1>2 DEF SettlePayment
  <2>2. [pays[a] EXCEPT ![1] = [status |-> status, at |-> now]] \in Seq(Payment)
    BY <1>1, <1>3
  <2>3. Len([pays[a] EXCEPT ![1] = [status |-> status, at |-> now]]) = 1 BY <1>1
  <2> QED BY <1>1, <1>2, <2>1, <2>2, <2>3 DEF RemoteOK
<1>5. TypeOK'
  <2>1. ContractOK' /\ RowsOK' /\ LedgerOK' /\ ActorsOK' /\ ModeOK'
    BY TypeParts DEF BillingInv, ContractOK, Carded, RowsOK, LedgerOK, ActorsOK, ModeOK, SettlePayment, db, mode
  <2>2. RemoteOK' BY <1>2, <1>4 DEF RemoteOK, SettlePayment
  <2> QED BY <2>1, <2>2, TypePartsNext
<1>6. UNCHANGED <<contract, attempt, paid, posted, pc, on, got, at>> BY DEF SettlePayment, db
<1>7. ASSUME NEW b \in Attempts PROVE RowSound(b)'
  <2>1. RowSound(b) BY DEF BillingInv
  <2> QED BY <1>2, <1>4, <1>6, <2>1 DEF RowSound, Renewal, Charged, Stopped
<1>8. ASSUME NEW w \in Actors PROVE ActorSound(w)'
  <2>1. ActorSound(w) BY DEF BillingInv
  <2> QED BY <1>2, <1>4, <1>6, <2>1 DEF ActorSound, Busy, Reading
<1>9. OneOpenRenewal' BY <1>6 DEF BillingInv, OneOpenRenewal, Open, Renewal
<1>10. DiscountSound' BY <1>6 DEF BillingInv, DiscountSound, Open, Renewal
<1>11. Lives /\ Tame BY <1>6 DEF Lives, Tame, Unpaid, Running, Open, OpenStatuses
<1> QED BY <1>5, <1>7, <1>8, <1>9, <1>10, <1>11, LivesOnward DEF BillingInv
----------------------------------------------------------------------------
(* The scheduler prepares renewals and ends contracts. *)

\* A contract that runs on in its grace window.
LEMMA GraceContract ==
  ASSUME BillingInv, Running, NEW time \in Nat,
         contract' = [InGrace(time) EXCEPT !.next = time]
  PROVE  /\ ContractOK' /\ contract'.used = contract.used /\ contract'.discount = contract.discount
         /\ contract'.end = contract.end /\ contract'.cancel = contract.cancel
         /\ contract'.method = contract.method /\ contract'.status \in {"active", "past_due"}
<1>1. ContractOK /\ mix.grace \in Nat BY TypeParts, MixFacts DEF BillingInv
<1> DEFINE g == IF contract.grace # Never THEN contract.grace ELSE time + mix.grace
<1>2. g \in Int BY <1>1 DEF ContractOK, Contract
<1>3. time \in Int OBVIOUS
<1>4. InGrace(time) = [contract EXCEPT !.status = "past_due", !.grace = g] \/ InGrace(time) = contract
  BY DEF InGrace
<1>5. contract' \in Contract
  <2>1. \A v \in Int : [contract EXCEPT !.status = "past_due", !.grace = v] \in Contract
    BY <1>1, ContractFields, Zenon DEF ContractOK
  <2>2. InGrace(time) \in Contract BY <1>1, <1>2, <1>4, <2>1, Zenon DEF ContractOK
  <2> QED BY <1>3, <2>2, ContractFields, Zenon
<1>6. /\ contract'.used = contract.used /\ contract'.discount = contract.discount
      /\ contract'.end = contract.end /\ contract'.cancel = contract.cancel
      /\ contract'.method = contract.method /\ contract'.status \in {"active", "past_due"}
  <2>1. CASE InGrace(time) = contract BY <1>1, <2>1 DEF ContractOK, Contract, Running
  <2>2. CASE InGrace(time) = [contract EXCEPT !.status = "past_due", !.grace = g]
    <3>1. contract' = [[contract EXCEPT !.status = "past_due", !.grace = g] EXCEPT !.next = time]
      BY <2>2
    <3> HIDE DEF g
    <3> QED BY <1>1, <3>1 DEF ContractOK, Contract
  <2> QED BY <1>4, <2>1, <2>2
<1>7. Carded' BY <1>1, <1>6 DEF Carded, ContractOK, Running
<1> QED BY <1>5, <1>6, <1>7 DEF ContractOK

LEMMA GraceCommits ==
  ASSUME BillingInv, Running, NEW time \in Nat, Steady,
         contract' = [InGrace(time) EXCEPT !.next = time],
         UNCHANGED <<attempt, offer, receipts, paid>>
  PROVE  Committed
<1>1. ContractOK' /\ Calm BY GraceContract DEF Calm
<1>2. RowsOK' /\ LedgerOK' /\ offer' \in Int BY TypeParts DEF BillingInv, RowsOK, LedgerOK, ModeOK
<1>3. now' \in Nat /\ now' >= now BY TypeParts DEF BillingInv, ModeOK, Steady
<1>4. Lives /\ DiscountSound' /\ \A a \in Attempts : RowSound(a)' BY <1>1, <1>3, QuietStep DEF Steady
<1>5. Tame BY GraceContract DEF Tame, Unpaid, Running
<1> QED BY <1>1, <1>2, <1>4, <1>5 DEF Committed

\* A row not in use has no history.
LEMMA UnusedRow ==
  ASSUME BillingInv, NEW a \in Attempts, attempt[a].status = "unused"
  PROVE  attempt[a].started = Never /\ pays[a] = <<>> /\ ~Renewal(a) /\ ~attempt[a].discount
<1>1. RowSound(a) BY DEF BillingInv
<1> QED BY <1>1 DEF RowSound, OpenStatuses

LEMMA PreparedRow ==
  ASSUME NEW purpose \in {"checkout", "renewal"}, NEW number \in Nat, NEW start \in Int,
         NEW discount \in BOOLEAN, NEW time \in Int
  PROVE  Prepared(purpose, number, start, discount, time) \in Attempt
BY DEF Prepared, Attempt, AttemptStatuses, OpenStatuses, Never

LEMMA FreshRenewal ==
  ASSUME BillingInv, NEW s \in Schedulers, NEW a \in Attempts, PrepareRenewal(s, a),
         Running, ~OpenRenewal, attempt[a].status = "unused", at[s] \in Nat, at[s] <= now,
         attempt' = [attempt EXCEPT ![a] =
           Prepared("renewal", contract.trials + 1, contract.end, contract.discount, at[s])],
         contract' = [InGrace(at[s]) EXCEPT !.next = at[s]],
         UNCHANGED <<offer, receipts, paid>>
  PROVE  BillingInv' /\ Onward
<1>1. s \in Actors /\ ContractOK /\ RowsOK /\ ActorsOK /\ ActorSound(s) /\ RowSound(a)
  BY TypeParts DEF BillingInv, Actors
<1>2. Steady /\ UNCHANGED <<comp, live>> /\ "cycle" \in Places
  BY DEF PrepareRenewal, Steady, mode, remote, Places
<1>3. ContractOK' /\ contract'.used = contract.used /\ contract'.discount = contract.discount
  BY GraceContract
<1> DEFINE row == Prepared("renewal", contract.trials + 1, contract.end, contract.discount, at[s])
<1>4. row \in Attempt
  <2>1. contract.trials + 1 \in Nat /\ contract.end \in Int /\ contract.discount \in BOOLEAN
    BY <1>1 DEF ContractOK, Contract
  <2> QED BY <2>1, PreparedRow
<1>5. /\ attempt' = [attempt EXCEPT ![a] = row]
      /\ row.status = "prepared" /\ row.purpose = "renewal" /\ row.discount = contract.discount
      /\ row.created = at[s] /\ row.started = Never /\ row.bound = 0
  BY DEF Prepared
<1> HIDE DEF row
<1>6. TypeOK'
  <2>1. RowsOK' BY <1>1, <1>4, <1>5 DEF RowsOK
  <2>2. LedgerOK' /\ RemoteOK' /\ ModeOK'
    BY <1>2, TypeParts DEF BillingInv, LedgerOK, RemoteOK, ModeOK, Steady
  <2>3. ActorsOK' BY <1>1, <1>2, GotoStays DEF PrepareRenewal
  <2> QED BY <1>3, <2>1, <2>2, <2>3, TypePartsNext
<1>7. /\ attempt'[a] = row /\ \A b \in Attempts : b # a => attempt'[b] = attempt[b]
  BY <1>1, <1>5 DEF RowsOK
<1>8. pays[a] = <<>> BY UnusedRow
<1>9. ASSUME NEW b \in Attempts PROVE RowSound(b)'
  <2>1. RowSound(b) BY DEF BillingInv
  <2>2. CASE b = a
    BY <1>2, <1>5, <1>7, <1>8, <2>2 DEF RowSound, Renewal, Steady, OpenStatuses
  <2>3. CASE b # a
    BY <1>2, <1>7, <2>1, <2>3 DEF RowSound, Renewal, Steady
  <2> QED BY <2>2, <2>3
<1>10. Kept BY <1>7 DEF Kept
<1>14. attempt'[a].start = contract.end BY <1>7 DEF row, Prepared
<1>15. Tame
  <2>1. Unpaid BY <1>5, <1>7 DEF Unpaid
  <2> QED BY <2>1, GraceContract DEF Tame, Running
<1>16. Onward
  <2>3. contract.next <= now
    <3>1. now \in Nat /\ contract.next \in Int BY <1>1, TypeParts DEF BillingInv, ModeOK, ContractOK, Contract
    <3> QED BY <3>1 DEF PrepareRenewal, Due
  <2>1. New(a) BY <1>5, <1>7, <1>14, <1>15, <2>3 DEF New, Renewal
  <2>2. \A b \in Attempts : b # a => attempt'[b] = attempt[b] BY <1>7
  <2> QED BY <1>10, <1>15, <2>1, <2>2 DEF Onward
<1>11. \A v \in Actors : ActorSound(v)'
  <2>1. Others(s) /\ pc'[s] = "cycle" /\ at'[s] = at[s] /\ pc[s] = "due"
    BY <1>1, <1>2, GotoStays DEF PrepareRenewal
  <2>2. ActorSound(s)' BY <1>1, <1>2, <2>1 DEF ActorSound, Busy, Reading, Steady
  <2> QED BY <1>1, <1>2, <1>10, <2>1, <2>2, OthersKept
<1>12. OneOpenRenewal'
  <2>1. \A b \in Attempts : Open(b) => ~Renewal(b) BY DEF OpenRenewal, Renewals, Open, Renewal
  <2> QED BY <1>7, <2>1 DEF OneOpenRenewal, Open, Renewal
<1>13. DiscountSound'
  <2>1. DiscountSound BY DEF BillingInv
  <2>2. \A b \in Attempts : attempt'[b].discount => Renewal(b)' /\ contract'.used
    BY <1>3, <1>5, <1>7, <2>1 DEF DiscountSound, Renewal
  <2>3. contract'.discount => contract'.used BY <1>3, <2>1 DEF DiscountSound
  <2>4. ASSUME NEW p \in paid', p.discount
        PROVE  /\ contract'.used /\ ~contract'.discount
               /\ \A b \in Attempts : Open(b)' => ~attempt'[b].discount
               /\ \A q \in paid' : q.discount => p = q
    BY <1>3, <1>5, <1>7, <2>1, <2>4 DEF DiscountSound, Open
  <2> QED BY <2>2, <2>3, <2>4 DEF DiscountSound
<1> QED BY <1>6, <1>9, <1>11, <1>12, <1>13, <1>16 DEF BillingInv

\* At the end of a step that wrote and left the actor with its memory.
LEMMA GoesOn ==
  ASSUME BillingInv, NEW w \in Actors, NEW p \in Places \ ({"idle", "post"} \cup Reading),
         Committed, Steady, UNCHANGED <<comp, live>>, Goto(w, p), Stay(w),
         pc[w] # "idle", p \in Busy => on[w] \in Attempts /\ attempt[on[w]].status # "unused"
  PROVE  BillingInv' /\ Onward
<1>1. ActorsOK /\ ActorSound(w) BY TypeParts DEF BillingInv
<1>2. /\ ActorsOK' /\ Others(w) /\ pc'[w] = p
      /\ on'[w] = on[w] /\ got'[w] = got[w] /\ at'[w] = at[w]
  BY <1>1, GotoStays
<1>3. ActorSound(w)'
  <2>1. p \in Busy => on[w] \in Attempts /\ attempt'[on[w]].status # "unused"
    BY DEF Committed, Lives
  <2>2. p # "idle" /\ p # "post" /\ p \notin Reading OBVIOUS
  <2>3. at'[w] \in Nat /\ at'[w] <= now' /\ now' <= at'[w] + mix'.lag
    BY <1>1, <1>2 DEF ActorSound, Steady
  <2> QED BY <1>2, <2>1, <2>2, <2>3 DEF ActorSound
<1> QED BY <1>2, <1>3, ActorStep

LEMMA FinishesAfter ==
  ASSUME BillingInv, NEW w \in Actors, Committed, Steady, UNCHANGED <<comp, live>>, Done(w),
         pc[w] # "idle"
  PROVE  BillingInv' /\ Onward
BY ActorDone, ActorStep DEF Committed

LEMMA PrepareRenewalKeeps ==
  ASSUME BillingInv, NEW s \in Schedulers, NEW a \in Attempts, PrepareRenewal(s, a)
  PROVE  BillingInv' /\ Onward
<1>1. s \in Actors /\ ActorSound(s) /\ pc[s] = "due" BY DEF BillingInv, Actors, PrepareRenewal
<1>2. at[s] \in Nat /\ at[s] <= now BY <1>1 DEF ActorSound
<1>3. Steady /\ UNCHANGED <<comp, live>> /\ Running
  BY DEF PrepareRenewal, Steady, mode, remote, Due
<1>4. Goto(s, "cycle") /\ Stay(s) /\ "cycle" \in Places \ ({"idle", "post"} \cup Reading) /\ "cycle" \notin Busy
  BY DEF PrepareRenewal, Places, Reading, Busy
<1>5. CASE Downgrade
  <2>1. Committed BY <1>3, <1>5, DowngradeCommits
  <2> QED BY <1>1, <1>3, <1>4, <2>1, GoesOn
<1>6. CASE /\ contract' = [InGrace(at[s]) EXCEPT !.next = at[s]]
           /\ UNCHANGED <<attempt, offer, receipts, paid>>
  <2>1. Committed BY <1>2, <1>3, <1>6, GraceCommits
  <2> QED BY <1>1, <1>3, <1>4, <2>1, GoesOn
<1>7. CASE /\ ~OpenRenewal /\ Fresh(a)
           /\ attempt' = [attempt EXCEPT ![a] =
                Prepared("renewal", contract.trials + 1, contract.end, contract.discount, at[s])]
           /\ contract' = [InGrace(at[s]) EXCEPT !.next = at[s]]
           /\ UNCHANGED <<offer, receipts, paid>>
  BY <1>2, <1>3, <1>7, FreshRenewal DEF Fresh
<1> QED BY <1>5, <1>6, <1>7 DEF PrepareRenewal

LEMMA LifecycleOnlyKeeps ==
  ASSUME BillingInv, NEW s \in Schedulers, LifecycleOnly(s)
  PROVE  BillingInv' /\ Onward
<1>1. s \in Actors /\ ActorSound(s) /\ pc[s] = "due" BY DEF BillingInv, Actors, LifecycleOnly
<1>2. at[s] \in Nat /\ at[s] <= now BY <1>1 DEF ActorSound
<1>3. Steady /\ UNCHANGED <<comp, live>> /\ Running
  BY DEF LifecycleOnly, Steady, mode, remote
<1>4. Goto(s, "cycle") /\ Stay(s) /\ "cycle" \in Places \ ({"idle", "post"} \cup Reading) /\ "cycle" \notin Busy
  BY DEF LifecycleOnly, Places, Reading, Busy
<1>5. Committed BY <1>2, <1>3, DowngradeCommits, GraceCommits DEF LifecycleOnly
<1> QED BY <1>1, <1>3, <1>4, <1>5, GoesOn
----------------------------------------------------------------------------
(* A checkout, and the creation of payments. *)

LEMMA CheckoutKeeps ==
  ASSUME BillingInv, NEW h \in Handlers, NEW a \in Attempts, Checkout(h, a)
  PROVE  BillingInv' /\ Onward
<1> DEFINE expired == [b \in Attempts |->
             IF /\ attempt[b].purpose = "checkout" /\ attempt[b].status = "prepared"
                /\ Untouched(b) /\ attempt[b].created < now
             THEN [attempt[b] EXCEPT !.status = "failed"] ELSE attempt[b]]
           row == Prepared("checkout", 1, Never, FALSE, now)
<1>1. /\ h \in Actors /\ ContractOK /\ RowsOK /\ ActorsOK /\ now \in Nat /\ mix.lag \in Nat
      /\ \A b \in Attempts : RowSound(b)
  BY TypeParts, MixFacts DEF BillingInv, Actors, ModeOK
<1>2. Steady /\ UNCHANGED <<comp, live, contract, offer, receipts, paid>>
  BY DEF Checkout, Steady, mode, remote
<1>3. row \in Attempt
  <2>1. Never \in Int /\ now \in Int /\ 1 \in Nat /\ FALSE \in BOOLEAN /\ "checkout" \in {"checkout", "renewal"}
    BY <1>1 DEF Never
  <2> QED BY <2>1, PreparedRow, Zenon
<1>4. /\ row.status = "prepared" /\ row.purpose = "checkout" /\ ~row.discount
      /\ row.created = now /\ row.started = Never /\ row.bound = 0
  BY DEF Prepared
<1>5. \/ attempt' = expired /\ attempt[a].status # "unused"
      \/ attempt' = [expired EXCEPT ![a] = row] /\ attempt[a].status = "unused"
  BY DEF Checkout, Fresh
<1>17. expired \in [Attempts -> Attempt] BY <1>1 DEF RowsOK, Attempt, AttemptStatuses
<1>7. attempt' \in [Attempts -> Attempt]
  <2> HIDE DEF row, expired
  <2> QED BY <1>3, <1>5, <1>17
<1>6. \A b \in Attempts : \/ attempt'[b] = attempt[b]
                          \/ b = a /\ attempt'[b] = row /\ attempt[b].status = "unused"
                          \/ /\ attempt[b].status = "prepared" /\ Untouched(b) /\ ~Renewal(b)
                             /\ attempt'[b] = [attempt[b] EXCEPT !.status = "failed"]
  <2>1. \A b \in Attempts : \/ expired[b] = attempt[b]
                            \/ /\ attempt[b].status = "prepared" /\ Untouched(b) /\ ~Renewal(b)
                               /\ expired[b] = [attempt[b] EXCEPT !.status = "failed"]
    BY DEF Renewal
  <2> HIDE DEF row, expired
  <2>2. ASSUME NEW b \in Attempts
        PROVE  \/ attempt'[b] = expired[b]
               \/ b = a /\ attempt'[b] = row /\ attempt[b].status = "unused"
    BY <1>5, <1>17
  <2> QED BY <2>1, <2>2
<1>18. attempt[a].status = "unused" =>
         /\ ~Running
         /\ \A b \in Attempts : expired[b].purpose = "checkout" => expired[b].status \notin OpenStatuses
  <2>1. attempt[a].status = "unused" => expired[a].status = "unused" OBVIOUS
  <2>2. "unused" \notin OpenStatuses BY DEF OpenStatuses
  <2> HIDE DEF row
  <2> QED BY <2>1, <2>2 DEF Checkout
<1> HIDE DEF expired, row
<1>8. ASSUME NEW b \in Attempts
      PROVE  /\ RowSound(b)' /\ (Renewal(b)' <=> Renewal(b)) /\ attempt'[b].discount = attempt[b].discount
             /\ Open(b)' /\ Renewal(b)' => Open(b)
             /\ attempt'[b].discount => Renewal(b)
             /\ attempt[b].status # "unused" =>
                  /\ attempt'[b].status # "unused" /\ attempt'[b].created = attempt[b].created
                  /\ attempt'[b].started = attempt[b].started
                  /\ attempt'[b].purpose = attempt[b].purpose /\ attempt'[b].start = attempt[b].start
                  /\ ~Open(b) => attempt'[b].status = attempt[b].status
  <2>1. RowSound(b) /\ attempt[b] \in Attempt BY <1>1 DEF RowsOK
  <2>2. CASE attempt'[b] = attempt[b]
    <3>1. attempt[b].discount => Renewal(b) BY DEF BillingInv, DiscountSound
    <3> QED BY <1>2, <2>1, <2>2, <3>1 DEF RowSound, Renewal, Steady, Open
  <2>3. CASE b = a /\ attempt'[b] = row /\ attempt[b].status = "unused"
    <3>1. pays[b] = <<>> /\ ~Renewal(b) /\ ~attempt[b].discount BY <2>3, UnusedRow
    <3>2. attempt[b].discount = FALSE /\ row.discount = FALSE BY <1>3, <1>4, <2>1, <3>1 DEF Attempt
    <3>3. pays'[b] = <<>> /\ posted' = posted /\ now' = now BY <1>2, <3>1 DEF Steady
    <3>4. RowSound(b)' BY <1>1, <1>4, <2>3, <3>3 DEF RowSound, Renewal, OpenStatuses
    <3> QED BY <1>4, <2>3, <3>1, <3>2, <3>4 DEF Renewal, Open
  <2>4. CASE /\ attempt[b].status = "prepared" /\ Untouched(b) /\ ~Renewal(b)
             /\ attempt'[b] = [attempt[b] EXCEPT !.status = "failed"]
    <3>1. attempt[b].discount => Renewal(b) BY DEF BillingInv, DiscountSound
    <3>2. /\ attempt'[b].status = "failed" /\ attempt'[b].purpose = attempt[b].purpose
          /\ attempt'[b].discount = attempt[b].discount /\ attempt'[b].created = attempt[b].created
          /\ attempt'[b].started = attempt[b].started /\ attempt'[b].bound = attempt[b].bound
          /\ attempt'[b].start = attempt[b].start
      BY <2>1, <2>4 DEF Attempt
    <3>3. RowSound(b)' BY <1>2, <2>1, <2>4, <3>2 DEF RowSound, Renewal, Steady, Untouched, OpenStatuses
    <3> QED BY <2>4, <3>1, <3>2, <3>3 DEF Renewal, Open, OpenStatuses
  <2> QED BY <1>6, <2>2, <2>3, <2>4
<1>9. Kept BY <1>8 DEF Kept
<1>10. attempt'[a].status # "unused"
  <2>1. CASE attempt[a].status # "unused" BY <1>8, <2>1
  <2>2. CASE attempt' = [expired EXCEPT ![a] = row] BY <1>4, <1>17, <2>2
  <2> QED BY <1>5, <2>1, <2>2
<1>11. ActorsOK' /\ Others(h) /\ pc'[h] = "begin" /\ on'[h] = a /\ at'[h] = now
  BY <1>1 DEF ActorsOK, Checkout, Goto, Places, Others
<1>12. ActorSound(h)' BY <1>1, <1>2, <1>10, <1>11 DEF ActorSound, Busy, Reading, Steady
<1>13. \A v \in Actors : ActorSound(v)' BY <1>1, <1>2, <1>9, <1>11, <1>12, OthersKept
<1>14. TypeOK'
  <2>1. ContractOK' /\ LedgerOK' /\ RemoteOK' /\ ModeOK'
    BY <1>2, TypeParts DEF BillingInv, ContractOK, Carded, LedgerOK, RemoteOK, ModeOK, Steady
  <2> QED BY <1>7, <1>11, <2>1, TypePartsNext DEF RowsOK
<1>15. OneOpenRenewal' BY <1>8 DEF BillingInv, OneOpenRenewal
<1>16. DiscountSound'
  <2>1. DiscountSound BY DEF BillingInv
  <2>2. contract' = contract /\ paid' = paid BY <1>2
  <2>3. \A b \in Attempts : attempt'[b].discount => Renewal(b)' /\ contract'.used
    BY <1>8, <2>1, <2>2 DEF DiscountSound
  <2>4. \A p \in paid : p.discount => \A b \in Attempts : Open(b)' => ~attempt'[b].discount
    BY <1>8, <2>1 DEF DiscountSound
  <2> QED BY <2>1, <2>2, <2>3, <2>4 DEF DiscountSound
<1>19. Tame
  <2>1. ASSUME NEW b \in Attempts, attempt'[b].status = "succeeded" PROVE attempt[b].status = "succeeded"
    <3>1. attempt[b] \in Attempt BY <1>1 DEF RowsOK
    <3> QED BY <1>4, <1>6, <2>1, <3>1 DEF Attempt
  <2> QED BY <1>2, <2>1 DEF Tame, Unpaid, Running
<1>20. ASSUME NEW c \in Attempts, attempt[c].status = "unused", attempt'[c].status # "unused" PROVE New(c)
  <2>1. c = a /\ attempt'[a] = row /\ attempt[a].status = "unused" BY <1>6, <1>20
  <2>2. ASSUME NEW b \in Attempts, b # a
        PROVE  attempt'[b].status = "unused" <=> attempt[b].status = "unused"
    <3>1. attempt[b] \in Attempt BY <1>1 DEF RowsOK
    <3> QED BY <1>6, <2>2, <3>1 DEF Attempt
  <2>3. ASSUME NEW b \in Attempts, b # a, ~Renewal(b) PROVE ~Open(b)'
    <3>1. attempt'[b] = expired[b]
      BY <1>5, <1>17, <1>4, <2>1, <2>3
    <3>2. attempt'[b].purpose = "checkout"
      BY <1>7, <1>8, <2>3 DEF Renewal, Attempt
    <3> QED BY <1>18, <2>1, <3>1, <3>2 DEF Open
  <2>4. ~Renewal(a)' /\ attempt'[a].status = "prepared" /\ attempt'[a].created = now
    BY <1>4, <2>1 DEF Renewal
  <2> QED BY <1>18, <1>19, <2>1, <2>2, <2>3, <2>4 DEF New
<1>21. Onward BY <1>9, <1>19, <1>20 DEF Onward
<1> QED BY <1>8, <1>13, <1>14, <1>15, <1>16, <1>21 DEF BillingInv

\* The POST of a row begins: durably, and within the row's window.
LEMMA BeginProviderCreateKeeps ==
  ASSUME BillingInv, NEW w \in Actors, BeginProviderCreate(w)
  PROVE  BillingInv' /\ Onward
<1> DEFINE a == on[w]
<1>1. ActorSound(w) /\ pc[w] = "begin" /\ ActorsOK /\ RowsOK
  BY TypeParts DEF BillingInv, BeginProviderCreate
<1>2. /\ a \in Attempts /\ attempt[a].status # "unused"
      /\ at[w] \in Nat /\ at[w] <= now /\ now <= at[w] + mix.lag
  BY <1>1 DEF ActorSound, Busy
<1>3. Steady /\ UNCHANGED <<comp, live>> BY DEF BeginProviderCreate, Steady, mode, remote
<1>4. CASE Done(w) /\ UNCHANGED db
  <2>1. Committed BY <1>2, <1>3, <1>4, FailCommits
  <2> QED BY <1>1, <1>3, <1>4, <2>1, FinishesAfter
<1>5. CASE Done(w) /\ Open(a) /\ ManualReview(a, at[w])
  <2>1. Committed BY <1>2, <1>3, <1>5, ReviewCommits
  <2> QED BY <1>1, <1>3, <1>5, <2>1, FinishesAfter
<1>6. CASE /\ attempt[a].status = "prepared" /\ at[w] < attempt[a].created + Window
           /\ attempt' = [attempt EXCEPT ![a].started = IF @ = Never THEN at[w] ELSE @]
           /\ Goto(w, "post") /\ Stay(w) /\ UNCHANGED <<contract, offer, receipts, paid>>
  <2>1. /\ RowsOK' /\ attempt'[a].started # Never
        /\ attempt'[a].status = attempt[a].status /\ attempt'[a].created = attempt[a].created
    BY <1>1, <1>2, <1>6 DEF RowsOK, Attempt, Never
  <2>2. Lives BY <1>1, <1>2, <1>6 DEF RowsOK, Attempt, Lives, Open, OpenStatuses, Never
  <2>3. ASSUME NEW b \in Attempts PROVE RowSound(b)'
    <3>1. RowSound(b) BY DEF BillingInv
    <3> QED BY <1>1, <1>2, <1>3, <1>6, <3>1
      DEF RowSound, RowsOK, Attempt, Renewal, Steady, OpenStatuses, Never
  <2>4. Calm BY <1>6 DEF Calm
  <2>5. DiscountSound' BY <2>2, <2>4, DiscountKept DEF BillingInv
  <2>6. ContractOK' /\ LedgerOK' /\ offer' \in Int
    BY <1>6, TypeParts DEF BillingInv, ContractOK, Carded, LedgerOK, ModeOK
  <2>11. Unpaid BY <1>1, <1>2, <1>6 DEF Unpaid, RowsOK, Attempt
  <2>10. Tame BY <1>6, <2>11 DEF Tame, Running
  <2>7. Committed BY <2>1, <2>2, <2>3, <2>5, <2>6, <2>10 DEF Committed
  <2>8. /\ ActorsOK' /\ Others(w) /\ pc'[w] = "post"
        /\ on'[w] = on[w] /\ got'[w] = got[w] /\ at'[w] = at[w]
    BY <1>1, <1>6, GotoStays DEF Places
  <2>9. ActorSound(w)'
    BY <1>2, <1>3, <1>6, <2>1, <2>8 DEF ActorSound, Busy, Reading, Steady
  <2> QED BY <1>3, <2>7, <2>8, <2>9, ActorStep
<1>7. attempt[a].status = "prepared" => Open(a) BY DEF Open, OpenStatuses
<1>8. (at[w] >= attempt[a].created + Window) \/ at[w] < attempt[a].created + Window
  BY <1>1, <1>2, DurationAssumption DEF RowsOK, Attempt
<1> QED BY <1>4, <1>5, <1>6, <1>7, <1>8 DEF BeginProviderCreate

\* The window of a row closes before the provider forgets its key.
LEMMA KeyRemembered ==
  ASSUME BillingInv, NEW w \in Actors, pc[w] = "post", pays[on[w]] # <<>>
  PROVE  Remembered(on[w])
<1> DEFINE a == on[w]
<1>1. ActorSound(w) /\ RowsOK /\ RemoteOK /\ now \in Nat /\ mix.lag \in Nat /\ Window + mix.lag <= IdemLife
  BY TypeParts, MixFacts DEF BillingInv, ModeOK
<1>2. /\ a \in Attempts /\ at[w] \in Nat /\ now <= at[w] + mix.lag
      /\ at[w] < attempt[a].created + Window /\ attempt[a].status # "unused"
  BY <1>1 DEF ActorSound, Busy
<1>3. RowSound(a) BY <1>2 DEF BillingInv
<1>4. attempt[a].created \in Nat /\ attempt[a].created <= posted[a] /\ posted[a] \in Int
  BY <1>1, <1>2, <1>3 DEF RowSound, RemoteOK
<1>5. Window \in Nat /\ IdemLife \in Nat BY DurationAssumption
<1>6. now < posted[a] + IdemLife BY <1>1, <1>2, <1>4, <1>5
<1> QED BY <1>6 DEF Remembered

LEMMA CreatePaymentKeeps ==
  ASSUME BillingInv, NEW w \in Actors, CreatePayment(w)
  PROVE  BillingInv' /\ Onward
<1> DEFINE a == on[w]
<1>1. ActorSound(w) /\ pc[w] = "post" /\ ActorsOK /\ RowsOK /\ RemoteOK /\ now \in Nat
  BY TypeParts DEF BillingInv, CreatePayment, ModeOK
<1>2. /\ a \in Attempts /\ attempt[a].status # "unused" /\ attempt[a].started # Never
      /\ at[w] \in Nat /\ at[w] <= now /\ now <= at[w] + mix.lag
  BY <1>1 DEF ActorSound, Busy
<1>3. UNCHANGED <<db, mode, now>> BY DEF CreatePayment
<1>4. RowSound(a) BY <1>2 DEF BillingInv
<1>5. CASE UNCHANGED remote /\ Stay(w) /\ \E p \in {"rejected", "lost"} : Goto(w, p)
  <2>1. PICK p \in {"rejected", "lost"} : Goto(w, p) BY <1>5
  <2>2. /\ ActorsOK' /\ Others(w) /\ pc'[w] = p
        /\ on'[w] = on[w] /\ got'[w] = got[w] /\ at'[w] = at[w]
    BY <1>1, <1>5, <2>1, GotoStays DEF Places
  <2>3. ActorSound(w)' BY <1>2, <1>3, <2>2 DEF ActorSound, Busy, Reading, db, mode
  <2> QED BY <1>3, <1>5, <2>2, <2>3, QuietActor
\* What the POST leaves at the provider, whether or not its answer arrives.
<1> DEFINE Made == \/ Remembered(a) /\ UNCHANGED remote
                   \/ ~Remembered(a) /\ \E status \in FirstStatuses(a) : NewPayment(a, status)
           last == pays'[a][Len(pays'[a])]
           Answer == /\ Goto(w, IF attempt[a].purpose = "checkout" /\ last.status # "pending"
                                THEN "suspect" ELSE "attach")
                     /\ got' = [got EXCEPT ![w] = [index |-> Len(pays'[a]), status |-> last.status]]
                     /\ UNCHANGED <<on, at>>
<1>6. ASSUME Made
      PROVE  /\ RemoteOK' /\ \A b \in Attempts : RowSound(b)'
             /\ pays'[a] # <<>> /\ Len(pays'[a]) = 1 /\ last \in Payment /\ last = pays'[a][1]
             /\ \A b \in Attempts : pays[b] # <<>> => pays'[b] = pays[b]
  <2>1. CASE Remembered(a) /\ UNCHANGED remote
    <3>1. pays' = pays /\ posted' = posted BY <2>1 DEF remote
    <3>2. pays[a] # <<>> BY <2>1 DEF Remembered
    <3>3. Len(pays[a]) = 1 /\ pays[a][1] \in Payment BY <1>2, <3>2, OnePayment
    <3>4. RemoteOK' BY <1>1, <3>1 DEF RemoteOK
    <3>5. ASSUME NEW b \in Attempts PROVE RowSound(b)'
      <4>1. RowSound(b) BY DEF BillingInv
      <4> QED BY <1>3, <3>1, <4>1 DEF RowSound, Renewal, db
    <3> QED BY <3>1, <3>2, <3>3, <3>4, <3>5
  <2>2. CASE ~Remembered(a) /\ \E status \in FirstStatuses(a) : NewPayment(a, status)
    <3>1. PICK status \in FirstStatuses(a) : NewPayment(a, status) BY <2>2
    <3>2. pays[a] = <<>> BY <1>1, <2>2, KeyRemembered
    <3>3. [status |-> status, at |-> now] \in Payment
      BY <1>1, MixFacts DEF BillingInv, Payment, FirstStatuses, PaymentStatuses
    <3> DEFINE new == <<[status |-> status, at |-> now]>>
    <3>4. pays' = [pays EXCEPT ![a] = new]
      BY <1>1, <1>2, <3>1, <3>2 DEF NewPayment, RemoteOK
    <3>5. new \in Seq(Payment) /\ new # <<>> /\ Len(new) = 1 /\ new[1] \in Payment BY <3>3
    <3> HIDE DEF new
    <3>6. /\ pays'[a] = new /\ \A b \in Attempts : b # a => pays'[b] = pays[b]
          /\ pays' \in [Attempts -> Seq(Payment)]
      BY <1>1, <1>2, <3>4, <3>5 DEF RemoteOK
    <3>7. /\ posted'[a] = now /\ posted' \in [Attempts -> Int]
          /\ \A b \in Attempts : b # a => posted'[b] = posted[b]
      BY <1>1, <1>2, <3>1 DEF NewPayment, RemoteOK
    <3>8. ASSUME NEW b \in Attempts PROVE RowSound(b)'
      <4>1. CASE b # a
        <5>1. RowSound(b) BY DEF BillingInv
        <5> QED BY <1>3, <3>6, <3>7, <4>1, <5>1 DEF RowSound, Renewal, db
      <4>2. CASE b = a
        <5>1. attempt[a].status \notin {"succeeded", "canceled"} BY <1>4, <3>2 DEF RowSound
        <5>2. attempt[a].bound \in Nat /\ attempt[a].bound <= 1
          <6>1. attempt[a].bound \in Nat BY <1>1, <1>2 DEF RowsOK, Attempt
          <6>2. attempt[a].bound <= Len(pays[a]) BY <1>4 DEF RowSound
          <6>3. Len(pays[a]) = 0 BY <3>2
          <6> QED BY <6>1, <6>2, <6>3
        <5>3. attempt' = attempt /\ now' = now BY <1>3 DEF db
        <5>4. attempt[a].created \in Nat /\ attempt[a].created <= now BY <1>2, <1>4 DEF RowSound
        <5>5. pays'[a] # <<>> /\ Len(pays'[a]) = 1 /\ posted'[a] = now BY <3>5, <3>6, <3>7
        <5>6. attempt[a].bound <= Len(pays'[a]) BY <5>2, <5>5
        <5> QED BY <1>2, <1>4, <4>2, <5>1, <5>3, <5>4, <5>5, <5>6 DEF RowSound, Renewal
      <4> QED BY <4>1, <4>2
    <3> QED BY <3>2, <3>5, <3>6, <3>7, <3>8 DEF RemoteOK
  <2> QED BY <1>6, <2>1, <2>2
<1>7. ASSUME Made, ActorsOK', Others(w), ActorSound(w)' PROVE BillingInv' /\ Onward
  <2>1. TypeOK'
    <3>1. ContractOK' /\ RowsOK' /\ LedgerOK' /\ ModeOK'
      BY <1>3, TypeParts DEF BillingInv, ContractOK, Carded, RowsOK, LedgerOK, ModeOK, db, mode
    <3> QED BY <1>6, <1>7, <3>1, TypePartsNext
  <2>2. ASSUME NEW v \in Actors PROVE ActorSound(v)'
    <3>1. CASE v # w
      <4>1. ActorSound(v) BY DEF BillingInv
      <4> QED BY <1>3, <1>6, <1>7, <3>1, <4>1 DEF ActorSound, Others, Busy, Reading, db, mode
    <3> QED BY <1>7, <3>1
  <2>3. OneOpenRenewal' /\ DiscountSound'
    BY <1>3 DEF BillingInv, OneOpenRenewal, DiscountSound, Open, Renewal, db
  <2>4. Lives /\ Tame BY <1>3 DEF Lives, Tame, Unpaid, Open, OpenStatuses, Running, db
  <2> QED BY <1>6, <1>7, <2>1, <2>2, <2>3, <2>4, LivesOnward DEF BillingInv
<1>8. CASE Made /\ Goto(w, "lost") /\ Stay(w)
  <2>1. /\ ActorsOK' /\ Others(w) /\ pc'[w] = "lost"
        /\ on'[w] = on[w] /\ got'[w] = got[w] /\ at'[w] = at[w]
    BY <1>1, <1>8, GotoStays DEF Places
  <2>2. ActorSound(w)' BY <1>2, <1>3, <2>1 DEF ActorSound, Busy, Reading, db, mode
  <2> HIDE DEF Made
  <2> QED BY <1>7, <1>8, <2>1, <2>2
<1>9. CASE Made /\ Answer
  <2>1. /\ pays'[a] # <<>> /\ Len(pays'[a]) = 1 /\ last = pays'[a][1]
        /\ last.status \in PaymentStatuses
    BY <1>6, <1>9 DEF Payment
  <2> HIDE DEF Made
  <2> DEFINE p == IF attempt[a].purpose = "checkout" /\ last.status # "pending"
                  THEN "suspect" ELSE "attach"
  <2>2. p \in {"suspect", "attach"} OBVIOUS
  <2>3. got' = [got EXCEPT ![w] = [index |-> 1, status |-> pays'[a][1].status]] BY <1>9, <2>1
  <2>4. Goto(w, p) /\ on' = on /\ at' = at BY <1>9
  <2> HIDE DEF p, last
  <2>5. ActorsOK' /\ Others(w) BY <1>1, <2>1, <2>2, <2>3, <2>4 DEF ActorsOK, Goto, Places, Others
  <2>6. pc'[w] = p /\ got'[w] = [index |-> 1, status |-> pays'[a][1].status] /\ on'[w] = a
    BY <1>1, <2>3, <2>4 DEF ActorsOK, Goto
  <2>7. ActorSound(w)'
    BY <1>2, <1>3, <2>1, <2>2, <2>4, <2>6 DEF ActorSound, Busy, Reading, db, mode
  <2> QED BY <1>7, <1>9, <2>5, <2>7
<1> QED BY <1>5, <1>8, <1>9 DEF CreatePayment
----------------------------------------------------------------------------
(* What the answer of a POST, or the payment read back, does to the rows. *)

LEMMA CreateFailedKeeps ==
  ASSUME BillingInv, NEW w \in Actors, CreateFailed(w) \/ CreateRejected(w)
  PROVE  BillingInv' /\ Onward
<1>1. ActorSound(w) /\ pc[w] \in {"lost", "rejected"} BY DEF BillingInv, CreateFailed, CreateRejected
<1>2. on[w] \in Attempts /\ at[w] \in Nat BY <1>1 DEF ActorSound, Busy
<1>3. Steady /\ UNCHANGED <<comp, live>> BY DEF CreateFailed, CreateRejected, Steady, mode, remote
<1>4. Committed BY <1>2, <1>3, FailCommits DEF CreateFailed, CreateRejected
<1> QED BY <1>1, <1>3, <1>4, FinishesAfter DEF CreateFailed, CreateRejected

\* A row whose POST was answered is bound to its payment.
LEMMA BindCommits ==
  ASSUME BillingInv, NEW a \in Attempts, Steady, pays[a] # <<>>, Open(a),
         NEW status \in {"pending", "manual_review"},
         attempt' = [attempt EXCEPT ![a].status = status, ![a].bound = 1],
         UNCHANGED <<contract, paid>>, LedgerOK', offer' \in Int
  PROVE  Committed
<1>1. RowsOK /\ ContractOK BY TypeParts DEF BillingInv
<1>2. attempt' = [attempt EXCEPT ![a] = [[attempt[a] EXCEPT !.status = status] EXCEPT !.bound = 1]]
  BY <1>1 DEF RowsOK
<1>3. [[attempt[a] EXCEPT !.status = status] EXCEPT !.bound = 1] \in Attempt
  <2>1. \A r \in Attempt : [r EXCEPT !.bound = 1] \in Attempt BY DEF Attempt
  <2>2. [attempt[a] EXCEPT !.status = status] \in Attempt
    BY <1>1 DEF RowsOK, Attempt, AttemptStatuses, OpenStatuses
  <2> QED BY <2>1, <2>2, Zenon
<1>4. RowsOK' BY <1>1, <1>2, <1>3 DEF RowsOK
<1>5. /\ attempt'[a].status = status /\ attempt'[a].bound = 1
      /\ attempt'[a].purpose = attempt[a].purpose /\ attempt'[a].discount = attempt[a].discount
      /\ attempt'[a].start = attempt[a].start /\ attempt'[a].created = attempt[a].created
      /\ attempt'[a].started = attempt[a].started
      /\ \A b \in Attempts : b # a => attempt'[b] = attempt[b]
  BY <1>1, <1>2 DEF RowsOK, Attempt
<1>6. Lives BY <1>5 DEF Lives, Open, OpenStatuses
<1>7. Calm BY DEF Calm
<1>8. DiscountSound' BY <1>6, <1>7, DiscountKept DEF BillingInv
<1>9. ASSUME NEW b \in Attempts PROVE RowSound(b)'
  <2>1. RowSound(b) BY DEF BillingInv
  <2>2. CASE b # a BY <1>5, <2>1, <2>2 DEF RowSound, Renewal, Steady
  <2>3. CASE b = a
    <3>1. Len(pays'[a]) = 1 BY OnePayment DEF Steady
    <3>2. attempt[a].status # "unused" BY DEF Open, OpenStatuses
    <3> QED BY <1>5, <2>1, <2>3, <3>1, <3>2 DEF RowSound, Renewal, Steady, OpenStatuses
  <2> QED BY <2>2, <2>3
<1>10. ContractOK' BY <1>1 DEF ContractOK, Carded
<1>11. Tame BY <1>5 DEF Tame, Unpaid, Running
<1> QED BY <1>4, <1>6, <1>8, <1>9, <1>10, <1>11 DEF Committed

LEMMA QuarantineKeeps ==
  ASSUME BillingInv, NEW w \in Actors, Quarantine(w)
  PROVE  BillingInv' /\ Onward
<1> DEFINE a == on[w]
<1>1. ActorSound(w) /\ pc[w] = "suspect" BY DEF BillingInv, Quarantine
<1>2. a \in Attempts /\ pays[a] # <<>> /\ got[w].index = 1 BY <1>1 DEF ActorSound, Busy, Reading
<1>3. Steady /\ UNCHANGED <<comp, live, contract, offer, receipts, paid>>
  BY DEF Quarantine, Steady, mode, remote
<1>4. LedgerOK' /\ offer' \in Int BY <1>3, TypeParts DEF BillingInv, LedgerOK, ModeOK
<1>5. CASE attempt' = attempt
  <2>1. Committed BY <1>3, <1>4, <1>5, NothingCommitted
  <2> QED BY <1>1, <1>3, <2>1, FinishesAfter DEF Quarantine
<1>6. CASE /\ Open(a)
           /\ attempt' = [attempt EXCEPT ![a].status = "manual_review", ![a].bound = 1]
  <2>1. Committed BY <1>2, <1>3, <1>4, <1>6, BindCommits
  <2> QED BY <1>1, <1>3, <2>1, FinishesAfter DEF Quarantine
<1> QED BY <1>2, <1>5, <1>6 DEF Quarantine, Open, OpenStatuses

LEMMA AttachPaymentKeeps ==
  ASSUME BillingInv, NEW w \in Actors, AttachPayment(w)
  PROVE  BillingInv' /\ Onward
<1> DEFINE a == on[w]
<1>1. ActorSound(w) /\ pc[w] = "attach" /\ ActorsOK BY TypeParts DEF BillingInv, AttachPayment
<1>2. /\ a \in Attempts /\ attempt[a].status # "unused" /\ pays[a] # <<>> /\ got[w].index = 1
      /\ got[w].status \in {"pending", pays[a][1].status}
      /\ at[w] \in Nat /\ at[w] <= now /\ now <= at[w] + mix.lag
  BY <1>1 DEF ActorSound, Busy, Reading
<1>3. Steady /\ UNCHANGED <<comp, live>> BY DEF AttachPayment, Steady, mode, remote
<1>4. CASE Done(w) /\ (FailForReview(a, at[w]) \/ UNCHANGED db)
  <2>1. Committed BY <1>2, <1>3, <1>4, FailCommits
  <2> QED BY <1>1, <1>3, <1>4, <2>1, FinishesAfter
<1>5. CASE /\ \/ attempt' = attempt
              \/ /\ attempt[a].status \in {"prepared", "pending"}
                 /\ attempt' = [attempt EXCEPT ![a].status = "pending", ![a].bound = 1]
           /\ Done(w) \/ \E p \in {"notify", "check"} : Goto(w, p) /\ Stay(w)
           /\ UNCHANGED <<contract, offer, receipts, paid>>
  <2>1. LedgerOK' /\ offer' \in Int BY <1>5, TypeParts DEF BillingInv, LedgerOK, ModeOK
  <2>2. Committed
    BY <1>2, <1>3, <1>5, <2>1, NothingCommitted, BindCommits DEF Open, OpenStatuses
  <2>3. CASE Done(w) BY <1>1, <1>3, <2>2, <2>3, FinishesAfter
  <2>4. CASE \E p \in {"notify", "check"} : Goto(w, p) /\ Stay(w)
    <3>1. PICK p \in {"notify", "check"} : Goto(w, p) /\ Stay(w) BY <2>4
    <3>2. /\ ActorsOK' /\ Others(w) /\ pc'[w] = p
          /\ on'[w] = on[w] /\ got'[w] = got[w] /\ at'[w] = at[w]
      BY <1>1, <3>1, GotoStays DEF Places
    <3>3. attempt'[a].status # "unused" BY <1>2, <2>2 DEF Committed, Lives
    <3>4. ActorSound(w)' BY <1>2, <1>3, <3>2, <3>3 DEF ActorSound, Busy, Reading, Steady
    <3> QED BY <1>3, <2>2, <3>2, <3>4, ActorStep
  <2> QED BY <1>5, <2>3, <2>4
<1> QED BY <1>2, <1>4, <1>5 DEF AttachPayment

LEMMA CheckStatusKeeps ==
  ASSUME BillingInv, NEW w \in Actors, CheckStatus(w)
  PROVE  BillingInv' /\ Onward
<1> DEFINE a == on[w]  i == attempt[a].bound
<1>1. ActorSound(w) /\ pc[w] = "check" /\ ActorsOK BY TypeParts DEF BillingInv, CheckStatus
<1>2. /\ a \in Attempts /\ attempt[a].status # "unused"
      /\ at[w] \in Nat /\ at[w] <= now /\ now <= at[w] + mix.lag
  BY <1>1 DEF ActorSound, Busy
<1>3. Steady /\ UNCHANGED <<comp, live>> BY DEF CheckStatus, Steady, mode, remote
<1>4. CASE Done(w) /\ (FailForReview(a, at[w]) \/ UNCHANGED db)
  <2>1. Committed BY <1>2, <1>3, <1>4, FailCommits
  <2> QED BY <1>1, <1>3, <1>4, <2>1, FinishesAfter
<1>5. CASE /\ UNCHANGED db /\ i \in DOMAIN pays[a] /\ Goto(w, "observe")
           /\ got' = [got EXCEPT ![w] = [index |-> i, status |-> pays[a][i].status]]
           /\ UNCHANGED <<on, at>>
  <2>1. i = 1 /\ pays[a] # <<>> /\ pays[a][1].status \in PaymentStatuses
    BY <1>2, <1>5, OnePayment DEF Payment
  <2>2. got' = [got EXCEPT ![w] = [index |-> 1, status |-> pays[a][1].status]] BY <1>5, <2>1
  <2>3. ActorsOK' /\ Others(w) BY <1>1, <1>5, <2>1, <2>2 DEF ActorsOK, Goto, Places, Others
  <2>4. /\ pc'[w] = "observe" /\ got'[w] = [index |-> 1, status |-> pays[a][1].status]
        /\ on'[w] = a /\ at'[w] = at[w]
    BY <1>1, <1>5, <2>2 DEF ActorsOK, Goto
  <2>5. ActorSound(w)' BY <1>2, <1>3, <1>5, <2>1, <2>4 DEF ActorSound, Busy, Reading, Steady, db
  <2> QED BY <1>5, <2>3, <2>5, QuietActor DEF CheckStatus
<1> QED BY <1>4, <1>5 DEF CheckStatus

\* What a paid attempt leaves of the contract.
LEMMA ActivatedContract ==
  ASSUME BillingInv, NEW a \in Attempts, NEW saved \in BOOLEAN, NEW end \in Int,
         contract' = Activated(a, saved, end)
  PROVE  /\ ContractOK' /\ contract'.used = contract.used /\ ~contract'.discount
         /\ contract'.end = end /\ contract'.status = "active"
         /\ contract'.next = end /\ contract'.grace = Never
<1>1. ContractOK /\ Never \in Int BY TypeParts DEF BillingInv, Never
<1>2. CASE attempt[a].purpose = "checkout"
  <2>1. contract' = [contract EXCEPT !.status = "active", !.end = end, !.method = saved, !.cancel = ~saved,
                        !.next = end, !.grace = Never, !.discount = FALSE, !.trials = 0]
    BY <1>2 DEF Activated
  <2>2. saved \in BOOLEAN /\ (~saved) \in BOOLEAN /\ FALSE \in BOOLEAN /\ 0 \in Nat OBVIOUS
  <2> DEFINE half == [contract EXCEPT !.status = "active", !.end = end, !.method = saved, !.cancel = ~saved]
  <2>7. half \in Contract
    <3>1. "active" \in {"none", "active", "past_due", "ended"} OBVIOUS
    <3>2. [contract EXCEPT !.status = "active", !.end = end] \in Contract
      BY <1>1, <3>1, ContractFields, Zenon DEF ContractOK
    <3> QED BY <2>2, <3>2, ContractFields, Zenon
  <2> DEFINE most == [half EXCEPT !.next = end, !.grace = Never]
  <2>8. contract' = [most EXCEPT !.discount = FALSE, !.trials = 0] BY <2>1
  <2>9. most \in Contract
    <3> HIDE DEF half
    <3> QED BY <1>1, <2>7, ContractFields, Zenon
  <2>3. contract' \in Contract
    <3>1. \A d \in Contract : [d EXCEPT !.trials = 0] \in Contract BY DEF Contract
    <3>2. \A d \in Contract : [d EXCEPT !.discount = FALSE] \in Contract BY DEF Contract
    <3> HIDE DEF most
    <3> QED BY <2>8, <2>9, <3>1, <3>2, Zenon
  <2>4. Carded' BY <1>1, <2>1 DEF ContractOK, Contract, Carded
  <2>5. /\ contract'.used = contract.used /\ contract'.discount = FALSE
        /\ contract'.end = end /\ contract'.status = "active"
        /\ contract'.next = end /\ contract'.grace = Never
    BY <1>1, <2>1 DEF ContractOK, Contract
  <2> QED BY <2>3, <2>4, <2>5 DEF ContractOK
<1>3. CASE attempt[a].purpose # "checkout"
  <2> DEFINE kept == saved /\ ~(contract.cancel /\ ~contract.method)
             stop == contract.cancel \/ ~saved
  <2>1. contract' = [contract EXCEPT !.status = "active", !.end = end, !.method = kept,
                        !.cancel = stop, !.next = end, !.grace = Never, !.discount = FALSE, !.trials = 0]
    BY <1>3 DEF Activated
  <2>2. kept \in BOOLEAN /\ stop \in BOOLEAN /\ FALSE \in BOOLEAN /\ 0 \in Nat OBVIOUS
  <2>6. kept \/ stop BY <1>1 DEF ContractOK, Contract
  <2> HIDE DEF kept, stop
  <2> DEFINE half == [contract EXCEPT !.status = "active", !.end = end, !.method = kept, !.cancel = stop]
  <2>7. half \in Contract
    <3>1. "active" \in {"none", "active", "past_due", "ended"} OBVIOUS
    <3>2. [contract EXCEPT !.status = "active", !.end = end] \in Contract
      BY <1>1, <3>1, ContractFields, Zenon DEF ContractOK
    <3> QED BY <2>2, <3>2, ContractFields, Zenon
  <2> DEFINE most == [half EXCEPT !.next = end, !.grace = Never]
  <2>8. contract' = [most EXCEPT !.discount = FALSE, !.trials = 0] BY <2>1
  <2>9. most \in Contract
    <3> HIDE DEF half
    <3> QED BY <1>1, <2>7, ContractFields, Zenon
  <2>3. contract' \in Contract
    <3>1. \A d \in Contract : [d EXCEPT !.trials = 0] \in Contract BY DEF Contract
    <3>2. \A d \in Contract : [d EXCEPT !.discount = FALSE] \in Contract BY DEF Contract
    <3> HIDE DEF most
    <3> QED BY <2>8, <2>9, <3>1, <3>2, Zenon
  <2>4. Carded' BY <1>1, <2>1, <2>6 DEF ContractOK, Contract, Carded
  <2>5. /\ contract'.used = contract.used /\ contract'.discount = FALSE
        /\ contract'.end = end /\ contract'.status = "active"
        /\ contract'.next = end /\ contract'.grace = Never
    BY <1>1, <2>1 DEF ContractOK, Contract
  <2> QED BY <2>3, <2>4, <2>5 DEF ContractOK
<1> QED BY <1>2, <1>3

\* What a declined or revoked attempt leaves of the contract.
LEMMA CanceledContract ==
  ASSUME BillingInv, NEW a \in Attempts, NEW time \in Nat, StillCurrent(a),
         \/ contract' = [contract EXCEPT !.method = FALSE, !.cancel = TRUE,
                    !.next = contract.end, !.grace = Never, !.discount = FALSE,
                    !.trials = AtLeast(contract.trials, attempt[a].number)]
         \/ contract' = [contract EXCEPT !.status = "past_due",
                    !.trials = attempt[a].number, !.next = time + Retry,
                    !.grace = IF contract.grace # Never THEN contract.grace ELSE time + mix.grace]
  PROVE  /\ ContractOK' /\ contract'.used = contract.used /\ (contract'.discount => contract.discount)
         /\ contract'.end = contract.end /\ contract'.status \in {"active", "past_due"}
<1>1. /\ ContractOK /\ RowsOK /\ Never \in Int /\ Retry \in Nat /\ mix.grace \in Nat
  BY TypeParts, MixFacts, DurationAssumption DEF BillingInv, Never
<1> DEFINE g == IF contract.grace # Never THEN contract.grace ELSE time + mix.grace
           t == AtLeast(contract.trials, attempt[a].number)
           n == time + Retry
<1>2. /\ g \in Int /\ t \in Nat /\ n \in Int /\ attempt[a].number \in Nat /\ contract.end \in Int
      /\ Carded /\ contract \in Contract /\ contract.status \in {"active", "past_due"}
  BY <1>1 DEF ContractOK, Contract, RowsOK, Attempt, AtLeast, StillCurrent, Running
<1>3. CASE contract' = [contract EXCEPT !.method = FALSE, !.cancel = TRUE,
                    !.next = contract.end, !.grace = Never, !.discount = FALSE, !.trials = t]
  <2> DEFINE half == [contract EXCEPT !.method = FALSE, !.cancel = TRUE, !.next = contract.end]
  <2>1. half \in Contract BY <1>2, ContractFields, Zenon
  <2>2. contract' = [half EXCEPT !.grace = Never, !.discount = FALSE, !.trials = t] BY <1>3
  <2>3. contract' \in Contract
    <3> HIDE DEF half, t
    <3> QED BY <1>1, <1>2, <2>1, <2>2, ContractFields, Zenon
  <2>4. /\ contract'.cancel /\ contract'.used = contract.used /\ contract'.discount = FALSE
        /\ contract'.end = contract.end /\ contract'.status = contract.status
    <3> HIDE DEF t
    <3> QED BY <1>2, <1>3 DEF Contract
  <2> QED BY <1>2, <2>3, <2>4 DEF ContractOK, Carded
<1>4. CASE contract' = [contract EXCEPT !.status = "past_due", !.trials = attempt[a].number,
                    !.next = n, !.grace = g]
  <2> DEFINE half == [contract EXCEPT !.status = "past_due", !.trials = attempt[a].number]
  <2>1. half \in Contract
    <3>1. "past_due" \in {"none", "active", "past_due", "ended"} OBVIOUS
    <3> QED BY <1>2, <3>1, ContractFields, Zenon
  <2>2. contract' = [half EXCEPT !.next = n, !.grace = g] BY <1>4
  <2>3. contract' \in Contract
    <3> HIDE DEF half, n, g
    <3> QED BY <1>2, <2>1, <2>2, ContractFields, Zenon
  <2>4. /\ contract'.cancel = contract.cancel /\ contract'.method = contract.method
        /\ contract'.used = contract.used /\ contract'.discount = contract.discount
        /\ contract'.end = contract.end /\ contract'.status = "past_due"
    <3> HIDE DEF n, g
    <3> QED BY <1>2, <1>4 DEF Contract
  <2> QED BY <1>2, <2>3, <2>4 DEF ContractOK, Carded
<1> QED BY <1>3, <1>4

\* A payment read back settles the row it is bound to.
LEMMA SettlementCommits ==
  ASSUME BillingInv, NEW w \in Actors, pc[w] \in {"notify", "observe"}, Settlement(w), Steady
  PROVE  /\ Committed
         /\ contract' = contract \/ (Open(on[w]) /\ pays[on[w]] # <<>>)
<1> DEFINE a == on[w]
           payment == got[w]
           rows == IF attempt[a].bound # 0 THEN attempt
                   ELSE [attempt EXCEPT ![a].bound = payment.index,
                                        ![a].status = IF @ = "prepared" THEN "pending" ELSE @]
<1>1. /\ ActorSound(w) /\ ActorsOK /\ RowsOK /\ RemoteOK /\ ContractOK /\ LedgerOK /\ offer \in Int
  BY TypeParts DEF BillingInv, ModeOK
<1>2. /\ a \in Attempts /\ attempt[a].status # "unused" /\ pays[a] # <<>> /\ payment.index = 1
      /\ payment.status \in {"pending", pays[a][1].status}
      /\ at[w] \in Nat
  BY <1>1 DEF ActorSound, Busy, Reading
<1>3. RowSound(a) /\ pays[a][1] \in Payment /\ Len(pays[a]) = 1 BY <1>2, OnePayment DEF BillingInv
<1>4. /\ attempt[a].status \in OpenStatuses \cup {"succeeded", "canceled"}
      /\ attempt[a].bound \in {0, 1} /\ attempt[a].bound \in Nat
  <2>1. attempt[a].bound \in Nat /\ attempt[a].bound <= 1 BY <1>1, <1>2, <1>3 DEF RowSound, RowsOK, Attempt
  <2> QED BY <1>2, <1>3, <2>1 DEF RowSound
<1>5. LedgerOK' \/ paid' # paid
  <2>1. receipts' = receipts \/ \E failed \in BOOLEAN : receipts' = receipts \cup {Receipt(a, payment, failed)}
    BY DEF Settlement
  <2>2. \A failed \in BOOLEAN : Receipt(a, payment, failed) \in
          [of : Attempts, index : Nat, status : PaymentStatuses, failed : BOOLEAN]
    BY <1>1, <1>2 DEF Receipt, ActorsOK
  <2> QED BY <1>1, <2>1, <2>2 DEF LedgerOK
\* The row with its payment bound.
<1>6. /\ rows \in [Attempts -> Attempt] /\ rows[a].bound = 1
      /\ \A b \in Attempts : b # a => rows[b] = attempt[b]
      /\ rows[a].purpose = attempt[a].purpose /\ rows[a].discount = attempt[a].discount
      /\ rows[a].start = attempt[a].start /\ rows[a].created = attempt[a].created
      /\ rows[a].started = attempt[a].started
      /\ \/ rows[a].status = attempt[a].status
         \/ rows[a].status = "pending" /\ attempt[a].status = "prepared"
  <2>1. CASE attempt[a].bound # 0
    <3>1. rows = attempt /\ attempt[a].bound = 1 BY <1>4, <2>1
    <3> HIDE DEF rows
    <3> QED BY <1>1, <3>1 DEF RowsOK
  <2>2. CASE attempt[a].bound = 0
    <3> DEFINE status == IF attempt[a].status = "prepared" THEN "pending" ELSE attempt[a].status
    <3>1. rows = [attempt EXCEPT ![a] = [[attempt[a] EXCEPT !.bound = 1] EXCEPT !.status = status]]
      BY <1>1, <1>2, <2>2 DEF RowsOK, Attempt
    <3>2. [[attempt[a] EXCEPT !.bound = 1] EXCEPT !.status = status] \in Attempt
      <4>1. [attempt[a] EXCEPT !.bound = 1] \in Attempt BY <1>1, <1>2 DEF RowsOK, Attempt
      <4>2. status \in AttemptStatuses
        BY <1>1, <1>2 DEF RowsOK, Attempt, AttemptStatuses, OpenStatuses
      <4>3. \A r \in Attempt : \A v \in AttemptStatuses : [r EXCEPT !.status = v] \in Attempt
        BY DEF Attempt
      <4> QED BY <4>1, <4>2, <4>3, Zenon
    <3>3. \/ status = attempt[a].status
          \/ status = "pending" /\ attempt[a].status = "prepared"
      OBVIOUS
    <3> HIDE DEF rows, status
    <3>4. rows \in [Attempts -> Attempt] /\ \A b \in Attempts : b # a => rows[b] = attempt[b]
      BY <1>1, <3>1, <3>2 DEF RowsOK
    <3>5. rows[a] = [[attempt[a] EXCEPT !.bound = 1] EXCEPT !.status = status]
      BY <1>1, <1>2, <3>1 DEF RowsOK
    <3> QED BY <1>1, <1>2, <3>3, <3>4, <3>5 DEF RowsOK, Attempt
  <2> QED BY <2>1, <2>2
<1> HIDE DEF rows
\* The row changes its status, and nothing else of what it was made for.
<1>7. ASSUME NEW status \in AttemptStatuses \ {"unused"},
             attempt' = [rows EXCEPT ![a].status = status],
             Open(a) \/ status = attempt[a].status,
             status = "succeeded" => pays[a][1].status \in Charged,
             status = "canceled" => pays[a][1].status \in Stopped,
             status # "failed"
      PROVE  /\ RowsOK' /\ Lives /\ \A b \in Attempts : RowSound(b)'
             /\ \A b \in Attempts : b # a => attempt'[b] = attempt[b]
             /\ attempt'[a].status = status
  <2>1. attempt' = [rows EXCEPT ![a] = [rows[a] EXCEPT !.status = status]] BY <1>2, <1>6, <1>7, SMTT(30)
  <2>2. [rows[a] EXCEPT !.status = status] \in Attempt BY <1>2, <1>6, <1>7 DEF Attempt
  <2>3. /\ attempt' \in [Attempts -> Attempt] /\ attempt'[a].status = status /\ attempt'[a].bound = 1
        /\ attempt'[a].purpose = attempt[a].purpose /\ attempt'[a].discount = attempt[a].discount
        /\ attempt'[a].start = attempt[a].start /\ attempt'[a].created = attempt[a].created
        /\ attempt'[a].started = attempt[a].started
        /\ \A b \in Attempts : b # a => attempt'[b] = attempt[b]
    BY <1>2, <1>6, <2>1, <2>2 DEF Attempt
  <2>4. Lives BY <1>2, <1>7, <2>3 DEF Lives, Open, OpenStatuses
  <2>5. ASSUME NEW b \in Attempts PROVE RowSound(b)'
    <3>1. RowSound(b) BY DEF BillingInv
    <3>2. CASE b # a BY <2>3, <3>1, <3>2 DEF RowSound, Renewal, Steady
    <3>3. CASE b = a
      <4>1. status \in OpenStatuses \cup {"succeeded", "canceled"} BY <1>7 DEF AttemptStatuses
      <4>2. pays' = pays /\ posted' = posted /\ now' = now BY DEF Steady
      <4> QED BY <1>2, <1>3, <1>7, <2>3, <3>3, <4>1, <4>2 DEF RowSound, Renewal
    <3> QED BY <3>2, <3>3
  <2> QED BY <2>3, <2>4, <2>5 DEF RowsOK
<1>8. CASE UNCHANGED <<contract, attempt, offer, paid>>
  <2>1. Calm /\ LedgerOK' BY <1>5, <1>8 DEF Calm
  <2>2. now' \in Nat /\ now' >= now BY TypeParts DEF BillingInv, ModeOK, Steady
  <2>3. Lives /\ DiscountSound' /\ \A b \in Attempts : RowSound(b)' BY <1>8, <2>1, <2>2, QuietStep DEF Steady
  <2>4. Tame BY <1>8 DEF Tame, Unpaid, Running
  <2>20. Committed BY <1>1, <1>8, <2>1, <2>3, <2>4 DEF Committed, ContractOK, Carded, RowsOK
  <2> QED BY <1>8, <2>20
<1>9. CASE /\ payment.status \in Charged /\ rows[a].status # "succeeded"
           /\ attempt' = [rows EXCEPT ![a].status = "manual_review"] /\ UNCHANGED <<contract, offer, paid>>
  <2>1. payment.status = pays[a][1].status BY <1>2, <1>9 DEF Charged
  <2>2. Open(a)
    BY <1>3, <1>4, <1>6, <1>9, <2>1 DEF RowSound, Open, Charged, Stopped, OpenStatuses
  <2>3. "manual_review" \in AttemptStatuses \ {"unused"} BY DEF AttemptStatuses, OpenStatuses
  <2>4. RowsOK' /\ Lives /\ \A b \in Attempts : RowSound(b)' BY <1>7, <1>9, <2>2, <2>3
  <2>5. Calm BY <1>9 DEF Calm
  <2>6. DiscountSound' BY <2>4, <2>5, DiscountKept DEF BillingInv
  <2>8. attempt'[a].status = "manual_review" /\ \A b \in Attempts : b # a => attempt'[b] = attempt[b]
    BY <1>7, <1>9, <2>2, <2>3
  <2>7. Tame BY <1>9, <2>8 DEF Tame, Unpaid, Running
  <2>20. Committed BY <1>1, <1>5, <1>9, <2>4, <2>6, <2>7 DEF Committed, ContractOK, Carded
  <2> QED BY <1>9, <2>20
<1>10. CASE /\ payment.status \in Charged /\ rows[a].status # "succeeded"
            /\ attempt[a].purpose = "renewal" => StillCurrent(a)
            /\ Activate(a, rows, pays[a][payment.index], payment.status = "succeeded")
  <2> DEFINE start == IF attempt[a].purpose = "renewal" THEN attempt[a].start ELSE pays[a][1].at
             period == [by |-> a, start |-> start, end |-> start + mix.month,
                        discount |-> attempt[a].discount]
  <2>1. payment.status = pays[a][1].status BY <1>2, <1>10 DEF Charged
  <2>2. Open(a)
    BY <1>3, <1>4, <1>6, <1>10, <2>1 DEF RowSound, Open, Charged, Stopped, OpenStatuses
  <2>3. start \in Int /\ start + mix.month \in Int
    BY <1>1, <1>2, <1>3, MixFacts, SMTT(30) DEF RowsOK, Attempt, Payment, BillingInv
  <2>4. /\ paid' = paid \cup {period} /\ offer' = offer
        /\ contract' = Activated(a, payment.status = "succeeded", start + mix.month)
        /\ attempt' = [rows EXCEPT ![a].status = "succeeded"]
    BY <1>2, <1>10 DEF Activate
  <2>5. "succeeded" \in AttemptStatuses \ {"unused"} /\ "succeeded" \notin OpenStatuses
    BY DEF AttemptStatuses, OpenStatuses
  <2>6. /\ RowsOK' /\ Lives /\ \A b \in Attempts : RowSound(b)'
        /\ \A b \in Attempts : b # a => attempt'[b] = attempt[b]
        /\ attempt'[a].status = "succeeded"
    BY <1>7, <1>10, <2>1, <2>2, <2>4, <2>5
  <2>7. /\ ContractOK' /\ contract'.used = contract.used /\ ~contract'.discount
        /\ contract'.end = start + mix.month /\ contract'.status = "active"
        /\ contract'.next = contract'.end /\ contract'.grace = Never
    <3>1. (payment.status = "succeeded") \in BOOLEAN OBVIOUS
    <3> QED BY <1>2, <2>3, <2>4, <3>1, ActivatedContract, Zenon
  <2>8. LedgerOK'
    <3>1. period \in [by : Attempts, start : Int, end : Int, discount : BOOLEAN]
      BY <1>1, <1>2, <2>3 DEF RowsOK, Attempt
    <3>2. receipts' = receipts \/ \E failed \in BOOLEAN : receipts' = receipts \cup {Receipt(a, payment, failed)}
      BY DEF Settlement
    <3>3. \A failed \in BOOLEAN : Receipt(a, payment, failed) \in
            [of : Attempts, index : Nat, status : PaymentStatuses, failed : BOOLEAN]
      BY <1>1, <1>2 DEF Receipt, ActorsOK
    <3> HIDE DEF period
    <3> QED BY <1>1, <2>4, <3>1, <3>2, <3>3 DEF LedgerOK
  <2>9. DiscountSound'
    <3>1. DiscountSound BY DEF BillingInv
    <3>2. \A b \in Attempts : attempt'[b].discount => Renewal(b)' /\ contract'.used
      BY <2>6, <2>7, <3>1 DEF DiscountSound, Lives, Renewal
    <3>3. \A b \in Attempts : Open(b)' => b # a /\ Open(b) BY <2>5, <2>6 DEF Open, Lives
    <3>4. ASSUME attempt[a].discount
          PROVE  /\ \A b \in Attempts : Open(b)' => ~attempt'[b].discount
                 /\ \A q \in paid : ~q.discount
                 /\ contract.used
      <4>1. Renewal(a) /\ contract.used BY <1>2, <3>1, <3>4 DEF DiscountSound
      <4>2. \A q \in paid : ~q.discount BY <1>2, <2>2, <3>1, <3>4 DEF DiscountSound
      <4>3. ASSUME NEW b \in Attempts, Open(b)' PROVE ~attempt'[b].discount
        <5>1. b # a /\ Open(b) BY <3>3, <4>3
        <5>2. ~Renewal(b) BY <1>2, <2>2, <4>1, <5>1 DEF BillingInv, OneOpenRenewal
        <5> QED BY <2>6, <3>1, <5>1, <5>2 DEF DiscountSound
      <4> QED BY <4>1, <4>2, <4>3
    <3>5. period.discount = attempt[a].discount OBVIOUS
    <3>6. ASSUME NEW p \in paid', p.discount
          PROVE  /\ contract'.used /\ ~contract'.discount
                 /\ \A b \in Attempts : Open(b)' => ~attempt'[b].discount
                 /\ \A q \in paid' : q.discount => p = q
      <4> HIDE DEF period
      <4>1. CASE p = period
        BY <2>4, <2>7, <3>4, <3>5, <3>6, <4>1
      <4>2. CASE p \in paid
        <5>1. \A b \in Attempts : Open(b) => ~attempt[b].discount BY <3>1, <3>6, <4>2 DEF DiscountSound
        <5>2. ~attempt[a].discount BY <1>2, <2>2, <5>1
        <5>3. \A q \in paid : q.discount => p = q BY <3>1, <3>6, <4>2 DEF DiscountSound
        <5>4. contract.used BY <3>1, <3>6, <4>2 DEF DiscountSound
        <5> QED BY <2>4, <2>6, <2>7, <3>3, <3>5, <5>1, <5>2, <5>3, <5>4
      <4> QED BY <2>4, <3>6, <4>1, <4>2
    <3> QED BY <2>7, <3>2, <3>6 DEF DiscountSound
  <2>10. Renewed
    <3>1. IF Renewal(a) THEN Running /\ contract.end = start /\ start = attempt[a].start
                        ELSE start = pays[a][1].at
      BY <1>10 DEF Renewal, StillCurrent
    <3>2. paid' = paid \cup {[by |-> a, start |-> start, end |-> start + mix.month,
                             discount |-> attempt[a].discount]}
      BY <2>4
    <3>3. \A b \in Attempts : b # a => attempt'[b].status = attempt[b].status BY <2>6
    <3> HIDE DEF start, period, a
    <3> QED BY <1>2, <2>2, <2>3, <2>6, <2>7, <3>1, <3>2, <3>3 DEF Renewed
  <2> QED BY <1>1, <1>2, <2>2, <2>4, <2>6, <2>7, <2>8, <2>9, <2>10 DEF Committed
<1>11. CASE /\ payment.status \in Stopped /\ rows[a].status \notin {"canceled", "succeeded"}
            /\ CancelAttempt(a, rows, payment.status = "revoked", at[w])
  <2>1. payment.status = pays[a][1].status BY <1>2, <1>11 DEF Stopped
  <2>2. "canceled" \in AttemptStatuses \ {"unused"} /\ "canceled" \notin OpenStatuses
    BY DEF AttemptStatuses, OpenStatuses
  <2>7. Open(a) BY <1>4, <1>6, <1>11 DEF Open, OpenStatuses
  <2>3. RowsOK' /\ Lives /\ \A b \in Attempts : RowSound(b)'
    BY <1>7, <1>11, <2>1, <2>2, <2>7 DEF CancelAttempt
  <2>8. Unpaid BY <1>7, <1>11, <2>1, <2>2, <2>7 DEF Unpaid, CancelAttempt
  <2>4. ContractOK' /\ Calm /\ Tame
    <3>1. paid' = paid BY <1>11 DEF CancelAttempt
    <3>2. CASE contract' = contract BY <1>1, <2>8, <3>1, <3>2 DEF ContractOK, Carded, Calm, Tame, Running
    <3>3. CASE contract' # contract
      BY <1>2, <1>11, <2>8, <3>1, <3>3, CanceledContract DEF CancelAttempt, Calm, Tame, StillCurrent, Running
    <3> QED BY <3>2, <3>3
  <2>5. DiscountSound' BY <2>3, <2>4, DiscountKept DEF BillingInv
  <2>6. offer' \in Int BY <1>1, <1>11 DEF CancelAttempt, Never
  <2> QED BY <1>2, <1>5, <2>3, <2>4, <2>5, <2>6, <2>7 DEF Committed, Calm
<1>12. CASE attempt' = rows /\ UNCHANGED <<contract, offer, paid>>
  <2>1. rows = [rows EXCEPT ![a].status = rows[a].status]
    BY <1>2, <1>6 DEF Attempt
  <2>2. /\ rows[a].status \in AttemptStatuses \ {"unused"} /\ rows[a].status # "failed"
        /\ Open(a) \/ rows[a].status = attempt[a].status
        /\ rows[a].status = "succeeded" => pays[a][1].status \in Charged
        /\ rows[a].status = "canceled" => pays[a][1].status \in Stopped
    BY <1>3, <1>4, <1>6 DEF AttemptStatuses, OpenStatuses, Open, RowSound
  <2>3. RowsOK' /\ Lives /\ \A b \in Attempts : RowSound(b)' BY <1>7, <1>12, <2>1, <2>2
  <2>4. Calm BY <1>12 DEF Calm
  <2>5. DiscountSound' BY <2>3, <2>4, DiscountKept DEF BillingInv
  <2>7. Unpaid BY <1>6, <1>12 DEF Unpaid
  <2>6. Tame BY <1>12, <2>7 DEF Tame, Running
  <2>20. Committed BY <1>1, <1>5, <1>12, <2>3, <2>5, <2>6 DEF Committed, ContractOK, Carded
  <2> QED BY <1>12, <2>20
<1>13. /\ rows[a].bound = payment.index
       /\ rows = IF attempt[a].bound # 0 THEN attempt
                   ELSE [attempt EXCEPT ![a].bound = payment.index,
                                        ![a].status = IF @ = "prepared" THEN "pending" ELSE @]
  BY <1>2, <1>6 DEF rows
<1> QED BY <1>8, <1>9, <1>10, <1>11, <1>12, <1>13 DEF Settlement

LEMMA ReconcileKeeps ==
  ASSUME BillingInv, NEW w \in Actors, Reconcile(w)
  PROVE  BillingInv' /\ Onward
<1>1. ActorSound(w) /\ pc[w] \in {"notify", "observe"} BY DEF BillingInv, Reconcile
<1>2. on[w] \in Attempts /\ attempt[on[w]].status # "unused" BY <1>1 DEF ActorSound, Busy
<1>3. Steady /\ UNCHANGED <<comp, live>> BY DEF Reconcile, Steady, mode, remote
<1>4. Committed
  <2>1. CASE UNCHANGED db
    <3>1. offer' \in Int BY <2>1, TypeParts DEF BillingInv, ModeOK, db
    <3> QED BY <1>3, <2>1, <3>1, NothingCommitted DEF db
  <2>2. CASE Settlement(w) BY <1>1, <1>3, <2>2, SettlementCommits
  <2> QED BY <2>1, <2>2 DEF Reconcile
<1>5. CASE Done(w) BY <1>1, <1>3, <1>4, <1>5, FinishesAfter
<1>6. CASE Goto(w, "rejected") /\ Stay(w)
  <2>1. "rejected" \in Places \ ({"idle", "post"} \cup Reading) BY DEF Places, Reading
  <2> QED BY <1>1, <1>2, <1>3, <1>4, <1>6, <2>1, GoesOn
<1> QED BY <1>5, <1>6 DEF Reconcile
----------------------------------------------------------------------------
(* Theorems. *)

LEMMA NextKeeps ==
  ASSUME BillingInv, [Next]_vars
  PROVE  BillingInv' /\ Onward
<1>1. ASSUME NEW w \in Actors, WorkerStep(w) PROVE BillingInv' /\ Onward
  BY <1>1, BeginProviderCreateKeeps, CreatePaymentKeeps, CreateFailedKeeps, QuarantineKeeps,
     AttachPaymentKeeps, CheckStatusKeeps, ReconcileKeeps DEF WorkerStep
<1>2. ASSUME NEW w \in Actors, Abandon(w) PROVE BillingInv' /\ Onward BY <1>2, AbandonKeeps
<1>3. ASSUME NEW s \in Schedulers, SchedulerStep(s) PROVE BillingInv' /\ Onward
  BY <1>3, StartCycleKeeps, LifecycleOnlyKeeps, SkipLifecycleKeeps, EndCycleKeeps,
     PrepareRenewalKeeps, PickAttemptKeeps DEF SchedulerStep
<1>4. ASSUME NEW h \in Handlers, HandlerStep(h) PROVE BillingInv' /\ Onward
  BY <1>4, CheckoutKeeps, WebhookKeeps DEF HandlerStep
<1>5. CASE OwnerStep
  BY <1>5, CancellationIntentKeeps, AcceptOfferKeeps, ConfirmCancellationKeeps,
     ResumeSubscriptionKeeps, DetachKeeps DEF OwnerStep
<1>6. CASE ProviderStep BY <1>6, SettlePaymentKeeps DEF ProviderStep
<1>7. CASE UNCHANGED vars
  <2>1. UNCHANGED <<db, mode, remote, now, pc, on, got, at>> BY <1>7 DEF vars, db, mode, remote
  <2>2. Steady /\ offer' \in Int BY <2>1, TypeParts DEF BillingInv, ModeOK, Steady, mode, remote, db
  <2>3. Committed BY <2>1, <2>2, NothingCommitted DEF db
  <2> QED BY <2>1, <2>2, <2>3, OwnerKeeps DEF mode
<1> QED BY <1>1, <1>2, <1>3, <1>4, <1>5, <1>6, <1>7, OperatorKeeps, TickKeeps DEF Next

\* In every reachable state the rows, the payments and the actors at work agree (BillingInv): the
\* statement every other theorem here rests on.
THEOREM BillingInvariant == Spec => []BillingInv
<1>1. Init => BillingInv BY InitBilling
<1>2. BillingInv /\ [Next]_vars => BillingInv' BY NextKeeps
<1> QED BY <1>1, <1>2, PTL DEF Spec

\* An attempt is charged at most once, however often and by whomever its POST is repeated
\* (BeginBillingProviderCreate against the lifetime of the provider's idempotency key).
THEOREM OneCharge == Spec => []OneChargePerAttempt
<1>1. BillingInv => OneChargePerAttempt BY DEF BillingInv, RowSound, OneChargePerAttempt
<1> QED BY <1>1, BillingInvariant, PTL

\* A contract that runs without a card is canceled, every value has its type, and the retention
\* discount is granted once in the life of the contract (AcceptBillingRetentionOffer,
\* activateBillingAttempt).
THEOREM SoundContract == Spec => []ContractSound
<1>1. ASSUME BillingInv PROVE RetentionOnce
  <2> DEFINE D == {p \in paid : p.discount}
  <2>1. CASE D = {} BY <2>1, FS_EmptySet DEF RetentionOnce
  <2>2. CASE D # {}
    <3>1. PICK p \in D : TRUE BY <2>2
    <3>2. D = {p} BY <1>1, <3>1 DEF BillingInv, DiscountSound
    <3>3. Cardinality(D) = 1 BY <3>2, FS_Singleton
    <3> QED BY <3>3 DEF RetentionOnce
  <2> QED BY <2>1, <2>2
<1>2. BillingInv => ContractSound BY <1>1 DEF BillingInv, ContractSound
<1> QED BY <1>2, BillingInvariant, PTL
----------------------------------------------------------------------------
(* What a step may do to the payments and to the contract. *)

LEMMA PaysMove ==
  ASSUME BillingInv, [Next]_vars, NEW a \in Attempts
  PROVE  \/ pays'[a] = pays[a]
         \/ /\ pays[a] = <<>> /\ Len(pays'[a]) = 1 /\ pays'[a][1].at = now
            /\ \E w \in Actors : pc[w] = "post" /\ on[w] = a
         \/ pays[a] # <<>> /\ Len(pays'[a]) = Len(pays[a]) /\ pays'[a] # <<>> /\ pays'[a][1].at = now
<1>1. RemoteOK BY TypeParts DEF BillingInv
<1>2. CASE UNCHANGED remote BY <1>2 DEF remote
<1>3. ASSUME NEW w \in Actors, CreatePayment(w), ~UNCHANGED remote
      PROVE  \/ pays'[a] = pays[a]
             \/ /\ pays[a] = <<>> /\ Len(pays'[a]) = 1 /\ pays'[a][1].at = now
                /\ pc[w] = "post" /\ on[w] = a
  <2>1. PICK status \in FirstStatuses(on[w]) : NewPayment(on[w], status) /\ ~Remembered(on[w])
    BY <1>3 DEF CreatePayment
  <2>2. pc[w] = "post" BY <1>3 DEF CreatePayment
  <2>3. pays[on[w]] = <<>> BY <2>1, <2>2, KeyRemembered
  <2>4. CASE on[w] # a BY <1>1, <2>1, <2>4 DEF NewPayment, RemoteOK
  <2>5. CASE on[w] = a
    <3> DEFINE new == [status |-> status, at |-> now]
    <3>1. pays'[a] = Append(<<>>, new) BY <1>1, <2>1, <2>3, <2>5 DEF NewPayment, RemoteOK
    <3>2. new.at = now OBVIOUS
    <3> HIDE DEF new
    <3>3. Len(pays'[a]) = 1 /\ pays'[a][1] = new BY <3>1
    <3> QED BY <2>2, <2>3, <2>5, <3>2, <3>3
  <2> QED BY <2>4, <2>5
<1>4. ASSUME NEW b \in Attempts, NEW i \in DOMAIN pays[b], NEW status \in mix.outcomes, SettlePayment(b, i, status)
      PROVE  \/ pays'[a] = pays[a]
             \/ pays[a] # <<>> /\ Len(pays'[a]) = Len(pays[a]) /\ pays'[a] # <<>> /\ pays'[a][1].at = now
  <2>1. CASE a # b BY <1>1, <1>4, <2>1 DEF SettlePayment, RemoteOK
  <2>2. CASE a = b
    <3>1. i = 1 /\ pays[a] # <<>> /\ Len(pays[a]) = 1 /\ pays[a] \in Seq(Payment)
      BY <1>1, <1>4, <2>2, OnePayment DEF SettlePayment, RemoteOK
    <3> DEFINE new == [status |-> status, at |-> now]
    <3>2. pays'[a] = [pays[a] EXCEPT ![1] = new] BY <1>1, <1>4, <2>2, <3>1 DEF SettlePayment, RemoteOK
    <3>3. new.at = now OBVIOUS
    <3> HIDE DEF new
    <3>4. Len(pays'[a]) = 1 /\ pays'[a][1] = new BY <3>1, <3>2
    <3>5. pays'[a] # <<>> BY <3>4
    <3> QED BY <3>1, <3>3, <3>4, <3>5
  <2> QED BY <2>1, <2>2
<1>5. \/ UNCHANGED remote \/ \E w \in Actors : CreatePayment(w)
      \/ \E b \in Attempts : \E i \in DOMAIN pays[b] : \E status \in mix.outcomes : SettlePayment(b, i, status)
  <2>1. ASSUME NEW w \in Actors, WorkerStep(w) PROVE UNCHANGED remote \/ CreatePayment(w)
    BY <2>1 DEF WorkerStep, BeginProviderCreate, CreateFailed, CreateRejected, Quarantine, AttachPayment,
       CheckStatus, Reconcile
  <2>2. ASSUME NEW w \in Actors, Abandon(w) PROVE UNCHANGED remote BY <2>2 DEF Abandon
  <2>3. ASSUME NEW s \in Schedulers, SchedulerStep(s) PROVE UNCHANGED remote
    BY <2>3 DEF SchedulerStep, StartCycle, LifecycleOnly, SkipLifecycle, EndCycle, PrepareRenewal, PickAttempt
  <2>4. ASSUME NEW h \in Handlers, HandlerStep(h) PROVE UNCHANGED remote
    BY <2>4 DEF HandlerStep, Checkout, Webhook
  <2>5. CASE OwnerStep \/ Operator \/ Tick
    BY <2>5 DEF OwnerStep, CancellationIntent, AcceptOffer, ConfirmCancellation, ResumeSubscription,
       DetachPaymentMethod, Operator, Tick
  <2>6. CASE UNCHANGED vars BY <2>6 DEF vars, remote
  <2> QED BY <2>1, <2>2, <2>3, <2>4, <2>5, <2>6 DEF Next, ProviderStep
<1> QED BY <1>2, <1>3, <1>4, <1>5

LEMMA ClockMoves ==
  ASSUME BillingInv, [Next]_vars
  PROVE  now \in Nat /\ now' \in Nat /\ now <= now'
<1>0. now \in Nat BY DEF BillingInv, TypeOK
<1>1. ASSUME NEW w \in Actors, WorkerStep(w) \/ Abandon(w) PROVE now' = now
  BY <1>1 DEF WorkerStep, Abandon, BeginProviderCreate, CreatePayment, CreateFailed, CreateRejected,
     Quarantine, AttachPayment, CheckStatus, Reconcile
<1>2. ASSUME NEW s \in Schedulers, SchedulerStep(s) PROVE now' = now
  BY <1>2 DEF SchedulerStep, StartCycle, LifecycleOnly, SkipLifecycle, EndCycle, PrepareRenewal, PickAttempt
<1>3. ASSUME NEW h \in Handlers, HandlerStep(h) PROVE now' = now BY <1>3 DEF HandlerStep, Checkout, Webhook
<1>4. ASSUME OwnerStep \/ Operator \/ ProviderStep PROVE now' = now
  BY <1>4 DEF OwnerStep, CancellationIntent, AcceptOffer, ConfirmCancellation, ResumeSubscription,
     DetachPaymentMethod, Operator, ProviderStep, SettlePayment
<1>5. ASSUME Tick \/ UNCHANGED vars PROVE now' = now \/ now' = now + 1 BY <1>5 DEF Tick, vars
<1>6. now' = now \/ now' = now + 1 BY <1>1, <1>2, <1>3, <1>4, <1>5 DEF Next
<1> QED BY <1>0, <1>6

\* A debit is a POST that reaches the provider for the first time.
LEMMA DebitStep ==
  ASSUME BillingInv, [Next]_vars, NEW a \in Attempts, Debits(a)
  PROVE  pays[a] = <<>> /\ \E w \in Actors : pc[w] = "post" /\ on[w] = a
<1>1. Len(pays[a]) \in Nat BY TypeParts DEF BillingInv, RemoteOK
<1> QED BY <1>1, PaysMove DEF Debits

\* A payment of an open row, or its review, changes the contract; so do the owner and a cycle.
Settling == \E a \in Attempts : Open(a) /\ pays[a] # <<>>
Reviewing == Running /\ \E a \in Attempts, time \in Int :
  Open(a) /\ contract' = [contract EXCEPT !.next = time]
Owning == AcceptOffer \/ ConfirmCancellation \/ ResumeSubscription \/ DetachPaymentMethod
Cycling == \E s \in Schedulers :
  /\ pc[s] = "due" /\ at[s] <= now /\ at[s] \in Nat
  /\ Due(at[s]) \/ Exhausted(at[s]) \/ Overdue(at[s])

LEMMA FailMoves ==
  ASSUME BillingInv, NEW w \in Actors, on[w] \in Attempts, at[w] \in Nat,
         FailForReview(on[w], at[w])
  PROVE  contract' = contract \/ Reviewing
<1>1. at[w] + Retry \in Int BY DurationAssumption
<1>2. attempt[on[w]].status \in {"prepared", "pending"} => Open(on[w]) BY DEF Open, OpenStatuses
<1> QED BY <1>1, <1>2 DEF FailForReview, ManualReview, Reviewing, db

LEMMA ContractMoves ==
  ASSUME BillingInv, [Next]_vars
  PROVE  contract' = contract \/ Settling \/ Reviewing \/ Owning \/ Cycling
<1>1. ASSUME NEW w \in Actors, WorkerStep(w)
      PROVE  contract' = contract \/ Settling \/ Reviewing
  <2>1. ActorSound(w) BY DEF BillingInv
  <2>2. pc[w] \in Busy => on[w] \in Attempts /\ at[w] \in Nat
    BY <2>1 DEF ActorSound, Busy
  <2>3. CASE BeginProviderCreate(w)
    <3>1. on[w] \in Attempts /\ at[w] \in Nat BY <2>2, <2>3 DEF BeginProviderCreate, Busy
    <3>2. at[w] + Retry \in Int BY <3>1, DurationAssumption
    <3>3. attempt[on[w]].status = "prepared" => Open(on[w]) BY DEF Open, OpenStatuses
    <3> QED BY <2>3, <3>1, <3>2, <3>3 DEF BeginProviderCreate, ManualReview, Reviewing, db
  <2>4. CASE CreatePayment(w) \/ Quarantine(w) BY <2>4 DEF CreatePayment, Quarantine, db
  <2>5. CASE CreateFailed(w) \/ CreateRejected(w)
    BY <2>2, <2>5, FailMoves DEF CreateFailed, CreateRejected, Busy, db
  <2>6. CASE AttachPayment(w) BY <2>2, <2>6, FailMoves DEF AttachPayment, Busy, db
  <2>7. CASE CheckStatus(w) BY <2>2, <2>7, FailMoves DEF CheckStatus, Busy, db
  <2>8. CASE Reconcile(w)
    <3>1. on[w] \in Attempts /\ pc[w] \in {"notify", "observe"} BY <2>2, <2>8 DEF Reconcile, Busy
    <3>2. Steady BY <2>8 DEF Reconcile, Steady, mode, remote
    <3>3. CASE UNCHANGED db BY <3>3 DEF db
    <3>4. CASE Settlement(w) BY <3>1, <3>2, <3>4, SettlementCommits DEF Settling
    <3> QED BY <2>8, <3>3, <3>4 DEF Reconcile
  <2> QED BY <1>1, <2>3, <2>4, <2>5, <2>6, <2>7, <2>8 DEF WorkerStep
<1>2. ASSUME NEW w \in Actors, Abandon(w) PROVE contract' = contract BY <1>2 DEF Abandon, db
<1>3. ASSUME NEW s \in Schedulers, SchedulerStep(s) PROVE contract' = contract \/ Cycling
  <2>1. CASE StartCycle(s) \/ SkipLifecycle(s) \/ EndCycle(s) \/ \E a \in Attempts : PickAttempt(s, a)
    BY <2>1 DEF StartCycle, SkipLifecycle, EndCycle, PickAttempt, db
  <2>2. CASE LifecycleOnly(s) \/ \E a \in Attempts : PrepareRenewal(s, a)
    <3>1. s \in Actors /\ pc[s] = "due" /\ ActorSound(s)
      BY <2>2 DEF LifecycleOnly, PrepareRenewal, BillingInv, Actors
    <3>2. at[s] \in Nat /\ at[s] <= now BY <3>1 DEF ActorSound
    <3>3. Due(at[s]) \/ Exhausted(at[s]) \/ Overdue(at[s]) BY <2>2 DEF LifecycleOnly, PrepareRenewal
    <3> QED BY <3>1, <3>2, <3>3 DEF Cycling
  <2> QED BY <1>3, <2>1, <2>2 DEF SchedulerStep
<1>4. ASSUME NEW h \in Handlers, HandlerStep(h) PROVE contract' = contract
  BY <1>4 DEF HandlerStep, Checkout, Webhook, db
<1>5. CASE OwnerStep BY <1>5 DEF OwnerStep, Owning, CancellationIntent
<1>6. CASE Operator \/ Tick \/ ProviderStep BY <1>6 DEF Operator, Tick, ProviderStep, SettlePayment, db
<1>7. CASE UNCHANGED vars BY <1>7 DEF vars
<1> QED BY <1>1, <1>2, <1>3, <1>4, <1>5, <1>6, <1>7 DEF Next

\* Before the end of a period that is paid the contract goes on as it is.
LEMMA AheadStays ==
  ASSUME BillingInv, [Next]_vars, contract.status = "active", contract.grace = Never,
         contract.next = contract.end, now < contract.end, \A a \in Attempts : ~Open(a)
  PROVE  /\ contract'.status = "active" /\ contract'.grace = Never
         /\ contract'.next = contract'.end /\ contract'.end = contract.end
<1>1. ContractOK /\ now \in Nat BY TypeParts DEF BillingInv, ModeOK
<1>2. ~Settling /\ ~Reviewing BY DEF Settling, Reviewing
<1>3. CASE Owning
  BY <1>1, <1>3 DEF Owning, AcceptOffer, ConfirmCancellation, ResumeSubscription, DetachPaymentMethod,
     ContractOK, Contract
<1>4. ~Cycling BY <1>1 DEF Cycling, Due, Exhausted, Overdue, ContractOK, Contract
<1> QED BY <1>2, <1>3, <1>4, ContractMoves

\* What holds off an end of the contract or its cancellation.
LEMMA CutoffHeld ==
  ASSUME BillingInv, [Next]_vars, Running, ~contract.cancel, UnboundSubmitted,
         \A s \in Schedulers : pc[s] # "due", ~Settling
  PROVE  Running' /\ ~contract'.cancel
<1>1. ContractOK BY TypeParts DEF BillingInv
<1>2. ~Cycling BY DEF Cycling
<1>3. CASE Owning
  BY <1>1, <1>3 DEF Owning, AcceptOffer, ConfirmCancellation, ResumeSubscription, DetachPaymentMethod,
     ContractOK, Contract, Running
<1>4. CASE Reviewing BY <1>1, <1>4 DEF Reviewing, ContractOK, Contract, Running
<1>5. CASE contract' = contract BY <1>5 DEF Running
<1> QED BY <1>2, <1>3, <1>4, <1>5, ContractMoves
----------------------------------------------------------------------------
(* Debits of renewals. *)

LEMMA OldOrNew ==
  ASSUME BillingInv, BillingInv', Onward, NEW a \in Attempts
  PROVE  \/ /\ attempt[a].status # "unused" /\ attempt'[a].status # "unused"
            /\ Renewal(a)' <=> Renewal(a)
            /\ attempt'[a].start = attempt[a].start /\ attempt'[a].created = attempt[a].created
            /\ Open(a)' => Open(a)
            /\ Dead(a) => Dead(a)'
         \/ attempt[a].status = "unused" /\ ~Renewal(a)' /\ ~Open(a)'
         \/ attempt[a].status = "unused" /\ New(a)
<1>1. RowSound(a)' BY DEF BillingInv
<1>2. CASE attempt[a].status # "unused"
  BY <1>2 DEF Onward, Kept, Renewal, Open, Dead, OpenStatuses
<1>3. CASE attempt[a].status = "unused" /\ attempt'[a].status # "unused" BY <1>3 DEF Onward
<1>4. CASE attempt'[a].status = "unused" BY <1>1, <1>2, <1>4 DEF RowSound, Open, OpenStatuses, Renewal
<1> QED BY <1>2, <1>3, <1>4

LEMMA CheckoutStep ==
  ASSUME BillingInv, BillingInv', CheckoutInv, [Next]_vars
  PROVE  CheckoutInv'
<1>1. Onward BY NextKeeps
<1>2. ASSUME NEW a \in Attempts, NEW b \in Attempts, Open(a)', Open(b)', ~Renewal(a)', ~Renewal(b)', a # b
      PROVE  FALSE
  <2>1. ASSUME NEW c \in Attempts, NEW d \in Attempts, c # d, Open(c)', Open(d)', ~Renewal(c)', ~Renewal(d)',
               New(c)
        PROVE  FALSE
    <3>1. \A e \in Attempts : ~Renewal(e) /\ e # c => ~Open(e)' BY <2>1 DEF New
    <3>2. Renewal(d) BY <2>1, <3>1
    <3>3. attempt[d].status # "unused" BY <3>2, UnusedRow
    <3> QED BY <1>1, <2>1, <3>2, <3>3, OldOrNew
  <2>2. ~New(a) /\ ~New(b) BY <1>2, <2>1
  <2>3. Open(a) /\ Open(b) /\ ~Renewal(a) /\ ~Renewal(b) BY <1>1, <1>2, <2>2, OldOrNew
  <2> QED BY <1>2, <2>3 DEF CheckoutInv
<1>3. ASSUME Running', NEW a \in Attempts, Open(a)' PROVE Renewal(a)'
  <2>1. CASE New(a) BY <1>3, <2>1 DEF New, Tame
  <2>2. CASE ~New(a)
    <3>1. Open(a) /\ (Renewal(a)' <=> Renewal(a)) BY <1>1, <1>3, <2>2, OldOrNew
    <3>2. CASE Running BY <3>1, <3>2 DEF CheckoutInv
    <3>3. CASE ~Running
      <4>1. Renewed BY <1>1, <1>3, <3>3 DEF Onward, Tame
      <4>2. PICK r \in Attempts : /\ Open(r) /\ attempt'[r].status = "succeeded"
                                  /\ Renewal(r) => Running
        BY <4>1 DEF Renewed
      <4>3. a # r BY <1>3, <4>2 DEF Open, OpenStatuses
      <4> QED BY <3>1, <3>3, <4>2, <4>3 DEF CheckoutInv
    <3> QED BY <3>2, <3>3
  <2> QED BY <2>1, <2>2
<1>4. ASSUME NEW a \in Attempts, pays'[a] # <<>> PROVE attempt'[a].created <= pays'[a][1].at
  <2>1. RowSound(a) /\ now \in Nat BY DEF BillingInv, TypeOK
  <2>2. pays[a] # <<>> => attempt[a].status # "unused" BY <2>1, UnusedRow
  <2>3. attempt[a].status # "unused" =>
          attempt'[a].created = attempt[a].created /\ attempt[a].created <= now
    BY <1>1, <2>1 DEF Onward, Kept, RowSound
  <2>4. CASE pays'[a] = pays[a] BY <1>4, <2>2, <2>3, <2>4 DEF CheckoutInv
  <2>5. CASE pays'[a] # pays[a] /\ pays[a] # <<>> BY <2>2, <2>3, <2>5, PaysMove
  <2>6. CASE pays'[a] # pays[a] /\ pays[a] = <<>>
    <3>1. PICK w \in Actors : pc[w] = "post" /\ on[w] = a BY <2>6, PaysMove
    <3>2. attempt[a].status # "unused" BY <3>1 DEF BillingInv, ActorSound, Busy
    <3> QED BY <2>3, <2>6, <3>2, PaysMove
  <2> QED BY <2>4, <2>5, <2>6
<1> QED BY <1>2, <1>3, <1>4 DEF CheckoutInv

\* A period paid by a renewal stays behind the contract.
LEMMA SettledStep ==
  ASSUME BillingInv, BillingInv', CheckoutInv, CheckoutInv', DebitInv, [Next]_vars, NEW a \in Attempts, Settled(a)'
  PROVE  /\ attempt'[a].start < contract'.end
         /\ attempt'[a].start <= now' \/ Ahead'
         /\ \A c \in Attempts : Open(c)' /\ ~Renewal(c)' => attempt'[a].start <= attempt'[c].created
<1>1. Onward BY NextKeeps
<1>2. /\ now \in Nat /\ now' \in Nat /\ now <= now' /\ mix.month \in Nat \ {0} /\ contract.end \in Int
      /\ attempt \in [Attempts -> Attempt]
  BY TypeParts, MixFacts, ClockMoves DEF BillingInv, ContractOK, Contract, RowsOK
<1>3. CASE Settled(a)
  <2>1. /\ attempt[a].start < contract.end
        /\ attempt[a].start <= now \/ Ahead
        /\ \A c \in Attempts : Open(c) /\ ~Renewal(c) => attempt[a].start <= attempt[c].created
    BY <1>3 DEF DebitInv
  <2>2. attempt'[a].start = attempt[a].start /\ attempt[a].start \in Int
    BY <1>1, <1>2, <1>3 DEF Onward, Kept, Settled, Attempt
  <2>3. attempt'[a].start < contract'.end
    <3>1. CASE Tame BY <2>1, <2>2, <3>1 DEF Tame
    <3>2. CASE Renewed
      <4>1. PICK r \in Attempts, start \in Int :
              /\ Open(r) /\ pays[r] # <<>> /\ contract'.end = start + mix.month
              /\ IF Renewal(r) THEN contract.end = start ELSE start = pays[r][1].at
        BY <3>2 DEF Renewed
      <4>2. CASE Renewal(r) BY <1>2, <2>1, <2>2, <4>1, <4>2
      <4>3. CASE ~Renewal(r)
        <5>1. attempt[a].start <= attempt[r].created /\ attempt[r].created <= start
          BY <2>1, <4>1, <4>3 DEF CheckoutInv
        <5>2. attempt[r].created \in Int BY <1>2 DEF Attempt
        <5> QED BY <1>2, <2>2, <4>1, <5>1, <5>2
      <4> QED BY <4>2, <4>3
    <3> QED BY <1>1, <3>1, <3>2 DEF Onward
  <2>4. CASE attempt[a].start <= now
    <3>1. ASSUME NEW c \in Attempts, Open(c)', ~Renewal(c)' PROVE attempt[a].start <= attempt'[c].created
      <4>1. CASE New(c) BY <2>4, <3>1, <4>1 DEF New
      <4>2. CASE ~New(c) BY <1>1, <2>1, <3>1, <4>2, OldOrNew
      <4> QED BY <4>1, <4>2
    <3> QED BY <1>2, <2>2, <2>3, <2>4, <3>1
  <2>5. CASE Ahead /\ now < attempt[a].start
    <3>1. Running BY <2>5 DEF Ahead, Running
    <3>2. \A c \in Attempts : ~Open(c)
      BY <2>5, <3>1 DEF CheckoutInv, Ahead, OpenRenewal, Renewals, Open, Renewal
    <3>3. now < contract.end BY <1>2, <2>1, <2>2, <2>5
    <3>4. /\ contract'.status = "active" /\ contract'.grace = Never
          /\ contract'.next = contract'.end /\ contract'.end = contract.end
      BY <2>5, <3>2, <3>3, AheadStays DEF Ahead
    <3>5. \A c \in Attempts : ~New(c)
      BY <1>2, <2>5, <3>1, <3>3 DEF New, Ahead
    <3>6. \A c \in Attempts : ~Open(c)' BY <1>1, <3>2, <3>5, OldOrNew
    <3>7. Ahead' BY <3>4, <3>6 DEF Ahead, OpenRenewal, Renewals, Open
    <3> QED BY <2>2, <2>3, <3>6, <3>7
  <2> QED BY <1>2, <2>1, <2>2, <2>4, <2>5
<1>4. CASE ~Settled(a)
  <2>1. attempt[a].status # "succeeded"
    BY <1>1, <1>4, OldOrNew DEF Settled, Open
  <2>2. ~Unpaid BY <2>1 DEF Unpaid, Settled
  <2>3. ~Tame /\ \A c \in Attempts : ~New(c) BY <2>2 DEF Tame, New
  <2>4. PICK r \in Attempts, start \in Int :
          /\ Open(r) /\ attempt'[r].status = "succeeded"
          /\ \A b \in Attempts : b # r => attempt'[b].status = attempt[b].status
          /\ Renewal(r) => Running /\ contract.end = start /\ start = attempt[r].start
          /\ contract'.status = "active" /\ contract'.end = start + mix.month
          /\ contract'.next = contract'.end /\ contract'.grace = Never
    BY <1>1, <2>3 DEF Onward, Renewed
  <2>5. a = r BY <2>1, <2>4 DEF Settled
  <2>6. Renewal(a) /\ attempt'[a].start = attempt[a].start
    BY <1>1, <2>3, <2>4, <2>5, OldOrNew DEF Settled, Open, OpenStatuses
  <2>7. attempt'[a].start < contract'.end BY <1>2, <2>4, <2>5, <2>6
  <2>8. ASSUME NEW c \in Attempts, Open(c)' PROVE FALSE
    <3>1. Open(c) /\ c # a BY <1>1, <2>3, <2>4, <2>5, <2>8, OldOrNew DEF Open, OpenStatuses
    <3>2. Renewal(c) BY <2>4, <2>5, <2>6, <3>1 DEF CheckoutInv
    <3> QED BY <2>4, <2>5, <2>6, <3>1, <3>2 DEF BillingInv, OneOpenRenewal
  <2>9. Ahead' BY <2>4, <2>8 DEF Ahead, OpenRenewal, Renewals, Open
  <2> QED BY <2>7, <2>8, <2>9
<1> QED BY <1>3, <1>4

LEMMA DebitKept ==
  ASSUME BillingInv, BillingInv', CheckoutInv, CheckoutInv', DebitInv, [Next]_vars
  PROVE  DebitInv'
<1>1. Onward BY NextKeeps
\* A renewal is made for a period that no row alive is for.
<1>2. ASSUME NEW a \in Attempts, NEW b \in Attempts, a # b, Renewal(a)', Renewal(b)',
             attempt'[a].start = attempt'[b].start, New(a)
      PROVE  Dead(b)'
  <2>1. Running /\ ~OpenRenewal /\ attempt'[a].start = contract.end BY <1>2 DEF New
  <2>2. attempt[b].status # "unused"
    <3>1. ASSUME attempt[b].status = "unused" PROVE FALSE
      <4>1. attempt'[b].status = "unused" BY <1>2, <3>1 DEF New
      <4> QED BY <1>2, <4>1 DEF BillingInv, RowSound
    <3> QED BY <3>1
  <2>3. Renewal(b) /\ attempt[b].start = contract.end /\ (Dead(b) => Dead(b)')
    BY <1>1, <1>2, <2>1, <2>2, OldOrNew
  <2>4. ~Open(b) BY <2>1, <2>3 DEF OpenRenewal, Renewals, Open, Renewal
  <2>5. ~Settled(b)
    <3>1. contract.end \in Int BY TypeParts DEF BillingInv, ContractOK, Contract
    <3> QED BY <2>3, <3>1 DEF DebitInv
  <2>6. attempt[b].status \in AttemptStatuses BY TypeParts DEF BillingInv, RowsOK, Attempt
  <2>7. Dead(b) BY <2>2, <2>3, <2>4, <2>5, <2>6 DEF AttemptStatuses, Dead, Open, Settled
  <2> QED BY <2>3, <2>7
<1>3. ASSUME NEW a \in Attempts, NEW b \in Attempts, a # b, Renewal(a)', Renewal(b)',
             attempt'[a].start = attempt'[b].start
      PROVE  Dead(a)' \/ Dead(b)'
  <2>1. CASE New(a) \/ New(b) BY <1>2, <1>3, <2>1
  <2>2. CASE ~New(a) /\ ~New(b)
    <3>1. /\ Renewal(a) /\ Renewal(b) /\ attempt[a].start = attempt[b].start
          /\ Dead(a) => Dead(a)'
          /\ Dead(b) => Dead(b)'
      BY <1>1, <1>3, <2>2, OldOrNew
    <3> QED BY <1>3, <3>1 DEF DebitInv
  <2> QED BY <2>1, <2>2
<1> QED BY <1>3, SettledStep DEF DebitInv

\* What the debits of renewals rest on (CheckoutInv, DebitInv) holds in every reachable state.
THEOREM DebitInvariant == Spec => [](CheckoutInv /\ DebitInv)
<1>1. Init => CheckoutInv /\ DebitInv
  BY DEF Init, CheckoutInv, DebitInv, Open, OpenStatuses, Running, Settled, Renewal
<1>2. BillingInv /\ BillingInv' /\ CheckoutInv /\ DebitInv /\ [Next]_vars => (CheckoutInv /\ DebitInv)'
  BY CheckoutStep, DebitKept
<1> QED BY <1>1, <1>2, BillingInvariant, PTL DEF Spec

\* A renewal whose payment was made or settled against it is not charged.
LEMMA DeadNotCharged ==
  ASSUME BillingInv, NEW a \in Attempts, Dead(a), NEW i \in DOMAIN pays[a]
  PROVE  pays[a][i].status \notin Charged
<1>1. RowSound(a) /\ pays[a] \in Seq(Payment)
  BY TypeParts DEF BillingInv, RemoteOK
<1>2. i = 1 /\ pays[a] # <<>> /\ Len(pays[a]) \in Nat BY <1>1 DEF RowSound
<1>3. attempt[a].started # Never BY <1>1, <1>2 DEF RowSound
<1>4. attempt[a].status = "canceled" BY <1>1, <1>3 DEF RowSound, Dead, OpenStatuses
<1> QED BY <1>1, <1>2, <1>4 DEF RowSound, Charged, Stopped

\* No period is debited twice, whatever becomes of its earlier attempts and in however many contracts
\* (PrepareBillingRenewal, activateBillingAttempt).
THEOREM OneDebit == Spec => []OneDebitPerCycle
<1>1. BillingInv /\ DebitInv => OneDebitPerCycle
  BY DeadNotCharged DEF DebitInv, OneDebitPerCycle, Renewals, Renewal
<1> QED BY <1>1, BillingInvariant, DebitInvariant, PTL

\* While the outcome of a renewal is unresolved no other renewal is debited, even in a later contract
\* (the unique index of migration 021 and BeginBillingProviderCreate).
THEOREM ResolvedBeforeDebit == Spec => UnresolvedStopsDebits
<1>1. ASSUME BillingInv, [Next]_vars PROVE DebitsWhenResolved
  <2>1. ASSUME NEW a \in Renewals, NEW b \in Renewals, a # b, Debits(a) PROVE ~Unresolved(b)
    <3>1. a \in Attempts /\ b \in Attempts /\ Renewal(a) /\ Renewal(b) BY DEF Renewals, Renewal
    <3>2. PICK w \in Actors : pc[w] = "post" /\ on[w] = a BY <1>1, <2>1, <3>1, DebitStep
    <3>3. pays[a] = <<>> BY <1>1, <2>1, <3>1, DebitStep
    <3>4. RowSound(a) /\ RowSound(b) /\ ActorSound(w) BY <1>1, <3>1 DEF BillingInv
    <3>5. Open(a) BY <3>2, <3>3, <3>4 DEF RowSound, ActorSound, Open
    <3>6. ~Open(b) BY <1>1, <2>1, <3>1, <3>5 DEF BillingInv, OneOpenRenewal
    <3>7. ASSUME NEW i \in DOMAIN pays[b]
          PROVE  /\ pays[b][i].status # "pending"
                 /\ pays[b][i].status \in Charged => attempt[b].status = "succeeded"
      <4>1. pays[b] \in Seq(Payment) BY <1>1, <3>1, TypeParts DEF BillingInv, RemoteOK
      <4>2. i = 1 /\ pays[b] # <<>> BY <3>4, <3>7, <4>1 DEF RowSound
      <4>3. attempt[b].status \in {"succeeded", "canceled"} BY <3>4, <3>6, <4>2 DEF RowSound, Open
      <4> QED BY <3>4, <4>2, <4>3 DEF RowSound, Charged, Stopped
    <3> QED BY <3>7 DEF Unresolved
  <2> QED BY <2>1 DEF DebitsWhenResolved
<1>2. BillingInv /\ [Next]_vars => [DebitsWhenResolved]_vars BY <1>1
<1> QED BY <1>2, BillingInvariant, PTL DEF Spec, UnresolvedStopsDebits
----------------------------------------------------------------------------
(* The cutoff of a cancellation, with one process. *)

\* How actors come to post renewals.
Walk(w) ==
  /\ (w \in Schedulers /\ pc[w] = "idle" /\ pc'[w] # "idle") => w \in mix.schedulers
  /\ (w \in Handlers /\ pc'[w] \in {"due", "cycle"}) => pc[w] \in {"due", "cycle"}
  /\ (w \in Handlers /\ pc'[w] = "begin" /\ pc[w] # "begin") => attempt'[on'[w]].purpose # "renewal"
  /\ pc'[w] \in {"begin", "post"} /\ pc[w] \in {"begin", "post"} => on'[w] = on[w]
  /\ pc'[w] = "post" /\ pc[w] # "post" =>
       /\ pc[w] = "begin" /\ contract' = contract
       /\ Renewal(on[w]) => Running /\ ~contract.cancel

LEMMA ActorsMove ==
  ASSUME BillingInv, [Next]_vars, NEW w \in Actors
  PROVE  Walk(w)
<1>1. ActorsOK /\ Handlers \cap Schedulers = {} BY TypeParts, IdentityAssumption DEF BillingInv
<1>2. CASE pc'[w] = pc[w] /\ on'[w] = on[w] BY <1>2 DEF Walk
<1>3. ASSUME WorkerStep(w) PROVE Walk(w)
  <2>1. CASE BeginProviderCreate(w)
    <3>1. CASE Done(w) BY <1>1, <2>1, <3>1 DEF Walk, BeginProviderCreate, Done, Goto, ActorsOK
    <3>2. CASE ~Done(w)
      BY <1>1, <2>1, <3>2 DEF Walk, BeginProviderCreate, Goto, Stay, ActorsOK, Renewal
    <3> QED BY <3>1, <3>2
  <2>2. CASE CreatePayment(w) BY <1>1, <2>2 DEF Walk, CreatePayment, Goto, Stay, ActorsOK
  <2>3. CASE CreateFailed(w) \/ CreateRejected(w) \/ Quarantine(w)
    BY <1>1, <2>3 DEF Walk, CreateFailed, CreateRejected, Quarantine, Done, Goto, ActorsOK
  <2>4. CASE AttachPayment(w)
    BY <1>1, <2>4 DEF Walk, AttachPayment, Done, Goto, Stay, ActorsOK
  <2>5. CASE CheckStatus(w) BY <1>1, <2>5 DEF Walk, CheckStatus, Done, Goto, ActorsOK
  <2>6. CASE Reconcile(w) BY <1>1, <2>6 DEF Walk, Reconcile, Done, Goto, Stay, ActorsOK
  <2> QED BY <1>3, <2>1, <2>2, <2>3, <2>4, <2>5, <2>6 DEF WorkerStep
<1>4. ASSUME Abandon(w) PROVE Walk(w) BY <1>1, <1>4 DEF Walk, Abandon, Goto, ActorsOK
<1>5. ASSUME NEW v \in Actors, v # w, WorkerStep(v) \/ Abandon(v) PROVE pc'[w] = pc[w] /\ on'[w] = on[w]
  <2>1. CASE BeginProviderCreate(v) \/ CreatePayment(v) \/ CreateFailed(v) \/ CreateRejected(v)
    BY <1>1, <1>5, <2>1 DEF BeginProviderCreate, CreatePayment, CreateFailed, CreateRejected,
       Done, Goto, Stay, ActorsOK
  <2>2. CASE Quarantine(v) \/ AttachPayment(v) \/ CheckStatus(v) \/ Reconcile(v) \/ Abandon(v)
    BY <1>1, <1>5, <2>2 DEF Quarantine, AttachPayment, CheckStatus, Reconcile, Abandon,
       Done, Goto, Stay, ActorsOK
  <2> QED BY <1>5, <2>1, <2>2 DEF WorkerStep
<1>6. ASSUME NEW s \in Schedulers, SchedulerStep(s) PROVE Walk(w)
  <2>1. s \notin Handlers BY <1>1
  <2>2. CASE s = w
    BY <1>1, <1>6, <2>1, <2>2 DEF Walk, SchedulerStep, StartCycle, LifecycleOnly, SkipLifecycle, EndCycle,
       PrepareRenewal, PickAttempt, Goto, Stay, ActorsOK
  <2>3. CASE s # w
    <3>1. s \in Actors BY DEF Actors
    <3> QED BY <1>1, <1>2, <1>6, <2>3, <3>1 DEF SchedulerStep, StartCycle, LifecycleOnly, SkipLifecycle,
         EndCycle, PrepareRenewal, PickAttempt, Goto, Stay, ActorsOK
  <2> QED BY <2>2, <2>3
<1>7. ASSUME NEW h \in Handlers, HandlerStep(h) PROVE Walk(w)
  <2>1. h \in Actors /\ h \notin Schedulers BY <1>1 DEF Actors
  <2>2. CASE h # w BY <1>1, <1>2, <1>7, <2>1, <2>2 DEF HandlerStep, Checkout, Webhook, Goto, ActorsOK
  <2>3. CASE h = w /\ \E a \in Attempts, i \in Nat : Webhook(h, a, i)
    BY <1>1, <2>1, <2>3 DEF Walk, Webhook, Goto, ActorsOK
  <2>4. ASSUME h = w, NEW a \in Attempts, Checkout(h, a) PROVE Walk(w)
    <3>1. pc[w] = "idle" /\ pc'[w] = "begin" /\ on'[w] = a
      BY <1>1, <2>1, <2>4 DEF Checkout, Goto, ActorsOK
    <3>2. attempt'[a].purpose # "renewal"
      <4> DEFINE expired == [b \in Attempts |->
                   IF /\ attempt[b].purpose = "checkout" /\ attempt[b].status = "prepared"
                      /\ Untouched(b) /\ attempt[b].created < now
                   THEN [attempt[b] EXCEPT !.status = "failed"] ELSE attempt[b]]
                 row == Prepared("checkout", 1, Never, FALSE, now)
      <4>1. row.purpose # "renewal" BY DEF Prepared
      <4>2. \/ expired[a].purpose = "checkout" /\ attempt' = expired
            \/ attempt' = [expired EXCEPT ![a] = row]
        BY <2>4 DEF Checkout
      <4>3. DOMAIN expired = Attempts OBVIOUS
      <4> HIDE DEF expired, row
      <4> QED BY <4>1, <4>2, <4>3
    <3> QED BY <2>1, <2>4, <3>1, <3>2 DEF Walk
  <2>5. \A a \in Attempts : DOMAIN pays[a] \subseteq Nat
    BY OnePayment
  <2> QED BY <1>7, <2>2, <2>3, <2>4, <2>5 DEF HandlerStep
<1>8. CASE OwnerStep \/ Operator \/ ProviderStep \/ Tick \/ UNCHANGED vars
  BY <1>2, <1>8 DEF OwnerStep, CancellationIntent, AcceptOffer, ConfirmCancellation, ResumeSubscription,
     DetachPaymentMethod, Operator, ProviderStep, SettlePayment, Tick, vars
<1> QED BY <1>2, <1>3, <1>4, <1>5, <1>6, <1>7, <1>8 DEF Next

LEMMA MixStays == ASSUME [Next]_vars PROVE mix' = mix
<1>1. ASSUME NEW w \in Actors, WorkerStep(w) \/ Abandon(w) PROVE mix' = mix
  BY <1>1 DEF WorkerStep, Abandon, BeginProviderCreate, CreatePayment, CreateFailed, CreateRejected,
     Quarantine, AttachPayment, CheckStatus, Reconcile, mode
<1>2. ASSUME NEW s \in Schedulers, SchedulerStep(s) PROVE mix' = mix
  BY <1>2 DEF SchedulerStep, StartCycle, LifecycleOnly, SkipLifecycle, EndCycle, PrepareRenewal, PickAttempt, mode
<1>3. ASSUME NEW h \in Handlers, HandlerStep(h) PROVE mix' = mix BY <1>3 DEF HandlerStep, Checkout, Webhook, mode
<1>4. CASE OwnerStep \/ Operator \/ ProviderStep \/ Tick \/ UNCHANGED vars
  BY <1>4 DEF OwnerStep, CancellationIntent, AcceptOffer, ConfirmCancellation, ResumeSubscription,
     DetachPaymentMethod, Operator, ProviderStep, SettlePayment, Tick, vars, mode
<1> QED BY <1>1, <1>2, <1>3, <1>4 DEF Next

LEMMA CutoffStep ==
  ASSUME OneProcess, BillingInv, BillingInv', CheckoutInv, CutoffInv, [Next]_vars
  PROVE  CutoffInv'
<1>1. Onward /\ mix' = mix BY NextKeeps, MixStays
<1>2. \A w \in Actors : Walk(w) BY ActorsMove
<1>3. \A v \in Handlers \cup Schedulers : v \in Actors BY DEF Actors
\* A row at work keeps its purpose.
<1>4. ASSUME NEW w \in Actors, pc[w] \in {"begin", "post"}
      PROVE  on[w] \in Attempts /\ attempt'[on[w]].purpose = attempt[on[w]].purpose
  <2>1. on[w] \in Attempts /\ attempt[on[w]].status # "unused" BY <1>4 DEF BillingInv, ActorSound, Busy
  <2> QED BY <1>1, <2>1 DEF Onward, Kept
<1>5. ASSUME NEW s \in Schedulers, pc'[s] # "idle" PROVE s \in mix'.schedulers
  BY <1>1, <1>2, <1>3, <1>5 DEF CutoffInv, Walk
<1>6. ASSUME NEW h \in Handlers PROVE pc'[h] \notin {"due", "cycle"}
  BY <1>2, <1>3 DEF CutoffInv, Walk
<1>7. ASSUME NEW h \in Handlers, pc'[h] \in {"begin", "post"} PROVE attempt'[on'[h]].purpose # "renewal"
  <2>1. CASE pc[h] \in {"begin", "post"}
    <3>1. on'[h] = on[h] BY <1>2, <1>3, <1>7, <2>1 DEF Walk
    <3>2. attempt[on[h]].purpose # "renewal" BY <2>1 DEF CutoffInv, Renewal
    <3> QED BY <1>3, <1>4, <2>1, <3>1, <3>2
  <2>2. CASE pc[h] \notin {"begin", "post"} BY <1>2, <1>3, <1>7, <2>2 DEF Walk
  <2> QED BY <2>1, <2>2
<1>8. ASSUME NEW w \in Actors, pc'[w] = "post", attempt'[on'[w]].purpose = "renewal", pays'[on'[w]] = <<>>
      PROVE  Running' /\ ~contract'.cancel
  <2>1. pc[w] \in {"begin", "post"} /\ on'[w] = on[w] BY <1>2, <1>8 DEF Walk
  <2>2. on[w] \in Attempts /\ Renewal(on[w]) BY <1>4, <1>8, <2>1 DEF Renewal
  <2>3. pays[on[w]] = <<>> BY <1>8, <2>1, <2>2, PaysMove
  <2>4. CASE pc[w] = "begin" BY <1>2, <1>8, <2>2, <2>4 DEF Walk, Running
  <2>5. CASE pc[w] = "post"
    <3>1. Running /\ ~contract.cancel BY <2>2, <2>3, <2>5 DEF CutoffInv
    <3>2. attempt[on[w]].started # Never /\ RowSound(on[w]) BY <2>2, <2>5 DEF BillingInv, ActorSound
    <3>3. Open(on[w]) BY <2>3, <3>2 DEF RowSound, Open
    <3>4. attempt[on[w]].bound = 0
      <4>1. attempt[on[w]].bound \in Nat BY <2>2, TypeParts DEF BillingInv, RowsOK, Attempt
      <4>2. attempt[on[w]].bound <= 0 BY <2>3, <3>2 DEF RowSound
      <4> QED BY <4>1, <4>2
    <3>5. UnboundSubmitted
      BY <2>2, <3>2, <3>3, <3>4 DEF UnboundSubmitted, Unbound, Renewals, Renewal, Open
    <3>6. ~Settling
      <4>1. \A a \in Attempts : Open(a) => a = on[w]
        BY <2>2, <3>1, <3>3 DEF CheckoutInv, BillingInv, OneOpenRenewal
      <4> QED BY <2>3, <4>1 DEF Settling
    <3>7. \A s \in Schedulers : pc[s] # "due"
      <4>1. w \in Schedulers BY <2>2, <2>5 DEF CutoffInv, Actors
      <4>2. w \in mix.schedulers /\ mix \in Mixes BY <2>5, <4>1 DEF CutoffInv, BillingInv, TypeOK
      <4>3. ASSUME NEW s \in Schedulers, pc[s] = "due" PROVE FALSE
        <5>1. s \in mix.schedulers BY <4>3 DEF CutoffInv
        <5>2. s = w BY <4>2, <5>1 DEF OneProcess
        <5> QED BY <2>5, <4>3, <5>2
      <4> QED BY <4>3
    <3> QED BY <3>1, <3>5, <3>6, <3>7, CutoffHeld
  <2> QED BY <2>1, <2>4, <2>5
<1> QED BY <1>5, <1>6, <1>7, <1>8 DEF CutoffInv, Renewal

\* Where one process runs the billing cycles, a confirmed cancellation and a detached card are an
\* exact cutoff: no renewal is debited after them (ConfirmBillingCancellation,
\* DetachBillingPaymentMethod, BeginBillingProviderCreate).
THEOREM ExactCutoff == OneProcess /\ Spec => CancelCutoff
<1> SUFFICES ASSUME OneProcess PROVE Spec => CancelCutoff OBVIOUS
<1>1. Init => CutoffInv BY DEF Init, CutoffInv, Actors
<1>2. BillingInv /\ BillingInv' /\ CheckoutInv /\ CutoffInv /\ [Next]_vars => CutoffInv' BY CutoffStep
<1>3. ASSUME BillingInv, CutoffInv, [Next]_vars PROVE DebitsBeforeCutoff
  <2>1. ASSUME NEW a \in Renewals, Debits(a) PROVE ~contract.cancel
    <3>1. a \in Attempts /\ Renewal(a) BY DEF Renewals, Renewal
    <3>2. pays[a] = <<>> /\ \E w \in Actors : pc[w] = "post" /\ on[w] = a BY <1>3, <2>1, <3>1, DebitStep
    <3> QED BY <1>3, <3>1, <3>2 DEF CutoffInv
  <2> QED BY <2>1 DEF DebitsBeforeCutoff
<1>4. BillingInv /\ CutoffInv /\ [Next]_vars => [DebitsBeforeCutoff]_vars BY <1>3
<1> QED BY <1>1, <1>2, <1>4, BillingInvariant, DebitInvariant, PTL DEF Spec, CancelCutoff
----------------------------------------------------------------------------
(* The paid periods. *)

LEMMA PeriodStep ==
  ASSUME BillingInv, BillingInv', CheckoutInv, CheckoutInv', PeriodInv, [Next]_vars, ~EndsEarly
  PROVE  PeriodInv'
<1>1. Onward BY NextKeeps
<1>2. /\ now \in Nat /\ now' \in Nat /\ now <= now' /\ mix.month \in Nat \ {0} /\ contract.end \in Int
      /\ attempt \in [Attempts -> Attempt] /\ paid \subseteq [by : Attempts, start : Int, end : Int, discount : BOOLEAN]
  BY TypeParts, MixFacts, ClockMoves DEF BillingInv, ContractOK, Contract, RowsOK, LedgerOK, ModeOK
<1>3. \A p \in paid : p.by \in Attempts /\ p.start \in Int /\ p.end \in Int BY <1>2
<1>4. \A a \in Attempts : attempt[a].created \in Int BY <1>2 DEF Attempt
\* A row in use keeps its place under the periods.
<1>5. ASSUME NEW p \in paid
      PROVE  /\ attempt'[p.by].status # "unused"
             /\ Renewal(p.by)' <=> Renewal(p.by)
  BY <1>1, <1>3 DEF PeriodInv, Onward, Kept, Renewal
<1>6. ASSUME NEW p \in paid, NEW c \in Attempts, Open(c)', ~Renewal(c)' PROVE p.end <= attempt'[c].created
  <2>1. CASE New(c) BY <1>6, <2>1 DEF New, PeriodInv
  <2>2. CASE ~New(c) BY <1>1, <1>6, <2>2, OldOrNew DEF PeriodInv
  <2> QED BY <2>1, <2>2
<1>7. CASE Tame
  <2>1. paid' = paid /\ contract'.end = contract.end /\ (Running' => Running) BY <1>7 DEF Tame
  <2>2. ASSUME NEW p \in paid, ~Running' PROVE p.end <= now'
    <3>1. CASE Running
      <4>1. contract.end <= now BY <1>2, <2>2, <3>1 DEF EndsEarly
      <4> QED BY <1>2, <1>3, <3>1, <4>1 DEF PeriodInv
    <3>2. CASE ~Running BY <1>2, <1>3, <3>2 DEF PeriodInv
    <3> QED BY <3>1, <3>2
  <2> QED BY <1>5, <1>6, <2>1, <2>2 DEF PeriodInv
<1>8. CASE Renewed
  <2>1. PICK r \in Attempts, start \in Int :
          /\ Open(r) /\ pays[r] # <<>> /\ attempt'[r].status = "succeeded"
          /\ IF Renewal(r) THEN Running /\ contract.end = start ELSE start = pays[r][1].at
          /\ paid' = paid \cup {[by |-> r, start |-> start, end |-> start + mix.month,
                                 discount |-> attempt[r].discount]}
          /\ contract'.status = "active" /\ contract'.end = start + mix.month
    BY <1>8 DEF Renewed
  <2> DEFINE new == [by |-> r, start |-> start, end |-> start + mix.month, discount |-> attempt[r].discount]
  <2>2. new.by = r /\ new.start = start /\ new.end = start + mix.month /\ paid' = paid \cup {new} BY <2>1
  <2> HIDE DEF new
  <2>3. start + mix.month \in Int /\ start < start + mix.month BY <1>2, <2>1
  <2>4. ASSUME NEW p \in paid PROVE p.end <= start /\ p.start < p.end
    <3>1. CASE Renewal(r) BY <2>1, <3>1 DEF PeriodInv
    <3>2. CASE ~Renewal(r)
      <4>1. p.end <= attempt[r].created /\ attempt[r].created <= start BY <2>1, <3>2 DEF PeriodInv, CheckoutInv
      <4> QED BY <1>3, <1>4, <2>1, <4>1 DEF PeriodInv
    <3> QED BY <3>1, <3>2
  <2>5. Running' BY <2>1 DEF Running
  \* The new period comes after all others, and before every open checkout of a row: there is none.
  <2>6. \A c \in Attempts : Open(c)' => Renewal(c)' BY <2>5 DEF CheckoutInv
  <2>7. Renewal(r)' => Renewal(r) BY <1>1, <2>1 DEF Onward, Kept, Renewal, Open, OpenStatuses
  <2>8. Renewal(r)' => \E q \in paid : q.end = start BY <2>1, <2>7 DEF PeriodInv
  <2>9. ASSUME NEW p \in paid'
        PROVE  /\ p.start < p.end /\ attempt'[p.by].status # "unused"
               /\ p.end <= contract'.end
               /\ Renewal(p.by)' => \E q \in paid' : q.end = p.start
    <3>1. CASE p = new BY <2>1, <2>2, <2>3, <2>8, <3>1
    <3>2. CASE p \in paid
      <4>1. p.end <= contract'.end BY <1>3, <2>1, <2>3, <2>4, <3>2
      <4> QED BY <1>5, <2>2, <2>4, <3>2, <4>1 DEF PeriodInv
    <3> QED BY <2>2, <3>1, <3>2
  <2>10. ASSUME NEW p \in paid', NEW q \in paid', p # q PROVE p.end <= q.start \/ q.end <= p.start
    <3>1. CASE p \in paid /\ q \in paid BY <2>10, <3>1 DEF PeriodInv
    <3>2. CASE p = new /\ q \in paid BY <2>2, <2>4, <3>2
    <3>3. CASE q = new /\ p \in paid BY <2>2, <2>4, <3>3
    <3> QED BY <2>2, <2>10, <3>1, <3>2, <3>3
  <2>11. \E p \in paid' : p.end = contract'.end BY <2>1, <2>2
  <2> QED BY <2>5, <2>6, <2>9, <2>10, <2>11 DEF PeriodInv
<1> QED BY <1>1, <1>7, <1>8 DEF Onward

\* As long as no contract ends before the time that was paid for, every paid renewal extends a paid
\* period and no two paid periods overlap: a late payment for an old contract does not displace the
\* new one (billingRenewalStillCurrentTx, activateBillingAttempt).
THEOREM DisjointPeriods == Spec /\ [][~EndsEarly]_vars => []PeriodsDisjoint
<1>1. Init => PeriodInv BY DEF Init, PeriodInv, Running
<1>2. BillingInv /\ BillingInv' /\ CheckoutInv /\ CheckoutInv' /\ PeriodInv /\ [Next]_vars /\ [~EndsEarly]_vars
      => PeriodInv'
  <2>1. UNCHANGED vars => ~EndsEarly BY DEF vars, EndsEarly, Running
  <2> QED BY <2>1, PeriodStep
<1>3. PeriodInv => PeriodsDisjoint BY DEF PeriodInv, PeriodsDisjoint, Renewal
<1> QED BY <1>1, <1>2, <1>3, BillingInvariant, DebitInvariant, PTL DEF Spec
=============================================================================
