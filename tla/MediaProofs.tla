---------------------------- MODULE MediaProofs ----------------------------
(***************************************************************************)
(* What holds of uploads and of their collection for any number of         *)
(* tenants, files, handlers and collectors, as long as no request outlives *)
(* the grace period.                                                       *)
(***************************************************************************)
EXTENDS Media, FiniteSetTheorems, TLAPS

Pcs == {"idle", "put", "complete", "release", "saved", "image", "assets", "objects"}
Asset == [state : {"none", "pending", "ready"}, token : Handlers \cup {Nobody}, updated : Int]
Work == [tenant : Tenants, file : Files \cup {NoFile}, existing : BOOLEAN]
RowOf(h) == asset[work[h].tenant][work[h].file]

\* Times of rows and of queue entries are times of the clock.
Dated ==
  /\ \A t \in Tenants, f \in Files : asset[t][f].state # "none" => asset[t][f].updated \in Nat
  /\ \A f \in Files : queue[f] # Never => queue[f] \in Nat

\* A request is for a file, and neither it nor a cycle is older than Life.
InTime ==
  /\ \A h \in Handlers : pc[h] # "idle" => work[h].file \in Files
  /\ \A a \in Actors : pc[a] # "idle" => /\ clock[a] \in Nat
                                         /\ clock[a] <= now /\ now <= clock[a] + Life

\* The row of an upload is its own, and is not older than the request.
Uploading(h) == pc[h] \in {"put", "complete"} /\ ~work[h].existing
Relying(h) == pc[h] = "saved" \/ (pc[h] = "put" /\ work[h].existing)
ReservedBy(h) ==
  /\ Uploading(h) => RowOf(h).state = "pending" /\ RowOf(h).token = h /\ RowOf(h).updated >= clock[h]
  /\ Relying(h) => RowOf(h).state = "ready" /\ RowOf(h).updated >= clock[h]
  /\ pc[h] = "complete" => ~work[h].existing /\ work[h].file \in objects
  /\ pc[h] \in Pcs \ {"assets", "objects"}
Reserved == \A h \in Handlers : ReservedBy(h)

UploadInv == TypeOK /\ Dated /\ InTime /\ Reserved /\ ReadyHasObject /\ NothingLeaks
----------------------------------------------------------------------------
(* The ledgers and the queue. *)

LEMMA PcsType ==
  /\ TypeOK => /\ pc \in [Actors -> Pcs] /\ work \in [Handlers -> Work]
               /\ asset \in [Tenants -> [Files -> Asset]]
  /\ Nobody \notin Handlers /\ NoFile \notin Files
  BY TenantAssumption DEF TypeOK, Pcs, Work, Asset

LEMMA LessNat ==
  ASSUME NEW n \in Nat
  PROVE  Less(n) \in Nat /\ (n > 0 => Less(n) = n - 1)
<1> DEFINE S == {n - 1, 0}
<1>1. \E x \in S : \A y \in S : x >= y
  <2>1. CASE n = 0
    BY <2>1
  <2>2. CASE n > 0
    <3>1. n - 1 >= 0 /\ n - 1 >= n - 1
      BY <2>2
    <3> QED BY <3>1
  <2> QED BY <2>1, <2>2
<1>2. Less(n) = CHOOSE x \in S : \A y \in S : x >= y
  BY DEF Less, Max
<1>3. PICK m : m = Less(n) /\ m \in S /\ \A y \in S : m >= y
  BY <1>1, <1>2
<1>4. m \in {n - 1, 0} /\ m >= n - 1 /\ m >= 0
  BY <1>3
<1> QED BY <1>3, <1>4

LEMMA EarliestNat ==
  ASSUME NEW time \in Nat, NEW old \in Nat \cup {Never}
  PROVE  Earliest(old, time) \in Nat
<1>1. CASE old = Never
  BY <1>1 DEF Earliest
<1>2. CASE old # Never
  <2> DEFINE S == {old, time}
  <2>0. old \in Nat
    BY <1>2
  <2>1. \E x \in S : \A y \in S : x <= y
    <3>1. CASE old <= time
      BY <2>0, <3>1
    <3>2. CASE time <= old
      BY <2>0, <3>2
    <3> QED BY <2>0, <3>1, <3>2
  <2>2. Earliest(old, time) = CHOOSE x \in S : \A y \in S : x <= y
    BY <1>2 DEF Earliest, Min
  <2>3. Earliest(old, time) \in S
    BY <2>1, <2>2
  <2> QED BY <2>0, <2>3
<1> QED BY <1>1, <1>2

LEMMA MinNat ==
  ASSUME NEW a \in Nat, NEW b \in Nat
  PROVE  Min({a, b}) \in Nat
<1>1. a # Never
  BY DEF Never
<1>2. Earliest(a, b) = Min({a, b})
  BY <1>1 DEF Earliest
<1> QED BY <1>2, EarliestNat

LEMMA LedgerTypes ==
  ASSUME TypeOK, NEW t \in Tenants, Refund(t) \/ Charge(t)
  PROVE  usage' \in [Personal -> Nat] /\ space' \in [Tenants -> Nat]
<1>1. usage \in [Personal -> Nat] /\ space \in [Tenants -> Nat]
  BY DEF TypeOK
<1>2. Less(space[t]) \in Nat /\ (t \in Personal => Less(usage[t]) \in Nat)
  BY <1>1, LessNat
<1>3. CASE Refund(t)
  BY <1>1, <1>2, <1>3 DEF Refund
<1>4. CASE Charge(t)
  BY <1>1, <1>4 DEF Charge
<1> QED BY <1>3, <1>4

\* A dropped row is gone, its file is queued, and nothing else changed.
LEMMA DropRow ==
  ASSUME TypeOK, Dated, NEW t \in Tenants, NEW f \in Files, NEW time \in Nat, Drop(t, f, time)
  PROVE  /\ asset' \in [Tenants -> [Files -> Asset]] /\ asset'[t][f].state = "none"
         /\ asset'[t][f].token = Nobody
         /\ \A u \in Tenants, g \in Files : u # t \/ g # f => asset'[u][g] = asset[u][g]
         /\ queue' \in [Files -> Int] /\ queue'[f] \in Nat
         /\ \A g \in Files : g # f => queue'[g] = queue[g]
         /\ usage' \in [Personal -> Nat] /\ space' \in [Tenants -> Nat]
<1>1. asset \in [Tenants -> [Files -> Asset]] /\ queue \in [Files -> Int]
  BY PcsType DEF TypeOK
<1>2. NoAsset \in Asset /\ NoAsset.state = "none" /\ NoAsset.token = Nobody
  BY DEF NoAsset, Asset, Never
<1>3. asset' = [asset EXCEPT ![t][f] = NoAsset]
  BY DEF Drop
<1>4. queue[f] \in Nat \cup {Never}
  BY DEF Dated
<1>5. Earliest(queue[f], time) \in Nat
  BY <1>4, EarliestNat
<1>6. queue' = [queue EXCEPT ![f] = Earliest(queue[f], time)]
  BY DEF Drop
<1>7. usage' \in [Personal -> Nat] /\ space' \in [Tenants -> Nat]
  BY LedgerTypes DEF Drop
<1>8. queue' \in [Files -> Int] /\ queue'[f] \in Nat
      /\ \A g \in Files : g # f => queue'[g] = queue[g]
  BY <1>1, <1>5, <1>6
<1>9. /\ asset' \in [Tenants -> [Files -> Asset]] /\ asset'[t][f] = NoAsset
      /\ \A u \in Tenants, g \in Files : u # t \/ g # f => asset'[u][g] = asset[u][g]
  BY <1>1, <1>2, <1>3
<1> QED BY <1>2, <1>7, <1>8, <1>9

\* A row that is written, and nothing else.
LEMMA WriteRow ==
  ASSUME TypeOK, NEW t \in Tenants, NEW f \in Files, NEW row \in Asset,
         asset' = [asset EXCEPT ![t][f] = row]
  PROVE  /\ asset' \in [Tenants -> [Files -> Asset]] /\ asset'[t][f] = row
         /\ \A u \in Tenants, g \in Files : u # t \/ g # f => asset'[u][g] = asset[u][g]
<1>1. asset \in [Tenants -> [Files -> Asset]]
  BY PcsType
<1> QED BY <1>1

LEMMA ForgottenRows ==
  ASSUME TypeOK, NEW lost \in SUBSET Handlers, asset' = Forgotten(lost)
  PROVE  /\ asset' \in [Tenants -> [Files -> Asset]]
         /\ \A t \in Tenants, f \in Files :
              /\ asset'[t][f].state = asset[t][f].state
              /\ asset'[t][f].updated = asset[t][f].updated
              /\ asset[t][f].token \notin lost => asset'[t][f] = asset[t][f]
              /\ asset[t][f].token \in lost => asset'[t][f].token = Nobody
<1>1. asset \in [Tenants -> [Files -> Asset]]
  BY PcsType
<1>2. ASSUME NEW t \in Tenants, NEW f \in Files
      PROVE  /\ asset[t][f] \in Asset
             /\ [asset[t][f] EXCEPT !.token = Nobody] \in Asset
             /\ [asset[t][f] EXCEPT !.token = Nobody].token = Nobody
             /\ [asset[t][f] EXCEPT !.token = Nobody].state = asset[t][f].state
             /\ [asset[t][f] EXCEPT !.token = Nobody].updated = asset[t][f].updated
  BY <1>1, <1>2 DEF Asset
<1>3. asset' = [t \in Tenants |-> [f \in Files |->
    IF asset[t][f].token \in lost THEN [asset[t][f] EXCEPT !.token = Nobody] ELSE asset[t][f]]]
  BY DEF Forgotten
<1>4. ASSUME NEW t \in Tenants, NEW f \in Files
      PROVE  asset'[t][f] = IF asset[t][f].token \in lost
                            THEN [asset[t][f] EXCEPT !.token = Nobody] ELSE asset[t][f]
  BY <1>3
<1>5. asset' \in [Tenants -> [Files -> Asset]]
  <2> DEFINE G(t) == [f \in Files |-> IF asset[t][f].token \in lost
                       THEN [asset[t][f] EXCEPT !.token = Nobody] ELSE asset[t][f]]
  <2>1. asset' = [t \in Tenants |-> G(t)]
    BY <1>3
  <2>2. \A t \in Tenants : G(t) \in [Files -> Asset]
    BY <1>2
  <2> HIDE DEF G
  <2> QED BY <2>1, <2>2
<1>6. ASSUME NEW t \in Tenants, NEW f \in Files
      PROVE  /\ asset'[t][f].state = asset[t][f].state
             /\ asset'[t][f].updated = asset[t][f].updated
             /\ asset[t][f].token \notin lost => asset'[t][f] = asset[t][f]
             /\ asset[t][f].token \in lost => asset'[t][f].token = Nobody
  <2> DEFINE bare == [asset[t][f] EXCEPT !.token = Nobody]
  <2>1. /\ bare.token = Nobody /\ bare.state = asset[t][f].state
        /\ bare.updated = asset[t][f].updated
    BY <1>2
  <2>2. asset'[t][f] = IF asset[t][f].token \in lost THEN bare ELSE asset[t][f]
    BY <1>4
  <2> HIDE DEF bare
  <2>3. CASE asset[t][f].token \in lost
    BY <2>1, <2>2, <2>3
  <2>4. CASE asset[t][f].token \notin lost
    BY <2>2, <2>4
  <2> QED BY <2>3, <2>4
<1> QED BY <1>5, <1>6
----------------------------------------------------------------------------
(* What a step of one actor leaves alone. *)

LEMMA TypeOKNext ==
  ASSUME asset' \in [Tenants -> [Files -> Asset]],
         \A t \in Tenants, f \in Files : asset'[t][f].state # "pending" => asset'[t][f].token = Nobody,
         usage' \in [Personal -> Nat], space' \in [Tenants -> Nat], queue' \in [Files -> Int],
         post' \in [Tenants -> [files : SUBSET Files, image : Files \cup {NoFile}]],
         objects' \subseteq Files, now' \in Nat, failures' \in Nat,
         pc' \in [Actors -> Pcs], work' \in [Handlers -> Work],
         todo' \in [Cleaners -> SUBSET (Tenants \X Files)], clock' \in [Actors -> Int]
  PROVE  TypeOK'
  BY DEF TypeOK, Asset, Pcs, Work

LEMMA Moves ==
  ASSUME TypeOK, NEW h \in Handlers, NEW next \in Pcs, Goto(h, next)
  PROVE  /\ pc' \in [Actors -> Pcs] /\ pc'[h] = next
         /\ \A a \in Actors : a # h => pc'[a] = pc[a]
         /\ UNCHANGED <<work, todo, clock>>
  BY PcsType DEF Goto, Actors

LEMMA Finishes ==
  ASSUME TypeOK, NEW h \in Handlers, Finish(h)
  PROVE  /\ pc' \in [Actors -> Pcs] /\ pc'[h] = "idle"
         /\ work' \in [Handlers -> Work] /\ clock' \in [Actors -> Int]
         /\ \A a \in Actors : a # h => pc'[a] = pc[a] /\ clock'[a] = clock[a]
         /\ \A g \in Handlers : g # h => work'[g] = work[g]
         /\ UNCHANGED todo
<1>1. /\ pc \in [Actors -> Pcs] /\ work \in [Handlers -> Work] /\ clock \in [Actors -> Int]
      /\ h \in Actors /\ "idle" \in Pcs /\ Never \in Int
  BY PcsType DEF TypeOK, Actors, Pcs, Never
<1>2. NoWork \in Work
  <2>1. work[h].tenant \in Tenants
    BY <1>1 DEF Work
  <2>2. (CHOOSE t \in Tenants : TRUE) \in Tenants
    BY <2>1
  <2> QED BY <2>2 DEF NoWork, Work
<1>3. /\ pc' = [pc EXCEPT ![h] = "idle"] /\ work' = [work EXCEPT ![h] = NoWork]
      /\ clock' = [clock EXCEPT ![h] = Never] /\ UNCHANGED todo
  BY DEF Finish
<1> QED BY <1>1, <1>2, <1>3

\* Everybody but one actor keeps its place, and finds its row as it needs it.
LEMMA Bystanders ==
  ASSUME UploadInv, NEW a \in Actors,
         \A b \in Actors : b # a => pc'[b] = pc[b] /\ clock'[b] = clock[b],
         \A g \in Handlers : g # a => work'[g] = work[g],
         now' = now,
         \A g \in Handlers : g # a /\ Uploading(g) =>
           asset'[work[g].tenant][work[g].file] = RowOf(g),
         \A g \in Handlers : g # a /\ Relying(g) =>
           /\ asset'[work[g].tenant][work[g].file].state = "ready"
           /\ asset'[work[g].tenant][work[g].file].updated >= clock[g],
         \A g \in Handlers : g # a /\ pc[g] = "complete" => work[g].file \in objects',
         a \in Handlers => ReservedBy(a)',
         pc'[a] # "idle" => /\ clock'[a] \in Nat /\ clock'[a] <= now /\ now <= clock'[a] + Life
                            /\ a \in Handlers => work'[a].file \in Files
  PROVE  Reserved' /\ InTime'
<1>1. ASSUME NEW g \in Handlers, g # a
      PROVE  ReservedBy(g)'
  <2>1. g \in Actors /\ pc'[g] = pc[g] /\ clock'[g] = clock[g] /\ work'[g] = work[g]
    BY <1>1 DEF Actors
  <2>2. ReservedBy(g)
    BY DEF UploadInv, Reserved
  <2>3. (Uploading(g)' <=> Uploading(g)) /\ (Relying(g)' <=> Relying(g))
    BY <2>1 DEF Uploading, Relying
  <2>4. Uploading(g) => RowOf(g)' = RowOf(g)
    BY <1>1, <2>1 DEF RowOf
  <2>5. Relying(g) => RowOf(g)'.state = "ready" /\ RowOf(g)'.updated >= clock'[g]
    BY <1>1, <2>1 DEF RowOf
  <2> QED BY <1>1, <2>1, <2>2, <2>3, <2>4, <2>5 DEF ReservedBy
<1>2. Reserved'
  BY <1>1 DEF Reserved
<1>3. InTime
  BY DEF UploadInv
<1>4. ASSUME NEW b \in Actors, pc'[b] # "idle"
      PROVE  clock'[b] \in Nat /\ clock'[b] <= now' /\ now' <= clock'[b] + Life
  BY <1>3, <1>4 DEF InTime
<1>5. ASSUME NEW g \in Handlers, pc'[g] # "idle"
      PROVE  work'[g].file \in Files
  BY <1>3, <1>5 DEF InTime, Actors
<1> QED BY <1>2, <1>4, <1>5 DEF InTime

LEMMA WorkOf ==
  ASSUME UploadInv, NEW h \in Handlers, pc[h] # "idle"
  PROVE  /\ h \in Actors /\ work[h].tenant \in Tenants /\ work[h].file \in Files
         /\ clock[h] \in Nat /\ clock[h] <= now /\ now <= clock[h] + Life
         /\ RowOf(h) \in Asset /\ ReservedBy(h)
<1>1. TypeOK /\ InTime /\ Reserved
  BY DEF UploadInv
<1>2. work[h] \in Work /\ asset \in [Tenants -> [Files -> Asset]] /\ h \in Actors
  BY <1>1, PcsType DEF Actors
<1> QED BY <1>1, <1>2 DEF InTime, Reserved, RowOf, Work

\* Steps that touch no row and no object.
LEMMA Quiet ==
  ASSUME UploadInv, NEW a \in Actors, UNCHANGED <<db, objects, now>>,
         pc' \in [Actors -> Pcs], work' \in [Handlers -> Work], clock' \in [Actors -> Int],
         todo' \in [Cleaners -> SUBSET (Tenants \X Files)], failures' \in Nat,
         post' \in [Tenants -> [files : SUBSET Files, image : Files \cup {NoFile}]],
         \A b \in Actors : b # a => pc'[b] = pc[b] /\ clock'[b] = clock[b],
         \A g \in Handlers : g # a => work'[g] = work[g],
         a \in Handlers => ReservedBy(a)',
         pc'[a] # "idle" => /\ clock'[a] \in Nat /\ clock'[a] <= now /\ now <= clock'[a] + Life
                            /\ a \in Handlers => work'[a].file \in Files
  PROVE  UploadInv'
<1>1. TypeOK /\ Dated /\ ReadyHasObject /\ NothingLeaks /\ Reserved
  BY DEF UploadInv
<1>2. UNCHANGED <<asset, usage, space, queue, objects, now>>
  BY DEF db
<1>3. /\ asset \in [Tenants -> [Files -> Asset]] /\ queue \in [Files -> Int]
      /\ usage \in [Personal -> Nat] /\ space \in [Tenants -> Nat]
      /\ objects \subseteq Files /\ now \in Nat
      /\ \A t \in Tenants, f \in Files : asset[t][f].state # "pending" => asset[t][f].token = Nobody
  BY <1>1, PcsType DEF TypeOK
<1>4. TypeOK'
  BY <1>2, <1>3, TypeOKNext
<1>5. \A g \in Handlers : ReservedBy(g)
  BY <1>1 DEF Reserved
<1>6. Reserved' /\ InTime'
  <2>1. \A g \in Handlers : g # a /\ Uploading(g) =>
           asset'[work[g].tenant][work[g].file] = RowOf(g)
    BY <1>2 DEF RowOf
  <2>2. \A g \in Handlers : g # a /\ Relying(g) =>
           /\ asset'[work[g].tenant][work[g].file].state = "ready"
           /\ asset'[work[g].tenant][work[g].file].updated >= clock[g]
    BY <1>2, <1>5 DEF RowOf, ReservedBy
  <2>3. \A g \in Handlers : g # a /\ pc[g] = "complete" => work[g].file \in objects'
    BY <1>2, <1>5 DEF ReservedBy
  <2> QED BY <1>2, <2>1, <2>2, <2>3, Bystanders
<1>7. Dated' /\ ReadyHasObject' /\ NothingLeaks'
  BY <1>1, <1>2 DEF Dated, ReadyHasObject, NothingLeaks, Owners
<1> QED BY <1>4, <1>6, <1>7 DEF UploadInv

\* An actor that is through with its work.
LEMMA IdleReserved ==
  ASSUME NEW h \in Handlers, pc'[h] = "idle"
  PROVE  ReservedBy(h)'
  BY DEF ReservedBy, Uploading, Relying, Pcs

LEMMA FailNat ==
  ASSUME TypeOK, NEW kind, Fail(kind) \/ NoFailure
  PROVE  failures' \in Nat
  BY DEF TypeOK, Fail, NoFailure

LEMMA ShowsType ==
  ASSUME TypeOK, NEW t \in Tenants, NEW files \in SUBSET Files, Shows(t, files)
  PROVE  post' \in [Tenants -> [files : SUBSET Files, image : Files \cup {NoFile}]]
<1>1. post \in [Tenants -> [files : SUBSET Files, image : Files \cup {NoFile}]]
  BY DEF TypeOK
<1>2. PICK image \in files \cup {NoFile} :
        post' = [post EXCEPT ![t] = [files |-> files, image |-> image]]
  BY DEF Shows
<1>3. [files |-> files, image |-> image] \in [files : SUBSET Files, image : Files \cup {NoFile}]
  BY <1>2
<1> QED BY <1>1, <1>2, <1>3

\* Requests that end without touching a row: Attach, Leave and WriteImage.
LEMMA EndStep ==
  ASSUME UploadInv, NEW h \in Handlers, Attach(h) \/ Leave(h) \/ WriteImage(h)
  PROVE  UploadInv'
<1>1. TypeOK /\ pc[h] # "idle"
  BY DEF UploadInv, Attach, Leave, WriteImage
<1>2. Finish(h) /\ NoFailure /\ UNCHANGED <<db, objects, now>> /\ h \in Actors
  BY DEF Attach, Leave, WriteImage, Actors
<1>3. work[h].tenant \in Tenants /\ work[h].file \in Files
  BY <1>1, WorkOf
<1>4. post \in [Tenants -> [files : SUBSET Files, image : Files \cup {NoFile}]]
  BY <1>1 DEF TypeOK
<1>5. post' \in [Tenants -> [files : SUBSET Files, image : Files \cup {NoFile}]]
  <2>1. CASE Attach(h)
    <3> DEFINE t == work[h].tenant
               f == work[h].file
    <3>1. PICK old \in post[t].files \cup {NoFile} : Shows(t, (post[t].files \ {old}) \cup {f})
      BY <2>1 DEF Attach
    <3>2. (post[t].files \ {old}) \cup {f} \in SUBSET Files
      BY <1>3, <1>4
    <3> QED BY <1>1, <1>3, <3>1, <3>2, ShowsType
  <2>2. CASE Leave(h)
    BY <1>4, <2>2 DEF Leave
  <2>3. CASE WriteImage(h)
    <3>1. post' = [post EXCEPT ![work[h].tenant].image = work[h].file]
      BY <2>3 DEF WriteImage
    <3>2. [post[work[h].tenant] EXCEPT !.image = work[h].file]
            \in [files : SUBSET Files, image : Files \cup {NoFile}]
      BY <1>3, <1>4
    <3> QED BY <1>3, <1>4, <3>1, <3>2
  <2> QED BY <2>1, <2>2, <2>3
<1>6. /\ pc' \in [Actors -> Pcs] /\ pc'[h] = "idle" /\ work' \in [Handlers -> Work]
      /\ clock' \in [Actors -> Int] /\ UNCHANGED todo
      /\ \A a \in Actors : a # h => pc'[a] = pc[a] /\ clock'[a] = clock[a]
      /\ \A g \in Handlers : g # h => work'[g] = work[g]
  BY <1>1, <1>2, Finishes
<1>7. todo' \in [Cleaners -> SUBSET (Tenants \X Files)] /\ failures' \in Nat
  BY <1>1, <1>2, <1>6, FailNat DEF TypeOK
<1>8. ReservedBy(h)'
  BY <1>6, IdleReserved
<1> QED BY <1>2, <1>5, <1>6, <1>7, <1>8, Quiet
----------------------------------------------------------------------------
(* Uploads. *)

\* A handler changes a row nobody else is uploading, and never to the worse.
LEMMA RowStep ==
  ASSUME UploadInv, NEW h \in Handlers, NEW t \in Tenants, NEW f \in Files,
         asset' \in [Tenants -> [Files -> Asset]],
         \A u \in Tenants, g \in Files : u # t \/ g # f => asset'[u][g] = asset[u][g],
         asset[t][f].state = "pending" => asset[t][f].token = h,
         asset[t][f].state = "ready" => /\ asset'[t][f].state = "ready"
                                        /\ asset'[t][f].updated >= now,
         objects \subseteq objects', now' = now,
         \A b \in Actors : b # h => pc'[b] = pc[b] /\ clock'[b] = clock[b],
         \A g \in Handlers : g # h => work'[g] = work[g],
         ReservedBy(h)',
         pc'[h] # "idle" => /\ clock'[h] \in Nat /\ clock'[h] <= now /\ now <= clock'[h] + Life
                            /\ work'[h].file \in Files
  PROVE  Reserved' /\ InTime'
<1>1. h \in Actors /\ asset \in [Tenants -> [Files -> Asset]]
  BY PcsType DEF UploadInv, Actors
<1>2. ASSUME NEW g \in Handlers, g # h, Uploading(g)
      PROVE  asset'[work[g].tenant][work[g].file] = RowOf(g)
  <2>1. pc[g] # "idle"
    BY <1>2 DEF Uploading
  <2>2. work[g].tenant \in Tenants /\ work[g].file \in Files /\ ReservedBy(g)
    BY <2>1, WorkOf
  <2>3. RowOf(g).state = "pending" /\ RowOf(g).token = g
    BY <1>2, <2>2 DEF ReservedBy
  <2> QED BY <1>2, <2>2, <2>3 DEF RowOf
<1>3. ASSUME NEW g \in Handlers, g # h, Relying(g)
      PROVE  /\ asset'[work[g].tenant][work[g].file].state = "ready"
             /\ asset'[work[g].tenant][work[g].file].updated >= clock[g]
  <2>1. pc[g] # "idle"
    BY <1>3 DEF Relying
  <2>2. /\ work[g].tenant \in Tenants /\ work[g].file \in Files /\ ReservedBy(g)
        /\ clock[g] \in Nat /\ clock[g] <= now /\ now \in Nat
    BY <2>1, WorkOf DEF UploadInv, TypeOK
  <2>3. RowOf(g).state = "ready" /\ RowOf(g).updated >= clock[g]
    BY <1>3, <2>2 DEF ReservedBy
  <2>4. CASE work[g].tenant = t /\ work[g].file = f
    <3>1. asset[t][f].state = "ready" /\ asset'[t][f].updated \in Int
      BY <2>3, <2>4 DEF RowOf, Asset
    <3> QED BY <2>2, <2>4, <3>1
  <2>5. CASE work[g].tenant # t \/ work[g].file # f
    BY <2>2, <2>3, <2>5 DEF RowOf
  <2> QED BY <2>4, <2>5
<1>4. ASSUME NEW g \in Handlers, g # h, pc[g] = "complete"
      PROVE  work[g].file \in objects'
  <2>1. ReservedBy(g)
    BY DEF UploadInv, Reserved
  <2> QED BY <1>4, <2>1 DEF ReservedBy
<1> QED BY <1>1, <1>2, <1>3, <1>4, Bystanders

LEMMA ReserveStep ==
  ASSUME UploadInv, NEW h \in Handlers, NEW t \in Tenants, NEW f \in Files, Reserve(h, t, f)
  PROVE  UploadInv'
<1> DEFINE fresh == [state |-> "pending", token |-> h, updated |-> now]
           kept == [asset[t][f] EXCEPT !.updated = now]
           request == [tenant |-> t, file |-> f, existing |-> asset[t][f].state = "ready"]
<1>1. /\ TypeOK /\ Dated /\ ReadyHasObject /\ NothingLeaks
      /\ now \in Nat /\ h \in Actors /\ Life \in Nat
  BY DurationAssumption DEF UploadInv, TypeOK, Actors
<1>2. /\ asset \in [Tenants -> [Files -> Asset]] /\ asset[t][f] \in Asset
      /\ work \in [Handlers -> Work] /\ pc \in [Actors -> Pcs] /\ clock \in [Actors -> Int]
      /\ queue \in [Files -> Int] /\ objects \subseteq Files
      /\ \A u \in Tenants, g \in Files : asset[u][g].state # "pending" => asset[u][g].token = Nobody
  BY <1>1, PcsType DEF TypeOK
<1>3. /\ queue' = [queue EXCEPT ![f] = Never] /\ work' = [work EXCEPT ![h] = request]
      /\ clock' = [clock EXCEPT ![h] = now] /\ NoFailure
      /\ UNCHANGED <<post, objects, now, todo>>
  BY DEF Reserve
<1>4. /\ fresh \in Asset /\ kept \in Asset /\ request \in Work /\ Never \in Int
      /\ fresh.state = "pending" /\ fresh.token = h /\ fresh.updated = now
      /\ kept.state = asset[t][f].state /\ kept.token = asset[t][f].token /\ kept.updated = now
      /\ {"put", "saved"} \subseteq Pcs \ {"assets", "objects"}
  <2>1. fresh \in Asset /\ Never \in Int
    <3>1. "pending" \in {"none", "pending", "ready"} /\ h \in Handlers \cup {Nobody} /\ now \in Int
      BY <1>1
    <3> QED BY <3>1 DEF Asset, Never
  <2>5. kept \in Asset
    <3>1. now \in Int
      BY <1>1
    <3> QED BY <1>2, <3>1 DEF Asset
  <2>2. request \in Work
    <3>1. (asset[t][f].state = "ready") \in BOOLEAN
      OBVIOUS
    <3> QED BY <3>1 DEF Work
  <2>3. kept.state = asset[t][f].state /\ kept.token = asset[t][f].token /\ kept.updated = now
    BY <1>2 DEF Asset
  <2>4. {"put", "saved"} \subseteq Pcs \ {"assets", "objects"}
    BY DEF Pcs
  <2> QED BY <2>1, <2>2, <2>3, <2>4, <2>5
<1>5. PICK row \in {fresh, kept} :
        /\ asset' = [asset EXCEPT ![t][f] = row]
        /\ row = fresh => asset[t][f].state = "none"
        /\ row.state = "pending" => ~request.existing /\ pc' = [pc EXCEPT ![h] = "put"] /\ row = fresh
        /\ row.state # "pending" => /\ request.existing /\ row = kept /\ row.state = "ready"
                                    /\ asset[t][f].state = "ready"
                                    /\ pc' \in {[pc EXCEPT ![h] = "put"], [pc EXCEPT ![h] = "saved"]}
        /\ usage' \in [Personal -> Nat] /\ space' \in [Tenants -> Nat]
  <2>1. CASE NewReservation(h, t, f)
    BY <1>1, <1>2, <2>1, LedgerTypes DEF NewReservation
  <2>2. CASE ExistingReservation(h, t, f)
    <3>1. /\ asset[t][f].state = "ready" /\ UNCHANGED <<usage, space>>
          /\ asset' = [asset EXCEPT ![t][f] = kept]
          /\ pc' \in {[pc EXCEPT ![h] = "put"], [pc EXCEPT ![h] = "saved"]}
      BY <1>2, <2>2 DEF ExistingReservation
    <3>2. kept.state = "ready" /\ kept # fresh
      BY <1>4, <3>1
    <3>3. usage' \in [Personal -> Nat] /\ space' \in [Tenants -> Nat]
      BY <1>1, <3>1 DEF TypeOK
    <3> HIDE DEF kept, fresh
    <3> QED BY <3>1, <3>2, <3>3
  <2> QED BY <2>1, <2>2 DEF Reserve
<1>6. /\ row \in Asset /\ row.updated = now
      /\ row.state = "pending" => row.token = h
      /\ row.state # "pending" => row.token = Nobody
  <2>1. CASE row = fresh
    BY <1>4, <2>1
  <2>2. CASE row = kept /\ row # fresh
    <3>1. asset[t][f].state = "ready" /\ asset[t][f].token = Nobody
      BY <1>2, <1>5, <2>2
    <3> HIDE DEF kept, fresh
    <3> QED BY <1>4, <2>2, <3>1
  <2> QED BY <2>1, <2>2
<1> HIDE DEF fresh, kept
<1>7. /\ asset' \in [Tenants -> [Files -> Asset]] /\ asset'[t][f] = row
      /\ \A u \in Tenants, g \in Files : u # t \/ g # f => asset'[u][g] = asset[u][g]
  BY <1>1, <1>5, <1>6, WriteRow, ZenonT(60)
<1>8. /\ pc' \in [Actors -> Pcs] /\ pc'[h] \in {"put", "saved"}
      /\ work' \in [Handlers -> Work] /\ work'[h] = request
      /\ clock' \in [Actors -> Int] /\ clock'[h] = now
      /\ \A b \in Actors : b # h => pc'[b] = pc[b] /\ clock'[b] = clock[b]
      /\ \A g \in Handlers : g # h => work'[g] = work[g]
      /\ row.state = "pending" => pc'[h] = "put"
  <2> HIDE DEF request
  <2>1. /\ work' \in [Handlers -> Work] /\ work'[h] = request
        /\ \A g \in Handlers : g # h => work'[g] = work[g]
    BY <1>2, <1>3, <1>4
  <2>2. /\ clock' \in [Actors -> Int] /\ clock'[h] = now
        /\ \A b \in Actors : b # h => clock'[b] = clock[b]
    BY <1>1, <1>2, <1>3
  <2>3. PICK next \in {"put", "saved"} :
          pc' = [pc EXCEPT ![h] = next] /\ (row.state = "pending" => next = "put")
    BY <1>5
  <2>4. next \in Pcs
    BY <1>4
  <2>5. /\ pc' \in [Actors -> Pcs] /\ pc'[h] = next
        /\ \A b \in Actors : b # h => pc'[b] = pc[b]
    BY <1>1, <1>2, <2>3, <2>4
  <2> QED BY <2>1, <2>2, <2>3, <2>5
<1>9. TypeOK'
  <2>1. failures' \in Nat
    BY <1>1, <1>3, FailNat
  <2>2. /\ post' \in [Tenants -> [files : SUBSET Files, image : Files \cup {NoFile}]]
        /\ objects' \subseteq Files /\ now' \in Nat
        /\ todo' \in [Cleaners -> SUBSET (Tenants \X Files)] /\ queue' \in [Files -> Int]
    BY <1>1, <1>2, <1>3, <1>4 DEF TypeOK
  <2>3. \A u \in Tenants, g \in Files : asset'[u][g].state # "pending" => asset'[u][g].token = Nobody
    BY <1>2, <1>6, <1>7
  <2> QED BY <1>5, <1>7, <1>8, <2>1, <2>2, <2>3, TypeOKNext
<1>10. RowOf(h)' = row /\ work'[h].file = f /\ (work'[h].existing <=> row.state # "pending")
  BY <1>5, <1>7, <1>8 DEF RowOf
<1>11. ReservedBy(h)'
  BY <1>1, <1>4, <1>5, <1>6, <1>8, <1>10 DEF ReservedBy, Uploading, Relying
<1>12. Reserved' /\ InTime'
  <2>1. asset[t][f].state # "pending"
    BY <1>4, <1>5
  <2>2. asset[t][f].state = "ready" => /\ asset'[t][f].state = "ready"
                                       /\ asset'[t][f].updated >= now
    BY <1>1, <1>5, <1>6, <1>7
  <2> QED BY <1>1, <1>3, <1>7, <1>8, <1>10, <1>11, <2>1, <2>2, RowStep, SMTT(30)
<1>13. Dated'
  BY <1>1, <1>3, <1>6, <1>7 DEF Dated
<1>14. ReadyHasObject'
  BY <1>1, <1>3, <1>5, <1>7 DEF ReadyHasObject
<1>15. NothingLeaks'
  <2>1. t \in Owners(f)'
    BY <1>5, <1>7 DEF Owners
  <2>2. \A g \in Files : g # f => Owners(g)' = Owners(g)
    BY <1>7 DEF Owners
  <2>3. \A g \in Files : g # f => queue'[g] = queue[g]
    BY <1>2, <1>3
  <2> QED BY <1>1, <1>2, <1>3, <2>1, <2>2, <2>3 DEF NothingLeaks
<1> QED BY <1>9, <1>12, <1>13, <1>14, <1>15 DEF UploadInv

\* The storage call of an upload, whether it succeeds or not.
LEMMA PutStep ==
  ASSUME UploadInv, NEW h \in Handlers, Put(h) \/ PutFails(h)
  PROVE  UploadInv'
<1> DEFINE f == work[h].file
<1>1. /\ TypeOK /\ Dated /\ ReadyHasObject /\ NothingLeaks /\ pc[h] = "put"
      /\ UNCHANGED <<asset, usage, space, queue, post, now>>
  BY DEF UploadInv, Put, PutFails, db
<1>2. /\ h \in Actors /\ work[h].tenant \in Tenants /\ f \in Files /\ ReservedBy(h)
      /\ clock[h] \in Nat /\ clock[h] <= now /\ now <= clock[h] + Life
  BY <1>1, WorkOf
<1>3. objects \subseteq objects' /\ objects' \subseteq objects \cup {f} /\ failures' \in Nat
  BY <1>1, FailNat DEF Put, PutFails
<1>4. \/ Finish(h)
      \/ Goto(h, "saved") /\ work[h].existing
      \/ Goto(h, "complete") /\ ~work[h].existing /\ f \in objects'
      \/ Goto(h, "release")
  BY DEF Put, PutFails
<1>5. {"saved", "complete", "release", "idle"} \subseteq Pcs
  BY DEF Pcs
<1>6. /\ pc' \in [Actors -> Pcs] /\ work' \in [Handlers -> Work] /\ clock' \in [Actors -> Int]
      /\ todo' \in [Cleaners -> SUBSET (Tenants \X Files)]
      /\ \A b \in Actors : b # h => pc'[b] = pc[b] /\ clock'[b] = clock[b]
      /\ \A g \in Handlers : g # h => work'[g] = work[g]
      /\ pc'[h] \in {"saved", "complete", "release", "idle"}
      /\ pc'[h] # "idle" => work'[h] = work[h] /\ clock'[h] = clock[h]
      /\ pc'[h] = "saved" => work[h].existing
      /\ pc'[h] = "complete" => ~work[h].existing /\ f \in objects'
  <2>1. /\ work \in [Handlers -> Work] /\ clock \in [Actors -> Int]
        /\ todo \in [Cleaners -> SUBSET (Tenants \X Files)]
    BY <1>1, PcsType DEF TypeOK
  <2>2. CASE Finish(h)
    BY <1>1, <2>1, <2>2, Finishes
  <2>3. CASE Goto(h, "saved") /\ work[h].existing
    BY <1>1, <1>5, <2>1, <2>3, Moves
  <2>4. CASE Goto(h, "complete") /\ ~work[h].existing /\ f \in objects'
    BY <1>1, <1>5, <2>1, <2>4, Moves
  <2>5. CASE Goto(h, "release")
    BY <1>1, <1>5, <2>1, <2>5, Moves
  <2> QED BY <1>4, <2>2, <2>3, <2>4, <2>5
<1>7. RowOf(h).state # "none"
  BY <1>1, <1>2 DEF ReservedBy, Uploading, Relying
<1>8. ReservedBy(h)'
  <2>1. CASE pc'[h] \in {"idle", "release"}
    BY <2>1 DEF ReservedBy, Uploading, Relying, Pcs
  <2>2. CASE pc'[h] = "saved"
    <3>1. Relying(h) /\ RowOf(h)' = RowOf(h)
      BY <1>1, <1>6, <2>2 DEF Relying, RowOf
    <3> QED BY <1>2, <1>6, <2>2, <3>1 DEF ReservedBy, Uploading, Relying, Pcs
  <2>3. CASE pc'[h] = "complete"
    <3>1. Uploading(h) /\ RowOf(h)' = RowOf(h)
      BY <1>1, <1>6, <2>3 DEF Uploading, RowOf
    <3> QED BY <1>2, <1>6, <2>3, <3>1 DEF ReservedBy, Uploading, Relying, Pcs
  <2> QED BY <1>6, <2>1, <2>2, <2>3
<1>9. TypeOK'
  BY <1>1, <1>2, <1>3, <1>6, PcsType, TypeOKNext DEF TypeOK
<1>10. Reserved' /\ InTime'
  <2>1. \A g \in Handlers : ReservedBy(g)
    BY DEF UploadInv, Reserved
  <2>2. \A g \in Handlers : g # h /\ Uploading(g) =>
           asset'[work[g].tenant][work[g].file] = RowOf(g)
    BY <1>1 DEF RowOf
  <2>3. \A g \in Handlers : g # h /\ Relying(g) =>
           /\ asset'[work[g].tenant][work[g].file].state = "ready"
           /\ asset'[work[g].tenant][work[g].file].updated >= clock[g]
    BY <1>1, <2>1 DEF RowOf, ReservedBy
  <2>4. \A g \in Handlers : g # h /\ pc[g] = "complete" => work[g].file \in objects'
    BY <1>3, <2>1 DEF ReservedBy
  <2> QED BY <1>1, <1>2, <1>6, <1>8, <2>2, <2>3, <2>4, Bystanders
<1>11. Dated' /\ ReadyHasObject'
  BY <1>1, <1>3 DEF Dated, ReadyHasObject
<1>12. NothingLeaks'
  <2>1. work[h].tenant \in Owners(f)
    BY <1>2, <1>7 DEF Owners, RowOf
  <2> QED BY <1>1, <1>3, <2>1 DEF NothingLeaks, Owners
<1> QED BY <1>9, <1>10, <1>11, <1>12 DEF UploadInv

\* A handler that goes on without touching a row.
LEMMA GoOn ==
  ASSUME UploadInv, NEW h \in Handlers, pc[h] # "idle", Goto(h, "release"),
         UNCHANGED <<db, post, objects, now>>, failures' \in Nat
  PROVE  UploadInv'
<1>1. TypeOK /\ "release" \in Pcs
  BY DEF UploadInv, Pcs
<1>2. /\ pc' \in [Actors -> Pcs] /\ pc'[h] = "release" /\ UNCHANGED <<work, todo, clock>>
      /\ \A b \in Actors : b # h => pc'[b] = pc[b]
  BY <1>1, Moves
<1>3. /\ h \in Actors /\ work[h].file \in Files
      /\ clock[h] \in Nat /\ clock[h] <= now /\ now <= clock[h] + Life
  BY WorkOf
<1>4. /\ work' \in [Handlers -> Work] /\ clock' \in [Actors -> Int]
      /\ todo' \in [Cleaners -> SUBSET (Tenants \X Files)]
      /\ post' \in [Tenants -> [files : SUBSET Files, image : Files \cup {NoFile}]]
  BY <1>1, <1>2, PcsType DEF TypeOK
<1>5. ReservedBy(h)'
  BY <1>2 DEF ReservedBy, Uploading, Relying, Pcs
<1> QED BY <1>2, <1>3, <1>4, <1>5, Quiet

LEMMA CompleteStep ==
  ASSUME UploadInv, NEW h \in Handlers, Complete(h)
  PROVE  UploadInv'
<1> DEFINE t == work[h].tenant
           f == work[h].file
<1>1. /\ TypeOK /\ Dated /\ ReadyHasObject /\ NothingLeaks /\ pc[h] = "complete" /\ NoFailure
      /\ UNCHANGED <<usage, space, queue, post, objects, now>>
  BY DEF UploadInv, Complete
<1>2. /\ h \in Actors /\ t \in Tenants /\ f \in Files /\ ReservedBy(h)
      /\ clock[h] \in Nat /\ clock[h] <= now /\ now <= clock[h] + Life /\ now \in Nat
  BY <1>1, WorkOf DEF TypeOK
<1>3. failures' \in Nat
  BY <1>1, FailNat
<1>4. CASE Holds(h)
  <2>1. asset' = [asset EXCEPT ![t][f] = Ready(h)] /\ Goto(h, "saved") /\ "saved" \in Pcs
    BY <1>4 DEF Complete, Pcs
  <2>2. Ready(h) \in Asset /\ Ready(h).state = "ready" /\ Ready(h).token = Nobody /\ Ready(h).updated = now
    BY <1>2 DEF Ready, Asset
  <2>3. /\ asset' \in [Tenants -> [Files -> Asset]] /\ asset'[t][f] = Ready(h)
        /\ \A u \in Tenants, g \in Files : u # t \/ g # f => asset'[u][g] = asset[u][g]
    BY <1>1, <1>2, <2>1, <2>2, WriteRow, ZenonT(60)
  <2>4. /\ pc' \in [Actors -> Pcs] /\ pc'[h] = "saved" /\ UNCHANGED <<work, todo, clock>>
        /\ \A b \in Actors : b # h => pc'[b] = pc[b]
    BY <1>1, <2>1, Moves
  <2>5. asset[t][f].state = "pending" /\ asset[t][f].token = h /\ f \in objects
    BY <1>1, <1>2, <1>4 DEF Holds, ReservedBy
  <2>6. TypeOK'
    <3>1. \A u \in Tenants, g \in Files : asset'[u][g].state # "pending" => asset'[u][g].token = Nobody
      <4>1. \A u \in Tenants, g \in Files : asset[u][g].state # "pending" => asset[u][g].token = Nobody
        BY <1>1 DEF TypeOK
      <4> QED BY <2>2, <2>3, <4>1
    <3> QED BY <1>1, <1>3, <2>3, <2>4, <3>1, PcsType, TypeOKNext DEF TypeOK
  <2>7. ReservedBy(h)'
    <3>1. RowOf(h)' = Ready(h)
      BY <2>3, <2>4 DEF RowOf
    <3> QED BY <1>2, <2>2, <2>4, <3>1 DEF ReservedBy, Uploading, Relying, Pcs
  <2>8. Reserved' /\ InTime'
    BY <1>1, <1>2, <2>3, <2>4, <2>5, <2>7, RowStep
  <2>9. Dated' /\ ReadyHasObject'
    BY <1>1, <1>2, <2>2, <2>3, <2>5 DEF Dated, ReadyHasObject
  <2>10. NothingLeaks'
    <3>1. \A g \in Files : Owners(g)' = Owners(g)
      BY <2>2, <2>3, <2>5 DEF Owners
    <3>2. objects \subseteq Files
      BY <1>1 DEF TypeOK
    <3> QED BY <1>1, <3>1, <3>2 DEF NothingLeaks
  <2> QED BY <2>6, <2>8, <2>9, <2>10 DEF UploadInv
<1>5. CASE ~Holds(h)
  BY <1>1, <1>3, <1>5, GoOn DEF Complete, db
<1> QED BY <1>4, <1>5

\* The ledgers aside, a row of a finished request is dropped or left alone.
LEMMA ReleaseStep ==
  ASSUME UploadInv, NEW h \in Handlers, Release(h)
  PROVE  UploadInv'
<1> DEFINE t == work[h].tenant
           f == work[h].file
<1>1. /\ TypeOK /\ Dated /\ ReadyHasObject /\ NothingLeaks /\ pc[h] = "release" /\ NoFailure
      /\ Finish(h) /\ UNCHANGED <<post, objects, now>>
  BY DEF UploadInv, Release
<1>2. h \in Actors /\ t \in Tenants /\ f \in Files /\ now \in Nat /\ ReservedBy(h)
  BY <1>1, WorkOf DEF TypeOK
<1>3. /\ pc' \in [Actors -> Pcs] /\ pc'[h] = "idle" /\ work' \in [Handlers -> Work]
      /\ clock' \in [Actors -> Int] /\ UNCHANGED todo
      /\ \A a \in Actors : a # h => pc'[a] = pc[a] /\ clock'[a] = clock[a]
      /\ \A g \in Handlers : g # h => work'[g] = work[g]
  BY <1>1, Finishes
<1>4. /\ failures' \in Nat /\ todo' \in [Cleaners -> SUBSET (Tenants \X Files)]
      /\ post' \in [Tenants -> [files : SUBSET Files, image : Files \cup {NoFile}]]
  BY <1>1, <1>3, FailNat DEF TypeOK
<1>5. ReservedBy(h)'
  BY <1>3, IdleReserved
<1>6. CASE Holds(h)
  <2>1. Drop(t, f, now) /\ asset[t][f].state = "pending" /\ asset[t][f].token = h
    BY <1>6 DEF Release, Holds
  <2>2. /\ asset' \in [Tenants -> [Files -> Asset]] /\ asset'[t][f].state = "none"
        /\ asset'[t][f].token = Nobody
        /\ \A u \in Tenants, g \in Files : u # t \/ g # f => asset'[u][g] = asset[u][g]
        /\ queue' \in [Files -> Int] /\ queue'[f] \in Nat
        /\ \A g \in Files : g # f => queue'[g] = queue[g]
        /\ usage' \in [Personal -> Nat] /\ space' \in [Tenants -> Nat]
    BY <1>1, <1>2, <2>1, DropRow
  <2>3. TypeOK'
    <3>1. \A u \in Tenants, g \in Files : asset'[u][g].state # "pending" => asset'[u][g].token = Nobody
      <4>1. \A u \in Tenants, g \in Files : asset[u][g].state # "pending" => asset[u][g].token = Nobody
        BY <1>1 DEF TypeOK
      <4> QED BY <2>2, <4>1
    <3>2. objects' \subseteq Files /\ now' \in Nat
      BY <1>1 DEF TypeOK
    <3> QED BY <1>3, <1>4, <2>2, <3>1, <3>2, TypeOKNext
  <2>4. Reserved' /\ InTime'
    BY <1>1, <1>2, <1>3, <1>5, <2>1, <2>2, RowStep
  <2>5. Dated' /\ ReadyHasObject'
    BY <1>1, <1>2, <2>2, ZenonT(60) DEF Dated, ReadyHasObject
  <2>6. NothingLeaks'
    <3>1. \A g \in Files : g # f => Owners(g)' = Owners(g)
      BY <2>2 DEF Owners
    <3>2. objects \subseteq Files /\ queue'[f] # Never
      BY <1>1, <2>2 DEF TypeOK, Never
    <3> QED BY <1>1, <2>2, <3>1, <3>2 DEF NothingLeaks
  <2> QED BY <2>3, <2>4, <2>5, <2>6 DEF UploadInv
<1>7. CASE ~Holds(h)
  <2>1. UNCHANGED <<db, objects, now>>
    BY <1>1, <1>7 DEF Release
  <2> QED BY <1>2, <1>3, <1>4, <1>5, <2>1, Quiet
<1> QED BY <1>6, <1>7

\* Rows that lose their token keep everything else: what no handler that goes
\* on depends on.
LEMMA Forgets ==
  ASSUME UploadInv, NEW lost \in SUBSET Handlers, asset' = Forgotten(lost),
         UNCHANGED <<usage, space, queue, post, objects, now>>, failures' \in Nat,
         pc' \in [Actors -> Pcs], work' \in [Handlers -> Work], clock' \in [Actors -> Int],
         todo' \in [Cleaners -> SUBSET (Tenants \X Files)]
  PROVE  /\ TypeOK' /\ Dated' /\ ReadyHasObject' /\ NothingLeaks'
         /\ \A t \in Tenants, f \in Files :
              /\ asset'[t][f].state = asset[t][f].state
              /\ asset'[t][f].updated = asset[t][f].updated
              /\ asset[t][f].token \notin lost => asset'[t][f] = asset[t][f]
<1>1. TypeOK /\ Dated /\ ReadyHasObject /\ NothingLeaks
  BY DEF UploadInv
<1>2. /\ asset' \in [Tenants -> [Files -> Asset]]
      /\ \A t \in Tenants, f \in Files :
           /\ asset'[t][f].state = asset[t][f].state
           /\ asset'[t][f].updated = asset[t][f].updated
           /\ asset[t][f].token \notin lost => asset'[t][f] = asset[t][f]
           /\ asset[t][f].token \in lost => asset'[t][f].token = Nobody
  BY <1>1, ForgottenRows
<1>3. TypeOK'
  <2>1. \A t \in Tenants, f \in Files : asset[t][f].state # "pending" => asset[t][f].token = Nobody
    BY <1>1 DEF TypeOK
  <2>2. \A t \in Tenants, f \in Files : asset'[t][f].state # "pending" => asset'[t][f].token = Nobody
    BY <1>2, <2>1
  <2> QED BY <1>1, <1>2, <2>2, TypeOKNext DEF TypeOK
<1>4. Dated' /\ ReadyHasObject'
  BY <1>1, <1>2 DEF Dated, ReadyHasObject
<1>5. NothingLeaks'
  <2>1. \A f \in Files : Owners(f)' = Owners(f)
    BY <1>2 DEF Owners
  <2>2. objects \subseteq Files
    BY <1>1 DEF TypeOK
  <2> QED BY <1>1, <2>1, <2>2 DEF NothingLeaks
<1> QED BY <1>2, <1>3, <1>4, <1>5

LEMMA ReleaseFailsStep ==
  ASSUME UploadInv, NEW h \in Handlers, ReleaseFails(h)
  PROVE  UploadInv'
<1>1. /\ TypeOK /\ Finish(h) /\ asset' = Forgotten({h}) /\ h \in Actors
      /\ UNCHANGED <<usage, space, queue, post, objects, now>>
  BY DEF UploadInv, ReleaseFails, Actors
<1>2. /\ pc' \in [Actors -> Pcs] /\ pc'[h] = "idle" /\ work' \in [Handlers -> Work]
      /\ clock' \in [Actors -> Int] /\ UNCHANGED todo
      /\ \A a \in Actors : a # h => pc'[a] = pc[a] /\ clock'[a] = clock[a]
      /\ \A g \in Handlers : g # h => work'[g] = work[g]
  BY <1>1, Finishes
<1>3. failures' \in Nat
  BY <1>1, FailNat DEF ReleaseFails
<1>4. todo' \in [Cleaners -> SUBSET (Tenants \X Files)]
  BY <1>1, <1>2 DEF TypeOK
<1>5. /\ TypeOK' /\ Dated' /\ ReadyHasObject' /\ NothingLeaks'
      /\ \A t \in Tenants, f \in Files :
           /\ asset'[t][f].state = asset[t][f].state
           /\ asset'[t][f].updated = asset[t][f].updated
           /\ asset[t][f].token \notin {h} => asset'[t][f] = asset[t][f]
  BY <1>1, <1>2, <1>3, <1>4, Forgets
<1>6. Reserved' /\ InTime'
  <2>1. ASSUME NEW g \in Handlers, g # h, Uploading(g)
        PROVE  asset'[work[g].tenant][work[g].file] = RowOf(g)
    <3>1. pc[g] # "idle"
      BY <2>1 DEF Uploading
    <3>2. work[g].tenant \in Tenants /\ work[g].file \in Files /\ RowOf(g).token = g
      BY <2>1, <3>1, WorkOf DEF ReservedBy
    <3> QED BY <1>5, <2>1, <3>2 DEF RowOf
  <2>2. ASSUME NEW g \in Handlers, g # h, Relying(g)
        PROVE  /\ asset'[work[g].tenant][work[g].file].state = "ready"
               /\ asset'[work[g].tenant][work[g].file].updated >= clock[g]
    <3>1. pc[g] # "idle"
      BY <2>2 DEF Relying
    <3>2. work[g].tenant \in Tenants /\ work[g].file \in Files /\ ReservedBy(g)
      BY <3>1, WorkOf
    <3> QED BY <1>5, <2>2, <3>2 DEF RowOf, ReservedBy
  <2>3. \A g \in Handlers : pc[g] = "complete" => work[g].file \in objects'
    BY <1>1 DEF UploadInv, Reserved, ReservedBy
  <2>4. ReservedBy(h)'
    BY <1>2, IdleReserved
  <2> QED BY <1>1, <1>2, <2>1, <2>2, <2>3, <2>4, Bystanders
<1> QED BY <1>5, <1>6 DEF UploadInv

LEMMA CrashStep ==
  ASSUME UploadInv, Crash
  PROVE  UploadInv'
<1>1. /\ TypeOK /\ asset' = Forgotten(Handlers)
      /\ UNCHANGED <<usage, space, queue, post, objects, now>>
      /\ pc' = [a \in Actors |-> "idle"] /\ work' = [h \in Handlers |-> NoWork]
      /\ todo' = [c \in Cleaners |-> {}] /\ clock' = [a \in Actors |-> Never]
  BY DEF UploadInv, Crash
<1>2. NoWork \in Work
  <2>1. (CHOOSE t \in Tenants : TRUE) \in Tenants
    BY TenantAssumption
  <2> QED BY <2>1 DEF NoWork, Work
<1>3. /\ pc' \in [Actors -> Pcs] /\ work' \in [Handlers -> Work]
      /\ clock' \in [Actors -> Int] /\ todo' \in [Cleaners -> SUBSET (Tenants \X Files)]
  BY <1>1, <1>2 DEF Pcs, Never
<1>4. failures' \in Nat
  BY <1>1, FailNat DEF Crash
<1>5. TypeOK' /\ Dated' /\ ReadyHasObject' /\ NothingLeaks'
  BY <1>1, <1>3, <1>4, Forgets
<1>6. \A a \in Actors : pc'[a] = "idle"
  BY <1>1
<1>7. Reserved' /\ InTime'
  BY <1>6, IdleReserved DEF Reserved, InTime, Actors
<1> QED BY <1>5, <1>7 DEF UploadInv
----------------------------------------------------------------------------
(* Posts and the clock. *)

LEMMA CheckImageStep ==
  ASSUME UploadInv, NEW h \in Handlers, NEW t \in Tenants, NEW f \in Files, CheckImage(h, t, f)
  PROVE  UploadInv'
<1> DEFINE request == [tenant |-> t, file |-> f, existing |-> TRUE]
<1>1. /\ TypeOK /\ h \in Actors /\ now \in Nat /\ Life \in Nat
      /\ UNCHANGED <<db, post, objects, now, todo>> /\ NoFailure
      /\ pc' = [pc EXCEPT ![h] = "image"] /\ work' = [work EXCEPT ![h] = request]
      /\ clock' = [clock EXCEPT ![h] = now]
  BY DurationAssumption DEF UploadInv, TypeOK, CheckImage, Actors
<1>2. /\ pc \in [Actors -> Pcs] /\ work \in [Handlers -> Work] /\ clock \in [Actors -> Int]
      /\ request \in Work /\ "image" \in Pcs
  BY <1>1, PcsType DEF TypeOK, Work, Pcs
<1>3. /\ pc' \in [Actors -> Pcs] /\ pc'[h] = "image"
      /\ \A a \in Actors : a # h => pc'[a] = pc[a]
  BY <1>1, <1>2
<1>4. /\ work' \in [Handlers -> Work] /\ work'[h].file \in Files
      /\ \A g \in Handlers : g # h => work'[g] = work[g]
  BY <1>1, <1>2
<1>5. /\ clock' \in [Actors -> Int] /\ clock'[h] = now
      /\ \A a \in Actors : a # h => clock'[a] = clock[a]
  BY <1>1, <1>2
<1>6. ReservedBy(h)'
  BY <1>3 DEF ReservedBy, Uploading, Relying, Pcs
<1>7. /\ failures' \in Nat /\ todo' \in [Cleaners -> SUBSET (Tenants \X Files)]
      /\ post' \in [Tenants -> [files : SUBSET Files, image : Files \cup {NoFile}]]
  BY <1>1, FailNat DEF TypeOK
<1>8. clock'[h] \in Nat /\ clock'[h] <= now /\ now <= clock'[h] + Life
  BY <1>1, <1>5
<1>9. UNCHANGED <<db, objects, now>> /\ h \in Actors
  BY <1>1
<1> HIDE DEF request
<1> QED BY <1>3, <1>4, <1>5, <1>6, <1>7, <1>8, <1>9, Quiet

LEMMA EditStep ==
  ASSUME UploadInv, NEW t \in Tenants, Edit(t)
  PROVE  UploadInv'
<1>1. /\ TypeOK /\ UNCHANGED <<asset, usage, space, queue, objects, now, pc, work, todo, clock>>
      /\ NoFailure
  BY DEF UploadInv, Edit, db, actors
<1>2. PICK keep \in SUBSET post[t].files : Shows(t, keep)
  BY DEF Edit
<1>3. keep \in SUBSET Files
  BY <1>1 DEF TypeOK
<1>4. post' \in [Tenants -> [files : SUBSET Files, image : Files \cup {NoFile}]]
  BY <1>1, <1>2, <1>3, ShowsType
<1>5. TypeOK'
  BY <1>1, <1>4, FailNat DEF TypeOK
<1>6. Dated' /\ InTime' /\ ReadyHasObject' /\ NothingLeaks'
  BY <1>1 DEF UploadInv, Dated, InTime, ReadyHasObject, NothingLeaks, Owners
<1>7. Reserved'
  BY <1>1 DEF UploadInv, Reserved, ReservedBy, Uploading, Relying, RowOf
<1> QED BY <1>5, <1>6, <1>7 DEF UploadInv

LEMMA TickStep ==
  ASSUME UploadInv, Tick
  PROVE  UploadInv'
<1>1. /\ TypeOK /\ UNCHANGED <<asset, usage, space, queue, objects, post, pc, work, todo, clock>>
      /\ NoFailure /\ now' = now + 1 /\ now \in Nat /\ Life \in Nat
  BY DurationAssumption DEF UploadInv, TypeOK, Tick, db, actors
<1>2. TypeOK'
  BY <1>1, FailNat DEF TypeOK
<1>3. Dated' /\ ReadyHasObject' /\ NothingLeaks'
  BY <1>1 DEF UploadInv, Dated, ReadyHasObject, NothingLeaks, Owners
<1>4. Reserved'
  BY <1>1 DEF UploadInv, Reserved, ReservedBy, Uploading, Relying, RowOf
<1>5. InTime'
  <2>1. ASSUME NEW a \in Actors, pc[a] # "idle"
        PROVE  clock[a] \in Nat /\ clock[a] <= now + 1 /\ now + 1 <= clock[a] + Life
    <3>1. clock[a] \in Nat /\ clock[a] <= now
      BY <2>1 DEF UploadInv, InTime
    <3>2. now < clock[a] + Life
      BY <2>1 DEF Tick
    <3> QED BY <1>1, <3>1, <3>2
  <2> QED BY <1>1, <2>1 DEF UploadInv, InTime
<1> QED BY <1>2, <1>3, <1>4, <1>5 DEF UploadInv
----------------------------------------------------------------------------
(* The collector. *)

\* A cleaner is no handler, so its turn disturbs nobody.
LEMMA Turns ==
  ASSUME TypeOK, NEW c \in Cleaners, NEW next \in Pcs, NEW list \in SUBSET (Tenants \X Files),
         Turn(c, next, list)
  PROVE  /\ c \in Actors /\ c \notin Handlers
         /\ pc' \in [Actors -> Pcs] /\ pc'[c] = next /\ work' = work
         /\ todo' \in [Cleaners -> SUBSET (Tenants \X Files)]
         /\ \A a \in Actors : a # c => pc'[a] = pc[a]
<1>1. c \in Actors /\ c \notin Handlers
  BY TenantAssumption DEF Actors
<1>2. pc \in [Actors -> Pcs] /\ todo \in [Cleaners -> SUBSET (Tenants \X Files)]
  BY PcsType DEF TypeOK
<1> QED BY <1>1, <1>2 DEF Turn

\* What the collector may do to the clock of its cycle.
Timed(c) == \/ UNCHANGED clock /\ pc[c] # "idle"
            \/ clock' = [clock EXCEPT ![c] = now]
            \/ clock' = [clock EXCEPT ![c] = Never] /\ pc'[c] = "idle"

LEMMA CycleClock ==
  ASSUME UploadInv, NEW c \in Cleaners, Timed(c)
  PROVE  /\ clock' \in [Actors -> Int]
         /\ \A a \in Actors : a # c => clock'[a] = clock[a]
         /\ pc'[c] # "idle" => clock'[c] \in Nat /\ clock'[c] <= now /\ now <= clock'[c] + Life
<1>1. /\ c \in Actors /\ clock \in [Actors -> Int] /\ now \in Nat /\ Life \in Nat /\ Never \in Int
      /\ pc[c] # "idle" => clock[c] \in Nat /\ clock[c] <= now /\ now <= clock[c] + Life
  BY DurationAssumption DEF UploadInv, TypeOK, InTime, Actors, Never
<1>2. CASE UNCHANGED clock /\ pc[c] # "idle"
  BY <1>1, <1>2
<1>3. CASE clock' = [clock EXCEPT ![c] = now]
  BY <1>1, <1>3
<1>4. CASE clock' = [clock EXCEPT ![c] = Never] /\ pc'[c] = "idle"
  BY <1>1, <1>4
<1> QED BY <1>2, <1>3, <1>4 DEF Timed

\* Rows stay, and an object goes only when nobody owns it.
LEMMA ObjectsGo ==
  ASSUME UploadInv, NEW c \in Cleaners, NEW next \in Pcs, NEW list \in SUBSET (Tenants \X Files),
         Turn(c, next, list), Timed(c), UNCHANGED <<asset, usage, space, post, now>>,
         failures' \in Nat, objects' \subseteq objects,
         \A f \in objects : f \notin objects' => Owners(f) = {},
         queue' \in [Files -> Int],
         \A f \in Files : queue'[f] = queue[f]
                          \/ (queue'[f] = Never /\ (f \in objects' => Owners(f) # {}))
  PROVE  UploadInv'
<1>1. /\ TypeOK /\ Dated /\ ReadyHasObject /\ NothingLeaks /\ objects \subseteq Files
      /\ \A g \in Handlers : ReservedBy(g)
  BY DEF UploadInv, TypeOK, Reserved
<1>2. /\ c \in Actors /\ c \notin Handlers
      /\ pc' \in [Actors -> Pcs] /\ pc'[c] = next /\ work' = work
      /\ todo' \in [Cleaners -> SUBSET (Tenants \X Files)]
      /\ \A a \in Actors : a # c => pc'[a] = pc[a]
  BY <1>1, Turns
<1>3. /\ clock' \in [Actors -> Int]
      /\ \A a \in Actors : a # c => clock'[a] = clock[a]
      /\ pc'[c] # "idle" => clock'[c] \in Nat /\ clock'[c] <= now /\ now <= clock'[c] + Life
  BY CycleClock
<1>4. TypeOK'
  BY <1>1, <1>2, <1>3, PcsType, TypeOKNext DEF TypeOK
<1>5. Dated'
  BY <1>1 DEF Dated
<1>6. ReadyHasObject'
  BY <1>1 DEF ReadyHasObject, Owners
<1>7. NothingLeaks'
  <2>1. \A f \in Files : Owners(f)' = Owners(f)
    BY DEF Owners
  <2> QED BY <1>1, <2>1 DEF NothingLeaks
<1>8. Reserved' /\ InTime'
  <2>1. \A g \in Handlers : Uploading(g) => asset'[work[g].tenant][work[g].file] = RowOf(g)
    BY DEF RowOf
  <2>2. \A g \in Handlers : Relying(g) =>
           /\ asset'[work[g].tenant][work[g].file].state = "ready"
           /\ asset'[work[g].tenant][work[g].file].updated >= clock[g]
    BY <1>1 DEF RowOf, ReservedBy
  <2>3. ASSUME NEW g \in Handlers, pc[g] = "complete"
        PROVE  work[g].file \in objects'
    <3>1. /\ Uploading(g) /\ work[g].file \in objects /\ RowOf(g).state = "pending"
          /\ work[g].tenant \in Tenants /\ work[g].file \in Files
      BY <1>1, <2>3, WorkOf DEF ReservedBy, Uploading
    <3>2. Owners(work[g].file) # {}
      BY <3>1 DEF Owners, RowOf
    <3> QED BY <3>1, <3>2
  <2> QED BY <1>2, <1>3, <2>1, <2>2, <2>3, Bystanders
<1> QED BY <1>4, <1>5, <1>6, <1>7, <1>8 DEF UploadInv

\* A row an upload or a request relies on is younger than any cycle's horizon.
LEMMA HeldIsFresh ==
  ASSUME UploadInv, NEW c \in Cleaners, pc[c] # "idle",
         NEW g \in Handlers, Uploading(g) \/ Relying(g)
  PROVE  ~Stale(work[g].tenant, work[g].file, Before(c))
<1>1. pc[g] # "idle"
  BY DEF Uploading, Relying
<1>2. /\ clock[g] \in Nat /\ now <= clock[g] + Life /\ RowOf(g) \in Asset /\ ReservedBy(g)
      /\ clock[c] \in Nat /\ clock[c] <= now /\ now \in Nat
  BY <1>1, WorkOf DEF UploadInv, InTime, Actors, TypeOK
<1>3. Life \in Nat /\ Grace \in Nat /\ Life <= Grace
  BY DurationAssumption
<1>4. RowOf(g).updated \in Int /\ RowOf(g).updated >= clock[g]
  BY <1>2 DEF ReservedBy, Asset
<1>5. ~(RowOf(g).updated < clock[c] - Grace)
  BY <1>2, <1>3, <1>4
<1> QED BY <1>5 DEF Stale, Before, RowOf

LEMMA CleanAssetStep ==
  ASSUME UploadInv, NEW c \in Cleaners, CleanAsset(c)
  PROVE  UploadInv'
<1>1. /\ TypeOK /\ Dated /\ ReadyHasObject /\ NothingLeaks /\ NoFailure
      /\ pc[c] = "assets" /\ "assets" \in Pcs
      /\ UNCHANGED <<post, objects, now, clock>>
  BY DEF UploadInv, CleanAsset, Pcs
<1>2. PICK p \in todo[c] :
        /\ IF Stale(p[1], p[2], Before(c))
           THEN Drop(p[1], p[2], Min({now, asset[p[1]][p[2]].updated}))
           ELSE UNCHANGED db
        /\ Turn(c, "assets", todo[c] \ {p})
  BY DEF CleanAsset
<1> DEFINE t == p[1]
           f == p[2]
<1>3. todo[c] \in SUBSET (Tenants \X Files) /\ t \in Tenants /\ f \in Files
  BY <1>1, <1>2 DEF TypeOK
<1>4. failures' \in Nat /\ todo[c] \ {p} \in SUBSET (Tenants \X Files) /\ Timed(c)
  BY <1>1, <1>3, FailNat DEF Timed
<1> HIDE DEF t, f
<1>5. CASE ~Stale(t, f, Before(c))
  <2>1. UNCHANGED <<asset, usage, space, queue>>
    BY <1>2, <1>5 DEF t, f, db
  <2>2. queue' \in [Files -> Int]
    BY <1>1, <2>1 DEF TypeOK
  <2> QED BY <1>1, <1>2, <1>4, <2>1, <2>2, ObjectsGo
<1>6. CASE Stale(t, f, Before(c))
  <2> DEFINE time == Min({now, asset[t][f].updated})
  <2>1. Drop(t, f, time) /\ asset[t][f].state # "none"
    BY <1>2, <1>6 DEF t, f, Stale
  <2>2. time \in Nat
    <3>1. now \in Nat /\ asset[t][f].updated \in Nat
      BY <1>1, <1>3, <2>1 DEF Dated, TypeOK
    <3> QED BY <3>1, MinNat
  <2> HIDE DEF time
  <2>3. /\ asset' \in [Tenants -> [Files -> Asset]] /\ asset'[t][f].state = "none"
        /\ asset'[t][f].token = Nobody
        /\ \A u \in Tenants, g \in Files : u # t \/ g # f => asset'[u][g] = asset[u][g]
        /\ queue' \in [Files -> Int] /\ queue'[f] \in Nat
        /\ \A g \in Files : g # f => queue'[g] = queue[g]
        /\ usage' \in [Personal -> Nat] /\ space' \in [Tenants -> Nat]
    BY <1>1, <1>3, <2>1, <2>2, DropRow
  <2>4. /\ c \in Actors /\ c \notin Handlers
        /\ pc' \in [Actors -> Pcs] /\ pc'[c] = "assets" /\ work' = work
        /\ todo' \in [Cleaners -> SUBSET (Tenants \X Files)]
        /\ \A a \in Actors : a # c => pc'[a] = pc[a]
    BY <1>1, <1>2, <1>4, Turns
  <2>5. /\ clock' \in [Actors -> Int]
        /\ pc'[c] # "idle" => clock'[c] \in Nat /\ clock'[c] <= now /\ now <= clock'[c] + Life
    BY <1>4, CycleClock
  <2>6. TypeOK'
    <3>1. \A u \in Tenants, g \in Files : asset[u][g].state # "pending" => asset[u][g].token = Nobody
      BY <1>1 DEF TypeOK
    <3>2. \A u \in Tenants, g \in Files : asset'[u][g].state # "pending" => asset'[u][g].token = Nobody
      BY <2>3, <3>1
    <3>3. /\ objects' \subseteq Files /\ now' \in Nat /\ work' \in [Handlers -> Work]
          /\ post' \in [Tenants -> [files : SUBSET Files, image : Files \cup {NoFile}]]
      BY <1>1, <2>4, PcsType DEF TypeOK
    <3> QED BY <1>4, <2>3, <2>4, <2>5, <3>2, <3>3, TypeOKNext
  <2>7. ASSUME NEW g \in Handlers, Uploading(g) \/ Relying(g)
        PROVE  asset'[work[g].tenant][work[g].file] = RowOf(g)
    <3>1. pc[g] # "idle"
      BY <2>7 DEF Uploading, Relying
    <3>2. work[g].tenant \in Tenants /\ work[g].file \in Files
      BY <3>1, WorkOf
    <3>3. ~Stale(work[g].tenant, work[g].file, Before(c))
      BY <1>1, <2>7, HeldIsFresh
    <3>4. work[g].tenant # t \/ work[g].file # f
      BY <1>6, <3>3
    <3> QED BY <2>3, <3>2, <3>4 DEF RowOf
  <2>8. Reserved' /\ InTime'
    <3>1. \A g \in Handlers : ReservedBy(g)
      BY DEF UploadInv, Reserved
    <3>2. \A g \in Handlers : Relying(g) =>
             /\ asset'[work[g].tenant][work[g].file].state = "ready"
             /\ asset'[work[g].tenant][work[g].file].updated >= clock[g]
      BY <2>7, <3>1 DEF ReservedBy
    <3>3. \A g \in Handlers : pc[g] = "complete" => work[g].file \in objects'
      BY <1>1, <3>1 DEF ReservedBy
    <3> QED BY <1>1, <2>4, <2>5, <2>7, <3>2, <3>3, Bystanders
  <2>9. Dated' /\ ReadyHasObject'
    BY <1>1, <1>3, <2>3 DEF Dated, ReadyHasObject
  <2>10. NothingLeaks'
    <3>1. \A g \in Files : g # f => Owners(g)' = Owners(g)
      BY <2>3 DEF Owners
    <3>2. objects \subseteq Files /\ queue'[f] # Never
      BY <1>1, <2>3 DEF TypeOK, Never
    <3> QED BY <1>1, <2>3, <3>1, <3>2 DEF NothingLeaks
  <2> QED BY <2>6, <2>8, <2>9, <2>10 DEF UploadInv
<1> QED BY <1>5, <1>6

LEMMA CleanObjectStep ==
  ASSUME UploadInv, NEW c \in Cleaners, CleanObject(c)
  PROVE  UploadInv'
<1>1. /\ TypeOK /\ NoFailure /\ pc[c] = "objects" /\ "objects" \in Pcs
      /\ UNCHANGED <<asset, usage, space, post, now, clock>>
  BY DEF UploadInv, CleanObject, Pcs
<1>2. PICK f \in {p[2] : p \in todo[c]} :
        /\ IF f \in Queued(Before(c)) THEN RemoveUnowned(c, f) ELSE UNCHANGED <<objects, queue>>
        /\ Turn(c, "objects", {p \in todo[c] : p[2] # f})
  BY DEF CleanObject
<1>3. /\ todo[c] \in SUBSET (Tenants \X Files) /\ queue \in [Files -> Int] /\ Never \in Int
      /\ {p \in todo[c] : p[2] # f} \in SUBSET (Tenants \X Files)
  BY <1>1 DEF TypeOK, Never
<1>4. failures' \in Nat /\ Timed(c)
  BY <1>1, FailNat DEF Timed
<1>5. /\ objects' \subseteq objects /\ queue' \in [Files -> Int]
      /\ \A g \in objects : g \notin objects' => Owners(g) = {}
      /\ \A g \in Files : queue'[g] = queue[g]
                          \/ (queue'[g] = Never /\ (g \in objects' => Owners(g) # {}))
  <2>1. CASE f \notin Queued(Before(c))
    BY <1>2, <1>3, <2>1
  <2>2. CASE f \in Queued(Before(c))
    <3>1. /\ objects' = IF Owners(f) = {} THEN objects \ {f} ELSE objects
          /\ queue' = [queue EXCEPT ![f] = Never]
      BY <1>2, <2>2 DEF RemoveUnowned
    <3>2. queue' \in [Files -> Int] /\ \A g \in Files : IF g = f THEN queue'[g] = Never ELSE queue'[g] = queue[g]
      BY <1>3, <3>1
    <3>3. CASE Owners(f) = {}
      BY <3>1, <3>2, <3>3
    <3>4. CASE Owners(f) # {}
      BY <3>1, <3>2, <3>4
    <3> QED BY <3>3, <3>4
  <2> QED BY <2>1, <2>2
<1> QED BY <1>1, <1>2, <1>3, <1>4, <1>5, ObjectsGo

\* The steps of a cycle that change no row: Begin, ListObjects, CleanFails and EndCycle.
LEMMA CycleStep ==
  ASSUME UploadInv, NEW c \in Cleaners,
         Begin(c) \/ ListObjects(c) \/ CleanFails(c) \/ EndCycle(c)
  PROVE  UploadInv'
<1>1. /\ TypeOK /\ queue \in [Files -> Int] /\ {} \in SUBSET (Tenants \X Files)
      /\ UNCHANGED <<asset, usage, space, queue, post, now>>
  BY DEF UploadInv, TypeOK, Begin, ListObjects, CleanFails, EndCycle, db
<1>2. failures' \in Nat
  BY <1>1, FailNat DEF Begin, ListObjects, CleanFails, EndCycle
<1>3. objects' \subseteq objects /\ \A f \in objects : f \notin objects' => Owners(f) = {}
  BY DEF Begin, ListObjects, CleanFails, EndCycle
<1>4. PICK next \in Pcs, list \in SUBSET (Tenants \X Files) : Turn(c, next, list) /\ Timed(c)
  <2>1. {"assets", "objects", "idle"} \subseteq Pcs
    BY DEF Pcs
  <2>2. CASE Begin(c)
    <3>1. {p \in Tenants \X Files : Stale(p[1], p[2], now - Grace)} \in SUBSET (Tenants \X Files)
      OBVIOUS
    <3> QED BY <2>1, <2>2, <3>1 DEF Begin, Timed
  <2>3. CASE ListObjects(c)
    <3>1. Tenants \X Queued(Before(c)) \in SUBSET (Tenants \X Files)
      BY DEF Queued
    <3> QED BY <2>1, <2>3, <3>1 DEF ListObjects, Timed
  <2>4. CASE CleanFails(c) \/ EndCycle(c)
    <3>1. Turn(c, "idle", {}) /\ clock' = [clock EXCEPT ![c] = Never]
      BY <2>4 DEF CleanFails, EndCycle
    <3>2. pc'[c] = "idle"
      BY <1>1, <2>1, <3>1, Turns
    <3> QED BY <1>1, <2>1, <3>1, <3>2 DEF Timed
  <2> QED BY <2>2, <2>3, <2>4
<1> QED BY <1>1, <1>2, <1>3, <1>4, ObjectsGo
----------------------------------------------------------------------------
(* The theorems. *)

\* Nothing is uploaded, owed or under way at the start.
LEMMA InitUploadInv == Init => UploadInv
<1> SUFFICES ASSUME Init PROVE UploadInv
  OBVIOUS
<1>1. NoAsset \in Asset /\ NoAsset.state = "none" /\ NoAsset.token = Nobody
  BY DEF NoAsset, Asset, Never
<1>2. NoWork \in Work
  <2>1. (CHOOSE t \in Tenants : TRUE) \in Tenants
    BY TenantAssumption
  <2> QED BY <2>1 DEF NoWork, Work
<1>3. /\ asset \in [Tenants -> [Files -> Asset]]
      /\ \A t \in Tenants, f \in Files : asset[t][f] = NoAsset
  BY <1>1 DEF Init
<1>4. work \in [Handlers -> Work] /\ pc \in [Actors -> Pcs] /\ \A a \in Actors : pc[a] = "idle"
  BY <1>2 DEF Init, Pcs
<1>5. TypeOK
  <2>1. \A t \in Tenants, f \in Files : asset[t][f].state # "pending" => asset[t][f].token = Nobody
    BY <1>1, <1>3
  <2>2. /\ usage \in [Personal -> Nat] /\ space \in [Tenants -> Nat]
        /\ queue \in [Files -> Int] /\ clock \in [Actors -> Int]
        /\ post \in [Tenants -> [files : SUBSET Files, image : Files \cup {NoFile}]]
        /\ objects \subseteq Files /\ now \in Nat /\ failures \in Nat
        /\ todo \in [Cleaners -> SUBSET (Tenants \X Files)]
    BY DEF Init, Never
  <2> QED BY <1>3, <1>4, <2>1, <2>2 DEF TypeOK, Asset, Pcs, Work
<1>6. Dated
  BY <1>1, <1>3 DEF Dated, Init
<1>7. InTime /\ Reserved
  BY <1>4 DEF InTime, Reserved, ReservedBy, Uploading, Relying, Actors, Pcs
<1>8. ReadyHasObject /\ NothingLeaks
  BY <1>1, <1>3 DEF ReadyHasObject, NothingLeaks, Init
<1> QED BY <1>5, <1>6, <1>7, <1>8 DEF UploadInv

\* Every step of a handler, a post, the collector, the clock or a crash keeps
\* the invariant.
LEMMA NextUploadInv == UploadInv /\ [Next]_vars => UploadInv'
<1> SUFFICES ASSUME UploadInv, [Next]_vars PROVE UploadInv'
  OBVIOUS
<1>1. ASSUME NEW h \in Handlers, Serve(h) PROVE UploadInv'
  <2>1. CASE Put(h) \/ PutFails(h)
    BY <2>1, PutStep
  <2>2. CASE Complete(h)
    BY <2>2, CompleteStep
  <2>3. CASE CompleteFails(h)
    <3>1. TypeOK /\ Goto(h, "release") /\ pc[h] # "idle" /\ UNCHANGED <<db, post, objects, now>>
      BY <2>3 DEF UploadInv, CompleteFails
    <3>2. failures' \in Nat
      BY <2>3, <3>1, FailNat DEF CompleteFails
    <3> QED BY <3>1, <3>2, GoOn
  <2>4. CASE Release(h)
    BY <2>4, ReleaseStep
  <2>5. CASE ReleaseFails(h)
    BY <2>5, ReleaseFailsStep
  <2>6. CASE Attach(h) \/ Leave(h) \/ WriteImage(h)
    BY <2>6, EndStep
  <2> QED BY <1>1, <2>1, <2>2, <2>3, <2>4, <2>5, <2>6 DEF Serve, Upload
<1>2. ASSUME NEW h \in Handlers, NEW t \in Tenants, NEW f \in Files,
             Reserve(h, t, f) \/ CheckImage(h, t, f)
      PROVE  UploadInv'
  BY <1>2, ReserveStep, CheckImageStep
<1>3. ASSUME NEW t \in Tenants, Edit(t) PROVE UploadInv'
  BY <1>3, EditStep
<1>4. ASSUME NEW c \in Cleaners, Clean(c) PROVE UploadInv'
  BY <1>4, CleanAssetStep, CleanObjectStep, CycleStep DEF Clean
<1>5. CASE Crash
  BY <1>5, CrashStep
<1>6. CASE Tick
  BY <1>6, TickStep
<1>7. CASE UNCHANGED vars
  <2>1. UNCHANGED <<asset, usage, space, queue, post, objects, now, failures, pc, work, todo, clock>>
    BY <1>7 DEF vars
  <2>2. TypeOK' /\ Dated' /\ InTime'
    BY <2>1 DEF UploadInv, TypeOK, Dated, InTime
  <2>3. Reserved'
    BY <2>1 DEF UploadInv, Reserved, ReservedBy, Uploading, Relying, RowOf
  <2>4. ReadyHasObject' /\ NothingLeaks'
    BY <2>1 DEF UploadInv, ReadyHasObject, NothingLeaks, Owners
  <2> QED BY <2>2, <2>3, <2>4 DEF UploadInv
<1> QED BY <1>1, <1>2, <1>3, <1>4, <1>5, <1>6, <1>7 DEF Next

\* The conjunction is inductive: no part of it is without the others.
THEOREM UploadInvariant == Spec => []UploadInv
<1>1. UploadInv /\ [Next]_vars => UploadInv'
  BY NextUploadInv
<1> QED BY InitUploadInv, <1>1, PTL DEF Spec

\* Rows, ledgers, the queue and requests have their types in every state.
THEOREM MediaTypeCorrect == Spec => []TypeOK
<1>1. UploadInv => TypeOK
  BY DEF UploadInv
<1> QED BY UploadInvariant, <1>1, PTL

\* Whatever handlers and collectors do, the bucket has every file that a row
\* says is ready (cleanupQueuedMediaObject counts the owners under the lock).
THEOREM ServedMediaExists == Spec => []ReadyHasObject
<1>1. UploadInv => ReadyHasObject
  BY DEF UploadInv
<1> QED BY UploadInvariant, <1>1, PTL

\* No collector takes the row of an upload under way, or one just saved: a
\* cycle that is behind still looks further back than any request is old
\* (cleanupMediaAsset and the bound Life <= Grace).
THEOREM UploadsKeepTheirRows == Spec => []UploadKeepsRow
<1>1. UploadInv => UploadKeepsRow
  BY DEF UploadInv, Reserved, ReservedBy, Uploading, Relying, UploadKeepsRow, Holds, RowOf
<1> QED BY UploadInvariant, <1>1, PTL

\* Every object is owned or queued for deletion, through failed uploads,
\* failed deletions and crashes (the trigger of migration 014).
THEOREM ObjectsAreAccountedFor == Spec => []NothingLeaks
<1>1. UploadInv => NothingLeaks
  BY DEF UploadInv
<1> QED BY UploadInvariant, <1>1, PTL
----------------------------------------------------------------------------
(* The ledgers count the rows: each step that adds or removes one row charges *)
(* or refunds it, and no other step touches rows or ledgers.                  *)

\* The rows of a tenant can be counted, and both ledgers say how many they are.
LedgerInv == LedgerExact /\ \A t \in Tenants : IsFiniteSet(Owned(t))

\* A step that takes no row and gives none leaves the count as it is.
LEMMA CountKept ==
  ASSUME LedgerInv, UNCHANGED <<usage, space>>,
         \A t \in Tenants, f \in Files : asset'[t][f].state = "none" <=> asset[t][f].state = "none"
  PROVE  LedgerInv'
<1>1. ASSUME NEW t \in Tenants PROVE Owned(t)' = Owned(t)
  BY DEF Owned
<1>2. ASSUME NEW t \in Tenants
      PROVE  /\ space'[t] = Cardinality(Owned(t)') /\ (t \in Personal => usage'[t] = space'[t])
             /\ IsFiniteSet(Owned(t)')
  <2>1. space[t] = Cardinality(Owned(t)) /\ (t \in Personal => usage[t] = space[t])
    BY DEF LedgerInv, LedgerExact
  <2>2. IsFiniteSet(Owned(t))
    BY DEF LedgerInv
  <2> QED BY <1>1, <2>1, <2>2
<1> QED BY <1>2 DEF LedgerInv, LedgerExact

\* The ledgers of one tenant follow its rows, and the others keep theirs.
LEMMA CountMoves ==
  ASSUME TypeOK, LedgerInv, NEW t \in Tenants, Charge(t) \/ Refund(t),
         \A u \in Tenants, g \in Files : u # t => asset'[u][g] = asset[u][g],
         IsFiniteSet(Owned(t)'),
         Charge(t) => Cardinality(Owned(t)') = Cardinality(Owned(t)) + 1,
         Refund(t) => Cardinality(Owned(t)') = Less(Cardinality(Owned(t)))
  PROVE  LedgerInv'
<1>1. usage \in [Personal -> Nat] /\ space \in [Tenants -> Nat]
  BY DEF TypeOK
<1>2. ASSUME NEW u \in Tenants
      PROVE  /\ space[u] = Cardinality(Owned(u)) /\ (u \in Personal => usage[u] = space[u])
             /\ IsFiniteSet(Owned(u))
  BY DEF LedgerInv, LedgerExact
<1>3. ASSUME NEW u \in Tenants, u # t
      PROVE  /\ space'[u] = Cardinality(Owned(u)') /\ (u \in Personal => usage'[u] = space'[u])
             /\ IsFiniteSet(Owned(u)')
  <2>1. Owned(u)' = Owned(u)
    BY <1>3 DEF Owned
  <2>2. space'[u] = space[u] /\ (u \in Personal => usage'[u] = usage[u])
    BY <1>1, <1>3 DEF Charge, Refund
  <2> QED BY <1>2, <2>1, <2>2
<1>4. space'[t] = Cardinality(Owned(t)') /\ (t \in Personal => usage'[t] = space'[t])
  <2>1. CASE Charge(t)
    <3>1. space'[t] = space[t] + 1 /\ (t \in Personal => usage'[t] = usage[t] + 1)
      BY <1>1, <2>1 DEF Charge
    <3> QED BY <1>2, <2>1, <3>1
  <2>2. CASE Refund(t)
    <3>1. space'[t] = Less(space[t]) /\ (t \in Personal => usage'[t] = Less(usage[t]))
      BY <1>1, <2>2 DEF Refund
    <3> QED BY <1>2, <2>2, <3>1
  <2> QED BY <2>1, <2>2
<1> QED BY <1>3, <1>4 DEF LedgerInv, LedgerExact

\* A reservation adds one row, and charges it.
LEMMA CountGrows ==
  ASSUME TypeOK, LedgerInv, NEW h \in Handlers, NEW t \in Tenants, NEW f \in Files,
         NewReservation(h, t, f)
  PROVE  LedgerInv'
<1> DEFINE row == [state |-> "pending", token |-> h, updated |-> now]
<1>1. row \in Asset /\ row.state = "pending"
  BY DEF TypeOK, Asset
<1>2. asset' = [asset EXCEPT ![t][f] = row] /\ Charge(t) /\ asset[t][f].state = "none"
  BY DEF NewReservation
<1> HIDE DEF row
<1>3. /\ asset'[t][f] = row
      /\ \A u \in Tenants, g \in Files : u # t \/ g # f => asset'[u][g] = asset[u][g]
  BY <1>1, <1>2, WriteRow, ZenonT(60)
<1>4. Owned(t)' = Owned(t) \cup {f} /\ f \notin Owned(t)
  BY <1>1, <1>2, <1>3 DEF Owned
<1>5. IsFiniteSet(Owned(t))
  BY DEF LedgerInv
<1>6. /\ IsFiniteSet(Owned(t) \cup {f})
      /\ Cardinality(Owned(t) \cup {f}) = Cardinality(Owned(t)) + 1
  BY <1>4, <1>5, FS_AddElement
<1>7. ~Refund(t)
  <2>1. space \in [Tenants -> Nat]
    BY DEF TypeOK
  <2>2. space'[t] = space[t] + 1
    BY <1>2, <2>1 DEF Charge
  <2>3. Less(space[t]) \in Nat /\ Less(space[t]) # space[t] + 1
    <3>1. Less(0) \in {-1, 0}
      <4>1. Less(0) \in Nat
        BY LessNat
      <4>2. \A y \in {0 - 1, 0} : 0 >= y
        OBVIOUS
      <4>3. Less(0) \in {0 - 1, 0}
        BY <4>2 DEF Less, Max
      <4> QED BY <4>3
    <3>2. CASE space[t] = 0
      BY <3>1, <3>2, LessNat
    <3>3. CASE space[t] > 0
      BY <2>1, <3>3, LessNat
    <3> QED BY <2>1, <3>2, <3>3
  <2>4. Refund(t) => space'[t] = Less(space[t])
    BY <2>1 DEF Refund
  <2> QED BY <2>2, <2>3, <2>4
<1> QED BY <1>2, <1>3, <1>4, <1>6, <1>7, CountMoves

\* The row that goes was counted, and is refunded.
LEMMA CountShrinks ==
  ASSUME TypeOK, Dated, LedgerInv, NEW t \in Tenants, NEW f \in Files, NEW time \in Nat,
         asset[t][f].state # "none", Drop(t, f, time)
  PROVE  LedgerInv'
<1>1. /\ asset'[t][f].state = "none"
      /\ \A u \in Tenants, g \in Files : u # t \/ g # f => asset'[u][g] = asset[u][g]
  BY DropRow
<1>2. Owned(t)' = Owned(t) \ {f} /\ f \in Owned(t)
  BY <1>1 DEF Owned
<1>3. IsFiniteSet(Owned(t))
  BY DEF LedgerInv
<1>4. /\ IsFiniteSet(Owned(t) \ {f})
      /\ Cardinality(Owned(t) \ {f}) = Cardinality(Owned(t)) - 1
  BY <1>2, <1>3, FS_RemoveElement
<1>5. Cardinality(Owned(t)) \in Nat /\ Cardinality(Owned(t) \ {f}) \in Nat
  BY <1>3, <1>4, FS_CardinalityType
<1>6. Less(Cardinality(Owned(t))) = Cardinality(Owned(t)) - 1
  BY <1>4, <1>5, LessNat
<1>7. Refund(t) /\ ~Charge(t)
  <2>1. Refund(t)
    BY DEF Drop
  <2>2. space \in [Tenants -> Nat] /\ space[t] = Cardinality(Owned(t))
    BY DEF TypeOK, LedgerInv, LedgerExact
  <2>3. space'[t] = space[t] - 1
    BY <1>6, <2>1, <2>2 DEF Refund
  <2>4. Charge(t) => space'[t] = space[t] + 1
    BY <2>2 DEF Charge
  <2> QED BY <2>1, <2>2, <2>3, <2>4
<1> QED BY <1>1, <1>2, <1>4, <1>6, <1>7, CountMoves

LEMMA InitLedgerInv == Init => LedgerInv
<1> SUFFICES ASSUME Init PROVE LedgerInv
  OBVIOUS
<1>1. ASSUME NEW t \in Tenants PROVE Owned(t) = {}
  BY DEF Init, Owned, NoAsset
<1>2. IsFiniteSet({}) /\ Cardinality({}) = 0
  BY FS_EmptySet
<1>3. ASSUME NEW t \in Tenants PROVE space[t] = 0 /\ (t \in Personal => usage[t] = 0)
  BY DEF Init
<1> QED BY <1>1, <1>2, <1>3 DEF LedgerInv, LedgerExact

\* A row comes with a reservation and goes with a release or a collection; every
\* other step keeps the rows there are.
LEMMA NextLedgerInv == UploadInv /\ LedgerInv /\ [Next]_vars => LedgerInv'
<1> SUFFICES ASSUME UploadInv, LedgerInv, [Next]_vars PROVE LedgerInv'
  OBVIOUS
<1>0. TypeOK /\ Dated
  BY DEF UploadInv
<1>1. ASSUME UNCHANGED <<asset, usage, space>> PROVE LedgerInv'
  BY <1>1, CountKept
<1>2. ASSUME NEW lost \in SUBSET Handlers, asset' = Forgotten(lost), UNCHANGED <<usage, space>>
      PROVE  LedgerInv'
  BY <1>0, <1>2, ForgottenRows, CountKept
<1>3. ASSUME NEW h \in Handlers, Serve(h) PROVE LedgerInv'
  <2>1. CASE Complete(h)
    <3>1. h \in Handlers /\ pc[h] # "idle" /\ UNCHANGED <<usage, space>>
      BY <2>1 DEF Complete
    <3>2. CASE Holds(h)
      <4>1. /\ work[h].tenant \in Tenants /\ work[h].file \in Files
            /\ asset[work[h].tenant][work[h].file].state = "pending"
        BY <3>1, <3>2, WorkOf DEF Holds
      <4>2. Ready(h) \in Asset /\ Ready(h).state = "ready"
        BY <1>0 DEF Ready, Asset, TypeOK
      <4>3. asset' = [asset EXCEPT ![work[h].tenant][work[h].file] = Ready(h)]
        BY <2>1, <3>2 DEF Complete
      <4>4. \A t \in Tenants, f \in Files : asset'[t][f].state = "none" <=> asset[t][f].state = "none"
        BY <1>0, <4>1, <4>2, <4>3, WriteRow
      <4> QED BY <3>1, <4>4, CountKept
    <3>3. CASE ~Holds(h)
      BY <1>1, <2>1, <3>1, <3>3 DEF Complete
    <3> QED BY <3>2, <3>3
  <2>2. CASE Release(h)
    <3>1. pc[h] # "idle" /\ now \in Nat
      BY <1>0, <2>2 DEF Release, TypeOK
    <3>2. CASE Holds(h)
      <4>1. /\ work[h].tenant \in Tenants /\ work[h].file \in Files
            /\ asset[work[h].tenant][work[h].file].state # "none"
        BY <3>1, <3>2, WorkOf DEF Holds
      <4>2. Drop(work[h].tenant, work[h].file, now)
        BY <2>2, <3>2 DEF Release
      <4> QED BY <1>0, <3>1, <4>1, <4>2, CountShrinks
    <3>3. CASE ~Holds(h)
      BY <1>1, <2>2, <3>3 DEF Release, db
    <3> QED BY <3>2, <3>3
  <2>3. CASE ReleaseFails(h)
    <3>1. asset' = Forgotten({h}) /\ UNCHANGED <<usage, space>>
      BY <2>3 DEF ReleaseFails
    <3> QED BY <1>2, <3>1
  <2>4. CASE Put(h) \/ PutFails(h) \/ CompleteFails(h) \/ Attach(h) \/ Leave(h) \/ WriteImage(h)
    BY <1>1, <2>4 DEF Put, PutFails, CompleteFails, Attach, Leave, WriteImage, db
  <2> QED BY <1>3, <2>1, <2>2, <2>3, <2>4 DEF Serve, Upload
<1>4. ASSUME NEW h \in Handlers, NEW t \in Tenants, NEW f \in Files, Reserve(h, t, f)
      PROVE  LedgerInv'
  <2>1. CASE NewReservation(h, t, f)
    BY <1>0, <2>1, CountGrows
  <2>2. CASE ExistingReservation(h, t, f)
    <3> DEFINE row == [asset[t][f] EXCEPT !.updated = now]
    <3>1. asset[t][f] \in Asset /\ now \in Int
      BY <1>0, PcsType DEF TypeOK
    <3>2. row \in Asset /\ row.state = asset[t][f].state
      BY <3>1 DEF Asset
    <3>3. asset' = [asset EXCEPT ![t][f] = row] /\ UNCHANGED <<usage, space>>
      BY <2>2 DEF ExistingReservation
    <3> HIDE DEF row
    <3>4. \A u \in Tenants, g \in Files : asset'[u][g].state = "none" <=> asset[u][g].state = "none"
      BY <1>0, <3>2, <3>3, WriteRow
    <3> QED BY <3>3, <3>4, CountKept
  <2> QED BY <1>4, <2>1, <2>2 DEF Reserve
<1>5. ASSUME NEW c \in Cleaners, Clean(c) PROVE LedgerInv'
  <2>1. CASE CleanAsset(c)
    <3>1. PICK p \in todo[c] :
            IF Stale(p[1], p[2], Before(c))
              THEN Drop(p[1], p[2], Min({now, asset[p[1]][p[2]].updated}))
              ELSE UNCHANGED db
      BY <2>1 DEF CleanAsset
    <3>2. p[1] \in Tenants /\ p[2] \in Files /\ now \in Nat
      BY <1>0, <1>5 DEF TypeOK
    <3>3. CASE Stale(p[1], p[2], Before(c))
      <4>1. asset[p[1]][p[2]].state # "none"
        BY <3>3 DEF Stale
      <4>2. asset[p[1]][p[2]].updated \in Nat
        BY <1>0, <3>2, <4>1 DEF Dated
      <4>3. Min({now, asset[p[1]][p[2]].updated}) \in Nat
        BY <3>2, <4>2, MinNat
      <4> QED BY <1>0, <3>1, <3>2, <3>3, <4>1, <4>3, CountShrinks
    <3>4. CASE ~Stale(p[1], p[2], Before(c))
      BY <1>1, <3>1, <3>4 DEF db
    <3> QED BY <3>3, <3>4
  <2>2. CASE Begin(c) \/ ListObjects(c) \/ CleanObject(c) \/ CleanFails(c) \/ EndCycle(c)
    BY <1>1, <2>2 DEF Begin, ListObjects, CleanObject, CleanFails, EndCycle, db
  <2> QED BY <1>5, <2>1, <2>2 DEF Clean
<1>6. CASE Crash
  <2>1. asset' = Forgotten(Handlers) /\ UNCHANGED <<usage, space>>
    BY <1>6 DEF Crash
  <2> QED BY <1>2, <2>1
<1>7. ASSUME NEW h \in Handlers, NEW t \in Tenants, NEW f \in Files, CheckImage(h, t, f)
      PROVE  LedgerInv'
  BY <1>1, <1>7 DEF CheckImage, db
<1>8. ASSUME NEW t \in Tenants, Edit(t) PROVE LedgerInv'
  BY <1>1, <1>8 DEF Edit, db
<1>9. CASE Tick
  BY <1>1, <1>9 DEF Tick, db
<1>10. CASE UNCHANGED vars
  BY <1>1, <1>10 DEF vars, db
<1> QED BY <1>3, <1>4, <1>5, <1>6, <1>7, <1>8, <1>9, <1>10 DEF Next

\* Reservations, releases, collections, failures and crashes of any number of
\* requests leave both ledgers with the number of rows the tenant has, so the
\* quota checked by ReserveMedia is checked against what is stored.
THEOREM LedgersAreExact == Spec => []LedgerExact
<1>1. UploadInv /\ LedgerInv /\ [Next]_vars => LedgerInv'
  BY NextLedgerInv
<1>2. LedgerInv => LedgerExact
  BY DEF LedgerInv
<1> QED BY UploadInvariant, InitLedgerInv, <1>1, <1>2, PTL DEF Spec
==============================================================================
