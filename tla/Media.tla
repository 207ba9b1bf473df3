------------------------------- MODULE Media -------------------------------
(***************************************************************************)
(* Uploaded media: who owns a stored object, what it costs a tenant's      *)
(* quota, and how unused objects leave the private bucket.                 *)
(*                                                                         *)
(* Objects are content-addressed, so two tenants who upload the same bytes *)
(* share one object and own a row each.  A transaction that creates rows   *)
(* or deletes objects holds the advisory lock of its file name, so it is   *)
(* one step; what interleaves are the storage calls between transactions.  *)
(* A tenant is a workspace together with the user it is accounted to.      *)
(***************************************************************************)
EXTENDS Integers, FiniteSets, FiniteSetsExt

CONSTANTS
  Personal,      \* personal workspaces, which keep a second ledger
  Team,          \* team workspaces
  Complimentary, \* tenants no quota applies to
  Files,         \* content-addressed names
  Handlers,      \* HTTP handlers
  Cleaners,      \* scheduler cycles that collect media
  Faults,        \* what may go wrong
  MaxFailures,   \* how often
  MaxFiles,      \* a tenant's quota
  Grace,         \* MEDIA_ORPHAN_GRACE_PERIOD
  Life,          \* the longest a request or a cycle takes
  MaxTime,       \* bound on the clock
  Nobody, NoFile

Tenants == Personal \cup Team
Actors == Handlers \cup Cleaners

ASSUME TenantAssumption ==
  /\ Tenants # {} /\ Personal \cap Team = {} /\ Complimentary \subseteq Tenants
  /\ Handlers \cap Cleaners = {}
  /\ Nobody \notin Handlers /\ NoFile \notin Files
  /\ Faults \subseteq {"storage", "database", "crash"}
\* The grace period is at least an hour; every request is cut off in minutes.
ASSUME DurationAssumption ==
  /\ {MaxFiles, Grace} \subseteq Nat \ {0} /\ {MaxFailures, Life, MaxTime} \subseteq Nat
  /\ Life <= Grace

VARIABLES
  asset,     \* the media_assets rows, by tenant and file
  usage,     \* media_usage.asset_count, kept for personal workspaces
  space,     \* workspace_media_usage.asset_count
  queue,     \* media_gc_queue: when a file lost an owner
  post,      \* the files the tenant's posts show
  objects,   \* what the bucket holds
  now, failures,
  pc, work, todo, clock

db     == <<asset, usage, space, queue>>
actors == <<pc, work, todo, clock>>
vars   == <<asset, usage, space, queue, post, objects, now, failures, pc, work, todo, clock>>

Never == -1
NoAsset == [state |-> "none", token |-> Nobody, updated |-> Never]
NoWork == [tenant |-> CHOOSE t \in Tenants : TRUE, file |-> NoFile, existing |-> FALSE]

\* Values have their types; a row that is not pending holds no token.
TypeOK ==
  /\ asset \in [Tenants -> [Files -> [state : {"none", "pending", "ready"},
                                      token : Handlers \cup {Nobody}, updated : Int]]]
  /\ \A t \in Tenants, f \in Files : asset[t][f].state # "pending" => asset[t][f].token = Nobody
  /\ usage \in [Personal -> Nat] /\ space \in [Tenants -> Nat]
  /\ queue \in [Files -> Int]
  /\ post \in [Tenants -> [files : SUBSET Files, image : Files \cup {NoFile}]]
  /\ objects \subseteq Files
  /\ now \in Nat /\ failures \in Nat
  /\ pc \in [Actors -> {"idle", "put", "complete", "release", "saved", "image", "assets", "objects"}]
  /\ work \in [Handlers -> [tenant : Tenants, file : Files \cup {NoFile}, existing : BOOLEAN]]
  /\ todo \in [Cleaners -> SUBSET (Tenants \X Files)]
  /\ clock \in [Actors -> Int]

Init ==
  /\ asset = [t \in Tenants |-> [f \in Files |-> NoAsset]]
  /\ usage = [t \in Personal |-> 0] /\ space = [t \in Tenants |-> 0]
  /\ queue = [f \in Files |-> Never]
  /\ post = [t \in Tenants |-> [files |-> {}, image |-> NoFile]]
  /\ objects = {} /\ now = 0 /\ failures = 0
  /\ pc = [a \in Actors |-> "idle"] /\ work = [h \in Handlers |-> NoWork]
  /\ todo = [c \in Cleaners |-> {}] /\ clock = [a \in Actors |-> Never]

Owners(f) == {t \in Tenants : asset[t][f].state # "none"}
Owned(t) == {f \in Files : asset[t][f].state # "none"}
Referenced(t, f) == f \in post[t].files \/ f = post[t].image

Fail(kind) ==
  /\ kind \in Faults /\ failures < MaxFailures
  /\ failures' = failures + 1
NoFailure == UNCHANGED failures

\* A handler goes on with its request, or ends it.
Goto(h, next) ==
  /\ pc' = [pc EXCEPT ![h] = next]
  /\ UNCHANGED <<work, todo, clock>>
Finish(h) ==
  /\ pc' = [pc EXCEPT ![h] = "idle"]
  /\ work' = [work EXCEPT ![h] = NoWork] /\ clock' = [clock EXCEPT ![h] = Never]
  /\ UNCHANGED todo
----------------------------------------------------------------------------
(* The ledgers and the queue. *)

Less(n) == Max({n - 1, 0})

Charge(t) ==
  /\ usage' = IF t \in Personal THEN [usage EXCEPT ![t] = @ + 1] ELSE usage
  /\ space' = [space EXCEPT ![t] = @ + 1]

\* Mutant: the workspace ledger is not drained for a personal workspace.
RefundOnce(t) ==
  /\ usage' = IF t \in Personal THEN [usage EXCEPT ![t] = Less(@)] ELSE usage
  /\ space' = IF t \in Personal THEN space ELSE [space EXCEPT ![t] = Less(@)]

Refund(t) ==
  /\ usage' = IF t \in Personal THEN [usage EXCEPT ![t] = Less(@)] ELSE usage
  /\ space' = [space EXCEPT ![t] = Less(@)]

\* ON CONFLICT keeps the earliest time the file was orphaned.
Earliest(old, time) == IF old = Never THEN time ELSE Min({old, time})

\* Mutant: the deletion of a row does not queue its file.
DropOnly(t, f, orphaned) ==
  /\ asset' = [asset EXCEPT ![t][f] = NoAsset]
  /\ UNCHANGED queue
  /\ Refund(t)

\* A deleted row puts its file in the queue (trigger enqueue_media_object_gc).
Drop(t, f, orphaned) ==
  /\ asset' = [asset EXCEPT ![t][f] = NoAsset]
  /\ queue' = [queue EXCEPT ![f] = Earliest(@, orphaned)]
  /\ Refund(t)
----------------------------------------------------------------------------
(* Uploads. *)

\* The quota is for what the ledger of the tenant says is in use.
InUse(t) == IF t \in Personal THEN usage[t] ELSE space[t]

NewReservation(h, t, f) ==
  /\ asset[t][f].state = "none"
  /\ t \in Complimentary \/ InUse(t) < MaxFiles
  /\ asset' = [asset EXCEPT ![t][f] = [state |-> "pending", token |-> h, updated |-> now]]
  /\ Charge(t)
  /\ pc' = [pc EXCEPT ![h] = "put"]

\* The bytes are uploaded again; a copy made for a discovery draft skips that.
ExistingReservation(h, t, f) ==
  /\ asset[t][f].state = "ready"
  /\ asset' = [asset EXCEPT ![t][f].updated = now]
  /\ UNCHANGED <<usage, space>>
  /\ pc' \in {[pc EXCEPT ![h] = "put"], [pc EXCEPT ![h] = "saved"]}

\* ReserveMedia, ReserveMediaForWorkspace: busy while another upload is pending.
Reserve(h, t, f) ==
  /\ pc[h] = "idle"
  /\ NewReservation(h, t, f) \/ ExistingReservation(h, t, f)
  /\ queue' = [queue EXCEPT ![f] = Never]
  /\ work' = [work EXCEPT ![h] = [tenant |-> t, file |-> f, existing |-> asset[t][f].state = "ready"]]
  /\ clock' = [clock EXCEPT ![h] = now]
  /\ NoFailure /\ UNCHANGED <<post, objects, now, todo>>

\* Upload.Store; nothing is left to complete for an existing row.
Put(h) ==
  /\ pc[h] = "put"
  /\ objects' = objects \cup {work[h].file}
  /\ Goto(h, IF work[h].existing THEN "saved" ELSE "complete")
  /\ NoFailure /\ UNCHANGED <<db, post, now>>

\* The upload fails, and may have been stored all the same.
PutFails(h) ==
  /\ pc[h] = "put" /\ Fail("storage")
  /\ objects' \in {objects, objects \cup {work[h].file}}
  /\ IF work[h].existing THEN Finish(h) ELSE Goto(h, "release")
  /\ UNCHANGED <<db, post, now>>

Holds(h) ==
  LET row == asset[work[h].tenant][work[h].file] IN row.state = "pending" /\ row.token = h

Ready(h) == [state |-> "ready", token |-> Nobody, updated |-> now]

\* CompleteMediaReservation: the token decides, without the advisory lock.
Complete(h) ==
  /\ pc[h] = "complete"
  /\ IF Holds(h)
     THEN /\ asset' = [asset EXCEPT ![work[h].tenant][work[h].file] = Ready(h)]
          /\ Goto(h, "saved")
     ELSE UNCHANGED asset /\ Goto(h, "release")
  /\ NoFailure /\ UNCHANGED <<usage, space, queue, post, objects, now>>

CompleteFails(h) ==
  /\ pc[h] = "complete" /\ Fail("database")
  /\ Goto(h, "release")
  /\ UNCHANGED <<db, post, objects, now>>

\* ReleaseMediaReservation: only a row that is still pending under this token.
Release(h) ==
  /\ pc[h] = "release"
  /\ IF Holds(h) THEN Drop(work[h].tenant, work[h].file, now) ELSE UNCHANGED db
  /\ Finish(h)
  /\ NoFailure /\ UNCHANGED <<post, objects, now>>

\* The row stays until the collector takes it; nobody knows its token any more.
\* A release follows a failure, so that failing too it is not counted again.
Forgotten(lost) ==
  [t \in Tenants |-> [f \in Files |->
    IF asset[t][f].token \in lost THEN [asset[t][f] EXCEPT !.token = Nobody] ELSE asset[t][f]]]
ReleaseFails(h) ==
  /\ pc[h] = "release" /\ "database" \in Faults
  /\ asset' = Forgotten({h})
  /\ Finish(h)
  /\ NoFailure /\ UNCHANGED <<usage, space, queue, post, objects, now>>
----------------------------------------------------------------------------
(* Posts. *)

\* A post shows the files attached to it; image_path repeats the first image
\* among them, if there is one (syncPostAttachmentProjectionTx).
Shows(t, files) ==
  \E image \in files \cup {NoFile} : post' = [post EXCEPT ![t] = [files |-> files, image |-> image]]

\* The request ends with the new file attached, perhaps in place of another.
\* Its foreign key makes the check of the row and the insertion one step.
Attach(h) ==
  /\ pc[h] = "saved"
  /\ LET t == work[h].tenant  f == work[h].file IN
     /\ asset[t][f].state = "ready"
     /\ \E old \in post[t].files \cup {NoFile} : Shows(t, (post[t].files \ {old}) \cup {f})
  /\ Finish(h)
  /\ NoFailure /\ UNCHANGED <<db, objects, now>>

\* The request ends with the URL of the file alone, or the attachment is refused.
Leave(h) ==
  /\ pc[h] = "saved"
  /\ Finish(h)
  /\ NoFailure /\ UNCHANGED <<db, post, objects, now>>

\* resolveImageURL: the tenant owns the file and the bucket has it.
CheckImage(h, t, f) ==
  /\ pc[h] = "idle"
  /\ asset[t][f].state = "ready" /\ f \in objects
  /\ pc' = [pc EXCEPT ![h] = "image"]
  /\ work' = [work EXCEPT ![h] = [tenant |-> t, file |-> f, existing |-> TRUE]]
  /\ clock' = [clock EXCEPT ![h] = now]
  /\ NoFailure /\ UNCHANGED <<db, post, objects, now, todo>>

\* The post is created or updated with the image; no key ties it to the row.
WriteImage(h) ==
  /\ pc[h] = "image"
  /\ post' = [post EXCEPT ![work[h].tenant].image = work[h].file]
  /\ Finish(h)
  /\ NoFailure /\ UNCHANGED <<db, objects, now>>

\* An attachment is removed or moved, the image is cleared, or the post deleted.
Edit(t) ==
  /\ \E keep \in SUBSET post[t].files : Shows(t, keep)
  /\ post' # post
  /\ NoFailure /\ UNCHANGED <<db, objects, now, actors>>
----------------------------------------------------------------------------
(* The collector: CleanupOrphanMedia in a scheduler cycle. *)

Before(c) == clock[c] - Grace

\* A reservation nobody completed, or a row no post of the tenant refers to.
Stale(t, f, before) ==
  /\ asset[t][f].state # "none" /\ asset[t][f].updated < before
  /\ asset[t][f].state = "ready" => ~Referenced(t, f)

Queued(before) == {f \in Files : queue[f] # Never /\ queue[f] < before}

Turn(c, next, list) ==
  /\ pc' = [pc EXCEPT ![c] = next]
  /\ todo' = [todo EXCEPT ![c] = list]
  /\ UNCHANGED work

Begin(c) ==
  /\ pc[c] = "idle"
  /\ clock' = [clock EXCEPT ![c] = now]
  /\ Turn(c, "assets", {p \in Tenants \X Files : Stale(p[1], p[2], now - Grace)})
  /\ NoFailure /\ UNCHANGED <<db, post, objects, now>>

\* Mutant: the candidate is taken as it was when it was listed.
CleanListed(c) ==
  /\ pc[c] = "assets"
  /\ \E p \in todo[c] :
       /\ IF asset[p[1]][p[2]].state # "none" THEN Drop(p[1], p[2], now) ELSE UNCHANGED db
       /\ Turn(c, "assets", todo[c] \ {p})
  /\ NoFailure /\ UNCHANGED <<post, objects, now, clock>>

\* cleanupMediaAsset looks at the row again, under the lock of its name.
CleanAsset(c) ==
  /\ pc[c] = "assets"
  /\ \E p \in todo[c] :
       /\ IF Stale(p[1], p[2], Before(c))
          THEN Drop(p[1], p[2], Min({now, asset[p[1]][p[2]].updated}))
          ELSE UNCHANGED db
       /\ Turn(c, "assets", todo[c] \ {p})
  /\ NoFailure /\ UNCHANGED <<post, objects, now, clock>>

ListObjects(c) ==
  /\ pc[c] = "assets" /\ todo[c] = {}
  /\ Turn(c, "objects", Tenants \X Queued(Before(c)))
  /\ NoFailure /\ UNCHANGED <<db, post, objects, now, clock>>

\* Mutant: the object goes without counting who owns it now.
RemoveQueued(c, f) ==
  /\ objects' = objects \ {f}
  /\ queue' = [queue EXCEPT ![f] = Never]

\* The last owner is gone, or the queue entry is out of date.
RemoveUnowned(c, f) ==
  /\ objects' = IF Owners(f) = {} THEN objects \ {f} ELSE objects
  /\ queue' = [queue EXCEPT ![f] = Never]

\* cleanupQueuedMediaObject.
CleanObject(c) ==
  /\ pc[c] = "objects"
  /\ \E f \in {p[2] : p \in todo[c]} :
       /\ IF f \in Queued(Before(c)) THEN RemoveUnowned(c, f) ELSE UNCHANGED <<objects, queue>>
       /\ Turn(c, "objects", {p \in todo[c] : p[2] # f})
  /\ NoFailure /\ UNCHANGED <<asset, usage, space, post, now, clock>>

\* Mutant: the queue entry goes although the deletion failed.
CleanFailsForgotten(c) ==
  /\ pc[c] = "objects" /\ todo[c] # {} /\ Fail("storage")
  /\ \E f \in {p[2] : p \in todo[c]} \cap Queued(Before(c)) : queue' = [queue EXCEPT ![f] = Never]
  /\ Turn(c, "idle", {}) /\ clock' = [clock EXCEPT ![c] = Never]
  /\ UNCHANGED <<asset, usage, space, post, objects, now>>

\* A storage or database error ends the cycle; the deletion may have happened.
CleanFails(c) ==
  /\ pc[c] \in {"assets", "objects"} /\ todo[c] # {}
  /\ \/ Fail("database") /\ UNCHANGED objects
     \/ /\ pc[c] = "objects" /\ Fail("storage")
        /\ \E f \in {p[2] : p \in todo[c]} \cap Queued(Before(c)) :
             Owners(f) = {} /\ objects' \in {objects, objects \ {f}}
  /\ Turn(c, "idle", {}) /\ clock' = [clock EXCEPT ![c] = Never]
  /\ UNCHANGED <<db, post, now>>

EndCycle(c) ==
  /\ pc[c] = "objects" /\ todo[c] = {}
  /\ Turn(c, "idle", {}) /\ clock' = [clock EXCEPT ![c] = Never]
  /\ NoFailure /\ UNCHANGED <<db, post, objects, now>>
----------------------------------------------------------------------------
\* The process stops; what it was doing is forgotten.
Crash ==
  /\ \E a \in Actors : pc[a] # "idle"
  /\ Fail("crash")
  /\ pc' = [a \in Actors |-> "idle"] /\ work' = [h \in Handlers |-> NoWork]
  /\ todo' = [c \in Cleaners |-> {}] /\ clock' = [a \in Actors |-> Never]
  /\ asset' = Forgotten(Handlers)
  /\ UNCHANGED <<usage, space, queue, post, objects, now>>

\* No request or cycle lives longer than Life.
Tick ==
  /\ now < MaxTime
  /\ \A a \in Actors : pc[a] # "idle" => now < clock[a] + Life
  /\ now' = now + 1
  /\ NoFailure /\ UNCHANGED <<db, post, objects, actors>>

Upload(h) == Put(h) \/ PutFails(h) \/ Complete(h) \/ CompleteFails(h) \/ Release(h) \/ ReleaseFails(h)
Serve(h) == Upload(h) \/ Attach(h) \/ Leave(h) \/ WriteImage(h)
Clean(c) == Begin(c) \/ CleanAsset(c) \/ ListObjects(c) \/ CleanObject(c) \/ CleanFails(c) \/ EndCycle(c)

Next ==
  \/ \E h \in Handlers : Serve(h)
  \/ \E h \in Handlers, t \in Tenants, f \in Files : Reserve(h, t, f) \/ CheckImage(h, t, f)
  \/ \E t \in Tenants : Edit(t)
  \/ \E c \in Cleaners : Clean(c)
  \/ Crash
  \/ Tick

Spec == Init /\ [][Next]_vars

\* A request is driven by its goroutine and cut off by the timeouts of the
\* storage client; the scheduler starts a cycle again and again; time passes.
FairSpec ==
  /\ Spec /\ WF_vars(Tick)
  /\ \A h \in Handlers : WF_vars(Serve(h))
  /\ \A c \in Cleaners : WF_vars(Clean(c))
----------------------------------------------------------------------------
(* Properties. *)

\* What the API serves as media is in the bucket: no order of uploads, releases
\* and collections of the same bytes, by one tenant or by two, deletes an
\* object that some row says is ready (the lock and the count of owners in
\* cleanupQueuedMediaObject).
ReadyHasObject ==
  \A t \in Tenants, f \in Files : asset[t][f].state = "ready" => f \in objects

\* The collector never takes the row of an upload under way, nor one that an
\* upload just returned as its own, before it is attached (updated_at and the
\* second look of cleanupMediaAsset).
UploadKeepsRow ==
  \A h \in Handlers :
    /\ pc[h] \in {"put", "complete"} /\ ~work[h].existing => Holds(h)
    /\ pc[h] = "saved" => asset[work[h].tenant][work[h].file].state = "ready"

\* Both ledgers count the rows of the tenant, whatever was released, collected
\* or interrupted, so the quota they enforce is the one the tenant uses
\* (ReserveMedia, ReleaseMediaReservation and cleanupMediaAsset must agree).
LedgerExact ==
  \A t \in Tenants :
    /\ space[t] = Cardinality(Owned(t))
    /\ t \in Personal => usage[t] = space[t]

\* An object is never forgotten in the bucket: some tenant owns it, or it is
\* queued for deletion (the trigger of migration 014, and the order of the two
\* passes of the collector).
NothingLeaks ==
  \A f \in objects : Owners(f) # {} \/ queue[f] # Never

\* An object no post refers to and no tenant touched again is deleted in the
\* end, through failed deletions and restarts.
Garbage(f) ==
  /\ f \in objects
  /\ \A t \in Owners(f) : Stale(t, f, MaxTime - Grace)
  /\ queue[f] < MaxTime - Grace
OrphansFreed == \A f \in Files : Garbage(f) ~> ~Garbage(f)

\* README, lines 187 to 190: only objects posts no longer refer to are deleted
\* in the background, so the files a post shows are in the bucket.
ShownHasObject ==
  \A t \in Tenants, f \in Files : Referenced(t, f) => f \in objects
============================================================================
