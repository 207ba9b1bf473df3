----------------------------- MODULE DirectState -----------------------------
(***************************************************************************)
(* Yandex Direct: the rows of a workspace's campaigns, its connection, the *)
(* advertising account at the provider, and the goroutines that work on    *)
(* them.  The modules DirectGraph and DirectLaunch hold their operations,   *)
(* Direct composes them.                                                   *)
(*                                                                         *)
(* An operation has a number, which also stands for the content it asks    *)
(* for: a provider object "carries" the number of the operation whose text *)
(* it shows.  A claim is fenced by its claimed_at in the code; here the    *)
(* row names the goroutine that holds the claim, and forgets it when that  *)
(* goroutine ends.  Leases count down to 0.                                *)
(***************************************************************************)
EXTENDS Integers, FiniteSets, FiniteSetsExt

CONSTANTS
  Campaigns,
  Workers,        \* goroutines: HTTP handlers and cycles of the Direct loop
  Cap,            \* how many campaign budgets the workspace cap allows
  MaxOperations,  \* operations per campaign
  Lease,          \* lease of a provider operation: 10 minutes
  Deadline,       \* deadline of its workflow: 8 minutes
  LaunchLease,    \* lease of a launch, and of a provider sync: 2 minutes
  Mixes,          \* what a behaviour may contain: requests, on which campaigns, which
                  \* faults and how many, and the campaigns that start verified
  Nobody

AllRequests == {"submit", "edit", "launch", "consent", "auto", "recover", "sync", "connect"}
AllFaults == {"stop", "slow", "lost", "late", "rejected", "auth", "outside"}

ASSUME LeaseAssumption ==
  /\ {Cap, MaxOperations, Lease, Deadline, LaunchLease} \subseteq Nat
  /\ MaxOperations > 0 /\ Deadline < Lease /\ LaunchLease > 0
ASSUME WorkerAssumption ==
  /\ Nobody \notin Workers /\ Campaigns # {} /\ IsFiniteSet(Campaigns)
  /\ Mixes \subseteq [requests : SUBSET AllRequests, on : SUBSET Campaigns, faults : SUBSET AllFaults,
                     limit : Nat, verified : SUBSET Campaigns]

VARIABLES
  mix,        \* the mix of this behaviour
  row,        \* direct_campaigns
  op,         \* the latest direct_provider_operations row of each campaign
  launch,     \* the launch columns of direct_campaigns
  syncing,    \* provider_sync_claimed_at and its lease
  conn,       \* direct_connections: the latest row
  account,    \* the account at Yandex Direct, by campaign
  work,       \* what each goroutine does
  failures,
  asked,      \* history: revisions somebody asked to launch, and how
  resumes     \* history: Resume calls since the launch was claimed

history == <<asked, resumes>>
core    == <<mix, row, op, launch, syncing, conn, account, work, failures, asked, resumes>>

Nodes == {"campaign", "group", "ad", "keywords"}
Operations == 1..MaxOperations
Absent == 0
Foreign == -1          \* changed outside MaxPosty
Mixed == -2            \* some of the keywords only
Contents == Operations \cup {Absent, Foreign, Mixed}

Statuses == {"draft", "creating", "provider_draft", "moderation", "accepted", "rejected",
             "active", "suspended"}
Moderations == {"", "DRAFT", "MODERATION", "ACCEPTED", "REJECTED"}
Steps == {"idle", "load", "read", "write", "confirm", "advance", "record", "check", "claim", "verify", "attempt",
          "resume", "reconcile", "abort", "settle", "sync", "complete", "again"}
Stages == {"claimed", "campaign", "group", "ad", "keywords", "observed", "verified",
           "moderation", "completed", "failed"}

NothingSeen == [moderation |-> "", state |-> "OFF"]
NoOperation == [number |-> 0, kind |-> "none", stage |-> "completed", base |-> 0,
                holder |-> Nobody, lease |-> 0]
NoLaunch == [state |-> "idle", mode |-> "", attempts |-> 0, holder |-> Nobody, retry |-> 0]
NoSync == [holder |-> Nobody, lease |-> 0]
Idle == [job |-> "none", on |-> CHOOSE c \in Campaigns : TRUE, pc |-> "idle", stage |-> "completed", rev |-> 0,
         saw |-> NothingSeen, left |-> 0]
NoWork(w) == work[w].pc = "idle"

Draft(connection) ==
  [status |-> "draft", revision |-> 0, moderation |-> "", state |-> "", created |-> FALSE,
   recorded |-> "", connection |-> connection, consent |-> 0]
Verified(connection) ==
  [status |-> "accepted", revision |-> 1, moderation |-> "ACCEPTED", state |-> "OFF", created |-> TRUE,
   recorded |-> "DRAFT", connection |-> connection, consent |-> 0]

Empty == [content |-> [n \in Nodes |-> Absent], twice |-> {}, state |-> "OFF",
          moderation |-> "DRAFT", late |-> FALSE]
Published == [Empty EXCEPT !.content = [n \in Nodes |-> 1], !.moderation = "ACCEPTED"]

Requested(request) == request \in mix.requests
Fault(kind) ==
  /\ kind \in mix.faults /\ failures < mix.limit
  /\ failures' = failures + 1
NoFault == UNCHANGED failures

Unfinished(c) == op[c].stage \notin {"completed", "failed"}
Usable(c) == conn.status = "active" /\ row[c].connection = conn.id

\* Values have their types; a finished operation is held by nobody.
CoreTypeOK ==
  /\ mix \in Mixes
  /\ row \in [Campaigns -> [status : Statuses, revision : 0..MaxOperations, moderation : Moderations,
                            state : {"", "OFF", "ON"}, created : BOOLEAN, recorded : Moderations,
                            connection : Nat, consent : 0..MaxOperations]]
  /\ op \in [Campaigns -> [number : 0..MaxOperations, kind : {"none", "submission", "update"},
                           stage : Stages, base : 0..MaxOperations, holder : Workers \cup {Nobody},
                           lease : 0..Lease]]
  /\ \A c \in Campaigns : ~Unfinished(c) => op[c].holder = Nobody
  /\ launch \in [Campaigns -> [state : {"idle", "launching", "reconciling", "confirmed", "failed"},
                               mode : {"", "manual", "auto"}, attempts : 0..2,
                               holder : Workers \cup {Nobody}, retry : 0..LaunchLease]]
  /\ syncing \in [Campaigns -> [holder : Workers \cup {Nobody}, lease : 0..LaunchLease]]
  /\ conn \in [id : Nat, status : {"active", "error", "revoked"}]
  /\ account \in [Campaigns -> [content : [Nodes -> Contents], twice : SUBSET Nodes,
                                state : {"OFF", "ON"}, moderation : Moderations, late : BOOLEAN]]
  /\ work \in [Workers -> [job : {"none", "graph", "launch", "auto", "recovery", "sync"}, on : Campaigns,
                           pc : Steps, stage : Stages, rev : 0..MaxOperations,
                           saw : [moderation : Moderations, state : {"OFF", "ON"}], left : Nat]]
  /\ failures \in Nat
  /\ asked \in [Campaigns -> SUBSET (Operations \X {"manual", "auto"})]
  /\ resumes \in [Campaigns -> Nat]

CoreInit ==
  /\ mix \in Mixes
  /\ row = [c \in Campaigns |-> IF c \in mix.verified THEN Verified(1) ELSE Draft(1)]
  /\ op = [c \in Campaigns |-> IF c \in mix.verified
                               THEN [NoOperation EXCEPT !.number = 1, !.kind = "submission"]
                               ELSE NoOperation]
  /\ launch = [c \in Campaigns |-> NoLaunch] /\ syncing = [c \in Campaigns |-> NoSync]
  /\ conn = [id |-> 1, status |-> "active"]
  /\ account = [c \in Campaigns |-> IF c \in mix.verified THEN Published ELSE Empty]
  /\ work = [w \in Workers |-> Idle] /\ failures = 0
  /\ asked = [c \in Campaigns |-> {}] /\ resumes = [c \in Campaigns |-> 0]
----------------------------------------------------------------------------
(* A goroutine goes on, or ends: then nobody knows its claims any more. *)

Goto(w, pc) == work' = [work EXCEPT ![w].pc = pc]
Start(w, c, job, pc) ==
  /\ NoWork(w)
  /\ work' = [work EXCEPT ![w] = [job |-> job, on |-> c, pc |-> pc, stage |-> "completed",
                                  rev |-> row[c].revision, saw |-> NothingSeen, left |-> LaunchLease - 1]]
StartGraph(w, c, stage, pc) ==
  /\ NoWork(w)
  /\ work' = [work EXCEPT ![w] = [job |-> "graph", on |-> c, pc |-> pc, stage |-> stage,
                                  rev |-> 0, saw |-> NothingSeen, left |-> Deadline]]
End(w) == work' = [work EXCEPT ![w] = Idle]

ForgetOperation(w, table) ==
  [c \in Campaigns |-> IF table[c].holder = w THEN [table[c] EXCEPT !.holder = Nobody] ELSE table[c]]
ForgetLaunch(w, table) == ForgetOperation(w, table)
Forget(w) ==
  /\ op' = ForgetOperation(w, op)
  /\ launch' = ForgetLaunch(w, launch)
  /\ syncing' = ForgetOperation(w, syncing)
  /\ End(w)

\* The process stops, or the deadline of the request ends the workflow, or a
\* read fails: the goroutine ends wherever it is.
Stop(w) ==
  /\ ~NoWork(w) /\ Fault("stop")
  /\ Forget(w)
  /\ UNCHANGED <<mix, row, conn, account, asked, resumes>>

Less(n) == Max({n - 1, 0})

\* Time passes while goroutines wait for the provider. A graph workflow is cut
\* off before its lease ends, and a Resume call by the 20 seconds of the HTTP
\* client, before the launch may be recovered; the other jobs may be slower
\* than their lease.
Tick ==
  /\ \A w \in Workers : work[w].job = "graph" => work[w].left > 0
  /\ \A w \in Workers : work[w].pc # "resume"
  /\ \E c \in Campaigns : op[c].lease > 0 \/ launch[c].retry > 0 \/ syncing[c].lease > 0
  /\ IF \E w \in Workers : ~NoWork(w) /\ work[w].left = 0 THEN Fault("slow") ELSE NoFault
  /\ op' = [c \in Campaigns |-> [op[c] EXCEPT !.lease = Less(@)]]
  /\ launch' = [c \in Campaigns |-> [launch[c] EXCEPT !.retry = Less(@)]]
  /\ syncing' = [c \in Campaigns |-> [syncing[c] EXCEPT !.lease = Less(@)]]
  /\ work' = [w \in Workers |-> [work[w] EXCEPT !.left = Less(@)]]
  /\ UNCHANGED <<mix, row, conn, account, history>>
=============================================================================
