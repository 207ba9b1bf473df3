-------------------------------- MODULE AILimits --------------------------------
(***************************************************************************)
(* What a workspace may ask of the AI providers.                           *)
(*                                                                         *)
(* A handler takes a slot of its process, reads the clock and then waits   *)
(* for the locks of one transaction, which counts the leases, the requests *)
(* of the minute and the day, charges the period that was paid for, and    *)
(* leaves a lease behind.  The request runs for at most Timeout; the lease *)
(* counts from the clock that was read, not from the commit.               *)
(***************************************************************************)
EXTENDS Integers, FiniteSets, FiniteSetsExt

CONSTANTS
  Callers,        \* HTTP handlers of a process
  Slots,          \* GlobalMaxConcurrent
  MaxConcurrent,  \* UserMaxConcurrent
  PerMinute, PerDay, MonthlyLimit,
  Lease, Timeout, \* LeaseTTL and AIHandlerTimeout
  Minute, Day,    \* their lengths
  MaxWait,        \* bound on the wait for the locks
  MaxTime, MaxRequests, MaxChanges, MaxFaults

VARIABLES
  now,
  kind,      \* whether the workspace is personal or a team's
  plan,      \* the contract, with its current period and the changes so far
  free,      \* account_complimentary_access of the owner
  bucket,    \* ai_usage_buckets, or those of the workspace
  leases,    \* ai_request_leases, or those of the workspace
  usage,     \* workspace_usage_periods; 0 is the calendar month
  caller,    \* the handlers
  granted,   \* ghost: every request that was granted
  strayed,   \* ghost: a request was granted with an older clock than its bucket
  faults     \* faults left

\* What the proofs assume: a lease is longer than the wait for the locks and the request together.
LimitsOK ==
  /\ Lease \in Nat /\ Timeout \in Nat /\ MaxWait \in Nat /\ MaxWait + Timeout < Lease
  /\ MaxConcurrent \in Nat /\ PerMinute \in Nat /\ PerDay \in Nat /\ MaxRequests \in Nat
  /\ MonthlyLimit \in Nat /\ MaxChanges \in Nat
  /\ Minute \in Nat \ {0} /\ Day \in Nat \ {0}

requests == <<now, kind, plan, free, bucket, leases, usage, caller, granted, strayed, faults>>

Buckets == {"minute", "day"}
Start(b, t) == t \div (IF b = "minute" THEN Minute ELSE Day)
Limit(b) == IF b = "minute" THEN PerMinute ELSE PerDay
Idle == [pc |-> "idle", id |-> 0, amount |-> 0, stamp |-> 0, until |-> 0]

Init ==
  /\ now = 0 /\ kind \in {"personal", "team"}
  /\ plan = [status |-> "active", period |-> 1, until |-> Day, changes |-> 0]
  /\ free = FALSE
  /\ bucket = [b \in Buckets |-> [start |-> 0, used |-> 0]]
  /\ leases = {} /\ usage = [p \in 0..(MaxChanges + 1) |-> 0]
  /\ caller = [c \in Callers |-> Idle]
  /\ granted = {} /\ strayed = FALSE /\ faults = MaxFaults

Asked == {g.id : g \in granted} \cup {caller[c].id : c \in Callers}
At(c, pc) == caller[c].pc = pc
Set(c, r) == caller' = [caller EXCEPT ![c] = r]
----------------------------------------------------------------------------
(* One request *)

\* What a request costs is known before anything is locked.
GenerateWorkspaceImage(c) ==
  /\ At(c, "idle") /\ Cardinality(Asked \ {0}) < MaxRequests
  /\ Cardinality({d \in Callers : ~At(d, "idle")}) < Slots
  /\ \E amount \in 1..2, id \in (1..MaxRequests) \ Asked :
       /\ \A lower \in 1..(id - 1) : lower \in Asked
       /\ Set(c, [Idle EXCEPT !.pc = "acquire", !.id = id, !.amount = amount, !.stamp = now])
  /\ UNCHANGED <<now, kind, plan, free, bucket, leases, usage, granted, strayed, faults>>

Expired(t) == {l \in leases : l.until <= t}
ReadBucket(b, t) == IF bucket[b].start = Start(b, t) THEN bucket[b].used ELSE 0
WriteBucket(t) == bucket' = [b \in Buckets |-> [start |-> Start(b, t), used |-> ReadBucket(b, t) + 1]]

\* The contract as of the time the handler read.
RequireActive(t) == plan.status = "active" /\ plan.until > t
\* The period that pays, or the calendar month of an owner who does not.
UsageWindow(t) == IF RequireActive(t) THEN plan.period ELSE 0
WithinLimit(c, p) == usage[p] <= MonthlyLimit /\ caller[c].amount <= MonthlyLimit - usage[p]
ChargeAllowed(c) ==
  LET t == caller[c].stamp IN free \/ (RequireActive(t) /\ WithinLimit(c, UsageWindow(t)))

CapacityFree(c) == Cardinality(leases \ Expired(caller[c].stamp)) < MaxConcurrent
Grantable(c) ==
  /\ CapacityFree(c)
  /\ \A b \in Buckets : ReadBucket(b, caller[c].stamp) < Limit(b)
  /\ ChargeAllowed(c)

\* The transaction, once it has its locks: refused as a whole, or all of it.  Its answer may be lost.
Acquire(c) ==
  LET t == caller[c].stamp  p == UsageWindow(t)  amount == caller[c].amount IN
  /\ At(c, "acquire") /\ Grantable(c)
  /\ leases' = (leases \ Expired(t)) \cup {[id |-> caller[c].id, until |-> t + Lease]}
  /\ WriteBucket(t)
  /\ usage' = [usage EXCEPT ![p] = @ + amount]
  /\ granted' = granted \cup {[id |-> caller[c].id, stamp |-> t, amount |-> amount, period |-> p, exempt |-> free]}
  /\ strayed' = (strayed \/ \E b \in Buckets : Start(b, t) < bucket[b].start)
  /\ \E lost \in BOOLEAN :
       /\ lost => faults > 0
       /\ faults' = faults - (IF lost THEN 1 ELSE 0)
       /\ Set(c, IF lost THEN Idle ELSE [caller[c] EXCEPT !.pc = "run", !.until = now + Timeout])
  /\ UNCHANGED <<now, kind, plan, free>>
AcquireAILease(c) == kind = "personal" /\ Acquire(c)
AcquireWorkspaceAILease(c) == kind = "team" /\ Acquire(c)
Refuse(c) ==
  /\ At(c, "acquire") /\ ~Grantable(c) /\ Set(c, Idle)
  /\ UNCHANGED <<now, kind, plan, free, bucket, leases, usage, granted, strayed, faults>>

\* The provider answered, failed, or was given up at the deadline.
Answered(c) ==
  /\ At(c, "run") /\ Set(c, [caller[c] EXCEPT !.pc = "release"])
  /\ UNCHANGED <<now, kind, plan, free, bucket, leases, usage, granted, strayed, faults>>
\* A lease that cannot be released is left to expire.
Release(c) ==
  /\ At(c, "release") /\ Set(c, Idle)
  /\ \/ /\ leases' = {l \in leases : l.id # caller[c].id} /\ UNCHANGED faults
     \/ /\ faults > 0 /\ faults' = faults - 1 /\ UNCHANGED leases
  /\ UNCHANGED <<now, kind, plan, free, bucket, usage, granted, strayed>>
ReleaseAILease(c) == kind = "personal" /\ Release(c)
ReleaseWorkspaceAILease(c) == kind = "team" /\ Release(c)
----------------------------------------------------------------------------
(* Around it *)

\* The handlers and slots of a process are gone; what it wrote stays.
Crash ==
  /\ faults > 0 /\ faults' = faults - 1
  /\ caller' = [c \in Callers |-> Idle]
  /\ UNCHANGED <<now, kind, plan, free, bucket, leases, usage, granted, strayed>>
\* Billing changes the contract under the lock a charge holds.
Changed(p) == plan.changes < MaxChanges /\ plan' = [p EXCEPT !.changes = @ + 1]
PeriodPaid ==
  /\ Changed([plan EXCEPT !.status = "active", !.period = @ + 1, !.until = now + Day])
  /\ UNCHANGED <<now, kind, free, bucket, leases, usage, caller, granted, strayed, faults>>
ContractEnds ==
  /\ plan.status = "active" /\ plan.until <= now /\ plan' = [plan EXCEPT !.status = "ended"]
  /\ UNCHANGED <<now, kind, free, bucket, leases, usage, caller, granted, strayed, faults>>
ComplimentaryAccess ==
  /\ free' = ~free /\ Changed(plan)
  /\ UNCHANGED <<now, kind, bucket, leases, usage, caller, granted, strayed, faults>>
Tick ==
  /\ now < MaxTime /\ now' = now + 1
  /\ \A c \in Callers :
       /\ At(c, "acquire") => now < caller[c].stamp + MaxWait
       /\ At(c, "run") => now < caller[c].until
  /\ UNCHANGED <<kind, plan, free, bucket, leases, usage, caller, granted, strayed, faults>>

Next ==
  \/ \E c \in Callers :
       \/ GenerateWorkspaceImage(c) \/ AcquireAILease(c) \/ AcquireWorkspaceAILease(c) \/ Refuse(c)
       \/ Answered(c) \/ ReleaseAILease(c) \/ ReleaseWorkspaceAILease(c)
  \/ Crash \/ PeriodPaid \/ ContractEnds \/ ComplimentaryAccess \/ Tick
----------------------------------------------------------------------------
Total(some) == MapThenSumSet(LAMBDA g : g.amount, some)

\* No more requests are at the providers than a workspace may have at once: a lease outlives its
\* request although it counts from a clock read before the wait.
RequestsBounded == Cardinality({c \in Callers : At(c, "run")}) <= MaxConcurrent

\* Nobody who pays gets more than the period has, and every request that was let through is charged.
MonthlyKept ==
  \A p \in DOMAIN usage :
    LET here == {g \in granted : g.period = p} IN
    /\ usage[p] = Total(here)
    /\ p # 0 => Total({g \in here : ~g.exempt}) <= MonthlyLimit

\* The limits of a minute and of a day hold unless a handler that waited writes back an older bucket.
BucketsKept ==
  strayed \/ \A b \in Buckets, g \in granted :
    Cardinality({h \in granted : Start(b, h.stamp) = Start(b, g.stamp)}) <= Limit(b)
================================================================================
