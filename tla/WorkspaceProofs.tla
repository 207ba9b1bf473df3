---------------------------- MODULE WorkspaceProofs ----------------------------
(***************************************************************************)
(* Proofs about the parts of a workspace that are checked alone, for any   *)
(* value of their constants: Members first, and then, each on its own,     *)
(* BrandKits, AILimits, Discovery, Analysis, Campaigns, SignIn, Sessions   *)
(* and Wordstat.  The parts only share the names of some constants and     *)
(* variables.                                                              *)
(***************************************************************************)
EXTENDS Members, Sequences, FiniteSetTheorems, WellFoundedInduction, TLAPS

CONSTANTS
  Editors, Templates, MaxVersion,
  Slots, MaxConcurrent, PerMinute, PerDay, MonthlyLimit, Lease, Minute, Day, MaxRequests, MaxFaults,
  MaxTakeovers,
  Visitors, ClaimLife, ReadyLife, PartLife, MaxPaid,
  Variants, MaxPosts, MaxCalls,
  Callers, Timeout, MaxWait, MaxTime, MaxChanges,
  Attempts, Accounts, Owners, MaxPresses, MaxAsks, Nobody,
  Browsers, Callbacks, MaxStarts, MaxStates, StateLife, SessionLife, MaxLists,
  Processes, LimitOf, Length, CacheLife, MaxEvents, MaxStops
VARIABLES
  template, save,
  now, kind, plan, free, bucket, leases, usage, granted, strayed, faults,
  card, transfer, draft, made,
  moment, media, allowed, entry, visitor, paid, displaced,
  campaign, variant, post, txn, calls,
  caller,
  attempt, over, asking, offered, presses, profile, ask, shown, identity, linked, deal, session,
  second, starts, states, cookie, callback, users, logins, valid, token, mails, listed, lists,
  flight, cache, ledger, reserved, stops

----------------------------------------------------------------------------
(* Members: a workspace has one owner, nobody owns more workspaces than    *)
(* the limit, an archived workspace has nothing alive in it, and what an   *)
(* owner decided about a member stands.                                    *)

TeamRow == [owner : Users \cup {NoOne}, archived : BOOLEAN, busy : BOOLEAN]
InviteRow == [status : {"none", "pending", "accepted", "revoked", "expired"}, x : Teams \cup {Free},
              for : Users \cup {NoOne, Everyone}, stamp : Int]
Ask == [pc : {"idle", "transfer", "capacity", "count", "commit", "invite"}, x : Teams \cup {Free},
        actor : Users \cup {NoOne}, to : Users \cup {NoOne, Everyone}, stamp : Int]
MembersTypeOK ==
  /\ team \in [Teams -> TeamRow]
  /\ role \in [Teams -> [Users -> {"none", "viewer", "editor", "owner"}]]
  /\ invite \in [Invitations -> InviteRow]
  /\ cutoff \in [Teams -> [Users -> Int]]
  /\ locks \in [Teams \cup Users -> Handlers \cup {Free}]
  /\ request \in [Handlers -> Ask]
  /\ date \in Int /\ void \subseteq Invitations \X Users

OwnerSound(x) == \A u \in Users : role[x][u] = "owner" <=> team[x].owner = u
ArchivedSound(x) ==
  team[x].archived => ~team[x].busy /\ \A i \in Invitations : invite[i].x = x => invite[i].status # "pending"
Within(u) == u \in Unlimited \/ Cardinality(Owned(u)) <= OwnedLimit
Room(u) == u \in Unlimited \/ Cardinality(Owned(u)) < OwnedLimit

\* Whoever is about to make somebody the owner of a workspace has the workspace to himself, because nobody
\* else knows it yet or because its row is locked; and whoever has counted holds the lock of that person.
Owning(h) == request[h].pc \in {"capacity", "count", "commit"}
RequestSound(h) ==
  LET r == request[h] IN
  /\ r.pc # "idle" => r.x \in Teams
  /\ r.pc = "transfer" => r.actor \in Users
  /\ Owning(h) \/ r.pc = "transfer" => r.to \in Users /\ r.actor # r.to
  /\ Owning(h) => team[r.x].owner = r.actor
  /\ Owning(h) /\ r.actor = NoOne => \A g \in Handlers \ {h} : request[g].x # r.x
  /\ Owning(h) /\ r.actor # NoOne => locks[r.x] = h
  /\ r.pc \in {"count", "commit"} => locks[r.to] = h
  /\ r.pc = "commit" => Room(r.to)
  /\ r.stamp <= date

\* An invitation is dated in the past; one that is older than a decision is not younger than its cutoff.
InviteSound(i) == (invite[i].status = "none" <=> invite[i].x = Free) /\ invite[i].stamp <= date
VoidSound ==
  \A i \in Invitations, u \in Users :
    <<i, u>> \in void => invite[i].x \in Teams /\ cutoff[invite[i].x][u] >= invite[i].stamp
MembersInv ==
  /\ MembersTypeOK /\ VoidSound /\ date >= 0
  /\ \A x \in Teams : OwnerSound(x) /\ ArchivedSound(x)
  /\ \A u \in Users : Within(u)
  /\ \A h \in Handlers : RequestSound(h)
  /\ \A i \in Invitations : InviteSound(i)
NobodyAccepts == \A i \in Invitations : invite'[i].status = "accepted" => invite[i].status = "accepted"
----------------------------------------------------------------------------
(* A goroutine takes a step of its request. *)

LEMMA NoRequestIs ==
  MembersOK => NoRequest \in Ask /\ NoRequest.pc = "idle" /\ NoRequest.x = Free /\ NoRequest.actor = NoOne
             /\ NoRequest.stamp = 0
BY DEF NoRequest, Ask, MembersOK

\* The others keep what they rely on.
LEMMA OthersSound ==
  ASSUME MembersOK, MembersInv, NEW h \in Handlers, NEW g \in Handlers \ {h},
         UNCHANGED <<team, date>>, request'[g] = request[g], \A k \in Handlers \ {h} : request'[k] = request[k],
         \/ request'[h].x \in {request[h].x, Free}
         \/ team[request'[h].x].owner # NoOne
         \/ \A k \in Handlers : request[k].x # request'[h].x,
         \A l \in Teams \cup Users : locks[l] = g => locks'[l] = g
  PROVE  RequestSound(g)'
<1>1. RequestSound(g) /\ Owned(request[g].to)' = Owned(request[g].to)
  BY DEF MembersInv, Owned
<1>2. Room(request[g].to)' = Room(request[g].to)
  BY <1>1 DEF Room, Owned
<1>3. Owning(g) /\ request[g].actor = NoOne => \A k \in Handlers \ {g} : request'[k].x # request[g].x
  <2> SUFFICES ASSUME Owning(g), request[g].actor = NoOne, NEW k \in Handlers \ {g} PROVE request'[k].x # request[g].x
    OBVIOUS
  <2>1. /\ request[g].x \in Teams /\ team[request[g].x].owner = NoOne
        /\ \A j \in Handlers \ {g} : request[j].x # request[g].x
    BY <1>1 DEF RequestSound, Owning
  <2>2. CASE k # h
    BY <2>1, <2>2
  <2>3. CASE k = h
    BY <2>1, <2>3 DEF MembersOK
  <2> QED
    BY <2>2, <2>3
<1>4. Owning(g)' = Owning(g)
  BY DEF Owning
<1>5. (Owning(g) \/ request[g].pc = "transfer" => request[g].to \in Users) /\ (Owning(g) => request[g].x \in Teams)
  BY <1>1 DEF RequestSound, Owning
<1>6. request[g].pc \in {"count", "commit"} => locks'[request[g].to] = g
  BY <1>1, <1>5 DEF RequestSound, Owning
<1>7. Owning(g) /\ request[g].actor # NoOne => locks'[request[g].x] = g
  BY <1>1, <1>5 DEF RequestSound
<1> QED
  BY <1>1, <1>2, <1>3, <1>4, <1>6, <1>7 DEF RequestSound

\* Rows are left alone.
LEMMA RowsStay ==
  ASSUME MembersInv, UNCHANGED <<team, role, invite, cutoff, date, void>>,
         request' \in [Handlers -> Ask], locks' \in [Teams \cup Users -> Handlers \cup {Free}],
         \A h \in Handlers : RequestSound(h)'
  PROVE  MembersInv' /\ NobodyAccepts
<1>1. MembersTypeOK' /\ VoidSound' /\ date' >= 0
  BY DEF MembersInv, MembersTypeOK, VoidSound
<1>2. ASSUME NEW x \in Teams PROVE OwnerSound(x)' /\ ArchivedSound(x)'
  BY DEF MembersInv, OwnerSound, ArchivedSound
<1>3. ASSUME NEW u \in Users PROVE Within(u)'
  BY DEF MembersInv, Within, Owned
<1>4. ASSUME NEW i \in Invitations PROVE InviteSound(i)'
  BY DEF MembersInv, InviteSound
<1> QED
  BY <1>1, <1>2, <1>3, <1>4 DEF MembersInv, NobodyAccepts

LEMMA Asks ==
  ASSUME MembersInv, NEW h \in Handlers, NEW r \in Ask, request' = [request EXCEPT ![h] = r]
  PROVE  request' \in [Handlers -> Ask] /\ request'[h] = r /\ \A k \in Handlers \ {h} : request'[k] = request[k]
BY DEF MembersInv, MembersTypeOK
LEMMA Goes ==
  ASSUME MembersInv, NEW h \in Handlers, NEW pc \in {"transfer", "capacity", "count", "commit", "invite"}, Go(h, pc)
  PROVE  /\ request' \in [Handlers -> Ask] /\ \A k \in Handlers \ {h} : request'[k] = request[k]
         /\ request'[h].pc = pc /\ request'[h].x = request[h].x /\ request'[h].actor = request[h].actor
         /\ request'[h].to = request[h].to /\ request'[h].stamp = request[h].stamp
<1> DEFINE r == [request[h] EXCEPT !.pc = pc]
<1>1. request[h] \in Ask
  BY DEF MembersInv, MembersTypeOK
<1>2. /\ r \in Ask /\ r.pc = pc /\ r.x = request[h].x /\ r.actor = request[h].actor
      /\ r.to = request[h].to /\ r.stamp = request[h].stamp
  BY <1>1 DEF Ask
<1>3. request' = [request EXCEPT ![h] = r]
  BY DEF Go
<1> HIDE DEF r
<1> QED
  BY <1>2, <1>3, Asks

\* The request is over, and its locks are free.
LEMMA Ends ==
  ASSUME MembersOK, MembersInv, NEW h \in Handlers, End(h)
  PROVE  /\ request' \in [Handlers -> Ask] /\ request'[h] = NoRequest
         /\ \A k \in Handlers \ {h} : request'[k] = request[k]
         /\ locks' \in [Teams \cup Users -> Handlers \cup {Free}]
         /\ \A l \in Teams \cup Users : locks'[l] = IF locks[l] = h THEN Free ELSE locks[l]
<1>1. locks \in [Teams \cup Users -> Handlers \cup {Free}] /\ locks' = Released(h)
  BY DEF MembersInv, MembersTypeOK, End
<1>2. NoRequest \in Ask
  BY NoRequestIs
<1> QED
  BY <1>1, <1>2, Asks DEF End, Released
LEMMA EndSound ==
  ASSUME MembersOK, MembersInv, NEW h \in Handlers, request'[h] = NoRequest, date' \in Int, date' >= date
  PROVE  RequestSound(h)'
<1>1. request'[h].pc = "idle" /\ request'[h].stamp = 0
  BY NoRequestIs
<1>2. 0 <= date'
  BY DEF MembersInv, MembersTypeOK
<1> QED
  BY <1>1, <1>2 DEF RequestSound, Owning
LEMMA EndKept ==
  ASSUME MembersOK, MembersInv, NEW h \in Handlers, End(h), UNCHANGED <<team, role, invite, cutoff, date, void>>
  PROVE  MembersInv' /\ NobodyAccepts
<1>1. /\ request' \in [Handlers -> Ask] /\ request'[h] = NoRequest
      /\ \A k \in Handlers \ {h} : request'[k] = request[k]
      /\ locks' \in [Teams \cup Users -> Handlers \cup {Free}]
      /\ \A l \in Teams \cup Users : locks'[l] = IF locks[l] = h THEN Free ELSE locks[l]
  BY Ends
<1>2. request'[h].x = Free
  BY <1>1, NoRequestIs
<1>3. RequestSound(h)'
  BY <1>1, EndSound DEF MembersInv, MembersTypeOK
<1>4. ASSUME NEW g \in Handlers \ {h} PROVE RequestSound(g)'
  <2>1. \A l \in Teams \cup Users : locks[l] = g => locks'[l] = g
    BY <1>1
  <2> QED
    BY <1>1, <1>2, <2>1, OthersSound
<1> QED
  BY <1>1, <1>3, <1>4, RowsStay

\* A request begins.
LEMMA Creating ==
  ASSUME MembersOK, NEW x \in Teams, NEW u \in Users
  PROVE  LET r == [NoRequest EXCEPT !.pc = "capacity", !.x = x, !.to = u]
         IN  r \in Ask /\ r.pc = "capacity" /\ r.x = x /\ r.to = u /\ r.actor = NoOne /\ r.stamp = 0
<1> DEFINE r == [NoRequest EXCEPT !.pc = "capacity", !.x = x, !.to = u]
<1>1. NoRequest \in Ask /\ NoRequest.stamp = 0 /\ NoRequest.actor = NoOne
  BY NoRequestIs
<1>2. r \in Ask /\ r.pc = "capacity" /\ r.x = x /\ r.to = u
  BY <1>1 DEF Ask
<1>3. r.actor = NoRequest.actor /\ r.stamp = NoRequest.stamp
  BY <1>1 DEF Ask
<1> QED
  BY <1>1, <1>2, <1>3
LEMMA BeginsSound ==
  ASSUME MembersOK, MembersInv, NEW h \in Handlers, NEW r \in Ask, Begin(h, r), r.pc # "idle",
         UNCHANGED <<team, role, invite, cutoff, locks, date, void>>,
         team[r.x].owner # NoOne \/ \A k \in Handlers : request[k].x # r.x,
         RequestSound(h)'
  PROVE  MembersInv' /\ NobodyAccepts
<1>1. /\ request' \in [Handlers -> Ask] /\ request'[h] = r
      /\ \A k \in Handlers \ {h} : request'[k] = request[k]
  BY Asks DEF Begin
<1>2. ASSUME NEW g \in Handlers \ {h} PROVE RequestSound(g)'
  BY <1>1, OthersSound
<1>3. locks' \in [Teams \cup Users -> Handlers \cup {Free}]
  BY DEF MembersInv, MembersTypeOK
<1> QED
  BY <1>1, <1>2, <1>3, RowsStay
LEMMA BeginCreateKept ==
  ASSUME MembersOK, MembersInv, NEW h \in Handlers, NEW x \in Teams, NEW u \in Users, BeginCreate(h, x, u)
  PROVE  MembersInv' /\ NobodyAccepts
<1> DEFINE r == [NoRequest EXCEPT !.pc = "capacity", !.x = x, !.to = u]
<1>1. r \in Ask /\ r.pc = "capacity" /\ r.x = x /\ r.to = u /\ r.actor = NoOne /\ r.stamp = 0
  BY Creating
<1>2. /\ Begin(h, r) /\ UNCHANGED <<team, role, invite, cutoff, locks, date, void>>
      /\ team[x].owner = NoOne /\ \A g \in Handlers : request[g].x # x
  BY DEF BeginCreate
<1> HIDE DEF r
<1>3. request'[h] = r /\ \A k \in Handlers \ {h} : request'[k] = request[k]
  BY <1>1, <1>2, Asks DEF Begin
<1>4. RequestSound(h)'
  <2>1. 0 <= date'
    BY <1>2 DEF MembersInv
  <2>2. \A g \in Handlers \ {h} : request'[g].x # x
    BY <1>2, <1>3
  <2>3. u # NoOne
    BY DEF MembersOK
  <2> QED
    BY <1>1, <1>2, <1>3, <2>1, <2>2, <2>3 DEF RequestSound, Owning
<1> QED
  BY <1>1, <1>2, <1>4, BeginsSound
LEMMA BeginTransferKept ==
  ASSUME MembersOK, MembersInv, NEW h \in Handlers, NEW x \in Teams, NEW u \in Users, NEW v \in Users,
         BeginTransfer(h, x, u, v)
  PROVE  MembersInv' /\ NobodyAccepts
<1> DEFINE r == [NoRequest EXCEPT !.pc = "transfer", !.x = x, !.actor = u, !.to = v]
<1>1. r \in Ask /\ r.pc = "transfer" /\ r.x = x /\ r.to = v /\ r.actor = u /\ r.stamp = 0
  <2>1. NoRequest \in Ask /\ NoRequest.stamp = 0
    BY NoRequestIs
  <2>2. r \in Ask /\ r.pc = "transfer" /\ r.x = x /\ r.to = v /\ r.actor = u
    BY <2>1 DEF Ask
  <2>3. r.stamp = NoRequest.stamp
    BY <2>1 DEF Ask
  <2> QED
    BY <2>1, <2>2, <2>3
<1>2. /\ Begin(h, r) /\ UNCHANGED <<team, role, invite, cutoff, locks, date, void>>
      /\ team[x].owner # NoOne /\ u # v
  BY DEF BeginTransfer, MembersOK
<1> HIDE DEF r
<1>3. request'[h] = r
  BY <1>1, <1>2, Asks DEF Begin
<1>4. RequestSound(h)'
  <2>1. 0 <= date'
    BY <1>2 DEF MembersInv
  <2> QED
    BY <1>1, <1>2, <1>3, <2>1 DEF RequestSound, Owning
<1> QED
  BY <1>1, <1>2, <1>4, BeginsSound
LEMMA DateInvitationKept ==
  ASSUME MembersOK, MembersInv, NEW h \in Handlers, NEW x \in Teams, NEW whom \in Users \cup {Everyone},
         DateInvitation(h, x, whom)
  PROVE  MembersInv' /\ NobodyAccepts
<1> DEFINE r == [NoRequest EXCEPT !.pc = "invite", !.x = x, !.actor = team[x].owner, !.to = whom, !.stamp = date]
<1>1. r \in Ask /\ r.pc = "invite" /\ r.x = x /\ r.stamp = date
  BY DEF NoRequest, Ask, MembersInv, MembersTypeOK, TeamRow
<1>2. /\ Begin(h, r) /\ UNCHANGED <<team, role, invite, cutoff, locks, date, void>>
      /\ team[x].owner # NoOne
  BY DEF DateInvitation
<1> HIDE DEF r
<1>3. request'[h] = r
  BY <1>1, <1>2, Asks DEF Begin
<1>4. RequestSound(h)'
  <2>1. date' <= date' /\ date' = date
    BY <1>2 DEF MembersInv, MembersTypeOK
  <2> QED
    BY <1>1, <1>2, <1>3, <2>1 DEF RequestSound, Owning
<1> QED
  BY <1>1, <1>2, <1>4, BeginsSound
----------------------------------------------------------------------------
(* Locks are taken. *)

LEMMA LocksTaken ==
  ASSUME MembersOK, MembersInv, NEW h \in Handlers, NEW l \in Teams \cup Users, locks[l] = Free,
         locks' = [locks EXCEPT ![l] = h], NEW pc \in {"capacity", "count"}, Go(h, pc),
         UNCHANGED <<team, role, invite, cutoff, date, void>>, RequestSound(h)'
  PROVE  MembersInv' /\ NobodyAccepts
<1>1. /\ request' \in [Handlers -> Ask] /\ \A k \in Handlers \ {h} : request'[k] = request[k]
      /\ request'[h].x = request[h].x
  BY Goes
<1>2. locks' \in [Teams \cup Users -> Handlers \cup {Free}]
  BY DEF MembersInv, MembersTypeOK
<1>3. ASSUME NEW g \in Handlers \ {h} PROVE RequestSound(g)'
  <2>1. \A m \in Teams \cup Users : locks[m] = g => locks'[m] = g
    BY DEF MembersInv, MembersTypeOK, MembersOK
  <2> QED
    BY <1>1, <2>1, OthersSound
<1> QED
  BY <1>1, <1>2, <1>3, RowsStay
LEMMA LockForTransferKept ==
  ASSUME MembersOK, MembersInv, NEW h \in Handlers, LockForTransfer(h) PROVE MembersInv' /\ NobodyAccepts
<1>1. /\ request[h].pc = "transfer" /\ UNCHANGED <<team, role, invite, cutoff, date, void>>
      /\ RequestSound(h) /\ request[h].x \in Teams /\ request[h].actor \in Users /\ request[h].to \in Users
  BY DEF LockForTransfer, At, MembersInv, RequestSound
<1>2. CASE End(h)
  BY <1>1, <1>2, EndKept
<1>3. CASE /\ locks[request[h].x] = Free /\ StillOwner(request[h].actor, request[h].x)
           /\ Go(h, "capacity") /\ locks' = [locks EXCEPT ![request[h].x] = h]
  <2>1. /\ request'[h].pc = "capacity" /\ request'[h].x = request[h].x /\ request'[h].actor = request[h].actor
        /\ request'[h].to = request[h].to /\ request'[h].stamp = request[h].stamp
    BY <1>3, Goes
  <2>2. locks'[request[h].x] = h
    BY <1>1, <1>3 DEF MembersInv, MembersTypeOK
  <2>3. request[h].actor # NoOne /\ team[request[h].x].owner = request[h].actor
    BY <1>1, <1>3 DEF MembersOK, StillOwner
  <2>4. RequestSound(h)'
    BY <1>1, <2>1, <2>2, <2>3 DEF RequestSound, Owning
  <2> QED
    BY <1>1, <1>3, <2>4, LocksTaken
<1> QED
  BY <1>2, <1>3 DEF LockForTransfer
LEMMA LockOwnedTeamsKept ==
  ASSUME MembersOK, MembersInv, NEW h \in Handlers, LockOwnedTeams(h) PROVE MembersInv' /\ NobodyAccepts
<1>1. /\ request[h].pc = "capacity" /\ UNCHANGED <<team, role, invite, cutoff, date, void>>
      /\ RequestSound(h) /\ Owning(h) /\ request[h].to \in Users /\ locks[request[h].to] = Free
      /\ locks' = [locks EXCEPT ![request[h].to] = h] /\ Go(h, "count") /\ request[h].x \in Teams
  BY DEF LockOwnedTeams, At, CapacityFree, MembersInv, RequestSound, Owning
<1>2. /\ request'[h].pc = "count" /\ request'[h].x = request[h].x /\ request'[h].actor = request[h].actor
      /\ request'[h].to = request[h].to /\ request'[h].stamp = request[h].stamp
      /\ \A k \in Handlers \ {h} : request'[k] = request[k]
  BY <1>1, Goes
<1>3. locks'[request[h].to] = h /\ (locks[request[h].x] = h => locks'[request[h].x] = h)
  BY <1>1 DEF MembersInv, MembersTypeOK
<1>4. RequestSound(h)'
  BY <1>1, <1>2, <1>3 DEF RequestSound, Owning
<1> QED
  BY <1>1, <1>4, LocksTaken
LEMMA RequireCapacityKept ==
  ASSUME MembersOK, MembersInv, NEW h \in Handlers, RequireOwnedTeamCapacity(h) PROVE MembersInv' /\ NobodyAccepts
<1>1. request[h].pc = "count" /\ UNCHANGED <<team, role, invite, cutoff, date, void>> /\ RequestSound(h) /\ Owning(h)
  BY DEF RequireOwnedTeamCapacity, At, MembersInv, Owning
<1>2. CASE End(h)
  BY <1>1, <1>2, EndKept
<1>3. CASE Room(request[h].to) /\ Go(h, "commit") /\ UNCHANGED locks
  <2>1. /\ request' \in [Handlers -> Ask] /\ \A k \in Handlers \ {h} : request'[k] = request[k]
        /\ request'[h].pc = "commit" /\ request'[h].x = request[h].x /\ request'[h].actor = request[h].actor
        /\ request'[h].to = request[h].to /\ request'[h].stamp = request[h].stamp
    BY <1>3, Goes
  <2>2. Room(request[h].to)' = Room(request[h].to)
    BY <1>1, <2>1 DEF Room, Owned
  <2>3. RequestSound(h)'
    BY <1>1, <1>3, <2>1, <2>2 DEF RequestSound, Owning
  <2>4. ASSUME NEW g \in Handlers \ {h} PROVE RequestSound(g)'
    BY <1>1, <1>3, <2>1, OthersSound
  <2>5. locks' \in [Teams \cup Users -> Handlers \cup {Free}]
    BY <1>3 DEF MembersInv, MembersTypeOK
  <2> QED
    BY <1>1, <2>1, <2>3, <2>4, <2>5, RowsStay
<1> QED
  BY <1>2, <1>3 DEF RequireOwnedTeamCapacity, Room
----------------------------------------------------------------------------
(* The owner changes. *)

\* The new owner had room for one more, and the others own no more than before.
LEMMA OwnedAfter ==
  ASSUME MembersOK, MembersInv, NEW x \in Teams, NEW v \in Users, team[x].owner # v,
         \A y \in Teams : team'[y].owner = IF y = x THEN v ELSE team[y].owner
  PROVE  /\ Room(v) => Within(v)'
         /\ \A u \in Users \ {v} : (Within(u) => Within(u)') /\ (Room(u) => Room(u)')
<1>1. \A u \in Users : IsFiniteSet(Owned(u)) /\ Cardinality(Owned(u)) \in Nat
  <2> SUFFICES ASSUME NEW u \in Users PROVE IsFiniteSet(Owned(u)) /\ Cardinality(Owned(u)) \in Nat
    OBVIOUS
  <2>1. Owned(u) \subseteq Teams /\ IsFiniteSet(Teams)
    BY DEF Owned, MembersOK
  <2>2. IsFiniteSet(Owned(u))
    BY <2>1, FS_Subset
  <2> QED
    BY <2>2, FS_CardinalityType
<1>2. Owned(v)' = Owned(v) \cup {x} /\ x \notin Owned(v)
  BY DEF Owned
<1>3. Cardinality(Owned(v)') = Cardinality(Owned(v)) + 1
  BY <1>1, <1>2, FS_AddElement
<1>4. ASSUME NEW u \in Users \ {v} PROVE Cardinality(Owned(u)') <= Cardinality(Owned(u)) /\ Cardinality(Owned(u)') \in Nat
  <2>1. Owned(u)' \subseteq Owned(u)
    BY DEF Owned
  <2> QED
    BY <1>1, <2>1, FS_Subset, FS_CardinalityType
<1>5. OwnedLimit \in Nat
  BY DEF MembersOK
<1>6. Room(v) => Within(v)'
  BY <1>1, <1>3, <1>5 DEF Room, Within
<1>7. ASSUME NEW u \in Users \ {v} PROVE (Within(u) => Within(u)') /\ (Room(u) => Room(u)')
  BY <1>1, <1>4, <1>5 DEF Room, Within
<1> QED
  BY <1>6, <1>7
LEMMA OwnerIs ==
  ASSUME NEW t \in TeamRow, NEW u \in Users
  PROVE  LET f == [t EXCEPT !.owner = u] IN f \in TeamRow /\ f.owner = u /\ f.archived = t.archived /\ f.busy = t.busy
BY DEF TeamRow
LEMMA CommitOwnerKept ==
  ASSUME MembersOK, MembersInv, NEW h \in Handlers, CommitOwner(h), NEW x, x = request[h].x,
         NEW v, v = request[h].to, NEW u, u = request[h].actor
  PROVE  MembersInv' /\ NobodyAccepts
<1>1. /\ x \in Teams /\ v \in Users /\ u # v /\ team[x].owner = u /\ Room(v) /\ locks[v] = h
      /\ (u = NoOne => \A g \in Handlers \ {h} : request[g].x # x) /\ (u # NoOne => locks[x] = h)
  BY DEF CommitOwner, At, MembersInv, RequestSound, Owning
<1>2. /\ team \in [Teams -> TeamRow] /\ role \in [Teams -> [Users -> {"none", "viewer", "editor", "owner"}]]
      /\ End(h) /\ UNCHANGED <<invite, cutoff, date, void>>
  BY DEF CommitOwner, MembersInv, MembersTypeOK
<1>3. /\ team' \in [Teams -> TeamRow] /\ team'[x].owner = v /\ team'[x].archived = team[x].archived
      /\ team'[x].busy = team[x].busy /\ \A y \in Teams \ {x} : team'[y] = team[y]
  <2> DEFINE t == [team[x] EXCEPT !.owner = v]
  <2>1. t \in TeamRow /\ t.owner = v /\ t.archived = team[x].archived /\ t.busy = team[x].busy
    BY <1>1, <1>2, OwnerIs
  <2>2. team' = [team EXCEPT ![x] = t]
    BY <1>1, <1>2 DEF CommitOwner
  <2> HIDE DEF t
  <2> QED
    BY <1>1, <1>2, <2>1, <2>2
<1>4. /\ role' \in [Teams -> [Users -> {"none", "viewer", "editor", "owner"}]]
      /\ \A y \in Teams \ {x} : role'[y] = role[y]
      /\ \A w \in Users : role'[x][w] = IF w = v THEN "owner" ELSE IF w = u THEN "editor" ELSE role[x][w]
  BY <1>1, <1>2 DEF CommitOwner
<1>5. /\ request' \in [Handlers -> Ask] /\ request'[h] = NoRequest
      /\ \A k \in Handlers \ {h} : request'[k] = request[k]
      /\ locks' \in [Teams \cup Users -> Handlers \cup {Free}]
      /\ \A l \in Teams \cup Users : locks'[l] = IF locks[l] = h THEN Free ELSE locks[l]
  BY <1>2, Ends
<1>6. MembersTypeOK' /\ VoidSound' /\ date' >= 0
  BY <1>2, <1>3, <1>4, <1>5 DEF MembersInv, MembersTypeOK, VoidSound
<1>7. ASSUME NEW y \in Teams PROVE OwnerSound(y)' /\ ArchivedSound(y)'
  <2>1. OwnerSound(y) /\ ArchivedSound(y)
    BY DEF MembersInv
  <2>2. ArchivedSound(y)'
    BY <1>2, <1>3, <2>1 DEF ArchivedSound
  <2>3. CASE y = x
    BY <1>1, <1>3, <1>4, <2>1, <2>2, <2>3 DEF OwnerSound
  <2>4. CASE y # x
    BY <1>3, <1>4, <2>1, <2>2, <2>4 DEF OwnerSound
  <2> QED
    BY <2>3, <2>4
<1>8. \A y \in Teams : team'[y].owner = IF y = x THEN v ELSE team[y].owner
  BY <1>3
<1>9. Within(v)' /\ \A w \in Users \ {v} : (Within(w) => Within(w)') /\ (Room(w) => Room(w)')
  BY <1>1, <1>8, OwnedAfter
<1>10. ASSUME NEW w \in Users PROVE Within(w)'
  BY <1>9 DEF MembersInv
<1>11. RequestSound(h)'
  BY <1>2, <1>5, EndSound DEF MembersInv, MembersTypeOK
<1>12. ASSUME NEW g \in Handlers \ {h} PROVE RequestSound(g)'
  <2>1. RequestSound(g) /\ request'[g] = request[g] /\ Owning(g)' = Owning(g) /\ request'[h].x = Free /\ Free \notin Teams
    BY <1>5, NoRequestIs DEF MembersInv, Owning, MembersOK
  <2>2. \A l \in Teams \cup Users : locks[l] = g => locks'[l] = g
    BY <1>5
  <2>3. Owning(g) => request[g].x \in Teams /\ request[g].to \in Users /\ team[request[g].x].owner = request[g].actor
    BY <2>1 DEF RequestSound, Owning
  <2>4. Owning(g) => request[g].x # x
    <3> SUFFICES ASSUME Owning(g), request[g].x = x PROVE FALSE
      OBVIOUS
    <3>1. request[g].actor = u /\ u # NoOne
      BY <1>1, <2>3
    <3>2. locks[x] = g
      BY <2>1, <3>1 DEF RequestSound
    <3> QED
      BY <1>1, <3>1, <3>2
  <2>5. Owning(g) => team'[request[g].x].owner = request[g].actor
    BY <1>3, <2>3, <2>4
  <2>6. Owning(g) /\ request[g].actor = NoOne => \A k \in Handlers \ {g} : request'[k].x # request[g].x
    <3> SUFFICES ASSUME Owning(g), request[g].actor = NoOne, NEW k \in Handlers \ {g} PROVE request'[k].x # request[g].x
      OBVIOUS
    <3>1. CASE k = h
      BY <2>1, <2>3, <3>1
    <3>2. CASE k # h
      BY <1>5, <2>1, <3>2 DEF RequestSound
    <3> QED
      BY <3>1, <3>2
  <2>7. request[g].pc \in {"count", "commit"} => locks'[request[g].to] = g
    BY <2>1, <2>2, <2>3 DEF RequestSound, Owning
  <2>8. request[g].pc = "commit" => Room(request[g].to)'
    <3> SUFFICES ASSUME request[g].pc = "commit" PROVE Room(request[g].to)'
      OBVIOUS
    <3>1. Room(request[g].to) /\ locks[request[g].to] = g /\ request[g].to \in Users
      BY <2>1, <2>3 DEF RequestSound, Owning
    <3>2. request[g].to \in Users \ {v}
      BY <1>1, <3>1
    <3>3. \A w \in Users \ {v} : Room(w) => Room(w)'
      BY <1>9
    <3>4. Room(request[g].to)' \/ request[g].to \notin Users \ {v}
      <4>1. SUFFICES ASSUME NEW w, w = request[g].to, w \in Users \ {v}, Room(w) PROVE Room(request[g].to)'
        BY <3>1
      <4>2. Room(w)' /\ request'[g].to = w
        BY <2>1, <3>3, <4>1
      <4> QED
        BY <2>1, <4>1, <4>2 DEF Room, Owned
    <3> QED
      BY <3>2, <3>4
  <2>9. Owning(g) /\ request[g].actor # NoOne => locks'[request[g].x] = g
    BY <2>1, <2>2, <2>3 DEF RequestSound
  <2> QED
    BY <1>2, <2>1, <2>5, <2>6, <2>7, <2>8, <2>9 DEF RequestSound
<1>13. ASSUME NEW i \in Invitations PROVE InviteSound(i)'
  BY <1>2 DEF MembersInv, InviteSound
<1> QED
  BY <1>2, <1>6, <1>7, <1>10, <1>11, <1>12, <1>13 DEF MembersInv, NobodyAccepts
----------------------------------------------------------------------------
(* Transactions of one step. *)

\* Nobody becomes an owner, and nothing happens to requests.
LEMMA OwnersStay ==
  ASSUME MembersOK, MembersInv, UNCHANGED <<locks, request, date>>, MembersTypeOK', VoidSound',
         \A x \in Teams : team'[x].owner = team[x].owner
                          /\ \A u \in Users : role'[x][u] = "owner" <=> role[x][u] = "owner",
         \A x \in Teams : ArchivedSound(x)', \A i \in Invitations : InviteSound(i)'
  PROVE  MembersInv'
<1>1. \A u : Owned(u)' = Owned(u)
  BY DEF Owned
<1>2. ASSUME NEW x \in Teams PROVE OwnerSound(x)'
  BY DEF MembersInv, OwnerSound
<1>3. ASSUME NEW u \in Users PROVE Within(u)'
  BY <1>1 DEF MembersInv, Within
<1>4. ASSUME NEW h \in Handlers PROVE RequestSound(h)'
  <2>1. RequestSound(h) /\ (Owning(h) => request[h].x \in Teams)
    BY DEF MembersInv, RequestSound, Owning
  <2>2. Owning(h) => team'[request[h].x].owner = request[h].actor
    BY <2>1 DEF RequestSound
  <2> QED
    BY <1>1, <2>1, <2>2 DEF RequestSound, Owning, Room
<1> QED
  BY <1>2, <1>3, <1>4 DEF MembersInv
LEMMA ArchivedIs ==
  ASSUME NEW t \in TeamRow, NEW b \in BOOLEAN
  PROVE  LET f == [t EXCEPT !.archived = b] IN f \in TeamRow /\ f.owner = t.owner /\ f.archived = b /\ f.busy = t.busy
BY DEF TeamRow
LEMMA BusyIs ==
  ASSUME NEW t \in TeamRow, NEW b \in BOOLEAN
  PROVE  LET f == [t EXCEPT !.busy = b] IN f \in TeamRow /\ f.owner = t.owner /\ f.archived = t.archived
BY DEF TeamRow
LEMMA StatusIs ==
  ASSUME NEW v \in InviteRow, NEW s \in {"none", "pending", "accepted", "revoked", "expired"}
  PROVE  LET f == [v EXCEPT !.status = s] IN f \in InviteRow /\ f.status = s /\ f.x = v.x /\ f.for = v.for /\ f.stamp = v.stamp
BY DEF InviteRow

\* Invitations that were open are closed.
Closes(s) ==
  \A i \in Invitations :
    \/ invite'[i] = invite[i]
    \/ /\ invite[i].status = "pending" /\ invite'[i].status \in s /\ invite'[i] \in InviteRow
       /\ invite'[i].x = invite[i].x /\ invite'[i].stamp = invite[i].stamp
LEMMA ClosesKept ==
  ASSUME MembersOK, MembersInv, date' = date, NEW s \in SUBSET {"accepted", "revoked", "expired"}, Closes(s),
         invite' \in [Invitations -> InviteRow]
  PROVE  /\ \A i \in Invitations : InviteSound(i)' /\ invite'[i].x = invite[i].x /\ invite'[i].stamp = invite[i].stamp
         /\ \A i \in Invitations : invite'[i].status = "pending" => invite[i].status = "pending"
         /\ "accepted" \notin s => NobodyAccepts
<1>1. ASSUME NEW i \in Invitations
      PROVE  /\ InviteSound(i)' /\ invite'[i].x = invite[i].x /\ invite'[i].stamp = invite[i].stamp
             /\ invite'[i].status = "pending" => invite[i].status = "pending"
  BY DEF Closes, MembersInv, InviteSound
<1>2. "accepted" \notin s => NobodyAccepts
  BY DEF Closes, NobodyAccepts
<1> QED
  BY <1>1, <1>2
LEMMA DeleteWorkspaceKept ==
  ASSUME MembersOK, MembersInv, NEW x \in Teams, NEW u \in Users, DeleteWorkspace(x, u)
  PROVE  MembersInv' /\ NobodyAccepts
<1>1. UNCHANGED <<role, cutoff, locks, request, date, void>> /\ ~team[x].busy
      /\ team \in [Teams -> TeamRow] /\ invite \in [Invitations -> InviteRow]
  BY DEF DeleteWorkspace, MembersInv, MembersTypeOK
<1>2. /\ team' \in [Teams -> TeamRow] /\ team'[x].owner = team[x].owner /\ team'[x].busy = team[x].busy
      /\ \A y \in Teams \ {x} : team'[y] = team[y]
  <2>1. PICK b \in BOOLEAN : b = TRUE
    BY Zenon
  <2> DEFINE t == [team[x] EXCEPT !.archived = b]
  <2>2. t \in TeamRow /\ t.owner = team[x].owner /\ t.busy = team[x].busy
    BY <1>1, ArchivedIs
  <2>3. team' = [team EXCEPT ![x] = t]
    BY <1>1, <2>1 DEF DeleteWorkspace
  <2> HIDE DEF t
  <2> QED
    BY <1>1, <2>2, <2>3
<1>3. ASSUME NEW i \in Invitations
      PROVE  /\ invite'[i] \in InviteRow
             /\ \/ invite'[i] = invite[i] /\ (invite[i].x = x => invite[i].status # "pending")
                \/ /\ invite[i].status = "pending" /\ invite'[i].status = "revoked"
                   /\ invite'[i].x = invite[i].x /\ invite'[i].stamp = invite[i].stamp
  <2> DEFINE v == [invite[i] EXCEPT !.status = "revoked"]
  <2>1. invite'[i] = IF invite[i].x = x /\ invite[i].status = "pending" THEN v ELSE invite[i]
    BY DEF DeleteWorkspace
  <2>2. v \in InviteRow /\ v.status = "revoked" /\ v.x = invite[i].x /\ v.stamp = invite[i].stamp
    BY <1>1, StatusIs
  <2> HIDE DEF v
  <2> QED
    BY <1>1, <2>1, <2>2
<1>4. invite' \in [Invitations -> InviteRow] /\ Closes({"revoked"})
  <2>1. invite' = [i \in Invitations |-> invite'[i]]
    BY DEF DeleteWorkspace
  <2> QED
    BY <1>3, <2>1 DEF Closes
<1>5. /\ \A i \in Invitations : InviteSound(i)' /\ invite'[i].x = invite[i].x /\ invite'[i].stamp = invite[i].stamp
      /\ \A i \in Invitations : invite'[i].status = "pending" => invite[i].status = "pending"
      /\ NobodyAccepts
  BY <1>1, <1>4, ClosesKept
<1>6. ASSUME NEW y \in Teams PROVE ArchivedSound(y)'
  <2>1. ArchivedSound(y)
    BY DEF MembersInv
  <2>2. CASE y = x
    BY <1>1, <1>2, <1>3, <2>2 DEF ArchivedSound
  <2>3. CASE y # x
    BY <1>2, <1>5, <2>1, <2>3 DEF ArchivedSound
  <2> QED
    BY <2>2, <2>3
<1>7. MembersTypeOK' /\ VoidSound'
  BY <1>1, <1>2, <1>4, <1>5 DEF MembersInv, MembersTypeOK, VoidSound
<1>8. \A y \in Teams : team'[y].owner = team[y].owner
  BY <1>2
<1> QED
  BY <1>1, <1>5, <1>6, <1>7, <1>8, OwnersStay
LEMMA ChildWriteKept ==
  ASSUME MembersOK, MembersInv, NEW x \in Teams, ChildWrite(x) PROVE MembersInv' /\ NobodyAccepts
<1>1. UNCHANGED <<role, invite, cutoff, locks, request, date, void>> /\ ~team[x].archived
      /\ team \in [Teams -> TeamRow]
  BY DEF ChildWrite, ActiveWorkspace, Open, MembersInv, MembersTypeOK
<1>2. PICK b \in BOOLEAN : team' = [team EXCEPT ![x].busy = b]
  BY DEF ChildWrite
<1>3. /\ team' \in [Teams -> TeamRow] /\ team'[x].owner = team[x].owner /\ team'[x].archived = team[x].archived
      /\ \A y \in Teams \ {x} : team'[y] = team[y]
  <2> DEFINE t == [team[x] EXCEPT !.busy = b]
  <2>1. t \in TeamRow /\ t.owner = team[x].owner /\ t.archived = team[x].archived
    BY <1>1, BusyIs
  <2>2. team' = [team EXCEPT ![x] = t]
    BY <1>1, <1>2
  <2> HIDE DEF t
  <2> QED
    BY <1>1, <2>1, <2>2
<1>4. \A y \in Teams : ArchivedSound(y)' /\ team'[y].owner = team[y].owner
  BY <1>1, <1>3 DEF MembersInv, ArchivedSound
<1>5. MembersTypeOK' /\ VoidSound' /\ \A i \in Invitations : InviteSound(i)'
  BY <1>1, <1>3 DEF MembersInv, MembersTypeOK, VoidSound, InviteSound
<1> QED
  BY <1>1, <1>4, <1>5, OwnersStay DEF NobodyAccepts

\* A member's role changes, not to or from the owner's; a decision dates the cutoff.
LEMMA RoleKept ==
  ASSUME MembersOK, MembersInv, NEW x \in Teams, NEW u \in Users, NEW new \in {"none", "viewer", "editor"},
         role[x][u] # "owner", role' = [role EXCEPT ![x][u] = new]
  PROVE  /\ role' \in [Teams -> [Users -> {"none", "viewer", "editor", "owner"}]]
         /\ \A y \in Teams, w \in Users : role'[y][w] = "owner" <=> role[y][w] = "owner"
         /\ \A y \in Teams, w \in Users : y # x \/ w # u => role'[y][w] = role[y][w]
BY DEF MembersInv, MembersTypeOK
LEMMA DecideKept ==
  ASSUME MembersOK, MembersInv, NEW x \in Teams, NEW u \in Users, DecideAbout(x, u),
         UNCHANGED <<team, locks, request, date>>,
         role' \in [Teams -> [Users -> {"none", "viewer", "editor", "owner"}]],
         \A y \in Teams, w \in Users : role'[y][w] = "owner" <=> role[y][w] = "owner"
  PROVE  MembersInv' /\ NobodyAccepts
<1>1. cutoff \in [Teams -> [Users -> Int]] /\ invite \in [Invitations -> InviteRow] /\ date \in Int
      /\ void \subseteq Invitations \X Users
  BY DEF MembersInv, MembersTypeOK
<1>2. /\ cutoff' \in [Teams -> [Users -> Int]] /\ cutoff'[x][u] >= date
      /\ \A y \in Teams, w \in Users : cutoff'[y][w] >= cutoff[y][w]
  <2> DEFINE c == IF cutoff[x][u] > date THEN cutoff[x][u] ELSE date
  <2>1. c \in Int /\ c >= date /\ c >= cutoff[x][u] /\ cutoff[x][u] \in Int
    BY <1>1
  <2>2. cutoff' = [cutoff EXCEPT ![x][u] = c]
    BY DEF DecideAbout
  <2> HIDE DEF c
  <2>3. cutoff' \in [Teams -> [Users -> Int]] /\ cutoff'[x][u] = c
        /\ \A y \in Teams, w \in Users : y # x \/ w # u => cutoff'[y][w] = cutoff[y][w]
    BY <1>1, <2>1, <2>2
  <2>4. ASSUME NEW y \in Teams, NEW w \in Users PROVE cutoff'[y][w] >= cutoff[y][w]
    <3>1. cutoff[y][w] \in Int
      BY <1>1
    <3>2. CASE y = x /\ w = u
      BY <2>1, <2>3, <3>2
    <3>3. CASE y # x \/ w # u
      BY <2>3, <3>1, <3>3
    <3> QED
      BY <3>2, <3>3
  <2> QED
    BY <2>1, <2>3, <2>4
<1>3. ASSUME NEW i \in Invitations
      PROVE  /\ invite'[i] \in InviteRow
             /\ \/ invite'[i] = invite[i]
                \/ /\ invite[i].status = "pending" /\ invite'[i].status = "revoked"
                   /\ invite'[i].x = invite[i].x /\ invite'[i].stamp = invite[i].stamp
  <2> DEFINE v == [invite[i] EXCEPT !.status = "revoked"]
  <2>1. invite'[i] = IF invite[i].x = x /\ invite[i].status = "pending" /\ invite[i].for = u /\ invite[i].stamp <= date
                     THEN v ELSE invite[i]
    BY DEF DecideAbout
  <2>2. v \in InviteRow /\ v.status = "revoked" /\ v.x = invite[i].x /\ v.stamp = invite[i].stamp
    BY <1>1, StatusIs
  <2> HIDE DEF v
  <2> QED
    BY <1>1, <2>1, <2>2
<1>4. invite' \in [Invitations -> InviteRow] /\ Closes({"revoked"})
  <2>1. invite' = [i \in Invitations |-> invite'[i]]
    BY DEF DecideAbout
  <2> QED
    BY <1>3, <2>1 DEF Closes
<1>5. /\ \A i \in Invitations : InviteSound(i)' /\ invite'[i].x = invite[i].x /\ invite'[i].stamp = invite[i].stamp
      /\ \A i \in Invitations : invite'[i].status = "pending" => invite[i].status = "pending"
      /\ NobodyAccepts
  BY <1>4, ClosesKept
<1>6. \A y \in Teams : ArchivedSound(y)'
  BY <1>5 DEF MembersInv, ArchivedSound
<1>7. void' \subseteq Invitations \X Users /\ VoidSound'
  <2>1. void' = void \cup {<<i, u>> : i \in {j \in Invitations : invite[j].x = x}}
    BY DEF DecideAbout
  <2>2. ASSUME NEW i \in Invitations, NEW w \in Users, <<i, w>> \in void'
        PROVE  invite[i].x \in Teams /\ cutoff'[invite[i].x][w] >= invite[i].stamp
    <3>1. invite[i].stamp \in Int /\ invite[i].stamp <= date
      BY <1>1 DEF MembersInv, InviteSound, InviteRow
    <3>2. CASE <<i, w>> \in void
      <4>1. invite[i].x \in Teams /\ cutoff[invite[i].x][w] >= invite[i].stamp
        BY <3>2 DEF MembersInv, VoidSound
      <4>2. cutoff'[invite[i].x][w] >= cutoff[invite[i].x][w] /\ cutoff'[invite[i].x][w] \in Int
            /\ cutoff[invite[i].x][w] \in Int
        BY <1>1, <1>2, <4>1
      <4> QED
        BY <3>1, <4>1, <4>2
    <3>3. CASE invite[i].x = x /\ w = u
      <4>1. cutoff'[x][u] \in Int
        BY <1>2
      <4> QED
        BY <1>1, <1>2, <3>1, <3>3, <4>1
    <3> QED
      BY <2>1, <2>2, <3>2, <3>3
  <2>3. void' \subseteq Invitations \X Users
    BY <1>1, <2>1
  <2> QED
    BY <1>5, <2>2, <2>3 DEF VoidSound
<1>8. MembersTypeOK'
  BY <1>2, <1>4, <1>7 DEF MembersInv, MembersTypeOK
<1> QED
  BY <1>5, <1>6, <1>7, <1>8, OwnersStay
LEMMA AddMemberKept ==
  ASSUME MembersOK, MembersInv, NEW x \in Teams, NEW u \in Users, AddWorkspaceMember(x, u)
  PROVE  MembersInv' /\ NobodyAccepts
<1>1. role[x][u] # "owner" /\ role' = [role EXCEPT ![x][u] = "viewer"]
      /\ UNCHANGED <<team, invite, cutoff, locks, request, date, void>>
  BY DEF AddWorkspaceMember
<1>2. /\ role' \in [Teams -> [Users -> {"none", "viewer", "editor", "owner"}]]
      /\ \A y \in Teams, w \in Users : role'[y][w] = "owner" <=> role[y][w] = "owner"
  BY <1>1, RoleKept
<1>3. MembersTypeOK' /\ VoidSound' /\ (\A y \in Teams : ArchivedSound(y)') /\ \A i \in Invitations : InviteSound(i)'
  BY <1>1, <1>2 DEF MembersInv, MembersTypeOK, VoidSound, ArchivedSound, InviteSound
<1> QED
  BY <1>1, <1>2, <1>3, OwnersStay DEF NobodyAccepts
LEMMA DecisionsKept ==
  ASSUME MembersOK, MembersInv, NEW x \in Teams, NEW u \in Users,
         UpdateWorkspaceMemberRole(x, u) \/ RemoveWorkspaceMember(x, u)
  PROVE  MembersInv' /\ NobodyAccepts
<1>1. PICK new \in {"none", "viewer", "editor"} : role' = [role EXCEPT ![x][u] = new]
  BY DEF UpdateWorkspaceMemberRole, RemoveWorkspaceMember
<1>2. role[x][u] # "owner" /\ DecideAbout(x, u) /\ UNCHANGED <<team, locks, request, date>>
  BY DEF UpdateWorkspaceMemberRole, RemoveWorkspaceMember
<1> QED
  BY <1>1, <1>2, RoleKept, DecideKept
LEMMA OneCloses ==
  ASSUME MembersOK, MembersInv, NEW i \in Invitations, invite[i].status = "pending",
         NEW s \in {"accepted", "revoked", "expired"}, invite' = [invite EXCEPT ![i].status = s]
  PROVE  invite' \in [Invitations -> InviteRow] /\ Closes({s})
<1> DEFINE v == [invite[i] EXCEPT !.status = s]
<1>1. invite \in [Invitations -> InviteRow]
  BY DEF MembersInv, MembersTypeOK
<1>2. v \in InviteRow /\ v.status = s /\ v.x = invite[i].x /\ v.stamp = invite[i].stamp
  <2>1. invite[i] \in InviteRow /\ s \in {"none", "pending", "accepted", "revoked", "expired"}
    BY <1>1
  <2> QED
    BY <2>1, StatusIs
<1>3. invite' = [invite EXCEPT ![i] = v]
  BY <1>1
<1> HIDE DEF v
<1> QED
  BY <1>1, <1>2, <1>3 DEF Closes
LEMMA CloseInvitationKept ==
  ASSUME MembersOK, MembersInv, NEW i \in Invitations, CloseInvitation(i) PROVE MembersInv' /\ NobodyAccepts
<1>1. UNCHANGED <<team, role, cutoff, locks, request, date, void>> /\ invite[i].status = "pending"
  BY DEF CloseInvitation
<1>2. PICK s \in {"revoked", "expired"} : invite' = [invite EXCEPT ![i].status = s]
  BY DEF CloseInvitation
<1>3. invite' \in [Invitations -> InviteRow] /\ Closes({s})
  BY <1>1, <1>2, OneCloses
<1>4. /\ \A j \in Invitations : InviteSound(j)' /\ invite'[j].x = invite[j].x /\ invite'[j].stamp = invite[j].stamp
      /\ \A j \in Invitations : invite'[j].status = "pending" => invite[j].status = "pending"
      /\ NobodyAccepts
  BY <1>1, <1>2, <1>3, ClosesKept
<1>5. MembersTypeOK' /\ VoidSound' /\ \A y \in Teams : ArchivedSound(y)'
  BY <1>1, <1>3, <1>4 DEF MembersInv, MembersTypeOK, VoidSound, ArchivedSound
<1> QED
  BY <1>1, <1>4, <1>5, OwnersStay

\* Whoever accepts an invitation was not decided about since.
LEMMA AcceptKept ==
  ASSUME MembersOK, MembersInv, NEW i \in Invitations, NEW u \in Users, AcceptWorkspaceInvitation(i, u)
  PROVE  MembersInv' /\ DecisionsStand
<1>1. /\ UNCHANGED <<team, cutoff, locks, request, date, void>> /\ invite[i].status = "pending"
      /\ invite' = [invite EXCEPT ![i].status = "accepted"] /\ AfterCutoff(i, u)
      /\ invite[i].x \in Teams
  BY DEF AcceptWorkspaceInvitation, MembersInv, MembersTypeOK, InviteSound, InviteRow
<1>2. /\ role' \in [Teams -> [Users -> {"none", "viewer", "editor", "owner"}]]
      /\ \A y \in Teams, w \in Users : role'[y][w] = "owner" <=> role[y][w] = "owner"
      /\ \A w \in Users \ {u} : role'[invite[i].x][w] = role[invite[i].x][w]
  <2>1. CASE role' = role
    BY <2>1 DEF MembersInv, MembersTypeOK
  <2>2. CASE role[invite[i].x][u] = "none" /\ role' = [role EXCEPT ![invite[i].x][u] = "viewer"]
    BY <1>1, <2>2, RoleKept
  <2> QED
    BY <2>1, <2>2 DEF AcceptWorkspaceInvitation
<1>3. invite' \in [Invitations -> InviteRow] /\ Closes({"accepted"})
  BY <1>1, OneCloses
<1>4. /\ \A j \in Invitations : InviteSound(j)' /\ invite'[j].x = invite[j].x /\ invite'[j].stamp = invite[j].stamp
      /\ \A j \in Invitations : invite'[j].status = "pending" => invite[j].status = "pending"
  BY <1>1, <1>3, ClosesKept
<1>5. MembersTypeOK' /\ VoidSound' /\ \A y \in Teams : ArchivedSound(y)'
  BY <1>1, <1>2, <1>3, <1>4 DEF MembersInv, MembersTypeOK, VoidSound, ArchivedSound
<1>6. MembersInv'
  BY <1>1, <1>2, <1>4, <1>5, OwnersStay
<1>7. <<i, u>> \notin void
  <2>1. cutoff[invite[i].x][u] < invite[i].stamp /\ cutoff[invite[i].x][u] \in Int /\ invite[i].stamp \in Int
    BY <1>1 DEF AfterCutoff, MembersInv, MembersTypeOK, InviteRow
  <2>2. <<i, u>> \in void => cutoff[invite[i].x][u] >= invite[i].stamp
    BY DEF MembersInv, VoidSound
  <2> QED
    BY <2>1, <2>2
<1>8. DecisionsStand
  <2> SUFFICES ASSUME NEW j \in Invitations, NEW w \in Users, invite[j].status = "pending",
                      invite'[j].status = "accepted", <<j, w>> \in void
               PROVE  role'[invite[j].x][w] = role[invite[j].x][w]
    BY DEF DecisionsStand
  <2>1. j = i
    BY <1>1 DEF MembersInv, MembersTypeOK
  <2>2. w # u
    BY <1>7, <2>1
  <2> QED
    BY <1>2, <2>1, <2>2
<1> QED
  BY <1>6, <1>8
LEMMA CreateInvitationKept ==
  ASSUME MembersOK, MembersInv, NEW h \in Handlers, NEW i \in Invitations, CreateWorkspaceInvitation(h, i)
  PROVE  MembersInv' /\ NobodyAccepts
<1>1. /\ End(h) /\ UNCHANGED <<team, role, cutoff, date, void>> /\ request[h].pc = "invite"
      /\ RequestSound(h) /\ request[h] \in Ask /\ request[h].x \in Teams /\ request[h].stamp <= date
      /\ request[h].stamp \in Int /\ request[h].to \in Users \cup {NoOne, Everyone}
  BY DEF CreateWorkspaceInvitation, At, MembersInv, MembersTypeOK, RequestSound, Ask
<1>2. CASE UNCHANGED invite
  BY <1>1, <1>2, EndKept
<1>3. CASE /\ Owns(request[h].actor, request[h].x) /\ invite[i].status = "none"
           /\ invite' = [invite EXCEPT ![i] = [status |-> "pending", x |-> request[h].x, for |-> request[h].to,
                                               stamp |-> request[h].stamp]]
  <2> DEFINE v == [status |-> "pending", x |-> request[h].x, for |-> request[h].to, stamp |-> request[h].stamp]
  <2>1. v \in InviteRow /\ v.status = "pending" /\ v.x = request[h].x /\ v.stamp = request[h].stamp
    BY <1>1 DEF InviteRow
  <2>2. invite' = [invite EXCEPT ![i] = v] /\ ~team[request[h].x].archived
    BY <1>3 DEF Owns, Open
  <2> HIDE DEF v
  <2>3. invite' \in [Invitations -> InviteRow] /\ invite'[i] = v /\ \A j \in Invitations \ {i} : invite'[j] = invite[j]
    BY <2>1, <2>2 DEF MembersInv, MembersTypeOK
  <2>4. /\ request' \in [Handlers -> Ask] /\ request'[h] = NoRequest
        /\ \A k \in Handlers \ {h} : request'[k] = request[k]
        /\ locks' \in [Teams \cup Users -> Handlers \cup {Free}]
        /\ \A l \in Teams \cup Users : locks'[l] = IF locks[l] = h THEN Free ELSE locks[l]
    BY <1>1, Ends
  <2>5. ASSUME NEW j \in Invitations PROVE InviteSound(j)'
    <3>1. CASE j = i
      BY <1>1, <2>1, <2>3, <3>1 DEF InviteSound, MembersOK
    <3>2. CASE j # i
      BY <1>1, <2>3, <3>2 DEF MembersInv, InviteSound
    <3> QED
      BY <3>1, <3>2
  <2>6. ASSUME NEW x \in Teams PROVE OwnerSound(x)' /\ ArchivedSound(x)'
    <3>1. OwnerSound(x) /\ ArchivedSound(x)
      BY DEF MembersInv
    <3>2. ArchivedSound(x)'
      <4> SUFFICES ASSUME team[x].archived, NEW j \in Invitations, invite'[j].x = x PROVE invite'[j].status # "pending"
        BY <1>1, <3>1 DEF ArchivedSound
      <4>1. j # i
        BY <2>1, <2>2, <2>3
      <4> QED
        BY <2>3, <3>1, <4>1 DEF ArchivedSound
    <3> QED
      BY <1>1, <3>1, <3>2 DEF OwnerSound
  <2>7. VoidSound'
    <3> SUFFICES ASSUME NEW j \in Invitations, NEW u \in Users, <<j, u>> \in void
                 PROVE  invite'[j].x \in Teams /\ cutoff[invite'[j].x][u] >= invite'[j].stamp
      BY <1>1 DEF VoidSound
    <3>1. invite[j].x \in Teams /\ cutoff[invite[j].x][u] >= invite[j].stamp
      BY DEF MembersInv, VoidSound
    <3>2. j # i
      BY <1>3, <3>1 DEF MembersInv, InviteSound, MembersOK
    <3> QED
      BY <2>3, <3>1, <3>2
  <2>8. MembersTypeOK' /\ date' >= 0
    BY <1>1, <2>3, <2>4 DEF MembersInv, MembersTypeOK
  <2>9. RequestSound(h)' /\ request'[h].x = Free
    BY <1>1, <2>4, EndSound, NoRequestIs DEF MembersInv, MembersTypeOK
  <2>10. ASSUME NEW g \in Handlers \ {h} PROVE RequestSound(g)'
    <3>1. \A l \in Teams \cup Users : locks[l] = g => locks'[l] = g
      BY <2>4
    <3> QED
      BY <1>1, <2>4, <2>9, <3>1, OthersSound
  <2>11. ASSUME NEW u \in Users PROVE Within(u)'
    BY <1>1 DEF MembersInv, Within, Owned
  <2>12. NobodyAccepts
    BY <2>1, <2>3 DEF NobodyAccepts
  <2> QED
    BY <2>5, <2>6, <2>7, <2>8, <2>9, <2>10, <2>11, <2>12 DEF MembersInv
<1> QED
  BY <1>2, <1>3 DEF CreateWorkspaceInvitation
LEMMA TimePassesKept == ASSUME MembersOK, MembersInv, TimePasses PROVE MembersInv' /\ NobodyAccepts
<1>1. UNCHANGED <<team, role, invite, cutoff, locks, request, void>> /\ date' = date + 1 /\ date \in Int
  BY DEF TimePasses, MembersInv, MembersTypeOK
<1>2. MembersTypeOK' /\ VoidSound' /\ date' >= 0
  BY <1>1 DEF MembersInv, MembersTypeOK, VoidSound
<1>3. ASSUME NEW x \in Teams PROVE OwnerSound(x)' /\ ArchivedSound(x)'
  BY <1>1 DEF MembersInv, OwnerSound, ArchivedSound
<1>4. ASSUME NEW u \in Users PROVE Within(u)'
  BY <1>1 DEF MembersInv, Within, Owned
<1>5. ASSUME NEW h \in Handlers PROVE RequestSound(h)'
  <2>1. RequestSound(h) /\ request[h] \in Ask
    BY DEF MembersInv, MembersTypeOK
  <2>2. request[h].stamp <= date'
    BY <1>1, <2>1 DEF RequestSound, Ask
  <2> QED
    BY <1>1, <2>1, <2>2 DEF RequestSound, Owning, Room, Owned
<1>6. ASSUME NEW i \in Invitations PROVE InviteSound(i)'
  <2>1. InviteSound(i) /\ invite[i].stamp \in Int
    BY DEF MembersInv, MembersTypeOK, InviteRow
  <2>2. invite[i].stamp <= date'
    BY <1>1, <2>1 DEF InviteSound
  <2> QED
    BY <1>1, <2>1, <2>2 DEF InviteSound
<1> QED
  BY <1>1, <1>2, <1>3, <1>4, <1>5, <1>6 DEF MembersInv, NobodyAccepts
----------------------------------------------------------------------------
(* The theorems. *)

LEMMA MembersInit == ASSUME MembersOK, Init PROVE MembersInv
<1>1. NoRequest \in Ask /\ NoRequest.pc = "idle" /\ NoRequest.stamp = 0
  BY NoRequestIs
<1>2. /\ team \in [Teams -> TeamRow] /\ \A x \in Teams : team[x].owner = NoOne /\ ~team[x].archived
  BY DEF Init, TeamRow
<1>3. /\ invite \in [Invitations -> InviteRow]
      /\ \A i \in Invitations : invite[i].status = "none" /\ invite[i].x = Free /\ invite[i].stamp = 0
  BY DEF Init, InviteRow
<1>4. /\ request \in [Handlers -> Ask] /\ \A h \in Handlers : request[h].pc = "idle" /\ request[h].stamp = 0
  BY <1>1 DEF Init
<1>5. MembersTypeOK /\ VoidSound /\ date = 1 /\ date >= 0
  <2>1. role \in [Teams -> [Users -> {"none", "viewer", "editor", "owner"}]] /\ cutoff \in [Teams -> [Users -> Int]]
    BY DEF Init
  <2>2. locks \in [Teams \cup Users -> Handlers \cup {Free}] /\ date = 1 /\ void = {}
    BY DEF Init
  <2>3. MembersTypeOK
    BY <1>2, <1>3, <1>4, <2>1, <2>2 DEF MembersTypeOK
  <2>4. VoidSound
    BY <2>2 DEF VoidSound
  <2> QED
    BY <2>2, <2>3, <2>4
<1>6. ASSUME NEW x \in Teams PROVE OwnerSound(x) /\ ArchivedSound(x)
  BY <1>2 DEF Init, OwnerSound, ArchivedSound, MembersOK
<1>7. ASSUME NEW u \in Users PROVE Within(u)
  <2>1. Owned(u) = {}
    BY <1>2 DEF Owned, MembersOK
  <2>2. Cardinality(Owned(u)) = 0
    BY <2>1, FS_EmptySet
  <2> QED
    BY <2>2 DEF Within, MembersOK
<1>8. ASSUME NEW h \in Handlers PROVE RequestSound(h)
  BY <1>4, <1>5 DEF RequestSound, Owning
<1>9. ASSUME NEW i \in Invitations PROVE InviteSound(i)
  BY <1>3, <1>5 DEF InviteSound
<1> QED
  BY <1>5, <1>6, <1>7, <1>8, <1>9 DEF MembersInv

LEMMA MembersStep == ASSUME MembersOK, MembersInv, [Next]_members PROVE MembersInv' /\ [DecisionsStand]_members
<1>1. NobodyAccepts => DecisionsStand
  BY DEF NobodyAccepts, DecisionsStand
<1>2. CASE UNCHANGED members
  <2>1. UNCHANGED <<team, role, invite, cutoff, date, void, request, locks>>
    BY <1>2 DEF members
  <2>2. ASSUME NEW h \in Handlers PROVE RequestSound(h)'
    BY <2>1 DEF MembersInv, RequestSound, Owning, Room, Owned
  <2>3. MembersInv'
    BY <2>1, <2>2, RowsStay DEF MembersInv, MembersTypeOK
  <2> QED
    BY <1>2, <2>3
<1>3. ASSUME NEW h \in Handlers, NEW x \in Teams, NEW u \in Users,
             BeginCreate(h, x, u) \/ \E v \in Users : BeginTransfer(h, x, u, v)
      PROVE  MembersInv' /\ DecisionsStand
  BY <1>1, <1>3, BeginCreateKept, BeginTransferKept
<1>4. ASSUME NEW h \in Handlers, LockForTransfer(h) \/ LockOwnedTeams(h) \/ RequireOwnedTeamCapacity(h)
      PROVE  MembersInv' /\ DecisionsStand
  BY <1>1, <1>4, LockForTransferKept, LockOwnedTeamsKept, RequireCapacityKept
<1>5. ASSUME NEW h \in Handlers, CommitOwner(h) PROVE MembersInv' /\ DecisionsStand
  BY <1>1, <1>5, CommitOwnerKept
<1>6. ASSUME NEW h \in Handlers, NEW x \in Teams, NEW whom \in Users \cup {Everyone}, DateInvitation(h, x, whom)
      PROVE  MembersInv' /\ DecisionsStand
  BY <1>1, <1>6, DateInvitationKept
<1>7. ASSUME NEW h \in Handlers, NEW i \in Invitations, CreateWorkspaceInvitation(h, i)
      PROVE  MembersInv' /\ DecisionsStand
  BY <1>1, <1>7, CreateInvitationKept
<1>8. ASSUME NEW h \in Handlers, HandlerDies(h) PROVE MembersInv' /\ DecisionsStand
  BY <1>1, <1>8, EndKept DEF HandlerDies
<1>9. ASSUME NEW x \in Teams, NEW u \in Users,
             \/ DeleteWorkspace(x, u) \/ AddWorkspaceMember(x, u)
             \/ UpdateWorkspaceMemberRole(x, u) \/ RemoveWorkspaceMember(x, u)
      PROVE  MembersInv' /\ DecisionsStand
  BY <1>1, <1>9, DeleteWorkspaceKept, AddMemberKept, DecisionsKept
<1>10. ASSUME NEW x \in Teams, ChildWrite(x) PROVE MembersInv' /\ DecisionsStand
  BY <1>1, <1>10, ChildWriteKept
<1>11. ASSUME NEW i \in Invitations, CloseInvitation(i) \/ \E u \in Users : AcceptWorkspaceInvitation(i, u)
       PROVE  MembersInv' /\ DecisionsStand
  BY <1>1, <1>11, CloseInvitationKept, AcceptKept
<1>12. CASE TimePasses
  BY <1>1, <1>12, TimePassesKept
<1> QED
  BY <1>2, <1>3, <1>4, <1>5, <1>6, <1>7, <1>8, <1>9, <1>10, <1>11, <1>12 DEF Next

\* The inductive invariant: whoever is about to become an owner has the workspace and the count to himself,
\* and an invitation older than a decision is not younger than its cutoff.
THEOREM MembersSound == MembersOK /\ Spec => []MembersInv
<1> SUFFICES ASSUME MembersOK PROVE Spec => []MembersInv
  OBVIOUS
<1>1. Init => MembersInv
  BY MembersInit
<1>2. MembersInv /\ [Next]_members => MembersInv'
  BY MembersStep
<1> QED
  BY <1>1, <1>2, PTL DEF Spec

\* A workspace has one owner, also among its members; nobody owns more than the limit,
\* however creations and transfers interleave; and nothing is alive in an archived workspace.
THEOREM WorkspacesAreSound == MembersOK /\ Spec => []WorkspacesSound
<1> SUFFICES ASSUME MembersOK PROVE Spec => []WorkspacesSound
  OBVIOUS
<1>1. MembersInv => WorkspacesSound
  <2> SUFFICES ASSUME MembersInv PROVE WorkspacesSound
    OBVIOUS
  <2>1. ASSUME NEW x \in Teams PROVE {u \in Users : role[x][u] = "owner"} = {team[x].owner} \ {NoOne}
    <3>1. team[x].owner \in Users \cup {NoOne} /\ NoOne \notin Users /\ OwnerSound(x)
      BY DEF MembersOK, MembersInv, MembersTypeOK, TeamRow
    <3> QED
      BY <3>1 DEF OwnerSound
  <2>2. ASSUME NEW u \in Users \ Unlimited PROVE Cardinality(Owned(u)) <= OwnedLimit
    BY DEF MembersInv, Within
  <2>3. ASSUME NEW x \in Teams, team[x].archived
        PROVE  ~team[x].busy /\ \A i \in Invitations : invite[i].x = x => invite[i].status # "pending"
    BY <2>3 DEF MembersInv, ArchivedSound
  <2> QED
    BY <2>1, <2>2, <2>3 DEF WorkspacesSound
<1> QED
  BY <1>1, MembersSound, PTL

\* No invitation that was there before an owner decided about a member undoes the decision.
THEOREM DecisionsAreKept == MembersOK /\ Spec => [][DecisionsStand]_members
<1> SUFFICES ASSUME MembersOK PROVE Spec => [][DecisionsStand]_members
  OBVIOUS
<1>1. MembersInv /\ [Next]_members => [DecisionsStand]_members
  BY MembersStep
<1> QED
  BY <1>1, MembersSound, PTL DEF Spec
----------------------------------------------------------------------------
(* BrandKits: one default template, and no overwritten edits. *)
Brands == INSTANCE BrandKits
BrandsSpec == Brands!Init /\ [][Brands!Next]_(Brands!brands)

Save == [at : {"idle", "find", "clear", "write", "commit"}, kind : {"", "create", "update", "delete"},
         id : Brands!Rows, default : BOOLEAN, expect : Int, found : SUBSET Templates, wrote : SUBSET Brands!Rows]
BrandRow == [version : Int, default : BOOLEAN]

\* A transaction that reached its commit holds the row it asks for, as its editor saw it; if that is to be the
\* default, it holds every default there is.
SaveSound(e) ==
  LET s == save[e] IN
  /\ s.at \in {"idle", "find", "clear"} => s.wrote = {}
  /\ s.at \in {"find", "clear"} => Brands!Clearing(e)
  /\ \A t \in s.wrote : t # s.id => Brands!Clearing(e)
  /\ s.at = "commit" => s.id \in s.wrote /\ template[s.id].version = s.expect
  /\ s.at = "commit" /\ Brands!Clearing(e) => \A t \in Templates : template[t].default => t \in s.wrote
  /\ s.default => s.id \in Templates
\* Nobody else holds what one holds, and one transaction at most makes a default.
Apart(e, f) ==
  /\ save[e].wrote \cap save[f].wrote = {}
  /\ save[e].at = "commit" /\ save[f].at = "commit" => ~Brands!Clearing(e) \/ ~Brands!Clearing(f)
BrandsInv ==
  /\ template \in [Brands!Rows -> BrandRow] /\ save \in [Editors -> Save]
  /\ \A e \in Editors : SaveSound(e)
  /\ \A e, f \in Editors : e # f => Apart(e, f)
  /\ \A s, t \in Templates : template[s].default /\ template[t].default => s = t

LEMMA IdleSaveIs == Brands!Idle \in Save /\ Brands!Idle.wrote = {} /\ Brands!Idle.at = "idle" /\ Brands!Idle.default = FALSE
BY DEF Brands!Idle, Save, Brands!Rows, Brands!Kit

\* One editor's transaction goes on, and takes no row from another.
LEMMA SaveGoesOn ==
  ASSUME BrandsInv, NEW e \in Editors, template' = template, save' \in [Editors -> Save],
         \A f \in Editors \ {e} : save'[f] = save[f], SaveSound(e)',
         \A f \in Editors \ {e} : Apart(e, f)'
  PROVE  BrandsInv'
<1>1. ASSUME NEW f \in Editors \ {e} PROVE SaveSound(f)'
  BY DEF BrandsInv, SaveSound, Brands!Clearing
<1>2. ASSUME NEW f \in Editors, NEW g \in Editors, f # g PROVE Apart(f, g)'
  <2>1. CASE f = e
    BY <1>2, <2>1
  <2>2. CASE g = e
    <3>1. Apart(e, f)'
      BY <1>2, <2>2
    <3> QED
      BY <2>2, <3>1 DEF Apart
  <2>3. CASE f # e /\ g # e
    BY <1>2, <2>3 DEF BrandsInv, Apart, Brands!Clearing
  <2> QED
    BY <2>1, <2>2, <2>3
<1> QED
  BY <1>1, <1>2 DEF BrandsInv

\* A transaction is over or begins: it holds nothing.
LEMMA SaveHoldsNothing ==
  ASSUME BrandsInv, NEW e \in Editors, NEW r \in Save, save' = [save EXCEPT ![e] = r], template' = template,
         r.wrote = {}, r.at \in {"idle", "find", "clear", "write"}, r.default => r.id \in Templates,
         r.at \in {"find", "clear"} => r.default /\ r.kind # "delete"
  PROVE  BrandsInv'
<1>1. save' \in [Editors -> Save] /\ save'[e] = r /\ \A f \in Editors \ {e} : save'[f] = save[f]
  BY DEF BrandsInv
<1>2. SaveSound(e)'
  BY <1>1 DEF SaveSound, Brands!Clearing
<1>3. \A f \in Editors \ {e} : Apart(e, f)'
  BY <1>1 DEF Apart
<1> QED
  BY <1>1, <1>2, <1>3, SaveGoesOn

LEMMA BrandsBegin ==
  ASSUME Brands!BrandsOK, BrandsInv, NEW e \in Editors, NEW what \in {"create", "update", "delete"}, NEW t \in Brands!Rows,
         NEW d \in BOOLEAN, d => t \in Templates, Brands!Begin(e, what, t, d)
  PROVE  BrandsInv'
<1> DEFINE at == IF d /\ what # "delete" THEN "find" ELSE "write"
<1> DEFINE r == [Brands!Idle EXCEPT !.kind = what, !.id = t, !.default = d, !.expect = template[t].version, !.at = at]
<1>1. template[t].version \in Int
  BY DEF BrandsInv, BrandRow
<1>2. at \in {"find", "write"} /\ (at = "find" => d /\ what # "delete")
  OBVIOUS
<1>3. save' = [save EXCEPT ![e] = r] /\ template' = template
  BY DEF Brands!Begin
<1> HIDE DEF at
<1>4. /\ r \in Save /\ r.wrote = {} /\ r.at = at /\ r.default = d /\ r.id = t /\ r.kind = what
  BY <1>1, <1>2, IdleSaveIs DEF Save, Brands!Idle
<1> HIDE DEF r
<1> QED
  BY <1>2, <1>3, <1>4, SaveHoldsNothing

\* The fields of a transaction that goes on.
LEMMA SaveFinds ==
  ASSUME save \in [Editors -> Save], NEW e \in Editors, NEW at \in {"idle", "find", "clear", "write", "commit"},
         NEW found \in SUBSET Templates, save' = [save EXCEPT ![e].at = at, ![e].found = found]
  PROVE  /\ save' \in [Editors -> Save] /\ \A f \in Editors \ {e} : save'[f] = save[f]
         /\ save'[e].at = at /\ save'[e].kind = save[e].kind /\ save'[e].id = save[e].id
         /\ save'[e].default = save[e].default /\ save'[e].expect = save[e].expect /\ save'[e].found = found
         /\ save'[e].wrote = save[e].wrote
BY DEF Save
LEMMA SaveWrites ==
  ASSUME save \in [Editors -> Save], NEW e \in Editors, NEW at \in {"idle", "find", "clear", "write", "commit"},
         NEW wrote \in SUBSET Brands!Rows, save' = [save EXCEPT ![e].at = at, ![e].wrote = wrote]
  PROVE  /\ save' \in [Editors -> Save] /\ \A f \in Editors \ {e} : save'[f] = save[f]
         /\ save'[e].at = at /\ save'[e].kind = save[e].kind /\ save'[e].id = save[e].id
         /\ save'[e].default = save[e].default /\ save'[e].expect = save[e].expect /\ save'[e].wrote = wrote
         /\ save'[e].found = save[e].found
BY DEF Save

LEMMA BrandsFind == ASSUME BrandsInv, NEW e \in Editors, Brands!FindDefaults(e) PROVE BrandsInv'
<1> DEFINE found == {t \in Templates : template[t].default /\ t # save[e].id}
<1>1. found \in SUBSET Templates /\ "clear" \in {"idle", "find", "clear", "write", "commit"}
  OBVIOUS
<1>2. save' = [save EXCEPT ![e].at = "clear", ![e].found = found] /\ template' = template /\ save[e].at = "find"
  BY DEF Brands!FindDefaults
<1> HIDE DEF found
<1>3. /\ save' \in [Editors -> Save] /\ \A f \in Editors \ {e} : save'[f] = save[f]
      /\ save'[e].at = "clear" /\ save'[e].kind = save[e].kind /\ save'[e].id = save[e].id
      /\ save'[e].default = save[e].default /\ save'[e].expect = save[e].expect /\ save'[e].wrote = save[e].wrote
  BY <1>1, <1>2, SaveFinds DEF BrandsInv
<1>4. SaveSound(e)'
  BY <1>2, <1>3 DEF BrandsInv, SaveSound, Brands!Clearing
<1>5. \A f \in Editors \ {e} : Apart(e, f)'
  BY <1>2, <1>3 DEF BrandsInv, Apart
<1> QED
  BY <1>2, <1>3, <1>4, <1>5, SaveGoesOn

LEMMA BrandsClear == ASSUME BrandsInv, NEW e \in Editors, Brands!ClearChannelTemplateDefaults(e) PROVE BrandsInv'
<1> DEFINE wrote == {t \in save[e].found : template[t].default}
<1>1. save[e].found \subseteq Templates /\ wrote \in SUBSET Brands!Rows
      /\ "write" \in {"idle", "find", "clear", "write", "commit"}
  BY DEF BrandsInv, Save, Brands!Rows
<1>2. /\ save' = [save EXCEPT ![e].at = "write", ![e].wrote = wrote] /\ template' = template /\ save[e].at = "clear"
      /\ \A t \in save[e].found : ~Brands!Locked(e, t)
  BY DEF Brands!ClearChannelTemplateDefaults
<1>3. \A t \in wrote : \A f \in Editors \ {e} : t \notin save[f].wrote
  BY <1>2 DEF Brands!Locked
<1> HIDE DEF wrote
<1>4. /\ save' \in [Editors -> Save] /\ \A f \in Editors \ {e} : save'[f] = save[f]
      /\ save'[e].at = "write" /\ save'[e].kind = save[e].kind /\ save'[e].id = save[e].id
      /\ save'[e].default = save[e].default /\ save'[e].expect = save[e].expect /\ save'[e].wrote = wrote
  BY <1>1, <1>2, SaveWrites DEF BrandsInv
<1>5. SaveSound(e)'
  BY <1>2, <1>4 DEF BrandsInv, SaveSound, Brands!Clearing
<1>6. \A f \in Editors \ {e} : Apart(e, f)'
  BY <1>2, <1>3, <1>4 DEF BrandsInv, Apart
<1> QED
  BY <1>2, <1>4, <1>5, <1>6, SaveGoesOn

\* The row is written, or the transaction is rolled back.
LEMMA BrandsWrite == ASSUME BrandsInv, NEW e \in Editors, Brands!WriteTemplate(e) PROVE BrandsInv'
<1>1. template' = template /\ save[e].at = "write" /\ ~Brands!Locked(e, save[e].id)
      /\ (Brands!Clearing(e) => ~Brands!Contended(e))
  BY DEF Brands!WriteTemplate
<1>2. CASE ~(Brands!Current(e) /\ ~(Brands!Clearing(e) /\ Brands!Taken(e)))
  <2>1. save' = [save EXCEPT ![e] = Brands!Idle]
    BY <1>2 DEF Brands!WriteTemplate
  <2> QED
    BY <1>1, <2>1, IdleSaveIs, SaveHoldsNothing
<1>3. CASE Brands!Current(e) /\ ~(Brands!Clearing(e) /\ Brands!Taken(e))
  <2> DEFINE wrote == save[e].wrote \cup {save[e].id}
  <2>1. save' = [save EXCEPT ![e].at = "commit", ![e].wrote = wrote]
    BY <1>3 DEF Brands!WriteTemplate
  <2>2. wrote \in SUBSET Brands!Rows /\ "commit" \in {"idle", "find", "clear", "write", "commit"} /\ save[e].id \in wrote
    BY DEF BrandsInv, Save
  <2>3. \A t \in wrote : t # save[e].id => t \in save[e].wrote
    OBVIOUS
  <2>4. \A t \in Templates : t \in save[e].wrote \/ t = save[e].id => t \in wrote
    OBVIOUS
  <2> HIDE DEF wrote
  <2>5. /\ save' \in [Editors -> Save] /\ \A f \in Editors \ {e} : save'[f] = save[f]
        /\ save'[e].at = "commit" /\ save'[e].kind = save[e].kind /\ save'[e].id = save[e].id
        /\ save'[e].default = save[e].default /\ save'[e].expect = save[e].expect /\ save'[e].wrote = wrote
    BY <2>1, <2>2, SaveWrites DEF BrandsInv
  <2>6. SaveSound(e)'
    <3>1. \A t \in wrote : t # save[e].id => Brands!Clearing(e)
      BY <2>3 DEF BrandsInv, SaveSound
    <3>2. Brands!Clearing(e) => \A t \in Templates : template[t].default => t \in wrote
      BY <1>3, <2>4 DEF Brands!Taken
    <3> QED
      BY <1>1, <1>3, <2>2, <2>5, <3>1, <3>2 DEF BrandsInv, SaveSound, Brands!Clearing, Brands!Current
  <2>7. ASSUME NEW f \in Editors \ {e} PROVE Apart(e, f)'
    <3>1. wrote \cap save[f].wrote = {}
      <4>1. save[e].wrote \cap save[f].wrote = {} /\ save[e].id \notin save[f].wrote
        BY <1>1 DEF BrandsInv, Apart, Brands!Locked
      <4> QED
        BY <2>3, <4>1
    <3>2. save[f].at = "commit" => ~Brands!Clearing(e) \/ ~Brands!Clearing(f)
      <4>1. save[f].at = "commit" => save[f].id \in save[f].wrote
        BY DEF BrandsInv, SaveSound
      <4>2. save[f].at = "commit" => save[f].id # save[e].id
        BY <2>2, <3>1, <4>1
      <4> QED
        BY <1>1, <4>2 DEF Brands!Contended, Brands!Clearing
    <3> QED
      BY <2>5, <3>1, <3>2 DEF Apart, Brands!Clearing
  <2> QED
    BY <1>1, <2>5, <2>6, <2>7, SaveGoesOn
<1> QED
  BY <1>2, <1>3

\* What was written becomes the rows.
LEMMA BrandsCommit ==
  ASSUME BrandsInv, NEW e \in Editors, Brands!Commit(e)
  PROVE  /\ BrandsInv' /\ template[save[e].id].version = save[e].expect
         /\ \A t \in Templates : template[t].default /\ ~template'[t].default /\ t # save[e].id =>
              save[e].kind # "delete" /\ template'[save[e].id].default
<1>1. /\ save[e].at = "commit" /\ template' = [t \in Brands!Rows |-> IF t \in save[e].wrote THEN Brands!Written(e, t) ELSE template[t]]
      /\ save' = [save EXCEPT ![e] = Brands!Idle]
  BY DEF Brands!Commit
<1>2. /\ save' \in [Editors -> Save] /\ save'[e] = Brands!Idle /\ \A f \in Editors \ {e} : save'[f] = save[f]
  BY <1>1, IdleSaveIs DEF BrandsInv
<1>3. save[e].id \in save[e].wrote /\ template[save[e].id].version = save[e].expect /\ save[e] \in Save
  BY <1>1 DEF BrandsInv, SaveSound
<1>4. ASSUME NEW t \in Brands!Rows
      PROVE  /\ Brands!Written(e, t) \in BrandRow
             /\ t # save[e].id => ~Brands!Written(e, t).default
             /\ t = save[e].id => (Brands!Written(e, t).default <=> Brands!Clearing(e))
  <2>1. template[t].version + 1 \in Int /\ -1 \in Int
    BY DEF BrandsInv, BrandRow
  <2>2. save[e].default \in BOOLEAN
    BY <1>3 DEF Save
  <2>3. CASE t # save[e].id
    <3>1. Brands!Written(e, t) = [version |-> template[t].version + 1, default |-> FALSE]
      BY <2>3 DEF Brands!Written
    <3> QED
      BY <2>1, <2>3, <3>1 DEF BrandRow
  <2>4. CASE t = save[e].id /\ save[e].kind = "delete"
    <3>1. Brands!Written(e, t) = [version |-> -1, default |-> FALSE]
      BY <2>4 DEF Brands!Written, Brands!Deleted
    <3> QED
      BY <2>1, <2>4, <3>1 DEF BrandRow, Brands!Clearing
  <2>5. CASE t = save[e].id /\ save[e].kind # "delete"
    <3>1. Brands!Written(e, t) = [version |-> template[t].version + 1, default |-> save[e].default]
      BY <2>5 DEF Brands!Written
    <3> QED
      BY <2>1, <2>2, <2>5, <3>1 DEF BrandRow, Brands!Clearing
  <2> QED
    BY <2>3, <2>4, <2>5
<1>5. /\ template' \in [Brands!Rows -> BrandRow]
      /\ \A t \in Brands!Rows : template'[t] = IF t \in save[e].wrote THEN Brands!Written(e, t) ELSE template[t]
  BY <1>1, <1>4 DEF BrandsInv
<1>6. Templates \subseteq Brands!Rows /\ save[e].id \in Brands!Rows
  BY <1>3 DEF Brands!Rows, Save
<1>7. \A t \in Templates : template'[t].default => template[t].default \/ (t = save[e].id /\ Brands!Clearing(e))
  BY <1>3, <1>4, <1>5, <1>6
<1>8. \A s, t \in Templates : template'[s].default /\ template'[t].default => s = t
  <2>1. CASE Brands!Clearing(e)
    <3>1. \A t \in Templates : template'[t].default => t = save[e].id
      BY <1>1, <1>3, <1>4, <1>5, <1>6, <2>1 DEF BrandsInv, SaveSound
    <3> QED
      BY <3>1
  <2>2. CASE ~Brands!Clearing(e)
    BY <1>7, <2>2 DEF BrandsInv
  <2> QED
    BY <2>1, <2>2
<1>9. ASSUME NEW f \in Editors \ {e} PROVE SaveSound(f)'
  <2>1. SaveSound(f) /\ Apart(f, e) /\ save[f] \in Save
    BY DEF BrandsInv
  <2>2. save[f].at = "commit" => template'[save[f].id] = template[save[f].id]
    <3>1. save[f].at = "commit" => save[f].id \notin save[e].wrote /\ save[f].id \in Brands!Rows
      BY <2>1 DEF SaveSound, Apart, Save
    <3> QED
      BY <1>5, <3>1
  <2>3. save[f].at = "commit" /\ Brands!Clearing(f) => \A t \in Templates : template'[t].default => t \in save[f].wrote
    BY <1>1, <1>7, <2>1 DEF SaveSound, Apart
  <2> QED
    BY <1>2, <2>1, <2>2, <2>3 DEF SaveSound, Brands!Clearing
<1>10. SaveSound(e)'
  BY <1>2, IdleSaveIs DEF SaveSound, Brands!Clearing
<1>11. ASSUME NEW f \in Editors, NEW g \in Editors, f # g PROVE Apart(f, g)'
  BY <1>2, <1>11, IdleSaveIs DEF BrandsInv, Apart, Brands!Clearing
<1>12. ASSUME NEW t \in Templates, template[t].default, ~template'[t].default, t # save[e].id
       PROVE  save[e].kind # "delete" /\ template'[save[e].id].default
  <2>1. Brands!Clearing(e)
    BY <1>3, <1>5, <1>6, <1>12 DEF BrandsInv, SaveSound
  <2> QED
    BY <1>3, <1>4, <1>5, <1>6, <2>1 DEF Brands!Clearing
<1> QED
  BY <1>2, <1>3, <1>5, <1>8, <1>9, <1>10, <1>11, <1>12 DEF BrandsInv

LEMMA BrandsInit == Brands!BrandsOK /\ Brands!Init => BrandsInv
<1> SUFFICES ASSUME Brands!BrandsOK, Brands!Init PROVE BrandsInv
  OBVIOUS
<1>1. \A t \in Brands!Rows : template[t] \in BrandRow /\ template[t].default = FALSE
  BY DEF Brands!Init, Brands!Absent, BrandRow
<1>2. template \in [Brands!Rows -> BrandRow] /\ Templates \subseteq Brands!Rows
  BY <1>1 DEF Brands!Init, Brands!Rows
<1>3. save \in [Editors -> Save] /\ \A e \in Editors : save[e] = Brands!Idle
  BY IdleSaveIs DEF Brands!Init
<1>4. \A e \in Editors : SaveSound(e)
  BY <1>3, IdleSaveIs DEF SaveSound, Brands!Clearing
<1>5. \A e, f \in Editors : Apart(e, f)
  BY <1>3, IdleSaveIs DEF Apart
<1> QED
  BY <1>1, <1>2, <1>3, <1>4, <1>5 DEF BrandsInv

LEMMA BrandsStep ==
  ASSUME Brands!BrandsOK, BrandsInv, [Brands!Next]_(Brands!brands) PROVE BrandsInv' /\ [Brands!NothingOverwritten]_(Brands!brands)
<1>1. CASE UNCHANGED Brands!brands
  <2>1. template' = template /\ save' = save
    BY <1>1 DEF Brands!brands
  <2>2. \A e \in Editors : SaveSound(e)'
    BY <2>1 DEF BrandsInv, SaveSound, Brands!Clearing
  <2>3. \A e, f \in Editors : e # f => Apart(e, f)'
    BY <2>1 DEF BrandsInv, Apart, Brands!Clearing
  <2> QED
    BY <1>1, <2>1, <2>2, <2>3 DEF BrandsInv
<1>2. ASSUME NEW e \in Editors, Brands!Commit(e) PROVE BrandsInv' /\ Brands!NothingOverwritten
  <2>1. \A f \in Editors : save'[f].at = "idle" /\ save[f].at = "commit" => f = e
    BY <1>2 DEF Brands!Commit, BrandsInv
  <2> QED
    BY <1>2, <2>1, BrandsCommit DEF Brands!NothingOverwritten
<1>3. ASSUME NEW e \in Editors,
             \/ Brands!UpdateWorkspaceBrandKit(e) \/ Brands!CreateChannelTemplate(e)
             \/ Brands!UpdateChannelTemplate(e) \/ Brands!DeleteChannelTemplate(e)
      PROVE  BrandsInv' /\ template' = template
  <2>1. PICK what \in {"create", "update", "delete"}, t \in Brands!Rows, d \in BOOLEAN :
          (d => t \in Templates) /\ Brands!Begin(e, what, t, d)
    BY <1>3 DEF Brands!UpdateWorkspaceBrandKit, Brands!CreateChannelTemplate, Brands!UpdateChannelTemplate,
                Brands!DeleteChannelTemplate, Brands!Rows
  <2> QED
    BY <2>1, BrandsBegin DEF Brands!Begin
<1>4. ASSUME NEW e \in Editors, Brands!FindDefaults(e) \/ Brands!ClearChannelTemplateDefaults(e) \/ Brands!WriteTemplate(e)
      PROVE  BrandsInv' /\ template' = template
  BY <1>4, BrandsFind, BrandsClear, BrandsWrite
     DEF Brands!FindDefaults, Brands!ClearChannelTemplateDefaults, Brands!WriteTemplate
<1>5. ASSUME NEW e \in Editors, Brands!Rollback(e) PROVE BrandsInv' /\ template' = template
  BY <1>5, IdleSaveIs, SaveHoldsNothing DEF Brands!Rollback
<1>6. template' = template => Brands!NothingOverwritten
  BY DEF Brands!NothingOverwritten
<1> QED
  BY <1>1, <1>2, <1>3, <1>4, <1>5, <1>6 DEF Brands!Next

\* The inductive invariant of brand kits and templates: a transaction at its commit holds the row as its editor saw
\* it and, if it makes a default, every other default there is.
THEOREM BrandsSound == Brands!BrandsOK /\ BrandsSpec => []BrandsInv
<1> SUFFICES ASSUME Brands!BrandsOK PROVE BrandsSpec => []BrandsInv
  OBVIOUS
<1>1. Brands!Init => BrandsInv
  BY BrandsInit
<1>2. BrandsInv /\ [Brands!Next]_(Brands!brands) => BrandsInv'
  BY BrandsStep
<1> QED
  BY <1>1, <1>2, PTL DEF BrandsSpec

\* However saves of many editors interleave, one template at most is the default of a workspace.
THEOREM OneDefaultTemplate == Brands!BrandsOK /\ BrandsSpec => []Brands!OneDefault
<1> SUFFICES ASSUME Brands!BrandsOK PROVE BrandsSpec => []Brands!OneDefault
  OBVIOUS
<1>1. BrandsInv => Brands!OneDefault
  <2> SUFFICES ASSUME BrandsInv PROVE Brands!OneDefault
    OBVIOUS
  <2> DEFINE defaults == {t \in Templates : template[t].default}
  <2>1. Cardinality(defaults) <= 1
    <3>1. CASE defaults = {}
      BY <3>1, FS_EmptySet
    <3>2. ASSUME NEW t \in defaults PROVE Cardinality(defaults) = 1
      <4>1. defaults = {t}
        BY DEF BrandsInv
      <4> QED
        BY <4>1, FS_Singleton
    <3> QED
      BY <3>1, <3>2
  <2>2. \A e \in Editors : save[e].at = "clear" => save[e].wrote = {}
    BY DEF BrandsInv, SaveSound
  <2>3. Brands!Cardinality(defaults) = Cardinality(defaults)
    BY DEF Brands!Cardinality, Cardinality
  <2> QED
    BY <2>1, <2>2, <2>3 DEF Brands!OneDefault
<1> QED
  BY <1>1, BrandsSound, PTL

\* A row is overwritten only from the version its editor saw, and a default is given up only by an edit or a deletion
\* of that very template, or for another default.
THEOREM NothingIsOverwritten == Brands!BrandsOK /\ BrandsSpec => [][Brands!NothingOverwritten]_(Brands!brands)
<1> SUFFICES ASSUME Brands!BrandsOK PROVE BrandsSpec => [][Brands!NothingOverwritten]_(Brands!brands)
  OBVIOUS
<1>1. BrandsInv /\ [Brands!Next]_(Brands!brands) => [Brands!NothingOverwritten]_(Brands!brands)
  BY BrandsStep
<1> QED
  BY <1>1, BrandsSound, PTL DEF BrandsSpec
----------------------------------------------------------------------------
(* AILimits: requests at the providers stay within the limit. *)
Limits == INSTANCE AILimits
LimitsSpec == Limits!Init /\ [][Limits!Next]_(Limits!requests)

CallerRow == [pc : {"idle", "acquire", "run", "release"}, id : Nat, amount : Nat, stamp : Nat, until : Nat]
LeaseRow == [id : Nat, until : Nat]
Running == {c \in Callers : caller[c].pc = "run"}
Covers(l, c) == l.id = caller[c].id /\ caller[c].until < l.until

\* Who waits for his locks does so for MaxWait at most and was granted nothing; who runs is covered by a lease.
CallerSound(c) ==
  LET r == caller[c] IN
  /\ r.pc = "acquire" => r.stamp <= now /\ now <= r.stamp + MaxWait /\ \A g \in granted : g.id # r.id
  /\ r.pc = "run" => now <= r.until /\ \E l \in leases : Covers(l, c)
LeasesInv ==
  /\ now \in Nat /\ caller \in [Callers -> CallerRow] /\ leases \subseteq LeaseRow /\ IsFiniteSet(leases)
  /\ \A c \in Callers : CallerSound(c)
  /\ \A c, d \in Callers : c # d /\ caller[c].pc # "idle" /\ caller[d].pc # "idle" => caller[c].id # caller[d].id
  /\ IsFiniteSet(Running) /\ Cardinality(Running) <= MaxConcurrent

LEMMA IdleCallerIs == Limits!Idle \in CallerRow /\ Limits!Idle.pc = "idle"
BY DEF Limits!Idle, CallerRow

\* Fewer run than leases have not expired.
LEMMA RunningHaveLeases ==
  ASSUME Limits!LimitsOK, LeasesInv, NEW t \in Nat, t <= now
  PROVE  Cardinality(Running) <= Cardinality(leases \ Limits!Expired(t))
<1> DEFINE T == leases \ Limits!Expired(t)
<1>1. IsFiniteSet(T)
  BY FS_Subset DEF LeasesInv
<1>2. ASSUME NEW c \in Running PROVE \E l \in T : Covers(l, c)
  <2>1. PICK l \in leases : Covers(l, c)
    BY DEF Running, LeasesInv, CallerSound
  <2>2. caller[c].until \in Nat /\ now <= caller[c].until /\ caller[c].until < l.until /\ l.until \in Nat /\ now \in Nat
    BY <2>1 DEF Running, LeasesInv, CallerSound, CallerRow, LeaseRow, Covers
  <2>3. ~(l.until <= t)
    BY <2>2
  <2> QED
    BY <2>1, <2>3 DEF Limits!Expired
<1> DEFINE f == [c \in Running |-> CHOOSE l \in T : Covers(l, c)]
<1>3. \A c \in Running : f[c] \in T /\ Covers(f[c], c)
  BY <1>2
<1> HIDE DEF T
<1>4. f \in [Running -> T]
  BY <1>3
<1>5. \A c, d \in Running : f[c] = f[d] => c = d
  <2>1. \A c, d \in Running : f[c] = f[d] => caller[c].id = caller[d].id
    BY <1>3 DEF Covers
  <2> QED
    BY <2>1 DEF LeasesInv, Running
<1> HIDE DEF f
<1>6. f \in Injection(Running, T)
  BY <1>4, <1>5 DEF Injection, IsInjective
<1>7. Cardinality(Running) <= Cardinality(T)
  BY <1>1, <1>6, FS_Injection
<1> QED
  BY <1>7 DEF T

\* A handler begins to wait, goes on or ends, and no lease but its own is released.
LEMMA CallerMoves ==
  ASSUME Limits!LimitsOK, LeasesInv, NEW c \in Callers, NEW r \in CallerRow, caller' = [caller EXCEPT ![c] = r],
         UNCHANGED <<now, granted>>, r.pc \in {"idle", "acquire", "release"},
         \/ leases' = leases
         \/ caller[c].pc # "idle" /\ leases' = {l \in leases : l.id # caller[c].id},
         r.pc = "acquire" => r.stamp = now /\ \A g \in granted : g.id # r.id,
         \/ r.pc = "idle"
         \/ caller[c].pc # "idle" /\ r.id = caller[c].id
         \/ \A d \in Callers : caller[d].id # r.id
  PROVE  LeasesInv'
<1>1. /\ caller' \in [Callers -> CallerRow] /\ caller'[c] = r /\ \A d \in Callers \ {c} : caller'[d] = caller[d]
      /\ leases' \subseteq leases /\ now' \in Nat
  BY DEF LeasesInv
<1>2. leases' \subseteq LeaseRow /\ IsFiniteSet(leases')
  BY <1>1, FS_Subset DEF LeasesInv
<1>3. ASSUME NEW d \in Callers PROVE CallerSound(d)'
  <2>1. CASE d = c
    BY <1>1, <2>1 DEF CallerSound, Limits!LimitsOK
  <2>2. CASE d # c
    <3>1. caller[d].pc = "run" => \E l \in leases' : Covers(l, d)
      BY <2>2 DEF LeasesInv, CallerSound, Covers
    <3> QED
      BY <1>1, <2>2, <3>1 DEF LeasesInv, CallerSound, Covers
  <2> QED
    BY <2>1, <2>2
<1>4. ASSUME NEW d \in Callers, NEW e \in Callers, d # e, caller'[d].pc # "idle", caller'[e].pc # "idle"
      PROVE  caller'[d].id # caller'[e].id
  BY <1>1, <1>4 DEF LeasesInv
<1>5. Running' \subseteq Running
  BY <1>1 DEF Running
<1>6. IsFiniteSet(Running') /\ Cardinality(Running') <= Cardinality(Running) /\ Cardinality(Running) <= MaxConcurrent
      /\ IsFiniteSet(Running)
  BY <1>5, FS_Subset DEF LeasesInv
<1>7. Cardinality(Running') <= MaxConcurrent
  BY <1>6, FS_CardinalityType DEF Limits!LimitsOK
<1> QED
  BY <1>1, <1>2, <1>3, <1>4, <1>6, <1>7 DEF LeasesInv

LEMMA LimitsCount == ASSUME NEW S PROVE Limits!Cardinality(S) = Cardinality(S)
BY DEF Limits!Cardinality, Cardinality

LEMMA GenerateKept == ASSUME Limits!LimitsOK, LeasesInv, NEW c \in Callers, Limits!GenerateWorkspaceImage(c) PROVE LeasesInv'
<1>1. PICK amount \in 1..2, id \in (1..MaxRequests) \ Limits!Asked :
        caller' = [caller EXCEPT ![c] = [Limits!Idle EXCEPT !.pc = "acquire", !.id = id, !.amount = amount, !.stamp = now]]
  BY DEF Limits!GenerateWorkspaceImage, Limits!Set
<1> DEFINE r == [Limits!Idle EXCEPT !.pc = "acquire", !.id = id, !.amount = amount, !.stamp = now]
<1>2. id \in Nat /\ amount \in Nat /\ now \in Nat
  BY DEF Limits!LimitsOK, LeasesInv
<1>3. r \in CallerRow /\ r.pc = "acquire" /\ r.id = id /\ r.stamp = now
  BY <1>2 DEF CallerRow, Limits!Idle
<1>4. (\A g \in granted : g.id # id) /\ \A d \in Callers : caller[d].id # id
  BY <1>1 DEF Limits!Asked
<1>5. UNCHANGED <<now, granted, leases>> /\ caller' = [caller EXCEPT ![c] = r]
  BY <1>1 DEF Limits!GenerateWorkspaceImage
<1> HIDE DEF r
<1> QED
  BY <1>3, <1>4, <1>5, CallerMoves

LEMMA AnsweredKept == ASSUME Limits!LimitsOK, LeasesInv, NEW c \in Callers, Limits!Answered(c) PROVE LeasesInv'
<1> DEFINE r == [caller[c] EXCEPT !.pc = "release"]
<1>1. caller[c] \in CallerRow
  BY DEF LeasesInv
<1>2. r \in CallerRow /\ r.pc = "release" /\ r.id = caller[c].id
  BY <1>1 DEF CallerRow
<1>3. UNCHANGED <<now, granted, leases>> /\ caller' = [caller EXCEPT ![c] = r] /\ caller[c].pc # "idle"
  BY DEF Limits!Answered, Limits!Set, Limits!At
<1> HIDE DEF r
<1> QED
  BY <1>2, <1>3, CallerMoves

\* The lease that is granted covers its request, and expired ones cover nobody's.
LEMMA AcquireKept == ASSUME Limits!LimitsOK, LeasesInv, NEW c \in Callers, Limits!Acquire(c) PROVE LeasesInv'
<1> DEFINE t == caller[c].stamp
           lease == [id |-> caller[c].id, until |-> t + Lease]
           r == [caller[c] EXCEPT !.pc = "run", !.until = now + Timeout]
<1>1. /\ caller[c] \in CallerRow /\ caller[c].pc = "acquire" /\ now' = now /\ Limits!CapacityFree(c)
      /\ leases' = (leases \ Limits!Expired(t)) \cup {lease}
      /\ \E p, e : granted' = granted \cup {[id |-> caller[c].id, stamp |-> t, amount |-> caller[c].amount, period |-> p, exempt |-> e]}
      /\ \/ caller' = [caller EXCEPT ![c] = Limits!Idle]
         \/ caller' = [caller EXCEPT ![c] = r]
  BY DEF LeasesInv, Limits!Acquire, Limits!At, Limits!Grantable, Limits!Set
<1>2. /\ t \in Nat /\ now \in Nat /\ t <= now /\ now <= t + MaxWait /\ caller[c].id \in Nat
      /\ now + Timeout \in Nat /\ now + Timeout < t + Lease /\ t + Lease \in Nat
  BY <1>1 DEF LeasesInv, CallerSound, CallerRow, Limits!LimitsOK
<1>3. lease \in LeaseRow /\ lease.id = caller[c].id /\ lease.until = t + Lease
  BY <1>2 DEF LeaseRow
<1>4. r \in CallerRow /\ r.pc = "run" /\ r.id = caller[c].id /\ r.until = now + Timeout
  BY <1>1, <1>2 DEF CallerRow
<1>5. \A g \in granted' : g \in granted \/ g.id = caller[c].id
  BY <1>1
<1>6. Cardinality(Running) < MaxConcurrent /\ IsFiniteSet(leases \ Limits!Expired(t))
  <2>1. Cardinality(leases \ Limits!Expired(t)) < MaxConcurrent
    BY <1>1, LimitsCount DEF Limits!CapacityFree
  <2>2. Cardinality(Running) <= Cardinality(leases \ Limits!Expired(t)) /\ IsFiniteSet(leases \ Limits!Expired(t))
    BY <1>2, RunningHaveLeases, FS_Subset DEF LeasesInv
  <2>3. Cardinality(leases \ Limits!Expired(t)) \in Nat /\ Cardinality(Running) \in Nat
    BY <2>2, FS_CardinalityType DEF LeasesInv
  <2> QED
    BY <2>1, <2>2, <2>3 DEF Limits!LimitsOK
<1>7. \A l \in leases : l.until > t => l \in leases'
  BY <1>1, <1>2 DEF Limits!Expired, LeasesInv, LeaseRow
<1>8. leases' \subseteq LeaseRow /\ IsFiniteSet(leases') /\ lease \in leases'
  <2>1. IsFiniteSet((leases \ Limits!Expired(t)) \cup {lease})
    BY <1>6, FS_AddElement
  <2> QED
    BY <1>1, <1>3, <2>1 DEF LeasesInv
<1> HIDE DEF t, lease, r
<1>9. ASSUME NEW d \in Callers \ {c}, caller'[d] = caller[d] PROVE CallerSound(d)'
  <2>1. caller[d].pc = "acquire" => \A g \in granted' : g.id # caller[d].id
    BY <1>1, <1>5 DEF LeasesInv, CallerSound
  <2>2. ASSUME caller[d].pc = "run" PROVE \E l \in leases' : Covers(l, d)
    <3>1. PICK l \in leases : Covers(l, d)
      BY <2>2 DEF LeasesInv, CallerSound
    <3>2. caller[d].until \in Nat /\ l.until \in Nat /\ now <= caller[d].until
      BY <2>2 DEF LeasesInv, CallerSound, CallerRow, LeaseRow
    <3>3. l.until > t
      BY <1>2, <3>1, <3>2 DEF Covers
    <3> QED
      BY <1>7, <3>1, <3>3
  <2> QED
    BY <1>1, <1>9, <2>1, <2>2 DEF LeasesInv, CallerSound, Covers
<1>10. CASE caller' = [caller EXCEPT ![c] = Limits!Idle]
  <2>1. /\ caller' \in [Callers -> CallerRow] /\ caller'[c] = Limits!Idle
        /\ \A d \in Callers \ {c} : caller'[d] = caller[d]
    BY <1>10, IdleCallerIs DEF LeasesInv
  <2>2. CallerSound(c)'
    BY <2>1, IdleCallerIs DEF CallerSound
  <2>3. Running' = Running
    BY <1>1, <2>1, IdleCallerIs DEF Running
  <2>4. \A d \in Callers : CallerSound(d)'
    BY <1>9, <2>1, <2>2
  <2>5. \A d, e \in Callers : d # e /\ caller'[d].pc # "idle" /\ caller'[e].pc # "idle" => caller'[d].id # caller'[e].id
    BY <2>1, IdleCallerIs DEF LeasesInv
  <2> QED
    BY <1>1, <1>8, <2>1, <2>3, <2>4, <2>5 DEF LeasesInv
<1>11. CASE caller' = [caller EXCEPT ![c] = r]
  <2>1. /\ caller' \in [Callers -> CallerRow] /\ caller'[c] = r /\ \A d \in Callers \ {c} : caller'[d] = caller[d]
    BY <1>4, <1>11 DEF LeasesInv
  <2>2. CallerSound(c)'
    <3>1. lease.id = caller'[c].id /\ caller'[c].until < lease.until
      BY <1>2, <1>3, <1>4, <2>1
    <3>2. now' <= caller'[c].until
      BY <1>1, <1>2, <1>4, <2>1 DEF Limits!LimitsOK
    <3>3. \E l \in leases' : l.id = caller'[c].id /\ caller'[c].until < l.until
      BY <1>8, <3>1
    <3> QED
      BY <1>4, <2>1, <3>2, <3>3 DEF CallerSound, Covers
  <2>3. Running' = Running \cup {c} /\ c \notin Running
    BY <1>1, <1>4, <2>1 DEF Running
  <2>4. IsFiniteSet(Running') /\ Cardinality(Running') <= MaxConcurrent
    <3>1. IsFiniteSet(Running) /\ Cardinality(Running) \in Nat
      BY FS_CardinalityType DEF LeasesInv
    <3>2. IsFiniteSet(Running') /\ Cardinality(Running') = Cardinality(Running) + 1
      BY <2>3, <3>1, FS_AddElement
    <3> QED
      BY <1>6, <3>1, <3>2 DEF Limits!LimitsOK
  <2>5. \A d \in Callers : CallerSound(d)'
    BY <1>9, <2>1, <2>2
  <2>6. \A d, e \in Callers : d # e /\ caller'[d].pc # "idle" /\ caller'[e].pc # "idle" => caller'[d].id # caller'[e].id
    BY <1>1, <1>4, <2>1 DEF LeasesInv
  <2> QED
    BY <1>1, <1>8, <2>1, <2>4, <2>5, <2>6 DEF LeasesInv
<1> QED
  BY <1>1, <1>10, <1>11 DEF r

\* Time passes only as long as nobody waits or runs too long.
LEMMA LimitsTickKept == ASSUME Limits!LimitsOK, LeasesInv, Limits!Tick PROVE LeasesInv'
<1>1. now' = now + 1 /\ UNCHANGED <<caller, leases, granted>> /\ now \in Nat
  BY DEF Limits!Tick, LeasesInv
<1>2. ASSUME NEW c \in Callers PROVE CallerSound(c)'
  <2>1. caller[c].stamp \in Nat /\ caller[c].until \in Nat
    BY DEF LeasesInv, CallerRow
  <2>2. caller[c].pc = "acquire" => now' <= caller[c].stamp + MaxWait /\ caller[c].stamp <= now'
    BY <1>1, <2>1 DEF Limits!Tick, Limits!At, Limits!LimitsOK, LeasesInv, CallerSound
  <2>3. caller[c].pc = "run" => now' <= caller[c].until
    BY <1>1, <2>1 DEF Limits!Tick, Limits!At
  <2> QED
    BY <1>1, <2>2, <2>3 DEF LeasesInv, CallerSound, Covers
<1>3. Running' = Running
  BY <1>1 DEF Running
<1> QED
  BY <1>1, <1>2, <1>3 DEF LeasesInv

LEMMA LimitsCrashKept == ASSUME Limits!LimitsOK, LeasesInv, Limits!Crash PROVE LeasesInv'
<1>1. caller' = [c \in Callers |-> Limits!Idle] /\ UNCHANGED <<now, leases, granted>>
  BY DEF Limits!Crash
<1>2. caller' \in [Callers -> CallerRow] /\ \A c \in Callers : caller'[c].pc = "idle"
  BY <1>1, IdleCallerIs
<1>3. Running' = {}
  BY <1>2 DEF Running
<1>4. IsFiniteSet(Running') /\ Cardinality(Running') <= MaxConcurrent
  BY <1>3, FS_EmptySet DEF Limits!LimitsOK
<1> QED
  BY <1>1, <1>2, <1>4 DEF LeasesInv, CallerSound

LEMMA LimitsInit == Limits!LimitsOK /\ Limits!Init => LeasesInv
<1> SUFFICES ASSUME Limits!LimitsOK, Limits!Init PROVE LeasesInv
  OBVIOUS
<1>1. caller \in [Callers -> CallerRow] /\ (\A c \in Callers : caller[c].pc = "idle") /\ now = 0 /\ leases = {}
  BY IdleCallerIs DEF Limits!Init
<1>2. Running = {}
  BY <1>1 DEF Running
<1> QED
  BY <1>1, <1>2, FS_EmptySet DEF LeasesInv, CallerSound, Limits!LimitsOK

LEMMA LimitsStep == ASSUME Limits!LimitsOK, LeasesInv, [Limits!Next]_(Limits!requests) PROVE LeasesInv'
<1>1. ASSUME UNCHANGED <<now, caller, leases, granted>> PROVE LeasesInv'
  BY <1>1 DEF LeasesInv, CallerSound, Covers, Running
<1>2. CASE UNCHANGED Limits!requests
  BY <1>1, <1>2 DEF Limits!requests
<1>3. CASE Limits!PeriodPaid \/ Limits!ContractEnds \/ Limits!ComplimentaryAccess
  BY <1>1, <1>3 DEF Limits!PeriodPaid, Limits!ContractEnds, Limits!ComplimentaryAccess
<1>4. ASSUME NEW c \in Callers, Limits!AcquireAILease(c) \/ Limits!AcquireWorkspaceAILease(c) PROVE LeasesInv'
  BY <1>4, AcquireKept DEF Limits!AcquireAILease, Limits!AcquireWorkspaceAILease
<1>5. ASSUME NEW c \in Callers, Limits!Refuse(c) PROVE LeasesInv'
  BY <1>5, IdleCallerIs, CallerMoves DEF Limits!Refuse, Limits!Set
<1>6. ASSUME NEW c \in Callers, Limits!ReleaseAILease(c) \/ Limits!ReleaseWorkspaceAILease(c) PROVE LeasesInv'
  <2>1. /\ caller' = [caller EXCEPT ![c] = Limits!Idle] /\ caller[c].pc # "idle" /\ UNCHANGED <<now, granted>>
        /\ leases' = leases \/ leases' = {l \in leases : l.id # caller[c].id}
    BY <1>6 DEF Limits!ReleaseAILease, Limits!ReleaseWorkspaceAILease, Limits!Release, Limits!Set, Limits!At
  <2> QED
    BY <2>1, IdleCallerIs, CallerMoves
<1>7. ASSUME NEW c \in Callers, Limits!GenerateWorkspaceImage(c) \/ Limits!Answered(c) PROVE LeasesInv'
  BY <1>7, GenerateKept, AnsweredKept
<1>8. CASE Limits!Crash \/ Limits!Tick
  BY <1>8, LimitsCrashKept, LimitsTickKept
<1> QED
  BY <1>2, <1>3, <1>4, <1>5, <1>6, <1>7, <1>8 DEF Limits!Next

\* The inductive invariant of the AI limits: a request that runs is covered by a lease of its own that has not expired,
\* because the wait for the locks and the request together are shorter than a lease.
THEOREM LeasesSound == Limits!LimitsOK /\ LimitsSpec => []LeasesInv
<1> SUFFICES ASSUME Limits!LimitsOK PROVE LimitsSpec => []LeasesInv
  OBVIOUS
<1>1. Limits!Init => LeasesInv
  BY LimitsInit
<1>2. LeasesInv /\ [Limits!Next]_(Limits!requests) => LeasesInv'
  BY LimitsStep
<1> QED
  BY <1>1, <1>2, PTL DEF LimitsSpec

\* However long handlers wait, whatever is refused, lost or left to expire: no more requests are at the providers than
\* a workspace may have at once.
THEOREM RequestsAreBounded == Limits!LimitsOK /\ LimitsSpec => []Limits!RequestsBounded
<1> SUFFICES ASSUME Limits!LimitsOK PROVE LimitsSpec => []Limits!RequestsBounded
  OBVIOUS
<1>1. LeasesInv => Limits!RequestsBounded
  <2>1. Running = {c \in Callers : Limits!At(c, "run")}
    BY DEF Running, Limits!At
  <2> QED
    BY <2>1, LimitsCount DEF LeasesInv, Limits!RequestsBounded
<1> QED
  BY <1>1, LeasesSound, PTL

\* A request that is granted counts in its minute and its day.
Window(b, s) == {g \in granted : Limits!Start(b, g.stamp) = s}
BucketSound(b) ==
  /\ \A g \in granted : Limits!Start(b, g.stamp) <= bucket[b].start
  /\ Cardinality(Window(b, bucket[b].start)) <= bucket[b].used
  /\ \A g \in granted : Cardinality(Window(b, Limits!Start(b, g.stamp))) <= Limits!Limit(b)
BucketsInv ==
  /\ bucket \in [Limits!Buckets -> [start : Int, used : Nat]]
  /\ IsFiniteSet(granted) /\ \A g \in granted : g.stamp \in Nat
  /\ strayed \in BOOLEAN /\ (strayed \/ \A b \in Limits!Buckets : BucketSound(b))

LEMMA StartsAre ==
  ASSUME Limits!LimitsOK, NEW b \in Limits!Buckets
  PROVE  Limits!Limit(b) \in Nat /\ \A t \in Nat : Limits!Start(b, t) \in Int
<1>1. \A n \in Nat \ {0}, t \in Nat : t \div n \in Int
  OBVIOUS
<1> QED
  BY <1>1 DEF Limits!LimitsOK, Limits!Limit, Limits!Start

LEMMA OneMore ==
  ASSUME NEW S, IsFiniteSet(S), NEW x
  PROVE  Cardinality(S \cup {x}) \in Nat /\ Cardinality(S \cup {x}) <= Cardinality(S) + 1
<1>1. Cardinality(S) \in Nat /\ Cardinality(S \cup {x}) = IF x \in S THEN Cardinality(S) ELSE Cardinality(S) + 1
  BY FS_AddElement, FS_CardinalityType
<1> QED
  BY <1>1

LEMMA BucketsStay ==
  ASSUME BucketsInv, UNCHANGED <<bucket, granted, strayed>> PROVE BucketsInv'
BY DEF BucketsInv, BucketSound, Window

LEMMA BucketWritten ==
  ASSUME Limits!LimitsOK, LeasesInv, BucketsInv, NEW c \in Callers, Limits!Acquire(c) PROVE BucketsInv'
<1>0. PICK t \in Nat : t = caller[c].stamp
  BY DEF LeasesInv, CallerRow
<1>1. t \in Nat
  BY <1>0
<1> DEFINE new == [id |-> caller[c].id, stamp |-> t, amount |-> caller[c].amount, period |-> Limits!UsageWindow(t),
                   exempt |-> free]
<1>7. granted' = granted \cup {new}
  BY <1>0, Zenon DEF Limits!Acquire
<1>10. new.stamp = t
  OBVIOUS
<1>8. /\ bucket' = [b \in Limits!Buckets |-> [start |-> Limits!Start(b, t), used |-> Limits!ReadBucket(b, t) + 1]]
      /\ strayed' = (strayed \/ \E b \in Limits!Buckets : Limits!Start(b, t) < bucket[b].start)
  BY <1>0, Zenon DEF Limits!Acquire, Limits!WriteBucket
<1>9. \A b \in Limits!Buckets : Limits!ReadBucket(b, t) < Limits!Limit(b)
  BY <1>0, Zenon DEF Limits!Acquire, Limits!Grantable
<1>2. /\ granted' = granted \cup {new} /\ new.stamp = t
      /\ bucket' = [b \in Limits!Buckets |-> [start |-> Limits!Start(b, t), used |-> Limits!ReadBucket(b, t) + 1]]
      /\ strayed' = (strayed \/ \E b \in Limits!Buckets : Limits!Start(b, t) < bucket[b].start)
      /\ \A b \in Limits!Buckets : Limits!ReadBucket(b, t) < Limits!Limit(b)
  BY <1>7, <1>8, <1>9, <1>10, Zenon
<1> HIDE DEF new
<1>3. \A b \in Limits!Buckets : /\ Limits!ReadBucket(b, t) \in Nat /\ Limits!Start(b, t) \in Int
                                /\ bucket[b].start \in Int /\ Limits!Limit(b) \in Nat
  BY <1>1, StartsAre DEF BucketsInv, Limits!ReadBucket
<1>4. bucket' \in [Limits!Buckets -> [start : Int, used : Nat]]
  BY <1>2, <1>3
<1>5. IsFiniteSet(granted') /\ strayed' \in BOOLEAN /\ \A g \in granted' : g.stamp \in Nat
  BY <1>1, <1>2, FS_AddElement DEF BucketsInv
<1>6. ASSUME ~strayed', NEW b \in Limits!Buckets PROVE BucketSound(b)'
  <2>0. PICK s : s = Limits!Start(b, t)
    OBVIOUS
  <2>a. ~strayed /\ ~(Limits!Start(b, t) < bucket[b].start)
    BY <1>2, <1>6
  <2>b. BucketSound(b)
    BY <1>6, <2>a, Zenon DEF BucketsInv
  <2>c. s \in Int /\ bucket[b].start \in Int /\ Limits!Limit(b) \in Nat
    BY <2>0, <1>3
  <2>1. BucketSound(b) /\ bucket[b].start <= s /\ s \in Int /\ bucket[b].start \in Int /\ Limits!Limit(b) \in Nat
    BY <2>0, <2>a, <2>b, <2>c
  <2>2. bucket'[b].start = s /\ bucket'[b].used = Limits!ReadBucket(b, t) + 1
    BY <1>2, <2>0
  <2>3. ASSUME NEW z PROVE /\ IsFiniteSet(Window(b, z)) /\ Cardinality(Window(b, z)) \in Nat
                           /\ Window(b, z)' = IF z = s THEN Window(b, z) \cup {new} ELSE Window(b, z)
    <3>1. IsFiniteSet(Window(b, z))
      BY FS_Subset DEF Window, BucketsInv
    <3>2. Cardinality(Window(b, z)) \in Nat
      BY <3>1, FS_CardinalityType
    <3> QED
      BY <1>2, <2>0, <3>1, <3>2 DEF Window
  <2>4. \A g \in granted : Limits!Start(b, g.stamp) \in Int
    BY StartsAre DEF BucketsInv
  <2>5. Cardinality(Window(b, s)) <= Limits!ReadBucket(b, t)
    <3>1. CASE bucket[b].start = s
      <4>1. Limits!ReadBucket(b, t) = bucket[b].used
        BY <2>0, <3>1 DEF Limits!ReadBucket
      <4>2. Cardinality(Window(b, bucket[b].start)) <= bucket[b].used
        BY <2>1, Zenon DEF BucketSound
      <4> QED
        BY <3>1, <4>1, <4>2
    <3>2. CASE bucket[b].start # s
      <4>1. Window(b, s) = {}
        BY <2>1, <2>4, <3>2 DEF Window, BucketSound
      <4> QED
        BY <2>0, <3>2, <4>1, FS_EmptySet DEF Limits!ReadBucket
    <3> QED
      BY <3>1, <3>2
  <2>6. Cardinality(Window(b, s) \cup {new}) \in Nat
        /\ Cardinality(Window(b, s) \cup {new}) <= Cardinality(Window(b, s)) + 1
    BY <2>3, OneMore
  <2> DEFINE many == Cardinality(Window(b, s) \cup {new})
  <2>7. many <= Limits!ReadBucket(b, t) + 1 /\ many <= Limits!Limit(b)
    <3>1. Cardinality(Window(b, s)) \in Nat
      BY <2>3
    <3> QED
      BY <1>2, <1>3, <2>5, <2>6, <3>1
  <2>8. Cardinality(Window(b, s)') <= bucket'[b].used
    BY <2>2, <2>3, <2>7
  <2>9. \A g \in granted' : Limits!Start(b, g.stamp) <= s
    BY <1>2, <2>0, <2>1, <2>4 DEF BucketSound
  <2>10. ASSUME NEW g \in granted' PROVE Cardinality(Window(b, Limits!Start(b, g.stamp))') <= Limits!Limit(b)
    <3> DEFINE z == Limits!Start(b, g.stamp)
    <3>1. CASE z = s
      BY <2>3, <2>7, <3>1
    <3>2. CASE z # s
      <4>1. g \in granted
        BY <1>2, <2>0, <3>2
      <4> QED
        BY <2>1, <2>3, <3>2, <4>1 DEF BucketSound
    <3> QED
      BY <3>1, <3>2
  <2> QED
    BY <2>2, <2>8, <2>9, <2>10 DEF BucketSound, Window
<1> QED
  BY <1>4, <1>5, <1>6 DEF BucketsInv

LEMMA BucketsInit == Limits!LimitsOK /\ Limits!Init => BucketsInv
<1> SUFFICES ASSUME Limits!LimitsOK, Limits!Init PROVE BucketsInv
  OBVIOUS
<1>1. bucket = [b \in Limits!Buckets |-> [start |-> 0, used |-> 0]] /\ granted = {} /\ strayed = FALSE
  BY DEF Limits!Init
<1>2. IsFiniteSet(granted)
  BY <1>1, FS_EmptySet
<1>3. ASSUME NEW b \in Limits!Buckets PROVE BucketSound(b)
  <2>1. Window(b, bucket[b].start) = {}
    BY <1>1 DEF Window
  <2>2. bucket[b].start = 0 /\ bucket[b].used = 0
    BY <1>1
  <2> QED
    BY <1>1, <2>1, <2>2, FS_EmptySet DEF BucketSound
<1>4. bucket \in [Limits!Buckets -> [start : Int, used : Nat]]
  BY <1>1
<1> QED
  BY <1>1, <1>2, <1>3, <1>4 DEF BucketsInv

LEMMA BucketsStep ==
  ASSUME Limits!LimitsOK, LeasesInv, BucketsInv, [Limits!Next]_(Limits!requests) PROVE BucketsInv'
<1>1. CASE UNCHANGED Limits!requests
  BY <1>1, BucketsStay DEF Limits!requests
<1>2. ASSUME NEW c \in Callers, Limits!AcquireAILease(c) \/ Limits!AcquireWorkspaceAILease(c) PROVE BucketsInv'
  BY <1>2, BucketWritten DEF Limits!AcquireAILease, Limits!AcquireWorkspaceAILease
<1>3. ASSUME NEW c \in Callers,
             \/ Limits!GenerateWorkspaceImage(c) \/ Limits!Refuse(c) \/ Limits!Answered(c)
             \/ Limits!ReleaseAILease(c) \/ Limits!ReleaseWorkspaceAILease(c)
      PROVE  BucketsInv'
  <2>1. UNCHANGED <<bucket, granted, strayed>>
    BY <1>3 DEF Limits!GenerateWorkspaceImage, Limits!Refuse, Limits!Answered, Limits!ReleaseAILease,
                Limits!ReleaseWorkspaceAILease, Limits!Release
  <2> QED
    BY <2>1, BucketsStay
<1>4. CASE Limits!Crash \/ Limits!PeriodPaid \/ Limits!ContractEnds \/ Limits!ComplimentaryAccess \/ Limits!Tick
  <2>1. UNCHANGED <<bucket, granted, strayed>>
    BY <1>4 DEF Limits!Crash, Limits!PeriodPaid, Limits!ContractEnds, Limits!ComplimentaryAccess, Limits!Tick
  <2> QED
    BY <2>1, BucketsStay
<1> QED
  BY <1>1, <1>2, <1>3, <1>4 DEF Limits!Next

\* Whatever is refused, lost or left to expire: no more requests are granted in one minute or one day than its limit,
\* unless a handler that waited for its locks wrote an older bucket over a newer one.
THEOREM BucketLimitsAreKept == Limits!LimitsOK /\ LimitsSpec => []Limits!BucketsKept
<1> SUFFICES ASSUME Limits!LimitsOK PROVE LimitsSpec => []Limits!BucketsKept
  OBVIOUS
<1>1. Limits!Init => BucketsInv
  BY BucketsInit
<1>2. LeasesInv /\ BucketsInv /\ [Limits!Next]_(Limits!requests) => BucketsInv'
  BY BucketsStep
<1>3. BucketsInv => Limits!BucketsKept
  <2> SUFFICES ASSUME BucketsInv, ~strayed, NEW b \in Limits!Buckets, NEW g \in granted
               PROVE  Limits!Cardinality({h \in granted : Limits!Start(b, h.stamp) = Limits!Start(b, g.stamp)})
                      <= Limits!Limit(b)
    BY DEF Limits!BucketsKept
  <2>1. Cardinality(Window(b, Limits!Start(b, g.stamp))) <= Limits!Limit(b)
    BY Zenon DEF BucketsInv, BucketSound
  <2>2. Window(b, Limits!Start(b, g.stamp)) = {h \in granted : Limits!Start(b, h.stamp) = Limits!Start(b, g.stamp)}
    BY DEF Window
  <2> QED
    BY <2>1, <2>2, LimitsCount
<1> QED
  BY <1>1, <1>2, <1>3, LeasesSound, PTL DEF LimitsSpec

\* Some natural numbers have a least one.
LEMMA LeastOf == ASSUME NEW S, S \subseteq Nat, S # {} PROVE \E m \in S : \A n \in S : m <= n
<1> DEFINE R == {ss \in Nat \X Nat : ss[1] < ss[2]}
<1>1. IsWellFoundedOn(R, Nat)
  BY NatLessThanWellFounded DEF OpToRel
<1> HIDE DEF R
<1>2. PICK m \in S : \A n \in S : ~(<<n, m>> \in R)
  BY <1>1, WFMin
<1>3. \A n \in S : ~(n < m)
  BY <1>2 DEF R
<1> QED
  BY <1>3

\* The sum over a set as its fold computes it, one chosen element after the other.
First(s) == CHOOSE x \in s : TRUE
Sums(fn, D) == fn = [s \in D |-> IF s = {} THEN 0 ELSE First(s).amount + fn[s \ {First(s)}]]
UpTo(S, n) == {s \in SUBSET S : Cardinality(s) <= n}

LEMMA TotalIs == ASSUME NEW S PROVE Limits!Total(S) = (CHOOSE fn : Sums(fn, SUBSET S))[S]
BY DEF Limits!Total, Limits!MapThenSumSet, Limits!MapThenFoldSet, Sums, First

LEMMA FirstIn == ASSUME NEW s, s # {} PROVE First(s) \in s
BY DEF First

LEMMA Smaller ==
  ASSUME NEW S, IsFiniteSet(S), NEW s \in SUBSET S, s # {}
  PROVE  /\ IsFiniteSet(s) /\ s \ {First(s)} \in SUBSET S
         /\ Cardinality(s) \in Nat \ {0} /\ Cardinality(s \ {First(s)}) = Cardinality(s) - 1
<1>1. IsFiniteSet(s) /\ Cardinality(s) \in Nat /\ First(s) \in s
  BY FS_Subset, FS_CardinalityType, FirstIn
<1>2. Cardinality(s) # 0
  BY <1>1, FS_EmptySet
<1> QED
  BY <1>1, <1>2, FS_RemoveElement

\* What the fold is a choice of exists, size by size.
LEMMA SumsExist == ASSUME NEW S, IsFiniteSet(S) PROVE \E fn : Sums(fn, SUBSET S)
<1> DEFINE Bad == {n \in Nat : ~\E fn : Sums(fn, UpTo(S, n))}
<1>1. \A s \in SUBSET S : IsFiniteSet(s) /\ Cardinality(s) \in Nat /\ Cardinality(s) <= Cardinality(S)
  BY FS_Subset, FS_CardinalityType
<1>2. Bad = {}
  <2> SUFFICES ASSUME Bad # {} PROVE FALSE
    OBVIOUS
  <2>1. PICK n \in Bad : \A k \in Bad : n <= k
    <3>1. Bad \subseteq Nat
      OBVIOUS
    <3> HIDE DEF Bad
    <3> QED
      BY <3>1, LeastOf
  <2>2. CASE n = 0
    <3>1. UpTo(S, 0) = {{}}
      <4>1. \A s \in SUBSET S : Cardinality(s) <= 0 => s = {}
        BY <1>1, FS_EmptySet
      <4> QED
        BY <4>1, FS_EmptySet DEF UpTo
    <3>2. Sums([s \in {{}} |-> 0], {{}})
      BY DEF Sums
    <3> QED
      BY <2>1, <2>2, <3>1, <3>2
  <2>3. CASE n # 0
    <3>1. n - 1 \in Nat /\ n \in Nat /\ ~(n <= n - 1)
      BY <2>1, <2>3
    <3>2. PICK gn : Sums(gn, UpTo(S, n - 1))
      BY <2>1, <3>1
    <3> DEFINE fn == [s \in UpTo(S, n) |-> IF s = {} THEN 0 ELSE First(s).amount + gn[s \ {First(s)}]]
    <3>3. ASSUME NEW s \in UpTo(S, n), s # {} PROVE s \ {First(s)} \in UpTo(S, n - 1)
      <4>1. s \in SUBSET S /\ Cardinality(s) <= n
        BY DEF UpTo
      <4>2. s \ {First(s)} \in SUBSET S /\ Cardinality(s) \in Nat \ {0}
            /\ Cardinality(s \ {First(s)}) = Cardinality(s) - 1
        BY <3>3, <4>1, Smaller
      <4> QED
        BY <3>1, <4>1, <4>2 DEF UpTo
    <3>4. ASSUME NEW r \in UpTo(S, n - 1) PROVE r \in UpTo(S, n)
      BY <1>1, <3>1 DEF UpTo
    <3>5. ASSUME NEW r \in UpTo(S, n - 1) PROVE fn[r] = gn[r]
      <4>1. fn[r] = IF r = {} THEN 0 ELSE First(r).amount + gn[r \ {First(r)}]
        BY <3>4
      <4>2. gn[r] = IF r = {} THEN 0 ELSE First(r).amount + gn[r \ {First(r)}]
        BY <3>2 DEF Sums
      <4> QED
        BY <4>1, <4>2
    <3>6. \A s \in UpTo(S, n) : s # {} => fn[s \ {First(s)}] = gn[s \ {First(s)}]
      BY <3>3, <3>5
    <3>7. fn = [s \in UpTo(S, n) |-> IF s = {} THEN 0 ELSE First(s).amount + fn[s \ {First(s)}]]
      <4> DEFINE hn == [s \in UpTo(S, n) |-> IF s = {} THEN 0 ELSE First(s).amount + fn[s \ {First(s)}]]
      <4>1. \A s \in UpTo(S, n) : (IF s = {} THEN 0 ELSE First(s).amount + fn[s \ {First(s)}])
                                  = (IF s = {} THEN 0 ELSE First(s).amount + gn[s \ {First(s)}])
        <5> HIDE DEF fn
        <5> QED
          BY <3>6
      <4>2. fn = hn
        BY <4>1, Zenon
      <4> QED
        BY <4>2
    <3>8. Sums(fn, UpTo(S, n))
      BY <3>7 DEF Sums
    <3> QED
      BY <2>1, <3>8
  <2> QED
    BY <2>2, <2>3
<1>3. Cardinality(S) \in Nat /\ UpTo(S, Cardinality(S)) = SUBSET S
  BY <1>1, FS_CardinalityType DEF UpTo
<1>4. \E fn : Sums(fn, UpTo(S, Cardinality(S)))
  BY <1>2, <1>3, Zenon
<1> QED
  BY <1>3, <1>4

LEMMA SumsAgree ==
  ASSUME NEW S, IsFiniteSet(S), NEW T \in SUBSET S, NEW fn, Sums(fn, SUBSET S), NEW gn, Sums(gn, SUBSET T)
  PROVE  fn[T] = gn[T]
<1> DEFINE Bad == {n \in Nat : \E s \in SUBSET T : Cardinality(s) = n /\ fn[s] # gn[s]}
<1>1. Bad = {}
  <2> SUFFICES ASSUME Bad # {} PROVE FALSE
    OBVIOUS
  <2>1. PICK n \in Bad : \A k \in Bad : n <= k
    <3>1. Bad \subseteq Nat
      OBVIOUS
    <3> HIDE DEF Bad
    <3> QED
      BY <3>1, LeastOf
  <2>2. PICK s \in SUBSET T : Cardinality(s) = n /\ fn[s] # gn[s]
    BY <2>1
  <2> DEFINE r == s \ {First(s)}
  <2>3. /\ fn[s] = IF s = {} THEN 0 ELSE First(s).amount + fn[r]
        /\ gn[s] = IF s = {} THEN 0 ELSE First(s).amount + gn[r]
    BY DEF Sums
  <2>4. s # {} /\ fn[r] # gn[r]
    BY <2>2, <2>3
  <2>5. Cardinality(s) \in Nat \ {0} /\ Cardinality(r) = Cardinality(s) - 1 /\ r \in SUBSET T
    <3>1. s \in SUBSET S /\ r \in SUBSET T
      OBVIOUS
    <3> QED
      BY <2>4, <3>1, Smaller
  <2>6. Cardinality(r) \in Nat /\ ~(n <= Cardinality(r))
    BY <2>2, <2>5
  <2>7. Cardinality(r) \in Bad
    BY <2>4, <2>5, <2>6
  <2> QED
    BY <2>1, <2>6, <2>7
<1>2. IsFiniteSet(T) /\ Cardinality(T) \in Nat
  BY FS_Subset, FS_CardinalityType
<1> QED
  BY <1>1, <1>2

\* The sum of a finite set is that of its first element and the rest.
LEMMA TotalStep ==
  ASSUME NEW S, IsFiniteSet(S)
  PROVE  Limits!Total(S) = IF S = {} THEN 0 ELSE First(S).amount + Limits!Total(S \ {First(S)})
<1> DEFINE fn == CHOOSE f : Sums(f, SUBSET S)
           R == S \ {First(S)}
           gn == CHOOSE f : Sums(f, SUBSET R)
<1>1. IsFiniteSet(R) /\ R \in SUBSET S
  BY FS_Subset
<1>2. Sums(fn, SUBSET S)
  BY SumsExist
<1>3. Sums(gn, SUBSET R)
  BY <1>1, SumsExist
<1>4. Limits!Total(S) = fn[S] /\ Limits!Total(R) = gn[R]
  BY TotalIs
<1> HIDE DEF fn, gn
<1>5. fn[R] = gn[R]
  BY <1>1, <1>2, <1>3, SumsAgree
<1>6. fn[S] = IF S = {} THEN 0 ELSE First(S).amount + fn[R]
  BY <1>2 DEF Sums
<1> QED
  BY <1>4, <1>5, <1>6

Amounts(S) == IsFiniteSet(S) /\ \A g \in S : g.amount \in Nat

\* Adding an element adds its amount, whichever the fold chooses first.
LEMMA TotalAdd ==
  ASSUME NEW S, NEW x, Amounts(S \cup {x}), x \notin S
  PROVE  /\ Limits!Total(S) \in Nat
         /\ Limits!Total(S \cup {x}) = x.amount + Limits!Total(S)
<1> DEFINE T == S \cup {x}
           Holds(s) == /\ Limits!Total(s) \in Nat
                       /\ \A y \in T \ s : Limits!Total(s \cup {y}) = y.amount + Limits!Total(s)
           Bad == {n \in Nat : \E s \in SUBSET T : Cardinality(s) = n /\ ~Holds(s)}
<1>0. \A y \in T : y.amount \in Nat
  BY DEF Amounts
<1>1. \A s \in SUBSET T : IsFiniteSet(s) /\ Cardinality(s) \in Nat
  BY FS_Subset, FS_CardinalityType DEF Amounts
<1>2. Bad = {}
  <2> SUFFICES ASSUME Bad # {} PROVE FALSE
    OBVIOUS
  <2>1. PICK n \in Bad : \A k \in Bad : n <= k
    <3>1. Bad \subseteq Nat
      OBVIOUS
    <3> HIDE DEF Bad
    <3> QED
      BY <3>1, LeastOf
  <2>2. PICK s \in SUBSET T : Cardinality(s) = n /\ ~Holds(s)
    BY <2>1
  <2> HIDE DEF Holds
  <2>3. ASSUME NEW r \in SUBSET s, r # s PROVE Holds(r)
    <3>1. IsFiniteSet(s) /\ Cardinality(s) \in Nat /\ Cardinality(r) \in Nat /\ r \in SUBSET T
      BY <1>1
    <3>2. Cardinality(r) <= Cardinality(s) /\ Cardinality(r) # Cardinality(s)
      BY <2>3, <3>1, FS_Subset
    <3>3. ~(n <= Cardinality(r))
      BY <2>2, <3>1, <3>2
    <3> QED
      BY <2>1, <3>1, <3>3
  <2> USE DEF Holds
  <2>4. Limits!Total(s) \in Nat
    <3>1. CASE s = {}
      BY <1>1, <3>1, TotalStep
    <3>2. CASE s # {}
      <4> DEFINE y == First(s)
                 r == s \ {y}
      <4>1. y \in s /\ y.amount \in Nat /\ r \in SUBSET s /\ r # s
        BY <1>0, <3>2, FirstIn
      <4>2. Limits!Total(r) \in Nat
        BY <2>3, <4>1
      <4>3. Limits!Total(s) = y.amount + Limits!Total(r)
        BY <1>1, <3>2, TotalStep
      <4> QED
        BY <4>1, <4>2, <4>3
    <3> QED
      BY <3>1, <3>2
  <2>5. ASSUME NEW y \in T \ s PROVE Limits!Total(s \cup {y}) = y.amount + Limits!Total(s)
    <3> DEFINE t == s \cup {y}
               z == First(t)
               r == s \ {z}
    <3>1. z \in t /\ z.amount \in Nat /\ y.amount \in Nat /\ t \in SUBSET T
      BY <1>0, FirstIn
    <3>2. Limits!Total(t) = z.amount + Limits!Total(t \ {z})
      BY <1>1, <3>1, TotalStep
    <3>3. CASE z = y
      <4>1. t \ {z} = s
        BY <3>3
      <4> QED
        BY <3>2, <3>3, <4>1
    <3>4. CASE z # y
      <4>1. z \in s /\ r \in SUBSET s /\ r # s /\ t \ {z} = r \cup {y} /\ s = r \cup {z} /\ y \in T \ r /\ z \in T \ r
        BY <3>1, <3>4
      <4>2. Holds(r)
        BY <2>3, <4>1
      <4>3. Limits!Total(r \cup {y}) = y.amount + Limits!Total(r) /\ Limits!Total(r) \in Nat
        BY <4>1, <4>2
      <4>4. Limits!Total(r \cup {z}) = z.amount + Limits!Total(r)
        BY <4>1, <4>2
      <4> HIDE DEF z, r
      <4> QED
        BY <3>1, <3>2, <4>1, <4>3, <4>4
    <3> QED
      BY <3>3, <3>4
  <2> QED
    BY <2>2, <2>4, <2>5
<1>3. Holds(S)
  BY <1>1, <1>2
<1> QED
  BY <1>3

\* Less than all amounts to no more.
LEMMA TotalGrows ==
  ASSUME NEW S, Amounts(S), NEW U \in SUBSET S
  PROVE  Limits!Total(U) \in Nat /\ Limits!Total(S) \in Nat /\ Limits!Total(U) <= Limits!Total(S)
<1> DEFINE Bad == {n \in Nat : \E s \in SUBSET S : U \subseteq s /\ Cardinality(s) = n
                                 /\ ~(Limits!Total(s) \in Nat /\ Limits!Total(U) <= Limits!Total(s))}
<1>1. \A s \in SUBSET S : Amounts(s) /\ IsFiniteSet(s) /\ Cardinality(s) \in Nat
  BY FS_Subset, FS_CardinalityType DEF Amounts
<1>2. \A s \in SUBSET S : Limits!Total(s) \in Nat
  <2> SUFFICES ASSUME NEW s \in SUBSET S PROVE Limits!Total(s) \in Nat
    OBVIOUS
  <2>1. CASE s = {}
    BY <1>1, <2>1, TotalStep
  <2>2. CASE s # {}
    <3> DEFINE y == First(s)
               r == s \ {y}
    <3>1. y \in s /\ y \notin r /\ r \cup {y} = s /\ y.amount \in Nat
      BY <1>1, <2>2, FirstIn DEF Amounts
    <3> HIDE DEF y, r
    <3>2. Amounts(r \cup {y})
      BY <1>1, <3>1
    <3>3. Limits!Total(r) \in Nat /\ Limits!Total(r \cup {y}) = y.amount + Limits!Total(r)
      BY <3>1, <3>2, TotalAdd
    <3> QED
      BY <3>1, <3>3
  <2> QED
    BY <2>1, <2>2
<1>3. Bad = {}
  <2> SUFFICES ASSUME Bad # {} PROVE FALSE
    OBVIOUS
  <2>1. PICK n \in Bad : \A k \in Bad : n <= k
    <3>1. Bad \subseteq Nat
      OBVIOUS
    <3> HIDE DEF Bad
    <3> QED
      BY <3>1, LeastOf
  <2>2. PICK s \in SUBSET S : /\ U \subseteq s /\ Cardinality(s) = n
                              /\ ~(Limits!Total(s) \in Nat /\ Limits!Total(U) <= Limits!Total(s))
    BY <2>1
  <2>3. s # U
    BY <1>2, <2>2
  <2>4. PICK y \in s : y \notin U
    BY <2>2, <2>3
  <2> DEFINE r == s \ {y}
  <2>5. r \in SUBSET S /\ U \subseteq r /\ r \cup {y} = s /\ y \notin r /\ y.amount \in Nat
    BY <1>1, <2>2, <2>4 DEF Amounts
  <2>6. Cardinality(r) = Cardinality(s) - 1 /\ Cardinality(s) \in Nat /\ Cardinality(r) \in Nat
    BY <1>1, <2>4, FS_RemoveElement
  <2> HIDE DEF r
  <2>7. Limits!Total(r) \in Nat /\ Limits!Total(s) = y.amount + Limits!Total(r)
    <3>1. Amounts(r \cup {y})
      BY <1>1, <2>5
    <3> QED
      BY <2>5, <3>1, TotalAdd
  <2>8. Limits!Total(U) <= Limits!Total(r)
    <3>1. ~(n <= Cardinality(r))
      BY <2>2, <2>6
    <3> QED
      BY <2>1, <2>5, <2>6, <3>1
  <2>9. Limits!Total(U) \in Nat
    BY <1>2
  <2> QED
    BY <2>2, <2>5, <2>7, <2>8, <2>9
<1>4. Limits!Total(U) <= Limits!Total(S)
  BY <1>1, <1>3
<1> QED
  BY <1>2, <1>4

\* What a period was charged is what was let through in it.
Here(p) == {g \in granted : g.period = p}
Due(p) == {g \in Here(p) : ~g.exempt}
MonthSound(p) == usage[p] = Limits!Total(Here(p)) /\ (p # 0 => Limits!Total(Due(p)) <= MonthlyLimit)
MonthsInv ==
  /\ usage \in [0..(MaxChanges + 1) -> Nat] /\ free \in BOOLEAN
  /\ plan \in [status : {"active", "ended"}, period : Nat, until : Int, changes : Nat]
  /\ plan.changes <= MaxChanges /\ 1 <= plan.period /\ plan.period <= plan.changes + 1
  /\ Amounts(granted)
  /\ \A p \in 0..(MaxChanges + 1) : MonthSound(p)

LEMMA MonthsStay ==
  ASSUME Limits!LimitsOK, LeasesInv, MonthsInv, UNCHANGED <<usage, granted>>,
         UNCHANGED <<plan, free>> \/ Limits!PeriodPaid \/ Limits!ContractEnds \/ Limits!ComplimentaryAccess
  PROVE  MonthsInv'
<1> DEFINE Contract == [status : {"active", "ended"}, period : Nat, until : Int, changes : Nat]
<1>1. /\ usage' \in [0..(MaxChanges + 1) -> Nat] /\ Amounts(granted)'
      /\ \A p \in 0..(MaxChanges + 1) : MonthSound(p)'
  BY DEF MonthsInv, Amounts, MonthSound, Here, Due
<1>2. plan \in Contract /\ plan.changes <= MaxChanges /\ 1 <= plan.period /\ plan.period <= plan.changes + 1 /\ free \in BOOLEAN
  BY DEF MonthsInv
<1>3. now \in Nat /\ Day \in Nat /\ MaxChanges \in Nat
  BY DEF LeasesInv, Limits!LimitsOK
<1>4. /\ plan' \in Contract /\ plan'.changes <= MaxChanges /\ 1 <= plan'.period /\ plan'.period <= plan'.changes + 1
      /\ free' \in BOOLEAN
  <2>1. CASE UNCHANGED <<plan, free>>
    BY <1>2, <2>1
  <2>2. CASE Limits!PeriodPaid
    <3> DEFINE renewed == [plan EXCEPT !.status = "active", !.period = @ + 1, !.until = now + Day]
    <3>1. plan.changes < MaxChanges /\ plan' = [renewed EXCEPT !.changes = @ + 1] /\ free' = free
      BY <2>2 DEF Limits!PeriodPaid, Limits!Changed
    <3>2. renewed \in Contract /\ renewed.period = plan.period + 1 /\ renewed.changes = plan.changes
      <4> DEFINE p1 == [plan EXCEPT !.status = "active"]
                 p2 == [p1 EXCEPT !.period = @ + 1]
                 p3 == [p2 EXCEPT !.until = now + Day]
      <4>1. p1 \in Contract /\ p1.period = plan.period /\ p1.changes = plan.changes
        BY <1>2
      <4>2. renewed = p3
        BY <1>2
      <4> HIDE DEF p1
      <4>3. p2 \in Contract /\ p2.period = plan.period + 1 /\ p2.changes = plan.changes
        BY <1>2, <4>1
      <4> HIDE DEF p2
      <4>4. p3 \in Contract /\ p3.period = plan.period + 1 /\ p3.changes = plan.changes
        BY <1>3, <4>3
      <4> QED
        BY <4>2, <4>4
    <3> HIDE DEF renewed
    <3>3. plan' \in Contract /\ plan'.period = plan.period + 1 /\ plan'.changes = plan.changes + 1
      BY <1>2, <3>1, <3>2
    <3> QED
      BY <1>2, <1>3, <3>1, <3>3
  <2>3. CASE Limits!ContractEnds
    BY <1>2, <1>3, <2>3 DEF Limits!ContractEnds
  <2>4. CASE Limits!ComplimentaryAccess
    <3>1. free' \in BOOLEAN
      BY <2>4, Zenon DEF Limits!ComplimentaryAccess
    <3> QED
      BY <1>2, <1>3, <2>4, <3>1 DEF Limits!ComplimentaryAccess, Limits!Changed
  <2> QED
    BY <2>1, <2>2, <2>3, <2>4
<1> QED
  BY <1>1, <1>4 DEF MonthsInv

\* Its period has room for what a request costs, unless nobody pays for it.
LEMMA MonthCharged ==
  ASSUME Limits!LimitsOK, LeasesInv, MonthsInv, NEW c \in Callers, Limits!Acquire(c) PROVE MonthsInv'
<1>1. PICK t \in Nat : t = caller[c].stamp
  BY DEF LeasesInv, CallerRow
<1>2. PICK amount \in Nat : amount = caller[c].amount
  BY DEF LeasesInv, CallerRow
<1>3. PICK q : q = Limits!UsageWindow(t)
  OBVIOUS
<1> DEFINE new == [id |-> caller[c].id, stamp |-> t, amount |-> amount, period |-> q, exempt |-> free]
<1>4. granted' = granted \cup {new} /\ usage' = [usage EXCEPT ![q] = @ + amount] /\ plan' = plan /\ free' = free
  BY <1>1, <1>2, <1>3, Zenon DEF Limits!Acquire
<1>5. free \/ (Limits!RequireActive(t) /\ Limits!WithinLimit(c, q))
  BY <1>1, <1>3, Zenon DEF Limits!Acquire, Limits!Grantable, Limits!ChargeAllowed
<1>6. new.period = q /\ new.amount = amount /\ new.exempt = free /\ new.id = caller[c].id
  OBVIOUS
<1>7. new \notin granted
  <2>1. \A g \in granted : g.id # caller[c].id
    BY DEF LeasesInv, CallerSound, Limits!Acquire, Limits!At
  <2> QED
    BY <1>6, <2>1
<1> HIDE DEF new
<1>8. q \in 0..(MaxChanges + 1) /\ q \in Int /\ MonthlyLimit \in Nat
  BY <1>3 DEF MonthsInv, Limits!UsageWindow, Limits!LimitsOK
<1>9. free \/ usage[q] + amount <= MonthlyLimit
  <2>1. usage[q] \in Nat
    BY <1>8 DEF MonthsInv
  <2>2. free \/ amount <= MonthlyLimit - usage[q]
    BY <1>2, <1>5 DEF Limits!WithinLimit
  <2> QED
    BY <1>8, <2>1, <2>2
<1>10. usage' \in [0..(MaxChanges + 1) -> Nat]
  BY <1>4, <1>8 DEF MonthsInv
<1>11. Amounts(granted')
  <2>1. IsFiniteSet(granted \cup {new})
    BY FS_AddElement DEF MonthsInv, Amounts
  <2> QED
    BY <1>4, <1>6, <2>1 DEF MonthsInv, Amounts
<1>12. ASSUME NEW S \in SUBSET granted
       PROVE  /\ Amounts(S) /\ Amounts(S \cup {new}) /\ Limits!Total(S) \in Nat
              /\ Limits!Total(S \cup {new}) = amount + Limits!Total(S)
  <2>1. IsFiniteSet(S) /\ IsFiniteSet(S \cup {new})
    BY FS_Subset, FS_AddElement DEF MonthsInv, Amounts
  <2>2. Amounts(S) /\ Amounts(S \cup {new})
    BY <1>6, <2>1 DEF MonthsInv, Amounts
  <2> QED
    BY <1>6, <1>7, <2>2, TotalAdd
<1>13. ASSUME NEW p \in 0..(MaxChanges + 1) PROVE MonthSound(p)'
  <2>1. MonthSound(p) /\ Here(p) \in SUBSET granted /\ Due(p) \in SUBSET granted /\ Due(p) \in SUBSET Here(p)
    BY DEF MonthsInv, Here, Due
  <2>2. CASE p # q
    <3>1. Here(p)' = Here(p) /\ Due(p)' = Due(p)
      BY <1>4, <1>6, <2>2 DEF Here, Due
    <3>2. usage'[p] = usage[p]
      BY <1>4, <1>8, <2>2 DEF MonthsInv
    <3> QED
      BY <2>1, <3>1, <3>2 DEF MonthSound
  <2>3. CASE p = q
    <3>1. Here(p)' = Here(p) \cup {new}
      BY <1>4, <1>6, <2>3 DEF Here
    <3>2. usage'[p] = usage[p] + amount /\ usage[p] \in Nat
      BY <1>4, <1>8, <2>3 DEF MonthsInv
    <3>3. usage'[p] = Limits!Total(Here(p)')
      <4>1. Limits!Total(Here(p) \cup {new}) = amount + Limits!Total(Here(p)) /\ Limits!Total(Here(p)) \in Nat
        BY <1>12, <2>1
      <4>2. Limits!Total(Here(p)') = Limits!Total(Here(p) \cup {new})
        BY <3>1
      <4>3. usage[p] = Limits!Total(Here(p))
        BY <2>1 DEF MonthSound
      <4> QED
        BY <1>2, <3>2, <4>1, <4>2, <4>3
    <3>4. ASSUME p # 0 PROVE Limits!Total(Due(p)') <= MonthlyLimit
      <4>1. CASE free
        <5>1. Due(p)' = Due(p)
          BY <1>6, <3>1, <4>1, <1>4 DEF Due, Here
        <5> QED
          BY <2>1, <3>4, <5>1 DEF MonthSound
      <4>2. CASE ~free
        <5>1. Due(p)' = Due(p) \cup {new}
          BY <1>6, <3>1, <4>2 DEF Due
        <5>2. Limits!Total(Due(p)') = amount + Limits!Total(Due(p))
          BY <1>12, <2>1, <5>1
        <5>3. Limits!Total(Due(p)) <= Limits!Total(Here(p)) /\ Limits!Total(Due(p)) \in Nat
          BY <1>12, <2>1, TotalGrows
        <5>4. Limits!Total(Here(p)) + amount <= MonthlyLimit /\ Limits!Total(Here(p)) \in Nat
          BY <1>9, <1>12, <2>1, <2>3, <4>2 DEF MonthSound
        <5> QED
          BY <1>2, <1>8, <5>2, <5>3, <5>4
      <4> QED
        BY <4>1, <4>2
    <3> QED
      BY <3>3, <3>4 DEF MonthSound
  <2> QED
    BY <2>2, <2>3
<1> QED
  BY <1>4, <1>10, <1>11, <1>13 DEF MonthsInv

LEMMA MonthsInit == Limits!LimitsOK /\ Limits!Init => MonthsInv
<1> SUFFICES ASSUME Limits!LimitsOK, Limits!Init PROVE MonthsInv
  OBVIOUS
<1>1. /\ plan = [status |-> "active", period |-> 1, until |-> Day, changes |-> 0] /\ free = FALSE
      /\ usage = [p \in 0..(MaxChanges + 1) |-> 0] /\ granted = {} /\ Day \in Nat /\ MaxChanges \in Nat
      /\ MonthlyLimit \in Nat
  BY DEF Limits!Init, Limits!LimitsOK
<1>2. Limits!Total({}) = 0
  BY FS_EmptySet, TotalStep
<1>3. ASSUME NEW p \in 0..(MaxChanges + 1) PROVE MonthSound(p)
  <2>1. Here(p) = {} /\ Due(p) = {} /\ usage[p] = 0
    BY <1>1 DEF Here, Due
  <2> QED
    BY <1>1, <1>2, <2>1 DEF MonthSound
<1>4. Amounts(granted)
  BY <1>1, FS_EmptySet DEF Amounts
<1>5. usage \in [0..(MaxChanges + 1) -> Nat] /\ free \in BOOLEAN
  BY <1>1
<1>6. /\ plan \in [status : {"active", "ended"}, period : Nat, until : Int, changes : Nat]
      /\ plan.changes <= MaxChanges /\ 1 <= plan.period /\ plan.period <= plan.changes + 1
  BY <1>1
<1> QED
  BY <1>3, <1>4, <1>5, <1>6 DEF MonthsInv

LEMMA MonthsStep ==
  ASSUME Limits!LimitsOK, LeasesInv, MonthsInv, [Limits!Next]_(Limits!requests) PROVE MonthsInv'
<1>1. CASE UNCHANGED Limits!requests
  BY <1>1, MonthsStay DEF Limits!requests
<1>2. ASSUME NEW c \in Callers, Limits!AcquireAILease(c) \/ Limits!AcquireWorkspaceAILease(c) PROVE MonthsInv'
  BY <1>2, MonthCharged DEF Limits!AcquireAILease, Limits!AcquireWorkspaceAILease
<1>3. ASSUME NEW c \in Callers,
             \/ Limits!GenerateWorkspaceImage(c) \/ Limits!Refuse(c) \/ Limits!Answered(c)
             \/ Limits!ReleaseAILease(c) \/ Limits!ReleaseWorkspaceAILease(c)
      PROVE  MonthsInv'
  <2>1. UNCHANGED <<plan, free, usage, granted>>
    BY <1>3 DEF Limits!GenerateWorkspaceImage, Limits!Refuse, Limits!Answered, Limits!ReleaseAILease,
                Limits!ReleaseWorkspaceAILease, Limits!Release
  <2> QED
    BY <2>1, MonthsStay
<1>4. CASE Limits!Crash \/ Limits!Tick
  <2>1. UNCHANGED <<plan, free, usage, granted>>
    BY <1>4 DEF Limits!Crash, Limits!Tick
  <2> QED
    BY <2>1, MonthsStay
<1>5. CASE Limits!PeriodPaid \/ Limits!ContractEnds \/ Limits!ComplimentaryAccess
  <2>1. UNCHANGED <<usage, granted>>
    BY <1>5 DEF Limits!PeriodPaid, Limits!ContractEnds, Limits!ComplimentaryAccess
  <2> QED
    BY <1>5, <2>1, MonthsStay
<1> QED
  <2>1. CASE \E c \in Callers :
               \/ Limits!GenerateWorkspaceImage(c) \/ Limits!AcquireAILease(c) \/ Limits!AcquireWorkspaceAILease(c)
               \/ Limits!Refuse(c) \/ Limits!Answered(c)
               \/ Limits!ReleaseAILease(c) \/ Limits!ReleaseWorkspaceAILease(c)
    BY <1>2, <1>3, <2>1, Zenon
  <2> QED
    BY <1>1, <1>4, <1>5, <2>1, Zenon DEF Limits!Next

\* Whatever is refused or lost, whichever contract follows: every request that was let through is charged to its
\* period, and those that somebody paid for cost no more than the period has.
THEOREM MonthsAreKept == Limits!LimitsOK /\ LimitsSpec => []Limits!MonthlyKept
<1> SUFFICES ASSUME Limits!LimitsOK PROVE LimitsSpec => []Limits!MonthlyKept
  OBVIOUS
<1>1. Limits!Init => MonthsInv
  BY MonthsInit
<1>2. LeasesInv /\ MonthsInv /\ [Limits!Next]_(Limits!requests) => MonthsInv'
  BY MonthsStep
<1>3. MonthsInv => Limits!MonthlyKept
  <2> SUFFICES ASSUME MonthsInv, NEW p \in DOMAIN usage
               PROVE  /\ usage[p] = Limits!Total({g \in granted : g.period = p})
                      /\ p # 0 => Limits!Total({g \in {h \in granted : h.period = p} : ~g.exempt}) <= MonthlyLimit
    BY DEF Limits!MonthlyKept
  <2>1. MonthSound(p)
    BY DEF MonthsInv
  <2> QED
    BY <2>1 DEF MonthSound, Here, Due
<1> QED
  BY <1>1, <1>2, <1>3, LeasesSound, PTL DEF LimitsSpec
----------------------------------------------------------------------------
(* Discovery: a repeated request makes one draft with one copy. *)
Drafts == INSTANCE Discovery
DraftsSpec == Drafts!Init /\ [][Drafts!Next]_(Drafts!discovery)

Items == {"none", "copied", "unavailable"}
TransferRow == [state : {"none", "working", "complete"}, generation : Nat, leased : BOOLEAN, item : Items]
CopyCall == [pc : {"idle", "claim", "fetch", "attach", "finish"}, generation : Nat, item : Items]
Copying(h) == caller[h].pc \in {"fetch", "attach", "finish"}

\* A call that may still copy under the current claim finds nothing copied; what a call reports as copied was.
CopySound(h) ==
  /\ Copying(h) => caller[h].generation <= transfer.generation /\ transfer.state # "none"
  /\ caller[h].pc \in {"fetch", "attach"} /\ caller[h].generation = transfer.generation => transfer.item = "none"
  /\ caller[h].pc = "finish" => caller[h].item # "none"
  /\ caller[h].pc = "finish" /\ caller[h].item = "copied" => made.copies = 1
TransferSound ==
  /\ made.posts = (IF transfer.state = "none" THEN 0 ELSE 1) /\ made.copies \in {0, 1}
  /\ transfer.item = "none" => made.copies = 0
  /\ transfer.item = "copied" => made.copies = 1
  /\ transfer.state = "none" => transfer.item = "none"
DraftsInv ==
  /\ transfer \in TransferRow /\ caller \in [Callers -> CopyCall] /\ made \in [posts : Nat, copies : Nat]
  /\ TransferSound
  /\ \A h \in Callers : CopySound(h)
  /\ \A g, h \in Callers : g # h /\ Copying(g) /\ Copying(h) => caller[g].generation # caller[h].generation

LEMMA IdleCopyIs == Drafts!Idle \in CopyCall /\ Drafts!Idle.pc = "idle"
BY DEF Drafts!Idle, CopyCall, Items

\* One call goes on under its own claim, and nothing else has changed.
LEMMA CopyGoesOn ==
  ASSUME DraftsInv, NEW h \in Callers, NEW r \in CopyCall, caller' = [caller EXCEPT ![h] = r],
         UNCHANGED <<transfer, made>>,
         \/ r.pc \in {"idle", "claim"}
         \/ /\ Copying(h) /\ r.generation = caller[h].generation
            /\ r.pc \in {"fetch", "attach"} => caller[h].pc \in {"fetch", "attach"}
            /\ r.pc = "finish" => r.item # "none" /\ (r.item = "copied" => made.copies = 1)
  PROVE  DraftsInv'
<1>1. caller' \in [Callers -> CopyCall] /\ caller'[h] = r /\ \A g \in Callers \ {h} : caller'[g] = caller[g]
  BY DEF DraftsInv
<1>2. CopySound(h)'
  BY <1>1 DEF DraftsInv, CopySound, Copying
<1>3. \A g \in Callers \ {h} : CopySound(g)'
  BY <1>1 DEF DraftsInv, CopySound, Copying
<1>4. Copying(h)' => Copying(h) /\ caller'[h].generation = caller[h].generation
  BY <1>1 DEF Copying
<1>5. ASSUME NEW f \in Callers, NEW g \in Callers, f # g, Copying(f)', Copying(g)'
      PROVE  caller'[f].generation # caller'[g].generation
  BY <1>1, <1>4, <1>5 DEF DraftsInv, Copying
<1> QED
  BY <1>1, <1>2, <1>3, <1>5 DEF DraftsInv, TransferSound

\* The request is accepted, or its claim taken over from a call whose lease ended.
LEMMA DraftClaimed ==
  ASSUME DraftsInv, NEW h \in Callers, Drafts!Accept(h) \/ Drafts!TakeOver(h)
  PROVE  DraftsInv'
<1> DEFINE n == transfer.generation + 1
           pc == IF transfer.item = "none" THEN "fetch" ELSE "finish"
           r == [pc |-> pc, generation |-> n, item |-> transfer.item]
<1>1. transfer \in TransferRow /\ made \in [posts : Nat, copies : Nat] /\ TransferSound
  BY DEF DraftsInv
<1>2. CASE Drafts!Accept(h)
  <2>1. /\ transfer.state = "none" /\ made' = [made EXCEPT !.posts = @ + 1]
        /\ transfer' = [transfer EXCEPT !.state = "working", !.generation = 1, !.leased = TRUE]
        /\ caller' = [caller EXCEPT ![h] = [pc |-> "fetch", generation |-> 1, item |-> "none"]]
    BY <1>2 DEF Drafts!Accept
  <2>2. /\ transfer' \in TransferRow /\ transfer'.state = "working" /\ transfer'.generation = 1 /\ transfer'.item = "none"
    BY <1>1, <2>1 DEF TransferRow, TransferSound
  <2>3. made' \in [posts : Nat, copies : Nat] /\ made'.posts = 1 /\ made'.copies = 0
    BY <1>1, <2>1 DEF TransferSound
  <2>4. [pc |-> "fetch", generation |-> 1, item |-> "none"] \in CopyCall
    BY DEF CopyCall, Items
  <2>5. /\ caller' \in [Callers -> CopyCall] /\ caller'[h] = [pc |-> "fetch", generation |-> 1, item |-> "none"]
        /\ \A g \in Callers \ {h} : caller'[g] = caller[g] /\ ~Copying(g)
    BY <2>1, <2>4 DEF DraftsInv, CopySound
  <2>6. \A g \in Callers : CopySound(g)'
    BY <2>2, <2>3, <2>5 DEF CopySound, Copying
  <2> QED
    BY <2>2, <2>3, <2>5, <2>6 DEF DraftsInv, TransferSound, Copying
<1>3. CASE Drafts!TakeOver(h)
  <2>1. /\ transfer.state = "working" /\ made' = made
        /\ transfer' = [transfer EXCEPT !.generation = n, !.leased = TRUE] /\ caller' = [caller EXCEPT ![h] = r]
    BY <1>3 DEF Drafts!TakeOver
  <2>2. n \in Nat /\ n > transfer.generation /\ transfer.item \in Items /\ transfer.generation \in Nat
    BY <1>1 DEF TransferRow
  <2>3. pc \in {"fetch", "finish"} /\ (pc = "fetch" <=> transfer.item = "none")
    OBVIOUS
  <2> HIDE DEF n, pc
  <2>4. /\ transfer' \in TransferRow /\ transfer'.state = "working" /\ transfer'.generation = n
        /\ transfer'.item = transfer.item
    BY <1>1, <2>1, <2>2 DEF TransferRow
  <2>5. r \in CopyCall /\ r.pc = pc /\ r.generation = n /\ r.item = transfer.item
    BY <2>2, <2>3 DEF CopyCall
  <2> HIDE DEF r
  <2>6. caller' \in [Callers -> CopyCall] /\ caller'[h] = r /\ \A g \in Callers \ {h} : caller'[g] = caller[g]
    BY <2>1, <2>5 DEF DraftsInv
  <2>7. CopySound(h)'
    BY <1>1, <2>1, <2>2, <2>3, <2>4, <2>5, <2>6 DEF CopySound, Copying, TransferSound
  <2>8. \A g \in Callers \ {h} : caller[g].generation \in Nat /\ (Copying(g) => caller[g].generation < n)
    BY <2>2 DEF DraftsInv, CopySound, CopyCall
  <2>9. \A g \in Callers \ {h} : CopySound(g)'
    <3> SUFFICES ASSUME NEW g \in Callers \ {h} PROVE CopySound(g)'
      OBVIOUS
    <3>1. Copying(g) => caller[g].generation < n /\ caller[g].generation <= n /\ caller[g].generation # n
      BY <2>2, <2>8
    <3> QED
      BY <2>1, <2>4, <2>6, <3>1 DEF CopySound, Copying, DraftsInv
  <2>10. ASSUME NEW f \in Callers, NEW g \in Callers, f # g, Copying(f)', Copying(g)'
         PROVE  caller'[f].generation # caller'[g].generation
    <3>1. CASE f # h /\ g # h
      BY <2>6, <2>10, <3>1 DEF DraftsInv, Copying
    <3>2. CASE f = h
      BY <2>2, <2>5, <2>6, <2>8, <2>10, <3>2 DEF Copying
    <3>3. CASE g = h
      BY <2>2, <2>5, <2>6, <2>8, <2>10, <3>3 DEF Copying
    <3> QED
      BY <3>1, <3>2, <3>3
  <2> QED
    BY <1>1, <2>1, <2>4, <2>6, <2>7, <2>9, <2>10 DEF DraftsInv, TransferSound
<1> QED
  BY <1>2, <1>3

LEMMA CopyGoes ==
  ASSUME DraftsInv, NEW h \in Callers, NEW pc \in {"claim", "attach", "finish"}, NEW item \in Items,
         Drafts!Go(h, pc, item)
  PROVE  \E r \in CopyCall : /\ caller' = [caller EXCEPT ![h] = r] /\ r.pc = pc /\ r.item = item
                             /\ r.generation = caller[h].generation
<1> DEFINE r == [caller[h] EXCEPT !.pc = pc, !.item = item]
<1>1. caller[h] \in CopyCall
  BY DEF DraftsInv
<1>2. r \in CopyCall /\ r.pc = pc /\ r.item = item /\ r.generation = caller[h].generation
  BY <1>1 DEF CopyCall
<1>3. caller' = [caller EXCEPT ![h] = r]
  BY DEF Drafts!Go
<1> QED
  BY <1>2, <1>3

LEMMA DraftCopied == ASSUME DraftsInv, NEW h \in Callers, Drafts!AddDiscoveryDraftAttachment(h) PROVE DraftsInv'
<1>1. transfer \in TransferRow /\ made \in [posts : Nat, copies : Nat] /\ TransferSound /\ CopySound(h)
  BY DEF DraftsInv
<1>2. PICK item \in Items : /\ Drafts!Go(h, "finish", item) /\ item # "none" /\ caller[h].pc = "attach"
                            /\ \/ item = "unavailable" /\ UNCHANGED <<transfer, made>>
                               \/ /\ transfer.state = "working" /\ transfer.generation = caller[h].generation
                                  /\ transfer' = [transfer EXCEPT !.item = "copied"] /\ made' = [made EXCEPT !.copies = @ + 1]
  BY DEF Drafts!AddDiscoveryDraftAttachment, Drafts!At, Drafts!CurrentGeneration, Items
<1>3. PICK r \in CopyCall : /\ caller' = [caller EXCEPT ![h] = r] /\ r.pc = "finish" /\ r.item = item
                            /\ r.generation = caller[h].generation
  BY <1>2, CopyGoes
<1>4. CASE UNCHANGED <<transfer, made>> /\ item = "unavailable"
  BY <1>2, <1>3, <1>4, CopyGoesOn DEF Copying
<1>5. CASE /\ transfer.state = "working" /\ transfer.generation = caller[h].generation
           /\ transfer' = [transfer EXCEPT !.item = "copied"] /\ made' = [made EXCEPT !.copies = @ + 1]
  <2>1. made.copies = 0
    BY <1>1, <1>2, <1>5 DEF CopySound, TransferSound
  <2>2. /\ transfer' \in TransferRow /\ transfer'.state = "working" /\ transfer'.generation = transfer.generation
        /\ transfer'.item = "copied"
    BY <1>1, <1>5 DEF TransferRow, Items
  <2>3. made' \in [posts : Nat, copies : Nat] /\ made'.posts = made.posts /\ made'.copies = 1
    BY <1>1, <1>5, <2>1
  <2>4. caller' \in [Callers -> CopyCall] /\ caller'[h] = r /\ \A g \in Callers \ {h} : caller'[g] = caller[g]
    BY <1>3 DEF DraftsInv
  <2>5. CopySound(h)'
    BY <1>1, <1>2, <1>3, <2>2, <2>3, <2>4 DEF CopySound, Copying
  <2>6. \A g \in Callers \ {h} : Copying(g) => caller[g].generation # transfer.generation
    BY <1>2, <1>5 DEF DraftsInv, Copying
  <2>7. \A g \in Callers \ {h} : CopySound(g)'
    BY <1>5, <2>2, <2>3, <2>4, <2>6 DEF DraftsInv, CopySound, Copying
  <2>8. ASSUME NEW f \in Callers, NEW g \in Callers, f # g, Copying(f)', Copying(g)'
        PROVE  caller'[f].generation # caller'[g].generation
    <3>1. \A k \in Callers : (Copying(k)' => Copying(k)) /\ caller'[k].generation = caller[k].generation
      BY <1>2, <1>3, <2>4 DEF Copying
    <3> QED
      BY <2>8, <3>1 DEF DraftsInv
  <2> QED
    BY <1>1, <1>5, <2>2, <2>3, <2>4, <2>5, <2>7, <2>8 DEF DraftsInv, TransferSound
<1> QED
  BY <1>2, <1>4, <1>5

LEMMA DraftFinished ==
  ASSUME DraftsInv, NEW h \in Callers, Drafts!FinishDiscoveryDraft(h)
  PROVE  DraftsInv' /\ (transfer.state = "complete" => transfer' = transfer)
<1>1. transfer \in TransferRow /\ TransferSound /\ CopySound(h) /\ caller[h] \in CopyCall
  BY DEF DraftsInv
<1>2. caller' = [caller EXCEPT ![h] = Drafts!Idle] /\ made' = made /\ caller[h].pc = "finish"
  BY DEF Drafts!FinishDiscoveryDraft, Drafts!End, Drafts!At
<1>3. CASE transfer' = transfer
  BY <1>2, <1>3, IdleCopyIs, CopyGoesOn
<1>4. CASE /\ transfer.state = "working" /\ transfer.generation = caller[h].generation
           /\ transfer' = [transfer EXCEPT !.state = "complete", !.item = caller[h].item]
  <2>1. /\ transfer' \in TransferRow /\ transfer'.state = "complete" /\ transfer'.generation = transfer.generation
        /\ transfer'.item = caller[h].item /\ transfer'.item # "none" /\ (transfer'.item = "copied" => made.copies = 1)
    BY <1>1, <1>2, <1>4 DEF TransferRow, CopyCall, CopySound
  <2>2. /\ caller' \in [Callers -> CopyCall] /\ caller'[h] = Drafts!Idle
        /\ \A g \in Callers \ {h} : caller'[g] = caller[g]
    BY <1>2, IdleCopyIs DEF DraftsInv
  <2>3. \A g \in Callers \ {h} : Copying(g) => caller[g].generation # transfer.generation
    BY <1>2, <1>4 DEF DraftsInv, Copying
  <2>4. \A g \in Callers : CopySound(g)'
    BY <1>2, <1>4, <2>1, <2>2, <2>3, IdleCopyIs DEF DraftsInv, CopySound, Copying
  <2>5. \A f, g \in Callers : f # g /\ Copying(f)' /\ Copying(g)' => caller'[f].generation # caller'[g].generation
    BY <2>2, IdleCopyIs DEF DraftsInv, Copying
  <2> QED
    BY <1>1, <1>2, <1>4, <2>1, <2>2, <2>4, <2>5 DEF DraftsInv, TransferSound
<1> QED
  BY <1>1, <1>3, <1>4 DEF Drafts!FinishDiscoveryDraft, Drafts!CurrentGeneration

LEMMA DraftsInit == Drafts!Init => DraftsInv
<1> SUFFICES ASSUME Drafts!Init PROVE DraftsInv
  OBVIOUS
<1>1. caller \in [Callers -> CopyCall] /\ \A h \in Callers : caller[h].pc = "idle"
  BY IdleCopyIs DEF Drafts!Init
<1>2. transfer \in TransferRow /\ made \in [posts : Nat, copies : Nat] /\ TransferSound
  BY DEF Drafts!Init, TransferRow, Items, TransferSound
<1> QED
  BY <1>1, <1>2 DEF DraftsInv, CopySound, Copying

LEMMA DraftsStep ==
  ASSUME DraftsInv, [Drafts!Next]_(Drafts!discovery) PROVE DraftsInv' /\ [Drafts!AnswersStand]_(Drafts!discovery)
<1>1. ASSUME UNCHANGED <<transfer, made, caller>> PROVE DraftsInv' /\ Drafts!AnswersStand
  <2>1. DraftsInv'
    BY <1>1 DEF DraftsInv, TransferSound, CopySound, Copying
  <2>2. transfer' = [transfer EXCEPT !.leased = transfer'.leased] /\ ~(made'.copies > made.copies)
    BY <1>1 DEF DraftsInv, TransferRow, TransferSound
  <2> QED
    BY <2>1, <2>2 DEF Drafts!AnswersStand
<1>2. CASE UNCHANGED Drafts!discovery
  BY <1>1, <1>2 DEF Drafts!discovery
<1>3. CASE Drafts!SaveDiscoveryCandidates \/ Drafts!CardExpires \/ Drafts!MemberChangesDraft
  BY <1>1, <1>3 DEF Drafts!SaveDiscoveryCandidates, Drafts!CardExpires, Drafts!MemberChangesDraft
<1>4. CASE Drafts!LeaseEnds
  <2>1. transfer' = [transfer EXCEPT !.leased = FALSE] /\ made' = made /\ caller' = caller
    BY <1>4 DEF Drafts!LeaseEnds
  <2>2. /\ transfer' \in TransferRow /\ transfer'.state = transfer.state /\ transfer'.generation = transfer.generation
        /\ transfer'.item = transfer.item /\ transfer'.leased = FALSE
    BY <2>1 DEF DraftsInv, TransferRow
  <2>3. DraftsInv'
    BY <2>1, <2>2 DEF DraftsInv, TransferSound, CopySound, Copying
  <2>4. ~(made'.copies > made.copies)
    BY <2>1 DEF DraftsInv, TransferSound
  <2> QED
    BY <2>1, <2>2, <2>3, <2>4 DEF Drafts!AnswersStand
<1>5. ASSUME transfer' = transfer, made' = made PROVE Drafts!AnswersStand
  <2>1. transfer' = [transfer EXCEPT !.leased = transfer'.leased] /\ ~(made'.copies > made.copies)
    BY <1>5 DEF DraftsInv, TransferRow, TransferSound
  <2> QED
    BY <2>1 DEF Drafts!AnswersStand
<1>6. ASSUME NEW h \in Callers, Drafts!GetDiscoveryCandidate(h) PROVE DraftsInv' /\ Drafts!AnswersStand
  <2>1. Drafts!Go(h, "claim", "none") /\ UNCHANGED <<transfer, made>>
    BY <1>6 DEF Drafts!GetDiscoveryCandidate
  <2>2. PICK r \in CopyCall : caller' = [caller EXCEPT ![h] = r] /\ r.pc = "claim"
    BY <2>1, CopyGoes DEF Items
  <2> QED
    BY <1>5, <2>1, <2>2, CopyGoesOn
<1>7. ASSUME NEW h \in Callers, Drafts!ClaimDiscoveryDraft(h) PROVE DraftsInv' /\ Drafts!AnswersStand
  <2>1. CASE Drafts!Accept(h) \/ Drafts!TakeOver(h)
    <3>1. transfer.state # "complete" /\ ~(made'.copies > made.copies)
      BY <2>1 DEF Drafts!Accept, Drafts!TakeOver, DraftsInv, TransferSound
    <3> QED
      BY <2>1, <3>1, DraftClaimed DEF Drafts!AnswersStand
  <2>2. CASE Drafts!Answered(h)
    <3>1. caller' = [caller EXCEPT ![h] = Drafts!Idle] /\ UNCHANGED <<transfer, made>>
      BY <2>2 DEF Drafts!Answered, Drafts!End
    <3> QED
      BY <1>5, <3>1, IdleCopyIs, CopyGoesOn
  <2> QED
    BY <1>7, <2>1, <2>2 DEF Drafts!ClaimDiscoveryDraft
<1>8. ASSUME NEW h \in Callers, Drafts!CopyDiscoveryMedia(h) PROVE DraftsInv' /\ Drafts!AnswersStand
  <2>1. UNCHANGED <<transfer, made>> /\ caller[h].pc = "fetch"
    BY <1>8 DEF Drafts!CopyDiscoveryMedia, Drafts!At
  <2>2. \/ \E r \in CopyCall : caller' = [caller EXCEPT ![h] = r] /\ r.pc = "attach" /\ r.generation = caller[h].generation
        \/ \E r \in CopyCall : /\ caller' = [caller EXCEPT ![h] = r] /\ r.pc = "finish" /\ r.item = "unavailable"
                               /\ r.generation = caller[h].generation
    BY <1>8, CopyGoes DEF Drafts!CopyDiscoveryMedia, Items
  <2> QED
    BY <1>5, <2>1, <2>2, CopyGoesOn DEF Copying
<1>9. ASSUME NEW h \in Callers, Drafts!AddDiscoveryDraftAttachment(h) PROVE DraftsInv' /\ Drafts!AnswersStand
  <2>1. \/ UNCHANGED <<transfer, made>>
        \/ draft.status = "draft" /\ ~draft.changed /\ transfer.state = "working"
    BY <1>9 DEF Drafts!AddDiscoveryDraftAttachment, Drafts!CurrentGeneration
  <2>2. draft.status = "draft" /\ ~draft.changed /\ transfer.state = "working" => Drafts!AnswersStand
    BY DEF Drafts!AnswersStand
  <2> QED
    BY <1>5, <1>9, <2>1, <2>2, DraftCopied
<1>10. ASSUME NEW h \in Callers, Drafts!FinishDiscoveryDraft(h) PROVE DraftsInv' /\ Drafts!AnswersStand
  <2>1. made' = made /\ ~(made'.copies > made.copies)
    BY <1>10 DEF Drafts!FinishDiscoveryDraft, DraftsInv, TransferSound
  <2>2. transfer' = transfer => transfer' = [transfer EXCEPT !.leased = transfer'.leased]
    BY DEF DraftsInv, TransferRow
  <2> QED
    BY <1>10, <2>1, <2>2, DraftFinished DEF Drafts!AnswersStand
<1>11. ASSUME NEW h \in Callers, Drafts!CallerStops(h) PROVE DraftsInv' /\ Drafts!AnswersStand
  <2>1. caller' = [caller EXCEPT ![h] = Drafts!Idle] /\ UNCHANGED <<transfer, made>>
    BY <1>11 DEF Drafts!CallerStops, Drafts!End
  <2> QED
    BY <1>5, <2>1, IdleCopyIs, CopyGoesOn
<1> QED
  BY <1>2, <1>3, <1>4, <1>6, <1>7, <1>8, <1>9, <1>10, <1>11, <1>1 DEF Drafts!Next

\* The inductive invariant of a draft made from a card: of the calls of a request only the one with the current claim
\* may still copy, and it finds nothing copied.
THEOREM DraftsSound == DraftsSpec => []DraftsInv
<1>1. Drafts!Init => DraftsInv
  BY DraftsInit
<1>2. DraftsInv /\ [Drafts!Next]_(Drafts!discovery) => DraftsInv'
  BY DraftsStep
<1> QED
  BY <1>1, <1>2, PTL DEF DraftsSpec

\* However often a request is repeated or its claim taken over there is one draft with one copy at most, and a copy is
\* reported only if it was made.
THEOREM DraftIsMadeOnce == DraftsSpec => []Drafts!DraftOnce
<1>1. DraftsInv => Drafts!DraftOnce
  BY DEF DraftsInv, TransferSound, Drafts!DraftOnce
<1> QED
  BY <1>1, DraftsSound, PTL

\* A copy never reaches a draft somebody changed, and a request that was answered is not answered otherwise.
THEOREM AnswersAreKept == DraftsSpec => [][Drafts!AnswersStand]_(Drafts!discovery)
<1>1. DraftsInv /\ [Drafts!Next]_(Drafts!discovery) => [Drafts!AnswersStand]_(Drafts!discovery)
  BY DraftsStep
<1> QED
  BY <1>1, DraftsSound, PTL DEF DraftsSpec
----------------------------------------------------------------------------
(* Analysis: a snapshot is analysed by one visitor at a time. *)
Analyses == INSTANCE Analysis
AnalysesSpec == Analyses!Init /\ [][Analyses!Next]_(Analyses!analysis)

Statuses == {"none", "ready", "partial"}
Request == [pc : {"idle", "claim", "analyze", "recheck", "complete"}, key : Nat, stamp : Nat, claim : Nat, until : Nat,
            status : Statuses]
EntryRow == [key : Nat, claim : Nat, until : Nat, expires : Nat, status : Statuses, about : Nat]
Claimed(v) == visitor[v].pc \in {"analyze", "recheck", "complete"}

\* Who analyses still holds the row for longer than he works, or another snapshot displaced him.
VisitorSound(v) ==
  LET r == visitor[v] IN
  /\ r.pc = "claim" => r.stamp <= moment /\ moment <= r.stamp + MaxWait
  /\ Claimed(v) => r.claim # 0 /\ r.claim <= Cardinality(paid)
  /\ r.pc = "analyze" => moment <= r.until
  /\ r.pc = "analyze" /\ r.claim \notin displaced => entry.claim = r.claim /\ entry.key = r.key /\ r.until < entry.until
AnalysesInv ==
  /\ moment \in Nat /\ media \in Nat /\ entry \in EntryRow /\ visitor \in [Visitors -> Request]
  /\ IsFiniteSet(paid) /\ \A c \in paid : c.id \in Nat /\ c.id <= Cardinality(paid)
  /\ entry.claim <= Cardinality(paid)
  /\ \A v \in Visitors : VisitorSound(v)
  /\ \A v, w \in Visitors : v # w /\ Claimed(v) /\ Claimed(w) => visitor[v].claim # visitor[w].claim
  /\ entry.status # "none" => entry.about = entry.key

LEMMA AnalysesCount == ASSUME NEW S PROVE Analyses!Cardinality(S) = Cardinality(S)
BY DEF Analyses!Cardinality, Cardinality

LEMMA IdleVisitorIs == Analyses!Idle \in Request /\ Analyses!Idle.pc = "idle"
BY DEF Analyses!Idle, Request, Statuses, Analyses!None

\* A request that claimed nothing anew goes on: it does not begin to analyse.
LEMMA RequestGoesOn ==
  ASSUME AnalysesInv, NEW v \in Visitors, NEW r \in Request, visitor' = [visitor EXCEPT ![v] = r],
         UNCHANGED <<moment, media, entry, paid, displaced>>,
         \/ r.pc = "idle"
         \/ r.pc = "claim" /\ r.stamp <= moment /\ moment <= r.stamp + MaxWait
         \/ r.pc \in {"recheck", "complete"} /\ Claimed(v) /\ r.claim = visitor[v].claim
  PROVE  AnalysesInv'
<1>1. visitor' \in [Visitors -> Request] /\ visitor'[v] = r /\ \A w \in Visitors \ {v} : visitor'[w] = visitor[w]
  BY DEF AnalysesInv
<1>2. VisitorSound(v)'
  BY <1>1 DEF AnalysesInv, VisitorSound, Claimed
<1>3. \A w \in Visitors \ {v} : VisitorSound(w)'
  BY <1>1 DEF AnalysesInv, VisitorSound, Claimed
<1>4. Claimed(v)' => Claimed(v) /\ visitor'[v].claim = visitor[v].claim
  BY <1>1 DEF Claimed
<1>5. \A u, w \in Visitors : u # w /\ Claimed(u)' /\ Claimed(w)' => visitor'[u].claim # visitor'[w].claim
  BY <1>1, <1>4 DEF AnalysesInv, Claimed
<1> QED
  BY <1>1, <1>2, <1>3, <1>5 DEF AnalysesInv

\* The new claim is the only one, and whoever worked under the old one works for another snapshot.
LEMMA ClaimKept == ASSUME Analyses!AnalysesOK, AnalysesInv, NEW v \in Visitors, Analyses!ClaimContentAnalysis(v) PROVE AnalysesInv'
<1> DEFINE k == visitor[v].key
           t == visitor[v].stamp
           id == Cardinality(paid) + 1
           row == [Analyses!Empty EXCEPT !.key = k, !.claim = id, !.until = t + ClaimLife, !.expires = t]
           r == [visitor[v] EXCEPT !.pc = "analyze", !.claim = id, !.until = moment + Timeout]
<1>1. visitor[v] \in Request /\ visitor[v].pc = "claim" /\ UNCHANGED <<moment, media>> /\ moment \in Nat /\ VisitorSound(v)
  BY DEF Analyses!ClaimContentAnalysis, Analyses!At, AnalysesInv
<1>2. CASE v \notin allowed \/ Analyses!Saved(k, t) \/ Analyses!UnderWay(k, t)
  <2>1. visitor' = [visitor EXCEPT ![v] = Analyses!Idle] /\ UNCHANGED <<entry, paid, displaced>>
    BY <1>2 DEF Analyses!ClaimContentAnalysis, Analyses!Go
  <2> QED
    BY <1>1, <2>1, IdleVisitorIs, RequestGoesOn
<1>3. CASE ~(v \notin allowed \/ Analyses!Saved(k, t) \/ Analyses!UnderWay(k, t))
  <2>1. /\ entry' = row /\ paid' = paid \cup {[id |-> id, key |-> k]} /\ visitor' = [visitor EXCEPT ![v] = r]
        /\ displaced' = (IF entry.key # k THEN displaced \cup {entry.claim} ELSE displaced)
        /\ ~Analyses!UnderWay(k, t)
    BY <1>3, AnalysesCount DEF Analyses!ClaimContentAnalysis, Analyses!Go
  <2>2. /\ k \in Nat /\ t \in Nat /\ t <= moment /\ moment <= t + MaxWait /\ Cardinality(paid) \in Nat
    BY <1>1, FS_CardinalityType DEF Request, VisitorSound, AnalysesInv
  <2>3. /\ id \in Nat /\ id # 0 /\ id > Cardinality(paid) /\ moment + Timeout \in Nat /\ t + ClaimLife \in Nat
        /\ moment + Timeout < t + ClaimLife
    BY <1>1, <2>2 DEF Analyses!AnalysesOK
  <2>4. /\ row \in EntryRow /\ row.claim = id /\ row.key = k /\ row.until = t + ClaimLife /\ row.status = "none"
    BY <2>2, <2>3 DEF EntryRow, Statuses, Analyses!Empty, Analyses!None
  <2>5. r \in Request /\ r.pc = "analyze" /\ r.claim = id /\ r.until = moment + Timeout /\ r.key = k
    BY <1>1, <2>3 DEF Request
  <2>6. [id |-> id, key |-> k] \notin paid
    BY <2>2, <2>3 DEF AnalysesInv
  <2>7. IsFiniteSet(paid') /\ Cardinality(paid') = id /\ \A c \in paid' : c.id \in Nat /\ c.id <= id
    <3>1. IsFiniteSet(paid') /\ Cardinality(paid') = id
      BY <2>1, <2>6, FS_AddElement DEF AnalysesInv
    <3>2. \A c \in paid' : c \in paid \/ c.id = id
      BY <2>1
    <3>3. \A c \in paid : c.id \in Nat /\ c.id <= id
      BY <2>2, <2>3 DEF AnalysesInv
    <3> QED
      BY <2>3, <3>1, <3>2, <3>3
  <2>8. \A w \in Visitors \ {v} : Claimed(w) => visitor[w].claim \in Nat /\ visitor[w].claim < id
    BY <2>2, <2>3 DEF AnalysesInv, VisitorSound, Request
  <2>9. ASSUME NEW w \in Visitors \ {v}, visitor[w].pc = "analyze" PROVE visitor[w].claim \in displaced'
    <3>1. CASE visitor[w].claim \in displaced
      BY <2>1, <3>1
    <3>2. CASE visitor[w].claim \notin displaced
      <4>1. /\ entry.claim = visitor[w].claim /\ visitor[w].until < entry.until /\ moment <= visitor[w].until
            /\ visitor[w].claim # 0 /\ visitor[w].until \in Nat /\ entry.until \in Nat
        BY <2>9, <3>2 DEF AnalysesInv, VisitorSound, Claimed, Request, EntryRow
      <4>2. entry.until > t /\ entry.claim # 0
        BY <1>1, <2>2, <4>1
      <4>3. entry.key # k
        BY <2>1, <4>2 DEF Analyses!UnderWay, Analyses!None
      <4> QED
        BY <2>1, <4>1, <4>3
    <3> QED
      BY <3>1, <3>2
  <2> HIDE DEF id, row, r, k, t
  <2>10. visitor' \in [Visitors -> Request] /\ visitor'[v] = r /\ \A w \in Visitors \ {v} : visitor'[w] = visitor[w]
    BY <2>1, <2>5 DEF AnalysesInv
  <2>11. VisitorSound(v)'
    <3>1. entry'.claim = r.claim /\ entry'.key = r.key /\ r.until < entry'.until
      BY <2>1, <2>3, <2>4, <2>5
    <3>2. r.claim # 0 /\ r.claim <= Cardinality(paid') /\ moment' <= r.until
      BY <1>1, <2>3, <2>5, <2>7 DEF Analyses!AnalysesOK
    <3> QED
      BY <2>5, <2>10, <3>1, <3>2 DEF VisitorSound
  <2>12. ASSUME NEW w \in Visitors \ {v} PROVE VisitorSound(w)'
    <3>1. Claimed(w) => visitor[w].claim # 0 /\ visitor[w].claim <= Cardinality(paid')
      BY <2>3, <2>7, <2>8 DEF AnalysesInv, VisitorSound
    <3> QED
      BY <1>1, <2>9, <2>10, <3>1 DEF AnalysesInv, VisitorSound, Claimed
  <2>13. ASSUME NEW u \in Visitors, NEW w \in Visitors, u # w, Claimed(u)', Claimed(w)'
         PROVE  visitor'[u].claim # visitor'[w].claim
    <3>1. \A x \in Visitors \ {v} : Claimed(x)' => visitor'[x].claim \in Nat /\ visitor'[x].claim < id
      BY <2>8, <2>10 DEF Claimed
    <3>2. CASE u # v /\ w # v
      BY <2>10, <2>13, <3>2 DEF AnalysesInv, Claimed
    <3>3. CASE u = v \/ w = v
      BY <2>3, <2>5, <2>10, <2>13, <3>1, <3>3
    <3> QED
      BY <3>2, <3>3
  <2>14. entry'.claim <= Cardinality(paid') /\ entry'.status = "none" /\ entry' \in EntryRow
    BY <2>1, <2>3, <2>4, <2>7
  <2>15. \A x \in Visitors : VisitorSound(x)'
    BY <2>11, <2>12
  <2>16. \A c \in paid' : c.id \in Nat /\ c.id <= Cardinality(paid')
    BY <2>7
  <2> QED
    BY <1>1, <2>7, <2>10, <2>13, <2>14, <2>15, <2>16 DEF AnalysesInv
<1> QED
  BY <1>2, <1>3

\* The row is filled by the owner of its claim, who analyses no longer.
LEMMA CompleteKept == ASSUME Analyses!AnalysesOK, AnalysesInv, NEW v \in Visitors, Analyses!CompleteContentAnalysis(v) PROVE AnalysesInv'
<1>1. /\ visitor' = [visitor EXCEPT ![v] = Analyses!Idle] /\ UNCHANGED <<moment, media, paid, displaced>>
      /\ visitor[v] \in Request /\ visitor[v].pc = "complete" /\ moment \in Nat /\ entry \in EntryRow
  BY DEF Analyses!CompleteContentAnalysis, Analyses!Go, Analyses!At, AnalysesInv
<1>2. CASE entry' = entry
  BY <1>1, <1>2, IdleVisitorIs, RequestGoesOn
<1>3. CASE /\ Analyses!Owns(v)
           /\ entry' = [entry EXCEPT !.status = visitor[v].status, !.about = visitor[v].key,
                                     !.expires = visitor[v].until, !.until = moment]
  <2>1. /\ entry' \in EntryRow /\ entry'.claim = entry.claim /\ entry'.key = entry.key
        /\ entry'.about = visitor[v].key /\ entry.key = visitor[v].key /\ entry.claim = visitor[v].claim
    BY <1>1, <1>3 DEF EntryRow, Request, Analyses!Owns
  <2>2. visitor' \in [Visitors -> Request] /\ visitor'[v] = Analyses!Idle
        /\ \A w \in Visitors \ {v} : visitor'[w] = visitor[w]
    BY <1>1, IdleVisitorIs DEF AnalysesInv
  <2>3. \A w \in Visitors \ {v} : Claimed(w) => visitor[w].claim # entry.claim
    BY <1>1, <2>1 DEF AnalysesInv, Claimed
  <2>4. \A w \in Visitors : VisitorSound(w)'
    BY <1>1, <2>2, <2>3, IdleVisitorIs DEF AnalysesInv, VisitorSound, Claimed
  <2>5. \A u, w \in Visitors : u # w /\ Claimed(u)' /\ Claimed(w)' => visitor'[u].claim # visitor'[w].claim
    BY <2>2, IdleVisitorIs DEF AnalysesInv, Claimed
  <2>6. entry'.claim <= Cardinality(paid') /\ entry'.about = entry'.key
    BY <1>1, <2>1 DEF AnalysesInv
  <2> QED
    BY <1>1, <2>1, <2>2, <2>4, <2>5, <2>6 DEF AnalysesInv
<1> QED
  BY <1>2, <1>3 DEF Analyses!CompleteContentAnalysis

LEMMA AnalysesInit == Analyses!AnalysesOK /\ Analyses!Init => AnalysesInv
<1> SUFFICES ASSUME Analyses!AnalysesOK, Analyses!Init PROVE AnalysesInv
  OBVIOUS
<1>1. visitor \in [Visitors -> Request] /\ \A v \in Visitors : visitor[v].pc = "idle"
  BY IdleVisitorIs DEF Analyses!Init
<1>2. /\ entry \in EntryRow /\ entry.claim = 0 /\ entry.status = "none" /\ moment = 0 /\ media = 1
  BY DEF Analyses!Init, Analyses!Empty, Analyses!None, EntryRow, Statuses
<1>3. IsFiniteSet(paid) /\ Cardinality(paid) = 0 /\ paid = {}
  BY FS_EmptySet DEF Analyses!Init
<1> QED
  BY <1>1, <1>2, <1>3 DEF AnalysesInv, VisitorSound, Claimed

LEMMA AnalysesStep == ASSUME Analyses!AnalysesOK, AnalysesInv, [Analyses!Next]_(Analyses!analysis) PROVE AnalysesInv'
<1>1. ASSUME UNCHANGED <<moment, entry, visitor, paid, displaced>>, media' \in Nat PROVE AnalysesInv'
  BY <1>1 DEF AnalysesInv, VisitorSound, Claimed
<1>2. CASE UNCHANGED Analyses!analysis
  BY <1>1, <1>2 DEF Analyses!analysis, AnalysesInv
<1>3. ASSUME NEW v \in Visitors, Analyses!MemberLeaves(v) PROVE AnalysesInv'
  BY <1>1, <1>3 DEF Analyses!MemberLeaves, AnalysesInv
<1>4. CASE Analyses!MediaChanges
  <2>1. media' = media + 1 /\ UNCHANGED <<moment, entry, visitor, paid, displaced>>
    BY <1>4 DEF Analyses!MediaChanges
  <2> QED
    BY <1>1, <2>1 DEF AnalysesInv
<1>5. CASE Analyses!Tick
  <2>1. /\ moment' = moment + 1 /\ UNCHANGED <<media, entry, visitor, paid, displaced>> /\ moment \in Nat
        /\ \A v \in Visitors : /\ visitor[v].pc = "claim" => moment < visitor[v].stamp + MaxWait
                               /\ visitor[v].pc = "analyze" => moment < visitor[v].until
    BY <1>5 DEF Analyses!Tick, Analyses!At, AnalysesInv
  <2>2. \A v \in Visitors : visitor[v].stamp \in Nat /\ visitor[v].until \in Nat
    BY DEF AnalysesInv, Request
  <2>3. \A v \in Visitors : VisitorSound(v)'
    BY <2>1, <2>2 DEF AnalysesInv, VisitorSound, Claimed, Analyses!AnalysesOK
  <2> QED
    BY <2>1, <2>3 DEF AnalysesInv, Claimed
<1>6. ASSUME NEW v \in Visitors, Analyses!ListContentAnalysisPosts(v) PROVE AnalysesInv'
  <2> DEFINE r == [Analyses!Idle EXCEPT !.pc = "claim", !.key = media, !.stamp = moment]
  <2>1. visitor' = [visitor EXCEPT ![v] = r] /\ UNCHANGED <<moment, media, entry, paid, displaced>>
    BY <1>6 DEF Analyses!ListContentAnalysisPosts, Analyses!Go
  <2>2. r \in Request /\ r.pc = "claim" /\ r.stamp = moment /\ moment \in Nat
    BY DEF AnalysesInv, Request, Analyses!Idle, Analyses!None, Statuses
  <2> HIDE DEF r
  <2>3. r.stamp <= moment /\ moment <= r.stamp + MaxWait
    BY <2>2 DEF Analyses!AnalysesOK
  <2> QED
    BY <2>1, <2>2, <2>3, RequestGoesOn
<1>7. ASSUME NEW v \in Visitors, Analyses!AnalyzeChannelContent(v) PROVE AnalysesInv'
  <2>1. PICK status \in {"ready", "partial"} :
          /\ visitor' = [visitor EXCEPT ![v] = [visitor[v] EXCEPT !.pc = "recheck", !.status = status]]
          /\ visitor[v].pc = "analyze" /\ UNCHANGED <<moment, media, entry, paid, displaced>>
    BY <1>7 DEF Analyses!AnalyzeChannelContent, Analyses!Go, Analyses!At, Analyses!Outcomes
  <2> DEFINE r == [visitor[v] EXCEPT !.pc = "recheck", !.status = status]
  <2>2. r \in Request /\ r.pc = "recheck" /\ r.claim = visitor[v].claim
    BY DEF AnalysesInv, Request, Statuses
  <2> HIDE DEF r
  <2>3. visitor' = [visitor EXCEPT ![v] = r]
    BY <2>1 DEF r
  <2> QED
    BY <2>1, <2>2, <2>3, RequestGoesOn DEF Claimed
<1>8. ASSUME NEW v \in Visitors, Analyses!Recheck(v) PROVE AnalysesInv'
  <2> DEFINE until == moment + (IF visitor[v].status = "ready" THEN ReadyLife ELSE PartLife)
             r == [visitor[v] EXCEPT !.pc = "complete", !.until = until]
  <2>1. /\ visitor[v].pc = "recheck" /\ UNCHANGED <<moment, media, entry, paid, displaced>>
        /\ \/ visitor' = [visitor EXCEPT ![v] = Analyses!Idle]
           \/ visitor' = [visitor EXCEPT ![v] = r]
    BY <1>8 DEF Analyses!Recheck, Analyses!Go, Analyses!At
  <2>2. until \in Nat
    BY DEF AnalysesInv, Analyses!AnalysesOK
  <2> HIDE DEF until
  <2>3. r \in Request /\ r.pc = "complete" /\ r.claim = visitor[v].claim
    BY <2>2 DEF AnalysesInv, Request
  <2> HIDE DEF r
  <2> QED
    BY <2>1, <2>3, IdleVisitorIs, RequestGoesOn DEF Claimed
<1>9. ASSUME NEW v \in Visitors, Analyses!RequestEnds(v) PROVE AnalysesInv'
  BY <1>9, IdleVisitorIs, RequestGoesOn DEF Analyses!RequestEnds, Analyses!Go
<1> QED
  BY <1>2, <1>3, <1>4, <1>5, <1>6, <1>7, <1>8, <1>9, ClaimKept, CompleteKept DEF Analyses!Next

\* The inductive invariant of the analysis of a channel: who analyses holds the row for longer than his work may take,
\* or another snapshot displaced him.
THEOREM AnalysesSound == Analyses!AnalysesOK /\ AnalysesSpec => []AnalysesInv
<1> SUFFICES ASSUME Analyses!AnalysesOK PROVE AnalysesSpec => []AnalysesInv
  OBVIOUS
<1>1. Analyses!Init => AnalysesInv
  BY AnalysesInit
<1>2. AnalysesInv /\ [Analyses!Next]_(Analyses!analysis) => AnalysesInv'
  BY AnalysesStep
<1> QED
  BY <1>1, <1>2, PTL DEF AnalysesSpec

\* However requests overlap, the same snapshot is analysed by one visitor at a time unless another snapshot displaced
\* his claim, and the answer of a row is about the snapshot of the row.
THEOREM SnapshotsArePaidOnce == Analyses!AnalysesOK /\ AnalysesSpec => [](Analyses!PaidOnce /\ Analyses!AnswerMatches)
<1> SUFFICES ASSUME Analyses!AnalysesOK PROVE AnalysesSpec => [](Analyses!PaidOnce /\ Analyses!AnswerMatches)
  OBVIOUS
<1>1. AnalysesInv => Analyses!PaidOnce
  BY DEF AnalysesInv, VisitorSound, Claimed, Analyses!PaidOnce, Analyses!At
<1>2. AnalysesInv => Analyses!AnswerMatches
  BY DEF AnalysesInv, Analyses!AnswerMatches
<1> QED
  BY <1>1, <1>2, AnalysesSound, PTL
----------------------------------------------------------------------------
(* Campaigns: variants become one post each, and locks are taken in order. *)
Plans == INSTANCE Campaigns
PlansSpec == Plans!Init /\ [][Plans!Next]_(Plans!campaigns)

\* Bounded numbers cannot each be followed by a greater one.
LEMMA NoAscent == ASSUME NEW b \in Nat, NEW S, S \subseteq 0..b, \A v \in S : \E w \in S : v < w PROVE S = {}
<1> SUFFICES ASSUME S # {} PROVE FALSE
  OBVIOUS
<1> DEFINE T == {n \in Nat : \E v \in S : n = b - v}
<1>1. T # {}
  <2>1. PICK v \in S : v \in 0..b
    OBVIOUS
  <2>2. b - v \in Nat
    BY <2>1
  <2> QED
    BY <2>1, <2>2
<1>2. PICK m \in T : \A n \in T : m <= n
  BY <1>1, LeastOf
<1>3. PICK v \in S : m = b - v
  BY <1>2
<1>4. PICK w \in S : v < w
  BY <1>3
<1>5. b - w \in T /\ ~(m <= b - w)
  BY <1>3, <1>4
<1> QED
  BY <1>2, <1>5

PlanRows == {"campaign", "variant", "post"} \X Nat
PlanCalls == {"plan", "update", "archive", "add", "edit", "delete"}
PlanOps == PlanCalls \cup Plans!PostCalls
PlanStates == {"idle", "posts", "campaign", "variant", "read", "commit", "variants", "top", "write"}
NextStatus == {"scheduled", "draft", "publishing", "published", "gone"}
PlanTxn == [op : PlanOps \cup {"none"}, pc : PlanStates, has : SUBSET PlanRows, on : SUBSET Nat, map : SUBSET (Nat \X Nat),
            expect : SUBSET (Nat \cup (Nat \X Nat)), to : NextStatus \cup {"none"}]
CampaignRow == [status : {"none", "live", "archived"}, stamp : Nat]
VariantRecord == [exists : BOOLEAN, post : 0..MaxPosts, stamp : Nat]
PostRecord == [status : NextStatus \cup {"none"}, of : Nat, revision : Nat, approved : SUBSET Nat, stamp : Nat]

\* What a transaction locked and where it is.  Calls of the plan begin with the campaign; those of posts lock the posts
\* from the lowest and the campaign at last.
TxnShape(r) ==
  /\ r \in PlanTxn
  /\ r.op = "none" => r.pc = "idle" /\ r.has = {}
  /\ r.op \in PlanCalls =>
       /\ r.pc \in {"campaign", "read", "commit", "variant"}
       /\ r.pc = "campaign" => r.has = {}
       /\ r.pc # "campaign" => Plans!TheCampaign \in r.has
       /\ r.op # "edit" => r.has \subseteq {Plans!TheCampaign} /\ r.pc # "variant"
       /\ r.op \in {"plan", "edit", "delete"} => r.on \subseteq Variants
  /\ r.op \in Plans!PostCalls =>
       /\ r.pc \in {"posts", "variants", "top", "write"} /\ r.on \subseteq Plans!Posts
       /\ r.to # "none" /\ (r.to = "scheduled" => r.op # "move")
       /\ r.pc # "write" => Plans!TheCampaign \notin r.has
       /\ r.pc = "posts" => \E p \in r.on : Plans!PostRow(p) \notin r.has
       /\ r.pc = "posts" => \A v \in Nat : Plans!VariantRow(v) \notin r.has
       /\ r.pc # "posts" => \A p \in r.on : Plans!PostRow(p) \in r.has
       /\ \A p \in Nat : Plans!PostRow(p) \in r.has => p \in r.on
       /\ \A p, q \in r.on : Plans!PostRow(p) \in r.has /\ Plans!PostRow(q) \notin r.has => p < q

\* What it read stays as long as it has the locks: the variants it is going to materialize have no post, the posts it is
\* going to schedule are approved, and of their variants it locked those with the lower numbers.
TxnFits(h) ==
  LET r == txn[h] IN
  /\ r.op \in PlanCalls /\ r.pc # "campaign" => campaign.status # "none"
  /\ r.op = "plan" /\ r.pc = "commit" => \A v \in r.on : variant[v].exists /\ variant[v].post = 0
  /\ r.op \in Plans!PostCalls =>
       \A p \in r.on : Plans!PostRow(p) \in r.has =>
         /\ Plans!IsPost(p) /\ (r.to = "scheduled" => Plans!Approved(p))
         /\ \A v \in Nat : Plans!VariantRow(v) \in r.has /\ Plans!VariantRow(post[p].of) \notin r.has => v < post[p].of

\* A variant names a post if and only if the post is one and was chosen for the variant.
CampaignSound ==
  /\ \A v \in Variants : /\ variant[v].exists \/ variant[v].post = 0
                         /\ variant[v].stamp = 0 => ~variant[v].exists
  /\ \A p \in Plans!Posts : /\ Plans!IsPost(p) => post[p].of \in Variants
                            /\ \A v \in Variants : variant[v].post = p <=> Plans!IsPost(p) /\ post[p].of = v
  /\ campaign.status = "none" => /\ \A v \in Variants : ~variant[v].exists
                                 /\ \A p \in Plans!Posts : post[p].status = "none"
  /\ campaign.status # "none" => \E v \in Variants : variant[v].exists
TablesOK ==
  /\ campaign \in CampaignRow /\ variant \in [Variants -> VariantRecord] /\ post \in [Plans!Posts -> PostRecord]
PlansInv ==
  /\ TablesOK /\ CampaignSound
  /\ txn \in [Callers -> PlanTxn]
  /\ \A h \in Callers : TxnShape(txn[h]) /\ TxnFits(h)
  /\ \A g, h \in Callers : g # h => txn[g].has \cap txn[h].has = {}

LEMMA RowsDiffer ==
  /\ Plans!TheCampaign \in PlanRows
  /\ \A p \in Nat : /\ Plans!PostRow(p) \in PlanRows /\ Plans!VariantRow(p) \in PlanRows
                    /\ Plans!PostRow(p) # Plans!TheCampaign /\ Plans!VariantRow(p) # Plans!TheCampaign
  /\ \A p, q \in Nat : /\ Plans!PostRow(p) # Plans!VariantRow(q)
                       /\ Plans!PostRow(p) = Plans!PostRow(q) => p = q
                       /\ Plans!VariantRow(p) = Plans!VariantRow(q) => p = q
BY DEF Plans!TheCampaign, Plans!PostRow, Plans!VariantRow, PlanRows

LEMMA VariantNumbers == ASSUME Plans!PlansOK PROVE \E n \in Nat : Variants = 1..n
<1>1. Plans!Cardinality(Variants) = Cardinality(Variants)
  BY DEF Plans!Cardinality, Cardinality
<1>2. IsFiniteSet(Variants)
  BY DEF Plans!PlansOK, Plans!IsFiniteSet, IsFiniteSet
<1> QED
  BY <1>1, <1>2, FS_CardinalityType DEF Plans!PlansOK

LEMMA PlanNumbers ==
  ASSUME Plans!PlansOK
  PROVE  /\ Plans!Posts \subseteq Nat \ {0} /\ 1 \in Plans!Posts /\ Variants \subseteq Nat \ {0}
         /\ \A n \in 0..MaxPosts : n # 0 => n \in Plans!Posts
<1>1. MaxPosts \in Nat \ {0}
  BY DEF Plans!PlansOK
<1>2. PICK n \in Nat : Variants = 1..n
  BY VariantNumbers
<1> QED
  BY <1>1, <1>2 DEF Plans!Posts

LEMMA LowestIs == ASSUME NEW S, S \subseteq Nat, S # {} PROVE Plans!Lowest(S) \in S /\ \A n \in S : Plans!Lowest(S) <= n
BY LeastOf DEF Plans!Lowest

LEMMA IdleTxnIs == TxnShape(Plans!Idle) /\ Plans!Idle.has = {} /\ Plans!Idle.op = "none"
<1>1. Plans!Idle \in PlanTxn
  BY DEF Plans!Idle, PlanTxn, PlanOps, PlanStates
<1> QED
  BY <1>1 DEF Plans!Idle, TxnShape, PlanCalls, Plans!PostCalls

\* One transaction locks, goes on or ends; nothing is written.
LEMMA TxnMoves ==
  ASSUME PlansInv, NEW h \in Callers, NEW r, txn' = [txn EXCEPT ![h] = r], UNCHANGED <<campaign, variant, post>>,
         TxnShape(r), TxnFits(h)', \A g \in Callers \ {h} : r.has \cap txn[g].has = {}
  PROVE  PlansInv'
<1>1. r \in PlanTxn
  BY DEF TxnShape
<1>2. txn' \in [Callers -> PlanTxn] /\ txn'[h] = r /\ \A g \in Callers \ {h} : txn'[g] = txn[g]
  BY <1>1 DEF PlansInv
<1>3. \A g \in Callers \ {h} : TxnFits(g)'
  BY <1>2 DEF PlansInv, TxnFits, Plans!IsPost, Plans!Approved
<1>4. \A g \in Callers : TxnShape(txn'[g])
  BY <1>2 DEF PlansInv
<1>5. \A f, g \in Callers : f # g => txn'[f].has \cap txn'[g].has = {}
  BY <1>2 DEF PlansInv
<1>6. TablesOK' /\ CampaignSound'
  BY DEF PlansInv, TablesOK, CampaignSound, Plans!IsPost
<1>7. TxnShape(txn[h])' /\ \A g \in Callers : TxnShape(txn[g])'
  BY <1>4 DEF TxnShape
<1> QED
  BY <1>2, <1>3, <1>5, <1>6, <1>7 DEF PlansInv

\* Rows are written, by a transaction that ends if by any; what the others hold locked is not touched.
LEMMA TxnWrites ==
  ASSUME PlansInv, TablesOK', CampaignSound', txn' \in [Callers -> PlanTxn],
         campaign.status # "none" => campaign'.status # "none",
         \A g \in Callers : txn'[g] = Plans!Idle \/
           /\ txn'[g] = txn[g]
           /\ txn[g].op = "plan" /\ txn[g].pc = "commit" =>
                \A v \in txn[g].on : variant'[v].exists = variant[v].exists /\ variant'[v].post = variant[v].post
           /\ \A p \in Plans!Posts : Plans!PostRow(p) \in txn[g].has /\ Plans!IsPost(p) =>
                post'[p].status = post[p].status /\ post'[p].of = post[p].of /\ (Plans!Approved(p) => Plans!Approved(p)')
  PROVE  PlansInv'
<1>1. ASSUME NEW g \in Callers PROVE TxnShape(txn'[g]) /\ TxnFits(g)'
  <2>1. CASE txn'[g] = Plans!Idle
    BY <2>1, IdleTxnIs DEF TxnFits, PlanCalls, Plans!PostCalls
  <2>2. CASE txn'[g] = txn[g] /\ txn'[g] # Plans!Idle
    <3>1. TxnShape(txn[g]) /\ TxnFits(g)
      BY DEF PlansInv
    <3>2. txn[g].op \in Plans!PostCalls => txn[g].on \subseteq Plans!Posts
      BY <3>1 DEF TxnShape
    <3>3. ASSUME txn[g].op \in Plans!PostCalls, NEW p \in txn[g].on, Plans!PostRow(p) \in txn[g].has
          PROVE  /\ Plans!IsPost(p)' /\ (txn[g].to = "scheduled" => Plans!Approved(p)') /\ post'[p].of = post[p].of
      <4>1. Plans!IsPost(p) /\ p \in Plans!Posts /\ (txn[g].to = "scheduled" => Plans!Approved(p))
        BY <3>1, <3>2, <3>3 DEF TxnFits
      <4> QED
        BY <2>2, <3>3, <4>1 DEF Plans!IsPost
    <3>4. txn[g].op = "plan" /\ txn[g].pc = "commit" => \A v \in txn[g].on : variant'[v].exists /\ variant'[v].post = 0
      BY <2>2, <3>1 DEF TxnFits
    <3>5. ASSUME txn[g].op \in Plans!PostCalls, NEW p \in txn[g].on, Plans!PostRow(p) \in txn[g].has, NEW v \in Nat,
                 Plans!VariantRow(v) \in txn[g].has, Plans!VariantRow(post'[p].of) \notin txn[g].has
          PROVE  v < post'[p].of
      BY <3>1, <3>3, <3>5 DEF TxnFits
    <3> HIDE DEF Plans!VariantRow, Plans!PostRow
    <3>6. TxnFits(g)'
      BY <2>2, <3>1, <3>3, <3>4, <3>5 DEF TxnFits
    <3> QED
      BY <2>2, <3>1, <3>6
  <2> QED
    BY <2>1, <2>2
<1>2. \A g \in Callers : TxnShape(txn[g])'
  BY <1>1 DEF TxnShape
<1>3. \A f, g \in Callers : f # g => txn'[f].has \cap txn'[g].has = {}
  BY IdleTxnIs DEF PlansInv
<1> QED
  BY <1>1, <1>2, <1>3 DEF PlansInv

LEMMA TxnLocks ==
  ASSUME PlansInv, NEW h \in Callers, NEW row \in PlanRows, NEW pc \in PlanStates, Plans!Lock(h, row, pc)
  PROVE  \E r \in PlanTxn : /\ txn' = [txn EXCEPT ![h] = r] /\ r.has = txn[h].has \cup {row} /\ r.pc = pc
                            /\ r.op = txn[h].op /\ r.on = txn[h].on /\ r.to = txn[h].to
<1> DEFINE r == [txn[h] EXCEPT !.has = @ \cup {row}, !.pc = pc]
<1>1. txn[h] \in PlanTxn
  BY DEF PlansInv
<1>2. /\ r \in PlanTxn /\ r.has = txn[h].has \cup {row} /\ r.pc = pc
      /\ r.op = txn[h].op /\ r.on = txn[h].on /\ r.to = txn[h].to
  BY <1>1 DEF PlanTxn
<1>3. txn' = [txn EXCEPT ![h] = r]
  BY DEF Plans!Lock
<1> QED
  BY <1>2, <1>3

LEMMA TxnEnds ==
  ASSUME PlansInv, NEW h \in Callers, Plans!End(h), UNCHANGED <<campaign, variant, post>> PROVE PlansInv'
<1>1. txn' = [txn EXCEPT ![h] = Plans!Idle] /\ Plans!Idle \in PlanTxn
  BY IdleTxnIs DEF Plans!End, TxnShape
<1>2. txn'[h] = Plans!Idle
  BY <1>1 DEF PlansInv
<1>3. TxnFits(h)'
  BY <1>2, IdleTxnIs DEF TxnFits, PlanCalls, Plans!PostCalls
<1> QED
  BY <1>1, <1>3, IdleTxnIs, TxnMoves

LEMMA TxnBegins ==
  ASSUME PlansInv, NEW h \in Callers, NEW t \in PlanTxn, Plans!BeginWith(h, t), UNCHANGED <<campaign, variant, post>>,
         t.has = {}, t.op \in PlanOps,
         t.op \in {"plan", "edit", "delete"} => t.on \subseteq Variants,
         t.op \in Plans!PostCalls => /\ t.on \subseteq Plans!Posts /\ t.on # {} /\ t.to # "none"
                                     /\ t.to = "scheduled" => t.op # "move"
  PROVE  PlansInv'
<1> DEFINE r == [t EXCEPT !.pc = Plans!FirstLock(t.op)]
<1>1. txn' = [txn EXCEPT ![h] = r]
  BY DEF Plans!BeginWith
<1>2. Plans!FirstLock(t.op) = (IF t.op \in Plans!PostCalls THEN "posts" ELSE "campaign")
  BY DEF Plans!FirstLock
<1>3. Plans!FirstLock(t.op) \in PlanStates
  BY <1>2 DEF PlanStates
<1>4. /\ r \in PlanTxn /\ r.op = t.op /\ r.on = t.on /\ r.to = t.to /\ r.has = {} /\ r.pc = Plans!FirstLock(t.op)
  BY <1>3 DEF PlanTxn
<1> HIDE DEF r
<1>5. t.op # "none" /\ (t.op \in Plans!PostCalls \/ t.op \in PlanCalls) /\ ~(t.op \in Plans!PostCalls /\ t.op \in PlanCalls)
  BY DEF PlanOps, Plans!PostCalls, PlanCalls
<1>6. TxnShape(r)
  BY <1>2, <1>4, <1>5 DEF TxnShape
<1>7. txn'[h] = r
  BY <1>1 DEF PlansInv
<1>8. TxnFits(h)'
  BY <1>2, <1>4, <1>5, <1>7 DEF TxnFits
<1> QED
  BY <1>1, <1>4, <1>6, <1>8, TxnMoves

LEMMA OpKinds == /\ \A op \in PlanCalls : op # "none" /\ op \notin Plans!PostCalls
                 /\ "none" \notin Plans!PostCalls /\ PlanOps = PlanCalls \cup Plans!PostCalls
BY DEF PlanOps, Plans!PostCalls, PlanCalls

LEMMA LockCampaignKept == ASSUME Plans!PlansOK, PlansInv, NEW h \in Callers, Plans!LockCampaign(h) PROVE PlansInv'
<1>1. /\ txn[h].pc = "campaign" /\ Plans!Free(h, Plans!TheCampaign) /\ UNCHANGED <<campaign, variant, post>>
      /\ TxnShape(txn[h]) /\ txn[h] \in PlanTxn
  BY DEF Plans!LockCampaign, PlansInv
<1>2. txn[h].op \in PlanCalls /\ txn[h].has = {}
  BY <1>1 DEF TxnShape, PlanTxn, PlanOps
<1> DEFINE pc == Plans!AfterCampaign(txn[h].op)
<1>3. CASE Plans!Live
  <2>1. Plans!Lock(h, Plans!TheCampaign, pc)
    BY <1>3 DEF Plans!LockCampaign
  <2>2. pc = (IF txn[h].op = "edit" THEN "variant" ELSE IF txn[h].op = "plan" THEN "read" ELSE "commit")
    BY <1>2 DEF Plans!AfterCampaign, PlanCalls, Plans!PostCalls
  <2>3. pc \in PlanStates
    BY <2>2 DEF PlanStates
  <2> HIDE DEF pc
  <2>4. PICK r \in PlanTxn : /\ txn' = [txn EXCEPT ![h] = r] /\ r.has = {Plans!TheCampaign} /\ r.pc = pc
                             /\ r.op = txn[h].op /\ r.on = txn[h].on /\ r.to = txn[h].to
    BY <1>2, <2>1, <2>3, TxnLocks, RowsDiffer
  <2>5. TxnShape(r)
    BY <1>1, <1>2, <2>2, <2>4, OpKinds DEF TxnShape
  <2>6. txn'[h] = r
    BY <2>4 DEF PlansInv
  <2>7. TxnFits(h)'
    BY <1>1, <1>2, <1>3, <2>2, <2>4, <2>6, OpKinds DEF TxnFits, Plans!Live
  <2>8. \A g \in Callers \ {h} : r.has \cap txn[g].has = {}
    BY <1>1, <2>4 DEF Plans!Free
  <2> QED
    BY <1>1, <2>4, <2>5, <2>7, <2>8, TxnMoves
<1>4. CASE ~Plans!Live
  BY <1>1, <1>4, TxnEnds DEF Plans!LockCampaign
<1> QED
  BY <1>3, <1>4

LEMMA ReadPlanKept == ASSUME Plans!PlansOK, PlansInv, NEW h \in Callers, Plans!ReadPlan(h) PROVE PlansInv'
<1> DEFINE on == {v \in txn[h].on : variant[v].exists /\ variant[v].post = 0}
           r == [txn[h] EXCEPT !.pc = "commit", !.on = on]
<1>1. /\ txn[h].pc = "read" /\ txn' = [txn EXCEPT ![h] = r] /\ UNCHANGED <<campaign, variant, post>>
      /\ TxnShape(txn[h]) /\ txn[h] \in PlanTxn /\ TxnFits(h)
  BY DEF Plans!ReadPlan, PlansInv
<1>2. txn[h].op \in PlanCalls
  BY <1>1, OpKinds DEF TxnShape, PlanTxn
<1>3. on \in SUBSET Nat /\ on \subseteq txn[h].on
  BY <1>1 DEF PlanTxn
<1>4. \A v \in on : variant[v].exists /\ variant[v].post = 0
  OBVIOUS
<1> HIDE DEF on
<1>5. r \in PlanTxn /\ r.pc = "commit" /\ r.on = on /\ r.op = txn[h].op /\ r.to = txn[h].to /\ r.has = txn[h].has
  BY <1>1, <1>3 DEF PlanTxn, PlanStates
<1> HIDE DEF r
<1>6. TxnShape(r)
  BY <1>1, <1>2, <1>3, <1>5, OpKinds DEF TxnShape
<1>7. txn'[h] = r
  BY <1>1 DEF PlansInv
<1>8. TxnFits(h)'
  BY <1>1, <1>2, <1>4, <1>5, <1>7, OpKinds DEF TxnFits
<1>9. \A g \in Callers \ {h} : r.has \cap txn[g].has = {}
  BY <1>5 DEF PlansInv
<1> QED
  BY <1>1, <1>5, <1>6, <1>8, <1>9, TxnMoves

LEMMA LockEditedKept == ASSUME Plans!PlansOK, PlansInv, NEW h \in Callers, Plans!LockEditedVariant(h) PROVE PlansInv'
<1>1. /\ txn[h].op = "edit" /\ txn[h].pc = "variant" /\ UNCHANGED <<campaign, variant, post>>
      /\ TxnShape(txn[h]) /\ txn[h] \in PlanTxn /\ TxnFits(h)
  BY DEF Plans!LockEditedVariant, Plans!At, PlansInv
<1>2. PICK v \in txn[h].on : Plans!Free(h, Plans!VariantRow(v)) /\ Plans!Lock(h, Plans!VariantRow(v), "commit")
  BY DEF Plans!LockEditedVariant
<1>3. Plans!VariantRow(v) \in PlanRows /\ "commit" \in PlanStates /\ txn[h].op \in PlanCalls
  BY <1>1, RowsDiffer DEF PlanTxn, PlanStates, PlanCalls
<1>4. PICK r \in PlanTxn : /\ txn' = [txn EXCEPT ![h] = r] /\ r.has = txn[h].has \cup {Plans!VariantRow(v)}
                           /\ r.pc = "commit" /\ r.op = txn[h].op /\ r.on = txn[h].on /\ r.to = txn[h].to
  BY <1>2, <1>3, TxnLocks
<1>5. TxnShape(r)
  BY <1>1, <1>3, <1>4, OpKinds DEF TxnShape
<1>6. txn'[h] = r
  BY <1>4 DEF PlansInv
<1>7. TxnFits(h)'
  BY <1>1, <1>3, <1>4, <1>6, OpKinds DEF TxnFits
<1>8. \A g \in Callers \ {h} : r.has \cap txn[g].has = {}
  BY <1>2, <1>4 DEF PlansInv, Plans!Free
<1> QED
  BY <1>1, <1>4, <1>5, <1>7, <1>8, TxnMoves

\* What a transaction of posts has locked it keeps, and it locks one row more.
LEMMA PostTxnLocks ==
  ASSUME Plans!PlansOK, PlansInv, NEW h \in Callers, UNCHANGED <<campaign, variant, post>>, txn[h].op \in Plans!PostCalls,
         txn[h].pc # "write", NEW row \in PlanRows, NEW pc \in {"posts", "variants", "write"},
         Plans!Free(h, row), Plans!Lock(h, row, pc),
         pc # "write" => row # Plans!TheCampaign,
         pc = "posts" => txn[h].pc = "posts" /\ \E p \in txn[h].on : Plans!PostRow(p) \notin txn[h].has \cup {row},
         pc # "posts" => \A p \in txn[h].on : Plans!PostRow(p) \in txn[h].has \cup {row},
         pc = "posts" => \A v \in Nat : row # Plans!VariantRow(v),
         \A p \in Nat : row = Plans!PostRow(p) =>
           /\ p \in txn[h].on /\ Plans!IsPost(p) /\ (txn[h].to = "scheduled" => Plans!Approved(p))
           /\ \A q \in txn[h].on : Plans!PostRow(q) \notin txn[h].has \cup {row} => p < q
           /\ txn[h].pc = "posts",
         \A v \in Nat : row = Plans!VariantRow(v) =>
           \A p \in txn[h].on : Plans!VariantRow(post[p].of) \notin txn[h].has \cup {row} => v < post[p].of
  PROVE  PlansInv'
<1>1. TxnShape(txn[h]) /\ txn[h] \in PlanTxn /\ TxnFits(h)
  BY DEF PlansInv
<1>2. PICK r \in PlanTxn : /\ txn' = [txn EXCEPT ![h] = r] /\ r.has = txn[h].has \cup {row}
                           /\ r.pc = pc /\ r.op = txn[h].op /\ r.on = txn[h].on /\ r.to = txn[h].to
  BY TxnLocks DEF PlanStates
<1>3. txn[h].on \subseteq Plans!Posts /\ txn[h].on \subseteq Nat /\ pc # "top" /\ txn[h].op \notin PlanCalls /\ txn[h].op # "none"
  BY <1>1, PlanNumbers, OpKinds DEF TxnShape
<1>4. TxnShape(r)
  <2>1. pc # "write" => Plans!TheCampaign \notin r.has
    BY <1>1, <1>2 DEF TxnShape
  <2>2. pc = "posts" => \A v \in Nat : Plans!VariantRow(v) \notin r.has
    BY <1>1, <1>2 DEF TxnShape
  <2>3. \A p \in Nat : Plans!PostRow(p) \in r.has => p \in r.on
    BY <1>1, <1>2 DEF TxnShape
  <2>4. \A p, q \in r.on : Plans!PostRow(p) \in r.has /\ Plans!PostRow(q) \notin r.has => p < q
    BY <1>1, <1>2, <1>3 DEF TxnShape
  <2> QED
    BY <1>1, <1>2, <1>3, <2>1, <2>2, <2>3, <2>4 DEF TxnShape
<1>5. txn'[h] = r
  BY <1>2 DEF PlansInv
<1>6. ASSUME NEW p \in r.on, Plans!PostRow(p) \in r.has
      PROVE  /\ Plans!IsPost(p) /\ (r.to = "scheduled" => Plans!Approved(p))
             /\ \A v \in Nat : Plans!VariantRow(v) \in r.has /\ Plans!VariantRow(post[p].of) \notin r.has => v < post[p].of
  <2>1. Plans!IsPost(p) /\ (r.to = "scheduled" => Plans!Approved(p))
    BY <1>1, <1>2, <1>3, <1>6 DEF TxnFits
  <2>2. ASSUME NEW v \in Nat, Plans!VariantRow(v) \in r.has, Plans!VariantRow(post[p].of) \notin r.has PROVE v < post[p].of
    <3>1. CASE row = Plans!VariantRow(v)
      BY <1>2, <2>2, <3>1
    <3>2. CASE Plans!VariantRow(v) \in txn[h].has
      <4>1. txn[h].pc # "posts"
        BY <1>1, <3>2 DEF TxnShape
      <4>2. Plans!PostRow(p) \in txn[h].has
        BY <1>1, <1>2, <4>1 DEF TxnShape
      <4> QED
        BY <1>1, <1>2, <2>2, <3>2, <4>2 DEF TxnFits
    <3> QED
      BY <1>2, <2>2, <3>1, <3>2
  <2> QED
    BY <2>1, <2>2
<1>7. TxnFits(h)'
  <2>1. \A p : Plans!IsPost(p)' = Plans!IsPost(p) /\ Plans!Approved(p)' = Plans!Approved(p)
    BY DEF Plans!IsPost, Plans!Approved
  <2> QED
    BY <1>2, <1>3, <1>5, <1>6, <2>1 DEF TxnFits
<1>8. \A g \in Callers \ {h} : r.has \cap txn[g].has = {}
  BY <1>2 DEF PlansInv, Plans!Free
<1> QED
  BY <1>2, <1>4, <1>7, <1>8, TxnMoves

LEMMA LockPostKept == ASSUME Plans!PlansOK, PlansInv, NEW h \in Callers, Plans!LockSchedulePost(h) PROVE PlansInv'
<1> DEFINE p == Plans!Lowest(Plans!Unlocked(h))
<1>1. /\ txn[h].pc = "posts" /\ UNCHANGED <<campaign, variant, post>> /\ Plans!Free(h, Plans!PostRow(p))
      /\ TxnShape(txn[h]) /\ txn[h] \in PlanTxn /\ TxnFits(h)
  BY DEF Plans!LockSchedulePost, PlansInv
<1>2. txn[h].op \in Plans!PostCalls
  BY <1>1, OpKinds DEF TxnShape, PlanTxn
<1>3. Plans!Unlocked(h) \subseteq Nat /\ Plans!Unlocked(h) # {}
  BY <1>1, <1>2 DEF TxnShape, PlanTxn, Plans!Unlocked
<1>4. p \in Plans!Unlocked(h) /\ \A q \in Plans!Unlocked(h) : p <= q
  BY <1>3, LowestIs
<1> HIDE DEF p
<1>5. p \in txn[h].on /\ p \in Nat /\ Plans!PostRow(p) \in PlanRows
  BY <1>1, <1>4, RowsDiffer DEF Plans!Unlocked, PlanTxn
<1>6. CASE Plans!IsPost(p) /\ Plans!Ready(h, p)
  <2> DEFINE pc == IF Plans!Unlocked(h) = {p} THEN "variants" ELSE "posts"
  <2>1. Plans!Lock(h, Plans!PostRow(p), pc)
    BY <1>6 DEF Plans!LockSchedulePost, p
  <2>2. pc = "posts" => \E q \in txn[h].on : Plans!PostRow(q) \notin txn[h].has \cup {Plans!PostRow(p)}
    <3>1. pc = "posts" => \E q \in Plans!Unlocked(h) : q # p
      BY <1>4
    <3> QED
      BY <1>3, <1>5, <3>1, RowsDiffer DEF Plans!Unlocked
  <2>3. pc # "posts" => \A q \in txn[h].on : Plans!PostRow(q) \in txn[h].has \cup {Plans!PostRow(p)}
    BY DEF Plans!Unlocked
  <2>4. pc \in {"posts", "variants", "write"} /\ pc # "write" /\ pc # "top"
    OBVIOUS
  <2> HIDE DEF pc
  <2>5. txn[h].to = "scheduled" => Plans!Approved(p)
    BY <1>1, <1>2, <1>6 DEF Plans!Ready, Plans!Schedulable, TxnShape
  <2>6. \A q \in txn[h].on : Plans!PostRow(q) \notin txn[h].has \cup {Plans!PostRow(p)} => p < q
    <3>1. \A q \in txn[h].on : Plans!PostRow(q) \notin txn[h].has \cup {Plans!PostRow(p)} => q \in Plans!Unlocked(h) /\ q # p
      BY DEF Plans!Unlocked
    <3>2. \A q \in Plans!Unlocked(h) : q \in Nat
      BY <1>3
    <3>3. \A q \in Plans!Unlocked(h) : q # p => p < q
      BY <1>4, <1>5, <3>2
    <3> QED
      BY <3>1, <3>3
  <2>7. \A n \in Nat : Plans!PostRow(p) # Plans!VariantRow(n) /\ (Plans!PostRow(p) = Plans!PostRow(n) => n = p)
    BY <1>5, RowsDiffer
  <2>8. Plans!PostRow(p) # Plans!TheCampaign
    BY <1>5, RowsDiffer
  <2> QED
    BY <1>1, <1>2, <1>5, <1>6, <2>1, <2>2, <2>3, <2>4, <2>5, <2>6, <2>7, <2>8, PostTxnLocks
<1>7. CASE ~(Plans!IsPost(p) /\ Plans!Ready(h, p))
  BY <1>1, <1>7, TxnEnds DEF Plans!LockSchedulePost, p
<1> QED
  BY <1>6, <1>7

\* The variants of a post whose row is locked are the one it was chosen for.
LEMMA VariantOfLocked ==
  ASSUME Plans!PlansOK, PlansInv, NEW h \in Callers, txn[h].op \in Plans!PostCalls, NEW p \in txn[h].on,
         Plans!PostRow(p) \in txn[h].has
  PROVE  Plans!VariantsOf(p) = {post[p].of} /\ post[p].of \in Variants /\ p \in Plans!Posts /\ Plans!IsPost(p)
<1>1. Plans!IsPost(p) /\ p \in Plans!Posts
  BY DEF PlansInv, TxnShape, TxnFits
<1>2. post[p].of \in Variants /\ \A v \in Variants : variant[v].post = p <=> post[p].of = v
  BY <1>1 DEF PlansInv, CampaignSound
<1>3. p # 0
  BY <1>1, PlanNumbers
<1>4. \A v \in Variants : variant[v].post = p => variant[v].exists
  BY <1>3 DEF PlansInv, CampaignSound
<1> QED
  BY <1>1, <1>2, <1>4 DEF Plans!VariantsOf, Plans!Planned

LEMMA LockVariantsKept == ASSUME Plans!PlansOK, PlansInv, NEW h \in Callers, Plans!LockVariants(h) PROVE PlansInv'
<1>1. /\ txn[h].pc = "variants" /\ UNCHANGED <<campaign, variant, post>>
      /\ TxnShape(txn[h]) /\ txn[h] \in PlanTxn /\ TxnFits(h)
  BY DEF Plans!LockVariants, PlansInv
<1>2. txn[h].op \in Plans!PostCalls /\ \A p \in txn[h].on : Plans!PostRow(p) \in txn[h].has
  BY <1>1, OpKinds DEF TxnShape, PlanTxn
<1>3. \A p \in txn[h].on : Plans!VariantsOf(p) = {post[p].of} /\ post[p].of \in Variants
  BY <1>2, VariantOfLocked
<1>4. CASE Plans!End(h)
  BY <1>1, <1>4, TxnEnds
<1>5. CASE txn' = [txn EXCEPT ![h].pc = IF Plans!Live \/ txn[h].op = "batch" THEN "top" ELSE "write"]
  <2> DEFINE pc == IF Plans!Live \/ txn[h].op = "batch" THEN "top" ELSE "write"
             r == [txn[h] EXCEPT !.pc = pc]
  <2>1. pc \in {"top", "write"} /\ pc \in PlanStates
    BY DEF PlanStates
  <2>2. txn' = [txn EXCEPT ![h] = r]
    BY <1>5
  <2> HIDE DEF pc
  <2>3. r \in PlanTxn /\ r.pc = pc /\ r.op = txn[h].op /\ r.on = txn[h].on /\ r.to = txn[h].to /\ r.has = txn[h].has
    BY <1>1, <2>1 DEF PlanTxn
  <2> HIDE DEF r
  <2>4. TxnShape(r)
    BY <1>1, <1>2, <2>1, <2>3, OpKinds DEF TxnShape
  <2>5. txn'[h] = r
    BY <2>2 DEF PlansInv
  <2>6. r.op \notin PlanCalls
    BY <1>2, <2>3, OpKinds
  <2>7. TxnFits(h)'
    BY <1>1, <1>2, <2>1, <2>3, <2>5, <2>6 DEF TxnFits, Plans!IsPost, Plans!Approved
  <2>8. \A g \in Callers \ {h} : r.has \cap txn[g].has = {}
    BY <2>3 DEF PlansInv
  <2> QED
    BY <1>1, <2>2, <2>3, <2>4, <2>7, <2>8, TxnMoves
<1> DEFINE w == Plans!Lowest(Plans!ToLock(h))
<1>6. CASE /\ Plans!ToLock(h) # {} /\ Plans!Free(h, Plans!VariantRow(w)) /\ Plans!Lock(h, Plans!VariantRow(w), "variants")
  <2>1. Plans!ToLock(h) \subseteq Nat
    <3>1. \A v \in Plans!ToLock(h) : \E p \in txn[h].on : v \in Plans!VariantsOf(p)
      BY DEF Plans!ToLock
    <3> QED
      BY <1>3, <3>1, PlanNumbers
  <2>2. w \in Plans!ToLock(h) /\ \A v \in Plans!ToLock(h) : w <= v
    BY <1>6, <2>1, LowestIs
  <2> HIDE DEF w
  <2>3. w \in Nat /\ Plans!VariantRow(w) \in PlanRows /\ Plans!VariantRow(w) # Plans!TheCampaign
    BY <2>1, <2>2, RowsDiffer
  <2>4. \A n \in Nat : Plans!VariantRow(w) # Plans!PostRow(n) /\ (Plans!VariantRow(w) = Plans!VariantRow(n) => n = w)
    BY <2>3, RowsDiffer
  <2>5. ASSUME NEW p \in txn[h].on, Plans!VariantRow(post[p].of) \notin txn[h].has \cup {Plans!VariantRow(w)}
        PROVE  w < post[p].of
    <3>1. post[p].of \in Plans!ToLock(h) /\ post[p].of # w
      <4>1. post[p].of \in UNION {Plans!VariantsOf(q) : q \in txn[h].on}
        BY <1>3
      <4> QED
        BY <2>5, <4>1 DEF Plans!ToLock
    <3> QED
      BY <2>1, <2>2, <2>3, <3>1
  <2> QED
    BY <1>1, <1>2, <1>6, <2>3, <2>4, <2>5, PostTxnLocks
<1> QED
  BY <1>4, <1>5, <1>6 DEF Plans!LockVariants

LEMMA LockTopKept == ASSUME Plans!PlansOK, PlansInv, NEW h \in Callers, Plans!LockTop(h) PROVE PlansInv'
<1>1. /\ txn[h].pc = "top" /\ UNCHANGED <<campaign, variant, post>> /\ Plans!Free(h, Plans!TheCampaign)
      /\ TxnShape(txn[h]) /\ txn[h] \in PlanTxn
  BY DEF Plans!LockTop, PlansInv
<1>2. txn[h].op \in Plans!PostCalls /\ \A p \in txn[h].on : Plans!PostRow(p) \in txn[h].has
  BY <1>1, OpKinds DEF TxnShape, PlanTxn
<1>3. CASE Plans!End(h)
  BY <1>1, <1>3, TxnEnds
<1>4. CASE Plans!Lock(h, Plans!TheCampaign, "write")
  <2>1. Plans!TheCampaign \in PlanRows /\ \A n \in Nat : Plans!TheCampaign # Plans!PostRow(n) /\ Plans!TheCampaign # Plans!VariantRow(n)
    BY RowsDiffer
  <2> QED
    BY <1>1, <1>2, <1>4, <2>1, PostTxnLocks
<1> QED
  BY <1>3, <1>4 DEF Plans!LockTop

LEMMA PlainBegins ==
  ASSUME PlansInv, NEW h \in Callers, NEW op \in PlanOps, NEW on \in SUBSET Nat,
         NEW expect \in SUBSET (Nat \cup (Nat \X Nat)), NEW to \in NextStatus \cup {"none"},
         Plans!Begin(h, op, on, expect, to), UNCHANGED <<campaign, variant, post>>,
         op \in {"plan", "edit", "delete"} => on \subseteq Variants,
         op \in Plans!PostCalls => /\ on \subseteq Plans!Posts /\ on # {} /\ to # "none"
                                   /\ to = "scheduled" => op # "move"
  PROVE  PlansInv'
<1> DEFINE t == [Plans!Idle EXCEPT !.op = op, !.on = on, !.expect = expect, !.to = to]
<1>1. t \in PlanTxn /\ t.op = op /\ t.on = on /\ t.to = to /\ t.has = {}
  BY DEF PlanTxn, Plans!Idle, PlanStates
<1>2. Plans!BeginWith(h, t)
  BY DEF Plans!Begin
<1> HIDE DEF t
<1> QED
  BY <1>1, <1>2, TxnBegins

LEMMA PlanBeginsKept ==
  ASSUME Plans!PlansOK, PlansInv, NEW h \in Callers,
         \/ Plans!BeginMaterialize(h) \/ Plans!BeginUpdateCampaign(h) \/ Plans!BeginAddVariants(h)
         \/ Plans!BeginChangeVariant(h)
  PROVE  PlansInv'
<1>1. /\ Plans!Planned \subseteq Variants /\ Variants \subseteq Nat /\ campaign.stamp \in Nat
      /\ \A v \in Variants : variant[v].stamp \in Nat
  BY PlanNumbers DEF Plans!Planned, PlansInv, TablesOK, CampaignRow, VariantRecord
<1>2. /\ {"plan", "update", "archive", "add", "edit", "delete"} \subseteq PlanOps
      /\ \A op \in {"plan", "update", "archive", "add", "edit", "delete"} : op \notin Plans!PostCalls
  BY DEF PlanOps, PlanCalls, Plans!PostCalls
<1>3. CASE Plans!BeginMaterialize(h)
  BY <1>1, <1>2, <1>3, PlainBegins DEF Plans!BeginMaterialize
<1>4. CASE Plans!BeginUpdateCampaign(h)
  <2>1. PICK op \in {"update", "archive"} : Plans!Begin(h, op, {}, {campaign.stamp}, "none") /\ UNCHANGED <<campaign, variant, post>>
    BY <1>4 DEF Plans!BeginUpdateCampaign
  <2>2. {campaign.stamp} \in SUBSET (Nat \cup (Nat \X Nat)) /\ op \in PlanOps /\ op \notin Plans!PostCalls
    BY <1>1, <1>2
  <2> QED
    BY <2>1, <2>2, PlainBegins
<1>5. CASE Plans!BeginAddVariants(h)
  BY <1>2, <1>5, PlainBegins DEF Plans!BeginAddVariants
<1>6. CASE Plans!BeginChangeVariant(h)
  <2>1. PICK v \in Plans!Planned, op \in {"edit", "delete"} :
          Plans!Begin(h, op, {v}, {variant[v].stamp}, "none") /\ UNCHANGED <<campaign, variant, post>>
    BY <1>6 DEF Plans!BeginChangeVariant
  <2>2. /\ {v} \in SUBSET Nat /\ {v} \subseteq Variants /\ {variant[v].stamp} \in SUBSET (Nat \cup (Nat \X Nat))
        /\ op \in PlanOps /\ op \notin Plans!PostCalls
    BY <1>1, <1>2
  <2> QED
    BY <2>1, <2>2, PlainBegins
<1> QED
  BY <1>3, <1>4, <1>5, <1>6

LEMMA PostBeginsKept ==
  ASSUME Plans!PlansOK, PlansInv, NEW h \in Callers,
         Plans!BeginReschedule(h) \/ Plans!BeginBatchSchedule(h) \/ Plans!BeginLifecycle(h)
  PROVE  PlansInv'
<1>1. /\ Plans!Posts \subseteq Nat /\ \A p \in Plans!Posts : post[p].stamp \in Nat
  BY PlanNumbers DEF PlansInv, TablesOK, PostRecord
<1>2. {"schedule", "batch", "move"} = Plans!PostCalls /\ Plans!PostCalls \subseteq PlanOps
  BY DEF PlanOps, Plans!PostCalls
<1>3. CASE Plans!BeginReschedule(h)
  <2>1. PICK p \in Plans!Posts : /\ Plans!Begin(h, "schedule", {p}, {<<p, post[p].stamp>>}, "scheduled")
                                 /\ UNCHANGED <<campaign, variant, post>>
    BY <1>3 DEF Plans!BeginReschedule
  <2>2. /\ {p} \in SUBSET Nat /\ {<<p, post[p].stamp>>} \in SUBSET (Nat \cup (Nat \X Nat))
        /\ "scheduled" \in NextStatus \cup {"none"} /\ "schedule" \in PlanOps
    BY <1>1, <1>2 DEF NextStatus
  <2> QED
    BY <2>1, <2>2, PlainBegins
<1>4. CASE Plans!BeginBatchSchedule(h)
  <2>1. PICK some \in (SUBSET Plans!Planned) \ {{}} :
          /\ \A v \in some : variant[v].post # 0
          /\ Plans!BeginWith(h, [Plans!Idle EXCEPT !.op = "batch", !.on = {variant[v].post : v \in some}, !.to = "scheduled",
                  !.map = {<<v, variant[v].post>> : v \in some},
                  !.expect = {<<p, post[p].stamp>> : p \in {variant[v].post : v \in some}}])
          /\ UNCHANGED <<campaign, variant, post>>
    BY <1>4 DEF Plans!BeginBatchSchedule
  <2> DEFINE on == {variant[v].post : v \in some}
             map == {<<v, variant[v].post>> : v \in some}
             expect == {<<p, post[p].stamp>> : p \in on}
  <2>2. \A v \in Plans!Planned : v \in Variants /\ v \in Nat /\ variant[v].post \in 0..MaxPosts
    BY PlanNumbers DEF Plans!Planned, PlansInv, TablesOK, VariantRecord
  <2>3. \A v \in some : v \in Nat /\ variant[v].post \in Plans!Posts
    BY <2>1, <2>2, PlanNumbers
  <2>4. on \subseteq Plans!Posts /\ on # {}
    <3>1. PICK v \in some : TRUE
      BY <2>1
    <3>2. variant[v].post \in on
      OBVIOUS
    <3> QED
      BY <2>3, <3>2
  <2>5. \A v \in some : <<v, variant[v].post>> \in Nat \X Nat
    BY <1>1, <2>3
  <2>6. \A p \in on : <<p, post[p].stamp>> \in Nat \X Nat
    BY <1>1, <2>4
  <2>7. map \in SUBSET (Nat \X Nat) /\ expect \in SUBSET (Nat \cup (Nat \X Nat)) /\ on \in SUBSET Nat
    <3>1. \A x \in map : x \in Nat \X Nat
      BY <2>5
    <3>2. \A x \in expect : x \in Nat \X Nat
      BY <2>6
    <3>3. \A x \in on : x \in Nat
      BY <1>1, <2>4
    <3> HIDE DEF on, map, expect
    <3> QED
      BY <3>1, <3>2, <3>3
  <2> DEFINE t == [Plans!Idle EXCEPT !.op = "batch", !.on = on, !.to = "scheduled", !.map = map, !.expect = expect]
  <2>8. Plans!BeginWith(h, t)
    BY <2>1
  <2> HIDE DEF on, map, expect
  <2>9. t \in PlanTxn /\ t.op = "batch" /\ t.on = on /\ t.to = "scheduled" /\ t.has = {}
    BY <1>2, <2>7 DEF PlanTxn, Plans!Idle, PlanStates, NextStatus
  <2> HIDE DEF t
  <2> QED
    BY <1>2, <2>1, <2>4, <2>8, <2>9, TxnBegins
<1>5. CASE Plans!BeginLifecycle(h)
  <2>1. PICK p \in Plans!Posts, s \in {m[2] : m \in Plans!Moves} :
          Plans!Begin(h, "move", {p}, {<<p, post[p].stamp>>}, s) /\ UNCHANGED <<campaign, variant, post>>
    BY <1>5 DEF Plans!BeginLifecycle
  <2>2. s \in NextStatus /\ s # "scheduled" /\ s # "none"
    BY DEF Plans!Moves, NextStatus
  <2>3. /\ {p} \in SUBSET Nat /\ {<<p, post[p].stamp>>} \in SUBSET (Nat \cup (Nat \X Nat)) /\ "move" \in PlanOps
    BY <1>1, <1>2
  <2> QED
    BY <2>1, <2>2, <2>3, PlainBegins
<1> QED
  BY <1>3, <1>4, <1>5

\* A call of the plan commits: no other is past the lock of the campaign, and posts that are ones are left alone.
LEMMA PlanCommits ==
  ASSUME Plans!PlansOK, PlansInv, NEW h \in Callers, Plans!End(h), txn[h].op \in PlanCalls, txn[h].pc # "campaign",
         TablesOK', CampaignSound', campaign'.status # "none",
         \A p \in Plans!Posts : Plans!IsPost(p) => post'[p] = post[p]
  PROVE  PlansInv'
<1>1. txn' = [txn EXCEPT ![h] = Plans!Idle] /\ Plans!Idle \in PlanTxn
  BY IdleTxnIs DEF Plans!End, TxnShape
<1>2. txn' \in [Callers -> PlanTxn] /\ txn'[h] = Plans!Idle /\ \A g \in Callers \ {h} : txn'[g] = txn[g]
  BY <1>1 DEF PlansInv
<1>3. \A g \in Callers \ {h} : ~(txn[g].op = "plan" /\ txn[g].pc = "commit")
  BY DEF PlansInv, TxnShape, PlanCalls
<1>4. ASSUME NEW p \in Plans!Posts, Plans!IsPost(p)
      PROVE  post'[p].status = post[p].status /\ post'[p].of = post[p].of /\ (Plans!Approved(p) => Plans!Approved(p)')
  BY <1>4 DEF Plans!Approved
<1> QED
  BY <1>2, <1>3, <1>4, TxnWrites

LEMMA PlanCommitting ==
  ASSUME PlansInv, NEW h \in Callers, NEW op \in PlanCalls, Plans!At(h, op, "commit")
  PROVE  /\ txn[h].op \in PlanCalls /\ txn[h].pc # "campaign" /\ campaign.status # "none"
         /\ op = "plan" => txn[h].on \subseteq Variants /\ \A v \in txn[h].on : variant[v].exists /\ variant[v].post = 0
         /\ op \in {"edit", "delete"} => txn[h].on \subseteq Variants
<1>1. txn[h].op = op /\ txn[h].pc = "commit" /\ TxnShape(txn[h]) /\ TxnFits(h)
  BY DEF Plans!At, PlansInv
<1> QED
  BY <1>1 DEF TxnShape, TxnFits

LEMMA NewPostIs == ASSUME NEW v \in Nat
                   PROVE  Plans!NewPost(v) \in PostRecord /\ Plans!NewPost(v).of = v /\ Plans!NewPost(v).status = "draft"
BY DEF Plans!NewPost, Plans!NoPost, PostRecord, NextStatus

GivePost(row, p, n) == [row EXCEPT !.post = p, !.stamp = n]
LEMMA PostGiven ==
  ASSUME NEW row \in VariantRecord, NEW p \in 0..MaxPosts, NEW n \in Nat
  PROVE  /\ GivePost(row, p, n) \in VariantRecord /\ GivePost(row, p, n).exists = row.exists
         /\ GivePost(row, p, n).post = p /\ GivePost(row, p, n).stamp = n
BY DEF VariantRecord, GivePost

LEMMA MaterializeKept ==
  ASSUME Plans!PlansOK, PlansInv, NEW h \in Callers, Plans!MaterializeCampaign(h) PROVE PlansInv' /\ Plans!ApprovedScheduled
<1> DEFINE on == txn[h].on
<1>1. /\ txn[h].op \in PlanCalls /\ txn[h].pc # "campaign" /\ campaign.status # "none" /\ Plans!End(h)
      /\ on \subseteq Variants /\ \A v \in on : variant[v].exists /\ variant[v].post = 0
  BY PlanCommitting DEF Plans!MaterializeCampaign, PlanCalls
<1> HIDE DEF on
<1>2. PICK chosen \in [on -> {p \in Plans!Posts : post[p].status = "none"}] :
        /\ \A v, w \in on : v < w => chosen[v] < chosen[w]
        /\ post' = [p \in Plans!Posts |-> IF \E v \in on : chosen[v] = p THEN Plans!NewPost(CHOOSE v \in on : chosen[v] = p)
                                          ELSE post[p]]
        /\ variant' = [v \in Variants |-> IF v \in on
                          THEN [variant[v] EXCEPT !.post = chosen[v], !.stamp = Plans!Later(@)] ELSE variant[v]]
  BY DEF Plans!MaterializeCampaign, on
<1>3. campaign' = campaign \/ campaign' = [campaign EXCEPT !.stamp = Plans!Later(@)]
  BY DEF Plans!MaterializeCampaign
<1>4. campaign' \in CampaignRow /\ campaign'.status = campaign.status
  BY <1>3 DEF PlansInv, TablesOK, CampaignRow, Plans!Later
<1>5. /\ Variants \subseteq Nat /\ Plans!Posts \subseteq Nat \ {0} /\ \A p \in Plans!Posts : p \in 0..MaxPosts
      /\ variant \in [Variants -> VariantRecord] /\ post \in [Plans!Posts -> PostRecord]
  BY PlanNumbers DEF Plans!Posts, Plans!PlansOK, PlansInv, TablesOK
<1>6. \A v, w \in on : chosen[v] = chosen[w] => v = w
  <2> SUFFICES ASSUME NEW v \in on, NEW w \in on, v # w PROVE chosen[v] # chosen[w]
    OBVIOUS
  <2>1. v \in Nat /\ w \in Nat /\ chosen[v] \in Plans!Posts /\ chosen[w] \in Plans!Posts
    BY <1>1, <1>5
  <2>2. chosen[v] \in Nat /\ chosen[w] \in Nat
    BY <1>5, <2>1
  <2>3. \A x, y \in on : x < y => chosen[x] < chosen[y]
    BY <1>2
  <2>4. v < w \/ w < v
    BY <2>1
  <2>5. chosen[v] < chosen[w] \/ chosen[w] < chosen[v]
    BY <2>3, <2>4
  <2> QED
    BY <2>2, <2>5
<1>7. ASSUME NEW v \in on
      PROVE /\ chosen[v] \in Plans!Posts /\ post[chosen[v]].status = "none" /\ post'[chosen[v]] = Plans!NewPost(v)
            /\ post'[chosen[v]] \in PostRecord /\ post'[chosen[v]].of = v /\ post'[chosen[v]].status = "draft"
  <2>1. chosen[v] \in Plans!Posts /\ post[chosen[v]].status = "none" /\ v \in Nat
    BY <1>1, <1>5
  <2>2. (CHOOSE w \in on : chosen[w] = chosen[v]) = v
    BY <1>6
  <2>3. post'[chosen[v]] = Plans!NewPost(v)
    BY <1>2, <2>1, <2>2
  <2> QED
    BY <2>1, <2>3, NewPostIs
<1>8. \A p \in Plans!Posts : (\E v \in on : chosen[v] = p) \/ post'[p] = post[p]
  BY <1>2
<1>9. ASSUME NEW v \in Variants
      PROVE  /\ variant'[v] \in VariantRecord /\ variant'[v].exists = variant[v].exists
             /\ v \in on => variant'[v].post = chosen[v]
             /\ v \notin on => variant'[v] = variant[v]
             /\ variant'[v].stamp = 0 => variant[v].stamp = 0
  <2>1. variant[v] \in VariantRecord
    BY <1>5
  <2>2. CASE v \notin on
    BY <1>2, <2>1, <2>2
  <2>3. CASE v \in on
    <3>1. variant'[v] = [variant[v] EXCEPT !.post = chosen[v], !.stamp = Plans!Later(@)]
      BY <1>2, <2>3
    <3>2. chosen[v] \in 0..MaxPosts
      BY <1>5, <1>7, <2>3
    <3>3. /\ variant'[v] \in VariantRecord /\ variant'[v].exists = variant[v].exists /\ variant'[v].post = chosen[v]
          /\ variant'[v].stamp = variant[v].stamp + 1 /\ variant[v].stamp \in Nat
      <4>1. variant[v].stamp \in Nat /\ Plans!Later(variant[v].stamp) = variant[v].stamp + 1
        BY <2>1 DEF VariantRecord, Plans!Later
      <4>2. variant'[v] = GivePost(variant[v], chosen[v], Plans!Later(variant[v].stamp))
        BY <3>1, Zenon DEF GivePost
      <4>3. Plans!Later(variant[v].stamp) \in Nat
        BY <4>1
      <4> DEFINE row == variant[v]
                 given == chosen[v]
                 n == Plans!Later(variant[v].stamp)
      <4>4. row \in VariantRecord /\ given \in 0..MaxPosts /\ n \in Nat /\ variant'[v] = GivePost(row, given, n)
        BY <2>1, <3>2, <4>2, <4>3
      <4> HIDE DEF row, given, n
      <4>5. variant'[v] \in VariantRecord /\ variant'[v].exists = row.exists /\ variant'[v].post = given /\ variant'[v].stamp = n
        BY <4>4, PostGiven
      <4> QED
        BY <4>1, <4>5 DEF row, given, n
    <3> QED
      BY <2>3, <3>3
  <2> QED
    BY <2>2, <2>3
<1>10. TablesOK'
  <2>1. \A p \in Plans!Posts : post'[p] \in PostRecord
    BY <1>5, <1>7, <1>8
  <2>2. post' \in [Plans!Posts -> PostRecord] /\ variant' \in [Variants -> VariantRecord]
    BY <1>2, <1>9, <2>1
  <2> QED
    BY <1>4, <2>2 DEF TablesOK
<1>11. ASSUME NEW p \in Plans!Posts, NEW v \in Variants
       PROVE  variant'[v].post = p <=> Plans!IsPost(p)' /\ post'[p].of = v
  <2>1. variant[v].post = p <=> Plans!IsPost(p) /\ post[p].of = v
    BY DEF PlansInv, CampaignSound
  <2>2. CASE \E u \in on : chosen[u] = p
    <3>1. PICK u \in on : chosen[u] = p
      BY <2>2
    <3>2. Plans!IsPost(p)' /\ post'[p].of = u /\ ~Plans!IsPost(p)
      BY <1>7, <3>1 DEF Plans!IsPost
    <3>3. variant'[v].post = p <=> v = u
      <4>1. CASE v \in on
        BY <1>6, <1>9, <3>1, <4>1
      <4>2. CASE v \notin on
        BY <1>9, <2>1, <3>1, <3>2, <4>2
      <4> QED
        BY <4>1, <4>2
    <3> QED
      BY <3>2, <3>3
  <2>3. CASE ~\E u \in on : chosen[u] = p
    <3>1. post'[p] = post[p] /\ (Plans!IsPost(p)' <=> Plans!IsPost(p))
      BY <1>8, <2>3 DEF Plans!IsPost
    <3>2. CASE v \in on
      BY <1>1, <1>5, <1>9, <2>1, <2>3, <3>1, <3>2
    <3>3. CASE v \notin on
      BY <1>9, <2>1, <3>1, <3>3
    <3> QED
      BY <3>2, <3>3
  <2> QED
    BY <2>2, <2>3
<1>12. \A p \in Plans!Posts : Plans!IsPost(p)' => post'[p].of \in Variants
  <2>1. \A p \in Plans!Posts : (\E v \in on : chosen[v] = p) => post'[p].of \in Variants
    BY <1>1, <1>7
  <2>2. \A p \in Plans!Posts : post'[p] = post[p] => (Plans!IsPost(p)' => post'[p].of \in Variants)
    BY DEF PlansInv, CampaignSound, Plans!IsPost
  <2> QED
    BY <1>8, <2>1, <2>2
<1>13. \A v \in Variants : /\ variant'[v].exists \/ variant'[v].post = 0
                           /\ variant'[v].stamp = 0 => ~variant'[v].exists
  BY <1>1, <1>9 DEF PlansInv, CampaignSound
<1>14. CampaignSound'
  <2>1. \E v \in Variants : variant'[v].exists
    BY <1>1, <1>9 DEF PlansInv, CampaignSound
  <2> QED
    BY <1>1, <1>4, <1>11, <1>12, <1>13, <2>1 DEF CampaignSound
<1>15. \A p \in Plans!Posts : Plans!IsPost(p) => post'[p] = post[p]
  BY <1>7, <1>8 DEF Plans!IsPost
<1>16. Plans!ApprovedScheduled
  BY <1>7, <1>8 DEF Plans!ApprovedScheduled
<1> QED
  BY <1>1, <1>4, <1>10, <1>14, <1>15, <1>16, PlanCommits

LEMMA CampaignTouched ==
  ASSUME campaign \in CampaignRow, campaign' = campaign \/ campaign' = [campaign EXCEPT !.stamp = Plans!Later(@)]
  PROVE  campaign' \in CampaignRow /\ campaign'.status = campaign.status
BY DEF CampaignRow, Plans!Later

\* A change of the plan leaves the posts of the variants as they are.
LEMMA PlanChanges ==
  ASSUME Plans!PlansOK, PlansInv, campaign.status # "none", campaign' \in CampaignRow, campaign'.status # "none", post' = post,
         variant' \in [Variants -> VariantRecord],
         \A v \in Variants : /\ variant'[v].post = variant[v].post
                             /\ variant'[v].exists \/ variant'[v].post = 0
                             /\ variant'[v].stamp = 0 => ~variant'[v].exists,
         \E v \in Variants : variant'[v].exists
  PROVE  TablesOK' /\ CampaignSound' /\ Plans!ApprovedScheduled
<1>1. TablesOK'
  BY DEF PlansInv, TablesOK
<1>2. \A p \in Plans!Posts : /\ Plans!IsPost(p)' => post'[p].of \in Variants
                             /\ \A v \in Variants : variant'[v].post = p <=> Plans!IsPost(p)' /\ post'[p].of = v
  BY DEF PlansInv, CampaignSound, Plans!IsPost
<1>3. CampaignSound'
  BY <1>2 DEF CampaignSound
<1> QED
  BY <1>1, <1>3 DEF Plans!ApprovedScheduled

LEMMA UpdateKept ==
  ASSUME Plans!PlansOK, PlansInv, NEW h \in Callers, Plans!UpdateCampaign(h) \/ Plans!ArchiveCampaign(h)
  PROVE  PlansInv' /\ Plans!ApprovedScheduled
<1>1. /\ Plans!End(h) /\ UNCHANGED <<variant, post>>
      /\ txn[h].op \in PlanCalls /\ txn[h].pc # "campaign" /\ campaign.status # "none"
  BY PlanCommitting DEF Plans!UpdateCampaign, Plans!ArchiveCampaign, PlanCalls
<1>2. campaign \in CampaignRow /\ variant \in [Variants -> VariantRecord]
  BY DEF PlansInv, TablesOK
<1>3. campaign' \in CampaignRow /\ campaign'.status # "none"
  <2>1. CASE campaign' = [status |-> "archived", stamp |-> Plans!Later(campaign.stamp)]
    BY <1>2, <2>1 DEF CampaignRow, Plans!Later
  <2>2. CASE campaign' = campaign \/ campaign' = [campaign EXCEPT !.stamp = Plans!Later(@)]
    BY <1>1, <1>2, <2>2, CampaignTouched
  <2> QED
    BY <2>1, <2>2 DEF Plans!UpdateCampaign, Plans!ArchiveCampaign
<1>4. /\ \A v \in Variants : /\ variant[v].exists \/ variant[v].post = 0
                             /\ variant[v].stamp = 0 => ~variant[v].exists
      /\ \E v \in Variants : variant[v].exists
  BY <1>1 DEF PlansInv, CampaignSound
<1>5. TablesOK' /\ CampaignSound' /\ Plans!ApprovedScheduled
  BY <1>1, <1>2, <1>3, <1>4, PlanChanges
<1> QED
  BY <1>1, <1>3, <1>5, PlanCommits

LEMMA AddKept ==
  ASSUME Plans!PlansOK, PlansInv, NEW h \in Callers, Plans!AddCampaignVariants(h) PROVE PlansInv' /\ Plans!ApprovedScheduled
<1>1. /\ Plans!End(h) /\ post' = post /\ campaign' = [campaign EXCEPT !.stamp = Plans!Later(@)]
      /\ txn[h].op \in PlanCalls /\ txn[h].pc # "campaign" /\ campaign.status # "none"
  BY PlanCommitting DEF Plans!AddCampaignVariants, PlanCalls
<1>2. campaign \in CampaignRow /\ variant \in [Variants -> VariantRecord] /\ 0 \in 0..MaxPosts
  BY DEF PlansInv, TablesOK, Plans!PlansOK
<1>3. campaign' \in CampaignRow /\ campaign'.status # "none"
  BY <1>1, <1>2, CampaignTouched
<1>4. PICK w \in Plans!Fresh : variant' = [variant EXCEPT ![w] = [exists |-> TRUE, post |-> 0, stamp |-> 1]]
  BY DEF Plans!AddCampaignVariants
<1> DEFINE r == [exists |-> TRUE, post |-> 0, stamp |-> 1]
<1>5. r \in VariantRecord /\ r.exists /\ r.post = 0 /\ r.stamp = 1
  BY <1>2 DEF VariantRecord
<1> HIDE DEF r
<1>6. /\ w \in Variants /\ variant[w].stamp = 0 /\ variant[w].post = 0
  BY DEF Plans!Fresh, PlansInv, CampaignSound
<1>7. /\ variant' \in [Variants -> VariantRecord] /\ variant'[w] = r
      /\ \A v \in Variants : v # w => variant'[v] = variant[v]
  BY <1>2, <1>4, <1>5, <1>6 DEF r
<1>8. \A v \in Variants : /\ variant[v].exists \/ variant[v].post = 0
                          /\ variant[v].stamp = 0 => ~variant[v].exists
  BY DEF PlansInv, CampaignSound
<1>9. \A v \in Variants : /\ variant'[v].post = variant[v].post
                          /\ variant'[v].exists \/ variant'[v].post = 0
                          /\ variant'[v].stamp = 0 => ~variant'[v].exists
  BY <1>5, <1>6, <1>7, <1>8
<1>10. TablesOK' /\ CampaignSound' /\ Plans!ApprovedScheduled
  BY <1>1, <1>3, <1>5, <1>6, <1>7, <1>9, PlanChanges
<1> QED
  BY <1>1, <1>3, <1>10, PlanCommits

\* The variant that is changed has no post.
LEMMA ChangeVariantKept ==
  ASSUME Plans!PlansOK, PlansInv, NEW h \in Callers, Plans!UpdateCampaignVariant(h) \/ Plans!DeleteCampaignVariant(h)
  PROVE  PlansInv' /\ Plans!ApprovedScheduled
<1>1. /\ Plans!End(h) /\ post' = post
      /\ txn[h].op \in PlanCalls /\ txn[h].pc # "campaign" /\ campaign.status # "none" /\ txn[h].on \subseteq Variants
  BY PlanCommitting DEF Plans!UpdateCampaignVariant, Plans!DeleteCampaignVariant, PlanCalls
<1>2. campaign \in CampaignRow /\ variant \in [Variants -> VariantRecord]
  BY DEF PlansInv, TablesOK
<1>3. PICK w \in txn[h].on :
        \/ /\ Plans!Unchanged(h, w) /\ variant' = [variant EXCEPT ![w].stamp = Plans!Later(@)]
           /\ campaign' = [campaign EXCEPT !.stamp = Plans!Later(@)]
        \/ /\ Plans!Unchanged(h, w) /\ Plans!Planned # {w} /\ variant' = [variant EXCEPT ![w].exists = FALSE]
           /\ campaign' = [campaign EXCEPT !.stamp = Plans!Later(@)]
        \/ UNCHANGED <<variant, campaign>>
  BY DEF Plans!UpdateCampaignVariant, Plans!DeleteCampaignVariant
<1>4. campaign' \in CampaignRow /\ campaign'.status # "none"
  BY <1>1, <1>2, <1>3, CampaignTouched
<1>5. /\ \A v \in Variants : /\ variant[v].exists \/ variant[v].post = 0
                             /\ variant[v].stamp = 0 => ~variant[v].exists
      /\ \E v \in Variants : variant[v].exists
  BY <1>1 DEF PlansInv, CampaignSound
<1>6. w \in Variants /\ variant[w] \in VariantRecord
  BY <1>1, <1>2
<1>7. /\ variant' \in [Variants -> VariantRecord]
      /\ \A v \in Variants : /\ variant'[v].post = variant[v].post
                             /\ variant'[v].exists \/ variant'[v].post = 0
                             /\ variant'[v].stamp = 0 => ~variant'[v].exists
      /\ \E v \in Variants : variant'[v].exists
  <2>1. CASE Plans!Unchanged(h, w) /\ variant' = [variant EXCEPT ![w].stamp = Plans!Later(@)]
    <3> DEFINE r == [variant[w] EXCEPT !.stamp = Plans!Later(@)]
    <3>1. /\ r \in VariantRecord /\ r.exists = variant[w].exists /\ r.post = variant[w].post /\ r.stamp # 0
      BY <1>6 DEF VariantRecord, Plans!Later
    <3>2. variant' = [variant EXCEPT ![w] = r]
      BY <2>1
    <3> HIDE DEF r
    <3>3. variant' \in [Variants -> VariantRecord] /\ variant'[w] = r /\ \A v \in Variants : v # w => variant'[v] = variant[v]
      BY <1>2, <1>6, <3>1, <3>2
    <3>4. \A v \in Variants : /\ variant'[v].post = variant[v].post /\ variant'[v].exists = variant[v].exists
                              /\ variant'[v].stamp = 0 => variant[v].stamp = 0
      BY <3>1, <3>3
    <3> QED
      BY <1>5, <3>3, <3>4
  <2>2. CASE Plans!Unchanged(h, w) /\ Plans!Planned # {w} /\ variant' = [variant EXCEPT ![w].exists = FALSE]
    <3> DEFINE r == [variant[w] EXCEPT !.exists = FALSE]
    <3>1. /\ r \in VariantRecord /\ r.exists = FALSE /\ r.post = variant[w].post /\ variant[w].post = 0
      BY <1>6, <2>2 DEF VariantRecord, Plans!Unchanged
    <3>2. variant' = [variant EXCEPT ![w] = r]
      BY <2>2
    <3> HIDE DEF r
    <3>3. variant' \in [Variants -> VariantRecord] /\ variant'[w] = r /\ \A v \in Variants : v # w => variant'[v] = variant[v]
      BY <1>2, <1>6, <3>1, <3>2
    <3>4. \E v \in Variants : v # w /\ variant[v].exists
      BY <1>6, <2>2 DEF Plans!Unchanged, Plans!Planned
    <3>5. \A v \in Variants : /\ variant'[v].post = variant[v].post
                              /\ variant'[v].exists \/ variant'[v].post = 0
                              /\ variant'[v].stamp = 0 => ~variant'[v].exists
      BY <1>5, <3>1, <3>3
    <3> QED
      BY <3>3, <3>4, <3>5
  <2>3. CASE variant' = variant
    BY <1>2, <1>5, <2>3
  <2> QED
    BY <1>3, <2>1, <2>2, <2>3
<1>8. TablesOK' /\ CampaignSound' /\ Plans!ApprovedScheduled
  BY <1>1, <1>4, <1>7, PlanChanges
<1> QED
  BY <1>1, <1>4, <1>8, PlanCommits

SetPost(row, to, n) == [row EXCEPT !.status = to, !.stamp = n]
LEMMA PostSet ==
  ASSUME NEW row \in PostRecord, NEW to \in NextStatus, NEW n \in Nat
  PROVE  /\ SetPost(row, to, n) \in PostRecord /\ SetPost(row, to, n).status = to /\ SetPost(row, to, n).of = row.of
         /\ SetPost(row, to, n).revision = row.revision /\ SetPost(row, to, n).approved = row.approved
BY DEF PostRecord, SetPost

Written(row, to) == [row EXCEPT !.status = to, !.stamp = Plans!Later(@)]
LEMMA PostWritten ==
  ASSUME NEW row \in PostRecord, NEW to \in NextStatus
  PROVE  /\ Written(row, to) \in PostRecord /\ Written(row, to).status = to /\ Written(row, to).of = row.of
         /\ Written(row, to).revision = row.revision /\ Written(row, to).approved = row.approved
<1>1. Plans!Later(row.stamp) \in Nat
  BY DEF PostRecord, Plans!Later
<1>2. Written(row, to) = SetPost(row, to, Plans!Later(row.stamp))
  BY DEF SetPost, Written
<1> DEFINE n == Plans!Later(row.stamp)
<1> HIDE DEF n
<1>3. n \in Nat => /\ SetPost(row, to, n) \in PostRecord /\ SetPost(row, to, n).status = to /\ SetPost(row, to, n).of = row.of
                   /\ SetPost(row, to, n).revision = row.revision /\ SetPost(row, to, n).approved = row.approved
  BY PostSet
<1> QED
  BY <1>1, <1>2, <1>3 DEF n

Stamped(row, p) == [row EXCEPT !.stamp = Plans!Later(@), !.post = p]
LEMMA RowStamped ==
  ASSUME NEW row \in VariantRecord, NEW p \in 0..MaxPosts
  PROVE  /\ Stamped(row, p) \in VariantRecord /\ Stamped(row, p).exists = row.exists
         /\ Stamped(row, p).post = p /\ Stamped(row, p).stamp # 0
<1>1. row.stamp \in Nat /\ Plans!Later(row.stamp) \in Nat /\ Plans!Later(row.stamp) # 0
  BY DEF VariantRecord, Plans!Later
<1>2. Stamped(row, p) = GivePost(row, p, Plans!Later(row.stamp))
  BY DEF GivePost, Stamped
<1> DEFINE n == Plans!Later(row.stamp)
<1> HIDE DEF n
<1>3. n \in Nat => /\ GivePost(row, p, n) \in VariantRecord /\ GivePost(row, p, n).exists = row.exists
                   /\ GivePost(row, p, n).post = p /\ GivePost(row, p, n).stamp = n
  BY PostGiven
<1> QED
  BY <1>1, <1>2, <1>3 DEF n

\* Posts change their state together; their variants name them unless they are gone.
LEMMA WritePostsKept ==
  ASSUME Plans!PlansOK, PlansInv, NEW h \in Callers, Plans!WritePosts(h) PROVE PlansInv' /\ Plans!ApprovedScheduled
<1> DEFINE on == txn[h].on
           to == txn[h].to
<1>1. txn[h].pc = "write" /\ TxnShape(txn[h]) /\ TxnFits(h) /\ txn[h] \in PlanTxn /\ Plans!End(h)
  BY DEF Plans!WritePosts, PlansInv
<1>2. /\ txn[h].op \in Plans!PostCalls /\ on \subseteq Plans!Posts /\ to \in NextStatus /\ to # "none"
      /\ \A p \in on : Plans!PostRow(p) \in txn[h].has
  BY <1>1, OpKinds DEF TxnShape, PlanTxn
<1>3. \A p \in on : Plans!IsPost(p) /\ (to = "scheduled" => Plans!Approved(p))
  BY <1>1, <1>2 DEF TxnFits
<1>4. /\ variant \in [Variants -> VariantRecord] /\ post \in [Plans!Posts -> PostRecord] /\ campaign \in CampaignRow
      /\ \A v \in Variants : variant[v] \in VariantRecord /\ variant[v].post \in 0..MaxPosts
      /\ 0 \in 0..MaxPosts /\ 0 \notin Plans!Posts
  BY PlanNumbers DEF Plans!PlansOK, PlansInv, TablesOK, VariantRecord
<1>5. /\ post' = [p \in Plans!Posts |-> IF p \in on THEN [post[p] EXCEPT !.status = to, !.stamp = Plans!Later(@)] ELSE post[p]]
      /\ variant' = [v \in Variants |->
           IF variant[v].post \in on /\ (Plans!Live \/ txn[h].op # "move" \/ to = "gone")
           THEN [variant[v] EXCEPT !.stamp = Plans!Later(@), !.post = IF to = "gone" THEN 0 ELSE @] ELSE variant[v]]
      /\ campaign' = campaign \/ campaign' = [campaign EXCEPT !.stamp = Plans!Later(@)]
  BY DEF Plans!WritePosts
<1> HIDE DEF on, to
<1>6. ASSUME NEW p \in Plans!Posts
      PROVE  /\ post'[p] \in PostRecord /\ post'[p].of = post[p].of /\ post'[p].revision = post[p].revision
             /\ post'[p].approved = post[p].approved /\ post'[p].status = IF p \in on THEN to ELSE post[p].status
             /\ p \notin on => post'[p] = post[p]
  <2>1. post[p] \in PostRecord
    BY <1>4
  <2>2. CASE p \in on
    <3>1. post'[p] = Written(post[p], to)
      BY <1>5, <2>2 DEF Written
    <3> QED
      BY <1>2, <2>1, <2>2, <3>1, PostWritten
  <2>3. CASE p \notin on
    BY <1>5, <2>1, <2>3
  <2> QED
    BY <2>2, <2>3
<1>7. ASSUME NEW v \in Variants
      PROVE  /\ variant'[v] \in VariantRecord /\ variant'[v].exists = variant[v].exists
             /\ variant'[v].post = IF variant[v].post \in on /\ to = "gone" THEN 0 ELSE variant[v].post
             /\ variant[v].post \notin on => variant'[v] = variant[v]
             /\ variant'[v].stamp = 0 => variant[v].stamp = 0
  <2>1. variant[v] \in VariantRecord /\ variant[v].post \in 0..MaxPosts
    BY <1>4
  <2>2. CASE variant[v].post \in on /\ (Plans!Live \/ txn[h].op # "move" \/ to = "gone")
    <3> DEFINE p == IF to = "gone" THEN 0 ELSE variant[v].post
    <3>1. p \in 0..MaxPosts
      BY <1>4, <2>1
    <3>2. variant'[v] = Stamped(variant[v], p)
      BY <1>5, <2>2 DEF Stamped
    <3>3. p = IF to = "gone" THEN 0 ELSE variant[v].post
      OBVIOUS
    <3> HIDE DEF p
    <3>4. variant'[v] \in VariantRecord /\ variant'[v].exists = variant[v].exists /\ variant'[v].post = p /\ variant'[v].stamp # 0
      BY <2>1, <3>1, <3>2, RowStamped
    <3> QED
      BY <2>2, <3>3, <3>4
  <2>3. CASE ~(variant[v].post \in on /\ (Plans!Live \/ txn[h].op # "move" \/ to = "gone"))
    BY <1>5, <2>1, <2>3
  <2> QED
    BY <2>2, <2>3
<1>8. campaign' \in CampaignRow /\ campaign'.status = campaign.status
  BY <1>4, <1>5, CampaignTouched
<1>9. TablesOK'
  <2>1. post' \in [Plans!Posts -> PostRecord] /\ variant' \in [Variants -> VariantRecord]
    BY <1>5, <1>6, <1>7
  <2> QED
    BY <1>8, <2>1 DEF TablesOK
<1>10. ASSUME NEW p \in Plans!Posts, NEW v \in Variants
       PROVE  variant'[v].post = p <=> Plans!IsPost(p)' /\ post'[p].of = v
  <2>1. variant[v].post = p <=> Plans!IsPost(p) /\ post[p].of = v
    BY DEF PlansInv, CampaignSound
  <2>2. p # 0
    BY <1>4
  <2>3. CASE p \in on
    <3>1. Plans!IsPost(p)' <=> to # "gone"
      BY <1>2, <1>6, <2>3 DEF Plans!IsPost
    <3> QED
      BY <1>3, <1>6, <1>7, <2>1, <2>2, <2>3, <3>1
  <2>4. CASE p \notin on
    <3>1. Plans!IsPost(p)' <=> Plans!IsPost(p)
      BY <1>6, <2>4 DEF Plans!IsPost
    <3> QED
      BY <1>6, <1>7, <2>1, <2>2, <2>4, <3>1
  <2> QED
    BY <2>3, <2>4
<1>11. \A p \in Plans!Posts : Plans!IsPost(p)' => post'[p].of \in Variants
  <2>1. \A p \in Plans!Posts : Plans!IsPost(p)' => Plans!IsPost(p)
    BY <1>3, <1>6 DEF Plans!IsPost
  <2>2. \A p \in Plans!Posts : Plans!IsPost(p) => post[p].of \in Variants
    BY DEF PlansInv, CampaignSound
  <2> QED
    BY <1>6, <2>1, <2>2
<1>12. \A v \in Variants : /\ variant'[v].exists \/ variant'[v].post = 0
                           /\ variant'[v].stamp = 0 => ~variant'[v].exists
  <2>1. \A v \in Variants : /\ variant[v].exists \/ variant[v].post = 0
                            /\ variant[v].stamp = 0 => ~variant[v].exists
    BY DEF PlansInv, CampaignSound
  <2> QED
    BY <1>7, <2>1
<1>13. /\ campaign'.status = "none" => /\ \A v \in Variants : ~variant'[v].exists
                                       /\ \A p \in Plans!Posts : post'[p].status = "none"
       /\ campaign'.status # "none" => \E v \in Variants : variant'[v].exists
  <2>1. /\ campaign.status = "none" => /\ \A v \in Variants : ~variant[v].exists
                                       /\ \A p \in Plans!Posts : post[p].status = "none"
        /\ campaign.status # "none" => \E v \in Variants : variant[v].exists
    BY DEF PlansInv, CampaignSound
  <2>2. campaign.status = "none" => \A p \in Plans!Posts : p \notin on
    BY <1>3, <2>1 DEF Plans!IsPost
  <2> QED
    BY <1>6, <1>7, <1>8, <2>1, <2>2
<1>14. CampaignSound'
  BY <1>10, <1>11, <1>12, <1>13 DEF CampaignSound
<1>15. txn' = [txn EXCEPT ![h] = Plans!Idle] /\ Plans!Idle \in PlanTxn
  BY <1>1, IdleTxnIs DEF Plans!End, TxnShape
<1>16. txn' \in [Callers -> PlanTxn] /\ txn'[h] = Plans!Idle /\ \A g \in Callers \ {h} : txn'[g] = txn[g]
  BY <1>15 DEF PlansInv
<1>17. ASSUME NEW g \in Callers \ {h}, txn[g].op = "plan" /\ txn[g].pc = "commit", NEW v \in txn[g].on
       PROVE  variant'[v].exists = variant[v].exists /\ variant'[v].post = variant[v].post
  <2>1. v \in Variants /\ variant[v].post = 0
    BY <1>17 DEF PlansInv, TxnShape, TxnFits, PlanCalls
  <2> QED
    BY <1>2, <1>4, <1>7, <2>1
<1>18. ASSUME NEW g \in Callers \ {h}, NEW p \in Plans!Posts, Plans!PostRow(p) \in txn[g].has
       PROVE  post'[p] = post[p]
  <2>1. p \notin on
    BY <1>2, <1>18 DEF PlansInv, on
  <2> QED
    BY <1>6, <2>1
<1>19. PlansInv'
  BY <1>8, <1>9, <1>14, <1>16, <1>17, <1>18, TxnWrites DEF Plans!Approved
<1>20. Plans!ApprovedScheduled
  BY <1>3, <1>6 DEF Plans!ApprovedScheduled
<1> QED
  BY <1>19, <1>20

Revised(row) == [row EXCEPT !.revision = @ + 1, !.stamp = Plans!Later(@)]
ApprovedNow(row) == [row EXCEPT !.approved = @ \cup {row.revision}, !.stamp = Plans!Later(@)]
RowWith(row, revision, approved, n) == [row EXCEPT !.revision = revision, !.approved = approved, !.stamp = n]
LEMMA RowIs ==
  ASSUME NEW row \in PostRecord, NEW revision \in Nat, NEW approved \in SUBSET Nat, NEW n \in Nat
  PROVE  /\ RowWith(row, revision, approved, n) \in PostRecord /\ RowWith(row, revision, approved, n).status = row.status
         /\ RowWith(row, revision, approved, n).of = row.of
         /\ RowWith(row, revision, approved, n).revision = revision /\ RowWith(row, revision, approved, n).approved = approved
BY DEF PostRecord, RowWith

LEMMA RevisedIs ==
  ASSUME NEW row \in PostRecord
  PROVE  /\ Revised(row) \in PostRecord /\ Revised(row).status = row.status /\ Revised(row).of = row.of
<1>1. row.revision + 1 \in Nat /\ Plans!Later(row.stamp) \in Nat /\ row.approved \in SUBSET Nat
  BY DEF PostRecord, Plans!Later
<1>2. Revised(row) = RowWith(row, row.revision + 1, row.approved, Plans!Later(row.stamp))
  <2>1. row = [row EXCEPT !.approved = row.approved]
    BY DEF PostRecord
  <2> QED
    BY <2>1 DEF Revised, RowWith, PostRecord
<1> DEFINE n == Plans!Later(row.stamp)
           m == row.revision + 1
<1> HIDE DEF n, m
<1>3. n \in Nat /\ m \in Nat => /\ RowWith(row, m, row.approved, n) \in PostRecord
                                /\ RowWith(row, m, row.approved, n).status = row.status
                                /\ RowWith(row, m, row.approved, n).of = row.of
  BY <1>1, RowIs
<1> QED
  BY <1>1, <1>2, <1>3 DEF n, m

LEMMA ApprovedIs ==
  ASSUME NEW row \in PostRecord
  PROVE  /\ ApprovedNow(row) \in PostRecord /\ ApprovedNow(row).status = row.status /\ ApprovedNow(row).of = row.of
<1>1. row.approved \cup {row.revision} \in SUBSET Nat /\ row.revision \in Nat /\ Plans!Later(row.stamp) \in Nat
  BY DEF PostRecord, Plans!Later
<1>2. ApprovedNow(row) = RowWith(row, row.revision, row.approved \cup {row.revision}, Plans!Later(row.stamp))
  BY DEF ApprovedNow, RowWith, PostRecord
<1> DEFINE n == Plans!Later(row.stamp)
           S == row.approved \cup {row.revision}
<1> HIDE DEF n, S
<1>3. n \in Nat /\ S \in SUBSET Nat => /\ RowWith(row, row.revision, S, n) \in PostRecord
                                       /\ RowWith(row, row.revision, S, n).status = row.status
                                       /\ RowWith(row, row.revision, S, n).of = row.of
  BY <1>1, RowIs
<1> QED
  BY <1>1, <1>2, <1>3 DEF n, S

\* A around that nobody has locked changes; its variant stays.
LEMMA DraftChanges ==
  ASSUME Plans!PlansOK, PlansInv, NEW p \in Plans!Posts, NEW r \in PostRecord, post' = [post EXCEPT ![p] = r],
         r.status = post[p].status, r.of = post[p].of, post[p].status = "draft",
         \A h \in Callers : Plans!PostRow(p) \notin txn[h].has, UNCHANGED <<campaign, variant, txn>>
  PROVE  PlansInv' /\ Plans!ApprovedScheduled
<1>1. post \in [Plans!Posts -> PostRecord] /\ txn \in [Callers -> PlanTxn]
  BY DEF PlansInv, TablesOK
<1>2. post' \in [Plans!Posts -> PostRecord] /\ post'[p] = r /\ \A q \in Plans!Posts : q # p => post'[q] = post[q]
  BY <1>1
<1>3. \A q \in Plans!Posts : post'[q].status = post[q].status /\ post'[q].of = post[q].of
  BY <1>2
<1>4. TablesOK'
  BY <1>2 DEF PlansInv, TablesOK
<1>5. CampaignSound'
  BY <1>3 DEF PlansInv, CampaignSound, Plans!IsPost
<1>6. ASSUME NEW g \in Callers, NEW q \in Plans!Posts, Plans!PostRow(q) \in txn[g].has
      PROVE  post'[q] = post[q]
  BY <1>2, <1>6
<1>7. PlansInv'
  BY <1>1, <1>4, <1>5, <1>6, TxnWrites DEF Plans!Approved
<1>8. Plans!ApprovedScheduled
  BY <1>2 DEF Plans!ApprovedScheduled
<1> QED
  BY <1>7, <1>8

LEMMA RevisionsKept ==
  ASSUME Plans!PlansOK, PlansInv, NEW p \in Plans!Posts, Plans!Revise(p) \/ Plans!Approve(p)
  PROVE  PlansInv' /\ Plans!ApprovedScheduled
<1>1. post \in [Plans!Posts -> PostRecord] /\ post[p] \in PostRecord
  BY DEF PlansInv, TablesOK
<1>2. /\ post[p].status = "draft" /\ \A h \in Callers : Plans!PostRow(p) \notin txn[h].has
      /\ UNCHANGED <<campaign, variant, txn>>
  BY DEF Plans!Revise, Plans!Approve
<1>3. CASE Plans!Revise(p)
  <2>1. post' = [post EXCEPT ![p] = Revised(post[p])]
    BY <1>3 DEF Plans!Revise, Revised
  <2> QED
    BY <1>1, <1>2, <2>1, RevisedIs, DraftChanges
<1>4. CASE Plans!Approve(p)
  <2>1. post' = [post EXCEPT ![p] = ApprovedNow(post[p])]
    BY <1>4 DEF Plans!Approve, ApprovedNow
  <2> QED
    BY <1>1, <1>2, <2>1, ApprovedIs, DraftChanges
<1> QED
  BY <1>3, <1>4

\* Before there is a campaign there are no posts, and no transaction is past the lock of the campaign.
LEMMA BeforeCampaign ==
  ASSUME PlansInv, campaign.status = "none"
  PROVE  /\ \A g \in Callers : txn[g].op = "plan" => txn[g].pc # "commit"
         /\ \A p \in Plans!Posts : ~Plans!IsPost(p) /\ post[p].status = "none"
         /\ \A v \in Variants : ~variant[v].exists /\ variant[v].post = 0
<1>1. \A g \in Callers : txn[g].op = "plan" => txn[g].pc # "commit"
  BY DEF PlansInv, TxnFits, PlanCalls
<1> QED
  BY <1>1 DEF PlansInv, CampaignSound, Plans!IsPost

LEMMA CreateKept ==
  ASSUME Plans!PlansOK, PlansInv, Plans!CreateCampaign PROVE PlansInv' /\ Plans!ApprovedScheduled
<1>1. PICK rows \in (SUBSET Variants) \ {{}} :
        variant' = [v \in Variants |-> [exists |-> v \in rows, post |-> 0, stamp |-> 1]]
  BY DEF Plans!CreateCampaign
<1>2. /\ campaign.status = "none" /\ campaign' = [status |-> "live", stamp |-> 1] /\ UNCHANGED <<post, txn>>
  BY DEF Plans!CreateCampaign
<1>3. /\ \A g \in Callers : txn[g].op = "plan" => txn[g].pc # "commit"
      /\ \A p \in Plans!Posts : ~Plans!IsPost(p) /\ post[p].status = "none"
  BY <1>2, BeforeCampaign
<1>4. campaign' \in CampaignRow /\ campaign'.status = "live" /\ 0 \in 0..MaxPosts /\ 0 \notin Plans!Posts
  BY <1>2, PlanNumbers DEF CampaignRow, Plans!PlansOK
<1>5. ASSUME NEW v \in Variants
      PROVE  /\ variant'[v] \in VariantRecord /\ variant'[v].post = 0 /\ variant'[v].stamp # 0
             /\ variant'[v].exists <=> v \in rows
  <2>1. variant'[v] = [exists |-> v \in rows, post |-> 0, stamp |-> 1]
    BY <1>1
  <2>2. CASE v \in rows
    <3>1. variant'[v] = [exists |-> TRUE, post |-> 0, stamp |-> 1]
      BY <2>1, <2>2
    <3> QED
      BY <1>4, <2>2, <3>1 DEF VariantRecord
  <2>3. CASE v \notin rows
    <3>1. variant'[v] = [exists |-> FALSE, post |-> 0, stamp |-> 1]
      <4>1. (v \in rows) = FALSE
        BY <2>3
      <4> QED
        BY <2>1, <4>1
    <3> QED
      BY <1>4, <2>3, <3>1 DEF VariantRecord
  <2> QED
    BY <2>2, <2>3
<1>6. TablesOK'
  <2>1. variant' \in [Variants -> VariantRecord]
    BY <1>1, <1>5
  <2> QED
    BY <1>2, <1>4, <2>1 DEF PlansInv, TablesOK
<1>7. CampaignSound'
  <2>1. \A p \in Plans!Posts : ~Plans!IsPost(p)'
    BY <1>2, <1>3 DEF Plans!IsPost
  <2>2. \E v \in Variants : variant'[v].exists
    BY <1>5
  <2> QED
    BY <1>4, <1>5, <2>1, <2>2 DEF CampaignSound
<1>8. txn' \in [Callers -> PlanTxn]
  BY <1>2 DEF PlansInv
<1>9. PlansInv'
  BY <1>2, <1>3, <1>6, <1>7, <1>8, TxnWrites
<1> QED
  BY <1>2, <1>9 DEF Plans!ApprovedScheduled

LEMMA PlanAroundKept ==
  ASSUME Plans!PlansOK, PlansInv, NEW around \in PostRecord, around.of \in Variants, around.status = "draft", Plans!PlanAround(around)
  PROVE  PlansInv' /\ Plans!ApprovedScheduled
<1> DEFINE w == around.of
           r == [exists |-> TRUE, post |-> 1, stamp |-> 1]
<1>1. /\ campaign.status = "none" /\ campaign' = [status |-> "live", stamp |-> 1] /\ txn' = txn
      /\ variant' = [variant EXCEPT ![w] = r] /\ post' = [post EXCEPT ![1] = around]
  BY DEF Plans!PlanAround
<1>2. /\ \A g \in Callers : txn[g].op = "plan" => txn[g].pc # "commit"
      /\ \A p \in Plans!Posts : ~Plans!IsPost(p) /\ post[p].status = "none"
      /\ \A v \in Variants : ~variant[v].exists /\ variant[v].post = 0
  BY <1>1, BeforeCampaign
<1>3. campaign' \in CampaignRow /\ campaign'.status = "live" /\ 1 \in 0..MaxPosts /\ 0 \notin Plans!Posts /\ 1 \in Plans!Posts
  BY <1>1, PlanNumbers DEF CampaignRow, Plans!PlansOK
<1>4. r \in VariantRecord /\ r.exists /\ r.post = 1 /\ r.stamp = 1
  BY <1>3 DEF VariantRecord
<1>5. variant \in [Variants -> VariantRecord] /\ post \in [Plans!Posts -> PostRecord]
  BY DEF PlansInv, TablesOK
<1> HIDE DEF r
<1>6. /\ variant' \in [Variants -> VariantRecord] /\ variant'[w] = r
      /\ \A v \in Variants : v # w => variant'[v] = variant[v]
  BY <1>1, <1>4, <1>5
<1>7. /\ post' \in [Plans!Posts -> PostRecord] /\ post'[1] = around
      /\ \A p \in Plans!Posts : p # 1 => post'[p] = post[p]
  BY <1>1, <1>3, <1>5
<1>8. \A p \in Plans!Posts : Plans!IsPost(p)' <=> p = 1
  BY <1>2, <1>7 DEF Plans!IsPost
<1>9. TablesOK'
  BY <1>3, <1>6, <1>7 DEF TablesOK
<1>10. CampaignSound'
  <2>1. \A p \in Plans!Posts, v \in Variants : variant'[v].post = p <=> Plans!IsPost(p)' /\ post'[p].of = v
    BY <1>2, <1>3, <1>4, <1>6, <1>7, <1>8
  <2>2. \A v \in Variants : /\ variant'[v].exists \/ variant'[v].post = 0
                            /\ variant'[v].stamp = 0 => ~variant'[v].exists
    BY <1>2, <1>4, <1>6
  <2>3. \A p \in Plans!Posts : Plans!IsPost(p)' => post'[p].of \in Variants
    BY <1>7, <1>8
  <2>4. \E v \in Variants : variant'[v].exists
    BY <1>4, <1>6
  <2> QED
    BY <1>3, <2>1, <2>2, <2>3, <2>4 DEF CampaignSound
<1>11. txn' \in [Callers -> PlanTxn]
  BY <1>1 DEF PlansInv
<1>12. PlansInv'
  BY <1>1, <1>2, <1>3, <1>9, <1>10, <1>11, TxnWrites
<1> QED
  BY <1>2, <1>7, <1>12 DEF Plans!ApprovedScheduled

LEMMA AroundDraftKept ==
  ASSUME Plans!PlansOK, PlansInv, Plans!CreateCampaignFromExistingDraft \/ Plans!CreateAnalyticsRepeatPlan
  PROVE  PlansInv' /\ Plans!ApprovedScheduled
<1>1. CASE Plans!CreateAnalyticsRepeatPlan
  <2>1. PICK v \in Variants : Plans!PlanAround(Plans!NewPost(v))
    BY <1>1 DEF Plans!CreateAnalyticsRepeatPlan
  <2> QED
    BY <2>1, PlanNumbers, NewPostIs, PlanAroundKept
<1>2. CASE Plans!CreateCampaignFromExistingDraft
  <2>1. PICK v \in Variants, n \in 1..2, approved \in {{}, {1}} :
          Plans!PlanAround([Plans!NewPost(v) EXCEPT !.revision = n, !.approved = approved])
    BY <1>2 DEF Plans!CreateCampaignFromExistingDraft
  <2> DEFINE around == [Plans!NewPost(v) EXCEPT !.revision = n, !.approved = approved]
  <2>2. v \in Nat /\ n \in Nat /\ approved \in SUBSET Nat
    BY PlanNumbers
  <2>3. around \in PostRecord /\ around.of = v /\ around.status = "draft"
    BY <2>2 DEF PostRecord, NextStatus, Plans!NewPost, Plans!NoPost
  <2> HIDE DEF around
  <2>4. Plans!PlanAround(around)
    BY <2>1 DEF around
  <2> QED
    BY <2>3, <2>4, PlanAroundKept
<1> QED
  BY <1>1, <1>2
----------------------------------------------------------------------------
LEMMA PlansInit == ASSUME Plans!PlansOK, Plans!Init PROVE PlansInv
<1>1. campaign \in CampaignRow /\ campaign.status = "none"
  BY DEF Plans!Init, CampaignRow
<1>2. \A v \in Variants : variant[v] \in VariantRecord /\ ~variant[v].exists /\ variant[v].post = 0
  BY DEF Plans!Init, VariantRecord, Plans!PlansOK
<1>3. Plans!NoPost \in PostRecord /\ Plans!NoPost.status = "none"
  BY DEF Plans!NoPost, PostRecord
<1>4. \A p \in Plans!Posts : post[p] = Plans!NoPost
  BY DEF Plans!Init
<1>5. TablesOK
  BY <1>1, <1>2, <1>3 DEF Plans!Init, TablesOK
<1>6. CampaignSound
  BY <1>1, <1>2, <1>3, <1>4, PlanNumbers DEF CampaignSound, Plans!IsPost
<1>7. txn \in [Callers -> PlanTxn] /\ \A h \in Callers : txn[h] = Plans!Idle
  BY IdleTxnIs DEF Plans!Init, TxnShape
<1>8. \A h \in Callers : TxnFits(h)
  BY <1>7, IdleTxnIs DEF TxnFits, PlanCalls, Plans!PostCalls
<1> QED
  BY <1>5, <1>6, <1>7, <1>8, IdleTxnIs DEF PlansInv

LEMMA PlansStep == ASSUME Plans!PlansOK, PlansInv, [Plans!Next]_(Plans!campaigns) PROVE PlansInv' /\ [Plans!ApprovedScheduled]_(Plans!campaigns)
<1>1. ASSUME UNCHANGED Plans!campaigns PROVE PlansInv'
  <2>1. UNCHANGED <<campaign, variant, post, txn>>
    BY <1>1 DEF Plans!campaigns
  <2> QED
    BY <2>1 DEF PlansInv, TablesOK, CampaignSound, TxnShape, TxnFits, Plans!IsPost, Plans!Approved
<1>2. post' = post => Plans!ApprovedScheduled
  BY DEF Plans!ApprovedScheduled
<1>3. ASSUME Plans!CreateCampaign PROVE PlansInv' /\ Plans!ApprovedScheduled
  BY <1>3, CreateKept
<1>4. ASSUME Plans!CreateCampaignFromExistingDraft \/ Plans!CreateAnalyticsRepeatPlan PROVE PlansInv' /\ Plans!ApprovedScheduled
  BY <1>4, AroundDraftKept
<1>5. ASSUME NEW p \in Plans!Posts, Plans!Revise(p) \/ Plans!Approve(p) PROVE PlansInv' /\ Plans!ApprovedScheduled
  BY <1>5, RevisionsKept
<1>6. ASSUME NEW h \in Callers,
             \/ Plans!BeginMaterialize(h) \/ Plans!BeginUpdateCampaign(h) \/ Plans!BeginAddVariants(h)
             \/ Plans!BeginChangeVariant(h)
      PROVE  PlansInv' /\ post' = post
  BY <1>6, PlanBeginsKept
     DEF Plans!BeginMaterialize, Plans!BeginUpdateCampaign, Plans!BeginAddVariants, Plans!BeginChangeVariant
<1>7. ASSUME NEW h \in Callers, Plans!BeginReschedule(h) \/ Plans!BeginBatchSchedule(h) \/ Plans!BeginLifecycle(h)
      PROVE  PlansInv' /\ post' = post
  BY <1>7, PostBeginsKept DEF Plans!BeginReschedule, Plans!BeginBatchSchedule, Plans!BeginLifecycle
<1>8. ASSUME NEW h \in Callers,
             \/ Plans!LockCampaign(h) \/ Plans!ReadPlan(h) \/ Plans!LockEditedVariant(h)
             \/ Plans!LockSchedulePost(h) \/ Plans!LockVariants(h) \/ Plans!LockTop(h)
      PROVE  PlansInv' /\ post' = post
  BY <1>8, LockCampaignKept, ReadPlanKept, LockEditedKept, LockPostKept, LockVariantsKept, LockTopKept
     DEF Plans!LockCampaign, Plans!ReadPlan, Plans!LockEditedVariant, Plans!LockSchedulePost, Plans!LockVariants, Plans!LockTop
<1>9. ASSUME NEW h \in Callers, Plans!DeadlockAborts(h) PROVE PlansInv' /\ post' = post
  BY <1>9, TxnEnds DEF Plans!DeadlockAborts
<1>10. ASSUME NEW h \in Callers,
              \/ Plans!MaterializeCampaign(h) \/ Plans!UpdateCampaign(h) \/ Plans!ArchiveCampaign(h)
              \/ Plans!AddCampaignVariants(h) \/ Plans!UpdateCampaignVariant(h) \/ Plans!DeleteCampaignVariant(h)
              \/ Plans!WritePosts(h)
       PROVE  PlansInv' /\ Plans!ApprovedScheduled
  BY <1>10, MaterializeKept, UpdateKept, AddKept, ChangeVariantKept, WritePostsKept
<1>11. ASSUME Plans!Next PROVE PlansInv' /\ Plans!ApprovedScheduled
  BY <1>2, <1>3, <1>4, <1>5, <1>6, <1>7, <1>8, <1>9, <1>10, <1>11 DEF Plans!Next
<1> QED
  BY <1>1, <1>11

\* The inductive invariant of a campaign's plan: what a transaction read under its locks stays as it was, and its locks
\* are those it took from the lowest post to the campaign.
THEOREM PlansSound == Plans!PlansOK /\ PlansSpec => []PlansInv
<1> SUFFICES ASSUME Plans!PlansOK PROVE PlansSpec => []PlansInv
  OBVIOUS
<1>1. Plans!Init => PlansInv
  BY PlansInit
<1>2. PlansInv /\ [Plans!Next]_(Plans!campaigns) => PlansInv'
  BY PlansStep
<1> QED
  BY <1>1, <1>2, PTL DEF PlansSpec

LEMMA InvMaterializes == ASSUME Plans!PlansOK, PlansInv PROVE Plans!MaterializedOnce /\ Plans!KeepsVariant
<1>1. ASSUME NEW p \in Plans!Posts, Plans!IsPost(p) PROVE Plans!VariantsOf(p) = {post[p].of}
  <2>1. post[p].of \in Variants /\ \A v \in Variants : variant[v].post = p <=> post[p].of = v
    BY <1>1 DEF PlansInv, CampaignSound
  <2>2. \A v \in Variants : variant[v].post = p => variant[v].exists
    BY PlanNumbers DEF PlansInv, CampaignSound
  <2> QED
    BY <2>1, <2>2 DEF Plans!VariantsOf, Plans!Planned
<1>2. Plans!KeepsVariant
  BY DEF PlansInv, CampaignSound, Plans!KeepsVariant, Plans!Planned
<1> QED
  BY <1>1, <1>2 DEF Plans!MaterializedOnce

\* However plans, schedules and the posts' own handlers interleave, a variant has one post at most, every post is its
\* variant's own, and a campaign keeps a variant.
THEOREM VariantsBecomeOnePost == Plans!PlansOK /\ PlansSpec => [](Plans!MaterializedOnce /\ Plans!KeepsVariant)
<1> SUFFICES ASSUME Plans!PlansOK PROVE PlansSpec => [](Plans!MaterializedOnce /\ Plans!KeepsVariant)
  OBVIOUS
<1>1. PlansInv => Plans!MaterializedOnce /\ Plans!KeepsVariant
  BY InvMaterializes
<1> QED
  BY <1>1, PlansSound, PTL

\* No call schedules a post whose current revision nobody approved, or changes the revision it schedules.
THEOREM ApprovedIsScheduled == Plans!PlansOK /\ PlansSpec => [][Plans!ApprovedScheduled]_(Plans!campaigns)
<1> SUFFICES ASSUME Plans!PlansOK PROVE PlansSpec => [][Plans!ApprovedScheduled]_(Plans!campaigns)
  OBVIOUS
<1>1. PlansInv /\ [Plans!Next]_(Plans!campaigns) => [Plans!ApprovedScheduled]_(Plans!campaigns)
  BY PlansStep
<1> QED
  BY <1>1, PlansSound, PTL DEF PlansSpec

\* Who wants a row for its posts holds lower ones only.
LEMMA WantsHigher ==
  ASSUME Plans!PlansOK, PlansInv, NEW h \in Callers, txn[h].op \in Plans!PostCalls
  PROVE  /\ txn[h].pc = "posts" =>
              LET q == Plans!Lowest(Plans!Unlocked(h)) IN
              q \in Plans!Posts /\ \A p \in Nat : Plans!PostRow(p) \in txn[h].has => p < q
         /\ txn[h].pc = "variants" /\ Plans!ToLock(h) # {} =>
              LET w == Plans!Lowest(Plans!ToLock(h)) IN
              w \in Variants /\ \A v \in Nat : Plans!VariantRow(v) \in txn[h].has => v < w
<1>1. TxnShape(txn[h]) /\ TxnFits(h) /\ txn[h] \in PlanTxn
  BY DEF PlansInv
<1>2. ASSUME txn[h].pc = "posts", NEW q, q = Plans!Lowest(Plans!Unlocked(h))
      PROVE  q \in Plans!Posts /\ \A p \in Nat : Plans!PostRow(p) \in txn[h].has => p < q
  <2>1. Plans!Unlocked(h) \subseteq Nat /\ Plans!Unlocked(h) # {}
    BY <1>1, <1>2 DEF TxnShape, PlanTxn, Plans!Unlocked
  <2>2. q \in Plans!Unlocked(h)
    BY <1>2, <2>1, LowestIs
  <2>3. q \in txn[h].on /\ Plans!PostRow(q) \notin txn[h].has
    BY <2>2 DEF Plans!Unlocked
  <2> QED
    BY <1>1, <2>3 DEF TxnShape
<1>3. ASSUME txn[h].pc = "variants", Plans!ToLock(h) # {}, NEW w, w = Plans!Lowest(Plans!ToLock(h))
      PROVE  w \in Variants /\ \A v \in Nat : Plans!VariantRow(v) \in txn[h].has => v < w
  <2>1. \A p \in txn[h].on : Plans!PostRow(p) \in txn[h].has
    BY <1>1, <1>3 DEF TxnShape
  <2>2. \A p \in txn[h].on : Plans!VariantsOf(p) = {post[p].of} /\ post[p].of \in Variants
    BY <2>1, VariantOfLocked
  <2>3. \A v \in Plans!ToLock(h) : Plans!VariantRow(v) \notin txn[h].has /\ \E p \in txn[h].on : v \in Plans!VariantsOf(p)
    BY DEF Plans!ToLock
  <2>4. Plans!ToLock(h) \subseteq Nat
    BY <2>2, <2>3, PlanNumbers
  <2>5. w \in Plans!ToLock(h)
    BY <1>3, <2>4, LowestIs
  <2>6. PICK p \in txn[h].on : w \in Plans!VariantsOf(p)
    BY <2>3, <2>5
  <2>7. w = post[p].of /\ w \in Variants /\ Plans!VariantRow(w) \notin txn[h].has /\ Plans!PostRow(p) \in txn[h].has
    BY <2>1, <2>2, <2>3, <2>5, <2>6
  <2> QED
    BY <1>1, <2>7 DEF TxnFits
<1> QED
  BY <1>2, <1>3

\* Without a change of a variant all that wait for each other wait for variants or posts, each for a higher one.
LEMMA InvOrdersLocks == ASSUME Plans!PlansOK, PlansInv PROVE Plans!LocksOrdered
<1> SUFFICES ASSUME NEW some \in SUBSET Callers, Plans!Cycle(some), \A h \in some : txn[h].op # "edit" PROVE FALSE
  BY DEF Plans!LocksOrdered
<1>1. some # {} /\ \A h \in some : \E g \in some : Plans!Wanted(h) \cap txn[g].has # {}
  BY DEF Plans!Cycle, Plans!WaitsFor
<1>2. ASSUME NEW h \in some PROVE Plans!TheCampaign \notin txn[h].has
  <2>1. TxnShape(txn[h]) /\ txn[h] \in PlanTxn /\ Plans!Wanted(h) # {} /\ txn[h].op # "edit"
    BY <1>1, <1>2 DEF PlansInv
  <2>2. txn[h].pc \notin {"idle", "read", "commit", "write"}
    BY <2>1 DEF Plans!Wanted
  <2> QED
    BY <2>1, <2>2, OpKinds DEF TxnShape, PlanTxn
<1>3. ASSUME NEW h \in some
      PROVE  /\ txn[h].op \in Plans!PostCalls
             /\ \/ txn[h].pc = "posts" /\ Plans!Wanted(h) = {Plans!PostRow(Plans!Lowest(Plans!Unlocked(h)))}
                \/ /\ txn[h].pc = "variants" /\ Plans!ToLock(h) # {}
                   /\ Plans!Wanted(h) = {Plans!VariantRow(Plans!Lowest(Plans!ToLock(h)))}
  <2>1. TxnShape(txn[h]) /\ txn[h] \in PlanTxn /\ txn[h].op # "edit" /\ Plans!Wanted(h) # {}
    BY <1>1, <1>3 DEF PlansInv
  <2>2. Plans!Wanted(h) # {Plans!TheCampaign}
    BY <1>1, <1>2, <1>3
  <2>3. txn[h].pc \notin {"campaign", "top", "idle", "read", "commit", "write"}
    BY <2>1, <2>2 DEF Plans!Wanted
  <2>4. txn[h].op \in Plans!PostCalls /\ txn[h].pc \in {"posts", "variants"}
    BY <2>1, <2>3, OpKinds DEF TxnShape, PlanTxn
  <2> QED
    BY <2>1, <2>4 DEF Plans!Wanted
<1> DEFINE WantedVariant(h) == Plans!Lowest(Plans!ToLock(h))
           WantedPost(h) == Plans!Lowest(Plans!Unlocked(h))
           V == {v \in Variants : \E h \in some : txn[h].pc = "variants" /\ v = WantedVariant(h)}
           P == {p \in Plans!Posts : \E h \in some : txn[h].pc = "posts" /\ p = WantedPost(h)}
<1>4. ASSUME NEW h \in some
      PROVE  /\ txn[h].pc = "posts" =>
                  /\ WantedPost(h) \in Plans!Posts
                  /\ \A p \in Nat : Plans!PostRow(p) \in txn[h].has => p < WantedPost(h)
             /\ txn[h].pc = "variants" =>
                  /\ WantedVariant(h) \in Variants
                  /\ \A v \in Nat : Plans!VariantRow(v) \in txn[h].has => v < WantedVariant(h)
             /\ txn[h].pc = "posts" => \A v \in Nat : Plans!VariantRow(v) \notin txn[h].has
  <2>1. h \in Callers /\ TxnShape(txn[h])
    BY DEF PlansInv
  <2> QED
    BY <1>3, <2>1, WantsHigher DEF TxnShape
<1> HIDE DEF WantedVariant, WantedPost
<1>5. \A v \in V : \E w \in V : v < w
  <2> SUFFICES ASSUME NEW v \in V PROVE \E w \in V : v < w
    OBVIOUS
  <2>1. PICK h \in some : txn[h].pc = "variants" /\ v = WantedVariant(h)
    OBVIOUS
  <2>2. PICK g \in some : Plans!VariantRow(v) \in txn[g].has
    BY <1>1, <1>3, <2>1 DEF WantedVariant
  <2>3. v \in Nat
    BY PlanNumbers
  <2>4. txn[g].pc = "variants"
    BY <1>3, <1>4, <2>2, <2>3
  <2>5. WantedVariant(g) \in V /\ v < WantedVariant(g)
    BY <1>4, <2>2, <2>3, <2>4
  <2> QED
    BY <2>5
<1>6. V = {}
  <2>1. PICK n \in Nat : Variants = 1..n
    BY VariantNumbers
  <2>2. V \subseteq 0..n
    BY <2>1
  <2> HIDE DEF V
  <2> QED
    BY <1>5, <2>2, NoAscent
<1>7. \A h \in some : txn[h].pc = "posts"
  BY <1>3, <1>4, <1>6
<1>8. \A p \in P : \E q \in P : p < q
  <2> SUFFICES ASSUME NEW p \in P PROVE \E q \in P : p < q
    OBVIOUS
  <2>1. PICK h \in some : txn[h].pc = "posts" /\ p = WantedPost(h)
    OBVIOUS
  <2>2. PICK g \in some : Plans!PostRow(p) \in txn[g].has
    BY <1>1, <1>3, <2>1 DEF WantedPost
  <2>3. p \in Nat
    BY PlanNumbers
  <2>4. WantedPost(g) \in P /\ p < WantedPost(g)
    BY <1>4, <1>7, <2>2, <2>3
  <2> QED
    BY <2>4
<1>9. P = {}
  <2>1. P \subseteq 0..MaxPosts /\ MaxPosts \in Nat
    BY DEF Plans!PlansOK, Plans!Posts
  <2> HIDE DEF P
  <2> QED
    BY <1>8, <2>1, NoAscent
<1>10. PICK h \in some : TRUE
  BY <1>1
<1>11. WantedPost(h) \in P
  BY <1>4, <1>7
<1> QED
  BY <1>9, <1>11

\* Transactions of any number of posts and variants wait for each other in a circle only if one of them edits a variant.
THEOREM PlanLocksOrdered == Plans!PlansOK /\ PlansSpec => []Plans!LocksOrdered
<1> SUFFICES ASSUME Plans!PlansOK PROVE PlansSpec => []Plans!LocksOrdered
  OBVIOUS
<1>1. PlansInv => Plans!LocksOrdered
  BY InvOrdersLocks
<1> QED
  BY <1>1, PlansSound, PTL
----------------------------------------------------------------------------
(* SignIn: a session is for the user its account belongs to. *)
SignIns == INSTANCE SignIn
SignInsSpec == SignIns!Init /\ [][SignIns!Next]_(SignIns!signin)

Persons == Owners \cup Attempts
AttemptRow == [status : {"none", "gone", "pending", "awaiting", "verified", "expired", "failed"},
               user : Accounts \cup {Nobody}, contact : Nat, born : Nat]
PressRow == [what : {"contact", "confirm"}, user : Accounts, k : Attempts \cup {0}]
AskRow == [n : Int, status : {"none", "pending", "awaiting", "expired", "failed", "linked"},
           user : Accounts \cup {Nobody}, sending : BOOLEAN]
SessionRow == [owner : Persons \cup {Nobody}, user : Accounts \cup {Nobody}]
Contacted(u) == \E i \in DOMAIN presses : presses[i].what = "contact" /\ presses[i].user = u
ConfirmedBy(k, u) == \E i \in DOMAIN presses : presses[i] = [what |-> "confirm", user |-> u, k |-> k]

\* A verified attempt was confirmed for its account, and stays verified while its session is being written.
AttemptSound(k) ==
  /\ attempt[k].status \in {"awaiting", "verified"} => attempt[k].user \in Accounts
  /\ attempt[k].status = "verified" => ConfirmedBy(k, attempt[k].user)
  /\ deal[k] # Nobody => attempt[k].status = "verified" /\ deal[k] \in Persons
AskSound(o) ==
  /\ ask[o].status = "awaiting" => ask[o].user \in Accounts
  /\ deal[o] # Nobody => deal[o] \in Accounts
SignInsInv ==
  /\ attempt \in [Attempts -> AttemptRow] /\ presses \in Seq(PressRow)
  /\ ask \in [Owners -> AskRow]
  /\ identity \in [Accounts -> Persons \cup {Nobody}] /\ linked \in [Persons -> Accounts \cup {Nobody}]
  /\ deal \in [Persons -> Accounts \cup Persons \cup {Nobody}]
  /\ session \in [Attempts -> SessionRow]
  /\ profile \subseteq Accounts /\ \A u \in profile : Contacted(u)
  /\ \A k \in Attempts : AttemptSound(k)
  /\ \A o \in Owners : AskSound(o)
  /\ \A k \in Attempts : session[k].owner # Nobody => session[k].user \in Accounts
  /\ SignIns!SessionsProven

\* Steps that write neither of the two tables.
LEMMA TablesStay ==
  ASSUME SignIns!SignInOK, SignInsInv, UNCHANGED <<identity, linked, session>>,
         presses' \in Seq(PressRow), \A i \in DOMAIN presses : i \in DOMAIN presses' /\ presses'[i] = presses[i],
         attempt' \in [Attempts -> AttemptRow], ask' \in [Owners -> AskRow],
         deal' \in [Persons -> Accounts \cup Persons \cup {Nobody}],
         profile' \subseteq Accounts, \A u \in profile' : u \in profile \/ Contacted(u)',
         \A k \in Attempts : (attempt'[k] = attempt[k] /\ deal'[k] = deal[k]) \/ AttemptSound(k)',
         \A o \in Owners : (ask'[o] = ask[o] /\ deal'[o] = deal[o]) \/ AskSound(o)'
  PROVE  SignInsInv'
<1>1. \A u : Contacted(u) => Contacted(u)'
  BY DEF Contacted
<1>2. \A k, u : ConfirmedBy(k, u) => ConfirmedBy(k, u)'
  BY DEF ConfirmedBy
<1>3. \A u \in profile' : Contacted(u)'
  BY <1>1 DEF SignInsInv
<1>4. \A k \in Attempts : AttemptSound(k)'
  BY <1>2 DEF SignInsInv, AttemptSound
<1>5. \A o \in Owners : AskSound(o)'
  BY DEF SignInsInv, AskSound
<1>6. SignIns!SessionsProven'
  <2>1. \A u \in Accounts : identity[u] # Nobody => linked[identity[u]] = u
    BY DEF SignInsInv, SignIns!SessionsProven
  <2>2. ASSUME NEW k \in Attempts, session[k].owner # Nobody
        PROVE  /\ identity[session[k].user] = session[k].owner
               /\ ConfirmedBy(k, session[k].user)' /\ Contacted(session[k].user)'
    <3>1. /\ identity[session[k].user] = session[k].owner
          /\ ConfirmedBy(k, session[k].user) /\ Contacted(session[k].user)
      BY <2>2 DEF SignInsInv, SignIns!SessionsProven, ConfirmedBy, Contacted
    <3> QED
      BY <3>1, <1>1, <1>2
  <2> QED
    BY <2>1, <2>2 DEF SignIns!SessionsProven, ConfirmedBy, Contacted
<1> QED
  BY <1>3, <1>4, <1>5, <1>6 DEF SignInsInv

\* Steps about the rows of attempts; a press stays where it is.
LEMMA AttemptsMove ==
  ASSUME SignIns!SignInOK, SignInsInv, UNCHANGED <<presses, ask, identity, linked, deal, session>>,
         attempt' \in [Attempts -> AttemptRow],
         profile' \subseteq Accounts, \A u \in profile' : u \in profile \/ Contacted(u),
         \A k \in Attempts :
           \/ attempt'[k] = attempt[k]
           \/ deal[k] = Nobody /\ attempt'[k].status \notin {"awaiting", "verified"}
           \/ deal[k] = Nobody /\ attempt'[k].status = "awaiting" /\ attempt'[k].user \in Accounts
           \/ deal[k] = Nobody /\ attempt'[k].user \in Accounts /\ ConfirmedBy(k, attempt'[k].user)
  PROVE  SignInsInv'
<1>1. \A k \in Attempts : (attempt'[k] = attempt[k] /\ deal'[k] = deal[k]) \/ AttemptSound(k)'
  BY DEF AttemptSound, ConfirmedBy
<1>2. \A u \in profile' : u \in profile \/ Contacted(u)'
  BY DEF Contacted
<1>3. \A o \in Owners : ask'[o] = ask[o] /\ deal'[o] = deal[o]
  OBVIOUS
<1>4. /\ presses' \in Seq(PressRow) /\ \A i \in DOMAIN presses : i \in DOMAIN presses' /\ presses'[i] = presses[i]
      /\ ask' \in [Owners -> AskRow] /\ deal' \in [Persons -> Accounts \cup Persons \cup {Nobody}]
  BY DEF SignInsInv
<1> QED
  BY <1>1, <1>2, <1>3, <1>4, TablesStay

LEMMA GoneRows ==
  ASSUME SignIns!SignInOK, SignInsInv, NEW rows, rows \subseteq Attempts, \A k \in rows : deal[k] = Nobody,
         attempt' = SignIns!Gone(rows)
  PROVE  /\ attempt' \in [Attempts -> AttemptRow]
         /\ \A k \in Attempts : attempt'[k] = attempt[k] \/ (deal[k] = Nobody /\ attempt'[k].status = "gone")
<1> DEFINE gone == [SignIns!NoAttempt EXCEPT !.status = "gone"]
<1>1. gone \in AttemptRow /\ gone.status = "gone"
  BY DEF SignIns!NoAttempt, AttemptRow
<1>2. attempt' = [k \in Attempts |-> IF k \in rows THEN gone ELSE attempt[k]]
  BY DEF SignIns!Gone
<1> HIDE DEF gone
<1>3. attempt \in [Attempts -> AttemptRow]
  BY DEF SignInsInv
<1> QED
  BY <1>1, <1>2, <1>3

LEMMA RowsGo ==
  ASSUME SignIns!SignInOK, SignInsInv, NEW rows, rows \subseteq Attempts, \A k \in rows : deal[k] = Nobody,
         attempt' = SignIns!Gone(rows), profile' \subseteq profile,
         UNCHANGED <<presses, ask, identity, linked, deal, session>>
  PROVE  SignInsInv'
<1>1. profile' \subseteq Accounts
  BY DEF SignInsInv
<1> QED
  BY <1>1, GoneRows, AttemptsMove

LEMMA KeptShrinks == ASSUME NEW a, NEW r PROVE SignIns!Kept(a, r) \subseteq profile
BY DEF SignIns!Kept

\* What is written to one row.
LEMMA RowWritten ==
  ASSUME SignInsInv, NEW k \in Attempts, NEW s \in {"pending", "awaiting", "verified", "expired", "failed"}
  PROVE  /\ [attempt[k] EXCEPT !.status = s] \in AttemptRow /\ [attempt[k] EXCEPT !.status = s].status = s
         /\ [attempt[k] EXCEPT !.status = s].user = attempt[k].user
<1>1. attempt[k] \in AttemptRow
  BY DEF SignInsInv
<1> QED
  BY <1>1 DEF AttemptRow

LEMMA CreateMAXAuthKept ==
  ASSUME SignIns!SignInOK, SignInsInv, NEW k \in Attempts, SignIns!CreateMAXAuthAttempt(k) PROVE SignInsInv'
<1>1. Len(presses) \in Nat
  BY DEF SignInsInv
<1> DEFINE fresh == [SignIns!NoAttempt EXCEPT !.status = "pending", !.born = Len(presses)]
           ended(j) == [attempt[j] EXCEPT !.status = "expired"]
<1>2. fresh \in AttemptRow /\ fresh.status = "pending"
  BY <1>1 DEF SignIns!NoAttempt, AttemptRow
<1>3. attempt' = [j \in Attempts |->
         IF j = k THEN fresh ELSE IF j \in over /\ SignIns!IsOpen(j) THEN ended(j) ELSE attempt[j]]
  BY DEF SignIns!CreateMAXAuthAttempt
<1>4. \A j \in Attempts : ended(j) \in AttemptRow /\ ended(j).status = "expired"
  BY RowWritten, Zenon
<1> HIDE DEF fresh, ended
<1>5. attempt \in [Attempts -> AttemptRow] /\ profile \subseteq Accounts
  BY DEF SignInsInv
<1>6. deal[k] = Nobody
  BY DEF SignIns!CreateMAXAuthAttempt, SignIns!Status, SignInsInv, AttemptSound
<1>7. \A j \in over : deal[j] = Nobody
  BY DEF SignIns!CreateMAXAuthAttempt, SignIns!Unlocked
<1>8. UNCHANGED <<presses, ask, identity, linked, deal, session, profile>>
  BY DEF SignIns!CreateMAXAuthAttempt
<1>9. attempt' \in [Attempts -> AttemptRow]
  BY <1>2, <1>3, <1>4, <1>5
<1>10. \A j \in Attempts : attempt'[j] = attempt[j] \/ (deal[j] = Nobody /\ attempt'[j].status \notin {"awaiting", "verified"})
  BY <1>2, <1>3, <1>4, <1>6, <1>7
<1> QED
  BY <1>5, <1>8, <1>9, <1>10, AttemptsMove

LEMMA StartContactKept ==
  ASSUME SignIns!SignInOK, SignInsInv, NEW k \in Attempts, NEW u \in Accounts, SignIns!StartMAXAuthContact(k, u) PROVE SignInsInv'
<1>1. UNCHANGED <<presses, ask, identity, linked, deal, session, profile>> /\ deal[k] = Nobody
  BY DEF SignIns!StartMAXAuthContact, SignIns!Unlocked
<1>2. CASE k \in over
  <2>1. attempt' = SignIns!Gone({k})
    BY <1>2 DEF SignIns!StartMAXAuthContact
  <2> QED
    BY <1>1, <2>1, RowsGo
<1>3. CASE k \notin over
  <2> DEFINE bound == [attempt[k] EXCEPT !.status = "awaiting", !.user = u]
             superseded(j) == [attempt[j] EXCEPT !.status = "failed"]
  <2>1. attempt' = [j \in Attempts |->
          IF j = k THEN bound
          ELSE IF attempt[j].user = u /\ attempt[j].status = "awaiting" THEN superseded(j) ELSE attempt[j]]
    BY <1>3 DEF SignIns!StartMAXAuthContact, SignIns!Status
  <2>2. bound \in AttemptRow /\ bound.status = "awaiting" /\ bound.user = u
    <3>1. attempt[k] \in AttemptRow
      BY DEF SignInsInv
    <3> QED
      BY <3>1 DEF AttemptRow
  <2>3. \A j \in Attempts : superseded(j) \in AttemptRow /\ superseded(j).status = "failed"
    BY RowWritten, Zenon
  <2> HIDE DEF bound, superseded
  <2>4. attempt \in [Attempts -> AttemptRow] /\ profile \subseteq Accounts
    BY DEF SignInsInv
  <2>5. \A j \in Attempts : attempt[j].status = "awaiting" => deal[j] = Nobody
    BY DEF SignInsInv, AttemptSound
  <2>6. attempt' \in [Attempts -> AttemptRow]
    BY <2>1, <2>2, <2>3, <2>4
  <2>7. \A j \in Attempts :
          \/ attempt'[j] = attempt[j]
          \/ deal[j] = Nobody /\ attempt'[j].status \notin {"awaiting", "verified"}
          \/ deal[j] = Nobody /\ attempt'[j].status = "awaiting" /\ attempt'[j].user \in Accounts
    BY <1>1, <2>1, <2>2, <2>3, <2>5
  <2> QED
    BY <1>1, <2>4, <2>6, <2>7, AttemptsMove
<1> QED
  BY <1>2, <1>3

LEMMA SendRequestKept ==
  ASSUME SignIns!SignInOK, SignInsInv, NEW k \in Attempts, SignIns!SendContactRequest(k) PROVE SignInsInv'
<1>1. UNCHANGED <<presses, ask, identity, linked, deal, session, profile>>
  BY DEF SignIns!SendContactRequest
<1>2. attempt \in [Attempts -> AttemptRow] /\ profile \subseteq Accounts
  BY DEF SignInsInv
<1>3. CASE attempt' = attempt
  BY <1>1, <1>2, <1>3, AttemptsMove
<1>4. CASE attempt[k].status = "awaiting" /\ attempt' = [attempt EXCEPT ![k].status = "pending", ![k].user = Nobody]
  <2>1. deal[k] = Nobody
    BY <1>4 DEF SignInsInv, AttemptSound
  <2> DEFINE back == [attempt[k] EXCEPT !.status = "pending", !.user = Nobody]
  <2>2. attempt' = [attempt EXCEPT ![k] = back]
    BY <1>4
  <2>3. back \in AttemptRow /\ back.status = "pending"
    <3>1. attempt[k] \in AttemptRow
      BY DEF SignInsInv
    <3> QED
      BY <3>1 DEF AttemptRow
  <2> HIDE DEF back
  <2>4. /\ attempt' \in [Attempts -> AttemptRow]
        /\ \A j \in Attempts : attempt'[j] = attempt[j] \/ (deal[j] = Nobody /\ attempt'[j].status \notin {"awaiting", "verified"})
    BY <1>2, <2>1, <2>2, <2>3
  <2> QED
    BY <1>1, <1>2, <2>4, AttemptsMove
<1> QED
  BY <1>3, <1>4 DEF SignIns!SendContactRequest, SignIns!Status

\* A press is added at the end.
LEMMA PressKept ==
  ASSUME SignIns!SignInOK, SignInsInv, NEW e \in PressRow, presses' = Append(presses, e),
         UNCHANGED <<attempt, profile, ask, identity, linked, deal, session>>
  PROVE  SignInsInv'
<1>1. presses \in Seq(PressRow)
  BY DEF SignInsInv
<1>2. presses' \in Seq(PressRow) /\ \A i \in DOMAIN presses : i \in DOMAIN presses' /\ presses'[i] = presses[i]
  BY <1>1
<1>3. /\ attempt' \in [Attempts -> AttemptRow] /\ ask' \in [Owners -> AskRow]
      /\ deal' \in [Persons -> Accounts \cup Persons \cup {Nobody}] /\ profile' \subseteq Accounts
  BY DEF SignInsInv
<1> QED
  BY <1>2, <1>3, TablesStay

LEMMA ContactKept ==
  ASSUME SignIns!SignInOK, SignInsInv, NEW i \in DOMAIN presses, SignIns!HandleMAXAuthContactMessage(i) PROVE SignInsInv'
<1> DEFINE u == presses[i].user
<1>1. UNCHANGED <<presses, ask, identity, linked, deal, session>> /\ presses[i].what = "contact"
  BY DEF SignIns!HandleMAXAuthContactMessage, SignIns!RecordMAXAuthContact
<1>2. attempt \in [Attempts -> AttemptRow] /\ profile \subseteq Accounts /\ presses \in Seq(PressRow)
  BY DEF SignInsInv
<1>3. u \in Accounts /\ i \in Nat
  <2>1. presses[i] \in PressRow /\ i \in Nat
    BY <1>2
  <2> QED
    BY <2>1 DEF PressRow
<1>4. Contacted(u)
  BY <1>1 DEF Contacted
<1>5. PICK k \in Attempts : /\ attempt[k].user = u /\ attempt[k].status = "awaiting"
                            /\ \/ attempt' = [attempt EXCEPT ![k].contact = i] /\ profile' = profile \cup {u}
                               \/ attempt' = SignIns!Gone({k}) /\ UNCHANGED profile
  BY DEF SignIns!HandleMAXAuthContactMessage, SignIns!RecordMAXAuthContact, SignIns!Status
<1>6. deal[k] = Nobody
  BY <1>5 DEF SignInsInv, AttemptSound
<1>7. CASE attempt' = SignIns!Gone({k}) /\ UNCHANGED profile
  BY <1>1, <1>6, <1>7, RowsGo
<1>8. CASE attempt' = [attempt EXCEPT ![k].contact = i] /\ profile' = profile \cup {u}
  <2>1. attempt' = [attempt EXCEPT ![k] = [attempt[k] EXCEPT !.contact = i]]
    BY <1>8
  <2>2. /\ [attempt[k] EXCEPT !.contact = i] \in AttemptRow
        /\ [attempt[k] EXCEPT !.contact = i].status = "awaiting" /\ [attempt[k] EXCEPT !.contact = i].user = u
    <3>1. attempt[k] \in AttemptRow
      BY <1>2
    <3> QED
      BY <1>3, <1>5, <3>1 DEF AttemptRow
  <2>3. /\ attempt' \in [Attempts -> AttemptRow]
        /\ \A j \in Attempts : \/ attempt'[j] = attempt[j]
                               \/ deal[j] = Nobody /\ attempt'[j].status = "awaiting" /\ attempt'[j].user \in Accounts
    BY <1>2, <1>3, <1>6, <2>1, <2>2
  <2>4. profile' \subseteq Accounts /\ \A v \in profile' : v \in profile \/ Contacted(v)
    BY <1>2, <1>3, <1>4, <1>8
  <2> QED
    BY <1>1, <2>3, <2>4, AttemptsMove
<1> QED
  BY <1>5, <1>7, <1>8

LEMMA CallbackKept ==
  ASSUME SignIns!SignInOK, SignInsInv, NEW i \in DOMAIN presses, SignIns!HandleMAXAuthContactCallback(i) PROVE SignInsInv'
<1>1. PICK k \in Attempts : SignIns!ConfirmMAXAuthContact(k, i)
  BY DEF SignIns!HandleMAXAuthContactCallback
<1>2. UNCHANGED <<presses, ask, identity, linked, deal, session>> /\ deal[k] = Nobody
  BY <1>1 DEF SignIns!ConfirmMAXAuthContact, SignIns!Unlocked
<1>3. attempt \in [Attempts -> AttemptRow] /\ profile \subseteq Accounts /\ presses \in Seq(PressRow)
  BY DEF SignInsInv
<1>4. CASE SignIns!Confirms(k, i) /\ SignIns!Within(k, i)
  <2>1. /\ attempt' = [attempt EXCEPT ![k].status = "verified"] /\ UNCHANGED profile
        /\ presses[i].k = k /\ presses[i].user = attempt[k].user
    BY <1>1, <1>4 DEF SignIns!ConfirmMAXAuthContact, SignIns!Confirms
  <2>2. presses[i] \in PressRow /\ presses[i].what = "confirm"
    BY <1>3 DEF SignIns!HandleMAXAuthContactCallback
  <2>3. presses[i] = [what |-> "confirm", user |-> attempt[k].user, k |-> k] /\ attempt[k].user \in Accounts
    BY <2>1, <2>2 DEF PressRow
  <2>4. ConfirmedBy(k, attempt[k].user)
    BY <2>3 DEF ConfirmedBy
  <2>5. /\ [attempt[k] EXCEPT !.status = "verified"] \in AttemptRow
        /\ [attempt[k] EXCEPT !.status = "verified"].user = attempt[k].user
    BY RowWritten
  <2>6. attempt' = [attempt EXCEPT ![k] = [attempt[k] EXCEPT !.status = "verified"]]
    BY <2>1
  <2>7. attempt' \in [Attempts -> AttemptRow] /\ attempt'[k].user = attempt[k].user /\ \A j \in Attempts \ {k} : attempt'[j] = attempt[j]
    BY <1>3, <2>5, <2>6
  <2>8. \A j \in Attempts :
          \/ attempt'[j] = attempt[j]
          \/ deal[j] = Nobody /\ attempt'[j].user \in Accounts /\ ConfirmedBy(j, attempt'[j].user)
    BY <1>2, <2>3, <2>4, <2>7
  <2> QED
    BY <1>2, <1>3, <2>1, <2>7, <2>8, AttemptsMove
<1>5. CASE ~(SignIns!Confirms(k, i) /\ SignIns!Within(k, i))
  <2>1. attempt' = SignIns!Gone({k}) /\ profile' \subseteq profile
    BY <1>1, <1>5, KeptShrinks DEF SignIns!ConfirmMAXAuthContact
  <2> QED
    BY <1>2, <2>1, RowsGo
<1> QED
  BY <1>4, <1>5

\* The browser's polls, a cancellation and the purge forget rows nobody is completing.
LEMMA ForgetKept ==
  ASSUME SignIns!SignInOK, SignInsInv,
         \/ \E k \in Attempts : SignIns!GetMAXAuthAttemptForBrowser(k) \/ SignIns!CancelMAXAuthAttempt(k)
         \/ SignIns!PurgeExpiredMAXAuthAttempts
  PROVE  SignInsInv'
<1>1. CASE SignIns!PurgeExpiredMAXAuthAttempts
  BY <1>1, KeptShrinks, RowsGo DEF SignIns!PurgeExpiredMAXAuthAttempts, SignIns!Unlocked
<1>2. ASSUME NEW k \in Attempts, SignIns!GetMAXAuthAttemptForBrowser(k) \/ SignIns!CancelMAXAuthAttempt(k) PROVE SignInsInv'
  <2>1. /\ UNCHANGED <<presses, ask, identity, linked, deal, session>> /\ deal[k] = Nobody
        /\ attempt' = SignIns!Gone({k}) /\ profile' \subseteq profile
    BY <1>2, KeptShrinks DEF SignIns!GetMAXAuthAttemptForBrowser, SignIns!CancelMAXAuthAttempt, SignIns!Unlocked
  <2> QED
    BY <2>1, RowsGo
<1> QED
  BY <1>1, <1>2

LEMMA ReadMappingsKept ==
  ASSUME SignIns!SignInOK, SignInsInv, NEW k \in Attempts, SignIns!ReadMAXMappings(k) PROVE SignInsInv'
<1>1. UNCHANGED <<attempt, presses, profile, ask, identity, linked, session>> /\ attempt[k].status = "verified"
  BY DEF SignIns!ReadMAXMappings, SignIns!Status
<1>2. attempt[k].user \in Accounts
  BY <1>1 DEF SignInsInv, AttemptSound
<1>3. PICK o \in Persons : deal' = [deal EXCEPT ![k] = o]
  BY <1>2 DEF SignIns!ReadMAXMappings, SignIns!OwnersOf, SignInsInv, Persons
<1>4. \A p \in Persons \ {k} : deal'[p] = deal[p]
  BY <1>3 DEF SignInsInv
<1>5. deal' \in [Persons -> Accounts \cup Persons \cup {Nobody}] /\ deal'[k] = o
  BY <1>3 DEF SignInsInv, Persons
<1>6. AttemptSound(k)'
  BY <1>1, <1>5 DEF SignInsInv, AttemptSound, ConfirmedBy
<1>7. \A q \in Owners : deal'[q] = deal[q]
  BY <1>4 DEF Persons, SignIns!SignInOK
<1>8. \A j \in Attempts : (attempt'[j] = attempt[j] /\ deal'[j] = deal[j]) \/ AttemptSound(j)'
  BY <1>1, <1>4, <1>6 DEF Persons
<1>9. /\ presses' \in Seq(PressRow) /\ \A i \in DOMAIN presses : i \in DOMAIN presses' /\ presses'[i] = presses[i]
      /\ attempt' \in [Attempts -> AttemptRow] /\ ask' \in [Owners -> AskRow] /\ profile' \subseteq Accounts
  BY <1>1 DEF SignInsInv
<1> QED
  BY <1>1, <1>5, <1>7, <1>8, <1>9, TablesStay

\* Steps of an owner who links an account, up to the last.
LEMMA AskMoves ==
  ASSUME SignIns!SignInOK, SignInsInv, NEW o \in Owners,
         UNCHANGED <<attempt, presses, profile, identity, linked, session>>,
         ask' \in [Owners -> AskRow], \A q \in Owners \ {o} : ask'[q] = ask[q],
         deal' \in [Persons -> Accounts \cup Persons \cup {Nobody}], \A q \in Persons \ {o} : deal'[q] = deal[q],
         AskSound(o)'
  PROVE  SignInsInv'
<1>1. \A q \in Owners : (ask'[q] = ask[q] /\ deal'[q] = deal[q]) \/ AskSound(q)'
  BY DEF Persons
<1>2. \A k \in Attempts : attempt'[k] = attempt[k] /\ deal'[k] = deal[k]
  BY DEF Persons, SignIns!SignInOK
<1>3. /\ presses' \in Seq(PressRow) /\ \A i \in DOMAIN presses : i \in DOMAIN presses' /\ presses'[i] = presses[i]
      /\ attempt' \in [Attempts -> AttemptRow] /\ profile' \subseteq Accounts
  BY DEF SignInsInv
<1> QED
  BY <1>1, <1>2, <1>3, TablesStay

LEMMA AskWritten ==
  ASSUME SignIns!SignInOK, SignInsInv, NEW o \in Owners, NEW r \in AskRow, ask' = [ask EXCEPT ![o] = r],
         UNCHANGED <<attempt, presses, profile, identity, linked, session, deal>>,
         r.status = "awaiting" => r.user \in Accounts
  PROVE  SignInsInv'
<1>1. ask' \in [Owners -> AskRow] /\ ask'[o] = r /\ \A q \in Owners \ {o} : ask'[q] = ask[q]
  BY DEF SignInsInv
<1>2. AskSound(o)'
  BY <1>1 DEF SignInsInv, AskSound
<1>3. deal' \in [Persons -> Accounts \cup Persons \cup {Nobody}]
  BY DEF SignInsInv
<1> QED
  BY <1>1, <1>2, <1>3, AskMoves

LEMMA LinkStepsKept ==
  ASSUME SignIns!SignInOK, SignInsInv, NEW o \in Owners,
         \/ SignIns!CreateMAXIdentityLinkAttempt(o) \/ SignIns!LinkExpires(o) \/ SignIns!SendIdentityLinkConfirmation(o)
         \/ SignIns!CancelMAXIdentityLink(o) \/ \E u \in Accounts : SignIns!StartMAXIdentityLinkConfirmation(o, u)
  PROVE  SignInsInv'
<1>1. UNCHANGED <<attempt, presses, profile, identity, linked, session, deal>>
  BY DEF SignIns!CreateMAXIdentityLinkAttempt, SignIns!LinkExpires, SignIns!SendIdentityLinkConfirmation,
         SignIns!CancelMAXIdentityLink, SignIns!StartMAXIdentityLinkConfirmation
<1>2. ask[o] \in AskRow /\ ask \in [Owners -> AskRow]
  BY DEF SignInsInv
<1>3. CASE SignIns!CreateMAXIdentityLinkAttempt(o)
  <2> DEFINE r == [n |-> ask[o].n + 1, status |-> "pending", user |-> Nobody, sending |-> FALSE]
  <2>1. r \in AskRow /\ r.status = "pending"
    BY <1>2 DEF AskRow
  <2>2. ask' = [ask EXCEPT ![o] = r]
    BY <1>2, <1>3 DEF SignIns!CreateMAXIdentityLinkAttempt
  <2> HIDE DEF r
  <2> QED
    BY <1>1, <2>1, <2>2, AskWritten
<1>4. CASE SignIns!LinkExpires(o) \/ SignIns!CancelMAXIdentityLink(o)
  <2>1. PICK s \in {"expired", "failed"} : ask' = [ask EXCEPT ![o].status = s]
    BY <1>4 DEF SignIns!LinkExpires, SignIns!CancelMAXIdentityLink
  <2> DEFINE r == [ask[o] EXCEPT !.status = s]
  <2>2. r \in AskRow /\ r.status # "awaiting"
    BY <1>2 DEF AskRow
  <2>3. ask' = [ask EXCEPT ![o] = r]
    BY <2>1
  <2> HIDE DEF r
  <2> QED
    BY <1>1, <2>2, <2>3, AskWritten
<1>5. CASE SignIns!SendIdentityLinkConfirmation(o)
  <2>1. PICK s \in {ask[o].status, "failed"} : ask' = [ask EXCEPT ![o].sending = FALSE, ![o].status = s]
    BY <1>5 DEF SignIns!SendIdentityLinkConfirmation
  <2> DEFINE r == [ask[o] EXCEPT !.sending = FALSE, !.status = s]
  <2>2. r \in AskRow /\ (r.status = "awaiting" => r.status = ask[o].status /\ r.user = ask[o].user)
    BY <1>2 DEF AskRow
  <2>3. ask' = [ask EXCEPT ![o] = r]
    BY <2>1
  <2> HIDE DEF r
  <2>4. ask[o].status = "awaiting" => ask[o].user \in Accounts
    BY DEF SignInsInv, AskSound
  <2> QED
    BY <1>1, <2>2, <2>3, <2>4, AskWritten
<1>6. ASSUME NEW u \in Accounts, SignIns!StartMAXIdentityLinkConfirmation(o, u) PROVE SignInsInv'
  <2> DEFINE r == [ask[o] EXCEPT !.status = "awaiting", !.user = u, !.sending = TRUE]
  <2>1. r \in AskRow /\ r.user = u
    BY <1>2 DEF AskRow
  <2>2. ask' = [ask EXCEPT ![o] = r]
    BY <1>6 DEF SignIns!StartMAXIdentityLinkConfirmation
  <2> HIDE DEF r
  <2> QED
    BY <1>1, <2>1, <2>2, AskWritten
<1> QED
  BY <1>3, <1>4, <1>5, <1>6

LEMMA ReadLinksKept ==
  ASSUME SignIns!SignInOK, SignInsInv, NEW o \in Owners, SignIns!ReadMAXLinks(o) PROVE SignInsInv'
<1>1. UNCHANGED <<attempt, presses, profile, identity, linked, session>> /\ ask[o].status = "awaiting"
  BY DEF SignIns!ReadMAXLinks
<1>2. ask[o].user \in Accounts /\ ask[o] \in AskRow /\ ask \in [Owners -> AskRow]
  BY <1>1 DEF SignInsInv, AskSound
<1>3. CASE deal' = [deal EXCEPT ![o] = ask[o].user] /\ UNCHANGED ask
  <2>1. /\ deal' \in [Persons -> Accounts \cup Persons \cup {Nobody}] /\ deal'[o] = ask[o].user
        /\ \A q \in Persons \ {o} : deal'[q] = deal[q]
    BY <1>2, <1>3 DEF SignInsInv, Persons
  <2>2. AskSound(o)'
    BY <1>2, <1>3, <2>1 DEF AskSound
  <2> QED
    BY <1>1, <1>2, <1>3, <2>1, <2>2, AskMoves
<1>4. CASE ask' = [ask EXCEPT ![o].status = "failed"] /\ UNCHANGED deal
  <2> DEFINE r == [ask[o] EXCEPT !.status = "failed"]
  <2>1. r \in AskRow /\ r.status = "failed"
    BY <1>2 DEF AskRow
  <2>2. ask' = [ask EXCEPT ![o] = r]
    BY <1>4
  <2> HIDE DEF r
  <2> QED
    BY <1>1, <1>4, <2>1, <2>2, AskWritten
<1> QED
  BY <1>3, <1>4 DEF SignIns!ReadMAXLinks

\* The account u becomes o's: no other account is.
LEMMA TablesWritten ==
  ASSUME SignIns!SignInOK, SignInsInv, NEW o \in Persons, NEW u \in Accounts,
         identity' \in [Accounts -> Persons \cup {Nobody}], linked' \in [Persons -> Accounts \cup {Nobody}],
         identity'[u] = o, linked'[o] = u, identity[u] \in {Nobody, o},
         \A v \in Accounts \ {u} : identity'[v] = identity[v] /\ identity[v] # o,
         \A p \in Persons \ {o} : linked'[p] = linked[p],
         presses' = presses,
         \A k \in Attempts :
           \/ session'[k] = session[k]
           \/ session'[k] = [owner |-> o, user |-> u] /\ ConfirmedBy(k, u) /\ Contacted(u)
  PROVE  SignIns!SessionsProven' /\ \A k \in Attempts : session'[k].owner # Nobody => session'[k].user \in Accounts
<1>1. ASSUME NEW v \in Accounts, identity'[v] # Nobody PROVE linked'[identity'[v]] = v
  <2>1. CASE v = u
    BY <2>1
  <2>2. CASE v # u
    <3>1. identity'[v] = identity[v] /\ identity[v] # o /\ identity[v] \in Persons
      BY <1>1, <2>2
    <3>2. linked[identity[v]] = v
      BY <1>1, <3>1 DEF SignInsInv, SignIns!SessionsProven
    <3> QED
      BY <3>1, <3>2
  <2> QED
    BY <2>1, <2>2
<1>2. ASSUME NEW k \in Attempts, session'[k].owner # Nobody
      PROVE  /\ identity'[session'[k].user] = session'[k].owner /\ session'[k].user \in Accounts
             /\ ConfirmedBy(k, session'[k].user) /\ Contacted(session'[k].user)
  <2>1. CASE session'[k] = [owner |-> o, user |-> u] /\ ConfirmedBy(k, u) /\ Contacted(u)
    BY <2>1
  <2>2. CASE session'[k] = session[k]
    <3>1. /\ identity[session[k].user] = session[k].owner /\ session[k].user \in Accounts
          /\ ConfirmedBy(k, session[k].user) /\ Contacted(session[k].user)
      BY <1>2, <2>2 DEF SignInsInv, SignIns!SessionsProven, ConfirmedBy, Contacted
    <3>2. session[k].user = u => session[k].owner = o
      BY <1>2, <2>2, <3>1
    <3> QED
      BY <2>2, <3>1, <3>2
  <2> QED
    BY <2>1, <2>2
<1> QED
  BY <1>1, <1>2 DEF SignIns!SessionsProven, ConfirmedBy, Contacted

LEMMA DealEnds ==
  ASSUME SignInsInv, NEW x \in Persons, deal' = [deal EXCEPT ![x] = Nobody]
  PROVE  /\ deal' \in [Persons -> Accounts \cup Persons \cup {Nobody}] /\ deal'[x] = Nobody
         /\ \A y \in Persons \ {x} : deal'[y] = deal[y]
BY DEF SignInsInv

LEMMA CompleteAuthKept ==
  ASSUME SignIns!SignInOK, SignInsInv, NEW k \in Attempts, SignIns!CompleteMAXAuthAttempt(k) PROVE SignInsInv'
<1> DEFINE u == attempt[k].user  o == deal[k]
<1>1. o \in Persons /\ o # Nobody /\ u \in Accounts /\ ConfirmedBy(k, u) /\ k \in Persons /\ Nobody \notin Persons /\ attempt[k].status = "verified"
  BY DEF SignInsInv, AttemptSound, SignIns!CompleteMAXAuthAttempt, SignIns!Unlocked, Persons, SignIns!SignInOK
<1>2. UNCHANGED <<presses, ask, profile>> /\ deal' = [deal EXCEPT ![k] = Nobody]
  BY DEF SignIns!CompleteMAXAuthAttempt
<1>3. /\ deal' \in [Persons -> Accounts \cup Persons \cup {Nobody}] /\ deal'[k] = Nobody
      /\ \A y \in Persons \ {k} : deal'[y] = deal[y]
  BY <1>1, <1>2, DealEnds
<1>4. \A q \in Owners : deal'[q] = deal[q]
  BY <1>3 DEF Persons, SignIns!SignInOK
<1>5. CASE UNCHANGED <<identity, linked, session, attempt>>
  <2>1. \A j \in Attempts : (attempt'[j] = attempt[j] /\ deal'[j] = deal[j]) \/ AttemptSound(j)'
    <3>1. AttemptSound(k)'
      BY <1>1, <1>2, <1>3, <1>5 DEF AttemptSound, ConfirmedBy
    <3> QED
      BY <1>3, <1>5, <3>1 DEF Persons
  <2>2. /\ presses' \in Seq(PressRow) /\ \A i \in DOMAIN presses : i \in DOMAIN presses' /\ presses'[i] = presses[i]
        /\ attempt' \in [Attempts -> AttemptRow] /\ ask' \in [Owners -> AskRow] /\ profile' \subseteq Accounts
    BY <1>2, <1>5 DEF SignInsInv
  <2> QED
    BY <1>2, <1>3, <1>4, <1>5, <2>1, <2>2, TablesStay
<1>6. CASE ~UNCHANGED <<identity, linked, session, attempt>>
  <2> DEFINE ids == IF identity[u] = Nobody THEN [identity EXCEPT ![u] = o] ELSE identity
             links == IF SignIns!OwnersOf(u) = {} /\ linked[o] = Nobody THEN [linked EXCEPT ![o] = u] ELSE linked
  <2>1. /\ u \in profile /\ \A v \in Accounts \ {u} : ids[v] # o
        /\ ids[u] = o /\ links[o] = u /\ identity' = ids /\ linked' = links
        /\ session' = [session EXCEPT ![k] = [owner |-> o, user |-> u]] /\ attempt' = SignIns!Gone({k})
    BY <1>6 DEF SignIns!CompleteMAXAuthAttempt, SignIns!Confirmed
  <2>2. /\ identity \in [Accounts -> Persons \cup {Nobody}] /\ linked \in [Persons -> Accounts \cup {Nobody}]
        /\ session \in [Attempts -> SessionRow] /\ attempt \in [Attempts -> AttemptRow] /\ profile \subseteq Accounts
    BY DEF SignInsInv
  <2>3. /\ identity' \in [Accounts -> Persons \cup {Nobody}] /\ identity'[u] = o /\ identity[u] \in {Nobody, o}
        /\ \A v \in Accounts \ {u} : identity'[v] = identity[v] /\ identity[v] # o
    BY <1>1, <2>1, <2>2
  <2>4. linked' \in [Persons -> Accounts \cup {Nobody}] /\ linked'[o] = u /\ \A p \in Persons \ {o} : linked'[p] = linked[p]
    BY <1>1, <2>1, <2>2
  <2>5. Contacted(u)
    BY <2>1 DEF SignInsInv
  <2>6. /\ session' \in [Attempts -> SessionRow]
        /\ session'[k] = [owner |-> o, user |-> u] /\ \A j \in Attempts \ {k} : session'[j] = session[j]
    BY <1>1, <2>1, <2>2 DEF SessionRow
  <2>7. SignIns!SessionsProven' /\ \A j \in Attempts : session'[j].owner # Nobody => session'[j].user \in Accounts
    <3>1. \A j \in Attempts :
            \/ session'[j] = session[j]
            \/ session'[j] = [owner |-> o, user |-> u] /\ ConfirmedBy(j, u) /\ Contacted(u)
      BY <1>1, <2>5, <2>6
    <3> HIDE DEF u, o
    <3> QED
      BY <1>1, <1>2, <2>3, <2>4, <3>1, TablesWritten
  <2>8. attempt' \in [Attempts -> AttemptRow] /\ attempt'[k].status = "gone" /\ \A j \in Attempts \ {k} : attempt'[j] = attempt[j]
    BY <2>1, <2>2 DEF SignIns!Gone, SignIns!NoAttempt, AttemptRow
  <2>9. \A j \in Attempts : AttemptSound(j)'
    <3>1. ASSUME NEW j \in Attempts, j # k PROVE AttemptSound(j)'
      <4>1. AttemptSound(j) /\ attempt'[j] = attempt[j] /\ deal'[j] = deal[j] /\ presses' = presses
        BY <1>2, <1>3, <2>8, <3>1 DEF SignInsInv, Persons
      <4> QED
        BY <4>1 DEF AttemptSound, ConfirmedBy
    <3>2. AttemptSound(k)'
      BY <1>3, <2>8 DEF AttemptSound
    <3> QED
      BY <3>1, <3>2
  <2>10. \A q \in Owners : AskSound(q)'
    BY <1>2, <1>4 DEF SignInsInv, AskSound
  <2>11. \A v \in profile' : Contacted(v)'
    BY <1>2 DEF SignInsInv, Contacted
  <2> QED
    BY <1>2, <1>3, <2>2, <2>3, <2>4, <2>6, <2>7, <2>8, <2>9, <2>10, <2>11 DEF SignInsInv
<1> QED
  BY <1>5, <1>6

LEMMA ConfirmLinkKept ==
  ASSUME SignIns!SignInOK, SignInsInv, NEW o \in Owners, SignIns!ConfirmMAXIdentityLink(o) PROVE SignInsInv'
<1> DEFINE u == deal[o]
<1>1. u \in Accounts /\ o \in Persons /\ Nobody \notin Persons
  BY DEF SignInsInv, AskSound, SignIns!ConfirmMAXIdentityLink, Persons, SignIns!SignInOK
<1>2. UNCHANGED <<attempt, presses, profile, session>> /\ deal' = [deal EXCEPT ![o] = Nobody]
  BY DEF SignIns!ConfirmMAXIdentityLink
<1>3. /\ deal' \in [Persons -> Accounts \cup Persons \cup {Nobody}] /\ deal'[o] = Nobody
      /\ \A y \in Persons \ {o} : deal'[y] = deal[y]
  BY <1>1, <1>2, DealEnds
<1>4. CASE UNCHANGED <<linked, identity, ask>>
  <2>1. AskSound(o)'
    BY <1>3, <1>4 DEF SignInsInv, AskSound
  <2>2. ask' \in [Owners -> AskRow]
    BY <1>4 DEF SignInsInv
  <2> QED
    BY <1>2, <1>3, <1>4, <2>1, <2>2, AskMoves
<1>5. CASE ~UNCHANGED <<linked, identity, ask>>
  <2>1. /\ SignIns!OwnersOf(u) \subseteq {o} /\ identity[u] \in {Nobody, o} /\ \A v \in Accounts \ {u} : identity[v] # o
        /\ linked' = [linked EXCEPT ![o] = u] /\ identity' = [identity EXCEPT ![u] = o]
        /\ ask' = [ask EXCEPT ![o].status = "linked"]
    BY <1>5 DEF SignIns!ConfirmMAXIdentityLink
  <2>2. /\ identity \in [Accounts -> Persons \cup {Nobody}] /\ linked \in [Persons -> Accounts \cup {Nobody}]
        /\ ask \in [Owners -> AskRow] /\ attempt \in [Attempts -> AttemptRow] /\ presses \in Seq(PressRow)
        /\ session \in [Attempts -> SessionRow] /\ profile \subseteq Accounts
    BY DEF SignInsInv
  <2>3. /\ identity' \in [Accounts -> Persons \cup {Nobody}] /\ identity'[u] = o
        /\ \A v \in Accounts \ {u} : identity'[v] = identity[v] /\ identity[v] # o
    BY <1>1, <2>1, <2>2
  <2>4. linked' \in [Persons -> Accounts \cup {Nobody}] /\ linked'[o] = u /\ \A p \in Persons \ {o} : linked'[p] = linked[p]
    BY <1>1, <2>1, <2>2
  <2>5. SignIns!SessionsProven' /\ \A j \in Attempts : session'[j].owner # Nobody => session'[j].user \in Accounts
    <3> HIDE DEF u
    <3>1. \A j \in Attempts : session'[j] = session[j]
      BY <1>2
    <3> QED
      BY <1>1, <1>2, <2>1, <2>3, <2>4, <3>1, TablesWritten
  <2>6. ask' \in [Owners -> AskRow] /\ ask'[o].status = "linked" /\ \A q \in Owners \ {o} : ask'[q] = ask[q]
    <3>1. ask[o] \in AskRow
      BY <2>2
    <3> DEFINE r == [ask[o] EXCEPT !.status = "linked"]
    <3>2. r \in AskRow /\ r.status = "linked"
      BY <3>1 DEF AskRow
    <3>3. ask' = [ask EXCEPT ![o] = r]
      BY <2>1
    <3> HIDE DEF r
    <3> QED
      BY <2>2, <3>2, <3>3
  <2>7. \A q \in Owners : AskSound(q)'
    BY <1>3, <2>6 DEF SignInsInv, AskSound, Persons
  <2>8. \A k \in Attempts : AttemptSound(k)'
    <3>1. ASSUME NEW k \in Attempts PROVE AttemptSound(k)'
      <4>1. AttemptSound(k) /\ attempt' = attempt /\ presses' = presses /\ deal'[k] = deal[k]
        BY <1>2, <1>3 DEF SignInsInv, Persons, SignIns!SignInOK
      <4> QED
        BY <4>1 DEF AttemptSound, ConfirmedBy
    <3> QED
      BY <3>1
  <2>9. \A v \in profile' : Contacted(v)'
    BY <1>2 DEF SignInsInv, Contacted
  <2> QED
    BY <1>2, <1>3, <2>2, <2>3, <2>4, <2>5, <2>6, <2>7, <2>8, <2>9 DEF SignInsInv
<1> QED
  BY <1>4, <1>5

LEMMA SignInsInit == SignIns!SignInOK /\ SignIns!Init => SignInsInv
<1> SUFFICES ASSUME SignIns!SignInOK, SignIns!Init PROVE SignInsInv
  OBVIOUS
<1>1. /\ attempt \in [Attempts -> AttemptRow] /\ presses \in Seq(PressRow) /\ ask \in [Owners -> AskRow]
      /\ identity \in [Accounts -> Persons \cup {Nobody}] /\ linked \in [Persons -> Accounts \cup {Nobody}]
      /\ deal \in [Persons -> Accounts \cup Persons \cup {Nobody}]
      /\ session \in [Attempts -> SessionRow] /\ profile = {}
  BY DEF SignIns!Init, SignIns!NoAttempt, AttemptRow, AskRow, SessionRow, Persons
<1>2. (\A k \in Attempts : AttemptSound(k)) /\ \A o \in Owners : AskSound(o)
  BY DEF SignIns!Init, SignIns!NoAttempt, AttemptSound, AskSound
<1>3. SignIns!SessionsProven /\ \A k \in Attempts : session[k].owner # Nobody => session[k].user \in Accounts
  BY DEF SignIns!Init, SignIns!SessionsProven
<1> QED
  BY <1>1, <1>2, <1>3 DEF SignInsInv

LEMMA SignInsStep == ASSUME SignIns!SignInOK, SignInsInv, [SignIns!Next]_(SignIns!signin) PROVE SignInsInv'
<1>1. CASE UNCHANGED SignIns!signin
  BY <1>1 DEF SignIns!signin, SignInsInv, AttemptSound, AskSound, ConfirmedBy, Contacted, SignIns!SessionsProven
<1>2. ASSUME NEW k \in Attempts, SignIns!CreateMAXAuthAttempt(k) PROVE SignInsInv'
  BY <1>2, CreateMAXAuthKept
<1>3. ASSUME NEW k \in Attempts, SignIns!AttemptExpires(k) PROVE SignInsInv'
  BY <1>3 DEF SignIns!AttemptExpires, SignInsInv, AttemptSound, AskSound, ConfirmedBy, Contacted, SignIns!SessionsProven
<1>4. ASSUME NEW k \in Attempts, SignIns!SendContactRequest(k) PROVE SignInsInv'
  BY <1>4, SendRequestKept
<1>5. ASSUME NEW k \in Attempts, SignIns!CancelMAXAuthAttempt(k) \/ SignIns!GetMAXAuthAttemptForBrowser(k) PROVE SignInsInv'
  BY <1>5, ForgetKept
<1>6. ASSUME NEW k \in Attempts, SignIns!CompleteMAXAuth(k) PROVE SignInsInv'
  BY <1>5, <1>6, ReadMappingsKept DEF SignIns!CompleteMAXAuth
<1>7. ASSUME NEW k \in Attempts, SignIns!CompleteMAXAuthAttempt(k) PROVE SignInsInv'
  BY <1>7, CompleteAuthKept
<1>8. ASSUME NEW k \in Attempts, NEW u \in Accounts, SignIns!StartMAXAuthContact(k, u) PROVE SignInsInv'
  BY <1>8, StartContactKept
<1>9. ASSUME NEW k \in Attempts, NEW u \in Accounts, SignIns!PressConfirm(k, u) PROVE SignInsInv'
  <2> DEFINE e == [what |-> "confirm", user |-> u, k |-> k]
  <2>1. e \in PressRow
    BY DEF PressRow
  <2>2. presses' = Append(presses, e) /\ UNCHANGED <<attempt, profile, ask, identity, linked, deal, session>>
    BY <1>9 DEF SignIns!PressConfirm, SignIns!Press
  <2> HIDE DEF e
  <2> QED
    BY <2>1, <2>2, PressKept
<1>10. ASSUME NEW u \in Accounts, SignIns!PressContact(u) PROVE SignInsInv'
  <2> DEFINE e == [what |-> "contact", user |-> u, k |-> 0]
  <2>1. e \in PressRow
    BY DEF PressRow
  <2>2. presses' = Append(presses, e) /\ UNCHANGED <<attempt, profile, ask, identity, linked, deal, session>>
    BY <1>10 DEF SignIns!PressContact, SignIns!Press
  <2> HIDE DEF e
  <2> QED
    BY <2>1, <2>2, PressKept
<1>11. ASSUME NEW i \in DOMAIN presses, SignIns!HandleMAXAuthContactMessage(i) \/ SignIns!HandleMAXAuthContactCallback(i) PROVE SignInsInv'
  BY <1>11, ContactKept, CallbackKept
<1>12. CASE SignIns!PurgeExpiredMAXAuthAttempts
  BY <1>12, ForgetKept
<1>13. ASSUME NEW o \in Owners,
              \/ SignIns!CreateMAXIdentityLinkAttempt(o) \/ SignIns!LinkExpires(o) \/ SignIns!SendIdentityLinkConfirmation(o)
              \/ \E u \in Accounts : SignIns!StartMAXIdentityLinkConfirmation(o, u)
       PROVE  SignInsInv'
  BY <1>13, LinkStepsKept
<1>14. ASSUME NEW o \in Owners, SignIns!HandleMAXIdentityCallback(o) PROVE SignInsInv'
  BY <1>14, LinkStepsKept, ReadLinksKept DEF SignIns!HandleMAXIdentityCallback
<1>15. ASSUME NEW o \in Owners, SignIns!ConfirmMAXIdentityLink(o) PROVE SignInsInv'
  BY <1>15, ConfirmLinkKept
<1> QED
  BY <1>1, <1>2, <1>3, <1>4, <1>5, <1>6, <1>7, <1>8, <1>9, <1>10, <1>11, <1>12, <1>13, <1>14, <1>15 DEF SignIns!Next

\* The inductive invariant of SignIn: a verified attempt was confirmed for its account, and stays as it is
\* while its session is being written.
THEOREM SignInsSound == SignIns!SignInOK /\ SignInsSpec => []SignInsInv
<1> SUFFICES ASSUME SignIns!SignInOK PROVE SignInsSpec => []SignInsInv
  OBVIOUS
<1>1. SignIns!Init => SignInsInv
  BY SignInsInit
<1>2. SignInsInv /\ [SignIns!Next]_(SignIns!signin) => SignInsInv'
  BY SignInsStep
<1> QED
  BY <1>1, <1>2, PTL DEF SignInsSpec

\* However late, repeated and out of order the deliveries of MAX are, and whoever links accounts meanwhile: a session is
\* for the user its MAX account belongs to, and that account confirmed this attempt and had shared a contact.
THEOREM SessionsAreProven == SignIns!SignInOK /\ SignInsSpec => []SignIns!SessionsProven
<1>1. SignInsInv => SignIns!SessionsProven
  BY DEF SignInsInv
<1> QED
  BY <1>1, SignInsSound, PTL
----------------------------------------------------------------------------
(* Sessions: a start is spent once, in the browser that made it. *)
Yandex == INSTANCE Sessions
YandexSpec == Yandex!Init /\ [][Yandex!Next]_(Yandex!sessions)

StartRow == [by : Browsers, at : Nat]
LoginRow == [state : Nat, account : Accounts, by : Browsers, at : Nat]
CallbackRow == [at : {"idle", "consume", "exchange", "create", "welcome", "answer"}, by : Browsers \cup {Nobody},
                state : Nat, account : Accounts \cup {Nobody}, login : Nat]
Spending(r) == r.at \in {"exchange", "create"}

TablesSound ==
  /\ second \in Nat /\ starts \in Seq(StartRow) /\ logins \in Seq(LoginRow) /\ states \subseteq 1..Len(starts)
  /\ cookie \in [Browsers -> Nat] /\ token \in [Browsers -> Nat] /\ listed \subseteq Accounts
  /\ \A b \in Browsers : cookie[b] # 0 => cookie[b] \in 1..Len(starts) /\ starts[cookie[b]].by = b
  /\ \A b \in Browsers : token[b] # 0 => token[b] \in 1..Len(logins)
\* Who spends a state has taken it from the table, and nobody made a session of it; who writes a welcome letter is
\* the first to do so.
HandlerSound(r) ==
  /\ r.at # "idle" => r.by \in Browsers
  /\ r.at \in {"consume", "exchange", "create"} => r.state \in 1..Len(starts) /\ starts[r.state].by = r.by
  /\ Spending(r) => r.state \notin states /\ \A l \in 1..Len(logins) : logins[l].state # r.state
  /\ r.login # 0 => r.login \in 1..Len(logins) /\ logins[r.login].by = r.by
  /\ r.at \in {"create", "welcome"} => r.account \in Accounts
  /\ r.at = "welcome" => mails[r.account] = 0 /\ users[r.account] # Yandex!Never
Distinct(r, q) ==
  /\ Spending(r) /\ Spending(q) => r.state # q.state
  /\ r.at = "welcome" /\ q.at = "welcome" => r.account # q.account
HandlersSound ==
  /\ callback \in [Callbacks -> CallbackRow] /\ \A c \in Callbacks : HandlerSound(callback[c])
  /\ \A c, d \in Callbacks : c # d => Distinct(callback[c], callback[d])
LoginsSound == \A l \in 1..Len(logins) : logins[l].state \in 1..Len(starts) /\ logins[l].state \notin states
LettersSound ==
  /\ users \in [Accounts -> Int] /\ mails \in [Accounts -> Nat]
  /\ \A a \in Accounts : users[a] = Yandex!Never => mails[a] = 0
YandexInv == TablesSound /\ HandlersSound /\ LoginsSound /\ LettersSound /\ Yandex!StartsSpentOnce

LEMMA IdleIs == Yandex!Idle \in CallbackRow /\ Yandex!Idle.at = "idle" /\ Yandex!Idle.login = 0
BY DEF Yandex!Idle, CallbackRow

\* A handler moves on, and everything else stays, except that states may leave the table.
LEMMA HandlerMoves ==
  ASSUME YandexInv, NEW c \in Callbacks, NEW r \in CallbackRow, callback' = [callback EXCEPT ![c] = r],
         states' \subseteq states, UNCHANGED <<second, starts, cookie, users, logins, token, mails, listed>>,
         HandlerSound(r)', \A d \in Callbacks \ {c} : Distinct(r, callback[d])
  PROVE  YandexInv'
<1>1. TablesSound' /\ LoginsSound' /\ LettersSound'
  BY DEF YandexInv, TablesSound, LoginsSound, LettersSound
<1>2. Yandex!StartsSpentOnce'
  BY DEF YandexInv, Yandex!StartsSpentOnce
<1>3. callback' \in [Callbacks -> CallbackRow] /\ callback'[c] = r /\ \A d \in Callbacks \ {c} : callback'[d] = callback[d]
  BY DEF YandexInv, HandlersSound
<1>4. ASSUME NEW d \in Callbacks PROVE HandlerSound(callback[d])'
  <2>1. CASE d = c
    BY <1>3, <2>1
  <2>2. CASE d # c
    BY <1>3, <2>2 DEF YandexInv, HandlersSound, HandlerSound
  <2> QED
    BY <2>1, <2>2
<1>5. ASSUME NEW d \in Callbacks, NEW e \in Callbacks, d # e PROVE Distinct(callback[d], callback[e])'
  <2>1. Distinct(callback'[d], callback'[e])
    BY <1>3, <1>5 DEF YandexInv, HandlersSound, Distinct
  <2> QED
    BY <2>1 DEF Distinct, Spending
<1>6. HandlersSound'
  BY <1>3, <1>4, <1>5 DEF HandlersSound
<1> QED
  BY <1>1, <1>2, <1>6 DEF YandexInv

LEMMA FinishKept ==
  ASSUME YandexInv, NEW c \in Callbacks, NEW b \in Browsers, NEW s \in 1..MaxStarts, Yandex!FinishYandexAuth(c, b, s)
  PROVE  YandexInv'
<1>1. s \in 1..Len(starts) /\ starts \in Seq(StartRow)
  BY DEF Yandex!FinishYandexAuth, YandexInv, TablesSound
<1>2. UNCHANGED <<second, starts, states, cookie, users, logins, token, mails, listed>>
  BY DEF Yandex!FinishYandexAuth, Yandex!server
<1>3. PICK at \in {"consume", "answer"} : at = IF Yandex!MayFinish(b, s) THEN "consume" ELSE "answer"
  OBVIOUS
<1>4. PICK r : r = [at |-> at, by |-> b, state |-> s, account |-> Nobody, login |-> 0]
  OBVIOUS
<1>5. r \in CallbackRow
  BY <1>1, <1>4 DEF CallbackRow
<1>6. callback' = [callback EXCEPT ![c] = r]
  <2>1. ASSUME NEW e, e = [Yandex!Idle EXCEPT !.by = b, !.state = s, !.at = at]
        PROVE  e = [at |-> at, by |-> b, state |-> s, account |-> Nobody, login |-> 0]
    BY <2>1 DEF Yandex!Idle
  <2>2. callback' = [callback EXCEPT ![c] = [Yandex!Idle EXCEPT !.by = b, !.state = s, !.at = at]]
    BY <1>3, Zenon DEF Yandex!FinishYandexAuth
  <2> QED
    BY <1>4, <2>1, <2>2, Zenon
<1>7. at = "consume" => starts[s].by = b
  BY <1>1, <1>3 DEF YandexInv, TablesSound, Yandex!MayFinish
<1>8. HandlerSound(r)'
  BY <1>1, <1>2, <1>3, <1>4, <1>7 DEF HandlerSound, Spending
<1>9. \A d \in Callbacks \ {c} : Distinct(r, callback[d])
  BY <1>3, <1>4 DEF Distinct, Spending
<1> QED
  BY <1>2, <1>5, <1>6, <1>8, <1>9, HandlerMoves

LEMMA SameAccount ==
  ASSUME NEW q \in CallbackRow, NEW at PROVE [q EXCEPT !.at = at] = [q EXCEPT !.at = at, !.account = q.account]
BY DEF CallbackRow

LEMMA ConsumeKept ==
  ASSUME YandexInv, NEW c \in Callbacks, Yandex!ConsumeOAuthState(c) PROVE YandexInv'
<1>1. callback[c] \in CallbackRow /\ HandlerSound(callback[c]) /\ callback[c].at = "consume"
  BY DEF YandexInv, HandlersSound, Yandex!ConsumeOAuthState
<1>2. PICK s : s = callback[c].state
  OBVIOUS
<1>3. PICK at \in {"exchange", "answer"} : at = IF s \in states /\ ~Yandex!Expired(s) THEN "exchange" ELSE "answer"
  OBVIOUS
<1>4. PICK r \in CallbackRow :
        /\ callback' = [callback EXCEPT ![c] = r]
        /\ r.at = at /\ r.by = callback[c].by /\ r.state = s /\ r.login = callback[c].login
  <2>1. callback[c].account \in Accounts \cup {Nobody}
    BY <1>1 DEF CallbackRow
  <2>2. callback' = [callback EXCEPT ![c] = [callback[c] EXCEPT !.at = at, !.account = callback[c].account]]
    <3>1. callback' = [callback EXCEPT ![c] = [callback[c] EXCEPT !.at = at]]
      BY <1>2, <1>3, Zenon DEF Yandex!ConsumeOAuthState
    <3> QED
      BY <1>1, <3>1, SameAccount, Zenon
  <2>3. at \in {"exchange", "create", "answer"}
    OBVIOUS
  <2> QED
    <3>1. PICK q \in CallbackRow : q = callback[c]
      BY <1>1
    <3>2. PICK r : r = [q EXCEPT !.at = at, !.account = q.account]
      OBVIOUS
    <3>3. r \in CallbackRow /\ r.at = at /\ r.by = q.by /\ r.state = q.state /\ r.login = q.login
      BY <2>3, <3>2 DEF CallbackRow
    <3>4. callback' = [callback EXCEPT ![c] = r]
      BY <2>2, <3>1, <3>2, Zenon
    <3> QED
      BY <1>2, <3>1, <3>3, <3>4, Zenon
<1>6. states' = states \ {s} /\ UNCHANGED <<second, starts, cookie, users, logins, token, mails, listed>>
  BY <1>2 DEF Yandex!ConsumeOAuthState, Yandex!Spent, Yandex!server
<1>7. \A l \in 1..Len(logins) : logins[l].state \notin states
  BY DEF YandexInv, LoginsSound
<1>8. HandlerSound(r)'
  BY <1>1, <1>2, <1>3, <1>4, <1>6, <1>7 DEF HandlerSound, Spending
<1>9. ASSUME NEW d \in Callbacks \ {c} PROVE Distinct(r, callback[d])
  <2>1. HandlerSound(callback[d])
    BY DEF YandexInv, HandlersSound
  <2> QED
    BY <1>3, <1>4, <2>1 DEF Distinct, HandlerSound, Spending
<1> QED
  BY <1>4, <1>6, <1>8, <1>9, HandlerMoves

LEMMA ExchangeKept ==
  ASSUME YandexInv, NEW c \in Callbacks, Yandex!ExchangeCode(c) PROVE YandexInv'
<1>1. callback[c] \in CallbackRow /\ HandlerSound(callback[c]) /\ callback[c].at = "exchange"
  BY DEF YandexInv, HandlersSound, Yandex!ExchangeCode
<1>2. UNCHANGED <<second, starts, states, cookie, users, logins, token, mails, listed>> /\ listed \subseteq Accounts
  BY DEF Yandex!ExchangeCode, Yandex!server, YandexInv, TablesSound
<1>3. ASSUME NEW at \in {"create", "answer"}, NEW a \in Accounts \cup {Nobody}, at = "create" => a \in Accounts,
             callback' = [callback EXCEPT ![c] = [callback[c] EXCEPT !.at = at, !.account = a]]
      PROVE  YandexInv'
  <2>0. at \in {"exchange", "create", "answer"}
    OBVIOUS
  <2>1. PICK r \in CallbackRow :
          /\ callback' = [callback EXCEPT ![c] = r]
          /\ r.at = at /\ r.account = a /\ r.by = callback[c].by /\ r.state = callback[c].state
          /\ r.login = callback[c].login
    <3>1. PICK q \in CallbackRow : q = callback[c]
      BY <1>1
    <3>2. PICK r : r = [q EXCEPT !.at = at, !.account = a]
      OBVIOUS
    <3>3. r \in CallbackRow /\ r.at = at /\ r.account = a /\ r.by = q.by /\ r.state = q.state /\ r.login = q.login
      BY <2>0, <3>2 DEF CallbackRow
    <3>4. callback' = [callback EXCEPT ![c] = r]
      BY <1>3, <3>1, <3>2, Zenon
    <3> QED
      BY <3>1, <3>3, <3>4, Zenon
  <2>2. HandlerSound(r)'
    BY <1>1, <1>2, <1>3, <2>1 DEF HandlerSound, Spending
  <2>3. ASSUME NEW d \in Callbacks \ {c} PROVE Distinct(r, callback[d])
    <3>1. Distinct(callback[c], callback[d])
      BY DEF YandexInv, HandlersSound
    <3> QED
      BY <1>1, <1>3, <2>1, <3>1 DEF Distinct, Spending
  <2> QED
    BY <1>2, <2>1, <2>2, <2>3, HandlerMoves
<1>4. ASSUME NEW a \in listed, callback' = [callback EXCEPT ![c].at = "create", ![c].account = a] PROVE YandexInv'
  <2>1. callback' = [callback EXCEPT ![c] = [callback[c] EXCEPT !.at = "create", !.account = a]]
    BY <1>4 DEF YandexInv, HandlersSound, CallbackRow
  <2> QED
    BY <1>2, <1>3, <2>1
<1>5. ASSUME callback' = [callback EXCEPT ![c].at = "answer"] PROVE YandexInv'
  <2>2. callback' = [callback EXCEPT ![c] = [callback[c] EXCEPT !.at = "answer", !.account = callback[c].account]]
    BY <1>1, <1>5, SameAccount, Zenon
  <2>3. callback[c].account \in Accounts \cup {Nobody}
    BY <1>1 DEF CallbackRow
  <2> QED
    BY <1>3, <2>2, <2>3
<1> QED
  BY <1>4, <1>5 DEF Yandex!ExchangeCode

LEMMA EndsKept ==
  ASSUME YandexInv, NEW c \in Callbacks, Yandex!CallbackEnds(c) PROVE YandexInv'
<1>1. /\ callback' = [callback EXCEPT ![c] = Yandex!Idle]
      /\ UNCHANGED <<second, starts, states, cookie, users, logins, token, mails, listed>>
  BY DEF Yandex!CallbackEnds, Yandex!server
<1>2. PICK r \in CallbackRow : r = Yandex!Idle /\ r.at = "idle" /\ r.login = 0
  BY IdleIs
<1>3. HandlerSound(r)' /\ \A d \in Callbacks \ {c} : Distinct(r, callback[d])
  BY <1>2 DEF HandlerSound, Spending, Distinct
<1> QED
  BY <1>1, <1>2, <1>3, HandlerMoves

LEMMA Appended ==
  ASSUME NEW T, NEW old \in Seq(T), NEW e \in T, NEW new, new = Append(old, e)
  PROVE  /\ new \in Seq(T) /\ Len(old) \in Nat /\ Len(new) = Len(old) + 1 /\ new[Len(old) + 1] = e
         /\ \A i \in 1..Len(old) : new[i] = old[i] /\ i \in 1..Len(new)
OBVIOUS

LEMMA StartKept ==
  ASSUME YandexInv, NEW b \in Browsers, Yandex!CreateOAuthState(b) PROVE YandexInv'
<1>1. PICK e : e = [by |-> b, at |-> second]
  OBVIOUS
<1>2. e \in StartRow /\ e.by = b
  BY <1>1 DEF YandexInv, TablesSound, StartRow
<1>3. starts' = Append(starts, e) /\ UNCHANGED <<second, callback, users, logins, token, mails, listed>>
  BY <1>1 DEF Yandex!CreateOAuthState, Yandex!server
<1>4. starts \in Seq(StartRow)
  BY DEF YandexInv, TablesSound
<1>5. PICK n \in Nat : n = Len(starts)
  BY <1>4
<1>6. /\ starts' \in Seq(StartRow) /\ Len(starts') = n + 1 /\ starts'[n + 1] = e
      /\ \A i \in 1..n : starts'[i] = starts[i] /\ i \in 1..Len(starts')
  BY <1>2, <1>3, <1>4, <1>5, Appended
<1>7. states' \subseteq states \cup {n + 1} /\ cookie' = [cookie EXCEPT ![b] = n + 1]
  BY <1>6 DEF Yandex!CreateOAuthState, Yandex!Trims
<1>8. states \subseteq 1..n /\ cookie \in [Browsers -> Nat]
      /\ \A i \in Browsers : cookie[i] # 0 => cookie[i] \in 1..n /\ starts[cookie[i]].by = i
  BY <1>5 DEF YandexInv, TablesSound
<1>9. TablesSound'
  <2>1. states' \subseteq 1..(n + 1) /\ cookie' \in [Browsers -> Nat]
    BY <1>7, <1>8
  <2>2. ASSUME NEW i \in Browsers, cookie'[i] # 0
        PROVE  cookie'[i] \in 1..(n + 1) /\ starts'[cookie'[i]].by = i
    <3>1. CASE i = b
      BY <1>2, <1>6, <1>7, <1>8, <3>1
    <3>2. CASE i # b
      BY <1>6, <1>7, <1>8, <2>2, <3>2
    <3> QED
      BY <3>1, <3>2
  <2> QED
    BY <1>3, <1>6, <2>1, <2>2 DEF YandexInv, TablesSound
<1>10. HandlersSound'
  <2>1. ASSUME NEW c \in Callbacks PROVE HandlerSound(callback[c])'
    <3>1. HandlerSound(callback[c])
      BY DEF YandexInv, HandlersSound
    <3> QED
      BY <1>3, <1>5, <1>6, <1>7, <3>1 DEF HandlerSound, Spending
  <2> QED
    BY <1>3, <2>1 DEF YandexInv, HandlersSound, Distinct, Spending
<1>11. LoginsSound'
  BY <1>3, <1>5, <1>6, <1>7 DEF YandexInv, LoginsSound
<1>12. LettersSound'
  BY <1>3 DEF YandexInv, LettersSound
<1>13. Yandex!StartsSpentOnce'
  <2>1. \A l \in 1..Len(logins) : starts'[logins[l].state] = starts[logins[l].state]
    BY <1>5, <1>6 DEF YandexInv, LoginsSound
  <2>2. ASSUME NEW a \in Accounts, users[a] # Yandex!Never
        PROVE  \E l \in 1..Len(logins) : logins[l].account = a /\ starts'[logins[l].state].at = users[a]
    <3>1. PICK l \in 1..Len(logins) : logins[l].account = a /\ starts[logins[l].state].at = users[a]
      BY <2>2 DEF YandexInv, Yandex!StartsSpentOnce
    <3> QED
      BY <2>1, <3>1
  <2>3. \A l \in 1..Len(logins) : logins[l].by = starts'[logins[l].state].by
    BY <2>1 DEF YandexInv, Yandex!StartsSpentOnce
  <2> QED
    BY <1>3, <2>2, <2>3 DEF YandexInv, Yandex!StartsSpentOnce
<1> QED
  BY <1>9, <1>10, <1>11, <1>12, <1>13 DEF YandexInv

LEMMA SessionKept ==
  ASSUME YandexInv, NEW c \in Callbacks, Yandex!CreateAuthenticatedSession(c) PROVE YandexInv'
<1>1. PICK q \in CallbackRow : q = callback[c]
  BY DEF YandexInv, HandlersSound
<1>2. HandlerSound(q) /\ q.at = "create" /\ \A d \in Callbacks \ {c} : Distinct(q, callback[d])
  BY <1>1 DEF YandexInv, HandlersSound, Yandex!CreateAuthenticatedSession
<1>3. PICK a \in Accounts, s \in 1..Len(starts) : a = q.account /\ s = q.state
  BY <1>2 DEF HandlerSound
<1>4. /\ q.by \in Browsers /\ starts[s].by = q.by /\ s \notin states
      /\ \A l \in 1..Len(logins) : logins[l].state # s
  BY <1>2, <1>3 DEF HandlerSound, Spending
<1>5. PICK e : e = [state |-> s, account |-> a, by |-> q.by, at |-> second]
  OBVIOUS
<1>6. starts \in Seq(StartRow) /\ logins \in Seq(LoginRow) /\ second \in Nat
  BY DEF YandexInv, TablesSound
<1>7. e \in LoginRow /\ e.state = s /\ e.account = a /\ e.by = q.by
  BY <1>4, <1>5, <1>6 DEF LoginRow
<1>8. logins' = Append(logins, e)
  BY <1>1, <1>3, <1>5, Zenon DEF Yandex!CreateAuthenticatedSession
<1>9. PICK n \in Nat : n = Len(logins)
  BY <1>6
<1>10. /\ logins' \in Seq(LoginRow) /\ Len(logins') = n + 1 /\ logins'[n + 1] = e
       /\ \A i \in 1..n : logins'[i] = logins[i] /\ i \in 1..Len(logins')
  BY <1>6, <1>7, <1>8, <1>9, Appended
<1>11. UNCHANGED <<second, listed, starts, states, cookie, token, mails>>
  BY DEF Yandex!CreateAuthenticatedSession, Yandex!server
<1>12. PICK at \in {"welcome", "answer"} : at = IF Yandex!New(a) THEN "welcome" ELSE "answer"
  OBVIOUS
<1>24. PICK m \in Nat : m = n + 1
  OBVIOUS
<1>13. PICK r : r = [q EXCEPT !.at = at, !.login = m]
  OBVIOUS
<1>25. r \in CallbackRow /\ r.at = at /\ r.account = q.account /\ r.by = q.by /\ r.state = q.state /\ r.login = m
  BY <1>12, <1>13 DEF CallbackRow
<1>14. /\ r \in CallbackRow /\ r.at = at /\ r.account = a /\ r.by = q.by /\ r.state = s /\ r.login = n + 1
  BY <1>3, <1>24, <1>25
<1>15. /\ callback' \in [Callbacks -> CallbackRow] /\ callback'[c] = r
       /\ \A d \in Callbacks \ {c} : callback'[d] = callback[d]
  <2>1. callback \in [Callbacks -> CallbackRow]
    BY DEF YandexInv, HandlersSound
  <2>2. callback' = [callback EXCEPT ![c].at = at, ![c].login = m]
    BY <1>1, <1>3, <1>10, <1>12, <1>24, Zenon DEF Yandex!CreateAuthenticatedSession
  <2>3. callback' = [callback EXCEPT ![c] = [callback[c] EXCEPT !.at = at, !.login = m]]
    BY <2>1, <2>2 DEF CallbackRow
  <2>4. callback' = [callback EXCEPT ![c] = r]
    BY <1>1, <1>13, <2>3, Zenon
  <2> QED
    BY <1>14, <2>1, <2>4
<1>26. starts[s] \in StartRow
  BY <1>6
<1>16. users \in [Accounts -> Int] /\ starts[s].at \in Nat
  BY <1>26 DEF YandexInv, LettersSound, StartRow
<1>17. users' = [users EXCEPT ![a] = IF users[a] = Yandex!Never THEN starts[s].at ELSE users[a]]
  BY <1>1, <1>3, Zenon DEF Yandex!CreateAuthenticatedSession
<1>18. /\ users' \in [Accounts -> Int] /\ users'[a] # Yandex!Never
       /\ \A x \in Accounts : users[x] # Yandex!Never => users'[x] = users[x]
       /\ \A x \in Accounts : x # a => users'[x] = users[x]
       /\ users[a] = Yandex!Never => users'[a] = starts[s].at
  BY <1>16, <1>17 DEF Yandex!Never
<1>19. TablesSound'
  BY <1>9, <1>10, <1>11 DEF YandexInv, TablesSound
<1>20. LoginsSound'
  BY <1>4, <1>7, <1>9, <1>10, <1>11 DEF YandexInv, LoginsSound
<1>21. LettersSound'
  BY <1>11, <1>18 DEF YandexInv, LettersSound, Yandex!Never
<1>22. HandlersSound'
  <2>1. HandlerSound(r)'
    <3>1. at = "welcome" => mails[a] = 0
      BY <1>12 DEF YandexInv, LettersSound, Yandex!New
    <3> QED
      BY <1>4, <1>7, <1>9, <1>10, <1>11, <1>12, <1>14, <1>18, <3>1 DEF HandlerSound, Spending, Yandex!Never
  <2>2. ASSUME NEW d \in Callbacks \ {c} PROVE HandlerSound(callback[d])' /\ Distinct(r, callback[d])
    <3>1. PICK o \in CallbackRow : o = callback[d] /\ o = callback'[d]
      BY <1>15 DEF YandexInv, HandlersSound
    <3>2. HandlerSound(o) /\ Distinct(q, o)
      BY <1>2, <3>1 DEF YandexInv, HandlersSound
    <3>3. HandlerSound(o)'
      <4>1. Spending(o) => o.state # s
        BY <1>2, <1>3, <3>2 DEF Distinct, Spending
      <4> QED
        BY <1>7, <1>9, <1>10, <1>11, <1>18, <3>2, <4>1 DEF HandlerSound, Spending, Yandex!Never
    <3>4. Distinct(r, o)
      <4>1. o.at = "welcome" => users[o.account] # Yandex!Never
        BY <3>2 DEF HandlerSound
      <4> QED
        BY <1>12, <1>14, <4>1 DEF Distinct, Spending, Yandex!New
    <3> QED
      BY <3>1, <3>3, <3>4
  <2>3. ASSUME NEW d \in Callbacks PROVE HandlerSound(callback[d])'
    <3>1. CASE d = c
      BY <1>15, <2>1, <3>1
    <3> QED
      BY <2>2, <3>1
  <2>4. ASSUME NEW d \in Callbacks, NEW f \in Callbacks, d # f PROVE Distinct(callback[d], callback[f])'
    <3>1. Distinct(callback'[d], callback'[f])
      BY <1>15, <2>2, <2>4 DEF YandexInv, HandlersSound, Distinct
    <3> QED
      BY <3>1 DEF Distinct, Spending
  <2> QED
    BY <1>15, <2>3, <2>4 DEF HandlersSound
<1>23. Yandex!StartsSpentOnce'
  <2>6. \A l \in 1..(n + 1) : l = n + 1 \/ l \in 1..n
    BY <1>9
  <2>7. \A l, k \in 1..n : logins[l].state = logins[k].state => l = k
    BY <1>9, Zenon DEF YandexInv, Yandex!StartsSpentOnce
  <2>8. \A l \in 1..n : logins'[l] = logins[l] /\ logins[l].state # s
    BY <1>4, <1>9, <1>10, Zenon
  <2>1. \A l, k \in 1..(n + 1) : logins'[l].state = logins'[k].state => l = k
    <3>1. logins'[n + 1].state = s
      BY <1>7, <1>10
    <3> QED
      BY <2>6, <2>7, <2>8, <3>1, Zenon
  <2>2. ASSUME NEW l \in 1..(n + 1)
        PROVE  logins'[l].by = starts[logins'[l].state].by /\ users'[logins'[l].account] # Yandex!Never
    <3>1. CASE l = n + 1
      BY <1>4, <1>7, <1>10, <1>18, <3>1
    <3>2. CASE l \in 1..n
      <4>1. /\ logins'[l] = logins[l] /\ logins[l].by = starts[logins[l].state].by
            /\ users[logins[l].account] # Yandex!Never /\ logins[l] \in LoginRow
        BY <1>6, <1>9, <1>10, <3>2 DEF YandexInv, Yandex!StartsSpentOnce
      <4>2. logins[l].account \in Accounts
        BY <4>1 DEF LoginRow
      <4> QED
        BY <1>18, <4>1, <4>2
    <3> QED
      BY <3>1, <3>2
  <2>3. \A b \in Browsers : token[b] # 0 => logins'[token[b]].by = b
    BY <1>9, <1>10 DEF YandexInv, TablesSound, Yandex!StartsSpentOnce
  <2>4. ASSUME NEW x \in Accounts, users'[x] # Yandex!Never
        PROVE  \E l \in 1..(n + 1) : logins'[l].account = x /\ starts[logins'[l].state].at = users'[x]
    <3>1. CASE users[x] # Yandex!Never
      <4>1. PICK l \in 1..n : logins[l].account = x /\ starts[logins[l].state].at = users[x]
        BY <1>9, <3>1 DEF YandexInv, Yandex!StartsSpentOnce
      <4>2. logins'[l] = logins[l] /\ users'[x] = users[x] /\ l \in 1..(n + 1)
        BY <1>10, <1>18, <3>1
      <4> QED
        BY <4>1, <4>2
    <3>2. CASE users[x] = Yandex!Never
      <4>1. x = a
        BY <1>18, <2>4, <3>2
      <4> QED
        BY <1>7, <1>10, <1>18, <3>2, <4>1
    <3> QED
      BY <3>1, <3>2
  <2>5. \A x \in Accounts : mails[x] <= 1
    BY DEF YandexInv, Yandex!StartsSpentOnce
  <2> QED
    BY <1>10, <1>11, <2>1, <2>2, <2>3, <2>4, <2>5 DEF Yandex!StartsSpentOnce
<1> QED
  BY <1>19, <1>20, <1>21, <1>22, <1>23 DEF YandexInv

LEMMA WelcomeKept ==
  ASSUME YandexInv, NEW c \in Callbacks, Yandex!DispatchWelcomeEmail(c) PROVE YandexInv'
<1>1. PICK q \in CallbackRow : q = callback[c]
  BY DEF YandexInv, HandlersSound
<1>2. HandlerSound(q) /\ q.at = "welcome" /\ \A d \in Callbacks \ {c} : Distinct(q, callback[d])
  BY <1>1 DEF YandexInv, HandlersSound, Yandex!DispatchWelcomeEmail
<1>3. PICK a \in Accounts : a = q.account
  BY <1>2 DEF HandlerSound
<1>4. mails \in [Accounts -> Nat] /\ mails[a] = 0 /\ users[a] # Yandex!Never
  BY <1>2, <1>3 DEF HandlerSound, YandexInv, LettersSound
<1>5. PICK r : r = [q EXCEPT !.at = "answer"]
  OBVIOUS
<1>6. r \in CallbackRow /\ r.at = "answer" /\ r.by = q.by /\ r.login = q.login
  BY <1>5 DEF CallbackRow
<1>7. callback' = [callback EXCEPT ![c] = r]
  <2>1. callback' = [callback EXCEPT ![c] = [callback[c] EXCEPT !.at = "answer"]]
    BY Zenon DEF Yandex!DispatchWelcomeEmail
  <2> QED
    BY <1>1, <1>5, <2>1, Zenon
<1>8. UNCHANGED <<second, listed, starts, states, cookie, users, logins, token>>
  BY DEF Yandex!DispatchWelcomeEmail, Yandex!server
<1>9. mails' \in [Accounts -> Nat] /\ mails'[a] \in {0, 1} /\ \A x \in Accounts \ {a} : mails'[x] = mails[x]
  BY <1>1, <1>3, <1>4 DEF Yandex!DispatchWelcomeEmail
<1>10. TablesSound' /\ LoginsSound'
  BY <1>8 DEF YandexInv, TablesSound, LoginsSound
<1>11. LettersSound'
  BY <1>4, <1>8, <1>9 DEF YandexInv, LettersSound, Yandex!Never
<1>12. Yandex!StartsSpentOnce'
  BY <1>8, <1>9 DEF YandexInv, Yandex!StartsSpentOnce
<1>13. callback' \in [Callbacks -> CallbackRow] /\ callback'[c] = r /\ \A d \in Callbacks \ {c} : callback'[d] = callback[d]
  BY <1>6, <1>7 DEF YandexInv, HandlersSound
<1>14. ASSUME NEW d \in Callbacks PROVE HandlerSound(callback[d])'
  <2>1. CASE d = c
    <3>1. HandlerSound(r)'
      BY <1>2, <1>6, <1>8 DEF HandlerSound, Spending
    <3> QED
      BY <1>13, <2>1, <3>1
  <2>2. CASE d # c
    <3>1. PICK o : o = callback[d]
      OBVIOUS
    <3>2. HandlerSound(o) /\ Distinct(q, o) /\ callback'[d] = o
      BY <1>2, <1>13, <2>2, <3>1 DEF YandexInv, HandlersSound
    <3>3. HandlerSound(o)'
      BY <1>2, <1>3, <1>8, <1>9, <3>2 DEF HandlerSound, Spending, Distinct, Yandex!Never
    <3> QED
      BY <3>2, <3>3
  <2> QED
    BY <2>1, <2>2
<1>15. ASSUME NEW d \in Callbacks, NEW f \in Callbacks, d # f PROVE Distinct(callback[d], callback[f])'
  <2>1. Distinct(callback'[d], callback'[f])
    BY <1>6, <1>13, <1>15 DEF YandexInv, HandlersSound, Distinct, Spending
  <2> QED
    BY <2>1 DEF Distinct, Spending
<1>16. HandlersSound'
  BY <1>13, <1>14, <1>15 DEF HandlersSound
<1> QED
  BY <1>10, <1>11, <1>12, <1>16 DEF YandexInv

\* Browsers lose cookies, and get the token of a session of their own.
LEMMA CookiesKept ==
  ASSUME YandexInv, UNCHANGED <<second, listed, starts, states, callback, users, logins, mails>>,
         cookie' \in [Browsers -> Nat], \A b \in Browsers : cookie'[b] \in {0, cookie[b]},
         token' \in [Browsers -> Nat],
         \A b \in Browsers :
           \/ token'[b] \in {0, token[b]}
           \/ token'[b] \in 1..Len(logins) /\ logins[token'[b]].by = b
  PROVE  YandexInv'
<1>1. TablesSound'
  BY DEF YandexInv, TablesSound
<1>2. LoginsSound' /\ LettersSound'
  BY DEF YandexInv, LoginsSound, LettersSound
<1>3. HandlersSound'
  BY DEF YandexInv, HandlersSound, HandlerSound, Distinct, Spending
<1>4. Yandex!StartsSpentOnce'
  BY DEF YandexInv, Yandex!StartsSpentOnce
<1> QED
  BY <1>1, <1>2, <1>3, <1>4 DEF YandexInv

LEMMA RedirectKept ==
  ASSUME YandexInv, NEW c \in Callbacks, Yandex!Redirect(c) PROVE YandexInv'
<1>1. PICK q \in CallbackRow : q = callback[c]
  BY DEF YandexInv, HandlersSound
<1>2. HandlerSound(q) /\ q.at = "answer"
  BY <1>1 DEF YandexInv, HandlersSound, Yandex!Redirect
<1>3. PICK b \in Browsers : b = q.by
  BY <1>2 DEF HandlerSound
<1>4. /\ cookie' = [cookie EXCEPT ![b] = 0]
      /\ token' = [token EXCEPT ![b] = IF q.login = 0 THEN token[b] ELSE q.login]
      /\ callback' = [callback EXCEPT ![c] = Yandex!Idle]
      /\ UNCHANGED <<second, listed, starts, states, users, logins, mails>>
  BY <1>1, <1>3, Zenon DEF Yandex!Redirect, Yandex!server
<1>5. cookie \in [Browsers -> Nat] /\ token \in [Browsers -> Nat] /\ q.login \in Nat
  BY DEF YandexInv, TablesSound, CallbackRow
<1>6. cookie' \in [Browsers -> Nat] /\ token' \in [Browsers -> Nat] /\ \A i \in Browsers : cookie'[i] \in {0, cookie[i]}
  BY <1>4, <1>5
<1>7. \A i \in Browsers : token'[i] = token[i] \/ (token'[i] \in 1..Len(logins) /\ logins[token'[i]].by = i)
  BY <1>2, <1>3, <1>4, <1>5 DEF HandlerSound
<1>8. TablesSound'
  BY <1>4, <1>6, <1>7 DEF YandexInv, TablesSound
<1>9. LoginsSound' /\ LettersSound'
  BY <1>4 DEF YandexInv, LoginsSound, LettersSound
<1>10. Yandex!StartsSpentOnce'
  BY <1>4, <1>7 DEF YandexInv, Yandex!StartsSpentOnce
<1>11. HandlersSound'
  <2>1. PICK r \in CallbackRow : r = Yandex!Idle /\ r.at = "idle" /\ r.login = 0
    BY IdleIs
  <2>2. /\ callback' \in [Callbacks -> CallbackRow] /\ callback'[c] = r
        /\ \A d \in Callbacks \ {c} : callback'[d] = callback[d]
    BY <1>4, <2>1 DEF YandexInv, HandlersSound
  <2>3. ASSUME NEW d \in Callbacks PROVE HandlerSound(callback[d])'
    <3>1. HandlerSound(callback'[d])
      BY <2>1, <2>2 DEF YandexInv, HandlersSound, HandlerSound, Spending
    <3> QED
      BY <1>4, <3>1 DEF HandlerSound, Spending
  <2>4. ASSUME NEW d \in Callbacks, NEW f \in Callbacks, d # f PROVE Distinct(callback[d], callback[f])'
    <3>1. Distinct(callback'[d], callback'[f])
      BY <2>1, <2>2, <2>4 DEF YandexInv, HandlersSound, Distinct, Spending
    <3> QED
      BY <3>1 DEF Distinct, Spending
  <2> QED
    BY <2>2, <2>3, <2>4 DEF HandlersSound
<1> QED
  BY <1>8, <1>9, <1>10, <1>11 DEF YandexInv

LEMMA RestartKept == ASSUME YandexInv, Yandex!Restart PROVE YandexInv'
<1>1. /\ callback' = [c \in Callbacks |-> Yandex!Idle] /\ listed' \subseteq Accounts
      /\ UNCHANGED <<second, starts, states, cookie, users, logins, token, mails>>
  BY DEF Yandex!Restart
<1>2. TablesSound' /\ LoginsSound' /\ LettersSound'
  BY <1>1 DEF YandexInv, TablesSound, LoginsSound, LettersSound
<1>3. Yandex!StartsSpentOnce'
  BY <1>1 DEF YandexInv, Yandex!StartsSpentOnce
<1>4. PICK r \in CallbackRow : r = Yandex!Idle /\ r.at = "idle" /\ r.login = 0
  BY IdleIs
<1>5. HandlerSound(r)' /\ Distinct(r, r)'
  BY <1>4 DEF HandlerSound, Distinct, Spending
<1>6. HandlersSound'
  BY <1>1, <1>4, <1>5 DEF HandlersSound
<1> QED
  BY <1>2, <1>3, <1>6 DEF YandexInv

LEMMA YandexInit == Yandex!Init => YandexInv
<1> SUFFICES ASSUME Yandex!Init PROVE YandexInv
  OBVIOUS
<1>1. /\ second = 0 /\ starts = <<>> /\ states = {} /\ logins = <<>> /\ listed = Accounts
      /\ cookie = [b \in Browsers |-> 0] /\ token = [b \in Browsers |-> 0]
      /\ callback = [c \in Callbacks |-> Yandex!Idle]
      /\ users = [a \in Accounts |-> Yandex!Never] /\ mails = [a \in Accounts |-> 0]
  BY DEF Yandex!Init
<1>2. TablesSound
  BY <1>1 DEF TablesSound
<1>3. LoginsSound /\ LettersSound
  BY <1>1 DEF LoginsSound, LettersSound, Yandex!Never
<1>4. PICK r \in CallbackRow : r = Yandex!Idle /\ r.at = "idle" /\ r.login = 0
  BY IdleIs
<1>5. HandlerSound(r) /\ Distinct(r, r)
  BY <1>4 DEF HandlerSound, Distinct, Spending
<1>6. HandlersSound
  BY <1>1, <1>4, <1>5 DEF HandlersSound
<1>7. Yandex!StartsSpentOnce
  BY <1>1 DEF Yandex!StartsSpentOnce
<1> QED
  BY <1>2, <1>3, <1>6, <1>7 DEF YandexInv

LEMMA YandexStep == ASSUME YandexInv, [Yandex!Next]_(Yandex!sessions) PROVE YandexInv'
<1>1. cookie \in [Browsers -> Nat] /\ token \in [Browsers -> Nat]
  BY DEF YandexInv, TablesSound
<1>2. ASSUME UNCHANGED <<listed, starts, states, cookie, callback, users, logins, token, mails>>, second' \in Nat
      PROVE  YandexInv'
  <2>1. TablesSound' /\ LoginsSound' /\ LettersSound'
    BY <1>2 DEF YandexInv, TablesSound, LoginsSound, LettersSound
  <2>2. HandlersSound'
    BY <1>2 DEF YandexInv, HandlersSound, HandlerSound, Distinct, Spending
  <2>3. Yandex!StartsSpentOnce'
    BY <1>2 DEF YandexInv, Yandex!StartsSpentOnce
  <2> QED
    BY <2>1, <2>2, <2>3 DEF YandexInv
<1>3. second \in Nat
  BY DEF YandexInv, TablesSound
<1>4. CASE UNCHANGED Yandex!sessions
  BY <1>2, <1>3, <1>4 DEF Yandex!sessions
<1>5. CASE Yandex!Tick
  BY <1>2, <1>3, <1>5 DEF Yandex!Tick
<1>6. ASSUME NEW b \in Browsers, Yandex!Authenticate(b) PROVE YandexInv'
  BY <1>2, <1>3, <1>6 DEF Yandex!Authenticate, Yandex!server
<1>7. ASSUME NEW b \in Browsers, Yandex!Logout(b) PROVE YandexInv'
  <2>1. /\ token' = [token EXCEPT ![b] = 0]
        /\ UNCHANGED <<second, listed, starts, states, cookie, callback, users, logins, mails>>
    BY <1>7 DEF Yandex!Logout, Yandex!server
  <2> QED
    BY <1>1, <2>1, CookiesKept
<1>8. ASSUME NEW b \in Browsers, Yandex!CreateOAuthState(b) PROVE YandexInv'
  BY <1>8, StartKept
<1>9. ASSUME NEW c \in Callbacks, NEW b \in Browsers, NEW s \in 1..MaxStarts, Yandex!FinishYandexAuth(c, b, s)
      PROVE  YandexInv'
  BY <1>9, FinishKept
<1>10. ASSUME NEW c \in Callbacks,
              Yandex!ConsumeOAuthState(c) \/ Yandex!ExchangeCode(c) \/ Yandex!CreateAuthenticatedSession(c)
       PROVE  YandexInv'
  BY <1>10, ConsumeKept, ExchangeKept, SessionKept
<1>11. ASSUME NEW c \in Callbacks,
              Yandex!DispatchWelcomeEmail(c) \/ Yandex!Redirect(c) \/ Yandex!CallbackEnds(c)
       PROVE  YandexInv'
  BY <1>11, WelcomeKept, RedirectKept, EndsKept
<1> QED
  BY <1>4, <1>5, <1>6, <1>7, <1>8, <1>9, <1>10, <1>11, RestartKept, Zenon DEF Yandex!Next

\* The inductive invariant of sign-in with Yandex (internal/api/auth.go, internal/store/auth.go): whoever asks Yandex
\* with a state has taken it from the table, so nobody else has it or made a session of it.
THEOREM YandexSound == YandexSpec => []YandexInv
<1>1. YandexInv /\ [Yandex!Next]_(Yandex!sessions) => YandexInv'
  BY YandexStep
<1> QED
  BY YandexInit, <1>1, PTL DEF YandexSpec

\* However often callbacks are opened, run at once or end half-way: a start makes one session at most, in the browser
\* that made it, and an account has its consent from a start completed for it and one welcome letter at most.
THEOREM StartsAreSpentOnce == YandexSpec => []Yandex!StartsSpentOnce
<1>1. YandexInv => Yandex!StartsSpentOnce
  BY DEF YandexInv
<1> QED
  BY <1>1, YandexSound, PTL
----------------------------------------------------------------------------
(* Wordstat: the windows of a second hold, and no quota is spent on an answer the process still has. *)
Wordstat == INSTANCE Wordstat
WordstatSpec == Wordstat!Init /\ [][Wordstat!Next]_(Wordstat!wordstat)

FlightRow == [pc : {"none", "check", "quota", "call"}, leader : Callers \cup {Nobody}, stamp : Nat]
EventRow == [id : Nat, user : Users, stamp : Nat]

\* A flight that has its time waits no longer than it may, and is for an answer that was not there.
FlightSound(p, u, f) ==
  /\ f.pc = "quota" => f.stamp <= now /\ now <= f.stamp + MaxWait
  /\ f.pc \in {"quota", "call"} => ~Wordstat!Fresh(p, u, f.stamp)
\* The ledger forgets nothing of the last hour, whoever's clock expired it.
LedgerSound ==
  /\ reserved \subseteq EventRow /\ IsFiniteSet(reserved) /\ ledger \subseteq reserved
  /\ \A e \in reserved : e.stamp > now - Length["hour"] => e \in ledger
WordstatInv ==
  /\ now \in Nat /\ cache \in [Processes -> [Users -> Int]] /\ flight \in [Processes -> [Users -> FlightRow]]
  /\ \A p \in Processes, u \in Users : FlightSound(p, u, flight[p][u])
  /\ LedgerSound /\ Wordstat!BurstKept

LEMMA WordstatInit == ASSUME Wordstat!WordstatOK, Wordstat!Init PROVE WordstatInv
<1>1. Wordstat!Never \in Int
  BY DEF Wordstat!WordstatOK, Wordstat!Never
<1>2. PICK f : f = Wordstat!NoFlight
  OBVIOUS
<1>3. f \in FlightRow /\ f.pc = "none"
  BY <1>2 DEF Wordstat!NoFlight, FlightRow
<1>4. flight \in [Processes -> [Users -> FlightRow]] /\ \A p \in Processes, u \in Users : flight[p][u] = f
  BY <1>2, <1>3 DEF Wordstat!Init
<1>5. LedgerSound
  BY FS_EmptySet DEF Wordstat!Init, LedgerSound
<1>6. Wordstat!BurstKept
  BY DEF Wordstat!Init, Wordstat!BurstKept
<1>7. now \in Nat /\ cache \in [Processes -> [Users -> Int]]
  BY <1>1 DEF Wordstat!Init
<1> QED
  BY <1>3, <1>4, <1>5, <1>6, <1>7 DEF WordstatInv, FlightSound

\* One flight changes; nothing else that the invariant is about.
LEMMA FlightStep ==
  ASSUME WordstatInv, UNCHANGED <<now, cache, ledger, reserved>>, NEW p \in Processes, NEW u \in Users,
         NEW f \in FlightRow, FlightSound(p, u, f), flight' = [flight EXCEPT ![p][u] = f]
  PROVE  WordstatInv'
<1>1. flight' \in [Processes -> [Users -> FlightRow]]
  BY DEF WordstatInv
<1>2. \A x \in Processes, y \in Users : (flight'[x][y] = f /\ x = p /\ y = u) \/ flight'[x][y] = flight[x][y]
  BY DEF WordstatInv
<1>3. \A x \in Processes, y \in Users : FlightSound(x, y, flight[x][y])'
  <2> SUFFICES ASSUME NEW x \in Processes, NEW y \in Users PROVE FlightSound(x, y, flight[x][y])'
    OBVIOUS
  <2>1. FlightSound(x, y, flight'[x][y])
    BY <1>2 DEF WordstatInv
  <2> QED
    BY <2>1 DEF FlightSound, Wordstat!Fresh
<1>4. LedgerSound' /\ Wordstat!BurstKept'
  BY DEF WordstatInv, LedgerSound, Wordstat!BurstKept, Wordstat!Scope
<1> QED
  BY <1>1, <1>3, <1>4 DEF WordstatInv

LEMMA NoFlightSound == \E f \in FlightRow : f = Wordstat!NoFlight /\ \A p, u : FlightSound(p, u, f)
<1>1. PICK f : f = Wordstat!NoFlight
  OBVIOUS
<1>2. f \in FlightRow /\ f.pc = "none"
  BY <1>1 DEF Wordstat!NoFlight, FlightRow
<1> QED
  BY <1>1, <1>2 DEF FlightSound

LEMMA LandKept ==
  ASSUME WordstatInv, UNCHANGED <<now, cache, ledger, reserved>>, NEW p \in Processes, NEW u \in Users, Wordstat!Land(p, u)
  PROVE  WordstatInv'
<1>1. PICK f \in FlightRow : f = Wordstat!NoFlight /\ \A x, y : FlightSound(x, y, f)
  BY NoFlightSound
<1>2. flight' = [flight EXCEPT ![p][u] = f]
  BY <1>1 DEF Wordstat!Land, Wordstat!Fly
<1> QED
  BY <1>1, <1>2, FlightStep

LEMMA FlightsSame ==
  ASSUME WordstatInv, UNCHANGED <<now, flight, cache, ledger, reserved>> PROVE WordstatInv'
BY DEF WordstatInv, FlightSound, Wordstat!Fresh, LedgerSound, Wordstat!BurstKept, Wordstat!Scope

LEMMA GetWordstatTopKept ==
  ASSUME WordstatInv, NEW c \in Callers, NEW p \in Processes, NEW u \in Users, Wordstat!GetWordstatTop(c, p, u)
  PROVE  WordstatInv'
<1>1. UNCHANGED <<now, cache, ledger, reserved>>
  BY DEF Wordstat!GetWordstatTop
<1>2. CASE UNCHANGED flight
  BY <1>1, <1>2, FlightsSame
<1>3. CASE Wordstat!Fly(p, u, [Wordstat!NoFlight EXCEPT !.pc = "check", !.leader = c])
  <2>1. PICK n \in FlightRow : n = Wordstat!NoFlight
    BY NoFlightSound
  <2>2. PICK f : f = [n EXCEPT !.pc = "check", !.leader = c]
    OBVIOUS
  <2>3. f \in FlightRow /\ f.pc = "check"
    BY <2>2 DEF FlightRow
  <2>4. FlightSound(p, u, f)
    BY <2>3 DEF FlightSound
  <2>5. flight' = [flight EXCEPT ![p][u] = f]
    BY <1>3, <2>1, <2>2, Zenon DEF Wordstat!Fly
  <2> QED
    BY <1>1, <2>3, <2>4, <2>5, FlightStep
<1> QED
  BY <1>2, <1>3 DEF Wordstat!GetWordstatTop

LEMMA RecheckKept ==
  ASSUME WordstatInv, NEW p \in Processes, NEW u \in Users, Wordstat!WordstatOK, Wordstat!Recheck(p, u) PROVE WordstatInv'
<1>1. UNCHANGED <<now, cache, ledger, reserved>>
  BY DEF Wordstat!Recheck
<1>2. CASE Wordstat!Fresh(p, u, now)
  <2>1. Wordstat!Land(p, u)
    BY <1>2 DEF Wordstat!Recheck
  <2> QED
    BY <1>1, <2>1, LandKept
<1>3. CASE ~Wordstat!Fresh(p, u, now)
  <2>1. PICK o \in FlightRow : o = flight[p][u]
    BY DEF WordstatInv
  <2>2. PICK t \in Nat : t = now
    BY DEF WordstatInv
  <2>3. PICK f : f = [o EXCEPT !.pc = "quota", !.stamp = t]
    OBVIOUS
  <2>4. f \in FlightRow /\ f.pc = "quota" /\ f.stamp = t
    BY <2>3 DEF FlightRow
  <2>5. FlightSound(p, u, f)
    BY <1>3, <2>2, <2>4 DEF FlightSound, Wordstat!WordstatOK
  <2>6. flight' = [flight EXCEPT ![p][u] = f]
    BY <1>3, <2>1, <2>2, <2>3, Zenon DEF Wordstat!Recheck, Wordstat!Fly
  <2> QED
    BY <1>1, <2>4, <2>5, <2>6, FlightStep
<1> QED
  BY <1>2, <1>3

\* An event of the second before t, or of the second of a later one, is in the ledger the transaction of time t counts.
LEMMA BurstCounted ==
  ASSUME Wordstat!WordstatOK, WordstatInv, NEW t \in Nat, t <= now, now <= t + MaxWait, NEW x \in reserved,
         x.stamp > t - Length["second"]
  PROVE  x \in Wordstat!Kept(t)
<1>1. x.stamp \in Nat /\ now \in Nat
  BY DEF WordstatInv, LedgerSound, EventRow
<1>2. x.stamp > now - Length["hour"] /\ x.stamp > t - Length["hour"]
  BY <1>1 DEF Wordstat!WordstatOK
<1> QED
  BY <1>2 DEF WordstatInv, LedgerSound, Wordstat!Kept

LEMMA WordstatCount == ASSUME NEW S PROVE Wordstat!Cardinality(S) = Cardinality(S)
BY DEF Wordstat!Cardinality, Cardinality

\* The requests of the second that ends with one.
Burst(all, s, last) ==
  {x \in all : /\ x.user \in Wordstat!Scope(s, last.user)
               /\ x.stamp <= last.stamp /\ x.stamp > last.stamp - Length["second"]}

\* Whatever the order of the clocks, one more event does not break a window of a second.
LEMMA BurstStep ==
  ASSUME Wordstat!WordstatOK, WordstatInv, NEW t \in Nat, t <= now, now <= t + MaxWait, NEW u \in Users,
         Wordstat!WindowFree(u, t), NEW e \in EventRow, e.user = u, e.stamp = t, reserved' = reserved \cup {e}
  PROVE  Wordstat!BurstKept'
<1>1. IsFiniteSet(reserved) /\ IsFiniteSet(reserved') /\ reserved \subseteq EventRow
  BY FS_AddElement DEF WordstatInv, LedgerSound
<1>2. SUFFICES ASSUME NEW s \in DOMAIN LimitOf, NEW last \in reserved'
               PROVE  Wordstat!Cardinality(Burst(reserved', s, last)) <= LimitOf[s]["second"]
  BY Zenon DEF Wordstat!BurstKept, Burst
<1>3. LimitOf[s]["second"] \in Nat /\ Length["second"] \in Nat \ {0} /\ "second" \in DOMAIN Length
  BY DEF Wordstat!WordstatOK
<1>4. last \in EventRow /\ last.stamp \in Nat
  BY <1>1 DEF EventRow
<1>5. CASE e \notin Burst(reserved', s, last)
  <2>1. Burst(reserved', s, last) = Burst(reserved, s, last)
    BY <1>5 DEF Burst
  <2>2. last # e
    <3> SUFFICES ASSUME last = e PROVE e \in Burst(reserved', s, last)
      BY <1>5
    <3>1. u \in Wordstat!Scope(s, u)
      BY DEF Wordstat!Scope
    <3>2. t <= t /\ t > t - Length["second"]
      BY <1>3
    <3> QED
      BY <3>1, <3>2 DEF Burst
  <2>3. last \in reserved
    BY <2>2
  <2> QED
    <3>1. Wordstat!Cardinality(Burst(reserved, s, last)) <= LimitOf[s]["second"]
      BY <2>3, Zenon DEF WordstatInv, Wordstat!BurstKept, Burst
    <3> QED
      BY <2>1, <3>1, WordstatCount
<1>6. CASE e \in Burst(reserved', s, last)
  <2> DEFINE counted == Wordstat!Within("second", Wordstat!Used(s, u, t), t)
  <2>1. t <= last.stamp /\ t > last.stamp - Length["second"] /\ u \in Wordstat!Scope(s, last.user)
    BY <1>6 DEF Burst
  <2>2. Wordstat!Scope(s, last.user) = Wordstat!Scope(s, u)
    BY <2>1 DEF Wordstat!Scope
  <2>3. ASSUME NEW x \in Burst(reserved', s, last), x # e PROVE x \in counted
    <3>1. x \in reserved /\ x.user \in Wordstat!Scope(s, u) /\ x.stamp > last.stamp - Length["second"] /\ x.stamp \in Nat
      BY <1>1, <2>2, <2>3 DEF EventRow, Burst
    <3>2. x.stamp > t - Length["second"]
      BY <1>3, <1>4, <2>1, <3>1
    <3>3. x \in Wordstat!Kept(t)
      BY <3>1, <3>2, BurstCounted
    <3> QED
      BY <3>1, <3>2, <3>3 DEF Wordstat!Within, Wordstat!Used
  <2>4. IsFiniteSet(counted) /\ Cardinality(counted) \in Nat
    <3>1. counted \subseteq reserved
      BY DEF Wordstat!Within, Wordstat!Used, Wordstat!Kept, WordstatInv, LedgerSound
    <3> QED
      BY <1>1, <3>1, FS_Subset, FS_CardinalityType
  <2>5. Cardinality(counted) < LimitOf[s]["second"]
    <3>1. Wordstat!Cardinality(counted) < LimitOf[s]["second"]
      BY <1>3, Zenon DEF Wordstat!WindowFree
    <3> QED
      BY <3>1, WordstatCount
  <2> HIDE DEF counted
  <2>6. Burst(reserved', s, last) \subseteq counted \cup {e}
    BY <2>3
  <2>7. IsFiniteSet(counted \cup {e}) /\ Cardinality(counted \cup {e}) <= Cardinality(counted) + 1
    <3>1. /\ IsFiniteSet(counted \cup {e})
          /\ Cardinality(counted \cup {e}) = Cardinality(counted) \/ Cardinality(counted \cup {e}) = Cardinality(counted) + 1
      BY <2>4, FS_AddElement, Zenon
    <3> QED
      BY <2>4, <3>1
  <2>8. /\ Cardinality(Burst(reserved', s, last)) <= Cardinality(counted \cup {e})
        /\ Cardinality(Burst(reserved', s, last)) \in Nat /\ Cardinality(counted \cup {e}) \in Nat
    BY <2>6, <2>7, FS_Subset, FS_CardinalityType
  <2> QED
    BY <1>3, <2>4, <2>5, <2>7, <2>8, WordstatCount
<1> QED
  BY <1>5, <1>6

LEMMA AcquireQuotaKept ==
  ASSUME Wordstat!WordstatOK, WordstatInv, NEW p \in Processes, NEW u \in Users, Wordstat!AcquireWordstatQuota(p, u)
  PROVE  WordstatInv'
<1>1. PICK o \in FlightRow : o = flight[p][u]
  BY DEF WordstatInv
<1>2. PICK t \in Nat : t = o.stamp
  BY DEF FlightRow
<1>3. PICK n : n = Wordstat!Cardinality(reserved) + 1
  OBVIOUS
<1>4. UNCHANGED <<now, cache>> /\ o.pc = "quota" /\ FlightSound(p, u, o)
  BY <1>1 DEF Wordstat!AcquireWordstatQuota, WordstatInv
<1>5. t <= now /\ now <= t + MaxWait /\ ~Wordstat!Fresh(p, u, t)
  BY <1>2, <1>4 DEF FlightSound
<1>6. CASE Wordstat!Land(p, u) /\ UNCHANGED <<ledger, reserved>>
  BY <1>4, <1>6, LandKept
<1>7. CASE /\ Wordstat!WindowFree(u, t)
           /\ ledger' = Wordstat!Kept(t) \cup {[id |-> n, user |-> u, stamp |-> t]}
           /\ reserved' = reserved \cup {[id |-> n, user |-> u, stamp |-> t]}
           /\ Wordstat!Fly(p, u, [o EXCEPT !.pc = "call"])
  <2>1. PICK e : e = [id |-> n, user |-> u, stamp |-> t]
    OBVIOUS
  <2>2. ledger' = Wordstat!Kept(t) \cup {e} /\ reserved' = reserved \cup {e}
    BY <1>7, <2>1, Zenon
  <2>3. e \in EventRow /\ e.user = u /\ e.stamp = t
    <3>1. n \in Nat
      BY <1>3, WordstatCount, FS_CardinalityType DEF WordstatInv, LedgerSound
    <3> QED
      BY <2>1, <3>1 DEF EventRow
  <2>4. PICK f : f = [o EXCEPT !.pc = "call"]
    OBVIOUS
  <2>5. f \in FlightRow /\ f.pc = "call" /\ f.stamp = t
    BY <1>2, <2>4 DEF FlightRow
  <2>6. flight' = [flight EXCEPT ![p][u] = f]
    BY <1>7, <2>4, Zenon DEF Wordstat!Fly
  <2>7. flight' \in [Processes -> [Users -> FlightRow]]
    BY <2>5, <2>6 DEF WordstatInv
  <2>8. \A x \in Processes, y \in Users : FlightSound(x, y, flight[x][y])'
    <3> SUFFICES ASSUME NEW x \in Processes, NEW y \in Users PROVE FlightSound(x, y, flight[x][y])'
      OBVIOUS
    <3>1. FlightSound(p, u, f)
      BY <1>5, <2>5 DEF FlightSound
    <3>2. (flight'[x][y] = f /\ x = p /\ y = u) \/ flight'[x][y] = flight[x][y]
      BY <2>6 DEF WordstatInv
    <3>3. FlightSound(x, y, flight'[x][y])
      BY <3>1, <3>2 DEF WordstatInv
    <3> QED
      BY <1>4, <3>3 DEF FlightSound, Wordstat!Fresh
  <2>9. LedgerSound'
    <3>1. reserved' \subseteq EventRow /\ IsFiniteSet(reserved') /\ ledger' \subseteq reserved'
      BY <2>2, <2>3, FS_AddElement DEF WordstatInv, LedgerSound, Wordstat!Kept
    <3>2. ASSUME NEW x \in reserved', x.stamp > now' - Length["hour"] PROVE x \in ledger'
      <4>1. CASE x = e
        BY <2>2, <4>1
      <4>2. CASE x \in reserved
        <5>1. x \in ledger /\ x.stamp \in Nat /\ now \in Nat
          BY <1>4, <3>2, <4>2 DEF WordstatInv, LedgerSound, EventRow
        <5>2. x.stamp > t - Length["hour"]
          BY <1>4, <1>5, <3>2, <5>1 DEF Wordstat!WordstatOK
        <5> QED
          BY <2>2, <5>1, <5>2 DEF Wordstat!Kept
      <4> QED
        BY <2>2, <4>1, <4>2
    <3> QED
      BY <3>1, <3>2 DEF LedgerSound
  <2>10. Wordstat!BurstKept'
    BY <1>5, <1>7, <2>2, <2>3, BurstStep
  <2> QED
    BY <1>4, <2>7, <2>8, <2>9, <2>10 DEF WordstatInv
<1>8. CASE Wordstat!WindowFree(u, t)
  BY <1>1, <1>2, <1>3, <1>7, <1>8, Zenon DEF Wordstat!AcquireWordstatQuota
<1>9. CASE ~Wordstat!WindowFree(u, t)
  BY <1>1, <1>2, <1>6, <1>9, Zenon DEF Wordstat!AcquireWordstatQuota
<1> QED
  BY <1>8, <1>9

\* A flight lands with an answer, a process starts anew, time passes.
LEMMA CacheStep ==
  ASSUME WordstatInv, UNCHANGED <<now, ledger, reserved>>, cache' \in [Processes -> [Users -> Int]],
         flight' \in [Processes -> [Users -> FlightRow]],
         \A p \in Processes, u \in Users :
           flight'[p][u] = Wordstat!NoFlight \/ (flight'[p][u] = flight[p][u] /\ cache'[p][u] = cache[p][u])
  PROVE  WordstatInv'
<1>1. \A p \in Processes, u \in Users : FlightSound(p, u, flight[p][u])'
  <2> SUFFICES ASSUME NEW p \in Processes, NEW u \in Users PROVE FlightSound(p, u, flight[p][u])'
    OBVIOUS
  <2>1. CASE flight'[p][u] = Wordstat!NoFlight
    BY <2>1 DEF FlightSound, Wordstat!NoFlight
  <2>2. CASE flight'[p][u] = flight[p][u] /\ cache'[p][u] = cache[p][u]
    <3>1. FlightSound(p, u, flight[p][u])
      BY DEF WordstatInv
    <3> QED
      BY <2>2, <3>1 DEF FlightSound, Wordstat!Fresh
  <2> QED
    BY <2>1, <2>2
<1>2. LedgerSound' /\ Wordstat!BurstKept'
  BY DEF WordstatInv, LedgerSound, Wordstat!BurstKept, Wordstat!Scope
<1> QED
  BY <1>1, <1>2 DEF WordstatInv

LEMMA GetTopKept ==
  ASSUME WordstatInv, NEW p \in Processes, NEW u \in Users, Wordstat!GetTop(p, u) PROVE WordstatInv'
<1>1. UNCHANGED <<now, ledger, reserved>> /\ Wordstat!Land(p, u)
  BY DEF Wordstat!GetTop
<1>2. cache' = [cache EXCEPT ![p][u] = now] \/ cache' = cache
  BY DEF Wordstat!GetTop
<1>3. PICK f \in FlightRow : f = Wordstat!NoFlight
  BY NoFlightSound
<1>4. flight' = [flight EXCEPT ![p][u] = f]
  BY <1>1, <1>3 DEF Wordstat!Land, Wordstat!Fly
<1>5. flight' \in [Processes -> [Users -> FlightRow]]
  BY <1>4 DEF WordstatInv
<1>6. cache' \in [Processes -> [Users -> Int]]
  BY <1>2 DEF WordstatInv
<1>7. \A x \in Processes, y \in Users :
        flight'[x][y] = Wordstat!NoFlight \/ (flight'[x][y] = flight[x][y] /\ cache'[x][y] = cache[x][y])
  <2> SUFFICES ASSUME NEW x \in Processes, NEW y \in Users
               PROVE  flight'[x][y] = Wordstat!NoFlight \/ (flight'[x][y] = flight[x][y] /\ cache'[x][y] = cache[x][y])
    OBVIOUS
  <2>1. CASE x = p /\ y = u
    BY <1>3, <1>4, <2>1 DEF WordstatInv
  <2>2. CASE ~(x = p /\ y = u)
    BY <1>2, <1>4, <2>2 DEF WordstatInv
  <2> QED
    BY <2>1, <2>2
<1> QED
  BY <1>1, <1>5, <1>6, <1>7, CacheStep

LEMMA ProcessRestartsKept ==
  ASSUME Wordstat!WordstatOK, WordstatInv, NEW p \in Processes, Wordstat!ProcessRestarts(p) PROVE WordstatInv'
<1>1. PICK f \in FlightRow : f = Wordstat!NoFlight
  BY NoFlightSound
<1>2. PICK never \in Int : never = Wordstat!Never
  BY DEF Wordstat!Never, Wordstat!WordstatOK
<1>3. /\ UNCHANGED <<now, ledger, reserved>>
      /\ flight' = [flight EXCEPT ![p] = [u \in Users |-> f]]
      /\ cache' = [cache EXCEPT ![p] = [u \in Users |-> never]]
  BY <1>1, <1>2 DEF Wordstat!ProcessRestarts
<1>4. flight' \in [Processes -> [Users -> FlightRow]] /\ cache' \in [Processes -> [Users -> Int]]
  BY <1>3 DEF WordstatInv
<1>5. \A x \in Processes, y \in Users : flight'[x][y] = f \/ (flight'[x][y] = flight[x][y] /\ cache'[x][y] = cache[x][y])
  BY <1>3 DEF WordstatInv
<1> QED
  BY <1>1, <1>3, <1>4, <1>5, CacheStep

LEMMA WordstatTick == ASSUME Wordstat!WordstatOK, WordstatInv, Wordstat!Tick PROVE WordstatInv'
<1>1. UNCHANGED <<flight, cache, ledger, reserved>> /\ now' = now + 1 /\ now \in Nat
  BY DEF Wordstat!Tick, WordstatInv
<1>2. \A p \in Processes, u \in Users : FlightSound(p, u, flight[p][u])'
  <2> SUFFICES ASSUME NEW p \in Processes, NEW u \in Users PROVE FlightSound(p, u, flight[p][u])'
    OBVIOUS
  <2>1. PICK f \in FlightRow : f = flight[p][u]
    BY DEF WordstatInv
  <2>2. FlightSound(p, u, f) /\ (f.pc = "quota" => now < f.stamp + MaxWait) /\ f.stamp \in Nat
    BY <2>1 DEF WordstatInv, Wordstat!Tick, FlightRow
  <2>3. FlightSound(p, u, f)'
    BY <1>1, <2>2 DEF FlightSound, Wordstat!Fresh, Wordstat!WordstatOK
  <2> QED
    BY <1>1, <2>1, <2>3
<1>3. LedgerSound'
  <2>1. \A e \in reserved : e.stamp \in Nat
    BY DEF WordstatInv, LedgerSound, EventRow
  <2> QED
    BY <1>1, <2>1 DEF WordstatInv, LedgerSound, Wordstat!WordstatOK
<1>4. Wordstat!BurstKept'
  BY <1>1 DEF WordstatInv, Wordstat!BurstKept, Wordstat!Scope
<1> QED
  BY <1>1, <1>2, <1>3, <1>4 DEF WordstatInv

\* Every step keeps the invariant.
LEMMA WordstatNext == ASSUME Wordstat!WordstatOK, WordstatInv, [Wordstat!Next]_(Wordstat!wordstat) PROVE WordstatInv'
<1>1. CASE UNCHANGED Wordstat!wordstat
  BY <1>1, FlightsSame DEF Wordstat!wordstat
<1>2. ASSUME NEW c \in Callers, NEW p \in Processes, NEW u \in Users, Wordstat!SuggestDirectCampaignKeywords(c, p, u)
      PROVE  WordstatInv'
  BY <1>2, FlightsSame DEF Wordstat!SuggestDirectCampaignKeywords
<1>3. ASSUME NEW c \in Callers, Wordstat!CallerGivesUp(c) PROVE WordstatInv'
  <2>1. UNCHANGED <<now, cache, ledger, reserved>>
    BY <1>3 DEF Wordstat!CallerGivesUp
  <2>2. CASE UNCHANGED flight
    BY <2>1, <2>2, FlightsSame
  <2>3. CASE Wordstat!Land(caller[c].at, caller[c].user)
    <3>1. PICK f \in FlightRow : f = Wordstat!NoFlight
      BY NoFlightSound
    <3>2. PICK p, u : p = caller[c].at /\ u = caller[c].user
      OBVIOUS
    <3>3. flight' = [flight EXCEPT ![p][u] = f]
      BY <2>3, <3>1, <3>2 DEF Wordstat!Land, Wordstat!Fly
    <3>4. flight' \in [Processes -> [Users -> FlightRow]]
      BY <3>3 DEF WordstatInv
    <3>5. \A x \in Processes, y \in Users : flight'[x][y] = f \/ flight'[x][y] = flight[x][y]
      BY <3>3 DEF WordstatInv
    <3>6. cache' = cache /\ cache' \in [Processes -> [Users -> Int]]
      BY <2>1 DEF WordstatInv
    <3> QED
      BY <2>1, <3>1, <3>4, <3>5, <3>6, CacheStep
  <2> QED
    BY <1>3, <2>2, <2>3 DEF Wordstat!CallerGivesUp
<1>4. ASSUME NEW p \in Processes, NEW u \in Users,
             \/ \E c \in Callers : Wordstat!GetWordstatTop(c, p, u)
             \/ Wordstat!Recheck(p, u) \/ Wordstat!AcquireWordstatQuota(p, u) \/ Wordstat!GetTop(p, u)
      PROVE  WordstatInv'
  BY <1>4, GetWordstatTopKept, RecheckKept, AcquireQuotaKept, GetTopKept
<1>5. ASSUME NEW p \in Processes, Wordstat!ProcessRestarts(p) PROVE WordstatInv'
  BY <1>5, ProcessRestartsKept
<1>6. CASE Wordstat!Tick
  BY <1>6, WordstatTick
<1> QED
  BY <1>1, <1>2, <1>3, <1>4, <1>5, <1>6 DEF Wordstat!Next

\* The inductive invariant of Wordstat's suggestions, for any callers, processes and users.
THEOREM WordstatSound == Wordstat!WordstatOK /\ WordstatSpec => []WordstatInv
<1> SUFFICES ASSUME Wordstat!WordstatOK PROVE WordstatSpec => []WordstatInv
  OBVIOUS
<1>1. Wordstat!Init => WordstatInv
  BY WordstatInit
<1>2. WordstatInv /\ [Wordstat!Next]_(Wordstat!wordstat) => WordstatInv'
  BY WordstatNext
<1> QED
  BY <1>1, <1>2, PTL DEF WordstatSpec

\* No second of any scope has more requests than its limit, whatever order transactions with older clocks commit in,
\* and no quota is spent on an answer the process still has (AcquireWordstatQuota, the cache of wordstat.go).
THEOREM BurstsAreLimited == Wordstat!WordstatOK /\ WordstatSpec => [](Wordstat!BurstKept /\ Wordstat!FreshNotAskedAgain)
<1>1. WordstatInv => Wordstat!BurstKept /\ Wordstat!FreshNotAskedAgain
  BY DEF WordstatInv, FlightSound, Wordstat!FreshNotAskedAgain
<1> QED
  BY <1>1, WordstatSound, PTL
================================================================================
