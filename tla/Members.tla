-------------------------------- MODULE Members --------------------------------
(***************************************************************************)
(* Team workspaces: their owners and members, invitations and archival.    *)
(*                                                                         *)
(* A transaction locks the workspace row, and with it everything here that *)
(* belongs to the workspace; how many workspaces somebody owns is guarded  *)
(* by a lock of that person.  What an invitation is dated with is read     *)
(* before its transaction waits for the lock.                              *)
(***************************************************************************)
EXTENDS Integers, FiniteSets

CONSTANTS
  Handlers,      \* goroutines of HTTP requests
  Teams, Users,
  Invitations,   \* bound on the invitations
  Unlimited,     \* users with complimentary access
  OwnedLimit,    \* workspaces a user may own
  Seats,         \* members a workspace may have
  MaxDate        \* bound on the clock that dates invitations and decisions

NoOne == "nobody"
Everyone == "everyone"
Free == "free"
\* What the proofs assume: names that are nobody's, locks of workspaces and of users that are different locks.
MembersOK ==
  /\ {NoOne, Everyone} \cap Users = {} /\ Free \notin Teams \cup Handlers /\ Teams \cap Users = {}
  /\ IsFiniteSet(Teams) /\ OwnedLimit \in Nat

VARIABLES
  team,      \* workspaces; busy: posts, payments, campaigns or channels are alive in it
  role,      \* workspace_members
  invite,    \* workspace_invitations
  cutoff,    \* workspace_member_invitation_cutoffs
  locks,     \* the locks transactions hold across steps, by workspace or user
  request,   \* what each goroutine does
  date,
  void       \* history: invitations older than a decision about a user

members == <<team, role, invite, cutoff, locks, request, date, void>>

NoRequest == [pc |-> "idle", x |-> Free, actor |-> NoOne, to |-> NoOne, stamp |-> 0]
Init ==
  /\ team = [x \in Teams |-> [owner |-> NoOne, archived |-> FALSE, busy |-> FALSE]]
  /\ role = [x \in Teams |-> [u \in Users |-> "none"]]
  /\ invite = [i \in Invitations |-> [status |-> "none", x |-> Free, for |-> NoOne, stamp |-> 0]]
  /\ cutoff = [x \in Teams |-> [u \in Users |-> 0]]
  /\ locks = [l \in Teams \cup Users |-> Free]
  /\ request = [h \in Handlers |-> NoRequest]
  /\ date = 1 /\ void = {}

At(h, pc) == request[h].pc = pc
Go(h, pc) == request' = [request EXCEPT ![h].pc = pc]
Released(h) == [l \in DOMAIN locks |-> IF locks[l] = h THEN Free ELSE locks[l]]
End(h) == request' = [request EXCEPT ![h] = NoRequest] /\ locks' = Released(h)
Begin(h, r) == At(h, "idle") /\ request' = [request EXCEPT ![h] = r]

\* Everything of a workspace that is not archived, once nobody holds its row.
Open(x) == team[x].owner # NoOne /\ ~team[x].archived /\ locks[x] = Free
Owns(u, x) == Open(x) /\ team[x].owner = u
MembersOf(x) == {u \in Users : role[x][u] # "none"}
Owned(u) == {x \in Teams : team[x].owner = u}
----------------------------------------------------------------------------
(* Workspaces: creation, transfer of the ownership, archival. *)

BeginCreate(h, x, u) ==
  /\ team[x].owner = NoOne /\ \A g \in Handlers : request[g].x # x
  /\ Begin(h, [NoRequest EXCEPT !.pc = "capacity", !.x = x, !.to = u])
  /\ UNCHANGED <<team, role, invite, cutoff, locks, date, void>>
BeginTransfer(h, x, u, v) ==
  /\ team[x].owner = u /\ u # v
  /\ Begin(h, [NoRequest EXCEPT !.pc = "transfer", !.x = x, !.actor = u, !.to = v])
  /\ UNCHANGED <<team, role, invite, cutoff, locks, date, void>>

StillOwner(u, x) == team[x].owner = u /\ ~team[x].archived
LockForTransfer(h) ==
  /\ At(h, "transfer")
  /\ LET r == request[h] IN
     /\ locks[r.x] = Free
     /\ IF StillOwner(r.actor, r.x) /\ role[r.x][r.to] # "none"
        THEN Go(h, "capacity") /\ locks' = [locks EXCEPT ![r.x] = h]
        ELSE End(h)
  /\ UNCHANGED <<team, role, invite, cutoff, date, void>>

\* Mutant: the owner's workspaces are counted without the lock.
CapacityUnlocked(u) == TRUE

CapacityFree(u) == locks[u] = Free
LockOwnedTeams(h) ==
  /\ At(h, "capacity") /\ CapacityFree(request[h].to)
  /\ locks' = [locks EXCEPT ![request[h].to] = h] /\ Go(h, "count")
  /\ UNCHANGED <<team, role, invite, cutoff, date, void>>
\* Archived workspaces count, too.
RequireOwnedTeamCapacity(h) ==
  /\ At(h, "count")
  /\ LET u == request[h].to IN
     IF u \in Unlimited \/ Cardinality(Owned(u)) < OwnedLimit
     THEN Go(h, "commit") /\ UNCHANGED locks ELSE End(h)
  /\ UNCHANGED <<team, role, invite, cutoff, date, void>>
CommitOwner(h) ==
  /\ At(h, "commit")
  /\ LET r == request[h] IN
     /\ team' = [team EXCEPT ![r.x].owner = r.to]
     /\ role' = [role EXCEPT ![r.x] = [u \in Users |-> IF u = r.to THEN "owner"
                                                       ELSE IF u = r.actor THEN "editor" ELSE @[u]]]
  /\ End(h)
  /\ UNCHANGED <<invite, cutoff, date, void>>

DeleteWorkspace(x, u) ==
  /\ Owns(u, x) /\ ~team[x].busy
  /\ team' = [team EXCEPT ![x].archived = TRUE]
  /\ invite' = [i \in Invitations |-> IF invite[i].x = x /\ invite[i].status = "pending"
                                      THEN [invite[i] EXCEPT !.status = "revoked"] ELSE invite[i]]
  /\ UNCHANGED <<role, cutoff, locks, request, date, void>>

\* The trigger require_active_workspace_child_write.
ActiveWorkspace(x) == Open(x)
ChildWrite(x) ==
  /\ ActiveWorkspace(x)
  /\ \E b \in BOOLEAN : team' = [team EXCEPT ![x].busy = b]
  /\ UNCHANGED <<role, invite, cutoff, locks, request, date, void>>
----------------------------------------------------------------------------
(* Members and invitations. *)

\* revokePriorWorkspaceInvitationsForMemberTx; it is dated inside the lock.
DecideAbout(x, u) ==
  /\ cutoff' = [cutoff EXCEPT ![x][u] = IF @ > date THEN @ ELSE date]
  /\ invite' = [i \in Invitations |->
       IF invite[i].x = x /\ invite[i].status = "pending" /\ invite[i].for = u /\ invite[i].stamp <= date
       THEN [invite[i] EXCEPT !.status = "revoked"] ELSE invite[i]]
  /\ void' = void \cup {<<i, u>> : i \in {j \in Invitations : invite[j].x = x}}
AddWorkspaceMember(x, u) ==
  /\ Open(x) /\ role[x][u] = "none" /\ Cardinality(MembersOf(x)) < Seats
  /\ role' = [role EXCEPT ![x][u] = "viewer"]
  /\ UNCHANGED <<team, invite, cutoff, locks, request, date, void>>
UpdateWorkspaceMemberRole(x, u) ==
  /\ Open(x) /\ role[x][u] \in {"viewer", "editor"}
  /\ role' = [role EXCEPT ![x][u] = IF @ = "viewer" THEN "editor" ELSE "viewer"]
  /\ DecideAbout(x, u)
  /\ UNCHANGED <<team, locks, request, date>>
RemoveWorkspaceMember(x, u) ==
  /\ Open(x) /\ role[x][u] \in {"viewer", "editor"}
  /\ role' = [role EXCEPT ![x][u] = "none"]
  /\ DecideAbout(x, u)
  /\ UNCHANGED <<team, locks, request, date>>

\* The date of an invitation is read before its transaction.
DateInvitation(h, x, whom) ==
  /\ team[x].owner # NoOne /\ Invitations # {}
  /\ Begin(h, [NoRequest EXCEPT !.pc = "invite", !.x = x, !.actor = team[x].owner, !.to = whom, !.stamp = date])
  /\ UNCHANGED <<team, role, invite, cutoff, locks, date, void>>
CreateWorkspaceInvitation(h, i) ==
  /\ At(h, "invite") /\ locks[request[h].x] = Free
  /\ LET r == request[h] IN
     IF Owns(r.actor, r.x)
     THEN /\ invite[i].status = "none"
          /\ invite' = [invite EXCEPT ![i] = [status |-> "pending", x |-> r.x, for |-> r.to, stamp |-> r.stamp]]
     ELSE UNCHANGED invite
  /\ End(h)
  /\ UNCHANGED <<team, role, cutoff, date, void>>
\* By its owner; or it ran out and somebody tried to use it.
CloseInvitation(i) ==
  /\ invite[i].status = "pending" /\ Open(invite[i].x)
  /\ \E s \in {"revoked", "expired"} : invite' = [invite EXCEPT ![i].status = s]
  /\ UNCHANGED <<team, role, cutoff, locks, request, date, void>>

\* Mutant: an invitation of the same instant as the decision is still good.
AfterOrAtCutoff(i, u) == cutoff[invite[i].x][u] <= invite[i].stamp

AfterCutoff(i, u) == cutoff[invite[i].x][u] < invite[i].stamp
AcceptWorkspaceInvitation(i, u) ==
  /\ invite[i].status = "pending" /\ Open(invite[i].x)
  /\ invite[i].for \in {u, Everyone} /\ AfterCutoff(i, u)
  /\ LET x == invite[i].x IN
     IF role[x][u] # "none" THEN UNCHANGED role
     ELSE Cardinality(MembersOf(x)) < Seats /\ role' = [role EXCEPT ![x][u] = "viewer"]
  /\ invite' = [invite EXCEPT ![i].status = "accepted"]
  /\ UNCHANGED <<team, cutoff, locks, request, date, void>>
----------------------------------------------------------------------------
HandlerDies(h) ==
  /\ ~At(h, "idle") /\ End(h)
  /\ UNCHANGED <<team, role, invite, cutoff, date, void>>
TimePasses ==
  /\ date < MaxDate /\ date' = date + 1
  /\ UNCHANGED <<team, role, invite, cutoff, locks, request, void>>

Next ==
  \/ \E h \in Handlers :
       \/ \E x \in Teams, u \in Users : BeginCreate(h, x, u) \/ \E v \in Users : BeginTransfer(h, x, u, v)
       \/ LockForTransfer(h) \/ LockOwnedTeams(h) \/ RequireOwnedTeamCapacity(h) \/ CommitOwner(h)
       \/ \E x \in Teams, whom \in Users \cup {Everyone} : DateInvitation(h, x, whom)
       \/ \E i \in Invitations : CreateWorkspaceInvitation(h, i)
       \/ HandlerDies(h)
  \/ \E x \in Teams, u \in Users :
       \/ DeleteWorkspace(x, u) \/ AddWorkspaceMember(x, u)
       \/ UpdateWorkspaceMemberRole(x, u) \/ RemoveWorkspaceMember(x, u)
  \/ \E x \in Teams : ChildWrite(x)
  \/ \E i \in Invitations : CloseInvitation(i) \/ \E u \in Users : AcceptWorkspaceInvitation(i, u)
  \/ TimePasses
Spec == Init /\ [][Next]_members
----------------------------------------------------------------------------
\* A workspace has one owner, also among its members; nobody owns more than the
\* limit; and an archived workspace has nothing alive in it and takes no
\* members.
WorkspacesSound ==
  /\ \A x \in Teams : {u \in Users : role[x][u] = "owner"} = {team[x].owner} \ {NoOne}
  /\ \A u \in Users \ Unlimited : Cardinality(Owned(u)) <= OwnedLimit
  /\ \A x \in Teams : team[x].archived =>
       ~team[x].busy /\ \A i \in Invitations : invite[i].x = x => invite[i].status # "pending"

\* What an owner decided about a member is not undone by an invitation that was
\* there before, however it was dated.
DecisionsStand ==
  \A i \in Invitations, u \in Users :
    invite[i].status = "pending" /\ invite'[i].status = "accepted" /\ <<i, u>> \in void =>
      role'[invite[i].x][u] = role[invite[i].x][u]
================================================================================
