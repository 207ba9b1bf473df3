----------------------------- MODULE DirectControls -----------------------------
(***************************************************************************)
(* Campaigns of the account that MaxPosty did not create: the snapshot of  *)
(* their list, and the edits of one of them.  An edit is claimed, begun,   *)
(* written once and read back; journaled requests carry an identifier that *)
(* a client may send again.  An operation whose outcome is unknown blocks  *)
(* the next until a reading shows what it asked for.                       *)
(*                                                                         *)
(* What a campaign shows is the last value set and the objects created in  *)
(* it; every request asks for a value or an object of its own.             *)
(***************************************************************************)
EXTENDS DirectAccess

CONSTANTS
  Editors,      \* goroutines of HTTP requests
  Kind,         \* of each request: "set", "create", or "plain" (not journaled)
  EditLease,    \* lease of an edit: 2 minutes
  SyncLease,    \* lease of a list sync: 5 minutes
  MaxEpoch,     \* bound on what others change in the account
  MaxSyncs,     \* bound on the syncs of the list
  MaxVersion    \* bound on the version an edit of the campaign starts from

Requests == DOMAIN Kind
Journaled == {r \in Requests : Kind[r] # "plain"}
\* What the proofs assume of the constants: a lease of a refresh outlasts its call, and 0 is no request.
ControlsOK ==
  /\ MaxAttempts \in Nat /\ RefreshLease \in Nat \ {0} /\ EditLease \in Int /\ SyncLease \in Int
  /\ IsFiniteSet(Editors)
  /\ \A r \in Requests : r \in Nat \ {0} /\ Kind[r] \in {"set", "create", "plain"}
Nothing == [value |-> 0, made |-> {}]
VARIABLES
  control,   \* the direct_external_edit_controls row of the campaign
  journal,   \* direct_external_operation_journal, by request
  list,      \* the snapshot in direct_external_campaigns and the claim of its sync
  site,      \* the campaign in the account, writes still under way, its epoch
  edit,      \* what each goroutine does
  sent,      \* history: writes sent, by request
  carried    \* history: requests the provider carried out

controls == <<control, journal, list, site, edit, sent, carried>>

NoEdit == [job |-> "none", pc |-> "idle", r |-> 1, fence |-> 0, saw |-> Nothing, then |-> "", end |-> ""]
ControlsInit ==
  /\ control = [state |-> "idle", op |-> 0, started |-> FALSE, lease |-> 0, desired |-> Nothing,
                seen |-> Nothing, version |-> 1]
  /\ journal = [r \in Journaled |-> [state |-> "none", started |-> FALSE, acked |-> FALSE, desired |-> Nothing]]
  /\ list = [generation |-> 0, lease |-> 0, claimed |-> FALSE, epoch |-> 0]
  /\ site = [shows |-> Nothing, late |-> {}, epoch |-> 1]
  /\ edit = [w \in Editors |-> NoEdit]
  /\ sent = [r \in Requests |-> 0] /\ carried = {}

At(w, pc) == edit[w].pc = pc
Step(w, pc) == edit' = [edit EXCEPT ![w].pc = pc]
Leave(w) == edit' = [edit EXCEPT ![w] = NoEdit]
End(w, outcome) == edit' = [edit EXCEPT ![w].pc = "finish", ![w].end = outcome]

\* The connection is active and the campaign is in the snapshot.
EditContext == link.status = "active" /\ list.epoch # 0
Asked(r, shown) ==
  IF Kind[r] = "create" THEN [shown EXCEPT !.made = @ \cup {r}] ELSE [shown EXCEPT !.value = r]
\* What a reading must show to settle a request by itself; that a creation has
\* been carried out shows only by the identifier it was acknowledged with.
Desired(r, shown) == IF Kind[r] = "create" THEN [value |-> 0, made |-> {0}] ELSE Asked(r, shown)
----------------------------------------------------------------------------
(* What transactions do to the control row and the journal. *)

FreedControl == [control EXCEPT !.state = "idle", !.op = 0, !.started = FALSE, !.lease = 0, !.desired = Nothing]
Unsettled(r) == r \in Journaled /\ journal[r].state \in {"updating", "uncertain"}

\* FinishDirectExternalOperation and, of a plain edit, FinishDirectExternalEdit.
Finished(r, outcome) ==
  IF control.op # r THEN control
  ELSE IF outcome = "uncertain" THEN [control EXCEPT !.state = "uncertain"]
  ELSE [FreedControl EXCEPT !.version = @ + (IF r \in Journaled THEN 1 ELSE 0)]
FinishOperation(r, outcome) ==
  /\ journal' = IF Unsettled(r) THEN [journal EXCEPT ![r].state = outcome] ELSE journal
  /\ control' = Finished(r, outcome)

\* Mutant: a begun request is settled by any reading.
VerdictAny(r, saw) ==
  IF ~journal[r].started THEN journal[r].state ELSE "succeeded"

\* reconcileExternalControlReadback: what was not begun in time never will be;
\* what was begun is settled only by a reading that shows it.
Verdict(r, saw) ==
  LET owns == control.op = r /\ control.lease = 0  state == journal[r].state IN
  IF ~journal[r].started THEN IF owns /\ ~control.started THEN "rejected" ELSE state
  ELSE IF journal[r].desired = saw \/ (journal[r].acked /\ r \in saw.made) THEN "succeeded"
  ELSE IF state = "updating" /\ control.lease = 0 THEN "uncertain" ELSE state
ReconcileReadback(saw) ==
  /\ journal' = [r \in Journaled |-> IF Unsettled(r) THEN [journal[r] EXCEPT !.state = Verdict(r, saw)] ELSE journal[r]]
  /\ control' = IF Unsettled(control.op) /\ Verdict(control.op, saw) # "updating"
                THEN Finished(control.op, Verdict(control.op, saw)) ELSE control

\* A different reading cannot prove that a write will not be carried out later.
Resolved(saw) == control.state # "idle" /\ control.started /\ control.desired = saw
Expired == control.state = "updating" /\ control.lease = 0
Observed(saw) ==
  LET free == Resolved(saw) \/ (Expired /\ ~control.started) \/ control.state = "idle" IN
  IF free THEN [FreedControl EXCEPT !.seen = saw,
                  !.version = @ + (IF control.seen # saw \/ control.op # 0 THEN 1 ELSE 0)]
  ELSE IF Expired THEN [control EXCEPT !.state = "uncertain"] ELSE control
----------------------------------------------------------------------------
(* Requests. *)

Local == UNCHANGED <<list, site, sent, carried, access>>
EditOnly == UNCHANGED <<control, journal>> /\ Local

\* ApplyDirectExternalControl: a request the journal knows is not carried out
\* again. The client names the revision it saw.
BeginRequest(w, r) ==
  /\ At(w, "idle") /\ EditContext /\ control.version <= MaxVersion
  /\ IF r \in Journaled THEN journal[r].state = "none"
     ELSE sent[r] = 0 /\ ~\E v \in Editors : edit[v].job = "edit" /\ edit[v].r = r
  /\ edit' = [edit EXCEPT ![w] = [NoEdit EXCEPT !.job = "edit", !.pc = "read", !.r = r,
                                                !.fence = control.version, !.then = "match"]]
  /\ EditOnly
\* GetDirectExternalDetail for somebody who only looks.
BeginLook(w) ==
  /\ At(w, "idle") /\ EditContext
  /\ edit' = [edit EXCEPT ![w] = [NoEdit EXCEPT !.job = "look", !.pc = "read", !.then = "leave"]]
  /\ EditOnly
\* ReconcileDirectExternalCreation: the owner says which object a creation made.
BeginReconcile(w, r) ==
  /\ At(w, "idle") /\ EditContext /\ Kind[r] = "create" /\ journal[r].state = "uncertain" /\ journal[r].started
  /\ edit' = [edit EXCEPT ![w] = [NoEdit EXCEPT !.job = "choose", !.pc = "read", !.r = r,
                                                !.fence = control.version, !.then = "choose"]]
  /\ EditOnly

\* The detail: the account is read, the journal settled, the reading recorded.
ReadDetail(w) ==
  /\ At(w, "read")
  /\ IF EditContext THEN edit' = [edit EXCEPT ![w].pc = "settle", ![w].saw = site.shows]
     ELSE IF edit[w].then \in {"verify"} THEN End(w, "uncertain") ELSE Leave(w)
  /\ EditOnly
SettleJournal(w) ==
  /\ At(w, "settle")
  /\ ReconcileReadback(edit[w].saw) /\ Step(w, "observe") /\ Local
ObserveEdit(w) ==
  /\ At(w, "observe")
  /\ LET e == edit[w]  saw == e.saw  r == e.r IN
     IF ~EditContext THEN UNCHANGED control /\ (IF e.then = "verify" THEN End(w, "uncertain") ELSE Leave(w))
     ELSE
     /\ control' = Observed(saw)
     /\ \/ e.then = "leave" /\ Leave(w)
        \/ /\ e.then = "match"
           /\ IF control'.state = "idle" /\ control'.version = e.fence THEN Step(w, "claim") ELSE Leave(w)
        \/ /\ e.then = "choose"
           /\ IF control'.version = e.fence /\ r \in saw.made THEN Step(w, "chosen") ELSE Leave(w)
        \/ /\ e.then = "verify"
           /\ IF (Kind[r] = "create" /\ r \in saw.made) \/ (Kind[r] = "set" /\ saw.value = r)
              THEN End(w, "succeeded") ELSE End(w, "uncertain")
  /\ UNCHANGED journal /\ Local
ChooseCreated(w) ==
  /\ At(w, "chosen")
  /\ LET r == edit[w].r IN
     IF journal[r].state = "uncertain"
     THEN FinishOperation(r, "succeeded") ELSE UNCHANGED <<control, journal>>
  /\ Leave(w) /\ Local

\* ClaimDirectExternalOperation, ClaimDirectExternalEdit
ClaimEdit(w) ==
  /\ At(w, "claim")
  /\ LET e == edit[w]  r == e.r IN
     IF EditContext /\ (r \in Journaled => journal[r].state = "none") /\ control.state = "idle"
        /\ control.version = e.fence
     THEN /\ control' = [control EXCEPT !.state = "updating", !.op = r, !.lease = EditLease,
                           !.desired = Desired(r, e.saw), !.version = @ + 1]
          /\ journal' = IF r \in Journaled
                        THEN [journal EXCEPT ![r].state = "updating", ![r].desired = Desired(r, e.saw)] ELSE journal
          /\ Step(w, "begin")
     ELSE Leave(w) /\ UNCHANGED <<control, journal>>
  /\ Local

BeginAllowed(r) == control.op = r /\ control.state = "updating" /\ ~control.started /\ control.lease > 0
BeginWrite(w) ==
  /\ At(w, "begin")
  /\ LET r == edit[w].r IN
     IF EditContext /\ BeginAllowed(r) /\ (r \in Journaled => journal[r].state = "updating" /\ ~journal[r].started)
     THEN /\ control' = [control EXCEPT !.started = TRUE]
          /\ journal' = IF r \in Journaled THEN [journal EXCEPT ![r].started = TRUE] ELSE journal
          /\ Step(w, "write")
     ELSE End(w, "rejected") /\ UNCHANGED <<control, journal>>
  /\ Local

\* The provider carries the write out, or rejects it; or no answer comes.
WriteControl(w) ==
  /\ At(w, "write")
  /\ LET r == edit[w].r
         done == site' = [site EXCEPT !.shows = Asked(r, @)] /\ carried' = carried \cup {r} IN
     /\ sent' = [sent EXCEPT ![r] = @ + 1]
     /\ \/ done /\ Step(w, "ack") /\ UNCHANGED trouble
        \/ Fails /\ End(w, "rejected") /\ UNCHANGED <<site, carried>>
        \/ Fails /\ End(w, "uncertain") /\ (done \/ UNCHANGED <<site, carried>>)
        \/ Fails /\ End(w, "uncertain") /\ site' = [site EXCEPT !.late = @ \cup {r}] /\ UNCHANGED carried
  /\ UNCHANGED <<control, journal, list, calm>>
AcknowledgeOperation(w) ==
  /\ At(w, "ack")
  /\ LET r == edit[w].r IN
     journal' = IF Kind[r] = "create" /\ Unsettled(r) THEN [journal EXCEPT ![r].acked = TRUE] ELSE journal
  /\ edit' = [edit EXCEPT ![w].pc = "read", ![w].then = "verify"]
  /\ UNCHANGED control /\ Local
FinishEdit(w) ==
  /\ At(w, "finish")
  /\ LET r == edit[w].r  outcome == IF Kind[r] = "plain" /\ edit[w].end = "succeeded" THEN "uncertain" ELSE edit[w].end IN
     FinishOperation(r, outcome)
  /\ Leave(w) /\ Local

LateWrite(r) ==
  /\ r \in site.late
  /\ site' = [site EXCEPT !.late = @ \ {r}, !.shows = Asked(r, @)]
  /\ carried' = carried \cup {r}
  /\ UNCHANGED <<control, journal, list, edit, sent, access>>
EditorDies(w) ==
  /\ ~At(w, "idle") /\ Fails
  /\ Leave(w)
  /\ IF At(w, "write")
     THEN LET r == edit[w].r IN
          /\ sent' = [sent EXCEPT ![r] = @ + 1]
          /\ \/ site' = [site EXCEPT !.shows = Asked(r, @)] /\ carried' = carried \cup {r}
             \/ site' = [site EXCEPT !.late = @ \cup {r}] /\ UNCHANGED carried
             \/ UNCHANGED <<site, carried>>
     ELSE UNCHANGED <<site, sent, carried>>
  /\ UNCHANGED <<control, journal, list, calm>>
----------------------------------------------------------------------------
(* The list of campaigns. *)

\* fence is the generation of the claim, saw.value what the list showed.
ClaimListSync(w) ==
  /\ At(w, "idle") /\ link.status = "active" /\ list.lease = 0 /\ list.generation < MaxSyncs
  /\ list' = [list EXCEPT !.generation = @ + 1, !.lease = SyncLease, !.claimed = TRUE]
  /\ edit' = [edit EXCEPT ![w] = [NoEdit EXCEPT !.job = "sync", !.pc = "list", !.fence = list.generation + 1]]
  /\ UNCHANGED <<control, journal, site, sent, carried, access>>
ListCampaigns(w) ==
  /\ At(w, "list")
  /\ \/ edit' = [edit EXCEPT ![w].pc = "store", ![w].saw = [value |-> site.epoch, made |-> {}]] /\ UNCHANGED trouble
     \/ Fails /\ Step(w, "unclaim")
  /\ UNCHANGED <<control, journal, list, site, sent, carried, calm>>

GenerationCurrent(w) == list.generation = edit[w].fence /\ list.claimed
ReplaceExternalCampaigns(w) ==
  /\ At(w, "store")
  /\ IF link.status # "active" THEN Step(w, "unclaim") /\ UNCHANGED list
     ELSE /\ list' = IF GenerationCurrent(w)
                     THEN [list EXCEPT !.epoch = edit[w].saw.value, !.claimed = FALSE, !.lease = 0] ELSE list
          /\ Leave(w)
  /\ UNCHANGED <<control, journal, site, sent, carried, access>>
ReleaseListSync(w) ==
  /\ At(w, "unclaim")
  /\ list' = IF GenerationCurrent(w) THEN [list EXCEPT !.claimed = FALSE, !.lease = 0] ELSE list
  /\ Leave(w) /\ UNCHANGED <<control, journal, site, sent, carried, access>>
ChangedInAccount ==
  /\ site.epoch < MaxEpoch
  /\ site' = [site EXCEPT !.epoch = @ + 1]
  /\ UNCHANGED <<control, journal, list, edit, sent, carried, access>>
----------------------------------------------------------------------------
(* The connection is given up, replaced, or refused by the provider. *)

CredentialNeeded == control.state # "idle"
Cleared == [list EXCEPT !.epoch = 0, !.claimed = FALSE, !.lease = 0]
ReplaceConnection(a) ==
  /\ flow[a] = "replace"
  /\ flow' = [flow EXCEPT ![a] = "none"]
  /\ IF AttemptCurrent(a) /\ ~CredentialNeeded
     THEN Connect(a) /\ list' = Cleared
     ELSE UNCHANGED <<link, grant, spilt, oauth, latest, list>>
  /\ UNCHANGED <<refresh, trouble, control, journal, site, edit, sent, carried>>
RevokeConnection ==
  /\ link.status \in {"active", "error"} /\ ~CredentialNeeded
  /\ link' = [Unclaimed EXCEPT !.status = "revoked"]
  /\ list' = Cleared
  /\ UNCHANGED <<oauth, latest, flow, refresh, grant, spilt, trouble, control, journal, site, edit, sent, carried>>

\* A call is refused for its token.
AuthorizationRefused(w) ==
  /\ At(w, "read") \/ At(w, "write") \/ At(w, "list")
  /\ Fails
  /\ link' = IF link.status = "active" THEN [Unclaimed EXCEPT !.status = "error"] ELSE link
  /\ list' = [list EXCEPT !.claimed = FALSE, !.lease = 0]
  /\ spilt' = TRUE
  /\ sent' = IF At(w, "write") THEN [sent EXCEPT ![edit[w].r] = @ + 1] ELSE sent
  /\ IF At(w, "write") \/ edit[w].then = "verify" THEN End(w, "uncertain") ELSE Leave(w)
  /\ UNCHANGED <<oauth, latest, flow, refresh, grant, control, journal, site, carried>>

Less(n) == IF n > 0 THEN n - 1 ELSE 0
Tick ==
  /\ link.lease > 0 \/ control.lease > 0 \/ list.lease > 0
  /\ TickRefresh
  /\ link' = [link EXCEPT !.lease = Less(@)]
  /\ control' = [control EXCEPT !.lease = Less(@)]
  /\ list' = [list EXCEPT !.lease = Less(@)]
  /\ UNCHANGED <<oauth, latest, flow, grant, spilt, trouble, journal, site, edit, sent, carried>>
----------------------------------------------------------------------------
EditStep(w) ==
  \/ \E r \in Requests : BeginRequest(w, r) \/ BeginReconcile(w, r)
  \/ BeginLook(w) \/ ReadDetail(w) \/ SettleJournal(w) \/ ObserveEdit(w) \/ ChooseCreated(w)
  \/ ClaimEdit(w) \/ BeginWrite(w) \/ WriteControl(w) \/ AcknowledgeOperation(w) \/ FinishEdit(w)
  \/ EditorDies(w)
ListStep(w) ==
  ClaimListSync(w) \/ ListCampaigns(w) \/ ReplaceExternalCampaigns(w) \/ ReleaseListSync(w)

Init == AccessInit /\ ControlsInit
Next ==
  \/ \E a \in Attempts : OAuthStep(a) /\ UNCHANGED controls
  \/ \E p \in Processes : RefreshStep(p) /\ UNCHANGED controls
  \/ TokenAges /\ UNCHANGED controls
  \/ \E w \in Editors : EditStep(w) \/ ListStep(w) \/ AuthorizationRefused(w)
  \/ \E r \in Requests : LateWrite(r)
  \/ \E a \in Attempts : ReplaceConnection(a)
  \/ ChangedInAccount \/ RevokeConnection \/ Tick
Spec == Init /\ [][Next]_<<access, controls>>
----------------------------------------------------------------------------
(* What WriteOnce knows of this: see MCWorkspace. *)
UnderWay == {edit[w].r : w \in {v \in Editors : At(v, "write")}} \cup site.late
Attempted == [r \in Requests |-> sent[r] + Cardinality({w \in Editors : At(w, "write") /\ edit[w].r = r})]
Told == [r \in Requests |-> IF r \in Journaled /\ journal[r].state \in {"succeeded", "rejected"}
                            THEN journal[r].state ELSE "open"]

\* The snapshot never goes back to an older listing of the same connection.
NewerList == link'.id = link.id /\ list'.epoch # 0 => list'.epoch >= list.epoch
NothingOlderWins == LatestConnects /\ NewerList
================================================================================
