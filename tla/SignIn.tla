-------------------------------- MODULE SignIn --------------------------------
(***************************************************************************)
(* Sign-in through MAX and the link of a MAX account to a user.            *)
(*                                                                         *)
(* A browser starts an attempt; its deep link binds the attempt to the MAX *)
(* account that opens it; the account then shares its contact and confirms *)
(* this very attempt.  Deliveries of MAX may be late, repeated and out of  *)
(* order; a press is dated by its place in the sequence `presses'.          *)
(***************************************************************************)
EXTENDS Integers, Sequences

CONSTANTS
  Attempts,    \* attempts of browsers to sign in, from 1
  Accounts,    \* MAX accounts
  Owners,      \* users that have signed in otherwise and may link an account
  MaxPresses,   \* bound on the presses in MAX
  MaxAsks,     \* bound on the requests of an owner to link
  Nobody

VARIABLES
  attempt,     \* max_auth_attempts
  over,        \* the attempts whose ten minutes are over
  asking,      \* the delivery that bound an attempt and is sending its messages
  offered,     \* whom MAX shows the buttons of which attempt
  presses,     \* the presses of those buttons
  profile,     \* max_auth_profiles
  ask,         \* max_identity_link_attempts: the latest of an owner
  shown,       \* the link confirmations MAX shows
  identity,    \* auth_identities with provider max: the user of an account
  linked,      \* max_identity_links: the account of a user
  deal,        \* the transactions that are about to write those two
  session      \* sessions created for attempts

\* What the proofs assume: nobody is nobody's name, and what has signed in otherwise is no attempt.
SignInOK == Nobody \notin Accounts \cup Attempts \cup Owners /\ Attempts \cap Owners = {}

signin == <<attempt, over, asking, offered, presses, profile, ask, shown, identity, linked, deal, session>>

NoAttempt == [status |-> "none", user |-> Nobody, contact |-> 0, born |-> 0]
Init ==
  /\ attempt = [k \in Attempts |-> NoAttempt] /\ over = {}
  /\ asking = [k \in Attempts |-> Nobody] /\ offered = {} /\ presses = <<>> /\ profile = {}
  /\ ask = [o \in Owners |-> [n |-> 0, status |-> "none", user |-> Nobody, sending |-> FALSE]]
  /\ shown = {}
  /\ identity = [u \in Accounts |-> Nobody]
  /\ linked = [o \in Owners \cup Attempts |-> Nobody]
  /\ deal = [x \in Owners \cup Attempts |-> Nobody]
  /\ session = [k \in Attempts |-> [owner |-> Nobody, user |-> Nobody]]

Status(k) == attempt[k].status
Exists(k) == Status(k) \notin {"none", "gone"}
IsOpen(k) == Status(k) \in {"pending", "awaiting", "verified"}
Gone(rows) == [k \in Attempts |-> IF k \in rows THEN [NoAttempt EXCEPT !.status = "gone"] ELSE attempt[k]]
\* A profile is deleted with the last row that names its account.
Kept(accounts, rows) == {u \in profile : u \in accounts =>
  identity[u] # Nobody \/ (\E k \in Attempts : rows[k].user = u) \/ (\E o \in DOMAIN linked : linked[o] = u)}

\* The row of an attempt, and the lock of an account, while its completion is under way.
Unlocked(k) == deal[k] = Nobody
Calm(u) == \A k \in Attempts : Unlocked(k) \/ attempt[k].user # u
----------------------------------------------------------------------------
(* The browser's attempt and what the account does about it in MAX. *)

CreateMAXAuthAttempt(k) ==
  /\ Status(k) = "none" /\ \A j \in over : Unlocked(j)
  /\ attempt' = [j \in Attempts |->
       IF j = k THEN [NoAttempt EXCEPT !.status = "pending", !.born = Len(presses)]
       ELSE IF j \in over /\ IsOpen(j) THEN [attempt[j] EXCEPT !.status = "expired"] ELSE attempt[j]]
  /\ UNCHANGED <<over, asking, offered, presses, profile, ask, shown, identity, linked, deal, session>>

AttemptExpires(k) ==
  /\ Exists(k) /\ over' = over \cup {k}
  /\ UNCHANGED <<attempt, asking, offered, presses, profile, ask, shown, identity, linked, deal, session>>

\* The deep link is opened, or its delivery repeated; other attempts of the account are superseded.
StartMAXAuthContact(k, u) ==
  /\ Exists(k) /\ Unlocked(k) /\ Calm(u) /\ Status(k) = "pending"
  /\ IF k \in over THEN attempt' = Gone({k}) /\ UNCHANGED asking
     ELSE /\ attempt' = [j \in Attempts |->
               IF j = k THEN [attempt[k] EXCEPT !.status = "awaiting", !.user = u]
               ELSE IF attempt[j].user = u /\ Status(j) = "awaiting" THEN [attempt[j] EXCEPT !.status = "failed"]
               ELSE attempt[j]]
          /\ asking' = [asking EXCEPT ![k] = u]
  /\ UNCHANGED <<over, offered, presses, profile, ask, shown, identity, linked, deal, session>>

\* What was sent may arrive although the call failed; the process may end with the call.
SendContactRequest(k) ==
  /\ asking[k] # Nobody
  /\ \E answer \in {"sent", "failed", "died"}, arrives \in BOOLEAN :
       /\ answer = "sent" => arrives
       /\ offered' = IF arrives THEN offered \cup {<<k, asking[k]>>} ELSE offered
       /\ attempt' = IF answer = "failed" /\ Status(k) = "awaiting" /\ attempt[k].user = asking[k]
                     THEN [attempt EXCEPT ![k].status = "pending", ![k].user = Nobody] ELSE attempt
  /\ asking' = [asking EXCEPT ![k] = Nobody]
  /\ UNCHANGED <<over, presses, profile, ask, shown, identity, linked, deal, session>>

Press(e) == Len(presses) < MaxPresses /\ presses' = Append(presses, e)
PressContact(u) ==
  /\ \E k \in Attempts : <<k, u>> \in offered
  /\ Press([what |-> "contact", user |-> u, k |-> 0])
  /\ UNCHANGED <<attempt, over, asking, offered, profile, ask, shown, identity, linked, deal, session>>
PressConfirm(k, u) ==
  /\ <<k, u>> \in offered /\ Press([what |-> "confirm", user |-> u, k |-> k])
  /\ UNCHANGED <<attempt, over, asking, offered, profile, ask, shown, identity, linked, deal, session>>

\* maxAuthEventWithinAttempt
Within(k, i) == i > attempt[k].born /\ k \notin over

\* A delivery of press i; the first contact of an attempt counts.
RecordMAXAuthContact(i) ==
  LET u == presses[i].user IN
  /\ Calm(u)
  /\ \A k \in Attempts : attempt[k].contact # i
  /\ \E k \in Attempts :
       /\ attempt[k].user = u /\ Status(k) = "awaiting"
       /\ IF Within(k, i)
          THEN /\ attempt[k].contact = 0
               /\ attempt' = [attempt EXCEPT ![k].contact = i] /\ profile' = profile \cup {u}
          ELSE k \in over /\ attempt' = Gone({k}) /\ UNCHANGED profile
  /\ UNCHANGED <<over, asking, offered, presses, ask, shown, identity, linked, deal, session>>

HandleMAXAuthContactMessage(i) == presses[i].what = "contact" /\ RecordMAXAuthContact(i)

\* Mutant: the confirmation of any attempt of the account confirms this one.
ConfirmsAccount(k, i) == presses[i].user = attempt[k].user

Confirms(k, i) == presses[i].k = k /\ presses[i].user = attempt[k].user
ConfirmMAXAuthContact(k, i) ==
  /\ Exists(k) /\ Unlocked(k) /\ Calm(presses[i].user)
  /\ IF Confirms(k, i) /\ Within(k, i)
     THEN /\ Status(k) = "awaiting" /\ attempt[k].contact # 0 /\ i >= attempt[k].contact
          /\ attempt' = [attempt EXCEPT ![k].status = "verified"] /\ UNCHANGED profile
     ELSE /\ presses[i].k = k /\ k \in over /\ Status(k) \in {"awaiting", "verified"}
          /\ attempt' = Gone({k}) /\ profile' = Kept({attempt[k].user}, attempt')
  /\ UNCHANGED <<over, asking, offered, presses, ask, shown, identity, linked, deal, session>>

HandleMAXAuthContactCallback(i) ==
  presses[i].what = "confirm" /\ \E k \in Attempts : ConfirmMAXAuthContact(k, i)

\* The browser asks how its attempt is doing: what is over or has failed is forgotten.
GetMAXAuthAttemptForBrowser(k) ==
  /\ (IsOpen(k) /\ k \in over) \/ Status(k) = "failed"
  /\ Unlocked(k)
  /\ attempt' = Gone({k}) /\ profile' = Kept({attempt[k].user}, attempt')
  /\ UNCHANGED <<over, asking, offered, presses, ask, shown, identity, linked, deal, session>>
CancelMAXAuthAttempt(k) ==
  /\ IsOpen(k) \/ Status(k) = "failed"
  /\ Unlocked(k)
  /\ attempt' = Gone({k}) /\ profile' = Kept({attempt[k].user}, attempt')
  /\ UNCHANGED <<over, asking, offered, presses, ask, shown, identity, linked, deal, session>>
PurgeExpiredMAXAuthAttempts ==
  LET old == {k \in Attempts : Exists(k) /\ (k \in over \/ Status(k) \in {"failed", "expired"})} IN
  /\ old # {} /\ \A k \in old : Unlocked(k)
  /\ attempt' = Gone(old) /\ profile' = Kept(Accounts, attempt')
  /\ UNCHANGED <<over, asking, offered, presses, ask, shown, identity, linked, deal, session>>
----------------------------------------------------------------------------
(* The session: the transaction reads whom the account belongs to, then writes. *)

OwnersOf(u) == {o \in DOMAIN linked : linked[o] = u}
ReadMAXMappings(k) ==
  /\ Status(k) = "verified" /\ k \notin over /\ Unlocked(k) /\ Calm(attempt[k].user)
  /\ LET u == attempt[k].user IN
     \E o \in IF identity[u] # Nobody THEN {identity[u]} ELSE IF OwnersOf(u) # {} THEN OwnersOf(u) ELSE {k} :
       /\ identity[u] # Nobody => OwnersOf(u) \subseteq {o}
       /\ deal' = [deal EXCEPT ![k] = o]
  /\ UNCHANGED <<attempt, over, asking, offered, presses, profile, ask, shown, identity, linked, session>>

Confirmed(u, o, ids, links) == ids[u] = o /\ links[o] = u
\* The browser polls: what is over is forgotten, what is verified becomes a session.
CompleteMAXAuth(k) == GetMAXAuthAttemptForBrowser(k) \/ ReadMAXMappings(k)
CompleteMAXAuthAttempt(k) ==
  /\ k \in Attempts /\ ~Unlocked(k)
  /\ LET u == attempt[k].user
         o == deal[k]
         ids == IF identity[u] = Nobody THEN [identity EXCEPT ![u] = o] ELSE identity
         links == IF OwnersOf(u) = {} /\ linked[o] = Nobody THEN [linked EXCEPT ![o] = u] ELSE linked
     IN IF /\ u \in profile /\ \A v \in Accounts \ {u} : ids[v] # o
           /\ Confirmed(u, o, ids, links)
        THEN /\ identity' = ids /\ linked' = links
             /\ session' = [session EXCEPT ![k] = [owner |-> o, user |-> u]]
             /\ attempt' = Gone({k})
        ELSE UNCHANGED <<identity, linked, session, attempt>>
  /\ deal' = [deal EXCEPT ![k] = Nobody]
  /\ UNCHANGED <<over, asking, offered, presses, profile, ask, shown>>
----------------------------------------------------------------------------
(* A user signed in otherwise links an account. *)

CreateMAXIdentityLinkAttempt(o) ==
  /\ linked[o] = Nobody /\ deal[o] = Nobody /\ ask[o].n < MaxAsks
  /\ ask' = [ask EXCEPT ![o] = [n |-> @.n + 1, status |-> "pending", user |-> Nobody, sending |-> FALSE]]
  /\ UNCHANGED <<attempt, over, asking, offered, presses, profile, shown, identity, linked, deal, session>>
LinkExpires(o) ==
  /\ ask[o].status \in {"pending", "awaiting"} /\ deal[o] = Nobody
  /\ ask' = [ask EXCEPT ![o].status = "expired"]
  /\ UNCHANGED <<attempt, over, asking, offered, presses, profile, shown, identity, linked, deal, session>>
StartMAXIdentityLinkConfirmation(o, u) ==
  /\ ask[o].status = "pending"
  /\ ask' = [ask EXCEPT ![o].status = "awaiting", ![o].user = u, ![o].sending = TRUE]
  /\ UNCHANGED <<attempt, over, asking, offered, presses, profile, shown, identity, linked, deal, session>>
SendIdentityLinkConfirmation(o) ==
  /\ ask[o].sending /\ deal[o] = Nobody
  /\ \E answer \in {"sent", "failed", "died"}, arrives \in BOOLEAN :
       /\ answer = "sent" => arrives
       /\ shown' = IF arrives THEN shown \cup {<<o, ask[o].n>>} ELSE shown
       /\ ask' = [ask EXCEPT ![o].sending = FALSE,
                    ![o].status = IF answer = "failed" /\ @ = "awaiting" THEN "failed" ELSE @]
  /\ UNCHANGED <<attempt, over, asking, offered, presses, profile, identity, linked, deal, session>>

CancelMAXIdentityLink(o) ==
  /\ ask[o].status = "awaiting" /\ deal[o] = Nobody
  /\ ask' = [ask EXCEPT ![o].status = "failed"]
  /\ UNCHANGED <<attempt, over, asking, offered, presses, profile, shown, identity, linked, deal, session>>
\* Its transaction does not take the lock of a completion.
ReadMAXLinks(o) ==
  /\ ask[o].status = "awaiting" /\ deal[o] = Nobody
  /\ LET u == ask[o].user IN
     IF linked[o] \notin {Nobody, u} \/ OwnersOf(u) \ {o} # {}
     THEN ask' = [ask EXCEPT ![o].status = "failed"] /\ UNCHANGED deal
     ELSE deal' = [deal EXCEPT ![o] = u] /\ UNCHANGED ask
  /\ UNCHANGED <<attempt, over, asking, offered, presses, profile, shown, identity, linked, session>>
HandleMAXIdentityCallback(o) == <<o, ask[o].n>> \in shown /\ (CancelMAXIdentityLink(o) \/ ReadMAXLinks(o))
ConfirmMAXIdentityLink(o) ==
  /\ o \in Owners /\ deal[o] # Nobody
  /\ LET u == deal[o] IN
     IF OwnersOf(u) \subseteq {o} /\ identity[u] \in {Nobody, o} /\ \A v \in Accounts \ {u} : identity[v] # o
     THEN /\ linked' = [linked EXCEPT ![o] = u] /\ identity' = [identity EXCEPT ![u] = o]
          /\ ask' = [ask EXCEPT ![o].status = "linked"]
     ELSE UNCHANGED <<linked, identity, ask>>
  /\ deal' = [deal EXCEPT ![o] = Nobody]
  /\ UNCHANGED <<attempt, over, asking, offered, presses, profile, shown, session>>

Next ==
  \/ \E k \in Attempts :
       \/ CreateMAXAuthAttempt(k) \/ AttemptExpires(k) \/ SendContactRequest(k)
       \/ CancelMAXAuthAttempt(k) \/ CompleteMAXAuth(k) \/ CompleteMAXAuthAttempt(k)
       \/ \E u \in Accounts : StartMAXAuthContact(k, u) \/ PressConfirm(k, u)
  \/ \E u \in Accounts : PressContact(u)
  \/ \E i \in DOMAIN presses : HandleMAXAuthContactMessage(i) \/ HandleMAXAuthContactCallback(i)
  \/ PurgeExpiredMAXAuthAttempts
  \/ \E o \in Owners :
       \/ CreateMAXIdentityLinkAttempt(o) \/ LinkExpires(o) \/ SendIdentityLinkConfirmation(o)
       \/ HandleMAXIdentityCallback(o) \/ ConfirmMAXIdentityLink(o)
       \/ \E u \in Accounts : StartMAXIdentityLinkConfirmation(o, u)
----------------------------------------------------------------------------
\* Every session is for the user the account belongs to, both tables agree on that, and its
\* account shared a contact and confirmed this very attempt.
SessionsProven ==
  /\ \A u \in Accounts : identity[u] # Nobody => linked[identity[u]] = u
  /\ \A k \in Attempts : session[k].owner # Nobody =>
       LET u == session[k].user IN
       /\ identity[u] = session[k].owner
       /\ \E i \in DOMAIN presses : presses[i] = [what |-> "confirm", user |-> u, k |-> k]
       /\ \E i \in DOMAIN presses : presses[i].what = "contact" /\ presses[i].user = u
==============================================================================
