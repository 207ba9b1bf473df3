------------------------------- MODULE Channels -------------------------------
(***************************************************************************)
(* One channel of MAX: the inventory kept from its webhooks, the claims     *)
(* that connect it to a workspace, and the rights of the helper in it.      *)
(*                                                                         *)
(* Webhooks come late, twice and out of order; every call reads the chat    *)
(* from MAX and writes what it read later.  Events are dated by the clock   *)
(* of MAX (even), readings by the server's (odd, between two events).       *)
(***************************************************************************)
EXTENDS Naturals

CONSTANTS
  Users,       \* users, each with a personal workspace of the same name
  Teams,       \* team workspaces
  Accounts,    \* MAX accounts
  Claims,      \* claims that may be made
  Callers,     \* webhook deliveries and requests that may run at once
  LinkOf(_),   \* the MAX account linked to a user, or Nobody
  MaxChanges,  \* bound on what happens to the chat in MAX
  Nobody

VARIABLES
  chat,     \* MAX: whether the helper is in the chat, may publish, and who owns it; ghost: since which hour
  hour,     \* changes of the chat so far
  hooks,    \* the webhooks MAX has sent
  heard,    \* history: the webhooks a call has handled to its end
  seen,     \* observed_bot_chats
  channel,  \* channels: the workspace, the owner verified for it, the posts' workspace; ghost: since which hour
  right,    \* channel_max_permissions
  told,     \* the event of the latest channel.permissions_lost notification
  staff,    \* who may manage the channels of a team
  claim,    \* channel_claims
  pressed,  \* buttons of confirmations pressed in MAX
  errand    \* the calls under way

channels == <<chat, hour, hooks, heard, seen, channel, right, told, staff, claim, pressed, errand>>
max == <<chat, hour, hooks>>

Homes == Users \cup Teams
May(u, home) == u = home \/ (home \in Teams /\ <<home, u>> \in staff)
Now == 2 * hour + 1
NoErrand == [pc |-> "idle"]
NoClaim == [status |-> "none", home |-> Nobody, actor |-> Nobody, account |-> Nobody, asking |-> FALSE, over |-> FALSE]
NoChannel == [home |-> Nobody, owner |-> Nobody, active |-> FALSE, posts |-> Nobody, since |-> 0]
Open == {"pending", "awaiting", "verified"}

Init ==
  /\ \E a \in Accounts : chat = [in |-> TRUE, can |-> TRUE, owner |-> a, since |-> 0]
  /\ hour = 1 /\ hooks = {[what |-> "added", at |-> 2]} /\ heard = {}
  /\ seen = [active |-> FALSE, owner |-> Nobody, at |-> 0]
  /\ channel = NoChannel /\ right = [can |-> TRUE, at |-> 0] /\ told = 0
  /\ staff = Teams \X Users
  /\ claim = [c \in Claims |-> NoClaim] /\ pressed = {}
  /\ errand = [h \in Callers |-> NoErrand]

End(h) == errand' = [errand EXCEPT ![h] = NoErrand]
Go(h, pc) == errand' = [errand EXCEPT ![h].pc = pc]
At(h, pc) == errand[h].pc = pc
Heard(h) == IF errand[h].hook = {} THEN heard ELSE heard \cup errand[h].hook
Errand(what) == [pc |-> "read", what |-> what, hook |-> {}, at |-> 0, user |-> Nobody, home |-> Nobody,
                 claim |-> 0, by |-> "none", owner |-> Nobody, can |-> FALSE]
Start(h, e) == At(h, "idle") /\ errand' = [errand EXCEPT ![h] = e]
----------------------------------------------------------------------------
(* MAX. *)

Changed(now, what) ==
  /\ hour < MaxChanges /\ hour' = hour + 1 /\ chat' = now
  /\ hooks' = IF what = "none" THEN hooks ELSE hooks \cup {[what |-> what, at |-> 2 * hour']}
ChatChanges ==
  /\ \/ ~chat.in /\ \E can \in BOOLEAN : Changed([chat EXCEPT !.in = TRUE, !.can = can], "added")
     \/ chat.in /\ Changed([chat EXCEPT !.in = FALSE, !.can = FALSE], "removed")
     \/ chat.in /\ Changed([chat EXCEPT !.can = ~@], "rights")
     \/ \E a \in Accounts \ {chat.owner} : Changed([chat EXCEPT !.owner = a, !.since = hour + 1], "none")
  /\ UNCHANGED <<heard, seen, channel, right, told, staff, claim, pressed, errand>>
MessagePosted ==
  /\ chat.in /\ (\A e \in hooks : e.what # "message")
  /\ hooks' = hooks \cup {[what |-> "message", at |-> Now]}
  /\ UNCHANGED <<chat, hour, heard, seen, channel, right, told, staff, claim, pressed, errand>>
----------------------------------------------------------------------------
(* The inventory. *)

Newer(at) == at > seen.at
TouchObservedBotChat(at) ==
  seen' = IF Newer(at) THEN [active |-> TRUE, owner |-> IF seen.active THEN seen.owner ELSE Nobody, at |-> at]
          ELSE seen
UpsertObservedBotChat(owner, at) ==
  seen' = IF Newer(at) \/ (at = seen.at /\ seen.active) THEN [active |-> TRUE, owner |-> owner, at |-> at] ELSE seen
RefreshObservedBotChatMetadata(owner, at) ==
  seen' = IF seen.active /\ at >= seen.at THEN [seen EXCEPT !.owner = owner, !.at = at] ELSE seen

MarkObservedBotChatRemoved(e) ==
  /\ IF e.at >= seen.at
     THEN seen' = [seen EXCEPT !.active = FALSE, !.at = e.at] /\ channel' = [channel EXCEPT !.active = FALSE]
     ELSE UNCHANGED <<seen, channel>>
  /\ heard' = heard \cup {e}
  /\ UNCHANGED <<max, right, told, staff, claim, pressed, errand>>

\* The chat is touched before it is read.
ObserveMAXChat(h, e) ==
  /\ TouchObservedBotChat(e.at)
  /\ Start(h, [Errand("observe") EXCEPT !.hook = {e}, !.at = e.at])
  /\ UNCHANGED <<max, heard, channel, right, told, staff, claim, pressed>>
DiscoverMAXChatFromMessage(h, e) == ~(seen.active /\ seen.owner # Nobody) /\ ObserveMAXChat(h, e)
RefreshMAXChatPermissions(h, e) ==
  /\ Start(h, [Errand("rights") EXCEPT !.hook = {e}, !.at = e.at])
  /\ UNCHANGED <<max, heard, seen, channel, right, told, staff, claim, pressed>>
MaxWebhook(h, e) ==
  \/ e.what = "added" /\ ObserveMAXChat(h, e)
  \/ e.what = "removed" /\ MarkObservedBotChatRemoved(e)
  \/ e.what = "rights" /\ RefreshMAXChatPermissions(h, e)
  \/ e.what = "message" /\ DiscoverMAXChatFromMessage(h, e)

\* The hour is taken before the chats are listed and read.
RefreshDiscoverableChannels(h) ==
  /\ \E u \in Users : LinkOf(u) # Nobody /\ seen.active
       /\ (channel.home = u \/ (channel.home = Nobody /\ seen.owner \in {LinkOf(u), Nobody}))
  /\ Start(h, [Errand("refresh") EXCEPT !.at = Now])
  /\ UNCHANGED <<max, heard, seen, channel, right, told, staff, claim, pressed>>

\* Before a claim is made the membership is checked first, and the hour is taken for it.
ReadChat(h) ==
  /\ At(h, "read")
  /\ IF chat.in
     THEN errand' = [errand EXCEPT ![h].pc = IF errand[h].what = "prepare" THEN "check" ELSE "write",
                                   ![h].owner = chat.owner, ![h].can = chat.can]
     ELSE End(h)
  /\ UNCHANGED <<max, heard, seen, channel, right, told, staff, claim, pressed>>
\* Completing and connecting take the hour only now, after the chat was read.
WriteSeen(h) ==
  /\ At(h, "write")
  /\ LET e == errand[h] IN
     /\ IF e.what = "refresh" THEN RefreshObservedBotChatMetadata(e.owner, e.at)
        ELSE UpsertObservedBotChat(e.owner, IF e.what \in {"complete", "connect"} THEN Now ELSE e.at)
     /\ IF e.what \in {"observe", "refresh"} THEN End(h) /\ heard' = Heard(h)
        ELSE Go(h, IF e.what \in {"rights", "prepare"} THEN "finish" ELSE "check") /\ UNCHANGED heard
  /\ UNCHANGED <<max, channel, right, told, staff, claim, pressed>>
CallFails(h) ==
  /\ errand[h].pc \in {"read", "check"} /\ End(h)
  /\ UNCHANGED <<max, heard, seen, channel, right, told, staff, claim, pressed>>

RightNewer(at) == at > right.at
SyncMAXChannelPermissions(h) ==
  LET e == errand[h] IN
  /\ At(h, "finish") /\ e.what = "rights"
  /\ IF seen.active /\ seen.at <= e.at /\ channel.home # Nobody /\ channel.owner = e.owner /\ RightNewer(e.at)
     THEN /\ right' = [can |-> e.can, at |-> e.at]
          /\ told' = IF ~e.can /\ right.can THEN e.at ELSE told
     ELSE UNCHANGED <<right, told>>
  /\ End(h) /\ heard' = Heard(h)
  /\ UNCHANGED <<max, seen, channel, staff, claim, pressed>>
----------------------------------------------------------------------------
(* Claims. *)

PrepareChannelClaim(h, u, home) ==
  /\ May(u, home) /\ (\E c \in Claims : claim[c].status = "none")
  /\ Start(h, [Errand("prepare") EXCEPT !.user = u, !.home = home])
  /\ UNCHANGED <<max, heard, seen, channel, right, told, staff, claim, pressed>>
CreateChannelClaim(h) ==
  LET e == errand[h]
      free == channel.home = Nobody \/ (e.home \in Teams /\ channel.home = e.user)
  IN
  /\ At(h, "finish") /\ e.what = "prepare"
  /\ IF free /\ May(e.user, e.home)
     THEN \E c \in Claims :
            /\ claim[c].status = "none"
            /\ claim' = [d \in Claims |->
                 IF d = c THEN [NoClaim EXCEPT !.status = "pending", !.home = e.home, !.actor = e.user]
                 ELSE IF claim[d].status \in Open /\ claim[d].over THEN [claim[d] EXCEPT !.status = "expired"]
                 ELSE IF claim[d].status \in Open /\ claim[d].home = e.home THEN [claim[d] EXCEPT !.status = "failed"]
                 ELSE claim[d]]
     ELSE UNCHANGED claim
  /\ End(h) /\ UNCHANGED <<max, heard, seen, channel, right, told, staff, pressed>>

StartChannelClaimConfirmation(c, a) ==
  /\ claim[c].status = "pending"
  /\ claim' = [claim EXCEPT ![c] = IF @.over THEN [@ EXCEPT !.status = "expired"]
                                   ELSE [@ EXCEPT !.status = "awaiting", !.account = a, !.asking = TRUE]]
  /\ UNCHANGED <<max, heard, seen, channel, right, told, staff, pressed, errand>>

\* Only a member can fail a claim, and the owner the row names is one of a personal workspace only.
FailChannelClaim(c, u) ==
  IF claim[c].status \in Open /\ May(u, claim[c].home) THEN [claim[c] EXCEPT !.status = "failed"] ELSE claim[c]
SendChannelClaimConfirmation(c) ==
  /\ claim[c].asking
  /\ \E answer \in {"sent", "failed"}, arrives \in BOOLEAN :
       /\ answer = "sent" => arrives
       /\ claim' = [claim EXCEPT ![c] = [IF answer = "failed" THEN FailChannelClaim(c, @.home) ELSE @ EXCEPT !.asking = FALSE]]
       /\ pressed' = IF arrives THEN pressed \cup {<<c, "shown">>} ELSE pressed
  /\ UNCHANGED <<max, heard, seen, channel, right, told, staff, errand>>
PressButton(c, button) ==
  /\ <<c, "shown">> \in pressed /\ <<c, button>> \notin pressed /\ pressed' = pressed \cup {<<c, button>>}
  /\ UNCHANGED <<max, heard, seen, channel, right, told, staff, claim, errand>>

\* A confirmation, and its repetition, completes the claim; so does the browser that polls it.
ConfirmChannelClaim(h, c) ==
  /\ ~claim[c].over /\ claim[c].status \in {"awaiting", "verified"}
  /\ claim' = [claim EXCEPT ![c].status = "verified"]
  /\ Start(h, [Errand("complete") EXCEPT !.claim = c, !.by = "callback"])
  /\ UNCHANGED <<max, heard, seen, channel, right, told, staff, pressed>>
CancelChannelClaim(c) ==
  /\ ~claim[c].over /\ claim[c].status = "awaiting"
  /\ claim' = [claim EXCEPT ![c].status = "failed"]
  /\ UNCHANGED <<max, heard, seen, channel, right, told, staff, pressed, errand>>
HandleMessageCallback(h, c) ==
  \/ <<c, "confirm">> \in pressed /\ ConfirmChannelClaim(h, c)
  \/ <<c, "cancel">> \in pressed /\ CancelChannelClaim(c)
GetChannelClaim(h, c) ==
  /\ May(claim[c].actor, claim[c].home) /\ claim[c].status \in Open
  /\ IF claim[c].over THEN claim' = [claim EXCEPT ![c].status = "expired"] /\ UNCHANGED errand
     ELSE /\ claim[c].status = "verified" /\ UNCHANGED claim
          /\ Start(h, [Errand("complete") EXCEPT !.claim = c, !.by = "poll"])
  /\ UNCHANGED <<max, heard, seen, channel, right, told, staff, pressed>>
ClaimExpires(c) ==
  /\ claim[c].status \in Open /\ ~claim[c].over /\ claim' = [claim EXCEPT ![c].over = TRUE]
  /\ UNCHANGED <<max, heard, seen, channel, right, told, staff, pressed, errand>>

\* A linked account needs no claim; the store looks at the inventory again.
ConnectDiscoverableChannel(h, u) ==
  /\ LinkOf(u) # Nobody /\ seen.active /\ seen.owner = LinkOf(u)
  /\ Start(h, [Errand("connect") EXCEPT !.user = u, !.home = u])
  /\ UNCHANGED <<max, heard, seen, channel, right, told, staff, claim, pressed>>

\* Who must own the chat for a call to go on.
Proven(e) == CASE e.what = "complete" -> claim[e.claim].account [] e.what = "connect" -> LinkOf(e.user) [] OTHER -> e.owner
\* Which refusals end the claim: of the callback every one, of the browser those about the owner.
CheckMembership(h) ==
  LET e == errand[h]
      owns == e.owner = Proven(e)
      c == e.claim
  IN
  /\ At(h, "check")
  /\ IF chat.in /\ owns /\ chat.can
     THEN /\ IF e.what = "prepare" THEN errand' = [errand EXCEPT ![h].pc = "write", ![h].at = Now] ELSE Go(h, "finish")
          /\ UNCHANGED claim
     ELSE /\ End(h)
          /\ IF e.what = "complete" /\ chat.in /\ (e.by = "callback" \/ ~owns)
             THEN claim' = [claim EXCEPT ![c] = FailChannelClaim(c, IF e.by = "callback" THEN @.home ELSE @.actor)]
             ELSE UNCHANGED claim
  /\ UNCHANGED <<max, heard, seen, channel, right, told, staff, pressed>>

Connected(home, owner) ==
  [channel EXCEPT !.home = home, !.owner = owner, !.active = TRUE,
                  !.since = IF channel.home # Nobody /\ channel.owner = owner THEN @ ELSE hour]
\* A team takes nothing but its member's own channel, and that without posts.
Movable(e, home) == channel.home = claim[e.claim].actor /\ home \in Teams /\ channel.posts = Nobody

CompleteChannelClaim(h) ==
  LET e == errand[h]
      c == e.claim
      home == claim[c].home
      owned == channel.home \notin {Nobody, home} /\ ~(channel.home = claim[c].actor /\ home \in Teams)
  IN
  /\ At(h, "finish") /\ e.what = "complete"
  /\ IF May(claim[c].actor, home) /\ claim[c].status = "verified" /\ claim[c].account = e.owner
     THEN IF channel.home \in {Nobody, home} \/ Movable(e, home)
          THEN /\ channel' = Connected(home, e.owner) /\ claim' = [claim EXCEPT ![c].status = "connected"]
               /\ right' = IF channel.home = Nobody THEN [can |-> TRUE, at |-> 0] ELSE right
          ELSE /\ UNCHANGED <<channel, right>>
               /\ claim' = IF owned
                    THEN [claim EXCEPT ![c] = FailChannelClaim(c, IF e.by = "callback" THEN @.home ELSE @.actor)]
                    ELSE claim
     ELSE UNCHANGED <<channel, right, claim>>
  /\ End(h) /\ UNCHANGED <<max, heard, seen, told, staff, pressed>>
StoreDiscoverableChannel(h) ==
  LET e == errand[h] IN
  /\ At(h, "finish") /\ e.what = "connect"
  /\ IF seen.active /\ seen.owner = LinkOf(e.user) /\ channel.home \in {Nobody, e.user}
     THEN /\ channel' = Connected(e.user, e.owner)
          /\ right' = IF channel.home = Nobody THEN [can |-> TRUE, at |-> 0] ELSE right
     ELSE UNCHANGED <<channel, right>>
  /\ End(h) /\ UNCHANGED <<max, heard, seen, told, staff, claim, pressed>>
----------------------------------------------------------------------------
(* The workspace. *)

WritePost ==
  /\ channel.home # Nobody /\ channel.posts = Nobody /\ channel' = [channel EXCEPT !.posts = channel.home]
  /\ UNCHANGED <<max, heard, seen, right, told, staff, claim, pressed, errand>>
DeleteChannelContent ==
  /\ channel.home # Nobody /\ channel' = NoChannel
  /\ UNCHANGED <<max, heard, seen, right, told, staff, claim, pressed, errand>>
StaffLeaves ==
  /\ \E s \in staff : staff' = staff \ {s}
  /\ UNCHANGED <<max, heard, seen, channel, right, told, claim, pressed, errand>>

Next ==
  \/ ChatChanges \/ MessagePosted \/ WritePost \/ DeleteChannelContent \/ StaffLeaves
  \/ \E c \in Claims :
       \/ SendChannelClaimConfirmation(c) \/ ClaimExpires(c)
       \/ \E a \in Accounts : StartChannelClaimConfirmation(c, a)
       \/ \E button \in {"confirm", "cancel"} : PressButton(c, button)
  \/ \E h \in Callers :
       \/ ReadChat(h) \/ WriteSeen(h) \/ CallFails(h) \/ CheckMembership(h)
       \/ SyncMAXChannelPermissions(h) \/ CreateChannelClaim(h) \/ CompleteChannelClaim(h)
       \/ StoreDiscoverableChannel(h) \/ RefreshDiscoverableChannels(h)
       \/ \E e \in hooks : MaxWebhook(h, e)
       \/ \E u \in Users : ConnectDiscoverableChannel(h, u) \/ (\E home \in Homes : PrepareChannelClaim(h, u, home))
       \/ \E c \in Claims : HandleMessageCallback(h, c) \/ GetChannelClaim(h, c)
----------------------------------------------------------------------------
\* A connected channel was proven by its MAX owner for this very workspace: by a button the
\* account itself pressed, or by the account linked to the user; its posts are of the workspace.
ChannelsProven ==
  channel.home # Nobody =>
    /\ \/ LinkOf(channel.home) = channel.owner
       \/ \E c \in Claims : claim[c].home = channel.home /\ claim[c].account = channel.owner /\ <<c, "confirm">> \in pressed
    /\ channel.posts \in {Nobody, channel.home}

\* What is dated earlier never undoes what is dated later.
NothingOlderWins ==
  /\ seen'.at >= seen.at /\ (seen'.active /\ ~seen.active => seen'.at > seen.at)
  /\ channel'.home = channel.home /\ channel.home # Nobody => right'.at >= right.at

\* Once every webhook was handled, a loss of the right to publish is recorded and its owner notified, if the
\* account that the channel is connected for owned the chat when it happened and has owned it since, and no
\* reading of the inventory dated after the loss came before its webhook.
Settled == hooks \subseteq heard /\ \A h \in Callers : At(h, "idle")
LastRights == {e.at : e \in {d \in hooks : d.what = "rights" /\ \A c \in hooks : c.what = "rights" => c.at <= d.at}}
Lost == chat.in /\ ~chat.can /\ channel.home # Nobody /\ channel.owner = chat.owner
Concerned(at) == 2 * chat.since < at /\ 2 * channel.since < at /\ seen.at <= at
LossKnown == Settled /\ Lost /\ (\E at \in LastRights : Concerned(at)) => ~right.can /\ told > 0
==============================================================================
