------------------------------ MODULE DirectAccess ------------------------------
(***************************************************************************)
(* The connection of a workspace to Yandex Direct: the authorization       *)
(* attempts an owner starts in several tabs, and the refresh of the stored *)
(* token by several processes.  The provider accepts a refresh token once  *)
(* and then only its successor; tokens of a connection are numbered.       *)
(* Within a process the refreshes of a connection are merged, so a process *)
(* runs at most one.                                                       *)
(***************************************************************************)
EXTENDS Integers, FiniteSets

CONSTANTS
  Processes,
  MaxAttempts,   \* bound on authorization attempts
  MaxGrants,     \* bound on the refreshes of a connection
  RefreshLease,  \* lease of a refresh: 2 minutes
  MaxFailures,   \* bound on lost answers, rejections and crashes
  Noone

VARIABLES
  link,      \* direct_connections: the latest row
  oauth,     \* direct_oauth_states, by attempt
  latest,    \* direct_oauth_latest_attempts, 0 when there is no row
  flow,      \* the callback request that completes an attempt
  refresh,   \* the refresh each process is in
  grant,     \* the refresh token the provider would accept for the connection
  spilt,     \* history: an answer with a new token did not reach its process
  trouble    \* lost answers, rejections and crashes so far

calm == <<link, oauth, latest, flow, refresh, grant, spilt>>
access == <<calm, trouble>>

Attempts == 1..MaxAttempts
Unused == "unused"
NoRefresh == [pc |-> "idle", id |-> 0, token |-> 0, answer |-> 0, left |-> 0]
NoLink == [id |-> 0, status |-> "none", token |-> 0, aged |-> FALSE, holder |-> Noone, lease |-> 0]
NewLink(a) == [id |-> a, status |-> "active", token |-> 1, aged |-> FALSE, holder |-> Noone, lease |-> 0]

AccessInit ==
  /\ link = NoLink
  /\ oauth = [a \in Attempts |-> Unused] /\ latest = 0
  /\ flow = [a \in Attempts |-> "none"]
  /\ refresh = [p \in Processes |-> NoRefresh]
  /\ grant = 0 /\ spilt = FALSE /\ trouble = 0

Fails == trouble < MaxFailures /\ trouble' = trouble + 1
----------------------------------------------------------------------------
(* Authorization. *)

Started == {a \in Attempts : oauth[a] # Unused}

\* StartDirectOAuth: the latest attempt counts; the states of earlier ones
\* that were not used go.
CreateDirectOAuthState(a) ==
  /\ a = Cardinality(Started) + 1
  /\ oauth' = [b \in Attempts |-> IF b = a THEN "active"
                                  ELSE IF oauth[b] = "active" THEN "gone" ELSE oauth[b]]
  /\ latest' = a
  /\ UNCHANGED <<link, flow, refresh, grant, spilt, trouble>>
ConsumeDirectOAuthState(a) ==
  /\ oauth[a] = "active" /\ latest = a
  /\ oauth' = [oauth EXCEPT ![a] = "consumed"]
  /\ flow' = [flow EXCEPT ![a] = "exchange"]
  /\ UNCHANGED <<link, latest, refresh, grant, spilt, trouble>>

\* ExchangeCode and GetAccount, or one of them fails.
ExchangeCode(a) ==
  /\ flow[a] = "exchange"
  /\ flow' \in {[flow EXCEPT ![a] = next] : next \in {"replace", "none"}}
  /\ UNCHANGED <<link, oauth, latest, refresh, grant, spilt, trouble>>

\* Mutant: any consumed attempt may store the connection it obtained.
AttemptConsumed(a) == oauth[a] = "consumed"

AttemptCurrent(a) == oauth[a] = "consumed" /\ latest = a
Connect(a) ==
  /\ link' = NewLink(a) /\ grant' = 1 /\ spilt' = FALSE
  /\ oauth' = [oauth EXCEPT ![a] = "gone"]
  /\ latest' = IF latest = a THEN 0 ELSE latest

\* States expire, used ones after a retention.
PurgeDirectOAuthState(a) ==
  /\ oauth[a] \in {"active", "consumed"}
  /\ oauth' = [oauth EXCEPT ![a] = "gone"]
  /\ latest' = IF latest = a THEN 0 ELSE latest
  /\ UNCHANGED <<link, flow, refresh, grant, spilt, trouble>>
----------------------------------------------------------------------------
(* Refresh of the token: directAccessToken. *)

Refreshing(p, pc) == refresh[p].pc = pc
Finish(p) == refresh' = [refresh EXCEPT ![p] = NoRefresh]
Proceed(p, pc) == refresh' = [refresh EXCEPT ![p].pc = pc]
OnlyRefresh == UNCHANGED <<oauth, latest, flow>>

\* RefreshAfter of the stored bundle passes.
TokenAges ==
  /\ link.status = "active" /\ ~link.aged /\ grant < MaxGrants
  /\ link' = [link EXCEPT !.aged = TRUE]
  /\ OnlyRefresh /\ UNCHANGED <<refresh, grant, spilt, trouble>>
ReadTokenMaterial(p) ==
  /\ Refreshing(p, "idle") /\ link.status = "active" /\ link.aged
  /\ refresh' = [refresh EXCEPT ![p] = [NoRefresh EXCEPT !.pc = "claim", !.id = link.id, !.token = link.token]]
  /\ OnlyRefresh /\ UNCHANGED <<link, grant, spilt, trouble>>

SameBundle(p) == link.id = refresh[p].id /\ link.status = "active" /\ link.token = refresh[p].token

\* Mutant: a live claim is no obstacle.
RefreshFreeAnyway(p) == SameBundle(p)

RefreshFree(p) == SameBundle(p) /\ link.lease = 0
ClaimTokenRefresh(p) ==
  /\ Refreshing(p, "claim")
  /\ IF RefreshFree(p)
     THEN /\ link' = [link EXCEPT !.holder = p, !.lease = RefreshLease]
          /\ refresh' = [refresh EXCEPT ![p].pc = "exchange", ![p].left = RefreshLease - 1]
     ELSE Finish(p) /\ UNCHANGED link     \* the latest bundle, or this one, is used
  /\ OnlyRefresh /\ UNCHANGED <<grant, spilt, trouble>>

\* The provider rotates the token, refuses one it has rotated, or its answer
\* is lost; then it may have rotated the token all the same.
Current(p) == link.id = refresh[p].id /\ refresh[p].token = grant
RefreshToken(p) ==
  /\ Refreshing(p, "exchange")
  /\ \/ /\ Current(p) /\ grant' = grant + 1
        /\ refresh' = [refresh EXCEPT ![p].pc = "complete", ![p].answer = grant + 1]
        /\ UNCHANGED <<spilt, trouble>>
     \/ /\ link.id = refresh[p].id /\ refresh[p].token # grant
        /\ Proceed(p, "invalid") /\ UNCHANGED <<grant, spilt, trouble>>
     \/ /\ link.id # refresh[p].id      \* the replaced connection's own token
        /\ Proceed(p, "complete") /\ UNCHANGED <<grant, spilt, trouble>>
     \/ /\ Fails /\ Proceed(p, "release")
        /\ \/ UNCHANGED <<grant, spilt>>
           \/ Current(p) /\ grant' = grant + 1 /\ spilt' = TRUE
  /\ OnlyRefresh /\ UNCHANGED link

Claimed(p) == SameBundle(p) /\ link.holder = p
Unclaimed == [link EXCEPT !.holder = Noone, !.lease = 0]

CompleteTokenRefresh(p) ==
  /\ Refreshing(p, "complete")
  /\ link' = IF Claimed(p) THEN [Unclaimed EXCEPT !.token = refresh[p].answer, !.aged = FALSE] ELSE link
  /\ Finish(p) /\ OnlyRefresh /\ UNCHANGED <<grant, spilt, trouble>>
ReleaseTokenRefresh(p) ==
  /\ Refreshing(p, "release")
  /\ link' = IF Claimed(p) THEN Unclaimed ELSE link
  /\ Finish(p) /\ OnlyRefresh /\ UNCHANGED <<grant, spilt, trouble>>
MarkRefreshAuthorizationRequired(p) ==
  /\ Refreshing(p, "invalid")
  /\ link' = IF Claimed(p) THEN [Unclaimed EXCEPT !.status = "error"] ELSE link
  /\ Finish(p) /\ OnlyRefresh /\ UNCHANGED <<grant, spilt, trouble>>

\* A process dies; a rotated token it holds is lost.
ProcessDies(p) ==
  /\ ~Refreshing(p, "idle") /\ Fails /\ Finish(p)
  /\ spilt' = (spilt \/ (Refreshing(p, "complete") /\ link.id = refresh[p].id))
  /\ OnlyRefresh /\ UNCHANGED <<link, grant>>

RefreshStep(p) ==
  \/ ReadTokenMaterial(p) \/ ClaimTokenRefresh(p) \/ RefreshToken(p)
  \/ CompleteTokenRefresh(p) \/ ReleaseTokenRefresh(p) \/ MarkRefreshAuthorizationRequired(p)
  \/ ProcessDies(p)
OAuthStep(a) ==
  \/ CreateDirectOAuthState(a) \/ ConsumeDirectOAuthState(a) \/ ExchangeCode(a)
  \/ PurgeDirectOAuthState(a)

\* An HTTP call ends before its lease (20 seconds, 2 minutes).
TickRefresh ==
  /\ \A p \in Processes : refresh[p].pc # "idle" /\ refresh[p].pc # "claim" => refresh[p].left > 0
  /\ refresh' = [p \in Processes |-> [refresh[p] EXCEPT !.left = IF @ > 0 THEN @ - 1 ELSE 0]]
----------------------------------------------------------------------------
\* While no answer is lost and no process dies, the newest refresh token of the
\* connection is stored, or is in the hands of the one process that may store it.
GrantKept ==
  link.status \in {"active", "error"} /\ ~spilt =>
    \/ link.status = "active" /\ link.token = grant
    \/ \E p \in Processes : Refreshing(p, "complete") /\ refresh[p].answer = grant /\ Claimed(p)

\* The connection an authorization stores is that of the last one started.
LatestConnects == link'.id # link.id => \A a \in Attempts : oauth[a] # Unused => a <= link'.id
================================================================================
