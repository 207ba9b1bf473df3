-------------------------------- MODULE Sessions --------------------------------
(***************************************************************************)
(* Sign-in with Yandex (startYandexAuth, finishYandexAuth, store/auth): a  *)
(* browser starts, Yandex sends it back with the state, a callback spends  *)
(* the state, asks Yandex who this is and creates account, consents and    *)
(* session in one transaction. Callbacks are repeated, run at once, end    *)
(* half-way or answer nobody.                                              *)
(*                                                                         *)
(* starts    every start: whose browser, when (the time of consent)        *)
(* states    oauth_states; cookie, token: the cookies of a browser         *)
(* callback  the handlers under way                                        *)
(* users     accounts there are, with the time of the consent recorded     *)
(* logins    every session ever made; valid: those auth_sessions still has *)
(* mails     welcome letters sent; listed: the allow list of the server    *)
(***************************************************************************)
EXTENDS Integers, Sequences, FiniteSets
CONSTANTS Browsers, Accounts, Callbacks, MaxStarts, MaxStates, StateLife, SessionLife, MaxTime, MaxLists, Nobody

VARIABLES second, starts, states, cookie, callback, users, logins, valid, token, mails, listed, lists
sessions == <<second, starts, states, cookie, callback, users, logins, valid, token, mails, listed, lists>>
server == <<second, listed, lists>>

Never == -1
Idle == [at |-> "idle", by |-> Nobody, state |-> 0, account |-> Nobody, login |-> 0]
Init ==
  /\ second = 0 /\ starts = <<>> /\ states = {} /\ logins = <<>> /\ valid = {} /\ lists = 0
  /\ cookie = [b \in Browsers |-> 0] /\ token = [b \in Browsers |-> 0]
  /\ callback = [c \in Callbacks |-> Idle]
  /\ users = [a \in Accounts |-> Never] /\ mails = [a \in Accounts |-> 0]
  /\ listed = Accounts

Expired(s) == starts[s].at + StateLife <= second
Ended(l) == logins[l].at + SessionLife <= second

\* The table is bounded: the newest stay, whoever started them.
Trims(rows) == {K \in SUBSET rows :
  /\ Cardinality(K) = IF Cardinality(rows) > MaxStates THEN MaxStates ELSE Cardinality(rows)
  /\ \A k \in K : \A s \in rows \ K : starts'[s].at <= starts'[k].at}
CreateOAuthState(b) ==
  /\ Len(starts) < MaxStarts
  /\ starts' = Append(starts, [by |-> b, at |-> second])
  /\ states' \in Trims({s \in states : ~Expired(s)} \cup {Len(starts')})
  /\ cookie' = [cookie EXCEPT ![b] = Len(starts')]
  /\ UNCHANGED <<server, callback, users, logins, valid, token, mails>>

\* Only the browser that holds the state may spend it; any answer takes the cookie away.
MayFinish(b, s) == cookie[b] = s
FinishYandexAuth(c, b, s) ==
  /\ callback[c].at = "idle" /\ s \in 1..Len(starts)
  /\ callback' = [callback EXCEPT ![c] = [Idle EXCEPT !.by = b, !.state = s,
                                           !.at = IF MayFinish(b, s) THEN "consume" ELSE "answer"]]
  /\ UNCHANGED <<server, starts, states, cookie, users, logins, valid, token, mails>>

Spent(s) == states \ {s}
ConsumeOAuthState(c) ==
  LET s == callback[c].state
  IN /\ callback[c].at = "consume"
     /\ callback' = [callback EXCEPT ![c].at = IF s \in states /\ ~Expired(s) THEN "exchange" ELSE "answer"]
     /\ states' = Spent(s)
     /\ UNCHANGED <<server, starts, cookie, users, logins, valid, token, mails>>

\* ExchangeCode and UserInfo: somebody on the list, somebody else, or nobody.
ExchangeCode(c) ==
  /\ callback[c].at = "exchange"
  /\ \/ \E a \in listed : callback' = [callback EXCEPT ![c].at = "create", ![c].account = a]
     \/ callback' = [callback EXCEPT ![c].at = "answer"]
  /\ UNCHANGED <<server, starts, states, cookie, users, logins, valid, token, mails>>

New(a) == users[a] = Never
CreateAuthenticatedSession(c) ==
  LET a == callback[c].account
      s == callback[c].state
  IN /\ callback[c].at = "create"
     /\ users' = [users EXCEPT ![a] = IF @ = Never THEN starts[s].at ELSE @]
     /\ logins' = Append(logins, [state |-> s, account |-> a, by |-> callback[c].by, at |-> second])
     /\ valid' = {l \in valid : ~Ended(l)} \cup {Len(logins')}
     /\ callback' = [callback EXCEPT ![c].at = IF New(a) THEN "welcome" ELSE "answer",
                                      ![c].login = Len(logins')]
     /\ UNCHANGED <<server, starts, states, cookie, token, mails>>

\* The letter goes out detached from the request, best effort.
DispatchWelcomeEmail(c) ==
  /\ callback[c].at = "welcome"
  /\ callback' = [callback EXCEPT ![c].at = "answer"]
  /\ \/ mails' = [mails EXCEPT ![callback[c].account] = @ + 1]
     \/ UNCHANGED mails
  /\ UNCHANGED <<server, starts, states, cookie, users, logins, valid, token>>

Redirect(c) ==
  LET b == callback[c].by
  IN /\ callback[c].at = "answer"
     /\ cookie' = [cookie EXCEPT ![b] = 0]
     /\ token' = [token EXCEPT ![b] = IF callback[c].login = 0 THEN @ ELSE callback[c].login]
     /\ callback' = [callback EXCEPT ![c] = Idle]
     /\ UNCHANGED <<server, starts, states, users, logins, valid, mails>>
\* The client is gone, or the server: what is committed stays, nobody is answered.
CallbackEnds(c) ==
  /\ callback[c].at # "idle" /\ callback' = [callback EXCEPT ![c] = Idle]
  /\ UNCHANGED <<server, starts, states, cookie, users, logins, valid, token, mails>>

Admitted(l) == l \in valid /\ ~Ended(l) /\ logins[l].account \in listed
\* GetAuthSession deletes what has expired, authenticate what is no longer on the list.
Authenticate(b) ==
  /\ token[b] \in valid /\ ~Admitted(token[b])
  /\ valid' = valid \ {token[b]}
  /\ UNCHANGED <<server, starts, states, cookie, callback, users, logins, token, mails>>
Logout(b) ==
  /\ token[b] # 0
  /\ valid' = valid \ {token[b]} /\ token' = [token EXCEPT ![b] = 0]
  /\ UNCHANGED <<server, starts, states, cookie, callback, users, logins, mails>>

\* The server starts again with another list.
Restart ==
  /\ lists < MaxLists /\ lists' = lists + 1 /\ listed' \in SUBSET Accounts
  /\ callback' = [c \in Callbacks |-> Idle]
  /\ UNCHANGED <<second, starts, states, cookie, users, logins, valid, token, mails>>
Tick ==
  /\ second < MaxTime /\ second' = second + 1
  /\ UNCHANGED <<starts, states, cookie, callback, users, logins, valid, token, mails, listed, lists>>

Next ==
  \/ \E b \in Browsers : CreateOAuthState(b) \/ Authenticate(b) \/ Logout(b)
  \/ \E c \in Callbacks :
       \/ \E b \in Browsers, s \in 1..MaxStarts : FinishYandexAuth(c, b, s)
       \/ ConsumeOAuthState(c) \/ ExchangeCode(c) \/ CreateAuthenticatedSession(c)
       \/ DispatchWelcomeEmail(c) \/ Redirect(c) \/ CallbackEnds(c)
  \/ Restart \/ Tick

\* A start makes one session at most, in the browser that made it, and an account has its consent
\* from a start that was completed for it and one welcome letter at most, however often the callback
\* is opened (ConsumeOAuthState, CreateAuthenticatedSession).
StartsSpentOnce ==
  /\ \A l, k \in 1..Len(logins) : logins[l].state = logins[k].state => l = k
  /\ \A l \in 1..Len(logins) :
       /\ logins[l].by = starts[logins[l].state].by
       /\ users[logins[l].account] # Never
  /\ \A b \in Browsers : token[b] # 0 => logins[token[b]].by = b
  /\ \A a \in Accounts :
       /\ mails[a] <= 1
       /\ users[a] # Never => \E l \in 1..Len(logins) :
            logins[l].account = a /\ starts[logins[l].state].at = users[a]
================================================================================
