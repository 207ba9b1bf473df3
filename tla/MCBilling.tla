------------------------------ MODULE MCBilling ------------------------------
(* Billing with its identities as model values, and the mixes TLC explores. *)
EXTENDS Billing

CONSTANTS a1, a2, a3, a4, h1, s1, s2
MCAttempts == {a1, a2, a3, a4}
ThreeAttempts == {a1, a2, a3}
Owner == {h1}
OneScheduler == {s1}
TwoSchedulers == {s1, s2}

OneCheckout == [requests |-> AllRequests, faults |-> {}, outcomes |-> {"succeeded", "canceled"},
                month |-> 2, grace |-> 1, horizon |-> 1, lag |-> 0,
                schedulers |-> {s1}, attempts |-> 3, checkouts |-> 1]

\* One contract under the requests of its owner, notices and every fault.
Terms == [OneCheckout EXCEPT
  !.requests = {"checkout", "webhook", "cancel", "retain", "detach"},
  !.faults = {"lost", "refused", "crash", "unavailable"},
  !.outcomes = {"succeeded", "canceled", "unsaved", "revoked"},
  !.month = 1, !.grace = 2, !.horizon = 2]
\* The same contract resumed, its payments found by polling alone.
Resumed == [Terms EXCEPT !.requests = {"checkout", "cancel", "retain", "resume", "detach"}]
\* Two schedulers whose clocks may lag a day post the same attempts.
Keys == [OneCheckout EXCEPT
  !.requests = {"checkout", "operator"}, !.faults = {"lost", "crash"}, !.outcomes = {"succeeded"},
  !.grace = 2, !.horizon = 2, !.lag = 1, !.schedulers = {s1, s2}, !.attempts = 2]
\* Two contracts in a row, whose payments are polled to the end.
Contracts == [OneCheckout EXCEPT
  !.requests = {"checkout", "cancel"}, !.faults = {"lost"},
  !.month = 1, !.horizon = 4, !.attempts = 4, !.checkouts = 2]
SafetyMixes == {Terms, Resumed, Keys, Contracts}

\* Lost answers, crashes, and downgrades that must wait.
Progress == [OneCheckout EXCEPT !.requests = {"checkout"}, !.faults = {"lost", "crash", "publishing"}]
Stopping == [OneCheckout EXCEPT !.requests = {"checkout", "cancel", "operator"}, !.faults = {"publishing"}]
Notified == [OneCheckout EXCEPT !.requests = {"checkout", "webhook"}, !.faults = {"lost"}]
ProgressMixes == {Progress, Stopping, Notified}

\* An old renewal goes to review in the life of a new contract.
Reviewed == [OneCheckout EXCEPT !.requests = {"checkout", "webhook"}, !.attempts = 4, !.checkouts = 2]
ReviewedOnly == {Reviewed}
==============================================================================
