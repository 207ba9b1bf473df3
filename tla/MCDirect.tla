------------------------------- MODULE MCDirect -------------------------------
EXTENDS Direct, TLC

Mix(requests, on, faults, limit, verified) ==
  [requests |-> requests, on |-> on, faults |-> faults, limit |-> limit, verified |-> verified]

MCCampaigns == {"c1", "c2"}
CONSTANTS w1, w2
MCWorkers == {w1, w2}
One == {"c1"}

\* A submission, up to its first launch; an edit and the launch of its result.
Building == Mix({"submit", "launch", "recover"}, One, {"stop", "lost", "rejected"}, 2, {})
Editing  == Mix({"edit", "launch", "recover"}, One, {"stop", "lost", "rejected"}, 2, One)
Relaunch == Mix({"edit", "launch", "consent", "auto", "sync"}, One, {"lost"}, 1, One)
\* Launches with lost and late answers: of one campaign, and of two for one budget.
Launching == Mix({"launch", "consent", "auto", "recover", "sync"}, One, {"slow", "stop", "lost", "late"}, 2, One)
Budget   == Mix({"launch", "consent", "auto", "recover"}, MCCampaigns, {"slow", "lost", "late"}, 2, MCCampaigns)
\* The token is refused and the owner connects again; somebody edits in the web interface.
Connecting == Mix({"submit", "launch", "recover", "connect"}, One, {"lost", "auth"}, 1, {})
Outside  == Mix({"launch", "consent", "auto", "edit", "recover", "sync"}, One, {"outside"}, 1, One)
MCMixes == {Building, Editing, Relaunch, Launching, Budget, Connecting, Outside}

\* For what must happen in the end.
Submitted == Mix({"submit", "launch", "recover"}, One, {"lost"}, 1, {})
Edited    == Mix({"edit", "recover"}, One, {"stop", "lost", "rejected"}, 2, One)
Launched  == Mix({"launch", "recover"}, One, {"slow", "stop", "lost", "late"}, 2, One)
Consented == Mix({"consent", "auto", "recover"}, One, {"slow", "lost", "late"}, 1, One)
ProgressMixes == {Submitted, Edited, Launched, Consented}
Refused  == Mix({"launch", "recover", "connect"}, One, {"auth"}, 1, One)
RefusedOnly == {Refused}
Goroutines == Permutations(MCWorkers)
=============================================================================
