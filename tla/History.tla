-------------------------------- MODULE History --------------------------------
(***************************************************************************)
(* The import of the messages a MAX channel already holds, page by page,   *)
(* newest first, under a claim with a generation; while people write to    *)
(* the channel and MaxPosty publishes a post in it.                        *)
(*                                                                         *)
(* Messages are numbered as they appear; their milliseconds may be equal.  *)
(* A message costs look-ups of its videos, and a page stops before they    *)
(* exceed the budget.                                                      *)
(***************************************************************************)
EXTENDS Integers, Sequences, FiniteSets, FiniteSetsExt

CONSTANTS
  Importers,     \* goroutines of import requests
  Stamp,         \* of each message, its millisecond; newest last
  Videos,        \* of each message, the video look-ups it takes
  PageSize,      \* maxHistoryPageSize: 100
  VideoBudget,   \* maxHistoryVideoMetadataBudget: 20
  Present,       \* how many messages there may be at first
  MaxClaims,     \* bound on the claims of the import
  MaxFaults      \* bound on failed calls and crashes

VARIABLES
  import,    \* the channel_history_imports row
  mapped,    \* max_history_messages: of each message the last run that saw it, or 0
  posts,     \* of each message the post that stands for it: "none", "own" or "imported"
  held,      \* how many messages the channel holds
  own,       \* the post MaxPosty publishes
  worker,    \* what each goroutine does
  faults,
  reach,     \* history: the messages there were when the run began
  stalled    \* history: a run was ended by a boundary it could not pass

history == <<import, mapped, posts, held, own, worker, faults, reach, stalled>>

Ids == DOMAIN Stamp
Newest == 0
Idle == [pc |-> "idle", generation |-> 0, before |-> Newest, page |-> {}, limited |-> FALSE]
Init ==
  /\ import = [status |-> "none", generation |-> 0, run |-> 0, cursor |-> Newest, processed |-> 0,
               claim |-> "free", previous |-> FALSE]
  /\ mapped = [m \in Ids |-> 0]
  /\ posts = [m \in Ids |-> "none"]
  /\ held \in Present
  /\ own = [status |-> "draft", message |-> 0, alive |-> FALSE]
  /\ worker = [w \in Importers |-> Idle]
  /\ faults = 0 /\ reach = 0 /\ stalled = FALSE

\* The video look-ups of some messages.
LookUps(some) == MapThenSumSet(LAMBDA n : Videos[n], some)
\* What the proofs assume: milliseconds do not decrease, and the videos of one message are within the budget.
HistoryOK ==
  /\ Stamp \in Seq(Nat \ {0}) /\ \A m, n \in Ids : m <= n => Stamp[m] <= Stamp[n]
  /\ Present \subseteq 0..Len(Stamp) /\ PageSize \in Nat \ {0}
  /\ \A m \in Ids : LookUps({m}) <= VideoBudget

At(w, pc) == worker[w].pc = pc
Go(w, pc) == worker' = [worker EXCEPT ![w].pc = pc]
Faulty == faults < MaxFaults /\ faults' = faults + 1
----------------------------------------------------------------------------
(* The claim. *)

\* A completed run is followed by a new one; any other goes on where it was.
ClaimMAXHistoryImport(w) ==
  /\ At(w, "idle") /\ import.claim # "held" /\ import.generation < MaxClaims
  /\ LET next == import.generation + 1
         old == [import EXCEPT !.generation = next, !.status = "in_progress", !.claim = "held"] IN
     IF import.status \in {"none", "complete"}
     THEN /\ import' = [old EXCEPT !.run = next, !.cursor = Newest, !.processed = 0,
                          !.previous = import.status = "complete"]
          /\ reach' = held
     ELSE import' = old /\ UNCHANGED reach
  /\ worker' = [worker EXCEPT ![w] = [Idle EXCEPT !.pc = "fetch", !.generation = import'.generation,
                                                  !.before = import'.cursor]]
  /\ UNCHANGED <<mapped, posts, held, own, faults, stalled>>

\* Mutant: whoever has applied for a page may store it.
AnyGeneration(w) == import.status = "in_progress" /\ import.claim # "free"

CurrentGeneration(w) ==
  import.generation = worker[w].generation /\ import.status = "in_progress" /\ import.claim # "free"
ReleaseMAXHistoryImport(w) ==
  /\ At(w, "release")
  /\ import' = IF CurrentGeneration(w) THEN [import EXCEPT !.status = "failed", !.claim = "free"] ELSE import
  /\ worker' = [worker EXCEPT ![w] = Idle]
  /\ UNCHANGED <<mapped, posts, held, own, faults, reach, stalled>>
LeaseEnds ==
  /\ import.claim = "held" /\ import' = [import EXCEPT !.claim = "expired"]
  /\ UNCHANGED <<mapped, posts, held, own, worker, faults, reach, stalled>>
----------------------------------------------------------------------------
(* A page. *)

Upto(before) == {m \in 1..held : before = Newest \/ Stamp[m] <= before}
\* MAX answers with the newest messages up to the boundary, which it includes.
Page(before) == {m \in Upto(before) : Cardinality({n \in Upto(before) : n > m}) < PageSize}
\* prepareMAXHistoryVideoMedia: from the newest on, up to the first message that exceeds the budget.
Prefix(page) == {m \in page : \A n \in page : n >= m => LookUps({k \in page : k >= n}) <= VideoBudget}
GetMessagesPage(w) ==
  /\ At(w, "fetch")
  /\ \/ LET page == Page(worker[w].before) IN
        /\ worker' = [worker EXCEPT ![w].pc = "apply", ![w].page = Prefix(page), ![w].limited = Prefix(page) # page]
        /\ UNCHANGED faults
     \/ Faulty /\ Go(w, "release")
  /\ UNCHANGED <<import, mapped, posts, held, own, reach, stalled>>

Oldest(w) == Stamp[Min(worker[w].page)]
\* Mutant: the boundary is left out of the next page.
CursorExclusive(w) ==
  IF ~worker[w].limited /\ Cardinality(worker[w].page) < PageSize THEN [end |-> "whole", next |-> Newest]
  ELSE IF worker[w].before # Newest /\ Oldest(w) >= worker[w].before THEN [end |-> "stalled", next |-> Newest]
  ELSE [end |-> "more", next |-> Oldest(w) - 1]

\* The next page repeats the boundary, for the messages of its millisecond.
MaxHistoryPageCursor(w) ==
  IF ~worker[w].limited /\ Cardinality(worker[w].page) < PageSize THEN [end |-> "whole", next |-> Newest]
  ELSE IF worker[w].before # Newest /\ Oldest(w) >= worker[w].before THEN [end |-> "stalled", next |-> Newest]
  ELSE [end |-> "more", next |-> Oldest(w)]

\* An incremental run stops where the one before it began.
Overlap(w) ==
  import.previous /\ ~worker[w].limited /\ \E m \in worker[w].page : mapped[m] \notin {0, import.run}

Counted(page) == {m \in page : mapped[m] # import.run}

PublicationInProgress == own.status = "publishing"
ApplyMAXHistoryPage(w) ==
  /\ At(w, "apply")
  /\ IF ~CurrentGeneration(w) \/ PublicationInProgress
     THEN Go(w, "release") /\ UNCHANGED <<import, mapped, posts, stalled>>
     ELSE LET page == worker[w].page  cursor == MaxHistoryPageCursor(w)
              whole == cursor.end # "more" \/ Overlap(w) IN
          /\ mapped' = [m \in Ids |-> IF m \in page THEN import.run ELSE mapped[m]]
          /\ posts' = [m \in Ids |-> IF m \in page /\ posts[m] = "none" THEN "imported" ELSE posts[m]]
          /\ import' = [import EXCEPT !.processed = @ + Cardinality(Counted(page)), !.claim = "free",
                                      !.status = IF whole THEN "complete" ELSE @,
                                      !.cursor = IF whole THEN Newest ELSE cursor.next]
          /\ stalled' = (stalled \/ cursor.end = "stalled")
          /\ worker' = [worker EXCEPT ![w] = Idle]
  /\ UNCHANGED <<held, own, faults, reach>>
ImporterDies(w) ==
  /\ ~At(w, "idle") /\ Faulty /\ worker' = [worker EXCEPT ![w] = Idle]
  /\ UNCHANGED <<import, mapped, posts, held, own, reach, stalled>>
----------------------------------------------------------------------------
(* The channel: other people's messages, and MaxPosty's own post. *)

SomebodyWrites ==
  /\ held + 1 \in Ids /\ held' = held + 1
  /\ UNCHANGED <<import, mapped, posts, own, worker, faults, reach, stalled>>
ClaimPost ==
  /\ own.status = "draft" /\ own' = [own EXCEPT !.status = "publishing", !.alive = TRUE]
  /\ UNCHANGED <<import, mapped, posts, held, worker, faults, reach, stalled>>
SendPost ==
  /\ own.alive /\ own.message = 0 /\ held + 1 \in Ids
  /\ held' = held + 1 /\ own' = [own EXCEPT !.message = held + 1]
  /\ UNCHANGED <<import, mapped, posts, worker, faults, reach, stalled>>
\* The index of the message identifiers of a channel is unique.
RecordPost ==
  /\ own.alive /\ own.message # 0 /\ posts[own.message] = "none"
  /\ posts' = [posts EXCEPT ![own.message] = "own"]
  /\ own' = [own EXCEPT !.status = "published", !.alive = FALSE]
  /\ UNCHANGED <<import, mapped, held, worker, faults, reach, stalled>>
PublisherDies ==
  /\ own.alive /\ Faulty /\ own' = [own EXCEPT !.alive = FALSE]
  /\ UNCHANGED <<import, mapped, posts, held, worker, reach, stalled>>
\* Only publishers that died are that late: see Publication.
RecoverStalePublishing ==
  /\ own.status = "publishing" /\ ~own.alive /\ own' = [own EXCEPT !.status = "failed"]
  /\ UNCHANGED <<import, mapped, posts, held, worker, faults, reach, stalled>>
----------------------------------------------------------------------------
Next ==
  \/ \E w \in Importers :
       \/ ClaimMAXHistoryImport(w) \/ GetMessagesPage(w) \/ ApplyMAXHistoryPage(w)
       \/ ReleaseMAXHistoryImport(w) \/ ImporterDies(w)
  \/ LeaseEnds \/ SomebodyWrites \/ ClaimPost \/ SendPost \/ RecordPost \/ PublisherDies
  \/ RecoverStalePublishing
Spec == Init /\ [][Next]_history
----------------------------------------------------------------------------
\* A completed import has a post for every message that was in the channel when
\* its run began, unless a run had to stop at a boundary it could not pass; and
\* it counted each message of the run once.
HistoryComplete ==
  /\ import.status = "complete" /\ ~stalled => \A m \in 1..reach : mapped[m] # 0 /\ posts[m] # "none"
  /\ import.processed = Cardinality({m \in Ids : mapped[m] = import.run /\ import.run # 0})

\* The message that is being published is never taken for somebody else's: its
\* publisher would be refused when it records it.
OwnMessageRecordable == own.alive /\ own.message # 0 => posts[own.message] = "none"

================================================================================
