------------------------------- MODULE Statistics -------------------------------
(***************************************************************************)
(* What MaxPosty stores about its publications and channels in MAX: views  *)
(* and the pin of a post, participants of a channel (publication_metadata, *)
(* channel_participants). A reading is claimed, fetched and stored in      *)
(* three steps, while posts are edited, deleted and published again and    *)
(* messages vanish or are pinned in MAX itself.                            *)
(*                                                                         *)
(* stat      a post's row: status, message id (0: none), time published,   *)
(*           attempted and synced, the pin flag, and whose views it stores *)
(* origin    the post a message of MAX was made for; live, top, topped:    *)
(*           the messages there, the pinned one, those ever pinned         *)
(* counter   the channel's row: stamps, and when its reading really began  *)
(* daily     the snapshot of each day                                      *)
(* runner    the scheduler's workers and the requests, step by step        *)
(***************************************************************************)
EXTENDS Integers, Sequences
CONSTANTS Posts, Callers, Tasks, MaxMessages, Cooldown, Interval, Day, MaxTime

VARIABLES minute, stat, origin, live, top, topped, counter, daily, runner
statistics == <<minute, stat, origin, live, top, topped, counter, daily, runner>>
inMAX == <<origin, live, top, topped>>
channelRows == <<counter, daily>>

\* What the proofs assume: a day takes time, and times are whole numbers.
StatisticsOK == Interval \in Nat /\ Day \in Nat \ {0} /\ MaxTime \in Nat

Never == -Interval
Idle == [at |-> "idle", task |-> "", post |-> 0, message |-> 0, stamp |-> 0,
         read |-> 0, pinned |-> FALSE]
Init ==
  /\ minute = 0 /\ origin = <<>> /\ live = {} /\ top = 0 /\ topped = {}
  /\ stat = [p \in Posts |-> [status |-> "draft", message |-> 0, published |-> Never, attempted |-> Never,
                              synced |-> Never, pinned |-> FALSE, views |-> 0]]
  /\ counter = [attempted |-> Never, synced |-> Never, info |-> Never, read |-> Never]
  /\ daily = [d \in 0..(MaxTime \div Day) |-> [stamp |-> Never, read |-> Never]]
  /\ runner = [c \in Callers |-> Idle]

Runs(c, at) == runner[c].at = at
Goes(c, at) == runner' = [runner EXCEPT ![c].at = at]
Stops(c) == runner' = [runner EXCEPT ![c] = Idle]
Starts(c, task, at, p, m) ==
  /\ task \in Tasks /\ Runs(c, "idle")
  /\ runner' = [runner EXCEPT ![c] = [Idle EXCEPT !.task = task, !.at = at, !.post = p, !.message = m, !.stamp = minute]]

\* validatePublicationMutation and lockPublishedPost: the row still is the publication that was read.
Locked(c) == LET row == stat[runner[c].post] IN row.status = "published" /\ row.message = runner[c].message

(* The scheduler and the button "refresh": claim an attempt, read MAX, store. *)

BeginCycle(c) == Starts(c, "stats", "due", 0, 0) /\ UNCHANGED <<minute, stat, inMAX, channelRows>>

LastTouched(row) ==
  IF row.attempted # Never THEN row.attempted ELSE IF row.synced # Never THEN row.synced ELSE row.published
ListPostsDueForStats(c) ==
  /\ Runs(c, "due")
  /\ \E p \in Posts :
       /\ stat[p].status = "published" /\ LastTouched(stat[p]) <= runner[c].stamp - Interval
       /\ runner' = [runner EXCEPT ![c].at = "claim", ![c].post = p, ![c].message = stat[p].message]
  /\ UNCHANGED <<minute, stat, inMAX, channelRows>>

SyncMAXPublication(c) ==
  /\ \E p \in Posts : stat[p].status = "published" /\ Starts(c, "sync", "claim", p, stat[p].message)
  /\ UNCHANGED <<minute, stat, inMAX, channelRows>>

ClaimPostStatsAttempt(c) ==
  LET p == runner[c].post
      gap == IF runner[c].task = "stats" THEN Interval ELSE Cooldown
  IN /\ Runs(c, "claim")
     /\ IF Locked(c) /\ stat[p].attempted <= runner[c].stamp - gap
          THEN /\ stat' = [stat EXCEPT ![p].attempted = runner[c].stamp]
               /\ Goes(c, IF runner[c].task = "stats" THEN "again" ELSE "read")
          ELSE Stops(c) /\ UNCHANGED stat
     /\ UNCHANGED <<minute, inMAX, channelRows>>

\* The worker reads the row again and goes on with whatever message it has by now.
SyncForWorker(c) ==
  LET row == stat[runner[c].post]
  IN /\ Runs(c, "again")
     /\ IF row.status = "published"
          THEN runner' = [runner EXCEPT ![c].at = "read", ![c].message = row.message]
          ELSE Stops(c)
     /\ UNCHANGED <<minute, stat, inMAX, channelRows>>

GetMessage(c) ==
  /\ Runs(c, "read")
  /\ Goes(c, IF runner[c].message \in live THEN "pin" ELSE "gone")
  /\ UNCHANGED <<minute, stat, inMAX, channelRows>>

MarkMAXPublicationMissing(c) ==
  /\ Runs(c, "gone") /\ Stops(c)
  /\ stat' = IF Locked(c)
               THEN [stat EXCEPT ![runner[c].post].status = "missing", ![runner[c].post].message = 0,
                                 ![runner[c].post].attempted = Never, ![runner[c].post].pinned = FALSE]
               ELSE stat
  /\ UNCHANGED <<minute, inMAX, channelRows>>

GetPinnedMessage(c) ==
  /\ Runs(c, "pin")
  /\ runner' = [runner EXCEPT ![c].at = "store", ![c].pinned = (top = runner[c].message)]
  /\ UNCHANGED <<minute, stat, inMAX, channelRows>>

\* One pin for a channel: a post that is pinned now takes the flag from the others.
Flagged(c, rows) ==
  [p \in Posts |-> IF p = runner[c].post THEN [rows[p] EXCEPT !.pinned = runner[c].pinned]
                   ELSE IF runner[c].pinned THEN [rows[p] EXCEPT !.pinned = FALSE] ELSE rows[p]]
SyncPublicationMetadata(c) ==
  LET p == runner[c].post
  IN /\ Runs(c, "store") /\ Stops(c)
     /\ stat' = IF Locked(c)
                  THEN Flagged(c, [stat EXCEPT ![p].views = runner[c].message,
                                               ![p].synced = runner[c].stamp, ![p].attempted = runner[c].stamp])
                  ELSE stat
     /\ UNCHANGED <<minute, inMAX, channelRows>>

(* Pins and unpins: MAX first, the flag afterwards. *)

PinPost(c) ==
  /\ \E p \in Posts : stat[p].status = "published" /\ Starts(c, "pin", "set", p, stat[p].message)
  /\ UNCHANGED <<minute, stat, inMAX, channelRows>>
UnpinPost(c) ==
  /\ \E p \in Posts : stat[p].status = "published" /\ Starts(c, "unpin", "look", p, stat[p].message)
  /\ UNCHANGED <<minute, stat, inMAX, channelRows>>

PinMessage(c) ==
  /\ Runs(c, "set") /\ runner[c].message \in live
  /\ top' = runner[c].message /\ topped' = topped \cup {runner[c].message}
  /\ \/ runner' = [runner EXCEPT ![c].at = "flag", ![c].pinned = TRUE]
     \/ Stops(c)                                    \* carried out, the answer lost
  /\ UNCHANGED <<minute, stat, origin, live, channelRows>>
\* Another pin is left alone, and so is an absent one.
LookAtPin(c) ==
  /\ Runs(c, "look") /\ Goes(c, IF top = runner[c].message THEN "clear" ELSE "flag")
  /\ UNCHANGED <<minute, stat, inMAX, channelRows>>
UnpinMessage(c) ==
  /\ Runs(c, "clear") /\ top' = 0 /\ (Goes(c, "flag") \/ Stops(c))
  /\ UNCHANGED <<minute, stat, origin, live, topped, channelRows>>
SetPublicationPinned(c) ==
  /\ Runs(c, "flag") /\ Stops(c)
  /\ stat' = IF Locked(c) THEN Flagged(c, stat) ELSE stat
  /\ UNCHANGED <<minute, inMAX, channelRows>>

(* The life of a publication around them. *)

DeletePublication(c) ==
  /\ \E p \in Posts : /\ stat[p].message # 0 /\ stat[p].status # "publishing"
                      /\ Starts(c, "delete", "delete", p, stat[p].message)
  /\ UNCHANGED <<minute, stat, inMAX, channelRows>>
Vanish(m) == live' = live \ {m} /\ top' = IF top = m THEN 0 ELSE top
DeleteMessage(c) ==
  /\ Runs(c, "delete") /\ Vanish(runner[c].message) /\ (Goes(c, "forget") \/ Stops(c))
  /\ UNCHANGED <<minute, stat, origin, topped, channelRows>>
Clearable(c) == LET row == stat[runner[c].post] IN row.message = runner[c].message /\ row.status # "publishing"
ClearPublication(c) ==
  /\ Runs(c, "forget") /\ Stops(c)
  /\ stat' = IF Clearable(c)
               THEN [stat EXCEPT ![runner[c].post].status = "draft", ![runner[c].post].message = 0,
                                 ![runner[c].post].attempted = Never, ![runner[c].post].pinned = FALSE]
               ELSE stat
  /\ UNCHANGED <<minute, inMAX, channelRows>>

MarkPublished(p) ==
  /\ stat[p].status \in {"draft", "missing"} /\ Len(origin) < MaxMessages
  /\ origin' = Append(origin, p) /\ live' = live \cup {Len(origin')}
  /\ stat' = [stat EXCEPT ![p] = [status |-> "published", message |-> Len(origin'), published |-> minute,
                                  attempted |-> Never, synced |-> Never, pinned |-> FALSE, views |-> 0]]
  /\ UNCHANGED <<minute, top, topped, channelRows, runner>>
ClaimPublishedForUpdate(p) ==
  /\ stat[p].status = "published" /\ stat' = [stat EXCEPT ![p].status = "publishing"]
  /\ UNCHANGED <<minute, inMAX, channelRows, runner>>
ReleasePublishedUpdate(p) ==
  /\ stat[p].status = "publishing" /\ stat' = [stat EXCEPT ![p].status = "published"]
  /\ UNCHANGED <<minute, inMAX, channelRows, runner>>

ChangedInMAX ==
  /\ \E m \in live : \/ Vanish(m) /\ UNCHANGED topped
                     \/ top' = m /\ topped' = topped \cup {m} /\ UNCHANGED live
                     \/ m = top /\ top' = 0 /\ UNCHANGED <<live, topped>>
  /\ UNCHANGED <<minute, stat, origin, channelRows, runner>>
RequestFails(c) == ~Runs(c, "idle") /\ Stops(c) /\ UNCHANGED <<minute, stat, inMAX, channelRows>>

(* Participants: the scheduler and the test of a channel read the same chat. *)

BeginParticipants(c) == Starts(c, "participants", "count", 0, 0) /\ UNCHANGED <<minute, stat, inMAX, channelRows>>
\* Claimed with the time of the cycle; the reading is dated when it begins.
ClaimChannelParticipantStatsAttempt(c) ==
  /\ Runs(c, "count")
  /\ IF counter.attempted <= runner[c].stamp - Interval
       THEN /\ counter' = [counter EXCEPT !.attempted = runner[c].stamp]
            /\ runner' = [runner EXCEPT ![c].at = "chat", ![c].stamp = minute]
       ELSE Stops(c) /\ UNCHANGED counter
  /\ UNCHANGED <<minute, stat, inMAX, daily>>
TestChannel(c) == Starts(c, "profile", "chat", 0, 0) /\ UNCHANGED <<minute, stat, inMAX, channelRows>>
GetChat(c) ==
  /\ Runs(c, "chat") /\ runner' = [runner EXCEPT ![c].at = "sync", ![c].read = minute]
  /\ UNCHANGED <<minute, stat, inMAX, channelRows>>

Full(c) == runner[c].task = "profile"
Late(c) == runner[c].stamp < counter.synced \/ (Full(c) /\ runner[c].stamp < counter.info)
SyncChannelMAXInfo(c) ==
  LET at == runner[c].stamp
      day == at \div Day
      reading == [stamp |-> at, read |-> runner[c].read]
  IN /\ Runs(c, "sync") /\ Stops(c)
     /\ IF Late(c)
          THEN UNCHANGED channelRows
          ELSE /\ counter' = [attempted |-> at, synced |-> at, read |-> runner[c].read,
                              info |-> IF Full(c) THEN at ELSE counter.info]
               /\ daily' = [daily EXCEPT ![day] = IF at >= @.stamp THEN reading ELSE @]
     /\ UNCHANGED <<minute, stat, inMAX>>

Tick == minute < MaxTime /\ minute' = minute + 1 /\ UNCHANGED <<stat, inMAX, channelRows, runner>>

Next ==
  \/ \E c \in Callers :
       \/ BeginCycle(c) \/ ListPostsDueForStats(c) \/ SyncMAXPublication(c) \/ ClaimPostStatsAttempt(c)
       \/ SyncForWorker(c) \/ GetMessage(c) \/ MarkMAXPublicationMissing(c) \/ GetPinnedMessage(c)
       \/ SyncPublicationMetadata(c) \/ PinPost(c) \/ UnpinPost(c) \/ PinMessage(c) \/ LookAtPin(c)
       \/ UnpinMessage(c) \/ SetPublicationPinned(c) \/ DeletePublication(c) \/ DeleteMessage(c)
       \/ ClearPublication(c) \/ BeginParticipants(c) \/ ClaimChannelParticipantStatsAttempt(c)
       \/ TestChannel(c) \/ GetChat(c) \/ SyncChannelMAXInfo(c) \/ RequestFails(c)
  \/ \E p \in Posts : MarkPublished(p) \/ ClaimPublishedForUpdate(p) \/ ReleasePublishedUpdate(p)
  \/ ChangedInMAX \/ Tick

(***************************************************************************)
(* What is stored is true of the publication it is stored with.            *)
(***************************************************************************)

\* Views stored since a post was published are its own message's, and its flag says that message
\* was pinned once: an answer about an earlier publication finds another message id (lockPublishedPost).
MetadataOwn == \A p \in Posts :
  /\ stat[p].status = "published" => stat[p].views \in {0, stat[p].message}
  /\ stat[p].pinned => stat[p].message \in topped

\* A post called missing or cleared has no message left in the channel: a late 404, or a deletion
\* finished after the post was published again, clears nothing (MarkMAXPublicationMissing, ClearPublication).
ClearedGone == \A p \in Posts :
  stat[p].status \in {"missing", "draft"} => \A m \in live : origin[m] # p

\* The channel's row and the snapshot of its day are one reading, none is newer, and a reading begun
\* later is not replaced by an earlier one (syncChannelMAXInfoForUser).
DaysAgree ==
  /\ counter.synced # Never =>
       daily[counter.synced \div Day] = [stamp |-> counter.synced, read |-> counter.read]
  /\ \A d \in DOMAIN daily : daily[d].stamp <= counter.synced
ReadingsStand ==
  /\ counter.synced <= counter'.synced
  /\ \A d \in DOMAIN daily : daily[d].stamp <= daily'[d].stamp
================================================================================
