---------------------------- MODULE PublishedIndex ----------------------------
(***************************************************************************)
(* What a channel has published, indexed so that discovery does not find   *)
(* it again.                                                               *)
(*                                                                         *)
(* Every delivery and import adds to the index in its own transaction; the *)
(* rows from before the index existed are read once, page by page, by the  *)
(* first request, in one transaction at READ COMMITTED: a post may change  *)
(* between the reading of its row and that of its attachments.             *)
(***************************************************************************)
EXTENDS Integers, FiniteSets

CONSTANTS
  Readers,    \* requests for suggestions
  Posts,      \* 1..n, in the order of their ids
  Imported,   \* those that came with the history of the channel
  MaxEdits, MaxDeliveries

VARIABLES
  article,    \* the posts of the channel
  revisions,  \* post_revisions: the payloads that were kept
  index,      \* published_content_index: a text of a post, and its proof
  ready,      \* published_content_index_state.complete
  reader,     \* the requests
  delivered,  \* ghost: the texts that reached the channel
  unproven,   \* ghost: posts whose delivered text nothing proved when the old rows were read
  edits, deliveries

\* What the proofs assume: ids are positive, and the old rows are read from the first.
IndexOK == Posts \subseteq Nat \ {0}

published == <<article, revisions, index, ready, reader, delivered, unproven, edits, deliveries>>

Texts == 1..2
Payload == Texts \X Texts          \* a text and its attachments
Unknown == <<0, 0>>
NoRow == [text |-> 0, finger |-> Unknown]
Idle == [pc |-> "idle", cursor |-> 0, row |-> NoRow, pending |-> {}]

\* Rows from before the index: drafts; published with or without a known fingerprint, perhaps edited
\* since, and a revision kept or not.
Old(p) ==
  {a \in [text : Texts, media : {1}, finger : {Unknown, <<1, 1>>}, status : {"draft", "published"}, live : BOOLEAN] :
     /\ a.live <=> a.status = "published"
     /\ ~a.live => p \notin Imported /\ a.finger = Unknown /\ a.text = 1}
Init ==
  /\ article \in [Posts -> UNION {Old(p) : p \in Posts}] /\ \A p \in Posts : article[p] \in Old(p)
  /\ revisions \in [Posts -> {{}, {<<1, 1>>}}] /\ \A p \in Imported : revisions[p] # {}
  /\ index = {} /\ ready = FALSE /\ reader = [r \in Readers |-> Idle]
  /\ delivered = {<<p, 1>> : p \in {q \in Posts : article[q].live}}
  /\ unproven = {} /\ edits = 0 /\ deliveries = 0

At(r, pc) == reader[r].pc = pc
Go(r, s) == reader' = [reader EXCEPT ![r] = s]
\* The fingerprint covers the attachments, the index only the text.
PublicationFingerprint(text, media) == <<text, media>>
Proven(row, media) == row.finger # Unknown /\ row.finger = PublicationFingerprint(row.text, media)
\* A proof by a delivery is not replaced by one of an import.
RecordPublishedContent(some, p, text, proof) ==
  IF [post |-> p, text |-> text, proof |-> "confirmed"] \in some THEN some
  ELSE (some \ {[post |-> p, text |-> text, proof |-> "imported"]}) \cup {[post |-> p, text |-> text, proof |-> proof]}
----------------------------------------------------------------------------
(* Posts *)

EditPost(p) ==
  /\ article[p].status # "publishing" /\ edits < MaxEdits /\ edits' = edits + 1
  /\ \E t \in Texts, m \in Texts :
       /\ <<t, m>> # <<article[p].text, article[p].media>>
       /\ article' = [article EXCEPT ![p].text = t, ![p].media = m]
  /\ UNCHANGED <<revisions, index, ready, reader, delivered, unproven, deliveries>>
CreatePostRevision(p) ==
  /\ revisions' = [revisions EXCEPT ![p] = @ \cup {<<article[p].text, article[p].media>>}]
  /\ revisions' # revisions
  /\ UNCHANGED <<article, index, ready, reader, delivered, unproven, edits, deliveries>>
\* A first publication, or an update of a published post, is claimed and sent.
ClaimForPublishing(p) ==
  /\ article[p].status # "publishing" /\ deliveries < MaxDeliveries /\ deliveries' = deliveries + 1
  /\ article' = [article EXCEPT ![p].status = "publishing"]
  /\ UNCHANGED <<revisions, index, ready, reader, delivered, unproven, edits>>
Delivered(p) == delivered' = delivered \cup {<<p, article[p].text>>}
\* The delivery is recorded with its fingerprint and in the index.
MarkPublished(p) ==
  /\ article[p].status = "publishing" /\ Delivered(p)
  /\ article' = [article EXCEPT ![p].status = "published", ![p].live = TRUE,
                                ![p].finger = PublicationFingerprint(article[p].text, article[p].media)]
  /\ index' = RecordPublishedContent(index, p, article[p].text, "confirmed")
  /\ UNCHANGED <<revisions, ready, reader, unproven, edits, deliveries>>
\* It failed, or was recovered: the text may have arrived all the same.
PublishingEnds(p) ==
  /\ article[p].status = "publishing" /\ (Delivered(p) \/ UNCHANGED delivered)
  /\ article' = [article EXCEPT ![p].status = IF article[p].live THEN "published" ELSE "draft"]
  /\ UNCHANGED <<revisions, index, ready, reader, unproven, edits, deliveries>>
\* A later import finds the message with the text it has in MAX.
RecordImportedPublishedContent(p) ==
  /\ p \in Imported /\ article[p].live
  /\ \E d \in delivered :
       /\ d[1] = p /\ index' = RecordPublishedContent(index, p, d[2], "imported")
  /\ index' # index
  /\ UNCHANGED <<article, revisions, ready, reader, delivered, unproven, edits, deliveries>>
----------------------------------------------------------------------------
(* The request that comes first *)

Locked == \E r \in Readers : reader[r].pc \in {"page", "row"}
EnsurePublishedContentIndex(r) ==
  /\ At(r, "idle") /\ ~Locked
  /\ Go(r, [Idle EXCEPT !.pc = IF ready THEN "find" ELSE "page"])
  /\ UNCHANGED <<article, revisions, index, ready, delivered, unproven, edits, deliveries>>

Historical(p) == article[p].status = "published" \/ article[p].live
Beyond(cursor) == {p \in Posts : p > cursor /\ Historical(p)}
\* A page holds one post here.
ReadPublishedIndexBackfillPage(r) ==
  /\ At(r, "page") /\ Beyond(reader[r].cursor) # {}
  /\ LET p == CHOOSE q \in Beyond(reader[r].cursor) : \A o \in Beyond(reader[r].cursor) : q <= o IN
     Go(r, [reader[r] EXCEPT !.pc = "row", !.cursor = p,
                             !.row = [text |-> article[p].text, finger |-> article[p].finger]])
  /\ UNCHANGED <<article, revisions, index, ready, delivered, unproven, edits, deliveries>>
\* A revision with the delivered fingerprint; or, of an imported post, the first one.
BackfillPublishedRevision(p, finger) ==
  IF finger # Unknown /\ finger \in revisions[p] THEN {<<finger[1], "confirmed">>}
  ELSE IF p \in Imported THEN {<<1, "imported">>} ELSE {}
\* What a row and the attachments read after it prove.
Provable(p, row, media) ==
  IF Proven(row, media) THEN {<<row.text, "confirmed">>} ELSE BackfillPublishedRevision(p, row.finger)
Edited(p, row) ==
  \/ row.finger # PublicationFingerprint(row.text, article[p].media)
  \/ article[p].finger # PublicationFingerprint(article[p].text, article[p].media)
BackfillPost(r) ==
  LET p == reader[r].cursor  row == reader[r].row  found == Provable(p, row, article[p].media) IN
  /\ At(r, "row")
  /\ Go(r, [reader[r] EXCEPT !.pc = "page", !.row = NoRow,
              !.pending = IF found = {} THEN @
                          ELSE LET f == CHOOSE x \in found : TRUE IN RecordPublishedContent(@, p, f[1], f[2])])
  /\ unproven' = IF Edited(p, row) /\ row.finger \notin revisions[p] THEN unproven \cup {p} ELSE unproven
  /\ UNCHANGED <<article, revisions, index, ready, delivered, edits, deliveries>>
CompleteBackfill(r) ==
  /\ At(r, "page") /\ Beyond(reader[r].cursor) = {}
  /\ ready' = TRUE /\ Go(r, [Idle EXCEPT !.pc = "find"])
  /\ index' = index \cup {e \in reader[r].pending :
                            [e EXCEPT !.proof = "confirmed"] \notin index}
  /\ UNCHANGED <<article, revisions, delivered, unproven, edits, deliveries>>
\* Only now are candidates compared with what was published.
FindPublishedDiscoveryReferences(r) ==
  /\ At(r, "find") /\ Go(r, Idle)
  /\ UNCHANGED <<article, revisions, index, ready, delivered, unproven, edits, deliveries>>
\* The transaction is rolled back with all it added.
RequestFails(r) ==
  /\ ~At(r, "idle") /\ Go(r, Idle)
  /\ UNCHANGED <<article, revisions, index, ready, delivered, unproven, edits, deliveries>>

Next ==
  \/ \E p \in Posts :
       \/ EditPost(p) \/ CreatePostRevision(p) \/ ClaimForPublishing(p) \/ MarkPublished(p)
       \/ PublishingEnds(p) \/ RecordImportedPublishedContent(p)
  \/ \E r \in Readers :
       \/ EnsurePublishedContentIndex(r) \/ ReadPublishedIndexBackfillPage(r) \/ BackfillPost(r)
       \/ CompleteBackfill(r) \/ FindPublishedDiscoveryReferences(r) \/ RequestFails(r)
----------------------------------------------------------------------------
\* Nothing is held against a new idea that never reached the channel.
OnlyDelivered == \A e \in index : <<e.post, e.text>> \in delivered

\* Once the index is called complete, it has every post with the text of its fingerprint, except posts
\* edited since with no revision of that text when the old rows were read.
IndexComplete ==
  /\ \A r \in Readers : At(r, "find") => ready
  /\ ready => \A p \in Posts :
       article[p].live /\ article[p].finger # Unknown /\ p \notin unproven =>
         \E e \in index : e.post = p /\ e.text = article[p].finger[1]
================================================================================
