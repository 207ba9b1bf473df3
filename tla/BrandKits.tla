------------------------------- MODULE BrandKits -------------------------------
(***************************************************************************)
(* Brand kit and channel templates of a workspace (store/brand_kits):      *)
(* edits carry the version their editor saw, one template at most is the   *)
(* default and whoever takes that over clears it first. The transactions   *)
(* run at READ COMMITTED: a statement waits for rows and index entries of  *)
(* others and goes on with what they committed.                            *)
(*                                                                         *)
(* template  the rows as committed; version 0: not yet there, -1: deleted  *)
(* save      the transactions: what they ask, where they are, the rows     *)
(*           their first statement found, and what they wrote so far       *)
(***************************************************************************)
EXTENDS Integers, FiniteSets
CONSTANTS Editors, Templates, MaxVersion

VARIABLES template, save
brands == <<template, save>>

Absent == [version |-> 0, default |-> FALSE]
Deleted == [version |-> -1, default |-> FALSE]
Idle == [at |-> "idle", kind |-> "", id |-> 0, default |-> FALSE, expect |-> 0, found |-> {}, wrote |-> {}]
\* A workspace has its kit from the start: the row that never is a default.
Kit == 0
Rows == Templates \cup {Kit}
\* What the proofs assume: the kit is none of the templates.
BrandsOK == Kit \notin Templates

Init ==
  /\ template = [t \in Rows |-> IF t = Kit THEN [version |-> 1, default |-> FALSE] ELSE Absent]
  /\ save = [e \in Editors |-> Idle]

Moves(e, at) == save' = [save EXCEPT ![e].at = at]
Locked(e, t) == \E f \in Editors \ {e} : t \in save[f].wrote
Clearing(e) == save[e].default /\ save[e].kind # "delete"
Begin(e, kind, t, default) ==
  /\ save[e].at = "idle"
  /\ save' = [save EXCEPT ![e] = [Idle EXCEPT !.kind = kind, !.id = t, !.default = default,
       !.expect = template[t].version, !.at = IF default /\ kind # "delete" THEN "find" ELSE "write"]]
  /\ UNCHANGED template

\* What an editor asks, from the version on the screen (it may be old by the time it is sent).
UpdateWorkspaceBrandKit(e) == Begin(e, "update", Kit, FALSE)
CreateChannelTemplate(e) == \E t \in Templates, d \in BOOLEAN : template[t].version = 0 /\ Begin(e, "create", t, d)
UpdateChannelTemplate(e) == \E t \in Templates, d \in BOOLEAN : template[t].version > 0 /\ Begin(e, "update", t, d)
DeleteChannelTemplate(e) == \E t \in Templates : template[t].version > 0 /\ Begin(e, "delete", t, FALSE)

\* clearChannelTemplateDefaults: the rows the statement finds, and what it makes of them once
\* nobody else holds them.
FindDefaults(e) ==
  /\ save[e].at = "find"
  /\ save' = [save EXCEPT ![e].at = "clear", ![e].found = {t \in Templates : template[t].default /\ t # save[e].id}]
  /\ UNCHANGED template
ClearChannelTemplateDefaults(e) ==
  /\ save[e].at = "clear"
  /\ \A t \in save[e].found : ~Locked(e, t)
  /\ save' = [save EXCEPT ![e].at = "write", ![e].wrote = {t \in save[e].found : template[t].default}]
  /\ UNCHANGED template

Current(e) == template[save[e].id].version = save[e].expect
\* The unique index: another default refuses the row, an uncommitted one is waited for.
Taken(e) == \E t \in Templates \ {save[e].id} : template[t].default /\ t \notin save[e].wrote
Contended(e) == \E f \in Editors \ {e} :
  save[f].at = "commit" /\ save[f].kind # "delete" /\ save[f].default /\ save[f].id # save[e].id
WriteTemplate(e) ==
  /\ save[e].at = "write" /\ ~Locked(e, save[e].id)
  /\ Clearing(e) => ~Contended(e)
  /\ save' = IF Current(e) /\ ~(Clearing(e) /\ Taken(e))
               THEN [save EXCEPT ![e].at = "commit", ![e].wrote = @ \cup {save[e].id}]
               ELSE [save EXCEPT ![e] = Idle]
  /\ UNCHANGED template

Written(e, t) ==
  IF t # save[e].id THEN [version |-> template[t].version + 1, default |-> FALSE]
  ELSE IF save[e].kind = "delete" THEN Deleted
  ELSE [version |-> template[t].version + 1, default |-> save[e].default]
Commit(e) ==
  /\ save[e].at = "commit"
  /\ \A t \in save[e].wrote : template[t].version < MaxVersion
  /\ template' = [t \in Rows |-> IF t \in save[e].wrote THEN Written(e, t) ELSE template[t]]
  /\ save' = [save EXCEPT ![e] = Idle]
Rollback(e) == save[e].at # "idle" /\ save' = [save EXCEPT ![e] = Idle] /\ UNCHANGED template

Next == \E e \in Editors :
  \/ UpdateWorkspaceBrandKit(e) \/ CreateChannelTemplate(e) \/ UpdateChannelTemplate(e)
  \/ DeleteChannelTemplate(e) \/ FindDefaults(e) \/ ClearChannelTemplateDefaults(e)
  \/ WriteTemplate(e) \/ Commit(e) \/ Rollback(e)

(***************************************************************************)
(* However edits of two people interleave:                                 *)
(***************************************************************************)

\* There is one default at most, and nobody waits for somebody who waits.
OneDefault ==
  /\ Cardinality({t \in Templates : template[t].default}) <= 1
  /\ \A e, f \in Editors : e # f =>
       ~ /\ save[e].at = "clear" /\ \E t \in save[e].found : t \in save[f].wrote
         /\ save[f].at \in {"clear", "write"}
         /\ \E t \in save[f].found \cup {save[f].id} : t \in save[e].wrote

\* A row is overwritten only from the version its editor saw, and a default is given up only by an
\* edit or deletion of that very template or for another default (ExpectedVersion).
NothingOverwritten == \A e \in Editors :
  save[e].at = "commit" /\ save'[e].at = "idle" /\ template' # template =>
    /\ template[save[e].id].version = save[e].expect
    /\ \A t \in Templates : template[t].default /\ ~template'[t].default /\ t # save[e].id =>
         save[e].kind # "delete" /\ template'[save[e].id].default
================================================================================
