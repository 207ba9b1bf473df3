------------------------------- MODULE WriteOnce -------------------------------
(***************************************************************************)
(* What a member is promised who asks for a write to a service that        *)
(* answers late, twice or never: the request is written once, never while  *)
(* a rival may still be on its way, and its verdict is true for ever.      *)
(* Comments and DirectControls implement this.                             *)
(***************************************************************************)
EXTENDS Integers, FiniteSets

CONSTANTS
  Keys,         \* requests
  Rivals,       \* pairs of requests that may not be on their way together
  Idempotent    \* requests that somebody else may fulfil

VARIABLES
  sends,     \* how often a request was written
  flying,    \* writes that the service may still carry out
  carried,   \* writes it carried out
  moot,      \* requests somebody else fulfilled
  verdict    \* what the member is told

promise == <<sends, flying, carried, moot, verdict>>

Verdicts == {"open", "succeeded", "rejected"}
PromiseTypeOK ==
  /\ sends \in [Keys -> Nat]
  /\ flying \subseteq Keys /\ carried \subseteq Keys
  /\ moot \subseteq Idempotent
  /\ verdict \in [Keys -> Verdicts]

Init ==
  /\ sends = [k \in Keys |-> 0]
  /\ flying = {} /\ carried = {} /\ moot = {}
  /\ verdict = [k \in Keys |-> "open"]

Write(k) ==
  /\ sends[k] = 0 /\ verdict[k] = "open"
  /\ \A j \in flying : {<<j, k>>, <<k, j>>} \cap Rivals = {}
  /\ sends' = [sends EXCEPT ![k] = 1]
  /\ flying' \in {flying, flying \cup {k}}
  /\ UNCHANGED <<carried, moot, verdict>>
\* The service moves on: writes are lost, or can no longer be carried out, and
\* others do what was asked for.
Elsewhere ==
  /\ flying' \subseteq flying
  /\ moot \subseteq moot' /\ moot' \subseteq Idempotent
CarryOut(k) ==
  /\ k \in flying
  /\ carried' = carried \cup {k}
  /\ k \notin flying' /\ Elsewhere
  /\ UNCHANGED <<sends, verdict>>
Drop == Elsewhere /\ UNCHANGED <<sends, carried, verdict>>
True(k, v) ==
  CASE v = "succeeded" -> k \in carried \cup moot
    [] v = "rejected"  -> k \notin carried \cup flying
    [] OTHER           -> FALSE
Tell ==
  /\ verdict' \in [Keys -> Verdicts]
  /\ \A k \in Keys : verdict'[k] # verdict[k] => verdict[k] = "open" /\ True(k, verdict'[k])
  /\ UNCHANGED <<sends, flying, carried, moot>>

Next == (\E k \in Keys : Write(k) \/ CarryOut(k)) \/ Drop \/ Tell
Spec == Init /\ [][Next]_promise
----------------------------------------------------------------------------
\* Two rivals are never on their way together.
Serial == \A j, k \in flying : j # k => <<j, k>> \notin Rivals
\* A request is written once; what is called succeeded was done, what is called
\* rejected was not and will not be.
Truthful ==
  \A k \in Keys :
    /\ sends[k] <= 1
    /\ verdict[k] = "succeeded" => k \in carried \cup moot
    /\ verdict[k] = "rejected" => k \notin carried \cup flying
================================================================================
