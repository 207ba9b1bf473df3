---------------------------- MODULE WriteOnceProofs ----------------------------
(***************************************************************************)
(* What WriteOnce promises, for any requests, rivals and idempotence: each *)
(* module that implements it inherits these theorems.                      *)
(***************************************************************************)
EXTENDS WriteOnce, TLAPS

\* Two writes may only be under way together because they were when the second
\* one began; and a verdict that was given stays true.
Kept == PromiseTypeOK /\ Serial /\ Truthful

\* Nothing has been asked for at first.
LEMMA InitKept == Init => Kept
BY DEF Init, Kept, PromiseTypeOK, Serial, Truthful, Verdicts

\* A write begins when none of its rivals is under way, and only once.
LEMMA WriteKept == ASSUME Kept, NEW k \in Keys, Write(k) PROVE Kept'
<1>1. PromiseTypeOK'
  BY DEF Kept, PromiseTypeOK, Write
<1>2. Serial'
  <2> SUFFICES ASSUME NEW i \in flying', NEW j \in flying', i # j PROVE <<i, j>> \notin Rivals
    BY DEF Serial, Write
  <2>1. CASE i \in flying /\ j \in flying
    BY <2>1 DEF Kept, Serial
  <2>2. CASE i = k /\ j \in flying
    BY <2>2 DEF Write
  <2>3. CASE j = k /\ i \in flying
    BY <2>3 DEF Write
  <2> QED
    BY <2>1, <2>2, <2>3 DEF Write
<1>3. Truthful'
  BY DEF Kept, PromiseTypeOK, Truthful, Write
<1> QED
  BY <1>1, <1>2, <1>3 DEF Kept

\* The service carries out writes under way, which no rejected one is.
LEMMA CarryOutKept == ASSUME Kept, NEW k \in Keys, CarryOut(k) PROVE Kept'
<1>1. PromiseTypeOK'
  BY DEF Kept, PromiseTypeOK, CarryOut, Elsewhere
<1>2. Serial'
  BY DEF Kept, Serial, CarryOut, Elsewhere
<1>3. Truthful'
  BY DEF Kept, Truthful, CarryOut, Elsewhere
<1> QED
  BY <1>1, <1>2, <1>3 DEF Kept

\* Writes only cease to be under way.
LEMMA DropKept == ASSUME Kept, Drop PROVE Kept'
BY DEF Kept, PromiseTypeOK, Serial, Truthful, Drop, Elsewhere

\* Only an open request is given a verdict, and a true one.
LEMMA TellKept == ASSUME Kept, Tell PROVE Kept'
<1>1. PromiseTypeOK' /\ Serial'
  BY DEF Kept, PromiseTypeOK, Serial, Tell
<1>2. ASSUME NEW j \in Keys
      PROVE /\ sends'[j] <= 1
            /\ verdict'[j] = "succeeded" => j \in carried' \cup moot'
            /\ verdict'[j] = "rejected" => j \notin carried' \cup flying'
  <2>1. CASE verdict'[j] = verdict[j]
    BY <2>1 DEF Kept, Truthful, Tell
  <2>2. CASE verdict'[j] # verdict[j]
    <3>1. True(j, verdict'[j])
      BY <2>2 DEF Tell
    <3> QED
      BY <3>1 DEF True, Kept, Truthful, Tell
  <2> QED
    BY <2>1, <2>2
<1> QED
  BY <1>1, <1>2 DEF Kept, Truthful

\* Every step of a request's life keeps the promise.
THEOREM PromiseKept == Spec => []Kept
<1>1. Kept /\ [Next]_promise => Kept'
  <2> SUFFICES ASSUME Kept, [Next]_promise PROVE Kept'
    OBVIOUS
  <2>1. ASSUME NEW k \in Keys, Write(k) PROVE Kept'
    BY <2>1, WriteKept
  <2>2. ASSUME NEW k \in Keys, CarryOut(k) PROVE Kept'
    BY <2>2, CarryOutKept
  <2>3. CASE Drop
    BY <2>3, DropKept
  <2>4. CASE Tell
    BY <2>4, TellKept
  <2>5. CASE UNCHANGED promise
    BY <2>5 DEF promise, Kept, PromiseTypeOK, Serial, Truthful
  <2> QED
    BY <2>1, <2>2, <2>3, <2>4, <2>5 DEF Next
<1> QED
  BY InitKept, <1>1, PTL DEF Spec

\* Rivals are never under way together: replies of one thread, an edit and a
\* deletion of one comment, two edits of one campaign.
THEOREM WritesSerial == Spec => []Serial
<1>1. Kept => Serial
  BY DEF Kept
<1> QED
  BY PromiseKept, <1>1, PTL

\* A request is written at most once and its verdict is true, however late the
\* service answers.
THEOREM VerdictsTrue == Spec => []Truthful
<1>1. Kept => Truthful
  BY DEF Kept
<1> QED
  BY PromiseKept, <1>1, PTL

\* A verdict, once given, is never changed.
THEOREM VerdictsStand == Spec => [][\A k \in Keys : verdict[k] # "open" => verdict'[k] = verdict[k]]_promise
<1> DEFINE Stand == \A k \in Keys : verdict[k] # "open" => verdict'[k] = verdict[k]
<1>1. [Next]_promise => [Stand]_promise
  <2> SUFFICES ASSUME Next PROVE Stand
    BY DEF promise
  <2> QED
    BY DEF Next, Write, CarryOut, Drop, Tell
<1> QED
  BY <1>1, PTL DEF Spec
================================================================================
