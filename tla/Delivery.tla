------------------------------ MODULE Delivery ------------------------------
(***************************************************************************)
(* What the transactional outbox promises its callers, without workers,    *)
(* transactions, clocks or locks: a submitted message waits, is taken by   *)
(* at most one party at a time, is tried at most `limit' times, and leaves *)
(* for good through "done" or "dead".  Outbox.tla implements this.         *)
(***************************************************************************)
EXTENDS Naturals, TLAPS

CONSTANT Messages

VARIABLES
    phase,      \* where each message stands, as its sender could be told
    tries,      \* how many times each message has been taken
    limit       \* the most times it may be taken; fixed by its sender

vars == <<phase, tries, limit>>

Phases  == {"absent", "waiting", "held", "done", "dead"}
Settled == {"done", "dead"}

TypeOK ==
    /\ phase \in [Messages -> Phases]
    /\ tries \in [Messages -> Nat]
    /\ limit \in [Messages -> Nat \ {0}]

Init ==
    /\ phase = [m \in Messages |-> "absent"]
    /\ tries = [m \in Messages |-> 0]
    /\ limit \in [Messages -> Nat \ {0}]

Submit(m) ==
    /\ phase[m] = "absent"
    /\ phase' = [phase EXCEPT ![m] = "waiting"]
    /\ UNCHANGED <<tries, limit>>

(* One worker takes a whole batch at once. *)
Take(S) ==
    /\ S # {}
    /\ \A m \in S : phase[m] = "waiting" /\ tries[m] < limit[m]
    /\ phase' = [m \in Messages |-> IF m \in S THEN "held" ELSE phase[m]]
    /\ tries' = [m \in Messages |-> IF m \in S THEN tries[m] + 1 ELSE tries[m]]
    /\ UNCHANGED limit

Retry(m) ==
    /\ phase[m] = "held"
    /\ tries[m] < limit[m]
    /\ phase' = [phase EXCEPT ![m] = "waiting"]
    /\ UNCHANGED <<tries, limit>>

Settle(m) ==
    /\ phase[m] = "held"
    /\ \E outcome \in Settled : phase' = [phase EXCEPT ![m] = outcome]
    /\ UNCHANGED <<tries, limit>>

Next ==
    \/ \E m \in Messages : Submit(m) \/ Retry(m) \/ Settle(m)
    \/ \E S \in SUBSET Messages : Take(S)

Spec == Init /\ [][Next]_vars

(* Somebody keeps taking each waiting message and keeps finishing each one *)
(* that is held.  This is the at-least-once half of the promise: the       *)
(* models check it wherever no worker dies in the middle of a batch.       *)
Fairness ==
    \A m \in Messages :
        /\ WF_vars(\E S \in SUBSET Messages : m \in S /\ Take(S))
        /\ WF_vars(Retry(m) \/ Settle(m))

FairSpec == Spec /\ Fairness
-----------------------------------------------------------------------------
(* A message is never tried more often than its sender allowed, and one    *)
(* that still waits has a try left (mark_failed's `attempts >= max').      *)
TriesBounded ==
    \A m \in Messages :
        /\ tries[m] <= limit[m]
        /\ phase[m] = "waiting" => tries[m] < limit[m]

(* Once a message is done or dead, no step revives it or tries it again.   *)
SettledForGood ==
    [][\A m \in Messages :
          phase[m] \in Settled =>
             phase'[m] = phase[m] /\ tries'[m] = tries[m]]_vars
-----------------------------------------------------------------------------
(* A step as one message sees it: it stays as it is, or goes along an arc  *)
(* of its life, and only being taken counts as a try.                      *)
Stays(m) == phase'[m] = phase[m] /\ tries'[m] = tries[m]

Leaves(m, from, to) ==
    phase[m] = from /\ phase'[m] \in to /\ tries'[m] = tries[m]

IsTaken(m) ==
    /\ phase[m] = "waiting" /\ phase'[m] = "held"
    /\ tries[m] < limit[m] /\ tries'[m] = tries[m] + 1

LivesOn(m) ==
    \/ Stays(m)
    \/ Leaves(m, "absent", {"waiting"})
    \/ IsTaken(m)
    \/ Leaves(m, "held", {"waiting"}) /\ tries[m] < limit[m]
    \/ Leaves(m, "held", Settled)

LEMMA StepKeepsTables ==
  ASSUME TypeOK, [Next]_vars
  PROVE  TypeOK' /\ limit' = limit
<1>1. CASE \E m \in Messages : Submit(m) \/ Retry(m) \/ Settle(m)
  BY <1>1 DEF TypeOK, Phases, Settled, Submit, Retry, Settle
<1>2. CASE \E S \in SUBSET Messages : Take(S)
  BY <1>2 DEF TypeOK, Phases, Take
<1>3. CASE vars' = vars
  BY <1>3 DEF TypeOK, vars
<1>4. QED
  BY <1>1, <1>2, <1>3 DEF Next

LEMMA StepOfOneMessage ==
  ASSUME TypeOK, [Next]_vars, NEW m \in Messages
  PROVE  LivesOn(m)
<1> USE DEF TypeOK, LivesOn, Stays, Leaves
<1>1. ASSUME NEW n \in Messages, Submit(n) \/ Retry(n) \/ Settle(n)
      PROVE  LivesOn(m)
  <2>1. CASE m # n
    BY <1>1, <2>1 DEF Submit, Retry, Settle
  <2>2. CASE m = n
    BY <1>1, <2>2 DEF Submit, Retry, Settle
  <2>3. QED
    BY <2>1, <2>2
<1>2. ASSUME NEW S \in SUBSET Messages, Take(S)
      PROVE  LivesOn(m)
  <2>1. m \in S => IsTaken(m)
    BY <1>2 DEF Take, IsTaken
  <2>2. m \notin S => Stays(m)
    BY <1>2 DEF Take
  <2>3. QED
    BY <2>1, <2>2
<1>3. vars' = vars => Stays(m)
  BY DEF vars
<1>4. QED
  BY <1>1, <1>2, <1>3 DEF Next

LEMMA ContractTyped == Spec => []TypeOK
<1>1. Init => TypeOK
  BY DEF Init, TypeOK, Phases
<1>2. QED
  BY <1>1, StepKeepsTables, PTL DEF Spec

(* The strengthening TriesBounded needs: a message not yet submitted has   *)
(* all its tries before it, too.                                           *)
TriesLeft ==
    \A m \in Messages :
        /\ tries[m] <= limit[m]
        /\ phase[m] \in {"absent", "waiting"} => tries[m] < limit[m]

(* TriesBounded holds of every behaviour: being taken is the only arc that *)
(* counts a try, it starts from a message that has one left, and the arcs  *)
(* back to waiting are for those that still do.                            *)
THEOREM ContractBoundsTries == Spec => []TriesBounded
<1>1. ASSUME TypeOK, TriesLeft, [Next]_vars, NEW m \in Messages
      PROVE  /\ tries'[m] <= limit'[m]
             /\ phase'[m] \in {"absent", "waiting"} => tries'[m] < limit'[m]
  <2>1. LivesOn(m) /\ limit' = limit /\ tries[m] \in Nat /\ limit[m] \in Nat
    BY <1>1, StepOfOneMessage, StepKeepsTables DEF TypeOK
  <2>2. QED
    BY <1>1, <2>1 DEF TriesLeft, LivesOn, Stays, Leaves, IsTaken, Settled
<1>2. TypeOK /\ TriesLeft /\ [Next]_vars => TriesLeft'
  BY <1>1 DEF TriesLeft
<1>3. Init => TriesLeft
  BY DEF Init, TriesLeft
<1>4. TriesLeft => TriesBounded
  BY DEF TriesLeft, TriesBounded
<1>5. QED
  BY <1>2, <1>3, <1>4, ContractTyped, PTL DEF Spec

(* No step of the contract touches a message that is done or dead: no arc  *)
(* leaves those phases.                                                    *)
THEOREM ContractSettles == Spec => SettledForGood
<1>1. ASSUME NEW m \in Messages, LivesOn(m), phase[m] \in Settled
      PROVE  Stays(m)
  BY <1>1 DEF LivesOn, Leaves, IsTaken, Settled
<1>2. TypeOK /\ [Next]_vars =>
         [\A m \in Messages :
            phase[m] \in Settled =>
               phase'[m] = phase[m] /\ tries'[m] = tries[m]]_vars
  BY <1>1, StepOfOneMessage DEF Stays
<1>3. QED
  BY <1>2, ContractTyped, PTL DEF Spec, SettledForGood
=============================================================================
