----------------------- MODULE DocumentSequenceProofs -----------------------
(***************************************************************************)
(* Proofs about DocumentSequence, for any transactions, sequences, periods *)
(* and instants: while no number is drawn in a period before the last one  *)
(* a number was drawn in, which a change of the time zone can bring about. *)
(***************************************************************************)
EXTENDS DocumentSequence, FiniteSetTheorems, TLAPS

Live(t) == pc[t] \notin {"idle"} \cup Ended

(* A transaction holds locks only while it runs, has locked what it is     *)
(* allocating from, and keeps the lock of whatever it has drawn from.      *)
LockInv ==
    \A t \in Txns :
        /\ ~Live(t) => companyLock # t /\ \A s \in Sequences : seqLock[s] # t
        /\ pc[t] \in {"sequence", "company", "drawing"} => want[t] \in Sequences
        /\ pc[t] \in {"company", "drawing"} => seqLock[want[t]] = t
        /\ pc[t] \in {"idle", "aborted"} => drawn[t] = {}
        /\ Live(t) => \A r \in drawn[t] : seqLock[r[1]] = t

(* Reference r was drawn before the row was x. *)
Precedes(r, x) == r[2] < x.period \/ (r[2] = x.period /\ r[3] < x.next)

(* A row only moves forward, and what is issued lies behind the committed  *)
(* row; what a running transaction has drawn lies between the two.         *)
RowInv ==
    /\ \A s \in Sequences :
          /\ seqLock[s] = None => row[s] = saved[s]
          /\ \/ saved[s].period < row[s].period
             \/ saved[s].period = row[s].period /\ saved[s].next <= row[s].next
    /\ \A r \in Issued : Precedes(r, saved[r[1]])
    /\ \A t \in Txns : Live(t) =>
          \A r \in drawn[t] : Precedes(r, row[r[1]]) /\ ~Precedes(r, saved[r[1]])

(* The predecessor of a number is issued, or drawn by the same transaction.*)
HasPredecessor(r, S) == r[3] > 1 => <<r[1], r[2], r[3] - 1>> \in S

GapInv ==
    /\ \A r \in Issued : HasPredecessor(r, Issued)
    /\ \A s \in Sequences :
          HasPredecessor(<<s, saved[s].period, saved[s].next>>, Issued)
    /\ \A t \in Txns : Live(t) =>
          /\ \A r \in drawn[t] : HasPredecessor(r, Issued \cup drawn[t])
          /\ \A s \in Sequences : seqLock[s] = t =>
                HasPredecessor(<<s, row[s].period, row[s].next>>,
                               Issued \cup drawn[t])

FiniteInv == \A t \in Txns : IsFiniteSet(drawn[t])

IInv == TypeOK /\ LockInv /\ RowInv /\ GapInv /\ FiniteInv /\ NumbersUnique
-----------------------------------------------------------------------------
LEMMA TokenType == \A s \in Sequences : Token(s) \in Nat
<1> SUFFICES ASSUME NEW s \in Sequences PROVE Token(s) \in Nat
  OBVIOUS
<1>1. IsFiniteSet({p \in Starts[s] : p <= now + zone})
  BY StartsType, FS_Subset
<1>2. QED
  BY <1>1, FS_CardinalityType DEF Token

(* While the clock and the zone stand still, so does the period. *)
LEMMA TokenKept ==
  ASSUME now' = now, zone' = zone
  PROVE  \A s \in Sequences : Token(s)' = Token(s)
  BY DEF Token

(* A period that has begun is over only when the clock is put back. *)
LEMMA TokenGrows ==
  ASSUME now \in Nat, now' \in Nat, zone \in Nat, zone' \in Nat,
         now + zone <= now' + zone'
  PROVE  \A s \in Sequences : Token(s) <= Token(s)'
<1> SUFFICES ASSUME NEW s \in Sequences PROVE Token(s) <= Token(s)'
  OBVIOUS
<1> DEFINE Before == {p \in Starts[s] : p <= now + zone}
           After  == {p \in Starts[s] : p <= now' + zone'}
<1>1. Before \subseteq After
  <2> SUFFICES ASSUME NEW p \in Starts[s], p <= now + zone PROVE p <= now' + zone'
    OBVIOUS
  <2>1. p \in Nat
    BY StartsType
  <2>2. now + zone \in Nat /\ now' + zone' \in Nat
    <3>1. \A a, b \in Nat : a + b \in Nat
      OBVIOUS
    <3>2. QED
      BY <3>1, Zenon
  <2>3. \A a, b, c \in Nat : a <= b /\ b <= c => a <= c
    OBVIOUS
  <2>4. QED
    BY <2>1, <2>2, <2>3, Zenon
<1>2. IsFiniteSet(After)
  BY StartsType, FS_Subset
<1>3. Cardinality(Before) <= Cardinality(After)
  BY <1>1, <1>2, FS_Subset
<1>4. QED
  BY <1>3 DEF Token

LEMMA ReferenceParts ==
  ASSUME NEW r \in Reference
  PROVE  /\ r[1] \in Sequences /\ r[2] \in Nat /\ r[3] \in Nat \ {0}
         /\ r = <<r[1], r[2], r[3]>>
  BY DEF Reference

LEMMA IssuedBy ==
  \A r : r \in Issued <=> \E t \in Txns : pc[t] = "committed" /\ r \in drawn[t]
  BY DEF Issued

(* Only a commit issues references. *)
LEMMA IssuedKept ==
  ASSUME NEW t \in Txns, pc[t] # "committed", pc'[t] # "committed",
         \A u \in Txns \ {t} : pc'[u] = pc[u] /\ drawn'[u] = drawn[u]
  PROVE  Issued' = Issued
  BY DEF Issued

LEMMA IssuedByCommit ==
  ASSUME TypeOK, NEW t \in Txns, Commit(t)
  PROVE  Issued' = Issued \cup drawn[t]
<1>1. \A u \in Txns : pc'[u] = "committed" <=> pc[u] = "committed" \/ u = t
  BY DEF TypeOK, Commit
<1>2. drawn' = drawn
  BY DEF Commit
<1>3. QED
  BY <1>1, <1>2 DEF Issued
-----------------------------------------------------------------------------
(***************************************************************************)
(* The types and the locks, which depend on no clock.                      *)
(***************************************************************************)
LEMMA BeginBase ==
  ASSUME TypeOK, LockInv, NEW t \in Txns, Begin(t)
  PROVE  TypeOK' /\ LockInv'
<1>1. TypeOK'
  BY DEF TypeOK, Begin, Pcs, locks, clock
<1>2. LockInv'
  BY DEF TypeOK, LockInv, Live, Ended, Begin, locks
<1>3. QED
  BY <1>1, <1>2

LEMMA AllocateBase ==
  ASSUME TypeOK, LockInv, NEW t \in Txns, NEW s \in Sequences, Allocate(t, s)
  PROVE  TypeOK' /\ LockInv'
<1>1. TypeOK'
  BY DEF TypeOK, Allocate, Pcs, locks, clock
<1>2. LockInv'
  BY DEF TypeOK, LockInv, Live, Ended, Allocate, locks
<1>3. QED
  BY <1>1, <1>2

LEMMA LockSequenceBase ==
  ASSUME TypeOK, LockInv, NEW t \in Txns, LockSequence(t)
  PROVE  TypeOK' /\ LockInv'
<1>1. want[t] \in Sequences /\ Live(t)
  BY DEF LockInv, LockSequence, Live, Ended
<1>2. TypeOK'
  BY <1>1 DEF TypeOK, LockSequence, Pcs, clock
<1>3. \A s \in Sequences : \/ seqLock'[s] = seqLock[s]
                           \/ seqLock[s] = None /\ seqLock'[s] = t
  BY <1>1 DEF TypeOK, LockSequence, SequenceFree
<1>4. pc[t] = "sequence" /\ pc'[t] = "company" /\ Live(t)'
  BY DEF TypeOK, Live, Ended, LockSequence
<1>5. LockInv'
  <2> SUFFICES ASSUME NEW u \in Txns
               PROVE  /\ ~Live(u)' => /\ companyLock' # u
                                      /\ \A s \in Sequences : seqLock'[s] # u
                      /\ pc'[u] \in {"sequence", "company", "drawing"} =>
                            want'[u] \in Sequences
                      /\ pc'[u] \in {"company", "drawing"} => seqLock'[want'[u]] = u
                      /\ pc'[u] \in {"idle", "aborted"} => drawn'[u] = {}
                      /\ Live(u)' => \A r \in drawn'[u] : seqLock'[r[1]] = u
    BY DEF LockInv
  <2>1. seqLock'[want[t]] = t /\ pc'[t] = "company" /\ want' = want /\ drawn' = drawn
        /\ companyLock' = companyLock
    BY <1>1 DEF TypeOK, LockSequence
  <2>2. \A r \in drawn[u] : r[1] \in Sequences
    BY ReferenceParts DEF TypeOK
  <2>3. CASE u = t
    BY <1>1, <1>3, <1>4, <2>1, <2>2, <2>3, NoneIsNone DEF LockInv
  <2>4. CASE u # t
    <3>1. pc'[u] = pc[u] /\ (Live(u)' <=> Live(u))
      BY <2>4 DEF TypeOK, LockSequence, Live
    <3>2. QED
      BY <1>3, <2>1, <2>2, <2>4, <3>1, NoneIsNone DEF LockInv
  <2>5. QED
    BY <2>3, <2>4
<1>6. QED
  BY <1>2, <1>5

LEMMA LockCompanyBase ==
  ASSUME TypeOK, LockInv, NEW t \in Txns, LockCompany(t)
  PROVE  TypeOK' /\ LockInv'
<1>1. TypeOK'
  BY DEF TypeOK, LockCompany, Pcs, clock
<1>2. LockInv'
  BY DEF TypeOK, LockInv, Live, Ended, LockCompany
<1>3. QED
  BY <1>1, <1>2

LEMMA DrawBase ==
  ASSUME TypeOK, LockInv, NEW t \in Txns, Draw(t)
  PROVE  TypeOK' /\ LockInv'
<1> DEFINE s == want[t]
           r == <<s, Token(s), Number(s)>>
<1>1. s \in Sequences /\ seqLock[s] = t /\ Live(t) /\ pc[t] = "drawing"
  BY DEF LockInv, Draw, Live, Ended
<1>2. Token(s) \in Nat /\ Number(s) \in Nat \ {0} /\ r \in Reference
  BY <1>1, TokenType DEF TypeOK, Row, Number, Reference
<1>3. /\ row' = [row EXCEPT ![s] = [period |-> Token(s), next |-> Number(s) + 1]]
      /\ drawn' = [drawn EXCEPT ![t] = @ \cup {r}]
      /\ given' = [given EXCEPT ![t] = @ + 1]
      /\ pc' = [pc EXCEPT ![t] = "open"] /\ want' = [want EXCEPT ![t] = None]
      /\ saved' = saved /\ seqLock' = seqLock /\ companyLock' = companyLock
      /\ now' = now /\ zone' = zone /\ zoneChanges' = zoneChanges
  BY DEF Draw, locks, clock
<1>4. TypeOK'
  <2>1. row' \in [Sequences -> Row]
    BY <1>1, <1>2, <1>3 DEF TypeOK, Row
  <2>2. drawn' \in [Txns -> SUBSET Reference]
    <3> HIDE DEF r
    <3> QED
      BY <1>2, <1>3 DEF TypeOK
  <2>3. given' \in [Txns -> Nat] /\ pc' \in [Txns -> Pcs]
        /\ want' \in [Txns -> Sequences \cup {None}]
    BY <1>3 DEF TypeOK, Pcs
  <2>4. QED
    BY <1>3, <2>1, <2>2, <2>3 DEF TypeOK
<1>5. LockInv'
  <2>1. r[1] = s
    OBVIOUS
  <2>2. \A u \in Txns : Live(u)' <=> Live(u)
    BY <1>1, <1>3 DEF TypeOK, Live, Ended
  <2>3. QED
    BY <1>1, <1>3, <2>1, <2>2 DEF TypeOK, LockInv
<1>6. QED
  BY <1>4, <1>5

LEMMA CommitBase ==
  ASSUME TypeOK, LockInv, NEW t \in Txns, Commit(t)
  PROVE  TypeOK' /\ LockInv'
<1>1. /\ pc[t] = "open" /\ pc' = [pc EXCEPT ![t] = "committed"] /\ Live(t)
      /\ saved' = [s \in Sequences |-> IF seqLock[s] = t THEN row[s] ELSE saved[s]]
      /\ seqLock' = [s \in Sequences |-> IF seqLock[s] = t THEN None ELSE seqLock[s]]
      /\ companyLock' = IF companyLock = t THEN None ELSE companyLock
      /\ row' = row /\ want' = want /\ drawn' = drawn /\ given' = given
      /\ now' = now /\ zone' = zone /\ zoneChanges' = zoneChanges
  BY DEF Commit, Release, clock, Live, Ended
<1>2. TypeOK'
  BY <1>1 DEF TypeOK, Pcs
<1>3. \A u \in Txns : (Live(u)' <=> Live(u) /\ u # t)
  BY <1>1 DEF TypeOK, Live, Ended
<1>4. \A u \in Txns : \A r \in drawn[u] :
         /\ r[1] \in Sequences /\ r[2] \in Nat /\ r[3] \in Nat \ {0}
  BY ReferenceParts DEF TypeOK
<1>5. LockInv'
  BY <1>1, <1>3, <1>4, NoneIsNone DEF TypeOK, LockInv
<1>6. QED
  BY <1>2, <1>5

LEMMA AbortBase ==
  ASSUME TypeOK, LockInv, NEW t \in Txns, Live(t), Abort(t)
  PROVE  TypeOK' /\ LockInv'
<1>1. /\ pc' = [pc EXCEPT ![t] = "aborted"] /\ want' = [want EXCEPT ![t] = None]
      /\ drawn' = [drawn EXCEPT ![t] = {}] /\ given' = [given EXCEPT ![t] = 0]
      /\ row' = [s \in Sequences |-> IF seqLock[s] = t THEN saved[s] ELSE row[s]]
      /\ seqLock' = [s \in Sequences |-> IF seqLock[s] = t THEN None ELSE seqLock[s]]
      /\ companyLock' = IF companyLock = t THEN None ELSE companyLock
      /\ saved' = saved
      /\ now' = now /\ zone' = zone /\ zoneChanges' = zoneChanges
  BY DEF Abort, Restore, Release, clock
<1>2. TypeOK'
  BY <1>1 DEF TypeOK, Pcs
<1>3. \A u \in Txns : (Live(u)' <=> Live(u) /\ u # t)
  BY <1>1 DEF TypeOK, Live, Ended
<1>4. \A u \in Txns : \A r \in drawn[u] : r[1] \in Sequences
  BY ReferenceParts DEF TypeOK
<1>5. /\ drawn'[t] = {} /\ given'[t] = 0
      /\ \A u \in Txns \ {t} : drawn'[u] = drawn[u] /\ given'[u] = given[u]
  BY <1>1 DEF TypeOK
<1>6. LockInv'
  BY <1>1, <1>3, <1>4, <1>5, NoneIsNone DEF TypeOK, LockInv
<1>7. QED
  BY <1>2, <1>6

(* The clock and the zone. *)
ClockStep == Tick \/ \E z \in Zones : ChangeTimezone(z)

LEMMA ClockBase ==
  ASSUME TypeOK, LockInv, ClockStep
  PROVE  /\ TypeOK' /\ LockInv'
         /\ row' = row /\ saved' = saved /\ seqLock' = seqLock
         /\ companyLock' = companyLock /\ pc' = pc /\ want' = want
         /\ drawn' = drawn /\ given' = given
<1>1. UNCHANGED <<row, saved, locks, txns>>
  BY DEF ClockStep, Tick, ChangeTimezone
<1>2. /\ row' = row /\ saved' = saved /\ seqLock' = seqLock
      /\ companyLock' = companyLock /\ pc' = pc /\ want' = want
      /\ drawn' = drawn /\ given' = given
  BY <1>1 DEF locks, txns
<1>3. now' \in Nat /\ zone' \in Zones /\ zoneChanges' \in Nat
  BY DEF ClockStep, Tick, ChangeTimezone, TypeOK
<1>4. TypeOK'
  BY <1>2, <1>3 DEF TypeOK
<1>5. LockInv'
  BY <1>2 DEF LockInv, Live
<1>6. QED
  BY <1>2, <1>4, <1>5

LEMMA VictimAborts ==
  ASSUME NEW t \in Txns, DeadlockVictim(t)
  PROVE  Live(t) /\ Abort(t)
  BY DEF DeadlockVictim, Deadlocked, WaitsFor, Live, Ended

LEMMA StepBase ==
  ASSUME TypeOK, LockInv, [Next]_vars
  PROVE  TypeOK' /\ LockInv'
<1>1. ASSUME NEW t \in Txns, Begin(t) \/ Proceed(t) \/ Rollback(t)
      PROVE  TypeOK' /\ LockInv'
  <2>1. ASSUME NEW s \in Sequences, Allocate(t, s) PROVE TypeOK' /\ LockInv'
    BY <2>1, AllocateBase
  <2>2. CASE Rollback(t) \/ DeadlockVictim(t)
    <3>1. Live(t) /\ Abort(t)
      BY <2>2, VictimAborts DEF Rollback, Live
    <3>2. QED
      BY <3>1, AbortBase
  <2>3. QED
    BY <1>1, <2>1, <2>2, BeginBase, LockSequenceBase, LockCompanyBase, DrawBase,
       CommitBase DEF Proceed
<1>2. CASE ClockStep
  BY <1>2, ClockBase
<1>3. CASE UNCHANGED vars
  BY <1>3 DEF vars, locks, txns, clock, TypeOK, LockInv, Live
<1>4. QED
  BY <1>1, <1>2, <1>3 DEF Next, ClockStep
-----------------------------------------------------------------------------
LEMMA InitIInv == Init => IInv
<1> SUFFICES ASSUME Init PROVE IInv
  OBVIOUS
<1>1. TypeOK
  BY NoneIsNone, BoundTypes DEF Init, TypeOK, Row, Reference, Pcs
<1>2. LockInv
  BY NoneIsNone DEF Init, LockInv, Live, Ended
<1>3. Issued = {}
  BY DEF Init, Issued
<1>4. RowInv
  BY <1>3 DEF Init, RowInv, Live
<1>5. GapInv
  BY <1>3 DEF Init, GapInv, HasPredecessor, Live
<1>6. FiniteInv /\ NumbersUnique
  BY FS_EmptySet DEF Init, FiniteInv, NumbersUnique
<1>7. QED
  BY <1>1, <1>2, <1>4, <1>5, <1>6 DEF IInv

(* A step that draws, locks and ends nothing new: beginning, waiting, and  *)
(* taking a lock that is free.                                             *)
LEMMA QuietKeeps ==
  ASSUME IInv, TypeOK', LockInv', NEW t \in Txns,
         pc[t] \in {"idle", "open", "sequence", "company"},
         pc'[t] \in {"open", "sequence", "company", "drawing"},
         \A u \in Txns \ {t} : pc'[u] = pc[u],
         \A s \in Sequences : \/ seqLock'[s] = seqLock[s]
                              \/ seqLock[s] = None /\ seqLock'[s] = t,
         row' = row, saved' = saved, drawn' = drawn, given' = given
  PROVE  IInv'
<1>0. Live(t)' /\ (drawn[t] # {} => Live(t))
  BY DEF IInv, LockInv, Live, Ended
<1>1. Issued' = Issued
  BY IssuedKept
<1>3. \A u \in Txns \ {t} : Live(u)' <=> Live(u)
  BY DEF Live
<1>4. RowInv'
  <2>1. \A s \in Sequences : seqLock'[s] = None => seqLock[s] = None
    BY NoneIsNone
  <2>2. QED
    BY <1>0, <1>1, <1>3, <2>1 DEF IInv, RowInv, Precedes
<1>5. GapInv'
  <2>1. ASSUME NEW u \in Txns, Live(u)'
        PROVE  /\ \A r \in drawn[u] : HasPredecessor(r, Issued \cup drawn[u])
               /\ \A s \in Sequences : seqLock'[s] = u =>
                     HasPredecessor(<<s, row[s].period, row[s].next>>,
                                    Issued \cup drawn[u])
    <3>1. \A r \in drawn[u] : HasPredecessor(r, Issued \cup drawn[u])
      BY <1>0, <1>3, <2>1 DEF IInv, GapInv
    <3>2. ASSUME NEW s \in Sequences, seqLock'[s] = u
          PROVE  HasPredecessor(<<s, row[s].period, row[s].next>>,
                                Issued \cup drawn[u])
      <4>1. CASE seqLock[s] = None
        BY <4>1 DEF IInv, RowInv, GapInv, HasPredecessor
      <4>2. CASE seqLock[s] = u
        <5>1. Live(u)
          BY <4>2 DEF IInv, LockInv
        <5>2. QED
          BY <4>2, <5>1 DEF IInv, GapInv
      <4>3. QED
        BY <3>2, <4>1, <4>2
    <3>3. QED
      BY <3>1, <3>2
  <2>2. QED
    BY <1>1, <2>1 DEF IInv, GapInv, HasPredecessor
<1>6. FiniteInv' /\ NumbersUnique'
  BY DEF IInv, FiniteInv, NumbersUnique
<1>7. QED
  BY <1>4, <1>5, <1>6 DEF IInv

LEMMA BeginKeeps ==
  ASSUME IInv, NEW t \in Txns, Begin(t)
  PROVE  IInv'
<1>1. TypeOK' /\ LockInv'
  BY BeginBase DEF IInv
<1>2. pc[t] = "idle" /\ pc'[t] = "open"
  BY DEF IInv, TypeOK, Begin
<1>3. /\ \A u \in Txns \ {t} : pc'[u] = pc[u]
      /\ row' = row /\ saved' = saved /\ seqLock' = seqLock /\ drawn' = drawn
      /\ given' = given
  BY DEF IInv, TypeOK, Begin, locks
<1>4. QED
  BY <1>1, <1>2, <1>3, QuietKeeps

LEMMA AllocateKeeps ==
  ASSUME IInv, NEW t \in Txns, NEW s \in Sequences, Allocate(t, s)
  PROVE  IInv'
<1>1. TypeOK' /\ LockInv'
  BY AllocateBase DEF IInv
<1>2. pc[t] = "open" /\ pc'[t] = "sequence"
  BY DEF IInv, TypeOK, Allocate
<1>3. /\ \A u \in Txns \ {t} : pc'[u] = pc[u]
      /\ row' = row /\ saved' = saved /\ seqLock' = seqLock /\ drawn' = drawn
      /\ given' = given
  BY DEF IInv, TypeOK, Allocate, locks
<1>4. QED
  BY <1>1, <1>2, <1>3, QuietKeeps

LEMMA LockSequenceKeeps ==
  ASSUME IInv, NEW t \in Txns, LockSequence(t)
  PROVE  IInv'
<1>1. want[t] \in Sequences /\ TypeOK' /\ LockInv'
  BY LockSequenceBase DEF IInv, LockInv, LockSequence
<1>2. \A s \in Sequences : \/ seqLock'[s] = seqLock[s]
                           \/ seqLock[s] = None /\ seqLock'[s] = t
  BY <1>1 DEF IInv, TypeOK, LockSequence, SequenceFree
<1>3. pc[t] = "sequence" /\ pc'[t] = "company"
  BY DEF IInv, TypeOK, LockSequence
<1>4. /\ \A u \in Txns \ {t} : pc'[u] = pc[u]
      /\ row' = row /\ saved' = saved /\ drawn' = drawn /\ given' = given
  BY DEF IInv, TypeOK, LockSequence
<1>5. QED
  BY <1>1, <1>2, <1>3, <1>4, QuietKeeps

LEMMA LockCompanyKeeps ==
  ASSUME IInv, NEW t \in Txns, LockCompany(t)
  PROVE  IInv'
<1>1. TypeOK' /\ LockInv'
  BY LockCompanyBase DEF IInv
<1>2. pc[t] = "company" /\ pc'[t] = "drawing"
  BY DEF IInv, TypeOK, LockCompany
<1>3. /\ \A u \in Txns \ {t} : pc'[u] = pc[u]
      /\ row' = row /\ saved' = saved /\ seqLock' = seqLock /\ drawn' = drawn
      /\ given' = given
  BY DEF IInv, TypeOK, LockCompany
<1>4. QED
  BY <1>1, <1>2, <1>3, QuietKeeps

LEMMA ClockKeeps ==
  ASSUME IInv, ClockStep
  PROVE  IInv'
<1>1. /\ TypeOK' /\ LockInv'
      /\ row' = row /\ saved' = saved /\ seqLock' = seqLock
      /\ companyLock' = companyLock /\ pc' = pc /\ want' = want
      /\ drawn' = drawn /\ given' = given
  BY ClockBase DEF IInv
<1>2. Issued' = Issued
  BY <1>1 DEF Issued
<1>3. RowInv' /\ GapInv' /\ FiniteInv' /\ NumbersUnique'
  BY <1>1, <1>2 DEF IInv, RowInv, Precedes, GapInv, HasPredecessor, FiniteInv,
                    NumbersUnique, Live
<1>4. QED
  BY <1>1, <1>3 DEF IInv

(* The period it draws in is not before the last one drawn in. *)
Forward(t) == row[want[t]].period <= Token(want[t])

LEMMA DrawKeeps ==
  ASSUME IInv, NEW t \in Txns, Draw(t), Forward(t)
  PROVE  IInv'
<1> DEFINE s == want[t]
           r == <<s, Token(s), Number(s)>>
<1>1. s \in Sequences /\ seqLock[s] = t /\ Live(t) /\ pc[t] = "drawing"
  BY DEF IInv, LockInv, Draw, Live, Ended
<1>2. Token(s) \in Nat /\ Number(s) \in Nat \ {0} /\ r \in Reference
  BY <1>1, TokenType DEF IInv, TypeOK, Row, Number, Reference
<1>3. /\ row' = [row EXCEPT ![s] = [period |-> Token(s), next |-> Number(s) + 1]]
      /\ drawn' = [drawn EXCEPT ![t] = @ \cup {r}]
      /\ given' = [given EXCEPT ![t] = @ + 1]
      /\ pc' = [pc EXCEPT ![t] = "open"] /\ want' = [want EXCEPT ![t] = None]
      /\ saved' = saved /\ seqLock' = seqLock /\ companyLock' = companyLock
      /\ now' = now /\ zone' = zone /\ zoneChanges' = zoneChanges
  BY DEF Draw, locks, clock
<1>4. TypeOK' /\ LockInv'
  BY DrawBase DEF IInv
<1>6. /\ row[s].period \in Nat /\ row[s].next \in Nat \ {0}
      /\ saved[s].period \in Nat /\ saved[s].next \in Nat \ {0}
  BY <1>1 DEF IInv, TypeOK, Row
(* The new reference is the first that does not precede the old row. *)
<1>7. \/ row[s].period < Token(s) /\ Number(s) = 1
      \/ row[s].period = Token(s) /\ Number(s) = row[s].next
  BY <1>1, <1>2, <1>6 DEF Forward, Number
<1>8. /\ ~Precedes(r, row[s]) /\ ~Precedes(r, saved[s])
      /\ Precedes(r, row'[s])
  <2>1. row'[s].period = Token(s) /\ row'[s].next = Number(s) + 1
    BY <1>1, <1>3 DEF IInv, TypeOK
  <2>2. r[2] = Token(s) /\ r[3] = Number(s)
    OBVIOUS
  <2>3. \/ saved[s].period < row[s].period
        \/ saved[s].period = row[s].period /\ saved[s].next <= row[s].next
    BY <1>1 DEF IInv, RowInv
  <2>4. QED
    BY <1>2, <1>6, <1>7, <2>1, <2>2, <2>3 DEF Precedes
<1>9. Issued' = Issued
  BY <1>3, IssuedKept, <1>1 DEF IInv, TypeOK
<1>10. \A u \in Txns : r \notin drawn[u]
  <2> SUFFICES ASSUME NEW u \in Txns, r \in drawn[u] PROVE FALSE
    OBVIOUS
  <2>1. r[1] = s
    OBVIOUS
  <2>2. CASE Live(u)
    <3>1. u = t
      BY <1>1, <2>1, <2>2 DEF IInv, LockInv
    <3>2. QED
      BY <1>8, <2>1, <2>2, <3>1 DEF IInv, RowInv
  <2>3. CASE pc[u] = "committed"
    BY <1>8, <2>1, <2>3, IssuedBy DEF IInv, RowInv
  <2>4. CASE pc[u] \in {"idle", "aborted"}
    BY <2>4 DEF IInv, LockInv
  <2>5. QED
    BY <2>2, <2>3, <2>4 DEF Live, Ended
<1>11. RowInv'
  <2>1. ASSUME NEW q \in Sequences
        PROVE  /\ seqLock'[q] = None => row'[q] = saved'[q]
               /\ \/ saved'[q].period < row'[q].period
                  \/ /\ saved'[q].period = row'[q].period
                     /\ saved'[q].next <= row'[q].next
    <3>1. CASE q = s
      <4>1. seqLock'[q] # None
        BY <1>1, <1>3, <3>1, NoneIsNone
      <4>2. row'[q].period = Token(q) /\ row'[q].next = Number(s) + 1
        BY <1>1, <1>3, <3>1 DEF IInv, TypeOK
      <4>3. \/ saved[s].period < row[s].period
            \/ saved[s].period = row[s].period /\ saved[s].next <= row[s].next
        BY <1>1 DEF IInv, RowInv
      <4>4. QED
        BY <1>2, <1>3, <1>6, <1>7, <3>1, <4>1, <4>2, <4>3
    <3>2. CASE q # s
      BY <1>1, <1>3, <3>2 DEF IInv, TypeOK, RowInv
    <3>3. QED
      BY <3>1, <3>2
  <2>2. \A q \in Issued' : Precedes(q, saved[q[1]])'
    BY <1>3, <1>9 DEF IInv, RowInv, Precedes
  <2>3. ASSUME NEW u \in Txns, Live(u)', NEW q \in drawn'[u]
        PROVE  Precedes(q, row[q[1]])' /\ ~Precedes(q, saved[q[1]])'
    <3>1. Live(u)
      BY <1>1, <1>3, <2>3 DEF IInv, TypeOK, Live, Ended
    <3>2. CASE u = t /\ q = r
      BY <1>3, <1>8, <3>2 DEF Precedes
    <3>3. CASE q \in drawn[u]
      <4>1. /\ q[1] \in Sequences /\ q[2] \in Nat /\ q[3] \in Nat \ {0}
        BY <3>3, ReferenceParts DEF IInv, TypeOK
      <4>2. Precedes(q, row[q[1]]) /\ ~Precedes(q, saved[q[1]])
        BY <3>1, <3>3 DEF IInv, RowInv
      <4>3. \/ row'[q[1]] = row[q[1]]
            \/ q[1] = s /\ row'[s].period = Token(s) /\ row'[s].next = Number(s) + 1
        BY <1>1, <1>3, <4>1 DEF IInv, TypeOK
      <4>4. QED
        BY <1>2, <1>3, <1>6, <1>7, <4>1, <4>2, <4>3 DEF Precedes
    <3>4. QED
      BY <1>3, <3>2, <3>3 DEF IInv, TypeOK
  <2>4. QED
    BY <2>1, <2>2, <2>3 DEF RowInv
<1>12. GapInv'
  <2> DEFINE Seen(u) == Issued \cup drawn[u]
  <2>1. HasPredecessor(r, Seen(t))
    <3>1. HasPredecessor(<<s, row[s].period, row[s].next>>, Seen(t))
      BY <1>1 DEF IInv, GapInv
    <3>2. QED
      BY <1>7, <3>1 DEF HasPredecessor
  <2>2. HasPredecessor(<<s, Token(s), Number(s) + 1>>, {r})
    BY <1>2 DEF HasPredecessor
  <2>3. ASSUME NEW u \in Txns, Live(u)', NEW q \in drawn'[u]
        PROVE  HasPredecessor(q, Issued' \cup drawn'[u])
    <3>1. Live(u)
      BY <1>1, <1>3, <2>3 DEF IInv, TypeOK, Live, Ended
    <3>2. CASE u = t /\ q = r
      BY <1>3, <1>9, <2>1, <3>2 DEF IInv, TypeOK, HasPredecessor
    <3>3. CASE q \in drawn[u]
      BY <1>3, <1>9, <3>1, <3>3 DEF IInv, TypeOK, GapInv, HasPredecessor
    <3>4. QED
      BY <1>3, <3>2, <3>3 DEF IInv, TypeOK
  <2>4. ASSUME NEW u \in Txns, Live(u)', NEW q \in Sequences, seqLock'[q] = u
        PROVE  HasPredecessor(<<q, row'[q].period, row'[q].next>>,
                              Issued' \cup drawn'[u])
    <3>1. Live(u)
      BY <1>1, <1>3, <2>4 DEF IInv, TypeOK, Live, Ended
    <3>2. CASE q = s
      BY <1>1, <1>3, <2>2, <2>4, <3>2 DEF IInv, TypeOK, HasPredecessor
    <3>3. CASE q # s
      BY <1>1, <1>3, <1>9, <2>4, <3>1, <3>3 DEF IInv, TypeOK, GapInv, HasPredecessor
    <3>4. QED
      BY <3>2, <3>3
  <2>5. QED
    BY <1>3, <1>9, <2>3, <2>4 DEF IInv, GapInv
<1>13. FiniteInv' /\ NumbersUnique'
  <2>1. IsFiniteSet(drawn[t]) /\ Cardinality(drawn[t]) = given[t]
    BY DEF IInv, FiniteInv, NumbersUnique
  <2>2. /\ IsFiniteSet(drawn[t] \cup {r})
        /\ Cardinality(drawn[t] \cup {r}) = given[t] + 1
    BY <1>10, <2>1, FS_AddElement
  <2>3. /\ drawn'[t] = drawn[t] \cup {r} /\ given'[t] = given[t] + 1
        /\ \A u \in Txns \ {t} : drawn'[u] = drawn[u] /\ given'[u] = given[u]
    BY <1>3 DEF IInv, TypeOK
  <2>4. FiniteInv'
    BY <2>2, <2>3 DEF IInv, FiniteInv
  <2>5. ASSUME NEW u \in Txns, NEW v \in Txns \ {u}
        PROVE  drawn'[u] \cap drawn'[v] = {}
    <3> HIDE DEF r
    <3>1. drawn[u] \cap drawn[v] = {} /\ r \notin drawn[u] /\ r \notin drawn[v]
      BY <1>10 DEF IInv, NumbersUnique
    <3>2. QED
      BY <2>3, <3>1
  <2>6. \A u \in Txns : Cardinality(drawn'[u]) = given'[u]
    BY <2>2, <2>3 DEF IInv, NumbersUnique
  <2>7. QED
    BY <2>4, <2>5, <2>6 DEF NumbersUnique
<1>14. QED
  BY <1>4, <1>11, <1>12, <1>13 DEF IInv

LEMMA CommitKeeps ==
  ASSUME IInv, NEW t \in Txns, Commit(t)
  PROVE  IInv'
<1>1. /\ pc[t] = "open" /\ pc' = [pc EXCEPT ![t] = "committed"] /\ Live(t)
      /\ saved' = [s \in Sequences |-> IF seqLock[s] = t THEN row[s] ELSE saved[s]]
      /\ seqLock' = [s \in Sequences |-> IF seqLock[s] = t THEN None ELSE seqLock[s]]
      /\ companyLock' = IF companyLock = t THEN None ELSE companyLock
      /\ row' = row /\ want' = want /\ drawn' = drawn /\ given' = given
      /\ now' = now /\ zone' = zone /\ zoneChanges' = zoneChanges
  BY DEF Commit, Release, clock, Live, Ended
<1>2. TypeOK' /\ LockInv'
  BY CommitBase DEF IInv
<1>3. \A u \in Txns : (Live(u)' <=> Live(u) /\ u # t)
  BY <1>1 DEF IInv, TypeOK, Live, Ended
<1>4. \A u \in Txns : \A r \in drawn[u] :
         /\ r[1] \in Sequences /\ r[2] \in Nat /\ r[3] \in Nat \ {0}
  BY ReferenceParts DEF IInv, TypeOK
<1>6. Issued' = Issued \cup drawn[t]
  BY IssuedByCommit DEF IInv
<1>7. ASSUME NEW u \in Txns, Live(u)'
      PROVE  /\ Live(u) /\ u # t
             /\ \A r \in drawn[u] : saved'[r[1]] = saved[r[1]]
             /\ \A s \in Sequences : seqLock'[s] = u => seqLock[s] = u
  BY <1>1, <1>3, <1>4, <1>7, NoneIsNone DEF IInv, LockInv
<1>8. RowInv'
  <2>1. ASSUME NEW s \in Sequences
        PROVE  /\ seqLock'[s] = None => row'[s] = saved'[s]
               /\ \/ saved'[s].period < row'[s].period
                  \/ /\ saved'[s].period = row'[s].period
                     /\ saved'[s].next <= row'[s].next
    <3>1. row[s].next \in Nat
      BY DEF IInv, TypeOK, Row
    <3>2. QED
      BY <1>1, <3>1 DEF IInv, RowInv
  <2>2. ASSUME NEW r \in Issued' PROVE Precedes(r, saved[r[1]])'
    <3>1. CASE r \in Issued
      <4>1. r[1] \in Sequences /\ r[2] \in Nat /\ r[3] \in Nat
        BY <1>4, <3>1, IssuedBy
      <4>2. Precedes(r, saved[r[1]])
        BY <3>1 DEF IInv, RowInv
      <4>3. /\ saved[r[1]] \in Row /\ row[r[1]] \in Row
            /\ \/ saved[r[1]].period < row[r[1]].period
               \/ /\ saved[r[1]].period = row[r[1]].period
                  /\ saved[r[1]].next <= row[r[1]].next
        BY <4>1 DEF IInv, TypeOK, RowInv
      <4>4. QED
        BY <1>1, <4>1, <4>2, <4>3 DEF Precedes, Row
    <3>2. CASE r \in drawn[t]
      BY <1>1, <1>4, <3>2 DEF IInv, LockInv, RowInv, Precedes
    <3>3. QED
      BY <1>6, <2>2, <3>1, <3>2
  <2>3. ASSUME NEW u \in Txns, Live(u)', NEW r \in drawn[u]
        PROVE  Precedes(r, row[r[1]])' /\ ~Precedes(r, saved[r[1]])'
    BY <1>1, <1>7, <2>3 DEF IInv, RowInv, Precedes
  <2>4. QED
    BY <1>1, <2>1, <2>2, <2>3 DEF RowInv
<1>9. GapInv'
  <2>1. ASSUME NEW r \in Issued' PROVE HasPredecessor(r, Issued')
    BY <1>1, <1>6, <2>1 DEF IInv, GapInv, HasPredecessor
  <2>2. ASSUME NEW s \in Sequences
        PROVE  HasPredecessor(<<s, saved'[s].period, saved'[s].next>>, Issued')
    BY <1>1, <1>6 DEF IInv, GapInv, HasPredecessor
  <2>3. ASSUME NEW u \in Txns, Live(u)'
        PROVE  /\ \A r \in drawn[u] : HasPredecessor(r, Issued' \cup drawn[u])
               /\ \A s \in Sequences : seqLock'[s] = u =>
                     HasPredecessor(<<s, row[s].period, row[s].next>>,
                                    Issued' \cup drawn[u])
    BY <1>6, <1>7, <2>3 DEF IInv, GapInv, HasPredecessor
  <2>4. QED
    BY <1>1, <2>1, <2>2, <2>3 DEF GapInv
<1>10. FiniteInv' /\ NumbersUnique'
  BY <1>1 DEF IInv, FiniteInv, NumbersUnique
<1>11. QED
  BY <1>2, <1>8, <1>9, <1>10 DEF IInv

(* Losing the transaction, by a rollback or as a deadlock's victim. *)
LEMMA AbortKeeps ==
  ASSUME IInv, NEW t \in Txns, Live(t), Abort(t)
  PROVE  IInv'
<1>1. /\ pc' = [pc EXCEPT ![t] = "aborted"] /\ want' = [want EXCEPT ![t] = None]
      /\ drawn' = [drawn EXCEPT ![t] = {}] /\ given' = [given EXCEPT ![t] = 0]
      /\ row' = [s \in Sequences |-> IF seqLock[s] = t THEN saved[s] ELSE row[s]]
      /\ seqLock' = [s \in Sequences |-> IF seqLock[s] = t THEN None ELSE seqLock[s]]
      /\ companyLock' = IF companyLock = t THEN None ELSE companyLock
      /\ saved' = saved
      /\ now' = now /\ zone' = zone /\ zoneChanges' = zoneChanges
  BY DEF Abort, Restore, Release, clock
<1>2. TypeOK' /\ LockInv'
  BY AbortBase DEF IInv
<1>3. \A u \in Txns : (Live(u)' <=> Live(u) /\ u # t)
  BY <1>1 DEF IInv, TypeOK, Live, Ended
<1>4. \A u \in Txns : \A r \in drawn[u] : r[1] \in Sequences
  BY ReferenceParts DEF IInv, TypeOK
<1>5. /\ drawn'[t] = {} /\ given'[t] = 0
      /\ \A u \in Txns \ {t} : drawn'[u] = drawn[u] /\ given'[u] = given[u]
  BY <1>1 DEF IInv, TypeOK
<1>7. Issued' = Issued
  <2>1. pc[t] # "committed" /\ pc'[t] # "committed"
    BY <1>1 DEF IInv, TypeOK, Live, Ended
  <2>2. \A u \in Txns \ {t} : pc'[u] = pc[u]
    BY <1>1 DEF IInv, TypeOK
  <2>3. QED
    BY <1>5, <2>1, <2>2, IssuedKept
<1>8. ASSUME NEW u \in Txns, Live(u)'
      PROVE  /\ Live(u) /\ u # t /\ drawn'[u] = drawn[u]
             /\ \A s \in Sequences :
                   seqLock'[s] = u => seqLock[s] = u /\ row'[s] = row[s]
             /\ \A r \in drawn[u] : row'[r[1]] = row[r[1]]
  BY <1>1, <1>3, <1>4, <1>5, <1>8, NoneIsNone DEF IInv, LockInv
<1>9. RowInv'
  <2>1. ASSUME NEW s \in Sequences
        PROVE  /\ seqLock'[s] = None => row'[s] = saved'[s]
               /\ \/ saved'[s].period < row'[s].period
                  \/ /\ saved'[s].period = row'[s].period
                     /\ saved'[s].next <= row'[s].next
    <3>1. saved[s] \in Row /\ row[s] \in Row
      BY DEF IInv, TypeOK
    <3>2. QED
      BY <1>1, <3>1 DEF IInv, RowInv, Row
  <2>2. \A r \in Issued' : Precedes(r, saved[r[1]])'
    BY <1>1, <1>7 DEF IInv, RowInv, Precedes
  <2>3. ASSUME NEW u \in Txns, Live(u)', NEW r \in drawn'[u]
        PROVE  Precedes(r, row[r[1]])' /\ ~Precedes(r, saved[r[1]])'
    BY <1>1, <1>8, <2>3 DEF IInv, RowInv, Precedes
  <2>4. QED
    BY <2>1, <2>2, <2>3 DEF RowInv
<1>10. GapInv'
  BY <1>1, <1>7, <1>8 DEF IInv, GapInv
<1>11. FiniteInv' /\ NumbersUnique'
  BY <1>5, FS_EmptySet DEF IInv, FiniteInv, NumbersUnique
<1>12. QED
  BY <1>2, <1>9, <1>10, <1>11 DEF IInv

LEMMA StepKeeps ==
  ASSUME IInv, [Next]_vars, \A t \in Txns : Draw(t) => Forward(t)
  PROVE  IInv'
<1>1. ASSUME NEW t \in Txns, Begin(t) \/ Proceed(t) \/ Rollback(t) PROVE IInv'
  <2>1. ASSUME NEW s \in Sequences, Allocate(t, s) PROVE IInv'
    BY <2>1, AllocateKeeps
  <2>2. CASE Rollback(t) \/ DeadlockVictim(t)
    <3>1. Live(t) /\ Abort(t)
      BY <2>2, VictimAborts DEF Rollback, Live
    <3>2. QED
      BY <3>1, AbortKeeps
  <2>3. CASE Draw(t)
    BY <2>3, DrawKeeps
  <2>4. QED
    BY <1>1, <2>1, <2>2, <2>3, BeginKeeps, LockSequenceKeeps, LockCompanyKeeps,
       CommitKeeps DEF Proceed
<1>2. CASE ClockStep
  BY <1>2, ClockKeeps
<1>3. CASE UNCHANGED vars
  <2>1. TypeOK' /\ LockInv'
    BY StepBase DEF IInv
  <2>2. Issued' = Issued
    BY <1>3 DEF Issued, vars, txns
  <2>3. QED
    BY <1>3, <2>1, <2>2
       DEF vars, locks, txns, clock, IInv, RowInv, GapInv,
           FiniteInv, NumbersUnique, Precedes, HasPredecessor, Live
<1>4. QED
  BY <1>1, <1>2, <1>3 DEF Next, ClockStep

(* No number is drawn in a period before the last one a number was drawn   *)
(* in: the company's time zone may change, but not so that it matters.     *)
DrawsForward == [][\A t \in Txns : Draw(t) => Forward(t)]_vars

LEMMA StutterKeeps ==
  ASSUME IInv, UNCHANGED vars
  PROVE  IInv'
<1>1. \A t \in Txns : ~Draw(t)
  <2> SUFFICES ASSUME NEW t \in Txns, Draw(t) PROVE FALSE
    OBVIOUS
  <2>1. pc[t] = "drawing" /\ pc'[t] = "open" /\ pc' = pc
    BY DEF Draw, vars, txns, IInv, TypeOK
  <2>2. QED
    BY <2>1
<1>2. QED
  BY <1>1, StepKeeps

(* The invariant holds throughout, as long as numbers are drawn forward. *)
LEMMA Invariance == Spec /\ DrawsForward => []IInv
<1>1. IInv /\ [Next]_vars /\ [\A t \in Txns : Draw(t) => Forward(t)]_vars => IInv'
  BY StepKeeps, StutterKeeps
<1>2. QED
  BY <1>1, InitIInv, PTL DEF Spec, DrawsForward

LEMMA BaseInvariance == Spec => [](TypeOK /\ LockInv)
<1>1. Init => TypeOK /\ LockInv
  BY InitIInv DEF IInv
<1>2. TypeOK /\ LockInv /\ [Next]_vars => TypeOK' /\ LockInv'
  BY StepBase
<1>3. QED
  BY <1>1, <1>2, PTL DEF Spec
-----------------------------------------------------------------------------
(* Every variable keeps its type, whatever becomes of clock and zone. *)
THEOREM SequencesTyped == Spec => []TypeOK
  BY BaseInvariance, PTL

(* allocate never gives one reference to two documents, unless it draws in *)
(* a period it has left.                                                   *)
THEOREM ReferencesUnique == Spec /\ DrawsForward => []NumbersUnique
<1>1. IInv => NumbersUnique
  BY DEF IInv
<1>2. QED
  BY <1>1, Invariance, PTL

(* The documents of a period are numbered without a gap, unless allocate   *)
(* draws in a period it has left.                                          *)
THEOREM NumberingGapFree == Spec /\ DrawsForward => []GapFree
<1>1. IInv => GapFree
  BY DEF IInv, GapInv, HasPredecessor, GapFree
<1>2. QED
  BY <1>1, Invariance, PTL

(* Only a commit issues references, and all it issues come after all that  *)
(* are issued already: the old committed row lies between them.            *)
LEMMA StepIssuesInOrder ==
  ASSUME IInv, [Next]_vars,
         NEW r \in Issued, NEW q \in Issued' \ Issued, q[1] = r[1]
  PROVE  q[2] > r[2] \/ (q[2] = r[2] /\ q[3] > r[3])
<1>1. ASSUME NEW t \in Txns, Commit(t)
      PROVE  q[2] > r[2] \/ (q[2] = r[2] /\ q[3] > r[3])
  <2>1. q \in drawn[t] /\ Live(t)
    BY <1>1, IssuedByCommit DEF IInv, Commit, Live, Ended
  <2>2. PICK u \in Txns : r \in drawn[u]
    BY IssuedBy
  <2>3. /\ r[1] \in Sequences /\ r[2] \in Nat /\ r[3] \in Nat
        /\ q[2] \in Nat /\ q[3] \in Nat
    BY <2>1, <2>2, ReferenceParts DEF IInv, TypeOK
  <2>4. Precedes(r, saved[r[1]]) /\ ~Precedes(q, saved[r[1]])
    BY <2>1 DEF IInv, RowInv
  <2>5. saved[r[1]].period \in Nat /\ saved[r[1]].next \in Nat
    BY <2>3 DEF IInv, TypeOK, Row
  <2>6. QED
    BY <2>3, <2>4, <2>5 DEF Precedes
<1>2. ASSUME NEW t \in Txns, pc[t] # "committed", pc'[t] # "committed",
             \A u \in Txns \ {t} : pc'[u] = pc[u] /\ drawn'[u] = drawn[u]
      PROVE  FALSE
  BY <1>2, IssuedKept
<1>3. ASSUME NEW t \in Txns, Abort(t), Live(t) PROVE FALSE
  BY <1>2, <1>3 DEF Abort, Live, Ended, IInv, TypeOK
<1>4. ASSUME NEW t \in Txns, Begin(t) \/ LockSequence(t) \/ LockCompany(t) \/ Draw(t)
      PROVE  FALSE
  BY <1>2, <1>4 DEF Begin, LockSequence, LockCompany, Draw, IInv, TypeOK
<1>5. ASSUME NEW t \in Txns, NEW s \in Sequences, Allocate(t, s) PROVE FALSE
  BY <1>2, <1>5 DEF Allocate, IInv, TypeOK
<1>6. CASE Tick \/ (\E z \in Zones : ChangeTimezone(z)) \/ UNCHANGED vars
  BY <1>6 DEF Tick, ChangeTimezone, vars, txns, Issued
<1>7. ASSUME NEW t \in Txns, DeadlockVictim(t) PROVE FALSE
  <2>1. Live(t) /\ Abort(t)
    BY <1>7 DEF DeadlockVictim, Deadlocked, WaitsFor, Live, Ended
  <2>2. QED
    BY <1>3, <2>1
<1>8. ASSUME NEW t \in Txns, Rollback(t) PROVE FALSE
  BY <1>3, <1>8 DEF Rollback, Live
<1>9. QED
  BY <1>1, <1>4, <1>5, <1>6, <1>7, <1>8 DEF Next, Proceed

(* Documents are numbered in the order their transactions commit, unless   *)
(* allocate draws in a period it has left.                                 *)
THEOREM NumberingInOrder == Spec /\ DrawsForward => IssuedInOrder
<1>1. IInv /\ [Next]_vars =>
         [\A r \in Issued, q \in Issued' \ Issued :
            q[1] = r[1] =>
               \/ q[2] > r[2]
               \/ q[2] = r[2] /\ q[3] > r[3]]_vars
  BY StepIssuesInOrder
<1>2. QED
  BY <1>1, Invariance, PTL DEF Spec, IssuedInOrder
-----------------------------------------------------------------------------
(* The clock as the company reads it is never put back. *)
LocalClockOnward == [][now + zone <= now' + zone']_vars

(* The period of a row has begun. *)
PeriodInv ==
    \A s \in Sequences : row[s].period <= Token(s) /\ saved[s].period <= Token(s)

LEMMA PeriodKeeps ==
  ASSUME TypeOK, LockInv, PeriodInv, [Next]_vars, now + zone <= now' + zone'
  PROVE  PeriodInv'
<1>1. TypeOK' /\ LockInv'
  BY StepBase
<1>2. \A s \in Sequences :
         Token(s) \in Nat /\ Token(s)' \in Nat /\ Token(s) <= Token(s)'
  <2>1. now \in Nat /\ zone \in Nat /\ now' \in Nat /\ zone' \in Nat
    BY <1>1, BoundTypes DEF TypeOK
  <2>2. \A s \in Sequences : Token(s)' \in Nat
    <3> SUFFICES ASSUME NEW s \in Sequences PROVE Token(s)' \in Nat
      OBVIOUS
    <3>1. IsFiniteSet({p \in Starts[s] : p <= now' + zone'})
      BY StartsType, FS_Subset
    <3>2. QED
      BY <3>1, FS_CardinalityType DEF Token
  <2>3. QED
    BY <2>1, <2>2, TokenGrows, TokenType
<1>3. \A s \in Sequences : row[s].period \in Nat /\ saved[s].period \in Nat
  BY DEF TypeOK, Row
<1>4. \A s \in Sequences :
         /\ row'[s].period \in {row[s].period, saved[s].period, Token(s)}
         /\ saved'[s].period \in {row[s].period, saved[s].period}
  <2> SUFFICES ASSUME NEW s \in Sequences
               PROVE  /\ row'[s].period \in {row[s].period, saved[s].period, Token(s)}
                      /\ saved'[s].period \in {row[s].period, saved[s].period}
    OBVIOUS
  <2>1. ASSUME NEW t \in Txns, Draw(t)
        PROVE  /\ row'[s].period \in {row[s].period, Token(s)}
               /\ saved' = saved
    BY <2>1 DEF Draw, TypeOK
  <2>2. ASSUME NEW t \in Txns, Commit(t)
        PROVE  row' = row /\ saved'[s] \in {row[s], saved[s]}
    BY <2>2 DEF Commit
  <2>3. ASSUME NEW t \in Txns, Abort(t)
        PROVE  saved' = saved /\ row'[s] \in {row[s], saved[s]}
    BY <2>3 DEF Abort, Restore
  <2>4. CASE row' = row /\ saved' = saved
    BY <2>4
  <2>5. ASSUME NEW t \in Txns, Begin(t) \/ Proceed(t) \/ Rollback(t)
        PROVE  \/ row' = row /\ saved' = saved
               \/ Draw(t) \/ Commit(t) \/ Abort(t)
    BY <2>5 DEF Begin, Proceed, Allocate, LockSequence, LockCompany, DeadlockVictim,
                Rollback
  <2>6. QED
    BY <2>1, <2>2, <2>3, <2>4, <2>5 DEF Next, Tick, ChangeTimezone, vars
<1>5. QED
  <2> SUFFICES ASSUME NEW s \in Sequences
               PROVE  row'[s].period <= Token(s)' /\ saved'[s].period <= Token(s)'
    BY DEF PeriodInv
  <2>1. /\ row[s].period <= Token(s) /\ saved[s].period <= Token(s)
        /\ Token(s) \in Nat /\ Token(s)' \in Nat /\ Token(s) <= Token(s)'
    BY <1>2 DEF PeriodInv
  <2>2. QED
    BY <1>3, <1>4, <2>1

(* Only a company that moves to a zone further west, and by more than the  *)
(* time that has passed, can make allocate draw in a period it has left.   *)
THEOREM OnwardIsForward == Spec /\ LocalClockOnward => DrawsForward
<1>1. Init => PeriodInv
  <2> SUFFICES ASSUME Init, NEW s \in Sequences
               PROVE  row[s].period <= Token(s) /\ saved[s].period <= Token(s)
    BY DEF PeriodInv
  <2>1. Token(s) \in Nat /\ row[s].period = 0 /\ saved[s].period = 0
    BY TokenType DEF Init
  <2>2. QED
    BY <2>1
<1>2. ASSUME TypeOK, LockInv, PeriodInv, [Next]_vars, [now + zone <= now' + zone']_vars
      PROVE  PeriodInv'
  <2>1. CASE now + zone <= now' + zone'
    BY <1>2, <2>1, PeriodKeeps
  <2>2. CASE UNCHANGED vars
    BY <1>2, <2>2, TokenKept DEF vars, clock, PeriodInv
  <2>3. QED
    BY <1>2, <2>1, <2>2
<1>3. ASSUME TypeOK, LockInv, PeriodInv, NEW t \in Txns, Draw(t) PROVE Forward(t)
  BY <1>3 DEF LockInv, Draw, PeriodInv, Forward
<1>4. TypeOK /\ LockInv /\ PeriodInv => [\A t \in Txns : Draw(t) => Forward(t)]_vars
  BY <1>3
<1>5. QED
  BY <1>1, <1>2, <1>4, BaseInvariance, PTL DEF Spec, LocalClockOnward, DrawsForward

(* A company that stays in its zone, however often its settings are saved, *)
(* has references that are unique, without gaps and in order.              *)
THEOREM NumberingInOneZone ==
  ASSUME \A y, z \in Zones : y = z
  PROVE  Spec => []NumbersUnique /\ []GapFree /\ IssuedInOrder
<1>1. ASSUME TypeOK, TypeOK', [Next]_vars PROVE now + zone <= now' + zone'
  <2>1. zone' = zone /\ now \in Nat /\ zone \in Nat
    BY <1>1, BoundTypes DEF TypeOK
  <2>2. now' = now \/ now' = now + 1
    BY <1>1 DEF Next, Begin, Proceed, Allocate, LockSequence, LockCompany, Draw, Commit,
                DeadlockVictim, Rollback, Abort, Tick, ChangeTimezone, vars, clock
  <2>3. QED
    BY <2>1, <2>2
<1>2. Spec => LocalClockOnward
  <2>1. TypeOK /\ TypeOK' /\ [Next]_vars => [now + zone <= now' + zone']_vars
    BY <1>1
  <2>2. QED
    BY <2>1, SequencesTyped, PTL DEF Spec, LocalClockOnward
<1>3. QED
  BY <1>2, OnwardIsForward, ReferencesUnique, NumberingGapFree, NumberingInOrder, PTL
-----------------------------------------------------------------------------
(***************************************************************************)
(* Deadlock: two rows are locked at each allocation, and kept.             *)
(***************************************************************************)
(* Each transaction allocates from one sequence only. *)
OneSequenceEach ==
    [][\A t \in Txns, s, x \in Sequences : Allocate(t, s) /\ seqLock[x] = t => x = s]_vars

(* It holds no other sequence than the one it wants, and holds that before *)
(* it holds the company.                                                   *)
OrderInv ==
    \A t \in Txns :
        /\ pc[t] \in {"sequence", "company", "drawing"} =>
              \A x \in Sequences : seqLock[x] = t => x = want[t]
        /\ companyLock = t => \E x \in Sequences : seqLock[x] = t

LEMMA HolderGoesOn ==
  ASSUME TypeOK, LockInv, OrderInv, NEW t \in Txns, companyLock = t
  PROVE  WaitsFor(t) = {}
<1>1. PICK x \in Sequences : seqLock[x] = t
  BY DEF OrderInv
<1>2. CASE pc[t] = "sequence"
  <2>1. x = want[t]
    BY <1>1, <1>2 DEF OrderInv
  <2>2. QED
    BY <1>1, <1>2, <2>1 DEF WaitsFor
<1>3. CASE pc[t] = "company"
  BY <1>3 DEF WaitsFor
<1>4. CASE pc[t] \notin {"sequence", "company"}
  BY <1>4 DEF WaitsFor
<1>5. QED
  BY <1>2, <1>3, <1>4

LEMMA NobodyDeadlocked ==
  ASSUME TypeOK, LockInv, OrderInv, NEW t \in Txns
  PROVE  ~Deadlocked(t)
<1> SUFFICES ASSUME NEW C \in SUBSET Txns, t \in C,
                    \A u \in C : WaitsFor(u) # {} /\ WaitsFor(u) \subseteq C
             PROVE  FALSE
  BY DEF Deadlocked
<1>1. \A u \in C : pc[u] = "sequence"
  <2> SUFFICES ASSUME NEW u \in C, pc[u] # "sequence" PROVE FALSE
    OBVIOUS
  <2>1. pc[u] = "company" /\ WaitsFor(u) = {companyLock} \ {None, u}
    BY DEF WaitsFor
  <2>2. companyLock \in C /\ companyLock \in Txns
    BY <2>1
  <2>3. WaitsFor(companyLock) = {}
    BY <2>2, HolderGoesOn
  <2>4. QED
    BY <2>2, <2>3
<1>2. WaitsFor(t) = {seqLock[want[t]]} \ {None, t} /\ want[t] \in Sequences
  BY <1>1 DEF WaitsFor, LockInv
<1>3. PICK u \in C : u = seqLock[want[t]] /\ u # t
  BY <1>2
<1>4. pc[u] = "sequence" /\ want[u] = want[t]
  BY <1>1, <1>2, <1>3 DEF OrderInv
<1>5. WaitsFor(u) = {}
  BY <1>3, <1>4 DEF WaitsFor
<1>6. QED
  BY <1>5

LEMMA OrderKeeps ==
  ASSUME TypeOK, LockInv, OrderInv, [Next]_vars,
         \A t \in Txns, s, x \in Sequences : Allocate(t, s) /\ seqLock[x] = t => x = s
  PROVE  OrderInv'
<1>1. ASSUME NEW t \in Txns, NEW s \in Sequences, Allocate(t, s) PROVE OrderInv'
  <2>1. /\ seqLock' = seqLock /\ companyLock' = companyLock /\ want'[t] = s
        /\ \A u \in Txns \ {t} : pc'[u] = pc[u] /\ want'[u] = want[u]
    BY <1>1 DEF Allocate, locks, TypeOK
  <2>2. \A x \in Sequences : seqLock[x] = t => x = s
    BY <1>1
  <2>3. QED
    BY <2>1, <2>2 DEF OrderInv
<1>2. ASSUME NEW t \in Txns, Begin(t) PROVE OrderInv'
  BY <1>2 DEF OrderInv, Begin, locks, TypeOK
<1>3. ASSUME NEW t \in Txns, LockSequence(t) PROVE OrderInv'
  <2>1. /\ want[t] \in Sequences /\ want' = want /\ companyLock' = companyLock
        /\ \A x \in Sequences : seqLock'[x] = IF x = want[t] THEN t ELSE seqLock[x]
        /\ pc[t] = "sequence" /\ \A u \in Txns \ {t} : pc'[u] = pc[u]
        /\ seqLock[want[t]] \in {None, t}
    BY <1>3 DEF LockSequence, SequenceFree, LockInv, TypeOK
  <2>2. ASSUME NEW u \in Txns, pc'[u] \in {"sequence", "company", "drawing"},
               NEW x \in Sequences, seqLock'[x] = u
        PROVE  x = want'[u]
    BY <2>1, <2>2 DEF OrderInv
  <2>3. ASSUME NEW u \in Txns, companyLock' = u PROVE \E x \in Sequences : seqLock'[x] = u
    BY <2>1, <2>3, NoneIsNone DEF OrderInv
  <2>4. QED
    BY <2>2, <2>3 DEF OrderInv
<1>4. ASSUME NEW t \in Txns, LockCompany(t) PROVE OrderInv'
  <2>1. want[t] \in Sequences /\ seqLock[want[t]] = t
    BY <1>4 DEF LockCompany, LockInv
  <2>2. QED
    BY <1>4, <2>1 DEF OrderInv, LockCompany, TypeOK
<1>5. ASSUME NEW t \in Txns, Draw(t) PROVE OrderInv'
  BY <1>5 DEF OrderInv, Draw, locks, TypeOK
<1>6. ASSUME NEW t \in Txns, Commit(t) \/ Abort(t) PROVE OrderInv'
  <2>1. /\ companyLock' # t /\ (companyLock' = companyLock \/ companyLock' = None)
        /\ \A x \in Sequences : /\ seqLock'[x] # t
                                /\ seqLock[x] # t => seqLock'[x] = seqLock[x]
        /\ \A u \in Txns \ {t} : pc'[u] = pc[u] /\ want'[u] = want[u]
    BY <1>6, NoneIsNone DEF Commit, Abort, Release, TypeOK
  <2>2. ASSUME NEW u \in Txns, pc'[u] \in {"sequence", "company", "drawing"},
               NEW x \in Sequences, seqLock'[x] = u
        PROVE  x = want'[u]
    <3>1. u # t /\ seqLock[x] = u
      BY <1>6, <2>1, <2>2, NoneIsNone DEF Commit, Abort, Release
    <3>2. QED
      BY <2>1, <2>2, <3>1 DEF OrderInv
  <2>3. ASSUME NEW u \in Txns, companyLock' = u PROVE \E x \in Sequences : seqLock'[x] = u
    <3>1. u # t /\ companyLock = u
      BY <2>1, <2>3, NoneIsNone
    <3>2. QED
      BY <2>1, <3>1 DEF OrderInv
  <2>4. QED
    BY <2>2, <2>3 DEF OrderInv
<1>7. CASE ClockStep
  BY <1>7, ClockBase DEF OrderInv
<1>8. CASE UNCHANGED vars
  BY <1>8 DEF vars, locks, txns, OrderInv
<1>9. QED
  BY <1>1, <1>2, <1>3, <1>4, <1>5, <1>6, <1>7, <1>8, VictimAborts
     DEF Next, Proceed, Rollback, ClockStep

(* Transactions that allocate from one sequence each never wait for each   *)
(* other in a circle, though all of them lock the company's row as well:   *)
(* the sequence's row is locked before it.                                 *)
THEOREM OneSequenceNoDeadlock ==
  Spec /\ OneSequenceEach => [](\A t \in Txns : ~Deadlocked(t))
<1>1. Init => OrderInv
  BY NoneIsNone DEF Init, OrderInv
<1>2. ASSUME TypeOK, LockInv, OrderInv, [Next]_vars,
             [\A t \in Txns, s, x \in Sequences :
                 Allocate(t, s) /\ seqLock[x] = t => x = s]_vars
      PROVE  OrderInv'
  <2>1. CASE UNCHANGED vars
    BY <1>2, <2>1 DEF vars, locks, txns, OrderInv
  <2>2. QED
    BY <1>2, <2>1, OrderKeeps
<1>3. TypeOK /\ LockInv /\ OrderInv => \A t \in Txns : ~Deadlocked(t)
  BY NobodyDeadlocked
<1>4. QED
  BY <1>1, <1>2, <1>3, BaseInvariance, PTL DEF Spec, OneSequenceEach
=============================================================================
