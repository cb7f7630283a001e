---------------------------- MODULE OutboxProofs ----------------------------
(***************************************************************************)
(* Proofs about Outbox, for any requests, workers, jobs and bounds.        *)
(*                                                                         *)
(* The inductive invariant IInv has one part per mechanism: the unique key *)
(* (KeyInv), the row locks of claim_batch (LockInv), what a worker holds   *)
(* (HoldInv), the attempt counter (AttemptInv), the handler runs (RunInv)  *)
(* and the backoff (BackoffInv).                                           *)
(***************************************************************************)
EXTENDS Outbox, FiniteSetTheorems, TLAPS

(* A row exists from its insertion on, waits unclaimed until its request   *)
(* commits, and its key is that of no other row.                           *)
KeyInv ==
    /\ \A m \in Messages :
          /\ req[m] = "inserted" => status[m] = "pending"
          /\ status[m] # "absent" => req[m] \in {"inserted", "committed"}
          /\ req[m] = "skipped" =>
                \E n \in Messages : SameKey(m, n) /\ Committed(n)
    /\ \A m, n \in Messages :
          m # n /\ status[m] # "absent" /\ status[n] # "absent" => ~SameKey(m, n)
    /\ CommittedWorkIsQueued

(* A locked row is due, and locked by one claim only. *)
LockInv ==
    \A w \in Workers :
        /\ pc[w] = "claiming" => batch[w] = {} /\ locks[w] # {}
        /\ pc[w] # "claiming" => locks[w] = {}
        /\ \A m \in locks[w] : Due(m)
        /\ \A v \in Workers \ {w} : locks[v] \cap locks[w] = {}

HoldInv ==
    /\ ExclusiveClaim
    /\ \A w \in Workers :
          /\ \A m \in batch[w] : Committed(m)
          /\ pc[w] = "off" => batch[w] = {}
          /\ pc[w] = "handling" => current[w] \in batch[w]
          /\ pc[w] # "handling" => current[w] = NoMessage

AttemptInv ==
    \A m \in Messages :
        /\ attempts[m] <= job[m].max
        /\ Waiting(m) => attempts[m] < job[m].max
        /\ status[m] \in {"absent", "pending"} => attempts[m] = 0
        /\ status[m] \in {"in_progress", "failed"} => attempts[m] > 0

(* A held message whose handler is not running has a run to spare. *)
RunInv ==
    /\ \A m \in Messages : runs[m] <= attempts[m]
    /\ \A w \in Workers : \A m \in batch[w] :
          m # current[w] => runs[m] < attempts[m]

(* The wait after the last of k failed attempts is over, when it ends at t.*)
WaitOver(m, k, t) == k > 0 => t >= failedAt[m] + RetryBase * Doubled(k)

BackoffInv ==
    /\ \A m \in Messages : Waiting(m) => WaitOver(m, attempts[m], available[m])
    /\ \A w \in Workers : \A m \in batch[w] : WaitOver(m, attempts[m] - 1, now)

IInv == TypeOK /\ KeyInv /\ LockInv /\ HoldInv /\ AttemptInv /\ RunInv /\ BackoffInv
-----------------------------------------------------------------------------
LEMMA DoubledType == \A n \in Nat \ {0} : Doubled(n) \in Nat
  BY DEF Doubled

LEMMA BackoffType == \A n \in Nat \ {0} : Backoff(n) \in Nat
  BY DoubledType, NumberTypes DEF Backoff

(* A page of a nonempty set of messages is not empty. *)
LEMMA PageNonempty ==
  ASSUME NEW S \in SUBSET Messages, NEW T \in SUBSET S, S # {}, IsPage(T, S)
  PROVE  T # {}
<1>1. IsFiniteSet(S) /\ IsFiniteSet(T)
  BY MessagesFinite, FS_Subset
<1>2. Cardinality(S) \in Nat /\ Cardinality(S) # 0
  BY <1>1, FS_EmptySet, FS_CardinalityType
<1>3. Cardinality(T) # 0
  BY <1>2, NumberTypes DEF IsPage
<1>4. QED
  BY <1>3, FS_EmptySet

LEMMA InitIInv == Init => IInv
<1> SUFFICES ASSUME Init PROVE IInv
  OBVIOUS
<1> USE JobType, NumberTypes DEF Init
<1>1. TypeOK
  BY DEF TypeOK, Requests, Statuses, Pcs
<1>2. KeyInv
  BY DEF KeyInv, CommittedWorkIsQueued
<1>3. LockInv /\ HoldInv
  BY DEF LockInv, HoldInv, ExclusiveClaim
<1>4. AttemptInv
  BY DEF AttemptInv, Waiting
<1>5. RunInv /\ BackoffInv
  BY DEF RunInv, BackoffInv, Waiting, WaitOver
<1>6. QED
  BY <1>1, <1>2, <1>3, <1>4, <1>5 DEF IInv

LEMMA EnqueueKeeps ==
  ASSUME IInv, NEW m \in Messages, Enqueue(m)
  PROVE  IInv'
<1> USE Enqueue(m) DEF Enqueue, rows, workers, history
<1>0. TypeOK /\ KeyInv /\ LockInv /\ HoldInv /\ AttemptInv /\ RunInv /\ BackoffInv
  BY DEF IInv
<1>1. TypeOK'
  BY <1>0, JobType, NoMessageIsNone, BackoffType DEF TypeOK, Requests
<1>2. KeyInv'
  BY <1>0, JobType, DoubledType, BackoffType
     DEF TypeOK, KeyInv, CommittedWorkIsQueued, Committed, SameKey, KeyTaken,
         LockInv
<1>3. LockInv'
  BY <1>0 DEF TypeOK, LockInv, Due, Committed, Waiting
<1>4. HoldInv'
  BY <1>0 DEF TypeOK, HoldInv, ExclusiveClaim, Committed
<1>5. AttemptInv' /\ RunInv' /\ BackoffInv'
  BY <1>0 DEF AttemptInv, Waiting, RunInv, TypeOK, KeyInv, BackoffInv, WaitOver
<1>6. QED
  BY <1>1, <1>2, <1>3, <1>4, <1>5 DEF IInv

LEMMA InsertKeeps ==
  ASSUME IInv, NEW m \in Messages, Insert(m)
  PROVE  IInv'
<1> USE Insert(m) DEF Insert, rows, workers, history
<1>0. TypeOK /\ KeyInv /\ LockInv /\ HoldInv /\ AttemptInv /\ RunInv /\ BackoffInv
  BY DEF IInv
<1>1. TypeOK'
  BY <1>0 DEF TypeOK, Requests, Statuses
<1>2. KeyInv'
  <2>1. CASE KeyTaken(m)
    <3>1. \A n \in Messages : Committed(n)' <=> Committed(n)
      BY <1>0, <2>1 DEF TypeOK, Committed
    <3>2. QED
      BY <1>0, <2>1, <3>1 DEF TypeOK, KeyInv, CommittedWorkIsQueued, SameKey
  <2>2. CASE ~KeyTaken(m)
    <3>1. \A n \in Messages : Committed(n)' <=> Committed(n)
      BY <1>0, <2>2 DEF TypeOK, Committed
    <3>2. \A n \in Messages \ {m} : status[n] # "absent" => ~SameKey(m, n)
      BY <1>0, <2>2 DEF KeyInv, KeyTaken, KeyContended, Committed
    <3>3. \A n \in Messages \ {m} :
             status'[n] = status[n] /\ req'[n] = req[n]
      BY <1>0, <2>2 DEF TypeOK
    <3>4. req'[m] = "inserted" /\ status'[m] = "pending"
      BY <1>0, <2>2 DEF TypeOK
    <3>5. ASSUME NEW n \in Messages, NEW k \in Messages, n # k,
                 status'[n] # "absent", status'[k] # "absent"
          PROVE  ~SameKey(n, k)'
      BY <1>0, <3>2, <3>3, <3>5 DEF KeyInv, SameKey
    <3>6. CommittedWorkIsQueued'
      BY <1>0, <3>1, <3>3, <3>4 DEF KeyInv, CommittedWorkIsQueued, SameKey
    <3>7. QED
      BY <1>0, <3>1, <3>3, <3>4, <3>5, <3>6 DEF KeyInv, SameKey
  <2>3. QED
    BY <2>1, <2>2
<1>3. LockInv'
  BY <1>0 DEF TypeOK, LockInv, Due, Committed, Waiting
<1>4. HoldInv'
  BY <1>0 DEF TypeOK, HoldInv, ExclusiveClaim, Committed
<1>5. AttemptInv'
  BY <1>0, JobType DEF TypeOK, AttemptInv, KeyInv, Waiting
<1>6. RunInv'
  BY <1>0 DEF RunInv
<1>7. BackoffInv'
  BY <1>0 DEF TypeOK, BackoffInv, WaitOver, AttemptInv, KeyInv, Waiting
<1>8. QED
  BY <1>1, <1>2, <1>3, <1>4, <1>5, <1>6, <1>7 DEF IInv

LEMMA CommitKeeps ==
  ASSUME IInv, NEW m \in Messages, Commit(m)
  PROVE  IInv'
<1> USE Commit(m) DEF Commit, rows, workers, history
<1>0. TypeOK /\ KeyInv /\ LockInv /\ HoldInv /\ AttemptInv /\ RunInv /\ BackoffInv
  BY DEF IInv
<1>1. TypeOK'
  BY <1>0 DEF TypeOK, Requests
<1>2. KeyInv'
  BY <1>0 DEF KeyInv, CommittedWorkIsQueued, Committed, SameKey
<1>3. LockInv'
  BY <1>0 DEF LockInv, Due, Committed, Waiting
<1>4. HoldInv'
  BY <1>0 DEF HoldInv, ExclusiveClaim, Committed
<1>5. AttemptInv' /\ RunInv' /\ BackoffInv'
  BY <1>0 DEF AttemptInv, Waiting, RunInv, BackoffInv, WaitOver
<1>6. QED
  BY <1>1, <1>2, <1>3, <1>4, <1>5 DEF IInv

LEMMA RollbackKeeps ==
  ASSUME IInv, NEW m \in Messages, Rollback(m)
  PROVE  IInv'
<1> USE Rollback(m) DEF Rollback, rows, workers, history
<1>0. TypeOK /\ KeyInv /\ LockInv /\ HoldInv /\ AttemptInv /\ RunInv /\ BackoffInv
  BY DEF IInv
<1>1. TypeOK'
  BY <1>0 DEF TypeOK, Requests, Statuses
<1>2. KeyInv'
  <2>1. \A n \in Messages : Committed(n)' <=> Committed(n)
    BY <1>0 DEF TypeOK, KeyInv, Committed
  <2>2. QED
    BY <1>0, <2>1 DEF TypeOK, KeyInv, CommittedWorkIsQueued, SameKey
<1>3. LockInv'
  BY <1>0 DEF LockInv, Due, Committed, Waiting
<1>4. HoldInv'
  BY <1>0 DEF HoldInv, ExclusiveClaim, Committed
<1>5. AttemptInv' /\ RunInv' /\ BackoffInv'
  BY <1>0 DEF AttemptInv, KeyInv, Waiting, RunInv, BackoffInv, WaitOver
<1>6. QED
  BY <1>1, <1>2, <1>3, <1>4, <1>5 DEF IInv

LEMMA ClaimSelectKeeps ==
  ASSUME IInv, NEW w \in Workers, ClaimSelect(w)
  PROVE  IInv'
<1> USE ClaimSelect(w) DEF ClaimSelect, rows, workers, history
<1>0. TypeOK /\ KeyInv /\ LockInv /\ HoldInv /\ AttemptInv /\ RunInv /\ BackoffInv
  BY DEF IInv
<1>1. TypeOK'
  BY <1>0 DEF TypeOK, Pcs
<1>2. KeyInv'
  BY <1>0 DEF KeyInv, CommittedWorkIsQueued, Committed, SameKey
<1>3. LockInv'
  <2> DEFINE free == {m \in Messages : Due(m)} \ Locked(w)
  <2>1. PICK T \in SUBSET free : IsPage(T, free) /\ locks' = [locks EXCEPT ![w] = T]
    OBVIOUS
  <2>2. T # {}
    BY <2>1, PageNonempty
  <2>3. \A v \in Workers \ {w} : locks[v] \cap T = {}
    BY <2>1 DEF Locked
  <2>4. \A n \in Messages : Due(n)' <=> Due(n)
    BY DEF Due, Committed, Waiting
  <2>5. QED
    BY <1>0, <2>1, <2>2, <2>3, <2>4 DEF TypeOK, LockInv
<1>4. HoldInv'
  BY <1>0 DEF HoldInv, ExclusiveClaim, Committed
<1>5. AttemptInv' /\ RunInv' /\ BackoffInv'
  BY <1>0 DEF AttemptInv, Waiting, RunInv, BackoffInv, WaitOver
<1>6. QED
  BY <1>1, <1>2, <1>3, <1>4, <1>5 DEF IInv

LEMMA ClaimUpdateKeeps ==
  ASSUME IInv, NEW w \in Workers, ClaimUpdate(w)
  PROVE  IInv'
<1> USE ClaimUpdate(w) DEF ClaimUpdate, rows, workers, history
<1>0. TypeOK /\ KeyInv /\ LockInv /\ HoldInv /\ AttemptInv /\ RunInv /\ BackoffInv
  BY DEF IInv
<1>1. TypeOK'
  BY <1>0 DEF TypeOK, Statuses, Pcs
<1>2. KeyInv'
  BY <1>0 DEF KeyInv, CommittedWorkIsQueued, Committed, SameKey, LockInv, Due
<1>3. LockInv'
  BY <1>0 DEF TypeOK, LockInv, Due, Committed, Waiting
<1>4. HoldInv'
  BY <1>0 DEF TypeOK, HoldInv, LockInv, ExclusiveClaim, Due, Committed, Waiting
<1>5. AttemptInv'
  BY <1>0, JobType DEF TypeOK, AttemptInv, LockInv, Due, Waiting
<1>6. RunInv'
  BY <1>0 DEF TypeOK, RunInv
<1>7. BackoffInv'
  <2>1. ASSUME NEW n \in Messages, Waiting(n)'
        PROVE  WaitOver(n, attempts[n], available[n])'
    BY <1>0, <2>1 DEF TypeOK, BackoffInv, WaitOver, Waiting
  <2>2. ASSUME NEW n \in locks[w]
        PROVE  WaitOver(n, attempts[n] - 1, now)'
    <3>1. WaitOver(n, attempts[n], available[n]) /\ available[n] <= now
      BY <1>0 DEF TypeOK, LockInv, BackoffInv, Due
    <3>2. attempts[n] \in Nat /\ attempts'[n] - 1 = attempts[n]
      BY <1>0 DEF TypeOK
    <3>3. QED
      BY <1>0, <3>1, <3>2, DoubledType, NumberTypes DEF TypeOK, WaitOver
  <2>3. ASSUME NEW v \in Workers, NEW n \in batch[v]
        PROVE  WaitOver(n, attempts[n] - 1, now)'
    BY <1>0, <2>3
       DEF TypeOK, LockInv, HoldInv, ExclusiveClaim, BackoffInv, WaitOver, Due,
           Waiting
  <2>4. QED
    BY <1>0, <2>1, <2>2, <2>3 DEF TypeOK, LockInv, BackoffInv
<1>8. QED
  BY <1>1, <1>2, <1>3, <1>4, <1>5, <1>6, <1>7 DEF IInv

LEMMA DispatchKeeps ==
  ASSUME IInv, NEW w \in Workers, Dispatch(w)
  PROVE  IInv'
<1> USE Dispatch(w) DEF Dispatch, IsNext, rows, workers, history
<1>0. TypeOK /\ KeyInv /\ LockInv /\ HoldInv /\ AttemptInv /\ RunInv /\ BackoffInv
  BY DEF IInv
<1>1. TypeOK'
  BY <1>0 DEF TypeOK, Pcs
<1>2. KeyInv'
  BY <1>0 DEF KeyInv, CommittedWorkIsQueued, Committed, SameKey
<1>3. LockInv'
  BY <1>0 DEF LockInv, Due, Committed, Waiting
<1>4. HoldInv'
  BY <1>0 DEF TypeOK, HoldInv, ExclusiveClaim, Committed
<1>5. AttemptInv'
  BY <1>0 DEF AttemptInv, Waiting
<1>6. RunInv'
  BY <1>0, NoMessageIsNone DEF TypeOK, RunInv, HoldInv, ExclusiveClaim
<1>7. BackoffInv'
  BY <1>0 DEF BackoffInv, WaitOver, Waiting
<1>8. QED
  BY <1>1, <1>2, <1>3, <1>4, <1>5, <1>6, <1>7 DEF IInv

LEMMA DispatchUnknownKeeps ==
  ASSUME IInv, NEW w \in Workers, DispatchUnknown(w)
  PROVE  IInv'
<1> USE DispatchUnknown(w) DEF DispatchUnknown, IsNext, rows, workers, history
<1>0. TypeOK /\ KeyInv /\ LockInv /\ HoldInv /\ AttemptInv /\ RunInv /\ BackoffInv
  BY DEF IInv
<1>1. TypeOK'
  BY <1>0 DEF TypeOK, Statuses
<1>2. KeyInv'
  BY <1>0 DEF KeyInv, CommittedWorkIsQueued, Committed, SameKey, HoldInv
<1>3. LockInv'
  BY <1>0 DEF LockInv, HoldInv, ExclusiveClaim, Due, Committed, Waiting
<1>4. HoldInv'
  BY <1>0 DEF TypeOK, HoldInv, ExclusiveClaim, Committed
<1>5. AttemptInv' /\ RunInv' /\ BackoffInv'
  BY <1>0 DEF AttemptInv, Waiting, RunInv, BackoffInv, WaitOver
<1>6. QED
  BY <1>1, <1>2, <1>3, <1>4, <1>5 DEF IInv

LEMMA MarkSucceededKeeps ==
  ASSUME IInv, NEW w \in Workers, MarkSucceeded(w)
  PROVE  IInv'
<1> USE MarkSucceeded(w) DEF MarkSucceeded, Marked, rows, workers, history
<1>0. TypeOK /\ KeyInv /\ LockInv /\ HoldInv /\ AttemptInv /\ RunInv /\ BackoffInv
  BY DEF IInv
<1>1. TypeOK'
  BY <1>0 DEF TypeOK, Requests, Statuses, Pcs, HoldInv
<1>2. KeyInv'
  BY <1>0 DEF KeyInv, CommittedWorkIsQueued, Committed, SameKey, HoldInv
<1>3. LockInv'
  BY <1>0 DEF LockInv, HoldInv, ExclusiveClaim, Due, Committed, Waiting
<1>4. HoldInv'
  BY <1>0 DEF TypeOK, HoldInv, ExclusiveClaim, Committed
<1>5. AttemptInv' /\ RunInv' /\ BackoffInv'
  BY <1>0 DEF AttemptInv, Waiting, TypeOK, RunInv, BackoffInv, WaitOver
<1>6. QED
  BY <1>1, <1>2, <1>3, <1>4, <1>5 DEF IInv

LEMMA MarkFailedKeeps ==
  ASSUME IInv, NEW w \in Workers, MarkFailed(w)
  PROVE  IInv'
<1> USE MarkFailed(w) DEF MarkFailed, Marked, Exhausted, rows, workers, history
<1>0. TypeOK /\ KeyInv /\ LockInv /\ HoldInv /\ AttemptInv /\ RunInv /\ BackoffInv
  BY DEF IInv
<1>1. TypeOK'
  <2>1. current[w] \in Messages /\ attempts[current[w]] \in Nat \ {0}
    BY <1>0 DEF TypeOK, HoldInv, RunInv, ExclusiveClaim, AttemptInv
  <2>2. now + Backoff(attempts[current[w]]) \in Nat
    BY <1>0, <2>1, BackoffType DEF TypeOK
  <2>3. QED
    BY <1>0, <2>1, <2>2 DEF TypeOK, Requests, Statuses, Pcs
<1>2. KeyInv'
  <2>1. \A n \in Messages : Committed(n)' <=> Committed(n)
    BY <1>0 DEF TypeOK, HoldInv, ExclusiveClaim, Committed
  <2>2. current[w] \in Messages /\ Committed(current[w])
    BY <1>0 DEF TypeOK, HoldInv
  <2>3. QED
    BY <1>0, <2>1, <2>2
       DEF TypeOK, KeyInv, CommittedWorkIsQueued, SameKey, Committed
<1>3. LockInv'
  BY <1>0 DEF TypeOK, LockInv, HoldInv, ExclusiveClaim, Due, Committed, Waiting
<1>4. HoldInv'
  BY <1>0 DEF TypeOK, HoldInv, ExclusiveClaim, Committed
<1>5. AttemptInv'
  BY <1>0, JobType DEF TypeOK, AttemptInv, HoldInv, ExclusiveClaim, Waiting
<1>6. RunInv'
  BY <1>0 DEF TypeOK, RunInv
<1>7. BackoffInv'
  BY <1>0, BackoffType
     DEF TypeOK, BackoffInv, WaitOver, Backoff, HoldInv, ExclusiveClaim, Waiting
<1>8. QED
  BY <1>1, <1>2, <1>3, <1>4, <1>5, <1>6, <1>7 DEF IInv

LEMMA StartKeeps ==
  ASSUME IInv, NEW w \in Workers, Start(w)
  PROVE  IInv'
<1> USE Start(w) DEF Start, rows, workers, history
<1>0. TypeOK /\ KeyInv /\ LockInv /\ HoldInv /\ AttemptInv /\ RunInv /\ BackoffInv
  BY DEF IInv
<1>1. TypeOK'
  BY <1>0 DEF TypeOK, Pcs
<1>2. KeyInv'
  BY <1>0 DEF KeyInv, CommittedWorkIsQueued, Committed, SameKey
<1>3. LockInv'
  BY <1>0 DEF LockInv, Due, Committed, Waiting
<1>4. HoldInv'
  BY <1>0 DEF HoldInv, ExclusiveClaim, Committed
<1>5. AttemptInv' /\ RunInv' /\ BackoffInv'
  BY <1>0 DEF AttemptInv, Waiting, RunInv, BackoffInv, WaitOver
<1>6. QED
  BY <1>1, <1>2, <1>3, <1>4, <1>5 DEF IInv

LEMMA SignalKeeps ==
  ASSUME IInv, NEW w \in Workers, Signal(w)
  PROVE  IInv'
<1> USE Signal(w) DEF Signal, rows, workers, history
<1>0. TypeOK /\ KeyInv /\ LockInv /\ HoldInv /\ AttemptInv /\ RunInv /\ BackoffInv
  BY DEF IInv
<1>1. TypeOK'
  BY <1>0 DEF TypeOK
<1>2. KeyInv'
  BY <1>0 DEF KeyInv, CommittedWorkIsQueued, Committed, SameKey
<1>3. LockInv'
  BY <1>0 DEF LockInv, Due, Committed, Waiting
<1>4. HoldInv'
  BY <1>0 DEF HoldInv, ExclusiveClaim, Committed
<1>5. AttemptInv' /\ RunInv' /\ BackoffInv'
  BY <1>0 DEF AttemptInv, Waiting, RunInv, BackoffInv, WaitOver
<1>6. QED
  BY <1>1, <1>2, <1>3, <1>4, <1>5 DEF IInv

(* However a worker ends, it leaves the rows as they are. *)
LEMMA DiesKeeps ==
  ASSUME IInv, NEW w \in Workers, Dies(w), signals' \in Nat, crashes' \in Nat
  PROVE  IInv'
<1> USE Dies(w) DEF Dies, rows, history
<1>0. TypeOK /\ KeyInv /\ LockInv /\ HoldInv /\ AttemptInv /\ RunInv /\ BackoffInv
  BY DEF IInv
<1>1. TypeOK'
  BY <1>0 DEF TypeOK, Pcs
<1>2. KeyInv'
  BY <1>0 DEF KeyInv, CommittedWorkIsQueued, Committed, SameKey
<1>3. LockInv'
  BY <1>0 DEF TypeOK, LockInv, Due, Committed, Waiting
<1>4. HoldInv'
  BY <1>0 DEF TypeOK, HoldInv, ExclusiveClaim, Committed
<1>5. AttemptInv' /\ RunInv' /\ BackoffInv'
  BY <1>0 DEF TypeOK, AttemptInv, RunInv, BackoffInv, WaitOver, Waiting
<1>6. QED
  BY <1>1, <1>2, <1>3, <1>4, <1>5 DEF IInv

LEMMA TickKeeps ==
  ASSUME IInv, Tick
  PROVE  IInv'
<1> USE Tick DEF Tick, rows, workers, history
<1>0. TypeOK /\ KeyInv /\ LockInv /\ HoldInv /\ AttemptInv /\ RunInv /\ BackoffInv
  BY DEF IInv
<1>1. TypeOK'
  BY <1>0 DEF TypeOK
<1>2. KeyInv'
  BY <1>0 DEF KeyInv, CommittedWorkIsQueued, Committed, SameKey
<1>3. LockInv'
  BY <1>0 DEF TypeOK, LockInv, Due, Committed, Waiting
<1>4. HoldInv'
  BY <1>0 DEF HoldInv, ExclusiveClaim, Committed
<1>5. AttemptInv'
  BY <1>0 DEF AttemptInv, Waiting
<1>6. RunInv'
  BY <1>0 DEF RunInv
<1>7. BackoffInv'
  BY <1>0, BackoffType DEF TypeOK, BackoffInv, WaitOver, Backoff, Waiting
<1>8. QED
  BY <1>1, <1>2, <1>3, <1>4, <1>5, <1>6, <1>7 DEF IInv

LEMMA StepKeeps ==
  ASSUME IInv, [Next]_vars
  PROVE  IInv'
<1>1. ASSUME NEW m \in Messages, Request(m) PROVE IInv'
  BY <1>1, EnqueueKeeps, InsertKeeps, CommitKeeps, RollbackKeeps DEF Request
<1>2. ASSUME NEW w \in Workers, Exit(w) \/ ResultNotStored(w) \/ Crash(w)
      PROVE  IInv'
  <2>1. Dies(w) /\ signals' \in Nat /\ crashes' \in Nat
    BY <1>2 DEF Exit, ResultNotStored, Crash, IInv, TypeOK
  <2>2. QED
    BY <2>1, DiesKeeps
<1>3. ASSUME NEW w \in Workers, Work(w) PROVE IInv'
  BY <1>2, <1>3, ClaimSelectKeeps, ClaimUpdateKeeps, DispatchKeeps,
     DispatchUnknownKeeps, MarkSucceededKeeps, MarkFailedKeeps, StartKeeps
     DEF Work
<1>4. ASSUME NEW w \in Workers, Signal(w) PROVE IInv'
  BY <1>4, SignalKeeps
<1>5. CASE Tick
  BY <1>5, TickKeeps
<1>6. CASE UNCHANGED vars
  <2> USE <1>6 DEF vars, rows, workers, history
  <2>1. TypeOK' /\ KeyInv'
    BY DEF IInv, TypeOK, KeyInv, CommittedWorkIsQueued, Committed, SameKey
  <2>2. LockInv' /\ HoldInv'
    BY DEF IInv, LockInv, HoldInv, ExclusiveClaim, Due, Committed, Waiting
  <2>3. AttemptInv' /\ RunInv' /\ BackoffInv'
    BY DEF IInv, AttemptInv, RunInv, BackoffInv, WaitOver, Waiting
  <2>4. QED
    BY <2>1, <2>2, <2>3 DEF IInv
<1>7. QED
  BY <1>1, <1>2, <1>3, <1>4, <1>5, <1>6 DEF Next

LEMMA Invariance == Spec => []IInv
<1>1. IInv /\ [Next]_vars => IInv'
  BY StepKeeps
<1>2. QED
  BY <1>1, InitIInv, PTL DEF Spec
-----------------------------------------------------------------------------
(* Every variable keeps its type, however requests and workers interleave  *)
(* and crash.                                                              *)
THEOREM OutboxTyped == Spec => []TypeOK
<1>1. IInv => TypeOK
  BY DEF IInv
<1>2. QED
  BY <1>1, Invariance, PTL

(* Two workers never hold one message: claim_batch's SKIP LOCKED.          *)
THEOREM ClaimsExclusive == Spec => []ExclusiveClaim
<1>1. IInv => ExclusiveClaim
  BY DEF IInv, HoldInv
<1>2. QED
  BY <1>1, Invariance, PTL

(* A key has one committed message: enqueue's look and the unique index    *)
(* behind it.                                                              *)
THEOREM KeysHonoured == Spec => []OneMessagePerKey
<1>1. IInv => OneMessagePerKey
  BY DEF IInv, KeyInv, OneMessagePerKey, Committed
<1>2. QED
  BY <1>1, Invariance, PTL

(* A request that committed left its message or an earlier one of its key  *)
(* behind: enqueue answers None only for a committed row.                  *)
THEOREM CommittedWorkKept == Spec => []CommittedWorkIsQueued
<1>1. IInv => CommittedWorkIsQueued
  BY DEF IInv, KeyInv
<1>2. QED
  BY <1>1, Invariance, PTL

(* A handler starts at most once per attempt and max_attempts times in all.*)
THEOREM RunsBounded == Spec => []RunsWithinAttempts
<1>1. IInv => RunsWithinAttempts
  BY DEF IInv, RunInv, AttemptInv, RunsWithinAttempts
<1>2. QED
  BY <1>1, Invariance, PTL

(* Only dispatch starts a handler, of a message whose wait is over.        *)
LEMMA StepSpacesRetries ==
  ASSUME IInv, [Next]_vars, NEW m \in Messages, runs'[m] # runs[m],
         attempts[m] - 1 > 0
  PROVE  now >= failedAt[m] + RetryBase * Doubled(attempts[m] - 1)
<1>1. ASSUME NEW w \in Workers, Dispatch(w)
      PROVE  now >= failedAt[m] + RetryBase * Doubled(attempts[m] - 1)
  <2>1. m \in batch[w]
    BY <1>1 DEF IInv, TypeOK, Dispatch
  <2>2. QED
    BY <2>1 DEF IInv, BackoffInv, WaitOver
<1>2. ASSUME NEW w \in Workers, Work(w), ~Dispatch(w) PROVE FALSE
  BY <1>2 DEF Work, ClaimSelect, ClaimUpdate, DispatchUnknown, MarkSucceeded,
              MarkFailed, ResultNotStored, Start, Exit, Dies, history
<1>3. ASSUME NEW n \in Messages, Request(n) PROVE FALSE
  BY <1>3 DEF Request, Enqueue, Insert, Commit, Rollback, history
<1>4. ASSUME NEW w \in Workers, Signal(w) \/ Crash(w) PROVE FALSE
  BY <1>4 DEF Signal, Crash, Dies, history
<1>5. CASE Tick \/ UNCHANGED vars
  BY <1>5 DEF Tick, vars, history
<1>6. QED
  BY <1>1, <1>2, <1>3, <1>4, <1>5 DEF Next

(* mark_failed's backoff is kept by every worker, whichever claims next.   *)
THEOREM RetriesSpaced == Spec => RetrySpacing
<1>1. IInv /\ [Next]_vars =>
         [\A m \in Messages :
             LET k == attempts[m] - 1 IN
             runs'[m] # runs[m] /\ k > 0 =>
                now >= failedAt[m] + RetryBase * Doubled(k)]_vars
  BY StepSpacesRetries
<1>2. QED
  BY <1>1, Invariance, PTL DEF Spec, RetrySpacing
-----------------------------------------------------------------------------
(* NothingStranded is inductive beside IInv: a worker that is not killed   *)
(* leaves its loop with an empty batch.                                    *)
LEMMA StepStrandsNothing ==
  ASSUME IInv, [Next]_vars, NothingStranded
  PROVE  NothingStranded'
<1> SUFFICES ASSUME crashes' = 0, \A m \in Messages : job'[m].storable,
                    NEW m \in Messages, status'[m] = "in_progress"
             PROVE  \E w \in Workers : m \in batch'[w]
  BY DEF NothingStranded
<1>0. TypeOK /\ LockInv /\ HoldInv
  BY DEF IInv
<1>1. ASSUME crashes = 0, \A n \in Messages : job[n].storable,
             status[m] = "in_progress"
      PROVE  \E w \in Workers : m \in batch[w]
  BY <1>1 DEF NothingStranded
<1>2. ASSUME NEW n \in Messages, Request(n)
      PROVE  \E w \in Workers : m \in batch'[w]
  BY <1>0, <1>1, <1>2 DEF TypeOK, Request, Enqueue, Insert, Commit, Rollback, rows,
                          workers
<1>3. ASSUME NEW w \in Workers, ClaimUpdate(w)
      PROVE  \E v \in Workers : m \in batch'[v]
  <2>1. batch[w] = {} /\ batch'[w] = locks[w]
    BY <1>0, <1>3 DEF TypeOK, LockInv, ClaimUpdate
  <2>2. CASE m \in locks[w]
    BY <2>1, <2>2
  <2>3. CASE m \notin locks[w]
    BY <1>0, <1>1, <1>3, <2>1, <2>3 DEF TypeOK, ClaimUpdate
  <2>4. QED
    BY <2>2, <2>3
<1>4. ASSUME NEW w \in Workers, ClaimSelect(w) \/ Dispatch(w) \/ Start(w)
      PROVE  \E v \in Workers : m \in batch'[v]
  BY <1>1, <1>4 DEF ClaimSelect, Dispatch, Start, rows
<1>5. ASSUME NEW w \in Workers,
             DispatchUnknown(w) \/ MarkSucceeded(w) \/ MarkFailed(w)
      PROVE  \E v \in Workers : m \in batch'[v]
  <2>1. PICK n \in batch[w] :
           /\ status'[n] \in {"succeeded", "failed", "dead"}
           /\ batch' = [batch EXCEPT ![w] = @ \ {n}]
           /\ \A k \in Messages \ {n} : status'[k] = status[k]
           /\ crashes' = crashes /\ job' = job
    BY <1>0, <1>5 DEF TypeOK, HoldInv, DispatchUnknown, MarkSucceeded, MarkFailed,
                      Marked
  <2>2. m # n
    BY <2>1
  <2>3. QED
    BY <1>0, <1>1, <2>1, <2>2 DEF TypeOK
<1>6. ASSUME NEW w \in Workers, Exit(w)
      PROVE  \E v \in Workers : m \in batch'[v]
  BY <1>0, <1>1, <1>6 DEF TypeOK, Exit, MayExit, Dies, rows
<1>7. ASSUME NEW w \in Workers, ResultNotStored(w) PROVE FALSE
  BY <1>0, <1>7 DEF TypeOK, HoldInv, ResultNotStored, Dies
<1>8. ASSUME NEW w \in Workers, Signal(w) \/ Crash(w)
      PROVE  \E v \in Workers : m \in batch'[v]
  BY <1>0, <1>1, <1>8 DEF TypeOK, Signal, Crash, rows
<1>9. CASE Tick \/ UNCHANGED vars
  BY <1>1, <1>9 DEF Tick, vars, rows, workers
<1>10. QED
  BY <1>2, <1>3, <1>4, <1>5, <1>6, <1>7, <1>8, <1>9 DEF Next, Work

(* While no worker is killed and every result can be stored, no message    *)
(* stays in progress without a worker that holds it.                       *)
THEOREM ShutdownStrandsNothing == Spec => []NothingStranded
<1>1. Init => NothingStranded
  BY DEF Init, NothingStranded
<1>2. IInv /\ NothingStranded /\ [Next]_vars => NothingStranded'
  BY StepStrandsNothing
<1>3. QED
  BY <1>1, <1>2, Invariance, PTL DEF Spec
-----------------------------------------------------------------------------
(* What killed workers leave behind: rows in progress that nobody holds,   *)
(* and that due() never selects.                                           *)
Stranded ==
    {m \in Messages : status[m] = "in_progress" /\ \A w \in Workers : m \notin batch[w]}

(* No claim is larger than claim_batch's limit. *)
ClaimSizes ==
    \A w \in Workers : Cardinality(locks[w]) <= BatchSize /\ Cardinality(batch[w]) <= BatchSize

LossBounded ==
    (\A m \in Messages : job[m].storable) => Cardinality(Stranded) <= BatchSize * crashes

LEMMA SubsetSize ==
  ASSUME NEW T \in SUBSET Messages, NEW S \in SUBSET T
  PROVE  /\ IsFiniteSet(S) /\ IsFiniteSet(T)
         /\ Cardinality(S) \in Nat /\ Cardinality(T) \in Nat
         /\ Cardinality(S) <= Cardinality(T)
<1>1. IsFiniteSet(T)
  BY MessagesFinite, FS_Subset
<1>2. IsFiniteSet(S) /\ Cardinality(S) <= Cardinality(T)
  BY <1>1, FS_Subset
<1>3. QED
  BY <1>1, <1>2, FS_CardinalityType

LEMMA EmptySize == Cardinality({}) <= BatchSize
  BY FS_EmptySet, NumberTypes

LEMMA PageSize ==
  ASSUME NEW S \in SUBSET Messages, NEW T, IsPage(T, S)
  PROVE  Cardinality(T) <= BatchSize
<1>1. Cardinality(S) \in Nat
  BY SubsetSize
<1>2. QED
  BY <1>1, NumberTypes DEF IsPage

LEMMA ClaimSizesStep ==
  ASSUME TypeOK, ClaimSizes, [Next]_vars
  PROVE  ClaimSizes'
<1> SUFFICES ASSUME NEW v \in Workers
             PROVE  Cardinality(locks'[v]) <= BatchSize /\ Cardinality(batch'[v]) <= BatchSize
  BY DEF ClaimSizes
<1>0. /\ Cardinality(locks[v]) <= BatchSize /\ Cardinality(batch[v]) <= BatchSize
      /\ locks[v] \in SUBSET Messages /\ batch[v] \in SUBSET Messages
  BY DEF ClaimSizes, TypeOK
<1>1. ASSUME NEW w \in Workers, ClaimSelect(w)
      PROVE  Cardinality(locks'[v]) <= BatchSize /\ Cardinality(batch'[v]) <= BatchSize
  <2> DEFINE free == {m \in Messages : Due(m)} \ Locked(w)
  <2>1. PICK T \in SUBSET free : IsPage(T, free) /\ locks' = [locks EXCEPT ![w] = T]
    BY <1>1 DEF ClaimSelect
  <2>2. Cardinality(T) <= BatchSize
    BY <2>1, PageSize
  <2>3. batch' = batch
    BY <1>1 DEF ClaimSelect
  <2>4. QED
    BY <1>0, <2>1, <2>2, <2>3 DEF TypeOK
<1>2. ASSUME NEW w \in Workers, ClaimUpdate(w)
      PROVE  Cardinality(locks'[v]) <= BatchSize /\ Cardinality(batch'[v]) <= BatchSize
  BY <1>0, <1>2, EmptySize DEF ClaimUpdate, TypeOK
<1>3. ASSUME NEW w \in Workers,
             DispatchUnknown(w) \/ MarkSucceeded(w) \/ MarkFailed(w)
      PROVE  Cardinality(locks'[v]) <= BatchSize /\ Cardinality(batch'[v]) <= BatchSize
  <2>1. locks' = locks /\ batch'[v] \in SUBSET batch[v]
    BY <1>3 DEF DispatchUnknown, MarkSucceeded, MarkFailed, Marked, TypeOK
  <2>2. Cardinality(batch'[v]) \in Nat /\ Cardinality(batch[v]) \in Nat
        /\ Cardinality(batch'[v]) <= Cardinality(batch[v])
    BY <1>0, <2>1, SubsetSize
  <2>3. QED
    BY <1>0, <2>1, <2>2, NumberTypes
<1>4. ASSUME NEW w \in Workers, Exit(w) \/ ResultNotStored(w) \/ Crash(w)
      PROVE  Cardinality(locks'[v]) <= BatchSize /\ Cardinality(batch'[v]) <= BatchSize
  <2>1. Dies(w)
    BY <1>4 DEF Exit, ResultNotStored, Crash
  <2>2. QED
    BY <1>0, <2>1, EmptySize DEF Dies, TypeOK
<1>5. ASSUME NEW w \in Workers, Dispatch(w) \/ Start(w) \/ Signal(w)
      PROVE  locks' = locks /\ batch' = batch
  BY <1>5 DEF Dispatch, Start, Signal
<1>6. ASSUME NEW m \in Messages, Request(m) PROVE locks' = locks /\ batch' = batch
  BY <1>6 DEF Request, Enqueue, Insert, Commit, Rollback, workers
<1>7. CASE Tick \/ UNCHANGED vars
  BY <1>0, <1>7 DEF Tick, vars, workers
<1>8. QED
  BY <1>0, <1>1, <1>2, <1>3, <1>4, <1>5, <1>6, <1>7 DEF Next, Work

(* A step strands nothing that was not stranded, but the batch of the      *)
(* worker it ends.                                                         *)
LEMMA StrandedStep ==
  ASSUME IInv, [Next]_vars, \A m \in Messages : job'[m].storable
  PROVE  \/ Stranded' \subseteq Stranded /\ crashes' = crashes
         \/ \E w \in Workers : /\ Stranded' \subseteq Stranded \cup batch[w]
                               /\ crashes' = crashes + 1
<1>0. TypeOK /\ LockInv /\ HoldInv
  BY DEF IInv
<1>1. ASSUME NEW n \in Messages, Request(n)
      PROVE  Stranded' \subseteq Stranded /\ crashes' = crashes
  <2>1. /\ batch' = batch /\ crashes' = crashes
        /\ \A m \in Messages : status'[m] = "in_progress" => status[m] = "in_progress"
    BY <1>0, <1>1 DEF TypeOK, Request, Enqueue, Insert, Commit, Rollback, rows, workers
  <2>2. QED
    BY <2>1 DEF Stranded
<1>2. ASSUME NEW w \in Workers, ClaimUpdate(w)
      PROVE  Stranded' \subseteq Stranded /\ crashes' = crashes
  <2>1. /\ batch[w] = {} /\ batch'[w] = locks[w] /\ crashes' = crashes
        /\ \A v \in Workers \ {w} : batch'[v] = batch[v]
        /\ \A m \in Messages \ locks[w] : status'[m] = status[m]
    BY <1>0, <1>2 DEF TypeOK, LockInv, ClaimUpdate
  <2>2. QED
    BY <2>1 DEF Stranded
<1>3. ASSUME NEW w \in Workers, ClaimSelect(w) \/ Dispatch(w) \/ Start(w) \/ Signal(w)
      PROVE  Stranded' \subseteq Stranded /\ crashes' = crashes
  BY <1>3 DEF ClaimSelect, Dispatch, Start, Signal, rows, Stranded
<1>4. ASSUME NEW w \in Workers,
             DispatchUnknown(w) \/ MarkSucceeded(w) \/ MarkFailed(w)
      PROVE  Stranded' \subseteq Stranded /\ crashes' = crashes
  <2>1. PICK n \in batch[w] :
           /\ status'[n] \in {"succeeded", "failed", "dead"}
           /\ batch' = [batch EXCEPT ![w] = @ \ {n}]
           /\ \A k \in Messages \ {n} : status'[k] = status[k]
           /\ crashes' = crashes
    BY <1>0, <1>4 DEF TypeOK, HoldInv, DispatchUnknown, MarkSucceeded, MarkFailed,
                      Marked
  <2>2. \A m \in Messages \ {n}, v \in Workers : m \in batch[v] => m \in batch'[v]
    BY <1>0, <2>1 DEF TypeOK
  <2>3. QED
    BY <2>1, <2>2 DEF Stranded
<1>5. ASSUME NEW w \in Workers, Exit(w)
      PROVE  Stranded' \subseteq Stranded /\ crashes' = crashes
  <2>1. /\ status' = status /\ crashes' = crashes
        /\ \A v \in Workers : batch'[v] = batch[v]
    BY <1>0, <1>5 DEF TypeOK, Exit, MayExit, Dies, rows
  <2>2. QED
    BY <2>1 DEF Stranded
<1>6. ASSUME NEW w \in Workers, ResultNotStored(w) PROVE FALSE
  BY <1>0, <1>6 DEF TypeOK, HoldInv, ResultNotStored, Dies
<1>7. ASSUME NEW w \in Workers, Crash(w)
      PROVE  Stranded' \subseteq Stranded \cup batch[w] /\ crashes' = crashes + 1
  <2>1. /\ status' = status /\ crashes' = crashes + 1
        /\ \A v \in Workers \ {w} : batch'[v] = batch[v]
    BY <1>0, <1>7 DEF TypeOK, Crash, Dies, rows
  <2>2. QED
    BY <2>1 DEF Stranded
<1>8. CASE Tick \/ UNCHANGED vars
  BY <1>8 DEF Tick, vars, rows, workers, Stranded
<1>9. QED
  BY <1>1, <1>2, <1>3, <1>4, <1>5, <1>6, <1>7, <1>8 DEF Next, Work

LEMMA LossStep ==
  ASSUME IInv, ClaimSizes, LossBounded, [Next]_vars
  PROVE  LossBounded'
<1> SUFFICES ASSUME \A m \in Messages : job'[m].storable
             PROVE  Cardinality(Stranded') <= BatchSize * crashes'
  BY DEF LossBounded
<1>0. TypeOK /\ job' = job
  BY DEF IInv, Next, Work, Request, Enqueue, Insert, Commit, Rollback, ClaimSelect,
         ClaimUpdate, Dispatch, DispatchUnknown, MarkSucceeded, MarkFailed, Start, Exit,
         ResultNotStored, Signal, Crash, Dies, Tick, vars
<1>1. Cardinality(Stranded) <= BatchSize * crashes
  BY <1>0 DEF LossBounded
<1>2. Stranded \in SUBSET Messages /\ Stranded' \in SUBSET Messages
  BY DEF Stranded
<1>3. Cardinality(Stranded) \in Nat /\ IsFiniteSet(Stranded)
  BY <1>2, SubsetSize
<1>4. crashes \in Nat /\ BatchSize \in Nat /\ BatchSize * crashes \in Nat
  BY <1>0, NumberTypes DEF TypeOK
<1>5. CASE Stranded' \subseteq Stranded /\ crashes' = crashes
  <2>1. Cardinality(Stranded') <= Cardinality(Stranded) /\ Cardinality(Stranded') \in Nat
    BY <1>2, <1>5, SubsetSize
  <2>2. QED
    BY <1>1, <1>3, <1>4, <1>5, <2>1
<1>6. ASSUME NEW w \in Workers, Stranded' \subseteq Stranded \cup batch[w],
             crashes' = crashes + 1
      PROVE  Cardinality(Stranded') <= BatchSize * crashes'
  <2>1. batch[w] \in SUBSET Messages
    BY <1>0 DEF TypeOK
  <2>2. Cardinality(batch[w]) \in Nat /\ IsFiniteSet(batch[w])
    BY <2>1, SubsetSize
  <2>3. Cardinality(batch[w]) <= BatchSize
    BY DEF ClaimSizes
  <2>4. /\ Cardinality(Stranded \cup batch[w]) =
             Cardinality(Stranded) + Cardinality(batch[w]) - Cardinality(Stranded \cap batch[w])
        /\ Cardinality(Stranded \cap batch[w]) \in Nat
        /\ Cardinality(Stranded \cup batch[w]) \in Nat
        /\ Cardinality(Stranded') \in Nat
        /\ Cardinality(Stranded') <= Cardinality(Stranded \cup batch[w])
    BY <1>2, <1>3, <1>6, <2>1, <2>2, FS_Union, SubsetSize
  <2>5. Cardinality(Stranded') <= BatchSize * crashes + BatchSize
    BY <1>1, <1>3, <1>4, <2>2, <2>3, <2>4
  <2>6. BatchSize * (crashes + 1) = BatchSize * crashes + BatchSize
    BY <1>4
  <2>7. QED
    BY <1>6, <2>5, <2>6
<1>7. QED
  BY <1>5, <1>6, StrandedStep

(* Each kill of a worker loses at most one batch, however many workers run *)
(* and whenever they are killed: after k kills no more than k times        *)
(* BatchSize messages are in progress for ever, if results can be stored.  *)
THEOREM KillsLoseABatchEach == Spec => []LossBounded
<1>1. Init => ClaimSizes /\ LossBounded
  <2>1. Init => Stranded = {} /\ crashes = 0
    BY DEF Init, Stranded
  <2>2. BatchSize * 0 = 0
    BY NumberTypes
  <2>3. Init => ClaimSizes
    BY EmptySize DEF Init, ClaimSizes
  <2>4. Init => Cardinality(Stranded) = 0
    BY <2>1, FS_EmptySet
  <2>5. QED
    BY <2>1, <2>2, <2>3, <2>4 DEF LossBounded
<1>2. IInv => TypeOK
  BY DEF IInv
<1>3. TypeOK /\ ClaimSizes /\ [Next]_vars => ClaimSizes'
  BY ClaimSizesStep
<1>4. IInv /\ ClaimSizes /\ LossBounded /\ [Next]_vars => LossBounded'
  BY LossStep
<1>5. QED
  BY <1>1, <1>2, <1>3, <1>4, Invariance, PTL DEF Spec
-----------------------------------------------------------------------------
LEMMA InitContract == Init => Contract!Init
<1> SUFFICES ASSUME Init PROVE Contract!Init
  OBVIOUS
<1>1. \A m \in Messages : Phase(m) = "absent"
  BY DEF Init, Phase, Committed
<1>2. [m \in Messages |-> job[m].max] \in [Messages -> Nat \ {0}]
  BY JobType DEF Init
<1>3. QED
  BY <1>1, <1>2 DEF Init, Contract!Init

(* A step in which every phase, count and limit stays is a stutter of the  *)
(* contract.                                                               *)
LEMMA ContractStutters ==
  ASSUME job' = job, attempts' = attempts,
         \A m \in Messages : Phase(m)' = Phase(m)
  PROVE  UNCHANGED Contract!vars
  BY DEF Contract!vars

(* So is one that touches only workers, times and history.                 *)
LEMMA UnseenStutters ==
  ASSUME job' = job, attempts' = attempts, req' = req, status' = status
  PROVE  UNCHANGED Contract!vars
<1>1. \A m \in Messages : Phase(m)' = Phase(m)
  BY DEF Phase, Committed, Waiting
<1>2. QED
  BY <1>1, ContractStutters

LEMMA RequestRefines ==
  ASSUME IInv, NEW m \in Messages, Request(m)
  PROVE  [Contract!Next]_(Contract!vars)
<1>0. TypeOK /\ KeyInv
  BY DEF IInv
<1>1. CASE Enqueue(m) \/ Insert(m) \/ Rollback(m)
  <2>1. \A n \in Messages : ~Committed(n) => Phase(n) = "absent"
    BY DEF Phase
  <2>2. \A n \in Messages : (Committed(n)' <=> Committed(n))
    BY <1>0, <1>1 DEF TypeOK, KeyInv, Committed, Enqueue, Insert, Rollback
  <2>3. \A n \in Messages : Committed(n) => status'[n] = status[n]
    BY <1>0, <1>1 DEF TypeOK, KeyInv, Committed, Enqueue, Insert, Rollback, rows
  <2>4. \A n \in Messages : Phase(n)' = Phase(n)
    BY <2>2, <2>3 DEF Phase, Waiting
  <2>5. QED
    BY <1>1, <2>4, ContractStutters DEF Enqueue, Insert, Rollback, rows
<1>2. CASE Commit(m) /\ status[m] = "absent"
  <2>1. \A n \in Messages : Phase(n)' = Phase(n)
    BY <1>0, <1>2 DEF TypeOK, Commit, rows, Phase, Committed, Waiting
  <2>2. QED
    BY <1>2, <2>1, ContractStutters DEF Commit, rows
<1>3. CASE Commit(m) /\ status[m] # "absent"
  <2>1. status[m] = "pending" /\ status' = status
    BY <1>0, <1>3 DEF KeyInv, Commit, rows
  <2>2. Phase(m) = "absent" /\ Phase(m)' = "waiting"
    BY <1>0, <1>3, <2>1 DEF TypeOK, Commit, Phase, Committed, Waiting
  <2>3. \A n \in Messages \ {m} : Phase(n)' = Phase(n)
    BY <1>0, <1>3, <2>1 DEF TypeOK, Commit, Phase, Committed, Waiting
  <2>4. Contract!Submit(m)
    BY <1>3, <2>2, <2>3 DEF Contract!Submit, Commit, rows
  <2>5. QED
    BY <2>4 DEF Contract!Next
<1>4. QED
  BY <1>1, <1>2, <1>3 DEF Request

LEMMA ClaimUpdateRefines ==
  ASSUME IInv, NEW w \in Workers, ClaimUpdate(w)
  PROVE  Contract!Next
<1> DEFINE S == locks[w]
<1>0. TypeOK /\ LockInv /\ AttemptInv
  BY DEF IInv
<1>1. S \in SUBSET Messages /\ S # {}
  BY <1>0 DEF TypeOK, LockInv, ClaimUpdate
<1>2. \A m \in S : Phase(m) = "waiting" /\ attempts[m] < job[m].max
  BY <1>0, <1>1 DEF LockInv, AttemptInv, Due, Phase, Committed, Waiting
<1>3. \A m \in S : Phase(m)' = "held"
  BY <1>0, <1>1 DEF LockInv, Due, Phase, Committed, Waiting, ClaimUpdate
<1>4. \A m \in Messages \ S : Phase(m)' = Phase(m)
  BY DEF Phase, Committed, Waiting, ClaimUpdate
<1>5. Contract!Take(S)
  BY <1>1, <1>2, <1>3, <1>4 DEF Contract!Take, ClaimUpdate
<1>6. QED
  BY <1>1, <1>5 DEF Contract!Next

(* Marking message m moves it alone, out of the hands of its worker. *)
LEMMA MarkRefines ==
  ASSUME IInv, NEW w \in Workers, NEW m \in batch[w],
         status'[m] \in {"succeeded", "failed", "dead"},
         status'[m] = "failed" => attempts[m] < job[m].max,
         \A n \in Messages \ {m} : status'[n] = status[n],
         job' = job, req' = req, attempts' = attempts
  PROVE  Contract!Next
<1>1. m \in Messages /\ Committed(m) /\ status[m] = "in_progress"
  BY DEF IInv, TypeOK, HoldInv, ExclusiveClaim
<1>2. Phase(m) = "held"
  BY <1>1 DEF Phase, Waiting
<1>3. \A n \in Messages \ {m} : Phase(n)' = Phase(n)
  BY DEF Phase, Committed, Waiting
<1>4. CASE status'[m] = "failed"
  <2>1. Phase(m)' = "waiting"
    BY <1>1, <1>4 DEF Phase, Committed, Waiting
  <2>2. Contract!Retry(m)
    BY <1>1, <1>2, <1>3, <1>4, <2>1 DEF Contract!Retry
  <2>3. QED
    BY <1>1, <2>2 DEF Contract!Next
<1>5. CASE status'[m] \in {"succeeded", "dead"}
  <2>1. Phase(m)' \in {"done", "dead"}
    BY <1>1, <1>5 DEF Phase, Committed, Waiting
  <2>2. Contract!Settle(m)
    BY <1>1, <1>2, <1>3, <2>1 DEF Contract!Settle, Contract!Settled
  <2>3. QED
    BY <1>1, <2>2 DEF Contract!Next
<1>6. QED
  BY <1>4, <1>5

LEMMA WorkRefines ==
  ASSUME IInv, NEW w \in Workers, Work(w)
  PROVE  [Contract!Next]_(Contract!vars)
<1>0. TypeOK /\ HoldInv /\ AttemptInv
  BY DEF IInv
<1>1. CASE ClaimUpdate(w)
  BY <1>1, ClaimUpdateRefines
<1>2. CASE DispatchUnknown(w)
  <2>1. PICK m \in batch[w] : status' = [status EXCEPT ![m] = "dead"]
    BY <1>2 DEF DispatchUnknown
  <2>2. QED
    BY <1>0, <1>2, <2>1, MarkRefines DEF TypeOK, DispatchUnknown
<1>3. CASE MarkSucceeded(w)
  <2>1. current[w] \in batch[w] /\ current[w] \in Messages
    BY <1>0, <1>3 DEF TypeOK, HoldInv, MarkSucceeded
  <2>2. QED
    BY <1>0, <1>3, <2>1, MarkRefines DEF TypeOK, MarkSucceeded
<1>4. CASE MarkFailed(w)
  <2>1. current[w] \in batch[w] /\ current[w] \in Messages
    BY <1>0, <1>4 DEF TypeOK, HoldInv, MarkFailed
  <2>2. /\ status'[current[w]] \in {"failed", "dead"}
        /\ status'[current[w]] = "failed" => ~Exhausted(current[w])
        /\ \A n \in Messages \ {current[w]} : status'[n] = status[n]
        /\ job' = job /\ req' = req /\ attempts' = attempts
    BY <1>0, <1>4, <2>1 DEF TypeOK, MarkFailed
  <2>3. attempts[current[w]] \in Nat /\ job[current[w]].max \in Nat
    BY <1>0, <2>1, JobType DEF TypeOK
  <2>4. QED
    BY <2>1, <2>2, <2>3, MarkRefines DEF Exhausted
<1>5. CASE ClaimSelect(w) \/ Dispatch(w) \/ ResultNotStored(w) \/ Start(w) \/ Exit(w)
  BY <1>5, UnseenStutters DEF ClaimSelect, Dispatch, ResultNotStored, Start, Exit,
                              Dies, rows
<1>6. QED
  BY <1>1, <1>2, <1>3, <1>4, <1>5 DEF Work

(* The outbox implements the delivery contract, crashes and all. *)
THEOREM OutboxImplementsDelivery == Spec => ImplementsDelivery
<1>1. ASSUME IInv, [Next]_vars PROVE [Contract!Next]_(Contract!vars)
  <2>1. ASSUME NEW m \in Messages, Request(m)
        PROVE  [Contract!Next]_(Contract!vars)
    BY <1>1, <2>1, RequestRefines
  <2>2. ASSUME NEW w \in Workers, Work(w)
        PROVE  [Contract!Next]_(Contract!vars)
    BY <1>1, <2>2, WorkRefines
  <2>3. CASE (\E w \in Workers : Signal(w) \/ Crash(w)) \/ Tick \/ UNCHANGED vars
    BY <2>3, UnseenStutters DEF Signal, Crash, Dies, Tick, vars, rows
  <2>4. QED
    BY <1>1, <2>1, <2>2, <2>3 DEF Next
<1>2. QED
  BY <1>1, InitContract, Invariance, PTL DEF Spec, ImplementsDelivery, Contract!Spec

(* So what the contract promises holds of the outbox: a message that       *)
(* succeeded or died is never revived, claimed or tried again.             *)
THEOREM OutboxSettles == Spec => Contract!SettledForGood
<1>1. Contract!Spec => Contract!SettledForGood
  BY Contract!ContractSettles
<1>2. QED
  BY <1>1, OutboxImplementsDelivery DEF ImplementsDelivery
=============================================================================
