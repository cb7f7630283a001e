------------------------------- MODULE Outbox -------------------------------
(***************************************************************************)
(* The durable outbox: OutboxManager.enqueue and claim_batch,              *)
(* OutboxMessage.mark_succeeded and mark_failed, outbox_handlers.dispatch  *)
(* and the run_worker loop, over PostgreSQL at READ COMMITTED.             *)
(*                                                                         *)
(* Each member of Messages is one request that enqueues at most one row    *)
(* inside its own transaction, so it names the request and the row.  A     *)
(* retried request is another member with the same idempotency key.        *)
(*                                                                         *)
(* Left out: payload, company, last_error and the text of results; and     *)
(* locked_at and locked_by, which claim_batch writes and no code reads.    *)
(* A worker's in-memory copy of a claimed row is the row itself here: only *)
(* the holder of a row writes it, which is what ExclusiveClaim shows.      *)
(***************************************************************************)
EXTENDS Naturals, FiniteSets

CONSTANTS
    Messages,       \* enqueueing requests, and the rows they insert
    Workers,        \* run_worker processes
    Jobs,           \* what a request may ask for: see the fields in JobType
    NoKey,          \* the idempotency key of a message that has none
    NoMessage,      \* "no handler is running"
    Registered,     \* topics in _HANDLERS
    BatchSize,      \* claim_batch's limit
    RetryBase,      \* retry_base_seconds
    MaxSignals,     \* bound: SIGTERM or SIGINT is delivered this many times
    MaxCrashes      \* bound: workers are killed this many times

(* storable: whether the handler's result can be written to the JSON       *)
(* column `result' (the column has no encoder: a Decimal or a UUID cannot).*)
ASSUME JobType ==
    \A j \in Jobs : /\ j.max \in Nat \ {0}      \* max_attempts
                    /\ j.delay \in Nat          \* available_at - now
                    /\ j.storable \in BOOLEAN
                    /\ {"key", "topic"} \subseteq DOMAIN j
ASSUME NoMessageIsNone == NoMessage \notin Messages
ASSUME MessagesFinite == IsFiniteSet(Messages)
ASSUME NumberTypes ==
    /\ BatchSize \in Nat \ {0}
    /\ RetryBase \in Nat
    /\ MaxSignals \in Nat
    /\ MaxCrashes \in Nat

VARIABLES
    job,            \* the arguments of each request's enqueue call
    req,            \* how far each request's transaction is
    status,         \* OutboxMessage.status, "absent" while there is no row
    attempts,       \* OutboxMessage.attempts
    available,      \* OutboxMessage.available_at
    created,        \* OutboxMessage.created_at
    now,            \* timezone.now()
    pc,             \* where each worker process is
    stopping,       \* not self._running
    locks,          \* rows a worker's open claim transaction has locked
    batch,          \* claimed messages _process_batch has yet to mark
    current,        \* the message whose handler a worker is running
    signals,        \* how many signals were delivered
    crashes,        \* how many workers were killed
    runs,           \* history: how often each message's handler was started
    failedAt        \* history: when each message's last attempt failed

rows    == <<status, attempts, available, created>>
workers == <<pc, stopping, locks, batch, current, signals, crashes>>
history == <<runs, failedAt>>
vars    == <<job, req, rows, now, workers, history>>

Statuses == {"absent", "pending", "in_progress", "succeeded", "failed", "dead"}
Requests == {"idle", "creating", "inserted", "skipped", "committed", "aborted"}
Pcs      == {"off", "up", "claiming", "handling"}

TypeOK ==
    /\ job \in [Messages -> Jobs]
    /\ req \in [Messages -> Requests]
    /\ status \in [Messages -> Statuses]
    /\ attempts \in [Messages -> Nat]
    /\ available \in [Messages -> Nat]
    /\ created \in [Messages -> Nat]
    /\ now \in Nat
    /\ pc \in [Workers -> Pcs]
    /\ stopping \in [Workers -> BOOLEAN]
    /\ locks \in [Workers -> SUBSET Messages]
    /\ batch \in [Workers -> SUBSET Messages]
    /\ current \in [Workers -> Messages \cup {NoMessage}]
    /\ signals \in Nat
    /\ crashes \in Nat
    /\ runs \in [Messages -> Nat]
    /\ failedAt \in [Messages -> Nat]

Init ==
    /\ job \in [Messages -> Jobs]
    /\ req = [m \in Messages |-> "idle"]
    /\ status = [m \in Messages |-> "absent"]
    /\ attempts = [m \in Messages |-> 0]
    /\ available = [m \in Messages |-> 0]
    /\ created = [m \in Messages |-> 0]
    /\ now = 0
    /\ pc = [w \in Workers |-> "off"]
    /\ stopping = [w \in Workers |-> FALSE]
    /\ locks = [w \in Workers |-> {}]
    /\ batch = [w \in Workers |-> {}]
    /\ current = [w \in Workers |-> NoMessage]
    /\ signals = 0
    /\ crashes = 0
    /\ runs = [m \in Messages |-> 0]
    /\ failedAt = [m \in Messages |-> 0]
-----------------------------------------------------------------------------
(***************************************************************************)
(* Enqueueing.  enqueue looks for the key, then inserts; the caller's      *)
(* transaction commits or rolls back later, and its business change with   *)
(* it.  Two statements of two transactions interleave.                     *)
(***************************************************************************)
Waiting(m)   == status[m] \in {"pending", "failed"}
Committed(m) == req[m] = "committed" /\ status[m] # "absent"
SameKey(m,n) == job[m].key = job[n].key /\ job[m].key # NoKey

(* What exists() sees at READ COMMITTED: the committed rows. *)
KeySeenDirty(m) == \E n \in Messages \ {m} : SameKey(m, n) /\ status[n] # "absent"
KeyTaken(m)     == \E n \in Messages \ {m} : SameKey(m, n) /\ Committed(n)

(* The unique index makes an INSERT wait for the transaction that inserted *)
(* the same key and has not ended, and refuses a committed duplicate.      *)
KeyContended(m) == \E n \in Messages \ {m} : SameKey(m, n) /\ req[n] = "inserted"

Enqueue(m) ==
    /\ req[m] = "idle"
    /\ IF KeyTaken(m)
       THEN /\ req' = [req EXCEPT ![m] = "skipped"]
            /\ UNCHANGED <<available, created>>
       ELSE /\ req' = [req EXCEPT ![m] = "creating"]
            /\ created' = [created EXCEPT ![m] = now]
            /\ available' = [available EXCEPT ![m] = now + job[m].delay]
    /\ UNCHANGED <<job, status, attempts, now, workers, history>>

InsertUnchecked(m) ==
    /\ req[m] = "creating"
    /\ req' = [req EXCEPT ![m] = "inserted"]
    /\ status' = [status EXCEPT ![m] = "pending"]
    /\ UNCHANGED <<job, attempts, available, created, now, workers, history>>

(* The row is written, or IntegrityError ends the caller's transaction. *)
Insert(m) ==
    /\ req[m] = "creating"
    /\ ~KeyContended(m)
    /\ IF KeyTaken(m)
       THEN /\ req' = [req EXCEPT ![m] = "aborted"]
            /\ UNCHANGED status
       ELSE /\ req' = [req EXCEPT ![m] = "inserted"]
            /\ status' = [status EXCEPT ![m] = "pending"]
    /\ UNCHANGED <<job, attempts, available, created, now, workers, history>>

Commit(m) ==
    /\ req[m] \in {"inserted", "skipped"}
    /\ req' = [req EXCEPT ![m] = "committed"]
    /\ UNCHANGED <<job, rows, now, workers, history>>

Rollback(m) ==
    /\ req[m] \in {"creating", "inserted", "skipped"}
    /\ req' = [req EXCEPT ![m] = "aborted"]
    /\ status' = [status EXCEPT ![m] = "absent"]
    /\ UNCHANGED <<job, attempts, available, created, now, workers, history>>
-----------------------------------------------------------------------------
(***************************************************************************)
(* claim_batch: one transaction of two statements.  SELECT ... FOR UPDATE  *)
(* SKIP LOCKED passes over rows another claim has locked; the UPDATE then  *)
(* commits.  With nothing due the worker sleeps and looks again, which     *)
(* changes no state.                                                       *)
(***************************************************************************)
DueUncommitted(m) == Waiting(m) /\ available[m] <= now
Due(m) == Committed(m) /\ Waiting(m) /\ available[m] <= now

LockedIgnored(w) == {}
Locked(w) == UNION {locks[v] : v \in Workers \ {w}}

Before(m, n) ==
    \/ available[m] < available[n]
    \/ available[m] = available[n] /\ created[m] < created[n]

(* The first BatchSize members of S in the order of the query. *)
IsPage(T, S) ==
    /\ T \subseteq S
    /\ Cardinality(T) =
          IF Cardinality(S) < BatchSize THEN Cardinality(S) ELSE BatchSize
    /\ \A t \in T, s \in S \ T : ~Before(s, t)

ClaimSelect(w) ==
    LET free == {m \in Messages : Due(m)} \ Locked(w) IN
    /\ pc[w] = "up" /\ batch[w] = {} /\ ~stopping[w]
    /\ free # {}
    /\ \E T \in SUBSET free :
          /\ IsPage(T, free)
          /\ locks' = [locks EXCEPT ![w] = T]
    /\ pc' = [pc EXCEPT ![w] = "claiming"]
    /\ UNCHANGED <<job, req, rows, now, stopping, batch, current, signals, crashes,
                   history>>

ClaimUpdate(w) ==
    /\ pc[w] = "claiming"
    /\ status' = [m \in Messages |->
                    IF m \in locks[w] THEN "in_progress" ELSE status[m]]
    /\ attempts' = [m \in Messages |->
                      IF m \in locks[w] THEN attempts[m] + 1 ELSE attempts[m]]
    /\ batch' = [batch EXCEPT ![w] = locks[w]]
    /\ locks' = [locks EXCEPT ![w] = {}]
    /\ pc' = [pc EXCEPT ![w] = "up"]
    /\ UNCHANGED <<job, req, available, created, now, stopping, current, signals,
                   crashes, history>>
-----------------------------------------------------------------------------
(***************************************************************************)
(* _process_batch: the claimed messages one by one, in claim order.        *)
(***************************************************************************)
IsNext(w, m) ==
    /\ pc[w] = "up"
    /\ m \in batch[w]
    /\ \A n \in batch[w] : ~Before(n, m)

Known(m) == job[m].topic \in Registered

(* dispatch finds the handler and calls it. *)
Dispatch(w) ==
    \E m \in batch[w] :
        /\ IsNext(w, m) /\ Known(m)
        /\ pc' = [pc EXCEPT ![w] = "handling"]
        /\ current' = [current EXCEPT ![w] = m]
        /\ runs' = [runs EXCEPT ![m] = @ + 1]
        /\ UNCHANGED <<job, req, rows, now, stopping, locks, batch, signals, crashes,
                       failedAt>>

(* HandlerNotRegistered: the copy's attempts are set to the maximum, so    *)
(* mark_failed takes its DEAD branch; the column keeps its value, because  *)
(* save() is given update_fields.                                          *)
DispatchUnknown(w) ==
    \E m \in batch[w] :
        /\ IsNext(w, m) /\ ~Known(m)
        /\ status' = [status EXCEPT ![m] = "dead"]
        /\ batch' = [batch EXCEPT ![w] = @ \ {m}]
        /\ UNCHANGED <<job, req, attempts, available, created, now, pc, stopping,
                       locks, current, signals, crashes, history>>

MarkedAndDropRest(w, m) ==
    /\ pc' = [pc EXCEPT ![w] = "up"]
    /\ current' = [current EXCEPT ![w] = NoMessage]
    /\ batch' = [batch EXCEPT ![w] = {}]
    /\ UNCHANGED <<stopping, locks, signals, crashes>>

(* The worker turns from message m to the rest of its batch. *)
Marked(w, m) ==
    /\ pc' = [pc EXCEPT ![w] = "up"]
    /\ current' = [current EXCEPT ![w] = NoMessage]
    /\ batch' = [batch EXCEPT ![w] = @ \ {m}]
    /\ UNCHANGED <<stopping, locks, signals, crashes>>

MarkSucceeded(w) ==
    /\ pc[w] = "handling"
    /\ job[current[w]].storable
    /\ status' = [status EXCEPT ![current[w]] = "succeeded"]
    /\ Marked(w, current[w])
    /\ UNCHANGED <<job, req, attempts, available, created, now, history>>

BackoffBackwards(n) == RetryBase - RetryBase * 2^n
NoBackoff(n) == 0

(* retry_base_seconds * 2 ** min(n - 1, 8), the powers written out. *)
Doubled(n) == <<1, 2, 4, 8, 16, 32, 64, 128, 256>>[IF n < 9 THEN n ELSE 9]
Backoff(n) == RetryBase * Doubled(n)

ExhaustedLate(m) == attempts[m] > job[m].max
Exhausted(m) == attempts[m] >= job[m].max

(* The handler raised; mark_failed. *)
MarkFailed(w) ==
    LET m == current[w] IN
    /\ pc[w] = "handling"
    /\ IF Exhausted(m)
       THEN /\ status' = [status EXCEPT ![m] = "dead"]
            /\ UNCHANGED available
       ELSE /\ status' = [status EXCEPT ![m] = "failed"]
            /\ available' = [available EXCEPT ![m] = now + Backoff(attempts[m])]
    /\ failedAt' = [failedAt EXCEPT ![m] = now]
    /\ Marked(w, m)
    /\ UNCHANGED <<job, req, attempts, created, now, runs>>
-----------------------------------------------------------------------------
(***************************************************************************)
(* The life of a worker process.  `--once' is the loop of a worker that is *)
(* signalled during its first pass.                                        *)
(***************************************************************************)
Start(w) ==
    /\ pc[w] = "off"
    /\ pc' = [pc EXCEPT ![w] = "up"]
    /\ UNCHANGED <<job, req, rows, now, stopping, locks, batch, current, signals,
                   crashes, history>>

(* SIGTERM and SIGINT only clear self._running. *)
Signal(w) ==
    /\ pc[w] # "off" /\ ~stopping[w]
    /\ signals < MaxSignals
    /\ signals' = signals + 1
    /\ stopping' = [stopping EXCEPT ![w] = TRUE]
    /\ UNCHANGED <<job, req, rows, now, pc, locks, batch, current, crashes, history>>

(* `while self._running' is tested between batches. *)
MayExitAtOnce(w) == pc[w] = "up" /\ stopping[w]
MayExit(w) == pc[w] = "up" /\ batch[w] = {} /\ stopping[w]

Dies(w) ==
    /\ pc' = [pc EXCEPT ![w] = "off"]
    /\ stopping' = [stopping EXCEPT ![w] = FALSE]
    /\ locks' = [locks EXCEPT ![w] = {}]
    /\ batch' = [batch EXCEPT ![w] = {}]
    /\ current' = [current EXCEPT ![w] = NoMessage]
    /\ UNCHANGED <<job, req, rows, now, history>>

Exit(w) ==
    /\ MayExit(w)
    /\ Dies(w)
    /\ UNCHANGED <<signals, crashes>>

(* mark_succeeded is called in the `else' of the try statement: when its   *)
(* save cannot store the handler's result, the exception leaves            *)
(* _process_batch and ends the process, with the rest of the batch         *)
(* claimed.                                                                *)
ResultNotStored(w) ==
    /\ pc[w] = "handling"
    /\ ~job[current[w]].storable
    /\ Dies(w)
    /\ UNCHANGED <<signals, crashes>>

(* SIGKILL, power loss, or the database connection breaking.  An open      *)
(* claim transaction rolls back; a committed claim stays.                  *)
Crash(w) ==
    /\ pc[w] # "off"
    /\ crashes < MaxCrashes
    /\ crashes' = crashes + 1
    /\ Dies(w)
    /\ UNCHANGED signals

(* Time matters only to a row that is not yet due, so it advances only     *)
(* while there is one: this bounds `now' and hides no behaviour of due().  *)
Tick ==
    /\ \E m \in Messages : Waiting(m) /\ available[m] > now
    /\ now' = now + 1
    /\ UNCHANGED <<job, req, rows, workers, history>>
-----------------------------------------------------------------------------
Request(m) == Enqueue(m) \/ Insert(m) \/ Commit(m) \/ Rollback(m)

Work(w) ==
    \/ ClaimSelect(w) \/ ClaimUpdate(w)
    \/ Dispatch(w) \/ DispatchUnknown(w)
    \/ MarkSucceeded(w) \/ MarkFailed(w) \/ ResultNotStored(w)
    \/ Start(w) \/ Exit(w)

Next ==
    \/ \E m \in Messages : Request(m)
    \/ \E w \in Workers : Work(w) \/ Signal(w) \/ Crash(w)
    \/ Tick

Spec == Init /\ [][Next]_vars

(* Workers are supervised and their handlers return or raise; the clock    *)
(* runs.  Nothing is assumed of the requests.                              *)
Fairness == WF_vars(Tick) /\ \A w \in Workers : WF_vars(Work(w))

FairSpec == Spec /\ Fairness
-----------------------------------------------------------------------------
(* No two workers hold the same message, and what a worker holds is marked *)
(* so.  claim_batch promises it: "without any of them blocking or          *)
(* double-claiming a row".                                                 *)
ExclusiveClaim ==
    \A w \in Workers :
        /\ \A m \in batch[w] : status[m] = "in_progress"
        /\ \A v \in Workers \ {w} : batch[v] \cap batch[w] = {}

(* However requests race, a key has one committed message: enqueue's "one  *)
(* email and one integration event rather than two".                       *)
OneMessagePerKey ==
    \A m, n \in Messages :
        m # n /\ Committed(m) /\ Committed(n) => ~SameKey(m, n)

(* A business change that committed left a message behind, its own or the  *)
(* one an earlier request queued under its key: enqueue answering None     *)
(* never loses the message because the earlier request rolled back.        *)
CommittedWorkIsQueued ==
    \A m \in Messages :
        req[m] = "committed" =>
            Committed(m) \/ \E n \in Messages : SameKey(m, n) /\ Committed(n)

(* A handler starts at most once per attempt, and there are at most        *)
(* max_attempts attempts, however claims, failures and deaths interleave.  *)
RunsWithinAttempts ==
    \A m \in Messages : runs[m] <= attempts[m] /\ attempts[m] <= job[m].max

(* A shutdown signal, at any point of the loop, strands no message: only a *)
(* killed worker, or a result that cannot be stored, leaves a row in       *)
(* progress that nobody holds.  (run_worker's _stop: "finishing the        *)
(* current batch".)                                                        *)
NothingStranded ==
    crashes = 0 /\ (\A m \in Messages : job[m].storable) =>
        \A m \in Messages :
            status[m] = "in_progress" => \E w \in Workers : m \in batch[w]

(* The handler of a message that failed its k-th attempt does not start    *)
(* again within RetryBase * 2^(k-1) of that failure (the exponent stops    *)
(* growing at 8), whichever worker claims it: mark_failed's backoff.       *)
RetrySpacing ==
    [][\A m \in Messages :
          LET k == attempts[m] - 1 IN
          runs'[m] # runs[m] /\ k > 0 =>
             now >= failedAt[m] + RetryBase * Doubled(k)]_vars

(* Every committed message is settled in the end, and its handler, if it   *)
(* has one, was started at least once: the module's "at-least-once         *)
(* delivery".                                                              *)
AtLeastOnce ==
    \A m \in Messages :
        Committed(m) ~>
            status[m] \in {"succeeded", "dead"} /\ (Known(m) => runs[m] > 0)
-----------------------------------------------------------------------------
(* The outbox implements the delivery contract: committing a request       *)
(* submits its message, an UPDATE of claim_batch takes one, the mark_*     *)
(* methods retry or settle it.                                             *)
Phase(m) ==
    CASE ~Committed(m)                    -> "absent"
      [] Committed(m) /\ Waiting(m)       -> "waiting"
      [] Committed(m) /\ status[m] = "in_progress" -> "held"
      [] Committed(m) /\ status[m] = "succeeded"   -> "done"
      [] Committed(m) /\ status[m] = "dead"        -> "dead"

Contract == INSTANCE Delivery WITH
    phase <- [m \in Messages |-> Phase(m)],
    tries <- attempts,
    limit <- [m \in Messages |-> job[m].max]

(* Every step of the outbox is a step of the contract or changes nothing   *)
(* the contract speaks of, crashes included.                               *)
ImplementsDelivery == Contract!Spec

(* Without crashes it also keeps the contract's fairness.                  *)
ImplementsFairDelivery == Contract!FairSpec
=============================================================================
