-------------------------- MODULE DocumentSequence --------------------------
(***************************************************************************)
(* DocumentSequence.allocate: numbers for customer documents, drawn inside *)
(* the caller's transaction from a row that stays locked until it ends.    *)
(*                                                                         *)
(* The query is SELECT ... FOR UPDATE of the sequence joined with its      *)
(* company (select_related), and so locks two rows: the sequence's, then   *)
(* the company's, the one row all sequences share.  The period of the      *)
(* number is computed afterwards, from the clock and from the time zone of *)
(* the company row just locked.                                            *)
(*                                                                         *)
(* Each member of Txns is one transaction of one request.  A locked row    *)
(* has its holder's version in `row' and its committed one in `saved':     *)
(* nobody but the holder reads the former.  A reference is a triple        *)
(* <<sequence, period, number>>; its prefix and its padding are left out,  *)
(* and so is the choice not to print the period.                           *)
(***************************************************************************)
EXTENDS Integers, FiniteSets

CONSTANTS
    Txns,           \* transactions that may allocate
    Sequences,      \* the company's DocumentSequence rows
    Starts,         \* when each sequence's periods begin; {} if it never resets
    Zones,          \* offsets of the time zones a company may choose
    None,           \* no transaction, no sequence
    MaxDraws,       \* bound: references per transaction
    MaxTime,        \* bound: the last instant
    MaxZoneChanges  \* bound: how often an administrator changes the zone

ASSUME TxnsFinite == IsFiniteSet(Txns)
ASSUME NoneIsNone == None \notin Txns \cup Sequences
ASSUME StartsType ==
    \A s \in Sequences :
        /\ IsFiniteSet(Starts[s])
        /\ Starts[s] \subseteq Nat
        /\ Starts[s] # {} => 0 \in Starts[s]
ASSUME BoundTypes ==
    /\ Zones \subseteq Nat /\ Zones # {}
    /\ MaxDraws \in Nat /\ MaxTime \in Nat /\ MaxZoneChanges \in Nat

VARIABLES
    row,            \* each sequence's row as its lock holder sees it
    saved,          \* each sequence's row as last committed
    seqLock,        \* who holds the row lock of each sequence
    companyLock,    \* who holds the row lock of the company
    pc,             \* where each transaction is
    want,           \* the sequence a transaction is allocating from
    drawn,          \* the references each transaction has been given
    given,          \* how many times it was given one
    now,            \* the clock, in UTC
    zone,           \* the company's time zone
    zoneChanges     \* how often it was changed

locks == <<seqLock, companyLock>>
txns  == <<pc, want, drawn, given>>
clock == <<now, zone, zoneChanges>>
vars  == <<row, saved, locks, txns, clock>>

Pcs   == {"idle", "open", "sequence", "company", "drawing", "committed", "aborted"}
Ended == {"committed", "aborted"}

(* current_period is "", 0 here, until the first allocation. *)
Row       == [period : Nat, next : Nat \ {0}]
Reference == Sequences \X Nat \X (Nat \ {0})

TypeOK ==
    /\ row \in [Sequences -> Row]
    /\ saved \in [Sequences -> Row]
    /\ seqLock \in [Sequences -> Txns \cup {None}]
    /\ companyLock \in Txns \cup {None}
    /\ pc \in [Txns -> Pcs]
    /\ want \in [Txns -> Sequences \cup {None}]
    /\ drawn \in [Txns -> SUBSET Reference]
    /\ given \in [Txns -> Nat]
    /\ now \in Nat
    /\ zone \in Zones
    /\ zoneChanges \in Nat

Init ==
    /\ row = [s \in Sequences |-> [period |-> 0, next |-> 1]]
    /\ saved = row
    /\ seqLock = [s \in Sequences |-> None]
    /\ companyLock = None
    /\ pc = [t \in Txns |-> "idle"]
    /\ want = [t \in Txns |-> None]
    /\ drawn = [t \in Txns |-> {}]
    /\ given = [t \in Txns |-> 0]
    /\ now = 0
    /\ zone \in Zones
    /\ zoneChanges = 0
-----------------------------------------------------------------------------
(* _period_token: how many of the sequence's periods have begun by today's *)
(* date in the company's zone.  "" is 0: the period of one that never      *)
(* resets.                                                                 *)
Token(s) == Cardinality({p \in Starts[s] : p <= now + zone})

Begin(t) ==
    /\ pc[t] = "idle"
    /\ pc' = [pc EXCEPT ![t] = "open"]
    /\ UNCHANGED <<row, saved, locks, want, drawn, given, clock>>

(* allocate is called: outside a transaction it raises at once. *)
Allocate(t, s) ==
    /\ pc[t] = "open"
    /\ given[t] < MaxDraws
    /\ pc' = [pc EXCEPT ![t] = "sequence"]
    /\ want' = [want EXCEPT ![t] = s]
    /\ UNCHANGED <<row, saved, locks, drawn, given, clock>>

SequenceFreeAlways(t) == TRUE
SequenceFree(t) == seqLock[want[t]] \in {None, t}

LockSequence(t) ==
    /\ pc[t] = "sequence"
    /\ SequenceFree(t)
    /\ seqLock' = [seqLock EXCEPT ![want[t]] = t]
    /\ pc' = [pc EXCEPT ![t] = "company"]
    /\ UNCHANGED <<row, saved, companyLock, want, drawn, given, clock>>

LockCompany(t) ==
    /\ pc[t] = "company"
    /\ companyLock \in {None, t}
    /\ companyLock' = t
    /\ pc' = [pc EXCEPT ![t] = "drawing"]
    /\ UNCHANGED <<row, saved, seqLock, want, drawn, given, clock>>

NumberFromZero(s) == IF Token(s) # row[s].period THEN 0 ELSE row[s].next
NumberCarriedOver(s) == row[s].next
(* A new period starts again at 1. *)
Number(s) == IF Token(s) # row[s].period THEN 1 ELSE row[s].next

DrawUnlocked(t) ==
    LET s == want[t] IN
    /\ pc[t] = "drawing"
    /\ row' = [row EXCEPT ![s] = [period |-> Token(s), next |-> Number(s) + 1]]
    /\ saved' = row'
    /\ seqLock' = [seqLock EXCEPT ![s] = None]
    /\ companyLock' = None
    /\ drawn' = [drawn EXCEPT ![t] = @ \cup {<<s, Token(s), Number(s)>>}]
    /\ given' = [given EXCEPT ![t] = @ + 1]
    /\ pc' = [pc EXCEPT ![t] = "open"]
    /\ want' = [want EXCEPT ![t] = None]
    /\ UNCHANGED clock

Draw(t) ==
    LET s == want[t] IN
    /\ pc[t] = "drawing"
    /\ row' = [row EXCEPT ![s] = [period |-> Token(s), next |-> Number(s) + 1]]
    /\ drawn' = [drawn EXCEPT ![t] = @ \cup {<<s, Token(s), Number(s)>>}]
    /\ given' = [given EXCEPT ![t] = @ + 1]
    /\ pc' = [pc EXCEPT ![t] = "open"]
    /\ want' = [want EXCEPT ![t] = None]
    /\ UNCHANGED <<saved, locks, clock>>

Release(t) ==
    /\ seqLock' = [s \in Sequences |-> IF seqLock[s] = t THEN None ELSE seqLock[s]]
    /\ companyLock' = IF companyLock = t THEN None ELSE companyLock

Commit(t) ==
    /\ pc[t] = "open"
    /\ pc' = [pc EXCEPT ![t] = "committed"]
    /\ saved' = [s \in Sequences |-> IF seqLock[s] = t THEN row[s] ELSE saved[s]]
    /\ Release(t)
    /\ UNCHANGED <<row, want, drawn, given, clock>>

(* PostgreSQL drops the transaction's version of the rows it wrote. *)
Restore(t) ==
    row' = [s \in Sequences |-> IF seqLock[s] = t THEN saved[s] ELSE row[s]]

Abort(t) ==
    /\ pc' = [pc EXCEPT ![t] = "aborted"]
    /\ want' = [want EXCEPT ![t] = None]
    /\ drawn' = [drawn EXCEPT ![t] = {}]
    /\ given' = [given EXCEPT ![t] = 0]
    /\ Restore(t)
    /\ Release(t)
    /\ UNCHANGED <<saved, clock>>

(* The caller raises after an allocation, or the connection breaks, at any *)
(* point of the transaction.                                               *)
Rollback(t) ==
    /\ pc[t] \notin {"idle"} \cup Ended
    /\ Abort(t)

(* The holder of the lock that t waits for, if there is one. *)
WaitsFor(t) ==
    CASE pc[t] = "sequence" -> {seqLock[want[t]]} \ {None, t}
      [] pc[t] = "company"  -> {companyLock} \ {None, t}
      [] OTHER              -> {}

NeverDeadlocked(t) == FALSE
(* t waits for itself through the members of a cycle. *)
Deadlocked(t) ==
    \E C \in SUBSET Txns :
        /\ t \in C
        /\ \A u \in C : WaitsFor(u) # {} /\ WaitsFor(u) \subseteq C
        /\ \A u \in C : \E v \in C : u \in WaitsFor(v)

(* After deadlock_timeout PostgreSQL ends one transaction of the cycle. *)
DeadlockVictim(t) ==
    /\ Deadlocked(t)
    /\ Abort(t)

Tick ==
    /\ now < MaxTime
    /\ now' = now + 1
    /\ UNCHANGED <<row, saved, locks, txns, zone, zoneChanges>>

(* CompanyView.patch takes the company's row lock; of what it writes only  *)
(* the time zone, which may stay as it is, concerns the numbering.         *)
ChangeTimezone(z) ==
    /\ companyLock = None
    /\ zoneChanges < MaxZoneChanges
    /\ zone' = z
    /\ zoneChanges' = zoneChanges + 1
    /\ UNCHANGED <<row, saved, locks, txns, now>>
-----------------------------------------------------------------------------
Proceed(t) ==
    \/ \E s \in Sequences : Allocate(t, s)
    \/ LockSequence(t) \/ LockCompany(t) \/ Draw(t)
    \/ Commit(t) \/ DeadlockVictim(t)

Next ==
    \/ \E t \in Txns : Begin(t) \/ Proceed(t) \/ Rollback(t)
    \/ Tick
    \/ \E z \in Zones : ChangeTimezone(z)

Spec == Init /\ [][Next]_vars

(* A request that has begun runs on: it takes a lock that is free, a       *)
(* deadlock is found, and it ends its transaction after finitely many      *)
(* allocations.                                                            *)
Fairness == \A t \in Txns : WF_vars(Proceed(t))

FairSpec == Spec /\ Fairness
-----------------------------------------------------------------------------
Issued == UNION {drawn[t] : t \in {u \in Txns : pc[u] = "committed"}}

(* No reference is given twice, to one transaction or to two, unless the   *)
(* first rolled back: "two users saving at the same moment can never       *)
(* receive the same reference".                                            *)
NumbersUnique ==
    \A t \in Txns :
        /\ Cardinality(drawn[t]) = given[t]
        /\ \A u \in Txns \ {t} : drawn[t] \cap drawn[u] = {}

(* Every reference printed on a committed document has its predecessor in  *)
(* the period on another one, whatever rolled back in between: "gap-free   *)
(* document numbering".                                                    *)
GapFree ==
    \A r \in Issued : r[3] > 1 => <<r[1], r[2], r[3] - 1>> \in Issued

(* Documents are numbered in the order their transactions commit: once a   *)
(* reference is issued, no lower number of that period and no number of an *)
(* earlier period is, though transactions wait for the lock across the     *)
(* turn of the year.                                                       *)
IssuedInOrder ==
    [][\A r \in Issued, q \in Issued' \ Issued :
          q[1] = r[1] =>
             \/ q[2] > r[2]
             \/ q[2] = r[2] /\ q[3] > r[3]]_vars

(* Every transaction ends, though two that allocate from different         *)
(* sequences can wait for each other: one holds the company's row and      *)
(* wants the second sequence, the other holds that sequence and wants the  *)
(* company's row.                                                          *)
TransactionsEnd ==
    \A t \in Txns : pc[t] = "open" ~> pc[t] \in Ended
=============================================================================
