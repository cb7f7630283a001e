------------------------- MODULE AdministratorsProofs -------------------------
(***************************************************************************)
(* Proofs about Administrators, for any number of users, roles and         *)
(* requests.  That an administrator remains is proved of requests of which *)
(* no two are between assertion and commit, of requests whose actors are   *)
(* still system administrators when they commit, and of any mixture of the *)
(* two.  The run AdminSkew shows that it is not true of two requests at    *)
(* once in general.                                                        *)
(***************************************************************************)
EXTENDS Administrators, FiniteSetTheorems, TLAPS

(* What a transaction has asserted still holds when it commits. *)
AssertionStands ==
    \A r \in Requests : pc[r] = "asserted" => Administered(UsersSeen(r), RolesSeen(r))
-----------------------------------------------------------------------------
LEMMA AbortTyped ==
  ASSUME TypeOK, NEW r \in Requests, pc[r] # "new", Abort(r)
  PROVE  TypeOK'
<1> USE DEF Abort, Unlock, Goto
<1>1. /\ users' \in [Users -> Account] /\ savedUsers' \in [Users -> Account]
      /\ roles' \in [Roles -> SUBSET Codes] /\ savedRoles' \in [Roles -> SUBSET Codes]
      /\ version' \in [Rows -> Nat]
  BY DEF TypeOK
<1>2. /\ lock' \in [Rows -> Requests \cup {None}] /\ pc' \in [Requests -> Pcs]
      /\ actor' \in [Requests -> Users \cup {None}]
      /\ actorFlagged' \in [Requests -> BOOLEAN]
      /\ target' \in [Requests -> Rows \cup {None}] /\ submitted' \in [Requests -> Nat]
  BY DEF TypeOK, Pcs
<1>3. \A q \in Requests : pc'[q] = "new" <=> target'[q] = None
  BY DEF TypeOK
<1>4. ASSUME NEW x \in Rows, NEW q \in Requests
      PROVE  lock'[x] = q <=> pc'[q] \in Open /\ target'[q] = x
  <2>1. CASE q = r
    <3>1. pc'[q] = "done" /\ lock'[x] # q
      BY <2>1, NoneIsNone DEF TypeOK
    <3>2. QED
      BY <3>1 DEF Open
  <2>2. CASE q # r
    <3>1. pc'[q] = pc[q] /\ target'[q] = target[q]
      BY <2>2 DEF TypeOK
    <3>2. lock'[x] = q <=> lock[x] = q
      BY <2>2, NoneIsNone DEF TypeOK
    <3>3. QED
      BY <3>1, <3>2 DEF TypeOK
  <2>3. QED
    BY <2>1, <2>2
<1>5. QED
  BY <1>1, <1>2, <1>3, <1>4 DEF TypeOK

(* Only a request that has been sent waits for anyone. *)
LEMMA VictimSent ==
  ASSUME NEW r \in Requests, Deadlocked(r)
  PROVE  pc[r] # "new"
BY DEF Deadlocked, WaitsFor

(* Every way in which a transaction ends without its changes. *)
Aborts(r) == RefuseLockout(r) \/ Refuse(r) \/ Rollback(r) \/ DeadlockVictim(r)

LEMMA AbortsAbort ==
  ASSUME NEW r \in Requests, Aborts(r)
  PROVE  pc[r] # "new" /\ Abort(r)
BY VictimSent DEF Aborts, RefuseLockout, Refuse, Rollback, DeadlockVictim, Open

LEMMA LockRowTyped ==
  ASSUME TypeOK, NEW r \in Requests, LockRow(r)
  PROVE  TypeOK'
<1> USE DEF LockRow, Goto
<1>1. target[r] \in Rows /\ pc[r] = "sent" /\ lock[target[r]] = None
  BY DEF TypeOK
<1>2. /\ users' = users /\ savedUsers' = savedUsers /\ roles' = roles
      /\ savedRoles' = savedRoles /\ version' = version /\ actor' = actor
      /\ actorFlagged' = actorFlagged /\ target' = target /\ submitted' = submitted
  OBVIOUS
<1>3. CASE VersionMatches(r)
  <2>1. lock' = [lock EXCEPT ![target[r]] = r] /\ pc' = [pc EXCEPT ![r] = "locked"]
    BY <1>3
  <2>2. lock' \in [Rows -> Requests \cup {None}] /\ pc' \in [Requests -> Pcs]
    BY <2>1 DEF TypeOK, Pcs
  <2>3. \A q \in Requests : pc'[q] = "new" <=> target'[q] = None
    BY <1>1, <1>2, <2>1 DEF TypeOK
  <2>4. ASSUME NEW x \in Rows, NEW q \in Requests
        PROVE  lock'[x] = q <=> pc'[q] \in Open /\ target'[q] = x
    <3>1. CASE q = r
      <4>1. pc'[q] = "locked" /\ pc[q] \notin Open
        BY <1>1, <2>1, <3>1 DEF TypeOK, Open
      <4>2. lock[x] # q
        BY <4>1 DEF TypeOK
      <4>3. lock'[x] = q <=> target[q] = x
        BY <1>1, <2>1, <3>1, <4>2 DEF TypeOK
      <4>4. QED
        BY <1>2, <4>1, <4>3 DEF Open
    <3>2. CASE q # r
      <4>1. pc'[q] = pc[q] /\ (lock'[x] = q <=> lock[x] = q)
        BY <1>1, <2>1, <3>2, NoneIsNone DEF TypeOK
      <4>2. QED
        BY <1>2, <4>1 DEF TypeOK
    <3>3. QED
      BY <3>1, <3>2
  <2>5. QED
    BY <1>2, <2>2, <2>3, <2>4 DEF TypeOK
<1>4. CASE ~VersionMatches(r)
  <2>1. lock' = lock /\ pc' = [pc EXCEPT ![r] = "done"]
    BY <1>4
  <2>2. pc' \in [Requests -> Pcs] /\ pc[r] \notin Open /\ pc'[r] \notin Open
    BY <1>1, <2>1 DEF TypeOK, Pcs, Open
  <2>3. \A q \in Requests : pc'[q] = "new" <=> target'[q] = None
    BY <1>1, <1>2, <2>1 DEF TypeOK
  <2>4. \A q \in Requests : pc'[q] \in Open <=> pc[q] \in Open
    BY <2>1, <2>2 DEF TypeOK
  <2>5. QED
    BY <1>2, <2>1, <2>2, <2>3, <2>4 DEF TypeOK
<1>5. QED
  BY <1>3, <1>4

LEMMA CommitTyped ==
  ASSUME TypeOK, NEW r \in Requests, Commit(r)
  PROVE  TypeOK'
<1> USE DEF Commit, Unlock, Goto
<1>1. /\ users' \in [Users -> Account] /\ roles' \in [Roles -> SUBSET Codes]
      /\ actor' \in [Requests -> Users \cup {None}]
      /\ actorFlagged' \in [Requests -> BOOLEAN]
      /\ target' \in [Requests -> Rows \cup {None}] /\ submitted' \in [Requests -> Nat]
  BY DEF TypeOK
<1>2. savedUsers' \in [Users -> Account] /\ savedRoles' \in [Roles -> SUBSET Codes]
  BY DEF TypeOK, UsersSeen, RolesSeen
<1>3. version' \in [Rows -> Nat] /\ pc' \in [Requests -> Pcs]
  BY DEF TypeOK, Pcs
<1>4. lock' \in [Rows -> Requests \cup {None}]
  BY DEF TypeOK
<1>5. \A q \in Requests : pc'[q] = "new" <=> target'[q] = None
  BY DEF TypeOK
<1>6. ASSUME NEW x \in Rows, NEW q \in Requests
      PROVE  lock'[x] = q <=> pc'[q] \in Open /\ target'[q] = x
  <2>1. CASE q = r
    <3>1. pc'[q] = "done" /\ lock'[x] # q
      BY <2>1, NoneIsNone DEF TypeOK
    <3>2. QED
      BY <3>1 DEF Open
  <2>2. CASE q # r
    <3>1. pc'[q] = pc[q] /\ target'[q] = target[q]
      BY <2>2 DEF TypeOK
    <3>2. lock'[x] = q <=> lock[x] = q
      BY <2>2, NoneIsNone DEF TypeOK
    <3>3. QED
      BY <3>1, <3>2 DEF TypeOK
  <2>3. QED
    BY <2>1, <2>2
<1>7. QED
  BY <1>1, <1>2, <1>3, <1>4, <1>5, <1>6 DEF TypeOK

(* The steps of a transaction between its lock and its end. *)
Works(r) ==
    \/ \E new \in Account : SaveUser(r, new)
    \/ \E codes \in SUBSET Codes : SaveRole(r, codes)
    \/ AssertFlagged(r) \/ AssertRole(r)

(* They stay inside the transaction and write no committed row.            *)
LEMMA WorkStaysOpen ==
  ASSUME TypeOK, NEW r \in Requests, Works(r)
  PROVE  /\ pc[r] \in Open
         /\ \E there \in Open : pc' = [pc EXCEPT ![r] = there]
         /\ savedUsers' = savedUsers /\ savedRoles' = savedRoles /\ version' = version
         /\ lock' = lock /\ actor' = actor /\ actorFlagged' = actorFlagged
         /\ target' = target /\ submitted' = submitted
         /\ users' \in [Users -> Account] /\ roles' \in [Roles -> SUBSET Codes]
<1>1. ASSUME NEW new \in Account, SaveUser(r, new)
      PROVE  users' \in [Users -> Account] /\ roles' = roles
  BY <1>1 DEF SaveUser, TypeOK
<1>2. ASSUME NEW codes \in SUBSET Codes, SaveRole(r, codes)
      PROVE  roles' \in [Roles -> SUBSET Codes] /\ users' = users
  BY <1>2 DEF SaveRole, TypeOK
<1>3. CASE \E new \in Account : SaveUser(r, new)
  BY <1>1, <1>3 DEF SaveUser, Goto, Open, TypeOK
<1>4. CASE \E codes \in SUBSET Codes : SaveRole(r, codes)
  BY <1>2, <1>4 DEF SaveRole, Goto, Open, TypeOK
<1>5. CASE AssertFlagged(r)
  BY <1>5 DEF AssertFlagged, Goto, Open, TypeOK, rows
<1>6. CASE AssertRole(r)
  BY <1>6 DEF AssertRole, Goto, Open, TypeOK, rows
<1>7. QED
  BY <1>3, <1>4, <1>5, <1>6 DEF Works

LEMMA WorkTyped ==
  ASSUME TypeOK, NEW r \in Requests, Works(r)
  PROVE  TypeOK'
<1>1. PICK there \in Open : pc' = [pc EXCEPT ![r] = there]
  BY WorkStaysOpen
<1>2. /\ pc[r] \in Open
      /\ savedUsers' = savedUsers /\ savedRoles' = savedRoles /\ version' = version
      /\ lock' = lock /\ actor' = actor /\ actorFlagged' = actorFlagged
      /\ target' = target /\ submitted' = submitted
      /\ users' \in [Users -> Account] /\ roles' \in [Roles -> SUBSET Codes]
  BY WorkStaysOpen
<1>3. pc' \in [Requests -> Pcs] /\ pc'[r] = there /\ there # "new" /\ pc[r] # "new"
  BY <1>1, <1>2 DEF TypeOK, Pcs, Open
<1>4. \A q \in Requests : /\ pc'[q] \in Open <=> pc[q] \in Open
                          /\ pc'[q] = "new" <=> pc[q] = "new"
  BY <1>1, <1>2, <1>3 DEF TypeOK
<1>5. QED
  BY <1>2, <1>3, <1>4 DEF TypeOK

LEMMA SendTyped ==
  ASSUME TypeOK, NEW r \in Requests, NEW a \in Users, NEW x \in Rows, Send(r, a, x)
  PROVE  TypeOK'
<1> USE DEF Send, Goto, rows
<1>1. /\ users' = users /\ savedUsers' = savedUsers /\ roles' = roles
      /\ savedRoles' = savedRoles /\ version' = version /\ lock' = lock
  OBVIOUS
<1>2. /\ pc' = [pc EXCEPT ![r] = "sent"] /\ target' = [target EXCEPT ![r] = x]
      /\ pc[r] = "new" /\ x # None
  BY NoneIsNone DEF Rows
<1>3. /\ pc' \in [Requests -> Pcs] /\ actor' \in [Requests -> Users \cup {None}]
      /\ target' \in [Requests -> Rows \cup {None}] /\ submitted' \in [Requests -> Nat]
  BY DEF TypeOK, Pcs
<1>4. actorFlagged' \in [Requests -> BOOLEAN]
  <2>1. savedUsers[a].flagged \in BOOLEAN
    BY DEF TypeOK, Account
  <2>2. QED
    BY <2>1 DEF TypeOK
<1>5. \A q \in Requests : pc'[q] = "new" <=> target'[q] = None
  BY <1>2 DEF TypeOK
<1>6. \A q \in Requests : pc'[q] \in Open <=> pc[q] \in Open
  BY <1>2 DEF TypeOK, Open
<1>7. \A y \in Rows, q \in Requests :
        lock'[y] = q <=> pc'[q] \in Open /\ target'[q] = y
  <2>1. \A q \in Requests : pc[q] \in Open => target'[q] = target[q]
    BY <1>2 DEF TypeOK, Open
  <2>2. QED
    BY <1>1, <1>6, <2>1 DEF TypeOK
<1>8. QED
  BY <1>1, <1>3, <1>4, <1>5, <1>7 DEF TypeOK

LEMMA NextSteps ==
  ASSUME Next
  PROVE  \E r \in Requests :
           \/ \E a \in Users, x \in Rows : Send(r, a, x)
           \/ LockRow(r) \/ Works(r) \/ Commit(r) \/ Aborts(r)
BY DEF Next, Proceed, Works, Aborts
-----------------------------------------------------------------------------
LEMMA InitTyped == Init => TypeOK
BY NoneIsNone DEF Init, TypeOK, Pcs, Open

LEMMA StepTyped ==
  ASSUME TypeOK, [Next]_vars
  PROVE  TypeOK'
<1>1. CASE Next
  <2>1. PICK r \in Requests :
           \/ \E a \in Users, x \in Rows : Send(r, a, x)
           \/ LockRow(r) \/ Works(r) \/ Commit(r) \/ Aborts(r)
    BY <1>1, NextSteps
  <2>2. CASE \E a \in Users, x \in Rows : Send(r, a, x)
    BY <2>2, SendTyped
  <2>3. CASE LockRow(r)
    BY <2>3, LockRowTyped
  <2>4. CASE Works(r)
    BY <2>4, WorkTyped
  <2>5. CASE Commit(r)
    BY <2>5, CommitTyped
  <2>6. CASE Aborts(r)
    BY <2>6, AbortsAbort, AbortTyped
  <2>7. QED
    BY <2>1, <2>2, <2>3, <2>4, <2>5, <2>6
<1>2. CASE UNCHANGED vars
  BY <1>2 DEF vars, rows, requests, TypeOK
<1>3. QED
  BY <1>1, <1>2

(* Values keep their types, and a row is locked exactly while the one      *)
(* transaction that changes it is open.                                    *)
THEOREM AdministrationTyped == Spec => []TypeOK
BY InitTyped, StepTyped, PTL DEF Spec
-----------------------------------------------------------------------------
(***************************************************************************)
(* What each transaction has asserted.                                     *)
(***************************************************************************)
(* r's transaction sees what it has seen. *)
SeesTheSame(r) ==
    /\ \A u \in Users : UsersSeen(r)'[u] = UsersSeen(r)[u]
    /\ \A x \in Roles : RolesSeen(r)'[x] = RolesSeen(r)[x]

LEMMA SameAdministered ==
  ASSUME NEW r \in Requests, SeesTheSame(r), Administered(UsersSeen(r), RolesSeen(r))
  PROVE  Administered(UsersSeen(r), RolesSeen(r))'
<1>1. UsersSeen(r)' = UsersSeen(r) /\ RolesSeen(r)' = RolesSeen(r)
  BY DEF SeesTheSame, UsersSeen, RolesSeen
<1>2. QED
  BY <1>1 DEF Administered, FlaggedAdmin, RoleAdmin

(* A step of another transaction shows it nothing, unless it commits. *)
LEMMA OthersUnseen ==
  ASSUME TypeOK, NEW r \in Requests, NEW q \in Requests, q # r,
         \/ \E a \in Users, x \in Rows : Send(q, a, x)
         \/ LockRow(q) \/ Works(q) \/ Aborts(q)
  PROVE  SeesTheSame(r)
<1>1. CASE \E a \in Users, x \in Rows : Send(q, a, x)
  BY <1>1 DEF Send, rows, SeesTheSame, UsersSeen, RolesSeen
<1>2. CASE LockRow(q)
  <2>1. \A x \in Rows : lock'[x] = r <=> lock[x] = r
    BY <1>2, NoneIsNone DEF LockRow, TypeOK
  <2>2. QED
    BY <1>2, <2>1 DEF LockRow, SeesTheSame, UsersSeen, RolesSeen, Rows
<1>3. CASE Works(q)
  <2>1. /\ lock' = lock /\ savedUsers' = savedUsers /\ savedRoles' = savedRoles
        /\ pc[q] \in Open
    BY <1>3, WorkStaysOpen
  <2>2. \A x \in Rows : lock[x] = r => x # target[q]
    BY <2>1 DEF TypeOK
  <2>3. /\ \A u \in Users : u # target[q] => users'[u] = users[u]
        /\ \A x \in Roles : x # target[q] => roles'[x] = roles[x]
    BY <1>3 DEF Works, SaveUser, SaveRole, AssertFlagged, AssertRole, rows, TypeOK
  <2>4. QED
    BY <2>1, <2>2, <2>3 DEF SeesTheSame, UsersSeen, RolesSeen, Rows
<1>4. CASE Aborts(q)
  <2>1. Abort(q)
    BY <1>4, AbortsAbort
  <2>2. /\ savedUsers' = savedUsers /\ savedRoles' = savedRoles
        /\ \A x \in Rows : lock'[x] = r <=> lock[x] = r
    BY <2>1, NoneIsNone DEF Abort, Unlock, TypeOK
  <2>3. /\ \A u \in Users : lock[u] = r => users'[u] = users[u]
        /\ \A x \in Roles : lock[x] = r => roles'[x] = roles[x]
    BY <2>1 DEF Abort, TypeOK
  <2>4. QED
    BY <2>2, <2>3 DEF SeesTheSame, UsersSeen, RolesSeen, Rows
<1>5. QED
  BY <1>1, <1>2, <1>3, <1>4

(* A transaction asserts what it sees. *)
LEMMA AssertsWhatItSees ==
  ASSUME TypeOK, NEW r \in Requests, Works(r), pc'[r] = "asserted"
  PROVE  Administered(UsersSeen(r), RolesSeen(r))'
<1>1. \/ AssertFlagged(r) /\ FlaggedAdmin(UsersSeen(r))
      \/ AssertRole(r) /\ RoleAdminSeen(r)
  <2>1. ~(\E new \in Account : SaveUser(r, new))
    BY DEF SaveUser, Goto, TypeOK
  <2>2. ~(\E codes \in SUBSET Codes : SaveRole(r, codes))
    BY DEF SaveRole, Goto, TypeOK
  <2>3. AssertFlagged(r) => FlaggedAdmin(UsersSeen(r))
    BY DEF AssertFlagged, Goto, TypeOK
  <2>4. QED
    BY <2>1, <2>2, <2>3 DEF Works, AssertRole
<1>2. Administered(UsersSeen(r), RolesSeen(r))
  BY <1>1 DEF RoleAdminSeen, Administered
<1>3. SeesTheSame(r)
  BY <1>1 DEF AssertFlagged, AssertRole, rows, SeesTheSame, UsersSeen, RolesSeen
<1>4. QED
  BY <1>2, <1>3, SameAdministered

(* Who commits leaves what the others have asserted standing. *)
CommitSpares ==
    \A q, r \in Requests :
        q # r /\ Commit(q) /\ pc[r] = "asserted" =>
           Administered(UsersSeen(r), RolesSeen(r))'

LEMMA StepStands ==
  ASSUME TypeOK, AssertionStands, AdministratorRemains, [Next]_vars, CommitSpares
  PROVE  AssertionStands' /\ AdministratorRemains'
<1>1. CASE Next
  <2>1. PICK q \in Requests :
           \/ \E a \in Users, x \in Rows : Send(q, a, x)
           \/ LockRow(q) \/ Works(q) \/ Commit(q) \/ Aborts(q)
    BY <1>1, NextSteps
  <2>2. \A r \in Requests \ {q} : pc'[r] = pc[r]
    BY <2>1, AbortsAbort, WorkStaysOpen DEF Send, LockRow, Commit, Abort, Goto, TypeOK
  <2>3. pc'[q] = "asserted" => Works(q)
    BY <2>1, AbortsAbort DEF Send, LockRow, Commit, Abort, Goto, TypeOK
  <2>4. ASSUME NEW r \in Requests, pc'[r] = "asserted"
        PROVE  Administered(UsersSeen(r), RolesSeen(r))'
    <3>1. CASE r = q
      BY <2>3, <2>4, <3>1, AssertsWhatItSees
    <3>2. CASE r # q /\ Commit(q)
      BY <2>2, <2>4, <3>2 DEF CommitSpares
    <3>3. CASE r # q /\ ~Commit(q)
      <4>1. SeesTheSame(r)
        BY <2>1, <3>3, OthersUnseen
      <4>2. Administered(UsersSeen(r), RolesSeen(r))
        BY <2>2, <2>4, <3>3 DEF AssertionStands
      <4>3. QED
        BY <4>1, <4>2, SameAdministered
    <3>4. QED
      BY <3>1, <3>2, <3>3
  <2>5. AdministratorRemains'
    <3>1. CASE Commit(q)
      <4>1. savedUsers' = UsersSeen(q) /\ savedRoles' = RolesSeen(q) /\ pc[q] = "asserted"
        BY <3>1 DEF Commit
      <4>2. QED
        BY <4>1 DEF AssertionStands, AdministratorRemains
    <3>2. CASE ~Commit(q)
      <4>1. savedUsers' = savedUsers /\ savedRoles' = savedRoles
        BY <2>1, <3>2, AbortsAbort, WorkStaysOpen DEF Send, LockRow, Abort, rows
      <4>2. QED
        BY <4>1 DEF AdministratorRemains
    <3>3. QED
      BY <3>1, <3>2
  <2>6. QED
    BY <2>4, <2>5 DEF AssertionStands
<1>2. CASE UNCHANGED vars
  BY <1>2 DEF vars, rows, requests, AssertionStands, AdministratorRemains, UsersSeen,
              RolesSeen, Administered, FlaggedAdmin, RoleAdmin
<1>3. QED
  BY <1>1, <1>2

LEMMA InitStands == Init => AssertionStands /\ AdministratorRemains
  BY DEF Init, AssertionStands, AdministratorRemains
-----------------------------------------------------------------------------
(***************************************************************************)
(* Requests that take turns.                                               *)
(***************************************************************************)
(* No two transactions are between their assertion and their commit. *)
InTurn ==
    \A q, r \in Requests : pc[q] = "asserted" /\ pc[r] = "asserted" => q = r

(* A lock that each transaction took before it asserts, and kept until it  *)
(* commits, would be all that _assert_administrator_remains needs: with it *)
(* there is always an active user who may manage users, however many       *)
(* transactions are open and however stale the permission they were        *)
(* admitted with.                                                          *)
THEOREM AdministratorKeptInTurn == Spec /\ []InTurn => []AdministratorRemains
<1>1. InTurn => CommitSpares
  BY DEF InTurn, CommitSpares, Commit
<1>2. TypeOK /\ AssertionStands /\ AdministratorRemains /\ InTurn /\ [Next]_vars
         => AssertionStands' /\ AdministratorRemains'
  BY <1>1, StepStands
<1>3. QED
  BY <1>2, InitStands, AdministrationTyped, PTL DEF Spec

(* At most one transaction is open. *)
Serial ==
    \A q, r \in Requests : pc[q] \in Open /\ pc[r] \in Open => q = r

(* A free slot under MaxOpen = 1 means that no transaction is open. *)
LEMMA LockRowAlone ==
  ASSUME MaxOpen = 1, NEW r \in Requests, LockRow(r)
  PROVE  \A q \in Requests : pc[q] \notin Open
<1> DEFINE O == {q \in Requests : pc[q] \in Open}
<1>1. IsFiniteSet(O)
  BY RequestsFinite, FS_Subset
<1>2. Cardinality(O) \in Nat /\ Cardinality(O) < 1
  BY <1>1, FS_CardinalityType DEF LockRow
<1>3. Cardinality(O) = 0
  BY <1>2
<1>4. O = {}
  BY <1>1, <1>3, FS_EmptySet
<1>5. QED
  BY <1>4

LEMMA SerialKeeps ==
  ASSUME MaxOpen = 1, TypeOK, Serial, [Next]_vars
  PROVE  Serial'
<1>1. CASE Next
  <2>1. PICK q \in Requests :
           \/ \E a \in Users, x \in Rows : Send(q, a, x)
           \/ LockRow(q) \/ Works(q) \/ Commit(q) \/ Aborts(q)
    BY <1>1, NextSteps
  <2>2. \A r \in Requests \ {q} : pc'[r] = pc[r]
    BY <2>1, AbortsAbort, WorkStaysOpen DEF Send, LockRow, Commit, Abort, Goto, TypeOK
  <2>3. CASE LockRow(q)
    BY <2>2, <2>3, LockRowAlone DEF Serial
  <2>4. CASE ~LockRow(q)
    <3>1. pc'[q] \in Open => pc[q] \in Open
      BY <2>1, <2>4, AbortsAbort, WorkStaysOpen DEF Send, Commit, Abort, Goto, TypeOK, Open
    <3>2. QED
      BY <2>2, <3>1 DEF Serial
  <2>5. QED
    BY <2>3, <2>4
<1>2. CASE UNCHANGED vars
  BY <1>2 DEF vars, requests, Serial
<1>3. QED
  BY <1>1, <1>2

(* So it is when requests are carried out one after another. *)
THEOREM AdministratorKept ==
  ASSUME MaxOpen = 1
  PROVE  Spec => []AdministratorRemains
<1>1. Init => Serial
  BY DEF Init, Serial, Open
<1>2. TypeOK /\ Serial /\ [Next]_vars => Serial'
  BY SerialKeeps
<1>3. Serial => InTurn
  BY DEF Serial, InTurn, Open
<1>4. QED
  BY <1>1, <1>2, <1>3, AdministrationTyped, AdministratorKeptInTurn, PTL DEF Spec
-----------------------------------------------------------------------------
(***************************************************************************)
(* The actor, who may take no access from the own account.                 *)
(***************************************************************************)
(* A row that nobody has changed yet is the committed one. *)
Unchanged(u) == lock[u] = None \/ pc[lock[u]] = "locked"

UntouchedIsSaved == \A u \in Users : Unchanged(u) => users[u] = savedUsers[u]

ActorIsUser == \A r \in Requests : pc[r] # "new" => actor[r] \in Users

(* Who changes the own account stays active, and stays a system            *)
(* administrator if the request found him one.                             *)
OwnAccessKept ==
    \A r \in Requests :
        pc[r] \in Open /\ target[r] = actor[r] =>
           /\ savedUsers[actor[r]].active => users[actor[r]].active
           /\ actorFlagged[r] /\ savedUsers[actor[r]].flagged => users[actor[r]].flagged

OwnInv == UntouchedIsSaved /\ ActorIsUser /\ OwnAccessKept

LEMMA InitOwn == Init => OwnInv
BY DEF Init, OwnInv, UntouchedIsSaved, ActorIsUser, OwnAccessKept, Open

(* Nothing of what OwnInv says depends on a step that leaves the accounts, *)
(* their locks and the actors of open transactions alone.                  *)
LEMMA SendOwn ==
  ASSUME TypeOK, OwnInv, NEW r \in Requests, NEW a \in Users, NEW x \in Rows, Send(r, a, x)
  PROVE  OwnInv'
<1>1. /\ users' = users /\ savedUsers' = savedUsers /\ lock' = lock
      /\ pc' = [pc EXCEPT ![r] = "sent"] /\ actor' = [actor EXCEPT ![r] = a]
      /\ pc[r] = "new"
  BY DEF Send, Goto, rows
<1>2. \A q \in Requests \ {r} : /\ pc'[q] = pc[q] /\ actor'[q] = actor[q]
                                /\ target'[q] = target[q]
                                /\ actorFlagged'[q] = actorFlagged[q]
  BY DEF Send, Goto, TypeOK
<1>3. pc'[r] = "sent" /\ actor'[r] = a
  BY <1>1 DEF TypeOK
<1>4. \A u \in Users : lock[u] = None \/ (lock[u] \in Requests \ {r})
  BY <1>1 DEF TypeOK, Rows, Open
<1>5. UntouchedIsSaved'
  BY <1>1, <1>2, <1>4 DEF OwnInv, UntouchedIsSaved, Unchanged
<1>6. ActorIsUser'
  BY <1>2, <1>3 DEF OwnInv, ActorIsUser
<1>7. OwnAccessKept'
  BY <1>1, <1>2, <1>3 DEF OwnInv, OwnAccessKept, Open
<1>8. QED
  BY <1>5, <1>6, <1>7 DEF OwnInv

LEMMA LockRowOwn ==
  ASSUME TypeOK, OwnInv, NEW r \in Requests, LockRow(r)
  PROVE  OwnInv'
<1>1. /\ users' = users /\ savedUsers' = savedUsers /\ actor' = actor
      /\ actorFlagged' = actorFlagged /\ target' = target
      /\ pc[r] = "sent" /\ lock[target[r]] = None /\ target[r] \in Rows
  BY DEF LockRow, TypeOK
<1>2. /\ pc'[r] \in {"locked", "done"}
      /\ \A q \in Requests \ {r} : pc'[q] = pc[q]
      /\ \A x \in Rows : x # target[r] => lock'[x] = lock[x]
      /\ lock'[target[r]] \in {None, r}
  BY <1>1 DEF LockRow, Goto, TypeOK
<1>3. \A u \in Users : lock[u] = None \/ (lock[u] \in Requests \ {r})
  BY <1>1 DEF TypeOK, Rows, Open
<1>4. UntouchedIsSaved'
  <2>1. ASSUME NEW u \in Users, Unchanged(u)'
        PROVE  Unchanged(u)
    BY <1>1, <1>2, <1>3, <2>1 DEF Unchanged, Rows
  <2>2. QED
    BY <1>1, <2>1 DEF OwnInv, UntouchedIsSaved
<1>5. ActorIsUser'
  BY <1>1, <1>2 DEF OwnInv, ActorIsUser
<1>6. OwnAccessKept'
  <2>1. actor[r] = target[r] => users[actor[r]] = savedUsers[actor[r]]
    BY <1>1 DEF OwnInv, UntouchedIsSaved, ActorIsUser, Unchanged
  <2>2. QED
    BY <1>1, <1>2, <2>1 DEF OwnInv, OwnAccessKept
<1>7. QED
  BY <1>4, <1>5, <1>6 DEF OwnInv

LEMMA WorkOwn ==
  ASSUME TypeOK, OwnInv, NEW r \in Requests, Works(r)
  PROVE  OwnInv'
<1>1. /\ savedUsers' = savedUsers /\ lock' = lock /\ actor' = actor
      /\ actorFlagged' = actorFlagged /\ target' = target
      /\ pc[r] \in Open
  BY WorkStaysOpen
<1>2. /\ pc'[r] \in Open /\ pc'[r] # "locked"
      /\ \A q \in Requests \ {r} : pc'[q] = pc[q]
  BY DEF Works, SaveUser, SaveRole, AssertFlagged, AssertRole, Goto, TypeOK, Open
<1>3. \A u \in Users : u # target[r] => users'[u] = users[u]
  BY DEF Works, SaveUser, SaveRole, AssertFlagged, AssertRole, rows, TypeOK
<1>4. \A u \in Users : u = target[r] => lock[u] = r
  BY <1>1 DEF TypeOK, Rows
<1>5. \A u \in Users : lock[u] \in Requests \cup {None}
  BY DEF TypeOK, Rows
<1>6. UntouchedIsSaved'
  <2>1. ASSUME NEW u \in Users, Unchanged(u)'
        PROVE  Unchanged(u) /\ u # target[r]
    BY <1>1, <1>2, <1>4, <1>5, <2>1, NoneIsNone DEF Unchanged
  <2>2. QED
    BY <1>1, <1>3, <2>1 DEF OwnInv, UntouchedIsSaved
<1>7. ActorIsUser'
  BY <1>1, <1>2 DEF OwnInv, ActorIsUser, Open
<1>8. OwnAccessKept'
  <2>1. ASSUME NEW q \in Requests, q # r, pc'[q] \in Open, target[q] = actor[q]
        PROVE  users'[actor[q]] = users[actor[q]]
    <3>1. pc[q] \in Open /\ actor[q] \in Users
      BY <1>2, <2>1 DEF OwnInv, ActorIsUser, Open
    <3>2. lock[actor[q]] = q
      BY <2>1, <3>1 DEF TypeOK, Rows
    <3>3. QED
      BY <1>3, <1>4, <2>1, <3>1, <3>2
  <2>2. ASSUME target[r] = actor[r]
        PROVE  /\ savedUsers[actor[r]].active => users'[actor[r]].active
               /\ actorFlagged[r] /\ savedUsers[actor[r]].flagged => users'[actor[r]].flagged
    <3>1. actor[r] \in Users
      BY <1>1 DEF OwnInv, ActorIsUser, Open
    <3>2. CASE \E new \in Account : SaveUser(r, new)
      <4>1. PICK new \in Account : SaveUser(r, new)
        BY <3>2
      <4>2. users'[actor[r]] = new /\ pc[r] = "locked"
        BY <2>2, <3>1, <4>1 DEF SaveUser, TypeOK
      <4>3. users[actor[r]] = savedUsers[actor[r]]
        BY <1>4, <2>2, <3>1, <4>2 DEF OwnInv, UntouchedIsSaved, Unchanged
      <4>4. QED
        BY <2>2, <4>1, <4>2, <4>3 DEF SaveUser, KeepsOwnAccess
    <3>3. CASE ~(\E new \in Account : SaveUser(r, new))
      <4>1. users' = users
        BY <3>3 DEF Works, SaveRole, AssertFlagged, AssertRole, rows
      <4>2. QED
        BY <1>1, <2>2, <4>1 DEF OwnInv, OwnAccessKept
    <3>4. QED
      BY <3>2, <3>3
  <2>3. \A q \in Requests \ {r} : pc'[q] \in Open => pc[q] \in Open
    BY <1>2
  <2>4. QED
    BY <1>1, <2>1, <2>2, <2>3 DEF OwnInv, OwnAccessKept
<1>9. QED
  BY <1>6, <1>7, <1>8 DEF OwnInv

(* Commit and abort alike leave each row as it is committed, and whoever   *)
(* has another account locked sees no difference in it.                    *)
LEMMA EndOwn ==
  ASSUME TypeOK, OwnInv, NEW r \in Requests, Commit(r) \/ Aborts(r)
  PROVE  OwnInv'
<1>1. /\ actor' = actor /\ actorFlagged' = actorFlagged /\ target' = target
      /\ pc[r] # "new" /\ pc'[r] = "done"
      /\ \A q \in Requests \ {r} : pc'[q] = pc[q]
  BY AbortsAbort DEF Commit, Abort, Goto, TypeOK
<1>2. ASSUME NEW u \in Users
      PROVE  /\ lock[u] = r => lock'[u] = None /\ users'[u] = savedUsers'[u]
             /\ lock[u] # r => /\ lock'[u] = lock[u] /\ users'[u] = users[u]
                               /\ savedUsers'[u] = savedUsers[u]
  BY AbortsAbort DEF Commit, Abort, Unlock, UsersSeen, TypeOK, Rows
<1>3. UntouchedIsSaved'
  <2>1. ASSUME NEW u \in Users, Unchanged(u)', lock[u] # r
        PROVE  Unchanged(u)
    <3>1. lock'[u] = lock[u]
      BY <1>2, <2>1
    <3>2. lock[u] = None \/ lock[u] \in Requests \ {r}
      BY <2>1 DEF TypeOK, Rows
    <3>3. QED
      BY <1>1, <2>1, <3>1, <3>2 DEF Unchanged
  <2>2. QED
    BY <1>2, <2>1 DEF OwnInv, UntouchedIsSaved
<1>4. ActorIsUser'
  BY <1>1 DEF OwnInv, ActorIsUser
<1>5. OwnAccessKept'
  <2>1. ASSUME NEW q \in Requests, pc'[q] \in Open, target[q] = actor[q]
        PROVE  /\ users'[actor[q]] = users[actor[q]] /\ pc[q] \in Open
               /\ savedUsers'[actor[q]] = savedUsers[actor[q]]
    <3>1. q # r /\ pc[q] \in Open
      BY <1>1, <2>1 DEF Open
    <3>2. actor[q] \in Users
      BY <3>1 DEF OwnInv, ActorIsUser, Open
    <3>3. lock[actor[q]] = q
      BY <2>1, <3>1, <3>2 DEF TypeOK, Rows
    <3>4. QED
      BY <1>2, <3>1, <3>2, <3>3
  <2>2. QED
    BY <1>1, <2>1 DEF OwnInv, OwnAccessKept
<1>6. QED
  BY <1>3, <1>4, <1>5 DEF OwnInv

LEMMA StepOwn ==
  ASSUME TypeOK, OwnInv, [Next]_vars
  PROVE  OwnInv'
<1>1. CASE Next
  BY <1>1, NextSteps, SendOwn, LockRowOwn, WorkOwn, EndOwn
<1>2. CASE UNCHANGED vars
  BY <1>2 DEF vars, rows, requests, OwnInv, UntouchedIsSaved, ActorIsUser,
              OwnAccessKept, Unchanged
<1>3. QED
  BY <1>1, <1>2

(* r's actor was a system administrator when the request was admitted, and *)
(* still is an active one.                                                 *)
FlaggedActor(r) ==
    /\ actorFlagged[r]
    /\ savedUsers[actor[r]].active /\ savedUsers[actor[r]].flagged

(* So he remains one, whatever he commits. *)
LEMMA ActorRemains ==
  ASSUME TypeOK, OwnInv, NEW r \in Requests, Commit(r), FlaggedActor(r)
  PROVE  /\ actor[r] \in Users
         /\ UsersSeen(r)[actor[r]].active /\ UsersSeen(r)[actor[r]].flagged
<1>1. pc[r] \in Open /\ actor[r] \in Users
  BY DEF Commit, Open, OwnInv, ActorIsUser
<1>2. CASE lock[actor[r]] = r
  <2>1. target[r] = actor[r]
    BY <1>1, <1>2 DEF TypeOK, Rows
  <2>2. users[actor[r]].active /\ users[actor[r]].flagged
    BY <1>1, <2>1 DEF OwnInv, OwnAccessKept, FlaggedActor
  <2>3. QED
    BY <1>1, <1>2, <2>2 DEF UsersSeen
<1>3. CASE lock[actor[r]] # r
  BY <1>1, <1>3 DEF UsersSeen, FlaggedActor
<1>4. QED
  BY <1>2, <1>3

(* Every commit is of a request whose actor is, at that moment, an active  *)
(* system administrator.                                                   *)
ByAdministrators == [][\A r \in Requests : Commit(r) => FlaggedActor(r)]_vars

(* As long as changes are committed only by those who still are active     *)
(* system administrators, someone can administer the environment, however  *)
(* many requests overlap and without any assertion: the rule that takes no *)
(* access from one's own account leaves the actor of the last commit.  So  *)
(* only a change by somebody who has lost that access since the request    *)
(* was admitted, or who had it from a role alone, needs the assertion.     *)
THEOREM KeptByAdministrators == Spec /\ ByAdministrators => []AdministratorRemains
<1>1. ASSUME TypeOK, OwnInv, AdministratorRemains, [Next]_vars,
             [\A r \in Requests : Commit(r) => FlaggedActor(r)]_vars
      PROVE  AdministratorRemains'
  <2>1. CASE \E r \in Requests : Commit(r) /\ FlaggedActor(r)
    <3>1. PICK r \in Requests : Commit(r) /\ FlaggedActor(r)
      BY <2>1
    <3>2. /\ savedUsers' = UsersSeen(r) /\ actor[r] \in Users
          /\ UsersSeen(r)[actor[r]].active /\ UsersSeen(r)[actor[r]].flagged
      BY <1>1, <3>1, ActorRemains DEF Commit
    <3>3. FlaggedAdmin(savedUsers')
      BY <3>2 DEF FlaggedAdmin, UsersSeen
    <3>4. QED
      BY <3>3 DEF AdministratorRemains, Administered
  <2>2. CASE ~(\E r \in Requests : Commit(r) /\ FlaggedActor(r))
    <3>1. savedUsers' = savedUsers /\ savedRoles' = savedRoles
      <4>1. CASE UNCHANGED vars
        BY <4>1 DEF vars, rows
      <4>2. CASE Next /\ vars' # vars
        <5>1. \A r \in Requests : ~Commit(r)
          BY <1>1, <2>2, <4>2
        <5>2. QED
          BY <1>1, <4>2, <5>1, NextSteps, AbortsAbort, WorkStaysOpen
             DEF Send, LockRow, Abort, rows
      <4>3. QED
        BY <1>1, <4>1, <4>2
    <3>2. QED
      BY <1>1, <3>1 DEF AdministratorRemains
  <2>3. QED
    BY <2>1, <2>2
<1>2. Init => AdministratorRemains
  BY InitStands
<1>3. QED
  BY <1>1, <1>2, InitOwn, StepOwn, AdministrationTyped, PTL DEF Spec, ByAdministrators
-----------------------------------------------------------------------------
(***************************************************************************)
(* Both reasons together.                                                  *)
(***************************************************************************)
(* Every commit is of a request whose actor still is an active system      *)
(* administrator, or comes while no other transaction is between its       *)
(* assertion and its commit.                                               *)
SparingCommits ==
    [][\A q \in Requests : Commit(q) =>
          FlaggedActor(q) \/ \A r \in Requests \ {q} : pc[r] # "asserted"]_vars

(* Who commits while another has asserted is someone the other sees        *)
(* afterwards, for the commit has waited for the row of its actor.         *)
LEMMA ActorIsSeen ==
  ASSUME TypeOK, OwnInv, NEW q \in Requests, NEW r \in Requests, q # r,
         Commit(q), FlaggedActor(q)
  PROVE  Administered(UsersSeen(r), RolesSeen(r))'
<1>1. /\ actor[q] \in Users
      /\ UsersSeen(q)[actor[q]].active /\ UsersSeen(q)[actor[q]].flagged
  BY ActorRemains
<1>2. lock[actor[q]] \in {None, q}
  BY DEF Commit, Referred
<1>3. lock'[actor[q]] # r
  BY <1>1, <1>2, NoneIsNone DEF Commit, Unlock, TypeOK, Rows
<1>4. UsersSeen(r)'[actor[q]] = UsersSeen(q)[actor[q]]
  BY <1>1, <1>3 DEF UsersSeen, Commit
<1>5. FlaggedAdmin(UsersSeen(r))'
  BY <1>1, <1>4 DEF FlaggedAdmin, UsersSeen
<1>6. QED
  BY <1>5 DEF Administered

(* However many requests overlap, someone can administer the environment,  *)
(* unless a request commits whose actor has lost the flag, or never had    *)
(* it, while another is between assertion and commit.  This is the weaker  *)
(* hypothesis of the two above, and what a fix of update_user and          *)
(* update_role has to rule out: the foreign key of the audit entry makes   *)
(* the commit wait for its actor's row, which the other then sees.         *)
THEOREM AdministratorKeptIfSpared == Spec /\ SparingCommits => []AdministratorRemains
<1>1. ASSUME TypeOK, OwnInv,
             [\A q \in Requests : Commit(q) =>
                 FlaggedActor(q) \/ \A r \in Requests \ {q} : pc[r] # "asserted"]_vars
      PROVE  CommitSpares
  <2> SUFFICES ASSUME NEW q \in Requests, NEW r \in Requests, q # r, Commit(q),
                      pc[r] = "asserted"
               PROVE  Administered(UsersSeen(r), RolesSeen(r))'
    BY DEF CommitSpares
  <2>1. vars' # vars
    <3>1. pc[q] = "asserted" /\ pc'[q] = "done"
      BY <1>1 DEF Commit, Goto, TypeOK
    <3>2. QED
      BY <3>1 DEF vars, requests
  <2>2. FlaggedActor(q)
    BY <1>1, <2>1
  <2>3. QED
    BY <1>1, <2>2, ActorIsSeen
<1>2. TypeOK /\ AssertionStands /\ AdministratorRemains /\ CommitSpares /\ [Next]_vars
         => AssertionStands' /\ AdministratorRemains'
  BY StepStands
<1>3. QED
  BY <1>1, <1>2, InitStands, InitOwn, StepOwn, AdministrationTyped, PTL
     DEF Spec, SparingCommits
=============================================================================
