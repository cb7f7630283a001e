---------------------------- MODULE Administrators ----------------------------
(***************************************************************************)
(* Who may administer the environment: update_user and update_role, and    *)
(* _assert_administrator_remains, with which each of them ends.            *)
(*                                                                         *)
(* The assertion reads, in two statements at READ COMMITTED, what has been *)
(* committed and the changes of its own transaction.  It locks nothing:    *)
(* two transactions wait for each other only where they lock the same row, *)
(* or where a foreign key they write (the actor of the audit entry, the    *)
(* role of an assignment) refers to a row the other has locked, for        *)
(* PostgreSQL checks those at commit and takes FOR KEY SHARE to do so.     *)
(*                                                                         *)
(* A user row stands for the account and its assignments, a role row for   *)
(* the codes the role grants: none if it is inactive.  Both are written    *)
(* only under the lock of the account and of the role.  `users' and        *)
(* `roles' are the rows as their lock holder sees them, `savedUsers' and   *)
(* `savedRoles' as last committed.  create_user and create_role only add.  *)
(***************************************************************************)
EXTENDS Naturals, FiniteSets

CONSTANTS
    Users,
    Roles,          \* the company's roles
    Requests,       \* PATCH requests to /api/users/ and /api/roles/
    None,           \* no user, no role, no request
    MaxOpen         \* bound: transactions open at once

ASSUME NoneIsNone == None \notin Users \cup Roles \cup Requests
ASSUME RowsDistinct == Users \cap Roles = {}
ASSUME RequestsFinite == IsFiniteSet(Requests)
ASSUME BoundType == MaxOpen \in Nat \ {0}

VARIABLES
    users, savedUsers,
    roles, savedRoles,
    version,        \* the committed version of each row
    lock,           \* which request holds each row FOR UPDATE
    pc,             \* where each request is
    actor,          \* who sent it
    actorFlagged,   \* is_system_administrator of request.user
    target,         \* the row it is to change
    submitted       \* the version it was sent with

rows     == <<users, savedUsers, roles, savedRoles, version, lock>>
requests == <<pc, actor, actorFlagged, target, submitted>>
vars     == <<rows, requests>>

Rows  == Users \cup Roles
Codes == {"user.manage", "role.manage"}

Account == [active : BOOLEAN, flagged : BOOLEAN, roles : SUBSET Roles]

Pcs  == {"new", "sent", "locked", "saved", "unflagged", "asserted", "done"}
Open == {"locked", "saved", "unflagged", "asserted"}

TypeOK ==
    /\ users \in [Users -> Account] /\ savedUsers \in [Users -> Account]
    /\ roles \in [Roles -> SUBSET Codes] /\ savedRoles \in [Roles -> SUBSET Codes]
    /\ version \in [Rows -> Nat]
    /\ lock \in [Rows -> Requests \cup {None}]
    /\ pc \in [Requests -> Pcs]
    /\ actor \in [Requests -> Users \cup {None}]
    /\ actorFlagged \in [Requests -> BOOLEAN]
    /\ target \in [Requests -> Rows \cup {None}]
    /\ submitted \in [Requests -> Nat]
    /\ \A r \in Requests : pc[r] = "new" <=> target[r] = None
    /\ \A x \in Rows, r \in Requests :
          lock[x] = r <=> pc[r] \in Open /\ target[r] = x

(* _assert_administrator_remains: its two queries. *)
FlaggedAdmin(us)  == \E u \in DOMAIN us : us[u].active /\ us[u].flagged
RoleAdmin(us, rs) ==
    \E u \in DOMAIN us : us[u].active /\ \E x \in us[u].roles : "user.manage" \in rs[x]

Administered(us, rs) == FlaggedAdmin(us) \/ RoleAdmin(us, rs)

Init ==
    /\ savedUsers \in [Users -> Account] /\ users = savedUsers
    /\ savedRoles \in [Roles -> SUBSET Codes] /\ roles = savedRoles
    /\ Administered(savedUsers, savedRoles)
    /\ version = [x \in Rows |-> 1]
    /\ lock = [x \in Rows |-> None]
    /\ pc = [r \in Requests |-> "new"]
    /\ actor = [r \in Requests |-> None]
    /\ actorFlagged = [r \in Requests |-> FALSE]
    /\ target = [r \in Requests |-> None]
    /\ submitted = [r \in Requests |-> 0]

Goto(r, there) == pc' = [pc EXCEPT ![r] = there]
-----------------------------------------------------------------------------
(* get_permission_codes: an inactive user has none, a system administrator *)
(* has these two.                                                          *)
Holds(a, code) ==
    /\ savedUsers[a].active
    /\ \/ savedUsers[a].flagged
       \/ \E x \in savedUsers[a].roles : code \in savedRoles[x]

(* The view authenticates and authorises before any transaction begins.    *)
(* An out-of-date form is one whose version changes before Lock.           *)
Send(r, a, x) ==
    /\ pc[r] = "new"
    /\ Holds(a, IF x \in Users THEN "user.manage" ELSE "role.manage")
    /\ actor' = [actor EXCEPT ![r] = a]
    /\ actorFlagged' = [actorFlagged EXCEPT ![r] = savedUsers[a].flagged]
    /\ target' = [target EXCEPT ![r] = x]
    /\ submitted' = [submitted EXCEPT ![r] = version[x]]
    /\ Goto(r, "sent")
    /\ UNCHANGED rows

VersionMatches(r) == submitted[r] = version[target[r]]

ReadRow(r) ==
    /\ pc[r] = "sent"
    /\ Goto(r, IF VersionMatches(r) THEN "locked" ELSE "done")
    /\ UNCHANGED <<rows, actor, actorFlagged, target, submitted>>

(* select_for_update, then assert_version. *)
LockRow(r) ==
    /\ pc[r] = "sent"
    /\ Cardinality({q \in Requests : pc[q] \in Open}) < MaxOpen
    /\ lock[target[r]] = None
    /\ IF VersionMatches(r)
       THEN /\ lock' = [lock EXCEPT ![target[r]] = r]
            /\ Goto(r, "locked")
       ELSE /\ Goto(r, "done")
            /\ UNCHANGED lock
    /\ UNCHANGED <<users, savedUsers, roles, savedRoles, version, actor, actorFlagged,
                   target, submitted>>

(* An actor may not deactivate the own account, nor give up the flag that  *)
(* request.user had.                                                       *)
KeepsOwnAccess(r, u, new) ==
    actor[r] = u =>
        /\ users[u].active => new.active
        /\ actorFlagged[r] /\ users[u].flagged => new.flagged

SaveUser(r, new) ==
    LET u == target[r] IN
    /\ pc[r] = "locked"
    /\ u \in Users
    /\ new # users[u]
    /\ KeepsOwnAccess(r, u, new)
    /\ users' = [users EXCEPT ![u] = new]
    /\ Goto(r, "saved")
    /\ UNCHANGED <<savedUsers, roles, savedRoles, version, lock, actor, actorFlagged,
                   target, submitted>>

SaveRole(r, codes) ==
    /\ pc[r] = "locked"
    /\ target[r] \in Roles
    /\ codes # roles[target[r]]
    /\ roles' = [roles EXCEPT ![target[r]] = codes]
    /\ Goto(r, "saved")
    /\ UNCHANGED <<users, savedUsers, savedRoles, version, lock, actor, actorFlagged,
                   target, submitted>>

(* What a statement of r's transaction reads. *)
UsersSeen(r) ==
    [u \in Users |-> IF lock[u] = r THEN users[u] ELSE savedUsers[u]]
RolesSeen(r) ==
    [x \in Roles |-> IF lock[x] = r THEN roles[x] ELSE savedRoles[x]]

AssertFlagged(r) ==
    /\ pc[r] = "saved"
    /\ Goto(r, IF FlaggedAdmin(UsersSeen(r)) THEN "asserted" ELSE "unflagged")
    /\ UNCHANGED <<rows, actor, actorFlagged, target, submitted>>

Unlock(r) == lock' = [x \in Rows |-> IF lock[x] = r THEN None ELSE lock[x]]

(* The rows r wrote go back to what was committed. *)
Abort(r) ==
    /\ users' = [u \in Users |-> IF lock[u] = r THEN savedUsers[u] ELSE users[u]]
    /\ roles' = [x \in Roles |-> IF lock[x] = r THEN savedRoles[x] ELSE roles[x]]
    /\ Unlock(r)
    /\ Goto(r, "done")
    /\ UNCHANGED <<savedUsers, savedRoles, version, actor, actorFlagged, target, submitted>>

RoleAdminCommitted(r) == RoleAdmin(savedUsers, savedRoles)
RoleAdminSeen(r) == RoleAdmin(UsersSeen(r), RolesSeen(r))

AssertRole(r) ==
    /\ pc[r] = "unflagged"
    /\ RoleAdminSeen(r)
    /\ Goto(r, "asserted")
    /\ UNCHANGED <<rows, actor, actorFlagged, target, submitted>>

(* BusinessRuleError: the assertion fails. *)
RefuseLockout(r) ==
    /\ pc[r] = "unflagged"
    /\ ~RoleAdminSeen(r)
    /\ Abort(r)

ReferredNone(r) == {}
(* The rows that foreign keys written by r refer to: its actor, whom the   *)
(* audit entry names, and the roles it newly grants.                       *)
Referred(r) ==
    {actor[r]} \cup
    (IF target[r] \in Users THEN users[target[r]].roles \ savedUsers[target[r]].roles
                            ELSE {})

Commit(r) ==
    /\ pc[r] = "asserted"
    /\ \A x \in Referred(r) : lock[x] \in {None, r}
    /\ savedUsers' = UsersSeen(r)
    /\ savedRoles' = RolesSeen(r)
    /\ version' = [version EXCEPT ![target[r]] = @ + 1]
    /\ Unlock(r)
    /\ Goto(r, "done")
    /\ UNCHANGED <<users, roles, actor, actorFlagged, target, submitted>>

(* A rule, or validation, refuses the payload. *)
Refuse(r) ==
    /\ pc[r] = "locked"
    /\ Abort(r)

(* An error ends the transaction later on. *)
Rollback(r) ==
    /\ pc[r] \in Open \ {"locked"}
    /\ Abort(r)

(* Whose locks r waits for. *)
WaitsFor(r) ==
    CASE pc[r] = "sent"     -> {lock[target[r]]} \ {None}
      [] pc[r] = "asserted" -> {lock[x] : x \in Referred(r)} \ {None, r}
      [] OTHER              -> {}

NeverDeadlocked(r) == FALSE
(* r waits for itself through the members of a cycle. *)
Deadlocked(r) ==
    \E C \in SUBSET Requests :
        /\ r \in C
        /\ \A q \in C : C \cap WaitsFor(q) # {}
        /\ \A q \in C : \E p \in C : q \in WaitsFor(p)

(* After deadlock_timeout PostgreSQL ends one transaction of the cycle. *)
DeadlockVictim(r) ==
    /\ Deadlocked(r)
    /\ Abort(r)
-----------------------------------------------------------------------------
Proceed(r) ==
    \/ LockRow(r) \/ Refuse(r)
    \/ \E new \in Account : SaveUser(r, new)
    \/ \E codes \in SUBSET Codes : SaveRole(r, codes)
    \/ AssertFlagged(r) \/ AssertRole(r) \/ RefuseLockout(r)
    \/ Commit(r) \/ DeadlockVictim(r)

Next ==
    \E r \in Requests :
        \/ \E a \in Users, x \in Rows : Send(r, a, x)
        \/ Proceed(r)
        \/ Rollback(r)

Spec == Init /\ [][Next]_vars

(* A request runs on once it is sent: it takes a row that is free, and a   *)
(* deadlock is found.                                                      *)
Fairness == \A r \in Requests : WF_vars(Proceed(r))

FairSpec == Spec /\ Fairness
-----------------------------------------------------------------------------
(* What the assertion promises, "refuse a change that would leave nobody   *)
(* able to administer the environment": whatever has been committed leaves *)
(* an active user who may manage users.                                    *)
AdministratorRemains == Administered(savedUsers, savedRoles)

(* Every request ends, though two administrators who change each other's   *)
(* accounts wait for each other at commit: each has locked the row the     *)
(* other's audit entry refers to.                                          *)
RequestsEnd == \A r \in Requests : pc[r] = "sent" ~> pc[r] = "done"
=============================================================================
