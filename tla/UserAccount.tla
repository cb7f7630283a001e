----------------------------- MODULE UserAccount -----------------------------
(***************************************************************************)
(* One row of core_user and everything that writes it.                     *)
(*                                                                         *)
(* update_user follows the protocol of VersionedModel: it locks the row,   *)
(* compares the version the client submits, and saves every column.        *)
(* Signing in and changing one's own password do not: they load the row    *)
(* without a lock and later save a few columns of that copy, in UPDATEs of *)
(* their own, and User.save adds `version' to the columns of each, one     *)
(* more than the version of the copy.                                      *)
(*                                                                         *)
(* The columns an administrator edits are one value here, the number of    *)
(* the edit that wrote them, beside is_active; the password is the number  *)
(* of the change that set it.  last_login and its address are left out,    *)
(* the saves that write them are not.                                      *)
(***************************************************************************)
EXTENDS Naturals

CONSTANTS
    Clients,        \* PATCH requests of administrators to this user
    Requests,       \* sign-in attempts and password changes of this user
    Nobody,         \* holds no row lock
    MaxFailed,      \* LOGIN_MAX_FAILED_ATTEMPTS
    MaxEdits        \* bound: edits that are saved

ASSUME Distinct == Nobody \notin Clients \cup Requests /\ Clients \cap Requests = {}
ASSUME LimitTypes == MaxFailed \in Nat \ {0} /\ MaxEdits \in Nat

VARIABLES
    row,            \* the committed row
    lock,           \* whose transaction holds the row lock
    pc,             \* where each client and each request is
    seen,           \* version and edit number a client has on its form
    copy,           \* the Python object a transaction or request works on
    written         \* history: what the last writer of each column wrote

vars == <<row, lock, pc, seen, copy, written>>

Actors == Clients \cup Requests

(* locked: locked_until is set, whether or not it has passed. *)
Row == [version : Nat, profile : Nat, active : BOOLEAN, password : Nat,
        failed : Nat, locked : BOOLEAN]

Columns == [profile : Nat, active : BOOLEAN, password : Nat, failed : Nat,
            locked : BOOLEAN]

ClientPcs  == {"viewing", "submitted", "editing"}
RequestPcs == {"new", "mistyped", "typed", "admitted", "changing", "changed", "done"}

TypeOK ==
    /\ row \in Row
    /\ lock \in {c \in Clients : pc[c] = "editing"} \cup {Nobody}
    /\ pc \in [Actors -> ClientPcs \cup RequestPcs]
    /\ \A c \in Clients : pc[c] \in ClientPcs
    /\ \A r \in Requests : pc[r] \in RequestPcs
    /\ seen \in [Clients -> [version : Nat, profile : Nat]]
    /\ copy \in [Actors -> Row]
    /\ written \in Columns

Blank == [version |-> 1, profile |-> 0, active |-> TRUE, password |-> 0,
          failed |-> 0, locked |-> FALSE]

Init ==
    /\ row = Blank
    /\ lock = Nobody
    /\ pc = [a \in Actors |-> IF a \in Clients THEN "viewing" ELSE "new"]
    /\ seen = [c \in Clients |-> [version |-> 1, profile |-> 0]]
    /\ copy = [a \in Actors |-> Blank]
    /\ written = [profile |-> 0, active |-> TRUE, password |-> 0, failed |-> 0,
                  locked |-> FALSE]

Goto(a, there) == pc' = [pc EXCEPT ![a] = there]
-----------------------------------------------------------------------------
(***************************************************************************)
(* An administrator's form: loaded at some time, submitted at another.     *)
(***************************************************************************)
View(c) ==
    /\ pc[c] = "viewing"
    /\ seen' = [seen EXCEPT ![c] = [version |-> row.version, profile |-> row.profile]]
    /\ Goto(c, "submitted")
    /\ UNCHANGED <<row, lock, copy, written>>

RowFree == lock = Nobody

(* assert_version: another version is answered with 409 and the client     *)
(* loads the form again.                                                   *)
VersionMatches(c) == seen[c].version = row.version

LockAndCheck(c) ==
    /\ pc[c] = "submitted"
    /\ RowFree
    /\ IF VersionMatches(c)
       THEN /\ lock' = c
            /\ copy' = [copy EXCEPT ![c] = row]
            /\ Goto(c, "editing")
       ELSE /\ Goto(c, "viewing")
            /\ UNCHANGED <<lock, copy>>
    /\ UNCHANGED <<row, seen, written>>

(* user.save() without update_fields writes the whole copy. *)
SaveEdit(c, active) ==
    /\ pc[c] = "editing"
    /\ written.profile < MaxEdits
    /\ row' = [copy[c] EXCEPT !.version = @ + 1,
                              !.profile = written.profile + 1,
                              !.active = active]
    /\ written' = [written EXCEPT !.profile = @ + 1, !.active = active]
    /\ lock' = Nobody
    /\ Goto(c, "viewing")
    /\ UNCHANGED <<seen, copy>>

(* A business rule, or an error, refuses the edit: the rollback unlocks.   *)
AbandonEdit(c) ==
    /\ pc[c] = "editing"
    /\ lock' = Nobody
    /\ Goto(c, "viewing")
    /\ UNCHANGED <<row, seen, copy, written>>
-----------------------------------------------------------------------------
(***************************************************************************)
(* Requests: LoginView.post and PasswordChangeView.post.                   *)
(***************************************************************************)
(* The row is loaded: for a sign-in, whose password then turns out to be   *)
(* wrong or right, or by EmailBackend.get_user for the session that        *)
(* changes its password, which an inactive account no longer has.          *)
Load(r) ==
    /\ pc[r] = "new"
    /\ copy' = [copy EXCEPT ![r] = row]
    /\ \/ Goto(r, "mistyped") \/ Goto(r, "typed")
       \/ row.active /\ Goto(r, "changing")
    /\ UNCHANGED <<row, lock, seen, written>>

(* save(update_fields=...) of a copy: the named columns and the version.   *)
(* The UPDATE waits for the row lock.                                      *)
SaveAll(r, cols) ==
    /\ RowFree
    /\ row' = [copy[r] EXCEPT !.version = copy[r].version + 1,
                              !.password = cols.password,
                              !.failed = cols.failed, !.locked = cols.locked]
    /\ copy' = [copy EXCEPT ![r].version = @ + 1]

SaveColumns(r, cols) ==
    /\ RowFree
    /\ row' = [row EXCEPT !.version = copy[r].version + 1,
                          !.password = cols.password,
                          !.failed = cols.failed, !.locked = cols.locked]
    /\ copy' = [copy EXCEPT ![r].version = @ + 1]

(* register_failed_login: one UPDATE of the counter, and of locked_until   *)
(* when the counter reaches the limit.                                     *)
FailLogin(r) ==
    LET count == copy[r].failed + 1
        limit == count >= MaxFailed
        cols  == [row EXCEPT !.failed = count, !.locked = @ \/ limit]
    IN
    /\ pc[r] = "mistyped" /\ copy[r].active
    /\ SaveColumns(r, cols)
    /\ written' = [written EXCEPT !.failed = count, !.locked = @ \/ limit]
    /\ Goto(r, "done")
    /\ UNCHANGED <<lock, seen>>

(* A deactivated or locked account; a lock that has passed is no obstacle. *)
Refuse(r) ==
    /\ pc[r] \in {"mistyped", "typed"}
    /\ ~copy[r].active \/ (pc[r] = "typed" /\ copy[r].locked)
    /\ Goto(r, "done")
    /\ UNCHANGED <<row, lock, seen, copy, written>>

(* django_login saves last_login of the copy. *)
Admit(r) ==
    /\ pc[r] = "typed" /\ copy[r].active
    /\ SaveColumns(r, row)
    /\ Goto(r, "admitted")
    /\ UNCHANGED <<lock, seen, written>>

(* register_successful_login. *)
SucceedLogin(r) ==
    /\ pc[r] = "admitted"
    /\ SaveColumns(r, [row EXCEPT !.failed = 0, !.locked = FALSE])
    /\ written' = [written EXCEPT !.failed = 0, !.locked = FALSE]
    /\ Goto(r, "done")
    /\ UNCHANGED <<lock, seen>>

(* change_own_password: the UPDATE, and the audit row, in one transaction. *)
ChangePassword(r) ==
    /\ pc[r] = "changing"
    /\ SaveColumns(r, [row EXCEPT !.password = written.password + 1])
    /\ written' = [written EXCEPT !.password = @ + 1]
    /\ Goto(r, "changed")
    /\ UNCHANGED <<lock, seen>>

(* django_login again, to keep the session. *)
StaySignedIn(r) ==
    /\ pc[r] = "changed"
    /\ SaveColumns(r, row)
    /\ Goto(r, "done")
    /\ UNCHANGED <<lock, seen, written>>
-----------------------------------------------------------------------------
Edit(c) ==
    \/ View(c) \/ LockAndCheck(c) \/ AbandonEdit(c)
    \/ \E active \in BOOLEAN : SaveEdit(c, active)

Answer(r) ==
    \/ Load(r)
    \/ FailLogin(r) \/ Refuse(r) \/ Admit(r) \/ SucceedLogin(r)
    \/ ChangePassword(r) \/ StaySignedIn(r)

Next ==
    \/ \E c \in Clients : Edit(c)
    \/ \E r \in Requests : Answer(r)

Spec == Init /\ [][Next]_vars
-----------------------------------------------------------------------------
(* Each column holds what its last writer wrote: an administrator's save   *)
(* of the whole row never puts back an old password or counter, and a      *)
(* request that saves an old copy never puts back an old profile.          *)
ColumnsKept ==
    /\ row.profile = written.profile /\ row.active = written.active
    /\ row.password = written.password
    /\ row.failed = written.failed /\ row.locked = written.locked

(* An edit is accepted only when the form shows the row's latest edit:     *)
(* "a client that submits a stale version receives HTTP 409 and its write  *)
(* is rejected, rather than silently overwriting a change made by someone  *)
(* else".                                                                  *)
StaleEditRejected ==
    \A c \in Clients : pc[c] = "editing" => seen[c].profile = row.profile
=============================================================================
