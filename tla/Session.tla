------------------------------- MODULE Session -------------------------------
(***************************************************************************)
(* The sessions of the user of UserAccount: the rows of django_session,    *)
(* the cookies that name them, and the audit entries of signing in and out *)
(* (LoginView, PasswordChangeView, SessionView, LogoutView, EmailBackend). *)
(*                                                                         *)
(* A session carries a hash of the password its user had, here the number  *)
(* of the change that set that password.  SESSION_SAVE_EVERY_REQUEST makes *)
(* every response save the session its request has loaded; the middleware  *)
(* does not save it when the response is an error of the server, so that a *)
(* request that fails, or whose process is killed, is one that takes no    *)
(* further step.  No view is one transaction: every step below is seen by  *)
(* the others before the next one.                                         *)
(*                                                                         *)
(* Sessions of other users are not in `store'.  They matter where a        *)
(* browser changes hands: somebody else signs in with the cookie of a      *)
(* session of this user, or this user with the cookie of somebody else's.  *)
(***************************************************************************)
EXTENDS UserAccount

CONSTANTS
    Visits,         \* browsers that ask for SessionView or LogoutView
    Others,         \* other users who sign in
    Keys,           \* session keys; bound: keys that are ever generated
    Foreign,        \* the key of a session of another user
    NoKey           \* a request without a session

ASSUME NewNames == /\ NoKey \notin Keys /\ Foreign \notin Keys \cup {NoKey}
                   /\ Visits \cap Actors = {}

VARIABLES
    store,          \* the session table: what each key stands for
    given,          \* keys a browser has been given in a response
    mine,           \* the session of each sign-in and password change
    on,             \* the session of each visit
    guest,          \* the session each sign-in of another user has found
    trail,          \* requests and keys that have an audit entry
    past            \* history: opener of a key, last edit that left the
                    \* account active, keys other users signed in with

session == <<store, given, mine, on, guest, trail, past>>
allVars == <<vars, session>>

(* free: never generated; anonymous: cycle_key has stored it empty. *)
States == {"free", "anonymous", "signed in", "ended"}
Live   == {"anonymous", "signed in"}
Stored == [state : States, hash : Nat]

(* stage of a request: the session loaded, set by django_login.            *)
(* key: its session, before that is loaded its cookie; hash: the session's *)
(* password; knows: the password the user has proved to know.              *)
Mine == [stage : {"out", "in", "entered"},
         key : Keys \cup {NoKey, Foreign}, hash : Nat, knows : Nat]

(* asked (history): what was committed when the visit began. *)
On   == [stage : {"away", "named", "serving", "leaving"},
         key : Keys \cup {NoKey}, hash : Nat,
         asked : [password : Nat, profile : Nat]]

Out  == [stage |-> "out", key |-> NoKey, hash |-> 0, knows |-> 0]
Away == [stage |-> "away", key |-> NoKey, hash |-> 0,
         asked |-> [password |-> 0, profile |-> 0]]

(* AuditEvent: rows are added, and never changed or deleted. *)
Trail == [opened : SUBSET Requests, left : SUBSET Keys]

Past == [opener : [Keys -> Requests \cup {Nobody}], active : Nat,
         handed : SUBSET Keys]

SessionTypeOK ==
    /\ TypeOK
    /\ store \in [Keys -> Stored]
    /\ given \subseteq Keys
    /\ \A k \in given : store[k].state \in {"signed in", "ended"}
    /\ mine \in [Requests -> Mine]
    /\ on \in [Visits -> On]
    /\ guest \in [Others -> Keys \cup {NoKey}]
    /\ trail \in Trail
    /\ past \in Past

SessionInit ==
    /\ Init
    /\ store = [k \in Keys |-> [state |-> "free", hash |-> 0]]
    /\ given = {}
    /\ mine = [r \in Requests |-> Out]
    /\ on = [v \in Visits |-> Away]
    /\ guest = [o \in Others |-> NoKey]
    /\ trail = [opened |-> {}, left |-> {}]
    /\ past = [opener |-> [k \in Keys |-> Nobody], active |-> 0, handed |-> {}]

SignedIn(k) == k \in Keys /\ store[k].state = "signed in"
End(k)      == store' = [store EXCEPT ![k].state = "ended"]
-----------------------------------------------------------------------------
(***************************************************************************)
(* Signing in and changing the password.                                   *)
(***************************************************************************)
(* A request comes with the cookie the browser holds.  A password change   *)
(* is authenticated by it; LoginView authenticates by the form, and looks  *)
(* at the session in django_login.                                         *)
Authentic(cookie) == SignedIn(cookie) /\ store[cookie].hash = row.password

(* What either form proves: the password of the row that was just loaded.  *)
Proved == row.password

Send(r, cookie) ==
    /\ cookie \in given \cup {NoKey, Foreign}
    /\ Load(r)
    /\ pc'[r] = "changing" => Authentic(cookie)
    /\ mine' = [mine EXCEPT ![r] =
          IF pc'[r] = "mistyped" THEN Out
          ELSE [stage |-> IF pc'[r] = "changing" THEN "in" ELSE "out",
                key |-> cookie, hash |-> row.password, knows |-> Proved]]
    /\ UNCHANGED <<store, given, on, guest, trail, past>>

(* The answer of a refused sign-in stores nothing new: its session has not *)
(* changed.                                                                *)
TurnDown(r) ==
    /\ mine[r].stage = "out"
    /\ FailLogin(r) \/ Refuse(r)
    /\ mine' = [mine EXCEPT ![r] = Out]
    /\ UNCHANGED <<store, given, on, guest, trail, past>>

(* A session that has ended is loaded as an empty one, and another user's  *)
(* may have ended.                                                         *)
LoadSession(r) ==
    LET cookie == mine[r].key IN
    /\ pc[r] = "typed" /\ copy[r].active
    /\ mine[r].stage = "out"
    /\ \/ /\ SignedIn(cookie)
          /\ mine' = [mine EXCEPT ![r] = [@ EXCEPT !.stage = "in",
                                                   !.hash = store[cookie].hash]]
       \/ /\ cookie = Foreign
          /\ mine' = [mine EXCEPT ![r] = [@ EXCEPT !.stage = "in"]]
       \/ /\ ~SignedIn(cookie)
          /\ mine' = [mine EXCEPT ![r] = [@ EXCEPT !.stage = "in", !.key = NoKey]]
    /\ UNCHANGED <<vars, store, given, on, guest, trail, past>>

NeverSame(r) == FALSE
SamePassword(r) == mine[r].hash = mine[r].knows

NewSession(r, key) ==
    mine' = [mine EXCEPT ![r] = [@ EXCEPT !.stage = "entered", !.key = key,
                                          !.hash = mine[r].knows]]

(* The first half of django_login: a session of the same user and password *)
(* keeps its key, one of another password or of another user is flushed,   *)
(* and an anonymous one gets a new key, whose row is stored at once.       *)
Enter(r) ==
    LET key == mine[r].key IN
    /\ pc[r] \in {"typed", "changed"} /\ mine[r].stage = "in"
    /\ \/ /\ key \in Keys /\ SamePassword(r)
          /\ mine' = [mine EXCEPT ![r].stage = "entered"]
          /\ UNCHANGED store
       \/ /\ key \in Keys /\ ~SamePassword(r)
          /\ End(key)
          /\ NewSession(r, NoKey)
       \/ /\ key = Foreign
          /\ NewSession(r, NoKey)
          /\ UNCHANGED store
       \/ /\ key = NoKey
          /\ \E k \in Keys :
                /\ store[k].state = "free"
                /\ store' = [store EXCEPT ![k].state = "anonymous"]
                /\ NewSession(r, k)
    /\ UNCHANGED <<vars, given, on, guest, trail, past>>

(* change_own_password writes its audit entry in its own transaction. *)
Change(r) ==
    /\ ChangePassword(r)
    /\ mine' = [mine EXCEPT ![r].knows = row'.password]
    /\ trail' = [trail EXCEPT !.opened = @ \cup {r}]
    /\ UNCHANGED <<store, given, on, guest, past>>

(* The second half: the save of last_login and, for a sign-in, of the      *)
(* counters.                                                               *)
Greet(r) ==
    /\ mine[r].stage = "entered"
    /\ Admit(r) \/ SucceedLogin(r) \/ StaySignedIn(r)
    /\ UNCHANGED session

(* record_audit: the entry refers to its actor, whose row must be free. *)
Record(r) ==
    /\ pc[r] = "done" /\ mine[r].stage = "entered" /\ r \notin trail.opened
    /\ RowFree
    /\ trail' = [trail EXCEPT !.opened = @ \cup {r}]
    /\ UNCHANGED <<vars, store, given, mine, on, guest, past>>

RecordedLater(r) == pc[r] = "done"
Recorded(r) == r \in trail.opened

(* The middleware saves the session of an answer: a new row for a session  *)
(* without a key, an UPDATE of its row for one that has a key, and an      *)
(* answer of 400 where that row has gone.                                  *)
ContentLost(hash) == [state |-> "anonymous", hash |-> hash]
Content(hash) == [state |-> "signed in", hash |-> hash]

StoredAgain(key, k) == IF key = NoKey THEN store[k].state = "free" ELSE k = key
StoredAs(key, k) ==
    IF key = NoKey THEN store[k].state = "free"
                   ELSE k = key /\ store[k].state \in Live

Respond(r) ==
    /\ pc[r] = "done" /\ mine[r].stage = "entered" /\ Recorded(r)
    /\ mine' = [mine EXCEPT ![r] = Out]
    /\ \/ \E k \in Keys :
            /\ StoredAs(mine[r].key, k)
            /\ store' = [store EXCEPT ![k] = Content(mine[r].hash)]
            /\ given' = given \cup {k}
            /\ past' = [past EXCEPT !.opener[k] = IF SignedIn(k) THEN @ ELSE r]
       \/ /\ mine[r].key # NoKey /\ ~\E k \in Keys : StoredAs(mine[r].key, k)
          /\ UNCHANGED <<store, given, past>>
    /\ UNCHANGED <<vars, on, guest, trail>>
-----------------------------------------------------------------------------
(***************************************************************************)
(* Using and ending a session: SessionView.get and LogoutView.post.        *)
(***************************************************************************)
(* SessionAuthentication loads the session and then, by get_user, the      *)
(* user.                                                                   *)
Arrive(v, k) ==
    /\ on[v].stage = "away" /\ k \in given /\ SignedIn(k)
    /\ on' = [on EXCEPT ![v] =
          [stage |-> "named", key |-> k, hash |-> store[k].hash,
           asked |-> [password |-> written.password, profile |-> written.profile]]]
    /\ UNCHANGED <<vars, store, given, mine, guest, trail, past>>

Leaves(v) == on' = [on EXCEPT ![v] = Away]

AnyUser(v) == TRUE
UserFound(v) == row.active

(* An inactive user is nobody, and the session stays; a session of another *)
(* password is flushed.                                                    *)
Recognise(v) ==
    /\ on[v].stage = "named"
    /\ \/ /\ UserFound(v) /\ on[v].hash = row.password
          /\ on' = [on EXCEPT ![v].stage = "serving"]
          /\ UNCHANGED store
       \/ /\ UserFound(v) /\ on[v].hash # row.password
          /\ Leaves(v) /\ End(on[v].key)
       \/ /\ ~UserFound(v)
          /\ Leaves(v) /\ UNCHANGED store
    /\ UNCHANGED <<vars, given, mine, guest, trail, past>>

(* The answer saves the session as it was loaded, if its row is there. *)
Show(v) ==
    /\ on[v].stage = "serving"
    /\ Leaves(v)
    /\ store' = [k \in Keys |-> IF StoredAs(on[v].key, k) THEN Content(on[v].hash)
                                                        ELSE store[k]]
    /\ UNCHANGED <<vars, given, mine, guest, trail, past>>

RecordLeave(v) ==
    /\ on[v].stage = "serving" /\ RowFree
    /\ trail' = [trail EXCEPT !.left = @ \cup {on[v].key}]
    /\ on' = [on EXCEPT ![v].stage = "leaving"]
    /\ UNCHANGED <<vars, store, given, mine, guest, past>>

Leave(v) ==
    /\ on[v].stage = "leaving"
    /\ Leaves(v) /\ End(on[v].key)
    /\ UNCHANGED <<vars, given, mine, guest, trail, past>>
-----------------------------------------------------------------------------
(***************************************************************************)
(* Another user signs in, with a password of his own, in a browser that    *)
(* has a session of this one: LoginView lets anybody sign in, and          *)
(* django_login loads the session of the cookie and flushes it as somebody *)
(* else's.  What follows is the other user's session.                      *)
(***************************************************************************)
FindSession(o, k) ==
    /\ guest[o] = NoKey /\ k \in given /\ SignedIn(k)
    /\ guest' = [guest EXCEPT ![o] = k]
    /\ past' = [past EXCEPT !.handed = @ \cup {k}]
    /\ UNCHANGED <<vars, store, given, mine, on, trail>>

Displace(o) ==
    /\ guest[o] # NoKey
    /\ End(guest[o])
    /\ guest' = [guest EXCEPT ![o] = NoKey]
    /\ UNCHANGED <<vars, given, mine, on, trail, past>>
-----------------------------------------------------------------------------
Administer(c) ==
    /\ Edit(c)
    /\ past' = IF written'.profile # written.profile /\ row'.active
               THEN [past EXCEPT !.active = written'.profile] ELSE past
    /\ UNCHANGED <<store, given, mine, on, guest, trail>>

Serve(r) ==
    \/ \E cookie \in Keys \cup {NoKey, Foreign} : Send(r, cookie)
    \/ TurnDown(r)
    \/ LoadSession(r) \/ Enter(r) \/ Change(r) \/ Greet(r) \/ Record(r) \/ Respond(r)

Visit(v) ==
    \/ \E k \in Keys : Arrive(v, k)
    \/ Recognise(v) \/ Show(v) \/ RecordLeave(v) \/ Leave(v)

HandOver(o) == Displace(o) \/ \E k \in Keys : FindSession(o, k)

SessionNext ==
    \/ \E c \in Clients : Administer(c)
    \/ \E r \in Requests : Serve(r)
    \/ \E v \in Visits : Visit(v)
    \/ \E o \in Others : HandOver(o)

SessionSpec == SessionInit /\ [][SessionNext]_allVars
-----------------------------------------------------------------------------
(* Revocation is immediate ("a deactivated account loses access on its     *)
(* very next request", EmailBackend.get_user): what serves a request is a  *)
(* session of the password in force when the request arrived, or a later   *)
(* one, and the account has been active at some time since.                *)
RevocationIsImmediate ==
    \A v \in Visits : on[v].stage = "serving" =>
        /\ on[v].hash >= on[v].asked.password
        /\ past.active >= on[v].asked.profile

(* Whoever is signed in is on record: LoginView and change_own_password    *)
(* write the audit entry before the middleware stores the session.         *)
SignInsRecorded ==
    \A k \in Keys : SignedIn(k) => past.opener[k] \in trail.opened

(* A session ends for a cause: its owner signed out, which is on record,   *)
(* the password it was opened with has been changed, or somebody else      *)
(* signed in with its cookie.  The owner's own sign-ins, in this browser   *)
(* or another, end none that is of the password in force (django_login).   *)
SessionsEndForCause ==
    \A k \in Keys : store[k].state = "ended" =>
        \/ k \in trail.left
        \/ store[k].hash < row.password
        \/ k \in past.handed

(* An ended session stays ended: an answer that comes late saves the       *)
(* session it has loaded and does not bring it back (LogoutView,           *)
(* SESSION_SAVE_EVERY_REQUEST).                                            *)
SignOutFinal ==
    [][\A k \in Keys : store[k].state = "ended" => store'[k].state = "ended"]_store
=============================================================================
