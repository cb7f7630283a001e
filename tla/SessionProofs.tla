---------------------------- MODULE SessionProofs ----------------------------
(***************************************************************************)
(* Proofs about Session, for any number of forms, requests, browsers and   *)
(* session keys.                                                           *)
(***************************************************************************)
EXTENDS Session, UserAccountProofs

(***************************************************************************)
(* The inductive invariant.  A key is unknown to everybody, or held by the *)
(* one request that has generated it, or given to a browser, and from then *)
(* on its hash stays what it is.                                           *)
(***************************************************************************)
KeysHeld ==
    \A r \in Requests : mine[r].key \in Keys \ given =>
        /\ mine[r].stage = "entered" /\ store[mine[r].key].state = "anonymous"
        /\ \A s \in Requests : mine[s].key = mine[r].key => s = r

HashInv ==
    /\ \A k \in given : store[k].hash <= row.password
    /\ \A r \in Requests :
          /\ mine[r].hash <= mine[r].knows /\ mine[r].knows <= row.password
          /\ mine[r].key \in given =>
                /\ store[mine[r].key].hash <= mine[r].knows
                /\ mine[r].stage # "out" => store[mine[r].key].hash = mine[r].hash

VisitInv ==
    \A v \in Visits : on[v].stage # "away" =>
        /\ on[v].key \in given /\ store[on[v].key].hash = on[v].hash
        /\ on[v].asked.password <= row.password
        /\ on[v].asked.profile <= written.profile
        /\ on[v].stage = "leaving" => on[v].key \in trail.left

GuestInv ==
    \A o \in Others : guest[o] # NoKey => guest[o] \in given \cap past.handed

(* The last edit that left the account active is the last edit, if the     *)
(* account is active.                                                      *)
ActiveInv ==
    /\ past.active <= written.profile
    /\ row.active => past.active = written.profile

SessionInv ==
    /\ SessionTypeOK /\ IInv
    /\ KeysHeld /\ HashInv /\ VisitInv /\ GuestInv /\ ActiveInv
    /\ RevocationIsImmediate /\ SignInsRecorded /\ SessionsEndForCause
-----------------------------------------------------------------------------
(***************************************************************************)
(* The account underneath: every step of a session is a step of            *)
(* UserAccount, or leaves the account alone.                               *)
(***************************************************************************)
LEMMA ServeAnswers ==
  ASSUME NEW r \in Requests, Serve(r)
  PROVE  Answer(r) \/ UNCHANGED vars
<1>1. ASSUME NEW cookie \in Keys \cup {NoKey, Foreign}, Send(r, cookie) PROVE Answer(r)
  BY <1>1 DEF Send, Answer
<1>2. CASE TurnDown(r)
  BY <1>2 DEF TurnDown, Answer
<1>3. CASE LoadSession(r)
  BY <1>3 DEF LoadSession
<1>4. CASE Enter(r)
  BY <1>4 DEF Enter
<1>5. CASE Change(r)
  BY <1>5 DEF Change, Answer
<1>6. CASE Greet(r)
  BY <1>6 DEF Greet, Answer
<1>7. CASE Record(r)
  BY <1>7 DEF Record
<1>8. CASE Respond(r)
  BY <1>8 DEF Respond
<1>9. QED
  BY <1>1, <1>2, <1>3, <1>4, <1>5, <1>6, <1>7, <1>8 DEF Serve

LEMMA VisitRests ==
  ASSUME NEW v \in Visits, Visit(v)
  PROVE  UNCHANGED vars
  BY DEF Visit, Arrive, Recognise, Show, RecordLeave, Leave

LEMMA HandOverRests ==
  ASSUME NEW o \in Others, HandOver(o)
  PROVE  UNCHANGED vars
  BY DEF HandOver, FindSession, Displace

LEMMA StepOfAccount ==
  ASSUME [SessionNext]_allVars
  PROVE  [Next]_vars
<1>1. CASE UNCHANGED allVars
  BY <1>1 DEF allVars
<1>2. CASE SessionNext
  BY <1>2, ServeAnswers, VisitRests, HandOverRests DEF SessionNext, Administer, Next
<1>3. QED
  BY <1>1, <1>2

(* Sessions add to the account and take nothing from it: what is proved of *)
(* UserAccount holds with sessions, visits and the audit trail around it.  *)
THEOREM SessionsImplementAccount == SessionSpec => Spec
<1>1. SessionInit => Init
  BY DEF SessionInit
<1>2. QED
  BY <1>1, StepOfAccount, PTL DEF SessionSpec, Spec

(* No save puts back an older value of a column another one wrote, when    *)
(* sessions are opened, used and ended meanwhile.                          *)
THEOREM NoColumnLostInSessions == SessionSpec => []ColumnsKept
  BY SessionsImplementAccount, NoColumnLost, PTL

(* What a request leaves of the account. *)
Steady ==
    /\ IInv'
    /\ row'.password >= row.password
    /\ row'.active = row.active /\ written'.profile = written.profile

LEMMA AnswersSteady ==
  ASSUME IInv, NEW r \in Requests, Answer(r) \/ UNCHANGED vars
  PROVE  Steady
<1>0. /\ TypeOK /\ ColumnsKept /\ row \in Row /\ written \in Columns /\ copy[r] \in Row
  BY DEF IInv, TypeOK, Actors
<1>1. CASE UNCHANGED vars
  BY <1>0, <1>1 DEF vars, Steady, IInv, TypeOK, EditInv, ColumnsKept, Row
<1>2. CASE Answer(r)
  <2>1. IInv'
    BY <1>2, AnswerKeeps
  <2>2. ASSUME NEW cols \in Row, SaveColumns(r, cols), cols.password >= row.password
        PROVE  row'.password >= row.password /\ row'.active = row.active
    BY <1>0, <2>2 DEF SaveColumns, Row
  <2>3. row.password \in Nat /\ row.password = written.password
        /\ row.password + 1 \in Nat /\ copy[r].failed + 1 \in Nat
    BY <1>0 DEF Row, ColumnsKept
  <2>4. CASE Load(r) \/ Refuse(r)
    BY <2>1, <2>3, <2>4 DEF Load, Refuse, Steady
  <2>5. CASE FailLogin(r)
    <3> DEFINE cols == [row EXCEPT !.failed = copy[r].failed + 1,
                                   !.locked = @ \/ copy[r].failed + 1 >= MaxFailed]
    <3>1. cols \in Row /\ cols.password = row.password
      <4>1. (row.locked \/ copy[r].failed + 1 >= MaxFailed) \in BOOLEAN
        OBVIOUS
      <4>2. QED
        BY <1>0, <2>3, <4>1 DEF Row
    <3>2. SaveColumns(r, cols)
      BY <2>5 DEF FailLogin
    <3>3. written'.profile = written.profile
      BY <1>0, <2>5 DEF FailLogin, Columns
    <3> HIDE DEF cols
    <3>4. QED
      BY <2>1, <2>2, <2>3, <3>1, <3>2, <3>3 DEF Steady
  <2>6. CASE Admit(r) \/ StaySignedIn(r)
    BY <1>0, <2>1, <2>2, <2>3, <2>6 DEF Admit, StaySignedIn, Steady
  <2>7. CASE SucceedLogin(r)
    <3> DEFINE cols == [row EXCEPT !.failed = 0, !.locked = FALSE]
    <3>1. cols \in Row /\ cols.password = row.password
      BY <1>0 DEF Row
    <3>2. SaveColumns(r, cols) /\ written'.profile = written.profile
      BY <1>0, <2>7 DEF SucceedLogin, Columns
    <3> HIDE DEF cols
    <3>3. QED
      BY <2>1, <2>2, <2>3, <3>1, <3>2 DEF Steady
  <2>8. CASE ChangePassword(r)
    <3> DEFINE cols == [row EXCEPT !.password = written.password + 1]
    <3>1. cols \in Row /\ cols.password >= row.password
      BY <1>0, <2>3 DEF Row
    <3>2. SaveColumns(r, cols) /\ written'.profile = written.profile
      BY <1>0, <2>8 DEF ChangePassword, Columns
    <3> HIDE DEF cols
    <3>3. QED
      BY <2>1, <2>2, <3>1, <3>2 DEF Steady
  <2>9. QED
    BY <1>2, <2>4, <2>5, <2>6, <2>7, <2>8 DEF Answer
<1>3. QED
  BY <1>1, <1>2
-----------------------------------------------------------------------------
(***************************************************************************)
(* The sessions.                                                           *)
(***************************************************************************)
LEMMA Types ==
  ASSUME SessionInv
  PROVE  /\ row.password \in Nat /\ written.profile \in Nat /\ past.active \in Nat
         /\ store \in [Keys -> Stored] /\ given \subseteq Keys
         /\ mine \in [Requests -> Mine] /\ on \in [Visits -> On]
         /\ guest \in [Others -> Keys \cup {NoKey}]
         /\ trail \in Trail /\ past \in Past
         /\ NoKey \notin Keys /\ Foreign \notin Keys \cup {NoKey}
         /\ \A k \in given : store[k].state \in {"signed in", "ended"}
  BY NewNames DEF SessionInv, SessionTypeOK, TypeOK, Row, Columns, Past

LEMMA NothingHeld == Out \in Mine /\ Away \in On /\ Out.key \notin Keys
  BY NewNames DEF Out, Away, Mine, On

LEMMA InitSession == SessionInit => SessionInv
<1> SUFFICES ASSUME SessionInit PROVE SessionInv
  OBVIOUS
<1>1. IInv /\ row.password = 0 /\ written.profile = 0 /\ past.active = 0
  BY InitIInv DEF SessionInit, Init, Blank
<1>2. SessionTypeOK
  <2>1. [state |-> "free", hash |-> 0] \in Stored
    BY DEF Stored, States
  <2>2. QED
    BY <1>1, <2>1, NothingHeld DEF SessionInit, SessionTypeOK, IInv, Trail, Past
<1>3. KeysHeld /\ HashInv
  <2>1. Out.key = NoKey /\ Out.hash = 0 /\ Out.knows = 0
    BY DEF Out
  <2>2. QED
    BY <1>1, <2>1, NewNames DEF SessionInit, KeysHeld, HashInv
<1>4. VisitInv /\ GuestInv /\ ActiveInv /\ RevocationIsImmediate
  BY <1>1 DEF SessionInit, Away, VisitInv, GuestInv, ActiveInv, RevocationIsImmediate
<1>5. SignInsRecorded /\ SessionsEndForCause
  BY DEF SessionInit, SignedIn, SignInsRecorded, SessionsEndForCause
<1>6. QED
  BY <1>1, <1>2, <1>3, <1>4, <1>5 DEF SessionInv

(* A step that changes a request's own variables, and may add to the audit *)
(* trail.                                                                  *)
LEMMA OnlyMine ==
  ASSUME SessionInv, Steady, NEW r \in Requests, NEW m \in Mine,
         mine' = [mine EXCEPT ![r] = m],
         UNCHANGED <<store, given, on, guest, past>>,
         trail' \in Trail, trail'.left = trail.left, trail.opened \subseteq trail'.opened,
         m.key \in Keys \ given => m.key = mine[r].key /\ m.stage = "entered",
         m.hash <= m.knows, m.knows <= row'.password,
         m.key \in given => /\ store[m.key].hash <= m.knows
                            /\ m.stage # "out" => store[m.key].hash = m.hash
  PROVE  SessionInv'
<1>0. /\ row.password \in Nat /\ row'.password \in Nat /\ store \in [Keys -> Stored]
      /\ given \subseteq Keys /\ mine \in [Requests -> Mine] /\ on \in [Visits -> On]
      /\ IInv' /\ row'.password >= row.password
      /\ row'.active = row.active /\ written'.profile = written.profile
  BY Types DEF Steady, IInv, TypeOK, Row
<1>1. mine'[r] = m /\ \A s \in Requests \ {r} : mine'[s] = mine[s]
  BY <1>0
<1>2. SessionTypeOK'
  BY <1>0, Types DEF SessionInv, SessionTypeOK, IInv
<1>3. KeysHeld'
  BY <1>1 DEF SessionInv, KeysHeld
<1>4. HashInv'
  <2>1. \A k \in given : store[k].hash \in Nat
    BY <1>0 DEF Stored
  <2>2. \A s \in Requests : mine[s].knows \in Nat
    BY <1>0 DEF Mine
  <2>3. \A k \in given : store[k].hash <= row'.password
    BY <1>0, <2>1 DEF SessionInv, HashInv
  <2>4. \A s \in Requests \ {r} : mine[s].knows <= row'.password
    BY <1>0, <2>2 DEF SessionInv, HashInv
  <2>5. QED
    BY <1>1, <2>3, <2>4 DEF SessionInv, HashInv
<1>5. VisitInv'
  <2>1. \A v \in Visits : on[v].asked.password \in Nat
    BY <1>0 DEF On
  <2>2. QED
    BY <1>0, <2>1 DEF SessionInv, VisitInv
<1>6. GuestInv' /\ ActiveInv' /\ RevocationIsImmediate' /\ SignInsRecorded'
  BY <1>0 DEF SessionInv, GuestInv, ActiveInv, RevocationIsImmediate, SignInsRecorded, SignedIn
<1>7. SessionsEndForCause'
  <2>1. \A k \in Keys : store[k].hash \in Nat
    BY <1>0 DEF Stored
  <2>2. QED
    BY <1>0, <2>1 DEF SessionInv, SessionsEndForCause
<1>8. QED
  BY <1>0, <1>2, <1>3, <1>4, <1>5, <1>6, <1>7 DEF SessionInv

(* A step that changes a visit's own variables, and may add to the audit   *)
(* trail.                                                                  *)
LEMMA OnlyOn ==
  ASSUME SessionInv, UNCHANGED vars, NEW v \in Visits, NEW o \in On,
         on' = [on EXCEPT ![v] = o],
         UNCHANGED <<store, given, mine, guest, past>>,
         trail' \in Trail, trail'.opened = trail.opened, trail.left \subseteq trail'.left,
         o.stage # "away" =>
            /\ o.key \in given /\ store[o.key].hash = o.hash
            /\ o.asked.password <= row.password /\ o.asked.profile <= written.profile
            /\ o.stage = "leaving" => o.key \in trail'.left,
         o.stage = "serving" =>
            o.hash >= o.asked.password /\ past.active >= o.asked.profile
  PROVE  SessionInv'
<1> USE DEF vars
<1>0. on \in [Visits -> On]
  BY Types
<1>1. on'[v] = o /\ \A w \in Visits \ {v} : on'[w] = on[w]
  BY <1>0
<1>2. SessionTypeOK' /\ IInv'
  <2>1. IInv'
    BY DEF SessionInv, IInv, TypeOK, EditInv, ColumnsKept
  <2>2. QED
    BY <1>0, <2>1, Types DEF SessionInv, SessionTypeOK, IInv
<1>3. KeysHeld' /\ HashInv' /\ GuestInv' /\ ActiveInv'
  BY DEF SessionInv, KeysHeld, HashInv, GuestInv, ActiveInv
<1>4. VisitInv'
  BY <1>1 DEF SessionInv, VisitInv
<1>5. RevocationIsImmediate'
  BY <1>1 DEF SessionInv, RevocationIsImmediate
<1>6. SignInsRecorded' /\ SessionsEndForCause'
  BY DEF SessionInv, SignInsRecorded, SessionsEndForCause, SignedIn
<1>7. QED
  BY <1>2, <1>3, <1>4, <1>5, <1>6 DEF SessionInv

(* The end of a session for a cause: others keep the session they have, or *)
(* let go of it.                                                           *)
Cause(k) == k \in trail.left \/ store[k].hash < row.password \/ k \in past.handed

RequestsLetGo ==
    /\ mine' \in [Requests -> Mine]
    /\ \A r \in Requests :
          \/ mine'[r] = mine[r]
          \/ /\ mine'[r].key = NoKey
             /\ mine'[r].hash <= mine'[r].knows /\ mine'[r].knows <= row.password

OthersLetGo ==
    /\ on' \in [Visits -> On] /\ \A v \in Visits : on'[v] = on[v] \/ on'[v] = Away
    /\ guest' \in [Others -> Keys \cup {NoKey}]
    /\ \A o \in Others : guest'[o] = guest[o] \/ guest'[o] = NoKey

LEMMA Ended ==
  ASSUME SessionInv, UNCHANGED <<vars, given, trail, past>>,
         NEW k \in given, End(k), Cause(k), RequestsLetGo, OthersLetGo
  PROVE  SessionInv'
<1> USE DEF vars, Cause, RequestsLetGo, OthersLetGo
<1>0. /\ store \in [Keys -> Stored] /\ k \in Keys /\ NoKey \notin Keys
      /\ given \subseteq Keys
  BY Types
<1>1. /\ store' \in [Keys -> Stored]
      /\ store'[k].state = "ended"
      /\ \A j \in Keys : store'[j].hash = store[j].hash
      /\ \A j \in Keys \ {k} : store'[j] = store[j]
  BY <1>0 DEF End, Stored, States
<1>2. SessionTypeOK' /\ IInv'
  <2>1. IInv'
    BY DEF SessionInv, IInv, TypeOK, EditInv, ColumnsKept
  <2>2. QED
    BY <1>0, <1>1, <2>1, Types DEF SessionInv, SessionTypeOK, IInv
<1>3. KeysHeld'
  BY <1>0, <1>1 DEF SessionInv, KeysHeld
<1>4. HashInv'
  <2>1. \A r \in Requests : mine'[r].key \in given => mine'[r] = mine[r]
    BY <1>0
  <2>2. QED
    BY <1>0, <1>1, <2>1 DEF SessionInv, HashInv
<1>5. VisitInv' /\ GuestInv' /\ RevocationIsImmediate' /\ ActiveInv'
  BY <1>0, <1>1 DEF SessionInv, VisitInv, GuestInv, RevocationIsImmediate, ActiveInv, Away
<1>6. SignInsRecorded' /\ SessionsEndForCause'
  BY <1>0, <1>1 DEF SessionInv, SignInsRecorded, SessionsEndForCause, SignedIn
<1>7. QED
  BY <1>2, <1>3, <1>4, <1>5, <1>6 DEF SessionInv
-----------------------------------------------------------------------------
(***************************************************************************)
(* Requests.                                                               *)
(***************************************************************************)
LEMMA SendKeeps ==
  ASSUME SessionInv, Steady, NEW r \in Requests, NEW cookie \in Keys \cup {NoKey, Foreign},
         Send(r, cookie)
  PROVE  SessionInv'
<1> DEFINE m == IF pc'[r] = "mistyped" THEN Out
                ELSE [stage |-> IF pc'[r] = "changing" THEN "in" ELSE "out",
                      key |-> cookie, hash |-> row.password, knows |-> row.password]
<1>0. /\ row.password \in Nat /\ row' = row /\ trail \in Trail
      /\ store \in [Keys -> Stored] /\ given \subseteq Keys
      /\ NoKey \notin Keys /\ Foreign \notin Keys
  BY Types DEF Send, Load
<1>1. m \in Mine /\ mine' = [mine EXCEPT ![r] = m]
  BY <1>0, NothingHeld DEF Send, Proved, Mine
<1>2. m.hash <= m.knows /\ m.knows <= row'.password /\ m.key \notin Keys \ given
  BY <1>0, NothingHeld DEF Send, Out
<1>3. ASSUME m.key \in given
      PROVE  /\ store[m.key].hash <= m.knows
             /\ m.stage # "out" => store[m.key].hash = m.hash
  <2>1. m.key = cookie /\ m.knows = row.password /\ m.hash = row.password
        /\ (m.stage # "out" => pc'[r] = "changing")
    BY <1>0, <1>3, NothingHeld DEF Out
  <2>2. pc'[r] = "changing" => store[cookie].hash = row.password
    BY DEF Send, Authentic
  <2>3. store[cookie].hash <= row.password
    BY <1>3, <2>1 DEF SessionInv, HashInv
  <2>4. QED
    BY <2>1, <2>2, <2>3
<1> HIDE DEF m
<1>4. QED
  BY <1>0, <1>1, <1>2, <1>3, OnlyMine DEF Send

(* The end of a request. *)
LEMMA OutKeeps ==
  ASSUME SessionInv, Steady, NEW r \in Requests,
         mine' = [mine EXCEPT ![r] = Out],
         UNCHANGED <<store, given, on, guest, trail, past>>
  PROVE  SessionInv'
<1>1. /\ Out \in Mine /\ Out.key \notin Keys /\ Out.hash = 0 /\ Out.knows = 0
      /\ given \subseteq Keys /\ trail \in Trail /\ row'.password \in Nat
  BY NothingHeld, Types DEF Out, Steady, IInv, TypeOK, Row
<1>2. Out.hash <= Out.knows /\ Out.knows <= row'.password
  BY <1>1
<1>3. Out.key \notin Keys \ given /\ Out.key \notin given
  BY <1>1
<1> HIDE DEF Out
<1>4. QED
  BY <1>1, <1>2, <1>3, OnlyMine

(* A request that goes on with the session it has. *)
LEMMA SameKeeps ==
  ASSUME SessionInv, Steady, NEW r \in Requests, UNCHANGED <<mine, store, given, on, guest, past>>,
         trail' \in Trail, trail'.left = trail.left, trail.opened \subseteq trail'.opened
  PROVE  SessionInv'
<1>1. /\ mine[r] \in Mine /\ mine' = [mine EXCEPT ![r] = mine[r]]
      /\ row.password \in Nat /\ row'.password \in Nat /\ row'.password >= row.password
  BY Types DEF Steady, IInv, TypeOK, Row
<1>2. mine[r].knows \in Nat
  BY <1>1 DEF Mine
<1>3. mine[r].hash <= mine[r].knows /\ mine[r].knows <= row'.password
  BY <1>1, <1>2 DEF SessionInv, HashInv
<1>4. QED
  BY <1>1, <1>3, OnlyMine DEF SessionInv, HashInv, KeysHeld

LEMMA LoadSessionKeeps ==
  ASSUME SessionInv, Steady, NEW r \in Requests, LoadSession(r)
  PROVE  SessionInv'
<1> DEFINE cookie == mine[r].key
<1>0. /\ mine[r] \in Mine /\ given \subseteq Keys /\ NoKey \notin Keys
      /\ Foreign \notin Keys
      /\ mine[r].stage = "out" /\ trail' = trail /\ trail \in Trail
      /\ store \in [Keys -> Stored] /\ row' = row
  BY Types DEF LoadSession, vars
<1>2. cookie \notin Keys \ given
  BY <1>0 DEF SessionInv, KeysHeld
<1>3. mine[r].knows <= row.password /\ mine[r].hash <= mine[r].knows
  BY DEF SessionInv, HashInv
<1>4. UNCHANGED <<store, given, on, guest, past>>
  BY DEF LoadSession
<1>5. CASE SignedIn(cookie) /\ mine' = [mine EXCEPT ![r] =
               [@ EXCEPT !.stage = "in", !.hash = store[cookie].hash]]
  <2> DEFINE m == [mine[r] EXCEPT !.stage = "in", !.hash = store[cookie].hash]
  <2>0. mine' = [mine EXCEPT ![r] = m]
    BY <1>5, Types
  <2>1. cookie \in given /\ store[cookie].hash \in Nat
    BY <1>0, <1>2, <1>5 DEF SignedIn, Stored
  <2>2. store[cookie].hash <= mine[r].knows
    BY <2>1 DEF SessionInv, HashInv
  <2>3. m \in Mine /\ m.key = cookie /\ m.hash = store[cookie].hash /\ m.knows = mine[r].knows
    BY <1>0, <1>5, <2>1 DEF Mine
  <2>4. m.hash <= m.knows /\ m.knows <= row'.password /\ m.key \in given
        /\ store[m.key].hash <= m.knows /\ store[m.key].hash = m.hash
    BY <1>0, <1>3, <2>1, <2>2, <2>3
  <2> HIDE DEF m, cookie
  <2>5. QED
    BY <1>0, <1>4, <2>0, <2>3, <2>4, OnlyMine
<1>6. ASSUME NEW key \in {NoKey, Foreign},
             mine' = [mine EXCEPT ![r] = [@ EXCEPT !.stage = "in", !.key = key]]
      PROVE  SessionInv'
  <2> DEFINE m == [mine[r] EXCEPT !.stage = "in", !.key = key]
  <2>0. mine' = [mine EXCEPT ![r] = m]
    BY <1>6, Types
  <2>1. m \in Mine /\ m.key = key /\ m.hash = mine[r].hash /\ m.knows = mine[r].knows
    BY <1>0, <1>6 DEF Mine
  <2>2. m.hash <= m.knows /\ m.knows <= row'.password /\ m.key \notin Keys /\ m.key \notin given
    BY <1>0, <1>3, <2>1
  <2> HIDE DEF m, cookie
  <2>3. QED
    BY <1>0, <1>4, <2>0, <2>1, <2>2, OnlyMine
<1>7. CASE cookie = Foreign /\ mine' = [mine EXCEPT ![r] = [@ EXCEPT !.stage = "in"]]
  <2>1. mine' = [mine EXCEPT ![r] = [@ EXCEPT !.stage = "in", !.key = Foreign]]
    BY <1>0, <1>7 DEF Mine
  <2>2. QED
    BY <1>6, <2>1
<1>8. QED
  BY <1>5, <1>6, <1>7 DEF LoadSession

LEMMA ChangeKeeps ==
  ASSUME SessionInv, Steady, NEW r \in Requests, Change(r)
  PROVE  SessionInv'
<1> DEFINE m == [mine[r] EXCEPT !.knows = row'.password]
<1>0. /\ mine[r] \in Mine /\ trail \in Trail /\ given \subseteq Keys
      /\ row.password \in Nat /\ row'.password \in Nat /\ row'.password >= row.password
      /\ store \in [Keys -> Stored]
  BY Types DEF Steady, IInv, TypeOK, Row
<1>1. mine' = [mine EXCEPT ![r] = m]
  BY Types DEF Change
<1>2. m \in Mine /\ m.key = mine[r].key /\ m.stage = mine[r].stage
      /\ m.hash = mine[r].hash /\ m.knows = row'.password
  BY <1>0 DEF Mine
<1>3. mine[r].hash \in Nat /\ mine[r].knows \in Nat
      /\ mine[r].hash <= mine[r].knows /\ mine[r].knows <= row.password
  BY <1>0 DEF Mine, SessionInv, HashInv
<1>4. trail' \in Trail /\ trail'.left = trail.left /\ trail.opened \subseteq trail'.opened
  BY <1>0 DEF Change, Trail
<1>5. ASSUME m.key \in given
      PROVE  /\ store[m.key].hash <= m.knows
             /\ m.stage # "out" => store[m.key].hash = m.hash
  <2>1. store[m.key].hash \in Nat
    BY <1>0, <1>5 DEF Stored
  <2>2. QED
    BY <1>0, <1>2, <1>3, <1>5, <2>1 DEF SessionInv, HashInv
<1> HIDE DEF m
<1>6. m.key \in Keys \ given => m.stage = "entered"
  BY <1>2 DEF SessionInv, KeysHeld
<1>7. m.hash <= m.knows /\ m.knows <= row'.password
  BY <1>0, <1>2, <1>3
<1>8. UNCHANGED <<store, given, on, guest, past>>
  BY DEF Change
<1>9. QED
  BY <1>1, <1>2, <1>4, <1>5, <1>6, <1>7, <1>8, OnlyMine

(* A new key is one that nobody holds. *)
LEMMA NewKey ==
  ASSUME SessionInv, Steady, UNCHANGED <<vars, given, on, guest, trail, past>>,
         NEW r \in Requests, mine[r].stage = "in",
         NEW k \in Keys, store[k].state = "free",
         store' = [store EXCEPT ![k].state = "anonymous"],
         NewSession(r, k)
  PROVE  SessionInv'
<1> USE DEF vars, NewSession
<1> DEFINE m == [mine[r] EXCEPT !.stage = "entered", !.key = k, !.hash = mine[r].knows]
<1>0. /\ mine \in [Requests -> Mine] /\ mine[r] \in Mine
      /\ store \in [Keys -> Stored] /\ given \subseteq Keys
  BY Types
<1>1. m \in Mine /\ m.stage = "entered" /\ m.key = k
      /\ m.hash = mine[r].knows /\ m.knows = mine[r].knows
  BY <1>0 DEF Mine
<1>2. mine'[r] = m /\ mine' \in [Requests -> Mine]
      /\ \A s \in Requests \ {r} : mine'[s] = mine[s]
  BY <1>0, <1>1
<1>3. /\ store' \in [Keys -> Stored] /\ store'[k].state = "anonymous"
      /\ store'[k].hash = store[k].hash
      /\ \A j \in Keys \ {k} : store'[j] = store[j]
  BY <1>0 DEF Stored, States
<1>4. k \notin given /\ \A s \in Requests : mine[s].key # k
  <2>1. k \notin given
    BY Types
  <2>2. QED
    BY <2>1 DEF SessionInv, KeysHeld
<1> HIDE DEF m
<1>5. SessionTypeOK' /\ IInv'
  <2>1. IInv'
    BY DEF SessionInv, IInv, TypeOK, EditInv, ColumnsKept
  <2>2. QED
    BY <1>0, <1>2, <1>3, <1>4, <2>1, Types DEF SessionInv, SessionTypeOK, IInv
<1>6. KeysHeld'
  BY <1>1, <1>2, <1>3, <1>4 DEF SessionInv, KeysHeld
<1>7. HashInv'
  <2>1. \A j \in given : store'[j] = store[j]
    BY <1>0, <1>3, <1>4
  <2>2. m.hash <= m.knows /\ m.knows <= row.password
    <3>1. mine[r].knows \in Nat
      BY <1>0 DEF Mine
    <3>2. QED
      BY <1>1, <3>1 DEF SessionInv, HashInv
  <2>3. QED
    BY <1>1, <1>2, <1>4, <2>1, <2>2 DEF SessionInv, HashInv
<1>8. VisitInv' /\ GuestInv' /\ RevocationIsImmediate' /\ ActiveInv'
  BY <1>0, <1>3, <1>4 DEF SessionInv, VisitInv, GuestInv, RevocationIsImmediate, ActiveInv
<1>9. SignInsRecorded' /\ SessionsEndForCause'
  BY <1>0, <1>3 DEF SessionInv, SignInsRecorded, SessionsEndForCause, SignedIn
<1>10. QED
  BY <1>5, <1>6, <1>7, <1>8, <1>9 DEF SessionInv

LEMMA EnterKeeps ==
  ASSUME SessionInv, Steady, NEW r \in Requests, Enter(r)
  PROVE  SessionInv'
<1> DEFINE key == mine[r].key
<1>0. /\ mine \in [Requests -> Mine] /\ mine[r] \in Mine /\ on \in [Visits -> On]
      /\ guest \in [Others -> Keys \cup {NoKey}]
      /\ given \subseteq Keys /\ trail \in Trail /\ NoKey \notin Keys /\ Foreign \notin Keys
      /\ mine[r].stage = "in" /\ row' = row
  BY Types DEF Enter, vars
<1>1. key \in given \cup {NoKey, Foreign}
  BY <1>0 DEF SessionInv, KeysHeld, Mine
<1>2. /\ mine[r].hash \in Nat /\ mine[r].knows \in Nat /\ row.password \in Nat
      /\ mine[r].hash <= mine[r].knows /\ mine[r].knows <= row.password
  BY <1>0, Types DEF Mine, SessionInv, HashInv
<1>3. CASE key \in Keys /\ mine' = [mine EXCEPT ![r].stage = "entered"] /\ UNCHANGED store
  <2> DEFINE m == [mine[r] EXCEPT !.stage = "entered"]
  <2>1. m \in Mine /\ m.key = key /\ m.hash = mine[r].hash /\ m.knows = mine[r].knows
        /\ mine' = [mine EXCEPT ![r] = m]
    BY <1>0, <1>3 DEF Mine
  <2>2. store[key].hash <= mine[r].knows /\ store[key].hash = mine[r].hash
    BY <1>0, <1>1, <1>3 DEF SessionInv, HashInv
  <2> HIDE DEF m
  <2>3. /\ m.hash <= m.knows /\ m.knows <= row'.password
        /\ m.key \in given /\ store[m.key].hash <= m.knows /\ store[m.key].hash = m.hash
    BY <1>0, <1>1, <1>2, <1>3, <2>1, <2>2
  <2>4. UNCHANGED <<store, given, on, guest, trail, past>>
    BY <1>3 DEF Enter
  <2> HIDE DEF key
  <2>5. QED
    BY <1>0, <2>1, <2>3, <2>4, OnlyMine
<1>4. CASE key \in Keys /\ ~SamePassword(r) /\ End(key) /\ NewSession(r, NoKey)
  <2>1. store[key].hash < row.password
    BY <1>0, <1>1, <1>2, <1>4 DEF SamePassword, SessionInv, HashInv
  <2>2. mine' \in [Requests -> Mine] /\ mine'[r].key = NoKey
        /\ mine'[r].hash = mine[r].knows /\ mine'[r].knows = mine[r].knows
        /\ \A s \in Requests \ {r} : mine'[s] = mine[s]
    BY <1>0, <1>4 DEF Mine, NewSession
  <2>3. UNCHANGED <<vars, given, trail, past>> /\ OthersLetGo
    BY <1>0 DEF Enter, OthersLetGo
  <2>4. key \in given /\ End(key) /\ Cause(key)
    BY <1>0, <1>1, <1>4, <2>1 DEF Cause
  <2>5. RequestsLetGo
    BY <1>2, <2>2 DEF RequestsLetGo
  <2> HIDE DEF key
  <2>6. QED
    BY <2>3, <2>4, <2>5, Ended
<1>5. ASSUME NEW k \in Keys, store[k].state = "free",
             store' = [store EXCEPT ![k].state = "anonymous"], NewSession(r, k)
      PROVE  SessionInv'
  BY <1>0, <1>5, NewKey DEF Enter
<1>6. CASE NewSession(r, NoKey) /\ UNCHANGED store
  <2> DEFINE m == [mine[r] EXCEPT !.stage = "entered", !.key = NoKey, !.hash = mine[r].knows]
  <2>1. m \in Mine /\ m.key = NoKey /\ m.hash = mine[r].knows /\ m.knows = mine[r].knows
        /\ mine' = [mine EXCEPT ![r] = m]
    BY <1>0, <1>6 DEF Mine, NewSession
  <2> HIDE DEF m
  <2>2. m.hash <= m.knows /\ m.knows <= row'.password /\ m.key \notin Keys /\ m.key \notin given
    BY <1>0, <1>2, <2>1
  <2>3. UNCHANGED <<store, given, on, guest, trail, past>>
    BY <1>6 DEF Enter
  <2> HIDE DEF key
  <2>4. QED
    BY <1>0, <2>1, <2>2, <2>3, OnlyMine
<1>7. QED
  BY <1>3, <1>4, <1>5, <1>6 DEF Enter

LEMMA RespondKeeps ==
  ASSUME SessionInv, Steady, NEW r \in Requests, Respond(r)
  PROVE  SessionInv'
<1>0. /\ mine \in [Requests -> Mine] /\ mine[r] \in Mine /\ on \in [Visits -> On]
      /\ given \subseteq Keys /\ NoKey \notin Keys /\ store \in [Keys -> Stored]
      /\ past \in Past
      /\ mine[r].stage = "entered" /\ r \in trail.opened
      /\ UNCHANGED <<vars, on, guest, trail>>
  BY Types DEF Respond, Recorded
<1>1. mine[r].hash \in Nat /\ mine[r].hash <= row.password
  <2>1. mine[r].hash \in Nat /\ mine[r].knows \in Nat /\ row.password \in Nat
    BY <1>0, Types DEF Mine
  <2>2. QED
    BY <2>1 DEF SessionInv, HashInv
<1>2. CASE UNCHANGED <<store, given, past>>
  BY <1>0, <1>2, OutKeeps DEF Respond
<1>3. ASSUME NEW k \in Keys, StoredAs(mine[r].key, k),
             store' = [store EXCEPT ![k] = Content(mine[r].hash)],
             given' = given \cup {k},
             past' = [past EXCEPT !.opener[k] = IF SignedIn(k) THEN @ ELSE r]
      PROVE  SessionInv'
  <2>1. /\ store' \in [Keys -> Stored] /\ store'[k].state = "signed in"
        /\ store'[k].hash = mine[r].hash
        /\ \A j \in Keys \ {k} : store'[j] = store[j]
    BY <1>0, <1>1, <1>3 DEF Content, Stored, States
  <2>2. k \in given => store[k].hash = mine[r].hash
    <3>1. k \in given => store[k].state # "free"
      BY Types
    <3>2. QED
      BY <1>0, <1>3, <3>1 DEF StoredAs, SessionInv, HashInv
  <2>3. ASSUME k \notin given, NEW s \in Requests \ {r} PROVE mine[s].key # k
    <3>1. CASE mine[r].key = NoKey
      BY <1>0, <1>3, <2>3, <3>1 DEF StoredAs, SessionInv, KeysHeld
    <3>2. CASE mine[r].key # NoKey
      BY <1>0, <1>3, <2>3, <3>2 DEF StoredAs, SessionInv, KeysHeld
    <3>3. QED
      BY <3>1, <3>2
  <2>4. /\ mine' \in [Requests -> Mine] /\ mine'[r] = Out
        /\ \A s \in Requests \ {r} : mine'[s] = mine[s]
    BY <1>0, NothingHeld DEF Respond
  <2>5. /\ past' \in Past
        /\ past'.active = past.active /\ past'.handed = past.handed
        /\ past'.opener[k] = IF SignedIn(k) THEN past.opener[k] ELSE r
        /\ \A j \in Keys \ {k} : past'.opener[j] = past.opener[j]
    BY <1>0, <1>3 DEF Past
  <2>6. SessionTypeOK' /\ IInv'
    <3>1. TypeOK' /\ IInv'
      BY DEF Steady, IInv
    <3>2. \A j \in given' : store'[j].state \in {"signed in", "ended"}
      BY <1>0, <1>3, <2>1, Types
    <3>3. given' \subseteq Keys
      BY <1>0, <1>3
    <3>4. QED
      BY <1>0, <2>1, <2>4, <2>5, <3>1, <3>2, <3>3, Types DEF SessionTypeOK
  <2>7. KeysHeld'
    <3>1. ASSUME NEW s \in Requests, mine'[s].key \in Keys \ given'
          PROVE  /\ mine'[s].stage = "entered" /\ store'[mine'[s].key].state = "anonymous"
                 /\ \A p \in Requests : mine'[p].key = mine'[s].key => p = s
      <4>1. s # r /\ mine'[s] = mine[s] /\ mine[s].key \in Keys \ given /\ mine[s].key # k
        BY <1>3, <2>4, <3>1, NothingHeld
      <4>2. mine'[r].key # mine[s].key
        BY <2>4, <4>1, NothingHeld
      <4>3. /\ mine[s].stage = "entered" /\ store[mine[s].key].state = "anonymous"
            /\ \A p \in Requests : mine[p].key = mine[s].key => p = s
        BY <4>1 DEF SessionInv, KeysHeld
      <4>4. store'[mine[s].key] = store[mine[s].key]
        BY <2>1, <4>1
      <4>5. ASSUME NEW p \in Requests, mine'[p].key = mine[s].key PROVE p = s
        BY <2>4, <4>2, <4>3, <4>5
      <4>6. QED
        BY <4>1, <4>3, <4>4, <4>5
    <3>2. QED
      BY <3>1 DEF KeysHeld
  <2>8. HashInv'
    <3>1. \A j \in given' : store'[j].hash <= row'.password
      BY <1>0, <1>1, <1>3, <2>1 DEF vars, SessionInv, HashInv
    <3>2. mine'[r].hash <= mine'[r].knows /\ mine'[r].knows <= row'.password
          /\ mine'[r].key \notin given'
      <4>1. row'.password \in Nat
        BY DEF Steady, IInv, TypeOK, Row
      <4>2. QED
        BY <1>0, <1>3, <2>4, <4>1, NothingHeld DEF Out
    <3>3. ASSUME NEW s \in Requests \ {r}, mine[s].key \in given'
          PROVE  mine[s].key \in given /\ store'[mine[s].key].hash = store[mine[s].key].hash
      <4>1. mine[s].key \in given
        BY <1>3, <2>3, <3>3
      <4>2. QED
        BY <1>0, <2>1, <2>2, <4>1
    <3>4. QED
      BY <1>0, <2>4, <3>1, <3>2, <3>3 DEF vars, SessionInv, HashInv
  <2>9. VisitInv'
    <3>1. \A j \in given : store'[j].hash = store[j].hash
      BY <1>0, <2>1, <2>2
    <3>2. QED
      BY <1>0, <1>3, <3>1 DEF vars, SessionInv, VisitInv
  <2>10. GuestInv' /\ RevocationIsImmediate' /\ ActiveInv'
    BY <1>0, <1>3, <2>5 DEF vars, SessionInv, GuestInv, RevocationIsImmediate, ActiveInv
  <2>11. SignInsRecorded'
    BY <1>0, <2>1, <2>5 DEF SessionInv, SignInsRecorded, SignedIn
  <2>12. SessionsEndForCause'
    BY <1>0, <2>1, <2>5 DEF vars, SessionInv, SessionsEndForCause
  <2>13. QED
    BY <2>6, <2>7, <2>8, <2>9, <2>10, <2>11, <2>12 DEF SessionInv
<1>4. QED
  BY <1>2, <1>3 DEF Respond

LEMMA ServeKeeps ==
  ASSUME SessionInv, NEW r \in Requests, Serve(r)
  PROVE  SessionInv'
<1>0. Steady /\ trail \in Trail /\ given \subseteq Keys
  BY ServeAnswers, AnswersSteady, Types DEF SessionInv
<1>1. ASSUME NEW cookie \in Keys \cup {NoKey, Foreign}, Send(r, cookie) PROVE SessionInv'
  BY <1>0, <1>1, SendKeeps
<1>2. CASE TurnDown(r)
  BY <1>0, <1>2, OutKeeps DEF TurnDown
<1>3. CASE Greet(r)
  BY <1>0, <1>3, SameKeeps DEF Greet, session
<1>4. CASE Record(r)
  <2>1. trail' \in Trail /\ trail'.left = trail.left /\ trail.opened \subseteq trail'.opened
    BY <1>0, <1>4 DEF Record, Trail
  <2>2. QED
    BY <1>0, <1>4, <2>1, SameKeeps DEF Record
<1>5. QED
  BY <1>0, <1>1, <1>2, <1>3, <1>4, LoadSessionKeeps, EnterKeeps, ChangeKeeps, RespondKeeps
     DEF Serve
-----------------------------------------------------------------------------
(***************************************************************************)
(* Visits and edits.                                                       *)
(***************************************************************************)
LEMMA ArriveKeeps ==
  ASSUME SessionInv, NEW v \in Visits, NEW k \in Keys, Arrive(v, k)
  PROVE  SessionInv'
<1> DEFINE o == [stage |-> "named", key |-> k, hash |-> store[k].hash,
                 asked |-> [password |-> written.password, profile |-> written.profile]]
<1>1. /\ store \in [Keys -> Stored] /\ trail \in Trail /\ k \in given
      /\ row.password = written.password /\ row.password \in Nat /\ written.profile \in Nat
  BY Types DEF Arrive, SessionInv, IInv, ColumnsKept
<1>2. o \in On /\ on' = [on EXCEPT ![v] = o]
  BY <1>1 DEF Arrive, On, Stored
<1>3. /\ o.stage = "named" /\ o.key = k /\ o.hash = store[k].hash
      /\ o.asked.password <= row.password /\ o.asked.profile <= written.profile
  BY <1>1
<1>4. UNCHANGED <<vars, store, given, mine, guest, trail, past>>
  BY DEF Arrive
<1> HIDE DEF o
<1>5. QED
  BY <1>1, <1>2, <1>3, <1>4, OnlyOn

(* A visit that goes on, or away, with the session it has. *)
LEMMA StaysKeeps ==
  ASSUME SessionInv, NEW v \in Visits, UNCHANGED <<vars, store, given, mine, guest, trail, past>>,
         Leaves(v)
  PROVE  SessionInv'
<1>1. Away \in On /\ Away.stage = "away" /\ trail \in Trail
  BY NothingHeld, Types DEF Away
<1> HIDE DEF Away
<1>2. QED
  BY <1>1, OnlyOn DEF Leaves

(* Who is served has the password in force, and an active account. *)
LEMMA RecogniseKeeps ==
  ASSUME SessionInv, NEW v \in Visits, Recognise(v)
  PROVE  SessionInv'
<1>0. /\ on \in [Visits -> On] /\ on[v] \in On /\ trail \in Trail
      /\ row.password \in Nat /\ written.profile \in Nat
      /\ guest \in [Others -> Keys \cup {NoKey}]
      /\ on[v].stage = "named" /\ UNCHANGED <<vars, given, mine, guest, trail, past>>
  BY Types DEF Recognise
<1>1. /\ on[v].key \in given /\ store[on[v].key].hash = on[v].hash
      /\ on[v].asked.password <= row.password
      /\ on[v].asked.profile <= written.profile
  BY <1>0 DEF SessionInv, VisitInv
<1>2. CASE /\ UserFound(v) /\ on[v].hash = row.password
           /\ on' = [on EXCEPT ![v].stage = "serving"] /\ UNCHANGED store
  <2> DEFINE o == [on[v] EXCEPT !.stage = "serving"]
  <2>1. /\ o \in On /\ on' = [on EXCEPT ![v] = o] /\ o.stage = "serving"
        /\ o.key = on[v].key /\ o.hash = on[v].hash /\ o.asked = on[v].asked
    BY <1>0, <1>2 DEF On
  <2>2. past.active = written.profile
    BY <1>2 DEF UserFound, SessionInv, ActiveInv
  <2>3. o.hash >= o.asked.password /\ past.active >= o.asked.profile
    <3>1. on[v].asked.password \in Nat /\ on[v].asked.profile \in Nat
      BY <1>0 DEF On
    <3>2. QED
      BY <1>0, <1>1, <1>2, <2>1, <2>2, <3>1
  <2> HIDE DEF o
  <2>4. QED
    BY <1>0, <1>1, <1>2, <2>1, <2>3, OnlyOn
<1>3. CASE on[v].hash # row.password /\ Leaves(v) /\ End(on[v].key)
  <2>1. store[on[v].key].hash < row.password
    <3>1. on[v].hash \in Nat /\ on[v].hash <= row.password
      BY <1>0, <1>1 DEF On, SessionInv, HashInv
    <3>2. QED
      BY <1>0, <1>1, <1>3, <3>1
  <2>2. OthersLetGo
    BY <1>0, <1>3, NothingHeld DEF Leaves, OthersLetGo
  <2>3. RequestsLetGo
    BY <1>0, Types DEF RequestsLetGo
  <2>4. QED
    BY <1>0, <1>1, <1>3, <2>1, <2>2, <2>3, Ended DEF Cause
<1>4. CASE Leaves(v) /\ UNCHANGED store
  BY <1>0, <1>4, StaysKeeps
<1>5. QED
  BY <1>2, <1>3, <1>4 DEF Recognise

(* The answer writes what is there already, or nothing. *)
LEMMA ShowKeeps ==
  ASSUME SessionInv, NEW v \in Visits, Show(v)
  PROVE  SessionInv'
<1>0. /\ store \in [Keys -> Stored] /\ NoKey \notin Keys /\ on[v].stage = "serving"
      /\ given \subseteq Keys /\ \A k \in given : store[k].state \in {"signed in", "ended"}
  BY Types DEF Show
<1>1. on[v].key \in given /\ store[on[v].key].hash = on[v].hash
  BY <1>0 DEF SessionInv, VisitInv
<1>2. ASSUME NEW k \in Keys, StoredAs(on[v].key, k) PROVE Content(on[v].hash) = store[k]
  <2>1. k = on[v].key /\ store[k].state = "signed in" /\ store[k].hash = on[v].hash
    BY <1>0, <1>1, <1>2 DEF StoredAs, Live
  <2>2. QED
    BY <1>0, <2>1 DEF Content, Stored
<1>3. store' = store
  BY <1>0, <1>2 DEF Show
<1>4. QED
  BY <1>3, StaysKeeps DEF Show

LEMMA LeaveKeeps ==
  ASSUME SessionInv, NEW v \in Visits, Leave(v)
  PROVE  SessionInv'
<1>1. on[v].key \in given /\ on[v].key \in trail.left
  BY DEF Leave, SessionInv, VisitInv
<1>2. OthersLetGo
  BY Types, NothingHeld DEF Leave, Leaves, OthersLetGo
<1>3. RequestsLetGo
  BY Types DEF Leave, RequestsLetGo
<1>4. UNCHANGED <<vars, given, trail, past>> /\ End(on[v].key)
  BY DEF Leave
<1>5. QED
  BY <1>1, <1>2, <1>3, <1>4, Ended DEF Cause

LEMMA RecordLeaveKeeps ==
  ASSUME SessionInv, NEW v \in Visits, RecordLeave(v)
  PROVE  SessionInv'
<1> DEFINE o == [on[v] EXCEPT !.stage = "leaving"]
<1>0. /\ on \in [Visits -> On] /\ on[v] \in On /\ trail \in Trail /\ given \subseteq Keys
      /\ on[v].stage = "serving" /\ UNCHANGED <<vars, store, given, mine, guest, past>>
  BY Types DEF RecordLeave
<1>1. /\ o \in On /\ on' = [on EXCEPT ![v] = o] /\ o.stage = "leaving"
      /\ o.key = on[v].key /\ o.hash = on[v].hash /\ o.asked = on[v].asked
  BY <1>0 DEF RecordLeave, On
<1>2. on[v].key \in given
  BY <1>0 DEF SessionInv, VisitInv
<1>3. /\ trail' \in Trail /\ trail'.opened = trail.opened
      /\ trail.left \subseteq trail'.left /\ on[v].key \in trail'.left
  BY <1>0, <1>2 DEF RecordLeave, Trail
<1> HIDE DEF o
<1>4. o.stage # "away" =>
            /\ o.key \in given /\ store[o.key].hash = o.hash
            /\ o.asked.password <= row.password /\ o.asked.profile <= written.profile
            /\ o.stage = "leaving" => o.key \in trail'.left
  BY <1>0, <1>1, <1>2, <1>3 DEF SessionInv, VisitInv
<1>5. QED
  BY <1>0, <1>1, <1>3, <1>4, OnlyOn

LEMMA VisitKeeps ==
  ASSUME SessionInv, NEW v \in Visits, Visit(v)
  PROVE  SessionInv'
  BY ArriveKeeps, RecogniseKeeps, ShowKeeps, RecordLeaveKeeps, LeaveKeeps DEF Visit

LEMMA HandOverKeeps ==
  ASSUME SessionInv, NEW o \in Others, HandOver(o)
  PROVE  SessionInv'
<1>0. /\ guest \in [Others -> Keys \cup {NoKey}] /\ past \in Past /\ NoKey \notin Keys
      /\ mine \in [Requests -> Mine] /\ on \in [Visits -> On]
  BY Types
<1>1. CASE Displace(o)
  <2>1. guest[o] \in given \cap past.handed
    BY <1>1 DEF Displace, SessionInv, GuestInv
  <2>2. OthersLetGo
    BY <1>0, <1>1 DEF Displace, OthersLetGo
  <2>3. RequestsLetGo
    BY <1>0, <1>1 DEF Displace, RequestsLetGo
  <2>4. UNCHANGED <<vars, given, trail, past>> /\ End(guest[o])
    BY <1>1 DEF Displace
  <2>5. QED
    BY <2>1, <2>2, <2>3, <2>4, Ended DEF Cause
<1>2. ASSUME NEW k \in Keys, FindSession(o, k) PROVE SessionInv'
  <2> USE <1>2 DEF FindSession, vars
  <2>1. /\ past' \in Past /\ past'.opener = past.opener /\ past'.active = past.active
        /\ past'.handed = past.handed \cup {k}
    BY <1>0 DEF Past
  <2>2. /\ guest' \in [Others -> Keys \cup {NoKey}] /\ guest'[o] = k
        /\ \A p \in Others \ {o} : guest'[p] = guest[p]
    BY <1>0
  <2>3. IInv' /\ SessionTypeOK'
    BY <2>1, <2>2 DEF SessionInv, SessionTypeOK, IInv, TypeOK, EditInv, ColumnsKept
  <2>4. KeysHeld' /\ HashInv' /\ VisitInv' /\ ActiveInv'
    BY <2>1 DEF SessionInv, KeysHeld, HashInv, VisitInv, ActiveInv
  <2>5. GuestInv'
    BY <2>1, <2>2 DEF SessionInv, GuestInv
  <2>6. RevocationIsImmediate' /\ SignInsRecorded' /\ SessionsEndForCause'
    BY <2>1 DEF SessionInv, RevocationIsImmediate, SignInsRecorded, SessionsEndForCause, SignedIn
  <2>7. QED
    BY <2>3, <2>4, <2>5, <2>6 DEF SessionInv
<1>3. QED
  BY <1>1, <1>2 DEF HandOver

LEMMA AdministerKeeps ==
  ASSUME SessionInv, NEW c \in Clients, Administer(c)
  PROVE  SessionInv'
<1>0. /\ row \in Row /\ written \in Columns /\ TypeOK /\ ColumnsKept /\ EditInv
      /\ row.password = written.password
      /\ past \in Past
      /\ UNCHANGED <<store, given, mine, on, guest, trail>>
  BY Types DEF Administer, SessionInv, IInv, TypeOK, ColumnsKept
<1>1. IInv'
  BY EditKeeps DEF Administer, SessionInv
<1>2. /\ row'.password = row.password
      /\ \/ /\ row'.active = row.active /\ written'.profile = written.profile
         \/ written'.profile = written.profile + 1
  <2>1. CASE View(c) \/ LockAndCheck(c) \/ AbandonEdit(c)
    BY <2>1 DEF View, LockAndCheck, AbandonEdit
  <2>2. ASSUME NEW active \in BOOLEAN, SaveEdit(c, active)
        PROVE  row'.password = row.password /\ written'.profile = written.profile + 1
    <3>1. copy[c] = row
      BY <1>0, <2>2 DEF SaveEdit, EditInv
    <3>2. QED
      BY <1>0, <2>2, <3>1 DEF SaveEdit, Row, Columns
  <2>3. QED
    BY <2>1, <2>2 DEF Administer, Edit
<1>3. /\ past' \in Past
      /\ past'.opener = past.opener /\ past'.handed = past.handed
      /\ past'.active = IF written'.profile # written.profile /\ row'.active
                        THEN written'.profile ELSE past.active
  <2>1. written'.profile \in Nat
    BY <1>1 DEF IInv, TypeOK, Columns
  <2>2. QED
    BY <1>0, <2>1 DEF Administer, Past
<1>4. written.profile \in Nat /\ past.active \in Nat
      /\ past.active <= written.profile
  BY <1>0 DEF Columns, Past, SessionInv, ActiveInv
<1>5. SessionTypeOK'
  BY <1>0, <1>1, <1>3, Types DEF SessionTypeOK, IInv
<1>6. KeysHeld' /\ HashInv' /\ GuestInv'
  BY <1>0, <1>2, <1>3 DEF SessionInv, KeysHeld, HashInv, GuestInv
<1>7. VisitInv' /\ RevocationIsImmediate'
  <2>1. on \in [Visits -> On] /\ past'.active >= past.active
        /\ written'.profile >= written.profile
    <3>1. on \in [Visits -> On]
      BY Types
    <3>2. CASE written'.profile = written.profile
      BY <1>3, <1>4, <3>1, <3>2
    <3>3. CASE written'.profile = written.profile + 1
      BY <1>3, <1>4, <3>1, <3>3
    <3>4. QED
      BY <1>2, <3>2, <3>3
  <2>2. \A v \in Visits : on[v].asked.profile \in Nat
    BY <2>1 DEF On
  <2>3. written'.profile \in Nat /\ past'.active \in Nat
    BY <1>2, <1>3, <1>4
  <2>4. VisitInv'
    BY <1>0, <1>2, <1>4, <2>1, <2>2, <2>3 DEF SessionInv, VisitInv
  <2>5. RevocationIsImmediate'
    BY <1>0, <1>4, <2>1, <2>2, <2>3 DEF SessionInv, RevocationIsImmediate
  <2>6. QED
    BY <2>4, <2>5
<1>8. ActiveInv'
  <2>1. CASE row'.active = row.active /\ written'.profile = written.profile
    BY <1>3, <2>1 DEF SessionInv, ActiveInv
  <2>2. CASE written'.profile = written.profile + 1
    <3>1. row'.active \in BOOLEAN
      BY <1>1 DEF IInv, TypeOK, Row
    <3>2. QED
      BY <1>3, <1>4, <2>2, <3>1 DEF ActiveInv
  <2>3. QED
    BY <1>2, <2>1, <2>2
<1>9. SignInsRecorded' /\ SessionsEndForCause'
  BY <1>0, <1>2, <1>3 DEF SessionInv, SignInsRecorded, SessionsEndForCause, SignedIn
<1>10. QED
  BY <1>1, <1>5, <1>6, <1>7, <1>8, <1>9 DEF SessionInv

LEMMA NextSession ==
  ASSUME SessionInv, [SessionNext]_allVars
  PROVE  SessionInv'
<1>1. CASE UNCHANGED allVars
  <2> USE <1>1 DEF allVars, session, vars
  <2>1. IInv' /\ SessionTypeOK'
    BY DEF SessionInv, SessionTypeOK, IInv, TypeOK, EditInv, ColumnsKept
  <2>2. KeysHeld' /\ HashInv' /\ VisitInv' /\ GuestInv' /\ ActiveInv'
    BY DEF SessionInv, KeysHeld, HashInv, VisitInv, GuestInv, ActiveInv
  <2>3. RevocationIsImmediate' /\ SignInsRecorded' /\ SessionsEndForCause'
    BY DEF SessionInv, RevocationIsImmediate, SignInsRecorded, SessionsEndForCause, SignedIn
  <2>4. QED
    BY <2>1, <2>2, <2>3 DEF SessionInv
<1>2. QED
  BY <1>1, ServeKeeps, VisitKeeps, HandOverKeeps, AdministerKeeps DEF SessionNext

LEMMA SessionInvariance == SessionSpec => []SessionInv
  BY InitSession, NextSession, PTL DEF SessionSpec
-----------------------------------------------------------------------------
(* Every variable keeps its type, and the key a browser has been given     *)
(* stands for a session that is signed in or has ended.                    *)
THEOREM SessionsTyped == SessionSpec => []SessionTypeOK
<1>1. SessionInv => SessionTypeOK
  BY DEF SessionInv
<1>2. QED
  BY <1>1, SessionInvariance, PTL

(* Who is served has the password that was in force when the request came, *)
(* or a later one, and an account that has been active since.              *)
THEOREM RevokedAtOnce == SessionSpec => []RevocationIsImmediate
<1>1. SessionInv => RevocationIsImmediate
  BY DEF SessionInv
<1>2. QED
  BY <1>1, SessionInvariance, PTL

(* Whoever is signed in has an audit entry of it. *)
THEOREM SignedInOnRecord == SessionSpec => []SignInsRecorded
<1>1. SessionInv => SignInsRecorded
  BY DEF SessionInv
<1>2. QED
  BY <1>1, SessionInvariance, PTL

(* No session ends but by signing out, by a change of the password or when *)
(* another user signs in with its cookie; the user's own sign-ins with it  *)
(* keep it.                                                                *)
THEOREM EndedForCause == SessionSpec => []SessionsEndForCause
<1>1. SessionInv => SessionsEndForCause
  BY DEF SessionInv
<1>2. QED
  BY <1>1, SessionInvariance, PTL

(* What writes the store: it takes a free key, ends a session, or saves    *)
(* one that is there.                                                      *)
LEMMA EndedStays ==
  ASSUME SessionInv, [SessionNext]_allVars, NEW k \in Keys, store[k].state = "ended"
  PROVE  store'[k].state = "ended"
<1>0. store \in [Keys -> Stored]
  BY Types
<1>1. \A key \in Keys : End(key) => store'[k].state = "ended"
  BY <1>0 DEF End, Stored
<1>2. \A key : ~StoredAs(key, k)
  BY DEF StoredAs, Live
<1>3. ASSUME NEW r \in Requests, Serve(r) PROVE store'[k].state = "ended"
  <2>1. CASE Enter(r)
    <3>1. CASE UNCHANGED store
      BY <3>1
    <3>2. CASE mine[r].key \in Keys /\ End(mine[r].key)
      BY <1>1, <3>2
    <3>3. ASSUME NEW j \in Keys, store[j].state = "free",
                 store' = [store EXCEPT ![j].state = "anonymous"]
          PROVE  store'[k].state = "ended"
      BY <1>0, <3>3
    <3>4. QED
      BY <2>1, <3>1, <3>2, <3>3 DEF Enter
  <2>2. CASE Respond(r)
    BY <1>0, <1>2, <2>2 DEF Respond
  <2>3. QED
    BY <1>3, <2>1, <2>2 DEF Serve, Send, TurnDown, LoadSession, Change, Greet, Record, session
<1>4. ASSUME NEW v \in Visits, Visit(v) PROVE store'[k].state = "ended"
  <2>1. on[v].stage # "away" => on[v].key \in Keys
    BY Types DEF SessionInv, VisitInv
  <2>2. CASE Recognise(v) \/ Leave(v)
    BY <1>1, <2>1, <2>2 DEF Recognise, Leave
  <2>3. CASE Show(v)
    BY <1>2, <2>3 DEF Show
  <2>4. QED
    BY <1>4, <2>2, <2>3 DEF Visit, Arrive, RecordLeave
<1>5. ASSUME NEW o \in Others, HandOver(o) PROVE store'[k].state = "ended"
  <2>1. guest[o] # NoKey => guest[o] \in Keys
    BY Types
  <2>2. QED
    BY <1>1, <1>5, <2>1 DEF HandOver, FindSession, Displace
<1>6. QED
  BY <1>3, <1>4, <1>5 DEF SessionNext, Administer, allVars, session

(* No answer, however late, brings an ended session back. *)
THEOREM SignedOutForGood == SessionSpec => SignOutFinal
<1>1. ASSUME SessionInv, [SessionNext]_allVars
      PROVE  [\A k \in Keys : store[k].state = "ended" => store'[k].state = "ended"]_store
  BY <1>1, EndedStays
<1>2. QED
  BY <1>1, SessionInvariance, PTL DEF SessionSpec, SignOutFinal
=============================================================================
