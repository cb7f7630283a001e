-------------------------- MODULE UserAccountProofs --------------------------
(***************************************************************************)
(* Proofs about UserAccount, for any number of forms and requests.         *)
(***************************************************************************)
EXTENDS UserAccount, TLAPS

(* Whoever edits holds the row lock, and a copy that nobody has outdated.  *)
EditInv ==
    \A c \in Clients : pc[c] = "editing" => lock = c /\ copy[c] = row

IInv == TypeOK /\ EditInv /\ ColumnsKept
-----------------------------------------------------------------------------
LEMMA InitIInv == Init => IInv
<1> SUFFICES ASSUME Init PROVE IInv
  OBVIOUS
<1> USE DEF Init, Blank
<1>1. TypeOK
  BY Distinct DEF TypeOK, Row, Columns, Actors, ClientPcs, RequestPcs
<1>2. EditInv /\ ColumnsKept
  BY DEF EditInv, ColumnsKept, Actors
<1>3. QED
  BY <1>1, <1>2 DEF IInv

(* An edit is saved under the lock, over a copy that is still the row.     *)
LEMMA EditKeeps ==
  ASSUME IInv, NEW c \in Clients, Edit(c)
  PROVE  IInv'
<1>0. TypeOK /\ EditInv /\ ColumnsKept /\ c \in Actors
  BY DEF IInv, Actors
<1>1. CASE View(c)
  <2> USE <1>1 DEF View, Goto
  <2>1. TypeOK'
    BY <1>0, Distinct DEF TypeOK, Row, Actors, ClientPcs, RequestPcs
  <2>2. EditInv' /\ ColumnsKept'
    BY <1>0 DEF TypeOK, EditInv, ColumnsKept
  <2>3. QED
    BY <2>1, <2>2 DEF IInv
<1>2. CASE LockAndCheck(c)
  <2> USE <1>2 DEF LockAndCheck, RowFree, Goto
  <2>1. TypeOK'
    BY <1>0, Distinct DEF TypeOK, Actors, ClientPcs, RequestPcs
  <2>2. ColumnsKept'
    BY <1>0 DEF ColumnsKept
  <2>3. \A d \in Clients : pc[d] # "editing"
    BY <1>0, Distinct DEF EditInv
  <2>4. \A d \in Clients \ {c} : pc'[d] = pc[d]
    BY <1>0 DEF TypeOK, Actors
  <2>5. EditInv'
    <3>1. CASE VersionMatches(c)
      <4>1. lock' = c /\ copy'[c] = row /\ row' = row
        BY <1>0, <3>1 DEF TypeOK
      <4>2. QED
        BY <2>3, <2>4, <4>1 DEF EditInv
    <3>2. CASE ~VersionMatches(c)
      <4>1. pc'[c] = "viewing"
        BY <1>0, <3>2 DEF TypeOK
      <4>2. QED
        BY <2>3, <2>4, <4>1 DEF EditInv
    <3>3. QED
      BY <3>1, <3>2
  <2>6. QED
    BY <2>1, <2>2, <2>5 DEF IInv
<1>3. ASSUME NEW active, active \in BOOLEAN, SaveEdit(c, active) PROVE IInv'
  <2> USE <1>3 DEF SaveEdit, Goto
  <2>1. copy[c] = row /\ lock = c
    BY <1>0 DEF EditInv
  <2>2. row' \in Row /\ written' \in Columns
    <3>1. row \in Row /\ written \in Columns
      BY <1>0 DEF TypeOK
    <3>2. written' \in Columns
      <4>1. written' = [written EXCEPT !.profile = @ + 1, !.active = active]
        OBVIOUS
      <4>2. written'.profile \in Nat /\ written'.active = active
        BY <3>1, <4>1 DEF Columns
      <4>3. QED
        BY <3>1, <4>1, <4>2 DEF Columns
    <3>3. row' = [row EXCEPT !.version = row.version + 1,
                             !.profile = written.profile + 1, !.active = active]
      BY <2>1
    <3>4. row' \in Row
      <4>1. row.version + 1 \in Nat /\ written.profile + 1 \in Nat
        BY <3>1 DEF Row, Columns
      <4>2. row'.version \in Nat /\ row'.profile \in Nat /\ row'.active = active
        BY <3>1, <3>3, <4>1 DEF Row
      <4>3. QED
        BY <3>1, <3>3, <4>2 DEF Row
    <3>5. QED
      BY <3>2, <3>4
  <2>3. TypeOK'
    BY <1>0, <2>2, Distinct DEF TypeOK, Actors, ClientPcs, RequestPcs
  <2>4. EditInv'
    BY <1>0, <2>1, Distinct DEF TypeOK, EditInv
  <2>5. ColumnsKept'
    BY <1>0, <2>1 DEF TypeOK, Row, Columns, ColumnsKept
  <2>6. QED
    BY <2>3, <2>4, <2>5 DEF IInv
<1>4. CASE AbandonEdit(c)
  <2> USE <1>4 DEF AbandonEdit, Goto
  <2>1. lock = c
    BY <1>0 DEF EditInv
  <2>2. TypeOK'
    BY <1>0, Distinct DEF TypeOK, Actors, ClientPcs, RequestPcs
  <2>3. EditInv' /\ ColumnsKept'
    BY <1>0, <2>1, Distinct DEF TypeOK, EditInv, ColumnsKept
  <2>4. QED
    BY <2>2, <2>3 DEF IInv
<1>5. QED
  BY <1>1, <1>2, <1>3, <1>4 DEF Edit

(* What an UPDATE of a request does: it finds nobody editing, and leaves   *)
(* the profile alone.                                                      *)
LEMMA SaveKeeps ==
  ASSUME IInv, NEW r \in Requests, NEW cols \in Row, NEW there \in RequestPcs,
         SaveColumns(r, cols), Goto(r, there), lock' = lock, seen' = seen,
         written' = [written EXCEPT !.password = cols.password,
                                    !.failed = cols.failed,
                                    !.locked = cols.locked]
  PROVE  IInv'
<1>0. TypeOK /\ EditInv /\ ColumnsKept /\ r \in Actors /\ r \notin Clients
  BY Distinct DEF IInv, Actors
<1>1. lock = Nobody /\ \A c \in Clients : pc[c] # "editing"
  BY <1>0, Distinct DEF SaveColumns, RowFree, EditInv
<1>2. row' \in Row /\ copy' \in [Actors -> Row] /\ written' \in Columns
  <2>1. row \in Row /\ copy \in [Actors -> Row] /\ written \in Columns
    BY <1>0 DEF TypeOK
  <2>2. copy[r] \in Row /\ copy[r].version + 1 \in Nat
    BY <1>0, <2>1 DEF Row
  <2>3. row' \in Row
    BY <2>1, <2>2 DEF SaveColumns, Row
  <2>4. [copy[r] EXCEPT !.version = copy[r].version + 1] \in Row
    BY <2>2 DEF Row
  <2>5. copy' \in [Actors -> Row]
    BY <2>1, <2>4 DEF SaveColumns
  <2>6. written' \in Columns
    BY <2>1 DEF Row, Columns
  <2>7. QED
    BY <2>3, <2>5, <2>6
<1>3. \A c \in Clients : pc'[c] = pc[c]
  BY <1>0 DEF TypeOK, Goto
<1>4. TypeOK'
  BY <1>0, <1>1, <1>2, <1>3 DEF TypeOK, Goto
<1>5. EditInv'
  BY <1>1, <1>3 DEF EditInv
<1>6. ColumnsKept'
  BY <1>0 DEF TypeOK, ColumnsKept, SaveColumns, Row, Columns
<1>7. QED
  BY <1>4, <1>5, <1>6 DEF IInv

LEMMA AnswerKeeps ==
  ASSUME IInv, NEW r \in Requests, Answer(r)
  PROVE  IInv'
<1>0. TypeOK /\ EditInv /\ ColumnsKept /\ r \in Actors /\ r \notin Clients
  BY Distinct DEF IInv, Actors
<1>1. row \in Row /\ written \in Columns /\ copy[r] \in Row
  BY <1>0 DEF TypeOK
<1>2. CASE Load(r)
  <2> USE <1>2 DEF Load, Goto
  <2>1. \A a \in Actors \ {r} : pc'[a] = pc[a]
    BY <1>0 DEF TypeOK
  <2>2. pc'[r] \in RequestPcs /\ pc' \in [Actors -> ClientPcs \cup RequestPcs]
    BY <1>0 DEF TypeOK, RequestPcs
  <2>3. TypeOK'
    BY <1>0, <2>1, <2>2 DEF TypeOK, Actors
  <2>4. EditInv' /\ ColumnsKept'
    BY <1>0, <2>1 DEF TypeOK, EditInv, ColumnsKept, Actors
  <2>5. QED
    BY <2>3, <2>4 DEF IInv
<1>3. CASE FailLogin(r)
  <2> DEFINE cols == [row EXCEPT !.failed = copy[r].failed + 1,
                                 !.locked = @ \/ copy[r].failed + 1 >= MaxFailed]
  <2>1. cols \in Row
    <3>1. copy[r].failed + 1 \in Nat
      BY <1>1 DEF Row
    <3>2. (row.locked \/ copy[r].failed + 1 >= MaxFailed) \in BOOLEAN
      OBVIOUS
    <3>3. QED
      BY <1>1, <3>1, <3>2 DEF Row
  <2>2. SaveColumns(r, cols) /\ Goto(r, "done") /\ lock' = lock /\ seen' = seen
    BY <1>3 DEF FailLogin
  <2>3. written' = [written EXCEPT !.password = cols.password,
                                   !.failed = cols.failed, !.locked = cols.locked]
    BY <1>0, <1>1, <1>3 DEF FailLogin, ColumnsKept, Row, Columns
  <2>4. QED
    BY <2>1, <2>2, <2>3, SaveKeeps DEF RequestPcs
<1>4. CASE Refuse(r)
  <2> USE <1>4 DEF Refuse, Goto
  <2>1. \A a \in Actors \ {r} : pc'[a] = pc[a]
    BY <1>0 DEF TypeOK
  <2>2. TypeOK'
    BY <1>0, <2>1 DEF TypeOK, RequestPcs, Actors
  <2>3. EditInv' /\ ColumnsKept'
    BY <1>0, <2>1 DEF TypeOK, EditInv, ColumnsKept, Actors
  <2>4. QED
    BY <2>2, <2>3 DEF IInv
<1>5. ASSUME NEW there \in RequestPcs, SaveColumns(r, row), Goto(r, there),
             UNCHANGED <<lock, seen, written>>
      PROVE  IInv'
  <2>1. written' = [written EXCEPT !.password = row.password,
                                   !.failed = row.failed, !.locked = row.locked]
    BY <1>0, <1>1, <1>5 DEF ColumnsKept, Columns
  <2>2. QED
    BY <1>1, <1>5, <2>1, SaveKeeps
<1>6. CASE Admit(r)
  BY <1>5, <1>6 DEF Admit, RequestPcs
<1>7. CASE StaySignedIn(r)
  BY <1>5, <1>7 DEF StaySignedIn, RequestPcs
<1>8. CASE SucceedLogin(r)
  <2> DEFINE cols == [row EXCEPT !.failed = 0, !.locked = FALSE]
  <2>1. cols \in Row
    BY <1>1 DEF Row
  <2>2. SaveColumns(r, cols) /\ Goto(r, "done") /\ lock' = lock /\ seen' = seen
    BY <1>8 DEF SucceedLogin
  <2>3. written' = [written EXCEPT !.password = cols.password,
                                   !.failed = cols.failed, !.locked = cols.locked]
    BY <1>0, <1>1, <1>8 DEF SucceedLogin, ColumnsKept, Row, Columns
  <2>4. QED
    BY <2>1, <2>2, <2>3, SaveKeeps DEF RequestPcs
<1>9. CASE ChangePassword(r)
  <2> DEFINE cols == [row EXCEPT !.password = written.password + 1]
  <2>1. cols \in Row
    BY <1>1 DEF Row, Columns
  <2>2. SaveColumns(r, cols) /\ Goto(r, "changed") /\ lock' = lock /\ seen' = seen
    BY <1>9 DEF ChangePassword
  <2>3. written' = [written EXCEPT !.password = cols.password,
                                   !.failed = cols.failed, !.locked = cols.locked]
    BY <1>0, <1>1, <1>9 DEF ChangePassword, ColumnsKept, Row, Columns
  <2>4. QED
    BY <2>1, <2>2, <2>3, SaveKeeps DEF RequestPcs
<1>10. QED
  BY <1>2, <1>3, <1>4, <1>6, <1>7, <1>8, <1>9 DEF Answer

LEMMA Invariance == Spec => []IInv
<1>1. ASSUME IInv, [Next]_vars PROVE IInv'
  <2>1. CASE UNCHANGED vars
    BY <1>1, <2>1 DEF vars, IInv, TypeOK, EditInv, ColumnsKept
  <2>2. QED
    BY <1>1, <2>1, EditKeeps, AnswerKeeps DEF Next
<1>2. QED
  BY <1>1, InitIInv, PTL DEF Spec
-----------------------------------------------------------------------------
(* Every variable keeps its type, and only an edit holds the row lock. *)
THEOREM AccountTyped == Spec => []TypeOK
<1>1. IInv => TypeOK
  BY DEF IInv
<1>2. QED
  BY <1>1, Invariance, PTL

(* No save puts back an older value of a column another one wrote: the     *)
(* administrators' saves because they read under the lock, the requests'   *)
(* because they name their columns.                                        *)
THEOREM NoColumnLost == Spec => []ColumnsKept
<1>1. IInv => ColumnsKept
  BY DEF IInv
<1>2. QED
  BY <1>1, Invariance, PTL

(* No save puts the version back.  A request that saves a copy two versions *)
(* old does.                                                               *)
VersionNeverFalls == [][row.version <= row'.version]_vars

(* While the version never falls, it tells the edits apart: a form with    *)
(* the row's version shows the row's latest edit.                          *)
VersionInv ==
    \A c \in Clients :
        /\ seen[c].version <= row.version
        /\ seen[c].version = row.version => seen[c].profile = row.profile
        /\ pc[c] = "editing" => seen[c].version = row.version

LEMMA VersionKeeps ==
  ASSUME IInv, VersionInv, [Next]_vars, row.version <= row'.version
  PROVE  VersionInv'
<1>0. TypeOK /\ EditInv
  BY DEF IInv
<1>1. /\ row \in Row /\ row.version \in Nat
      /\ \A c \in Clients : seen[c].version \in Nat
  BY <1>0 DEF TypeOK, Row
<1>2. ASSUME NEW c \in Clients, View(c) PROVE VersionInv'
  <2>1. /\ seen'[c].version = row.version /\ seen'[c].profile = row.profile
        /\ pc'[c] = "submitted" /\ row' = row
        /\ \A d \in Clients \ {c} : seen'[d] = seen[d] /\ pc'[d] = pc[d]
    BY <1>0, <1>2 DEF TypeOK, Actors, View, Goto
  <2>2. QED
    BY <1>1, <2>1 DEF VersionInv
<1>3. ASSUME NEW c \in Clients, LockAndCheck(c) PROVE VersionInv'
  BY <1>0, <1>3 DEF TypeOK, Actors, VersionInv, LockAndCheck, VersionMatches, Goto
<1>4. ASSUME NEW c \in Clients, AbandonEdit(c) PROVE VersionInv'
  BY <1>0, <1>4 DEF TypeOK, Actors, VersionInv, AbandonEdit, Goto
<1>5. ASSUME NEW c \in Clients, NEW active \in BOOLEAN, SaveEdit(c, active)
      PROVE  VersionInv'
  <2>1. copy[c] = row /\ lock = c
    BY <1>0, <1>5 DEF EditInv, SaveEdit
  <2>2. row'.version = row.version + 1 /\ seen' = seen
    BY <1>1, <1>5, <2>1 DEF SaveEdit, Row
  <2>3. \A d \in Clients : pc'[d] # "editing"
    BY <1>0, <1>5, <2>1 DEF TypeOK, Actors, EditInv, SaveEdit, Goto
  <2>4. QED
    BY <1>1, <2>2, <2>3 DEF VersionInv
<1>6. ASSUME NEW r \in Requests, Answer(r) PROVE VersionInv'
  <2>1. seen' = seen /\ \A c \in Clients : pc'[c] = pc[c]
    <3>1. \A c \in Clients : c # r
      BY Distinct
    <3>2. QED
      BY <1>0, <1>6, <3>1 DEF TypeOK, Actors, Answer, Load, FailLogin, Refuse, Admit,
                              SucceedLogin, ChangePassword, StaySignedIn, Goto
  <2>2. CASE row' = row
    BY <2>1, <2>2 DEF VersionInv
  <2>3. CASE row' # row
    <3>1. PICK cols : SaveColumns(r, cols)
      BY <1>6, <2>3 DEF Answer, Load, FailLogin, Refuse, Admit, SucceedLogin,
                        ChangePassword, StaySignedIn
    <3>2. lock = Nobody /\ row'.profile = row.profile
      BY <1>1, <3>1 DEF SaveColumns, RowFree, Row
    <3>3. \A c \in Clients : pc[c] # "editing"
      BY <1>0, <3>2, Distinct DEF EditInv
    <3>4. row'.version \in Nat
      <4>1. copy[r].version \in Nat
        BY <1>0 DEF TypeOK, Actors, Row
      <4>2. row'.version = copy[r].version + 1
        BY <1>1, <3>1 DEF SaveColumns, Row
      <4>3. QED
        BY <4>1, <4>2
    <3>5. QED
      BY <1>1, <2>1, <3>2, <3>3, <3>4 DEF VersionInv
  <2>4. QED
    BY <2>2, <2>3
<1>7. CASE UNCHANGED vars
  BY <1>7 DEF vars, VersionInv
<1>8. QED
  BY <1>2, <1>3, <1>4, <1>5, <1>6, <1>7 DEF Next, Edit

(* The optimistic lock does what VersionedModel says as long as the        *)
(* version never falls, whatever requests save the row's columns at the    *)
(* same time: that sign-ins and password changes write the version of an   *)
(* old copy is all that is wrong with it.                                  *)
THEOREM EditsNeverLost == Spec /\ VersionNeverFalls => []StaleEditRejected
<1>1. ASSUME Init PROVE VersionInv
  <2>1. row.version = 1 /\ row.profile = 0
    BY <1>1 DEF Init, Blank
  <2>2. \A c \in Clients :
           seen[c].version = 1 /\ seen[c].profile = 0 /\ pc[c] = "viewing"
    BY <1>1 DEF Init, Actors
  <2>3. 1 <= 1 /\ "viewing" # "editing"
    OBVIOUS
  <2>4. QED
    BY <2>1, <2>2, <2>3, Zenon DEF VersionInv
<1>2. IInv /\ VersionInv /\ [Next]_vars /\ [row.version <= row'.version]_vars => VersionInv'
  <2>1. ASSUME IInv, VersionInv, UNCHANGED vars PROVE VersionInv'
    BY <2>1 DEF vars, VersionInv
  <2>2. QED
    BY <2>1, VersionKeeps
<1>3. VersionInv => StaleEditRejected
  BY DEF VersionInv, StaleEditRejected
<1>4. QED
  BY <1>1, <1>2, <1>3, Invariance, PTL DEF Spec, VersionNeverFalls

(* Two administrators never overwrite each other while the user they edit  *)
(* neither signs in nor changes the password.                              *)
THEOREM AdministratorsAlone ==
  ASSUME Requests = {}
  PROVE  Spec => []StaleEditRejected
<1>1. ASSUME IInv, [Next]_vars PROVE row.version <= row'.version
  <2>1. row \in Row /\ row.version \in Nat /\ EditInv
    BY <1>1 DEF IInv, TypeOK, Row
  <2>2. ASSUME NEW c \in Clients, NEW active \in BOOLEAN, SaveEdit(c, active)
        PROVE  row.version <= row'.version
    <3>1. row'.version = row.version + 1
      BY <2>1, <2>2 DEF EditInv, SaveEdit, Row
    <3>2. QED
      BY <2>1, <3>1
  <2>3. CASE row' = row
    BY <2>1, <2>3
  <2>4. QED
    BY <1>1, <2>2, <2>3 DEF Next, Edit, View, LockAndCheck, AbandonEdit, vars
<1>2. IInv /\ [Next]_vars => [row.version <= row'.version]_vars
  BY <1>1
<1>3. QED
  BY <1>2, EditsNeverLost, Invariance, PTL DEF Spec, VersionNeverFalls
==============================================================================
