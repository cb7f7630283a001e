--------------------------- MODULE EditScreenProofs ---------------------------
(***************************************************************************)
(* What EditScreen keeps for every set of roles and saves.  The inductive  *)
(* invariant says that every copy of a role in the tab -- in the form, in  *)
(* an answer on its way, in a save -- is an older version of the role, or  *)
(* is what the role says now.                                              *)
(***************************************************************************)
EXTENDS EditScreen, SequenceTheorems, TLAPS

(* A copy of x, of version v, that says t. *)
CopyOf(x, v, t) ==
    x \in Roles =>
       /\ v <= record[x].version
       /\ v = record[x].version => t = record[x].text

FormCopy   == CopyOf(screen.form.role, screen.form.version, screen.form.base)
AnswerCopy == \A g \in gets : g.answered => CopyOf(g.role, g.answer.version, g.answer.text)
SaveCopy   ==
    \A s \in Saves :
        CopyOf(saves[s].form.role, saves[s].form.version, saves[s].form.base)

SaveInv ==
    \A s \in Saves :
        /\ saves[s].at = "sent" /\ saves[s].of \in Roles =>
              saves[s].form.role = saves[s].of
        /\ saves[s].at \in {"saved", "refreshing"} => saves[s].id \in Roles

IInv ==
    /\ TypeOK /\ FormShowsItsRole
    /\ FormCopy /\ AnswerCopy /\ SaveCopy /\ SaveInv
-----------------------------------------------------------------------------
Histories == Seq(Locations) \ {<<>>}

LEMMA HereTyped ==
  ASSUME NEW h \in Histories
  PROVE  Last(h) \in Locations
  BY DEF Histories, Last

LEMMA AppendTyped ==
  ASSUME NEW h \in Seq(Locations), NEW loc \in Locations
  PROVE  Append(h, loc) \in Histories /\ Last(Append(h, loc)) = loc
<1>1. /\ Append(h, loc) \in Seq(Locations)
      /\ Len(Append(h, loc)) = Len(h) + 1 /\ Len(h) \in Nat
      /\ Append(h, loc)[Len(h) + 1] = loc
  OBVIOUS
<1>2. Append(h, loc) # <<>>
  BY <1>1
<1>3. QED
  BY <1>1, <1>2 DEF Histories, Last

LEMMA FrontTyped ==
  ASSUME NEW h \in Histories
  PROVE  /\ Front(h) \in Seq(Locations) /\ Len(Front(h)) = Len(h) - 1
         /\ \A i \in 1 .. Len(Front(h)) : i \in 1 .. Len(h) /\ Front(h)[i] = h[i]
         /\ Len(h) > 1 => Front(h) \in Histories
<1>1. h \in Seq(Locations) /\ Len(h) \in Nat /\ Len(h) > 0
  BY DEF Histories
<1>2. /\ Front(h) \in Seq(Locations)
      /\ Len(Front(h)) = Len(h) - 1
      /\ \A i \in 1 .. (Len(h) - 1) : Front(h)[i] = h[i]
  <2>1. \A i \in 1 .. (Len(h) - 1) : h[i] \in Locations
    BY <1>1, ElementOfSeq
  <2>2. 1 \in Int /\ Len(h) - 1 \in Int
    BY <1>1
  <2>3. /\ SubSeq(h, 1, Len(h) - 1) \in Seq(Locations)
        /\ Len(SubSeq(h, 1, Len(h) - 1)) =
              IF 1 <= Len(h) - 1 THEN (Len(h) - 1) - 1 + 1 ELSE 0
        /\ \A i \in 1 .. (Len(h) - 1) - 1 + 1 :
              SubSeq(h, 1, Len(h) - 1)[i] = h[1 + i - 1]
    BY <2>1, <2>2, SubSeqProperties
  <2>4. Front(h) = SubSeq(h, 1, Len(h) - 1)
    BY DEF Front
  <2>5. \A n \in Nat : n > 0 => (IF 1 <= n - 1 THEN (n - 1) - 1 + 1 ELSE 0) = n - 1
    OBVIOUS
  <2>6. Len(Front(h)) = Len(h) - 1
    BY <1>1, <2>3, <2>4, <2>5, Zenon
  <2>7. /\ (Len(h) - 1) - 1 + 1 = Len(h) - 1
        /\ \A i \in 1 .. (Len(h) - 1) : 1 + i - 1 = i
    BY <1>1
  <2>8. QED
    BY <2>3, <2>4, <2>6, <2>7
<1>3. QED
  BY <1>1, <1>2 DEF Histories

LEMMA MountedTyped ==
  ASSUME NEW n \in Nat
  PROVE  /\ Mounted(n) \in Screen
         /\ Mounted(n).form = Blank /\ Mounted(n).loading
  BY DEF Mounted, Screen, Form, Blank

(* Whatever the tab shows next, the gets are as they must be, a form that  *)
(* is visible shows its role, and no copy is new.                          *)
LEMMA ShowKeeps ==
  ASSUME TypeOK, FormShowsItsRole, FormCopy, AnswerCopy, record' = record,
         NEW h \in Histories, NEW reload \in BOOLEAN,
         NEW scr \in Screen, scr.form = screen.form,
         scr.loading = screen.loading, scr.failed = screen.failed,
         Show(h, scr, reload)
  PROVE  /\ history' \in Histories /\ screen' \in Screen /\ gets' \subseteq Get
         /\ \A g, k \in gets' : g.active /\ k.active => g = k
         /\ \A g \in gets' : g.active => g.role = Here'
         /\ FormShowsItsRole' /\ FormCopy' /\ AnswerCopy'
<1> DEFINE loc == Last(h)
<1>1. /\ loc \in Locations /\ history' = h /\ Here' = loc
  BY HereTyped DEF Show, Here
<1>2. /\ Cleanup(gets) \subseteq Get
      /\ \A g \in Cleanup(gets) :
            ~g.active /\ \E k \in gets : k.answered /\ g.role = k.role /\ g.answer = k.answer
  BY DEF Cleanup, TypeOK, Get
<1>3. /\ screen.mount \in Nat /\ screen.form \in Form
  BY DEF TypeOK, Screen
<1>4. \A x \in Roles : GetRole(x) \in Get /\ GetRole(x).role = x /\ ~GetRole(x).answered
  BY DEF GetRole, Get, Record, NoRecord
<1>5. CopyOf(None, 0, 0)
  BY Distinct DEF CopyOf
<1>6. Blank.role = None /\ Blank.version = 0 /\ Blank.base = 0
  BY DEF Blank
<1>7. ASSUME NEW src \in Screen, src.form \in {screen.form, Blank}, Load(src, loc)
      PROVE  /\ screen' \in Screen /\ gets' \subseteq Get
             /\ \A g, k \in gets' : g.active /\ k.active => g = k
             /\ \A g \in gets' : g.active => g.role = Here'
             /\ FormShowsItsRole' /\ FormCopy' /\ AnswerCopy'
  <2>1. /\ screen' = [src EXCEPT !.loading = loc # New, !.failed = FALSE]
        /\ gets' = Cleanup(gets) \cup {GetRole(x) : x \in {loc} \cap Roles}
    BY <1>7 DEF Load
  <2>2. screen' \in Screen /\ screen'.form = src.form /\ screen'.loading = (loc # New)
    BY <2>1 DEF Screen
  <2>3. gets' \subseteq Get
    BY <1>2, <1>4, <2>1
  <2>4. \A g, k \in gets' : g.active /\ k.active => g = k
    BY <1>2, <2>1
  <2>5. \A g \in gets' : g.active => g.role = Here'
    BY <1>1, <1>2, <1>4, <2>1
  <2>6. FormShowsItsRole'
    BY <1>1, <2>2, Distinct DEF FormShowsItsRole, Visible
  <2>7. FormCopy'
    BY <1>5, <1>6, <1>7, <2>2 DEF FormCopy, CopyOf
  <2>8. AnswerCopy'
    BY <1>2, <1>4, <2>1 DEF AnswerCopy, CopyOf
  <2>9. QED
    BY <2>2, <2>3, <2>4, <2>5, <2>6, <2>7, <2>8
<1>8. CASE loc = Elsewhere
  <2>1. screen' = Mounted(screen.mount) /\ gets' = Cleanup(gets)
    BY <1>8 DEF Show
  <2>2. screen' \in Screen /\ screen'.form = Blank
    BY <1>3, <2>1, MountedTyped
  <2>3. FormShowsItsRole'
    BY <1>1, <1>8, Distinct DEF FormShowsItsRole
  <2>4. FormCopy'
    BY <1>5, <1>6, <2>2 DEF FormCopy, CopyOf
  <2>5. AnswerCopy'
    BY <1>2, <2>1 DEF AnswerCopy, CopyOf
  <2>6. QED
    BY <1>1, <1>2, <2>1, <2>2, <2>3, <2>4, <2>5
<1>9. CASE loc # Elsewhere /\ Here = Elsewhere
  <2>1. Load(Mounted(screen.mount + 1), loc)
    BY <1>9 DEF Show
  <2>2. Mounted(screen.mount + 1) \in Screen /\ Mounted(screen.mount + 1).form = Blank
    BY <1>3, MountedTyped
  <2>3. QED
    BY <1>1, <1>7, <2>1, <2>2
<1>10. CASE loc # Elsewhere /\ Here # Elsewhere /\ (loc # Here \/ reload)
  <2>1. Load(scr, loc)
    BY <1>10 DEF Show
  <2>2. QED
    BY <1>1, <1>7, <2>1
<1>11. CASE loc # Elsewhere /\ Here # Elsewhere /\ loc = Here /\ ~reload
  <2>1. screen' = scr /\ gets' = gets
    BY <1>11 DEF Show
  <2>2. Here' = Here
    BY <1>1, <1>11
  <2>3. FormShowsItsRole'
    BY <2>1, <2>2 DEF FormShowsItsRole, Visible
  <2>4. FormCopy' /\ AnswerCopy'
    BY <2>1 DEF FormCopy, AnswerCopy, CopyOf
  <2>5. QED
    BY <1>1, <2>1, <2>2, <2>3, <2>4 DEF TypeOK
<1>12. QED
  BY <1>8, <1>9, <1>10, <1>11
-----------------------------------------------------------------------------
LEMMA InitIInv == Init => IInv
<1> SUFFICES ASSUME Init PROVE IInv
  OBVIOUS
<1>1. Here = Elsewhere
  BY DEF Init, Here, Last
<1>2. Mounted(0) \in Screen /\ Mounted(0).form = Blank
  BY MountedTyped
<1>3. record \in [Roles -> Record]
  BY DEF Init, Record, NoRecord
<1>4. history \in Histories
  BY DEF Init, Histories, Locations
<1>5. Idle \in Save /\ Idle.form = Blank /\ Idle.at = "idle"
  BY DEF Idle, Save, Phases, Form, Blank
<1>6. TypeOK
  BY <1>2, <1>3, <1>4, <1>5 DEF Init, TypeOK, Histories
<1>7. FormShowsItsRole
  BY <1>1, Distinct DEF FormShowsItsRole
<1>8. Blank.role \notin Roles
  BY Distinct DEF Blank
<1>9. FormCopy /\ AnswerCopy /\ SaveCopy /\ SaveInv
  BY <1>2, <1>5, <1>8 DEF Init, FormCopy, AnswerCopy, SaveCopy, SaveInv, CopyOf
<1>10. QED
  BY <1>6, <1>7, <1>9 DEF IInv

(* A step that neither writes a role nor touches the saves. *)
LEMMA TabStepKeeps ==
  ASSUME IInv, record' = record, saves' = saves,
         texts' \in Nat, unsure' \subseteq Nat,
         history' \in Histories, screen' \in Screen, gets' \subseteq Get,
         \A g, k \in gets' : g.active /\ k.active => g = k,
         \A g \in gets' : g.active => g.role = Here',
         FormShowsItsRole', FormCopy', AnswerCopy'
  PROVE  IInv'
<1>1. TypeOK'
  BY DEF IInv, TypeOK, Histories
<1>2. SaveCopy' /\ SaveInv'
  BY DEF IInv, SaveCopy, SaveInv, CopyOf
<1>3. QED
  BY <1>1, <1>2 DEF IInv

(* A transaction that writes one role: it gets a version it never had.     *)
LEMMA WriteKeeps ==
  ASSUME IInv, NEW x \in Roles, NEW new \in Record,
         new.version > record[x].version,
         record' = [record EXCEPT ![x] = new],
         history' = history, screen' = screen, gets' = gets,
         texts' \in Nat, unsure' = unsure,
         saves' \in [Saves -> Save],
         \A s \in Saves : saves'[s].form = saves[s].form,
         SaveInv'
  PROVE  IInv'
<1>1. record \in [Roles -> Record]
  BY DEF IInv, TypeOK
<1>2. \A y \in Roles :
         /\ record[y].version \in Nat /\ record'[y].version \in Nat
         /\ record'[y] = record[y] \/ record'[y].version > record[y].version
  BY <1>1 DEF Record
<1>3. TypeOK'
  BY <1>1 DEF IInv, TypeOK, Here
<1>4. FormShowsItsRole'
  BY DEF IInv, FormShowsItsRole, Visible, Here
<1>5. FormCopy'
  <2>1. screen.form.version \in Nat
    BY DEF IInv, TypeOK, Screen, Form
  <2>2. QED
    BY <1>2, <2>1 DEF IInv, FormCopy, CopyOf
<1>6. AnswerCopy'
  <2>1. \A g \in gets : g.answer.version \in Nat
    BY DEF IInv, TypeOK, Get, Record
  <2>2. QED
    BY <1>2, <2>1 DEF IInv, AnswerCopy, CopyOf
<1>7. SaveCopy'
  <2>1. \A s \in Saves : saves[s].form.version \in Nat
    BY DEF IInv, TypeOK, Save, Form
  <2>2. QED
    BY <1>2, <2>1 DEF IInv, SaveCopy, CopyOf
<1>8. QED
  BY <1>3, <1>4, <1>5, <1>6, <1>7 DEF IInv
-----------------------------------------------------------------------------
(***************************************************************************)
(* The steps.                                                              *)
(***************************************************************************)
LEMMA FollowKeeps ==
  ASSUME IInv, NEW loc \in Locations, Follow(loc)
  PROVE  IInv'
<1>1. /\ Append(history, loc) \in Histories /\ screen \in Screen
  BY AppendTyped DEF IInv, TypeOK
<1>2. /\ Show(Append(history, loc), screen, FALSE) /\ record' = record
      /\ saves' = saves /\ texts' = texts /\ unsure' = unsure
  BY DEF Follow
<1>3. TypeOK /\ FormShowsItsRole /\ FormCopy /\ AnswerCopy
  BY DEF IInv
<1>4. texts' \in Nat /\ unsure' \subseteq Nat
  BY <1>2, <1>3 DEF TypeOK
<1>5. QED
  BY <1>1, <1>2, <1>3, <1>4, ShowKeeps, TabStepKeeps

LEMMA BackKeeps ==
  ASSUME IInv, Back
  PROVE  IInv'
<1>1. history \in Histories /\ Len(history) > 1
  BY DEF IInv, TypeOK, Histories, Back
<1>2. Front(history) \in Histories /\ screen \in Screen
  BY <1>1, FrontTyped DEF IInv, TypeOK
<1>3. /\ Show(Front(history), screen, FALSE) /\ record' = record
      /\ saves' = saves /\ texts' = texts /\ unsure' = unsure
  BY DEF Back
<1>4. TypeOK /\ FormShowsItsRole /\ FormCopy /\ AnswerCopy
  BY DEF IInv
<1>5. texts' \in Nat /\ unsure' \subseteq Nat
  BY <1>3, <1>4 DEF TypeOK
<1>6. QED
  BY <1>2, <1>3, <1>4, <1>5, ShowKeeps, TabStepKeeps

LEMMA ServeGetKeeps ==
  ASSUME IInv, NEW g \in gets, ServeGet(g)
  PROVE  IInv'
<1> DEFINE k == [g EXCEPT !.answered = TRUE, !.answer = record[g.role]]
<1>1. /\ gets' = (gets \ {g}) \cup {k}
      /\ record' = record /\ history' = history /\ screen' = screen
      /\ saves' = saves /\ texts' = texts /\ unsure' = unsure
  BY DEF ServeGet
<1>2. g \in Get /\ record \in [Roles -> Record]
  BY DEF IInv, TypeOK
<1>3. /\ k \in Get /\ k.active = g.active /\ k.role = g.role
      /\ k.answer = record[g.role] /\ g.role \in Roles
  BY <1>2 DEF Get
<1>4. gets' \subseteq Get
  BY <1>1, <1>3 DEF IInv, TypeOK
<1>5. \A h, j \in gets' : h.active /\ j.active => h = j
  BY <1>1, <1>3 DEF IInv, TypeOK
<1>6. \A h \in gets' : h.active => h.role = Here'
  BY <1>1, <1>3 DEF IInv, TypeOK, Here
<1>7. record[g.role].version \in Nat
  BY <1>2, <1>3 DEF Record
<1>8. CopyOf(k.role, k.answer.version, k.answer.text)
  BY <1>3, <1>7 DEF CopyOf
<1>9. AnswerCopy'
  BY <1>1, <1>8 DEF IInv, AnswerCopy, CopyOf
<1>10. FormCopy' /\ FormShowsItsRole'
  BY <1>1 DEF IInv, FormCopy, CopyOf, FormShowsItsRole, Visible, Here
<1>11. history' \in Histories /\ screen' \in Screen /\ texts' \in Nat /\ unsure' \subseteq Nat
  BY <1>1 DEF IInv, TypeOK, Histories
<1>12. QED
  BY <1>1, <1>4, <1>5, <1>6, <1>9, <1>10, <1>11, TabStepKeeps

(* An answer leaves gets, and at most the form changes. *)
LEMMA AnsweredKeeps ==
  ASSUME IInv, NEW g \in gets, gets' = gets \ {g},
         record' = record, history' = history, saves' = saves, texts' = texts,
         unsure' = unsure, screen' \in Screen, FormShowsItsRole', FormCopy'
  PROVE  IInv'
<1>1. gets' \subseteq Get /\ \A h, j \in gets' : h.active /\ j.active => h = j
  BY DEF IInv, TypeOK
<1>2. \A h \in gets' : h.active => h.role = Here'
  BY DEF IInv, TypeOK, Here
<1>3. AnswerCopy'
  BY DEF IInv, AnswerCopy, CopyOf
<1>4. history' \in Histories /\ texts' \in Nat /\ unsure' \subseteq Nat
  BY DEF IInv, TypeOK, Histories
<1>5. QED
  BY <1>1, <1>2, <1>3, <1>4, TabStepKeeps

LEMMA ReceiveKeeps ==
  ASSUME IInv, NEW g \in gets, Receive(g)
  PROVE  IInv'
<1>1. /\ gets' = gets \ {g} /\ g.answered
      /\ record' = record /\ history' = history
      /\ saves' = saves /\ texts' = texts /\ unsure' = unsure
  BY DEF Receive
<1>2. g \in Get /\ screen \in Screen
  BY DEF IInv, TypeOK
<1>3. CASE g.active
  <2> DEFINE f == [role |-> g.role, version |-> g.answer.version,
                   base |-> g.answer.text, text |-> g.answer.text]
  <2>1. screen' = [screen EXCEPT !.loading = FALSE, !.dirty = FALSE, !.form = f]
    BY <1>3 DEF Receive, Expected
  <2>2. f \in Form
    BY <1>2 DEF Form, Get, Record
  <2>3. screen' \in Screen /\ screen'.form = f
    BY <1>2, <2>1, <2>2 DEF Screen
  <2>4. g.role = Here /\ Here' = Here
    BY <1>1, <1>3 DEF IInv, TypeOK, Here
  <2>5. FormShowsItsRole'
    BY <2>3, <2>4 DEF FormShowsItsRole
  <2>6. FormCopy'
    BY <1>1, <2>3 DEF IInv, AnswerCopy, FormCopy, CopyOf
  <2>7. QED
    BY <1>1, <2>3, <2>5, <2>6, AnsweredKeeps
<1>4. CASE ~g.active
  <2>1. screen' = screen
    BY <1>4 DEF Receive, Expected
  <2>2. FormShowsItsRole' /\ FormCopy'
    BY <1>1, <2>1 DEF IInv, FormShowsItsRole, Visible, Here, FormCopy, CopyOf
  <2>3. QED
    BY <1>1, <1>2, <2>1, <2>2, AnsweredKeeps
<1>5. QED
  BY <1>3, <1>4

LEMMA FailGetKeeps ==
  ASSUME IInv, NEW g \in gets, FailGet(g)
  PROVE  IInv'
<1>1. /\ gets' = gets \ {g}
      /\ record' = record /\ history' = history
      /\ saves' = saves /\ texts' = texts /\ unsure' = unsure
      /\ screen' \in {screen, ShowError(screen)}
  BY DEF FailGet
<1>2. screen \in Screen
  BY DEF IInv, TypeOK
<1>3. /\ ShowError(screen) \in Screen /\ ShowError(screen).form = screen.form
      /\ ShowError(screen).failed
  BY <1>2 DEF ShowError, Screen
<1>4. Here' = Here
  BY <1>1 DEF Here
<1>5. FormShowsItsRole'
  BY <1>1, <1>3, <1>4, Distinct DEF IInv, FormShowsItsRole, Visible
<1>6. FormCopy'
  BY <1>1, <1>3 DEF IInv, FormCopy, CopyOf
<1>7. QED
  BY <1>1, <1>2, <1>3, <1>5, <1>6, AnsweredKeeps

LEMMA TypeKeeps ==
  ASSUME IInv, Type
  PROVE  IInv'
<1>1. /\ screen' = [screen EXCEPT !.form.text = texts + 1, !.dirty = TRUE]
      /\ texts' = texts + 1
      /\ record' = record /\ history' = history /\ gets' = gets
      /\ saves' = saves /\ unsure' = unsure
  BY DEF Type
<1>2. screen \in Screen /\ texts \in Nat
  BY DEF IInv, TypeOK
<1>3. /\ screen' \in Screen
      /\ screen'.form.role = screen.form.role
      /\ screen'.form.version = screen.form.version
      /\ screen'.form.base = screen.form.base
      /\ screen'.loading = screen.loading /\ screen'.failed = screen.failed
  <2> DEFINE f == [screen.form EXCEPT !.text = texts + 1]
  <2>1. screen' = [screen EXCEPT !.form = f, !.dirty = TRUE]
    BY <1>1, <1>2 DEF Screen
  <2>2. /\ f \in Form /\ f.role = screen.form.role
        /\ f.version = screen.form.version /\ f.base = screen.form.base
    BY <1>2 DEF Screen, Form
  <2>3. screen' \in Screen /\ screen'.form = f
    BY <1>2, <2>1, <2>2 DEF Screen
  <2>4. screen'.loading = screen.loading /\ screen'.failed = screen.failed
    BY <1>2, <2>1 DEF Screen
  <2>5. QED
    BY <2>2, <2>3, <2>4
<1>4. Here' = Here
  BY <1>1 DEF Here
<1>5. FormShowsItsRole' /\ FormCopy' /\ AnswerCopy'
  BY <1>1, <1>3, <1>4
     DEF IInv, FormShowsItsRole, Visible, FormCopy, AnswerCopy, CopyOf
<1>6. QED
  BY <1>1, <1>2, <1>3, <1>4, <1>5, TabStepKeeps DEF IInv, TypeOK, Histories

LEMMA ReloadKeeps ==
  ASSUME IInv, Reload
  PROVE  IInv'
<1>1. /\ Load(screen, Here) /\ Here # Elsewhere
      /\ record' = record /\ history' = history
      /\ saves' = saves /\ texts' = texts /\ unsure' = unsure
  BY Distinct DEF Reload, Visible
<1>2. history \in Histories /\ screen \in Screen
  BY DEF IInv, TypeOK, Histories
<1>3. Show(history, screen, TRUE)
  BY <1>1 DEF Show, Here
<1>4. TypeOK /\ FormShowsItsRole /\ FormCopy /\ AnswerCopy
  BY DEF IInv
<1>5. texts' \in Nat /\ unsure' \subseteq Nat
  BY <1>1, <1>4 DEF TypeOK
<1>6. QED
  BY <1>1, <1>2, <1>3, <1>4, <1>5, ShowKeeps, TabStepKeeps

(* A step of one save that writes no role and does not move the tab. *)
LEMMA SaveStepKeeps ==
  ASSUME IInv, NEW s \in Saves, NEW v \in Save,
         saves' = [saves EXCEPT ![s] = v],
         CopyOf(v.form.role, v.form.version, v.form.base),
         v.at = "sent" /\ v.of \in Roles => v.form.role = v.of,
         v.at \in {"saved", "refreshing"} => v.id \in Roles,
         record' = record, history' = history, gets' = gets, texts' = texts,
         unsure' \subseteq Nat,
         screen' \in Screen, screen'.form = screen.form,
         screen'.loading = screen.loading, screen'.failed = screen.failed
  PROVE  IInv'
<1>1. Here' = Here
  BY DEF Here
<1>2. saves' \in [Saves -> Save]
  BY DEF IInv, TypeOK
<1>3. TypeOK'
  BY <1>1, <1>2 DEF IInv, TypeOK
<1>4. FormShowsItsRole' /\ FormCopy' /\ AnswerCopy'
  BY <1>1 DEF IInv, FormShowsItsRole, Visible, FormCopy, AnswerCopy, CopyOf
<1>5. SaveCopy' /\ SaveInv'
  BY DEF IInv, TypeOK, SaveCopy, SaveInv, CopyOf
<1>6. QED
  BY <1>3, <1>4, <1>5 DEF IInv

LEMMA DoneSafe ==
  /\ Done \in Save /\ Done.at = "done" /\ Done.form = Blank
  /\ CopyOf(Done.form.role, Done.form.version, Done.form.base)
  BY Distinct DEF Done, Idle, Save, Phases, Form, Blank, CopyOf

LEMMA SubmitKeeps ==
  ASSUME IInv, NEW s \in Saves, Submit(s)
  PROVE  IInv'
<1> DEFINE v == [at |-> "sent", mount |-> screen.mount, of |-> Here,
                 form |-> screen.form, id |-> None]
<1>1. /\ saves' = [saves EXCEPT ![s] = v] /\ Visible
      /\ screen' = [screen EXCEPT !.saving = TRUE, !.conflict = FALSE]
      /\ record' = record /\ history' = history /\ gets' = gets
      /\ texts' = texts /\ unsure' = unsure
  BY DEF Submit
<1>2. screen \in Screen /\ unsure \subseteq Nat
  BY DEF IInv, TypeOK
<1>3. Here \in Roles \cup {New}
  BY <1>1 DEF Visible
<1>4. v \in Save
  BY <1>2, <1>3 DEF Save, Phases, Screen
<1>5. CopyOf(v.form.role, v.form.version, v.form.base)
  BY DEF IInv, FormCopy
<1>6. v.of \in Roles => v.form.role = v.of
  BY <1>1 DEF IInv, FormShowsItsRole
<1>7. /\ screen' \in Screen /\ screen'.form = screen.form
      /\ screen'.loading = screen.loading /\ screen'.failed = screen.failed
  BY <1>1, <1>2 DEF Screen
<1>8. v.at = "sent"
  OBVIOUS
<1> HIDE DEF v
<1>9. QED
  BY <1>1, <1>2, <1>4, <1>5, <1>6, <1>7, <1>8, SaveStepKeeps

(* A save that goes on, or is refused. *)
LEMMA BecomeKeeps ==
  ASSUME IInv, NEW s \in Saves, NEW at \in {"conflict", "refused", "refreshing"},
         Become(s, at), at = "refreshing" => saves[s].at = "saved",
         record' = record, history' = history, gets' = gets, texts' = texts,
         unsure' \subseteq Nat,
         screen' \in {screen, [screen EXCEPT !.dirty = FALSE]}
  PROVE  IInv'
<1> DEFINE v == [saves[s] EXCEPT !.at = at]
<1>1. saves[s] \in Save /\ saves \in [Saves -> Save] /\ screen \in Screen
  BY DEF IInv, TypeOK
<1>2. saves' = [saves EXCEPT ![s] = v]
  BY <1>1 DEF Become
<1>3. /\ v \in Save /\ v.at = at /\ v.form = saves[s].form /\ v.id = saves[s].id
  BY <1>1 DEF Save, Phases
<1>4. CopyOf(v.form.role, v.form.version, v.form.base)
  BY <1>3 DEF IInv, SaveCopy
<1>5. v.at \in {"saved", "refreshing"} => v.id \in Roles
  BY <1>3 DEF IInv, SaveInv
<1>6. /\ screen' \in Screen /\ screen'.form = screen.form
      /\ screen'.loading = screen.loading /\ screen'.failed = screen.failed
  BY <1>1 DEF Screen
<1> HIDE DEF v
<1>7. QED
  BY <1>2, <1>3, <1>4, <1>5, <1>6, SaveStepKeeps
-----------------------------------------------------------------------------
LEMMA ServePatchKeeps ==
  ASSUME IInv, NEW s \in Saves, ServePatch(s)
  PROVE  IInv'
<1> DEFINE x   == saves[s].of
           new == [version |-> record[x].version + 1, text |-> saves[s].form.text,
                   by |-> saves[s].mount]
           v   == [saves[s] EXCEPT !.at = "saved", !.id = x]
<1>1. /\ saves[s].at = "sent" /\ x \in Roles
      /\ history' = history /\ screen' = screen /\ gets' = gets
      /\ texts' = texts /\ unsure' = unsure
  BY DEF ServePatch
<1>2. saves[s] \in Save /\ saves \in [Saves -> Save] /\ record \in [Roles -> Record]
  BY DEF IInv, TypeOK
<1>3. CASE VersionMatches(s)
  <2>1. record' = [record EXCEPT ![x] = new] /\ saves' = [saves EXCEPT ![s] = v]
    BY <1>2, <1>3 DEF ServePatch
  <2>2. new \in Record /\ new.version > record[x].version
    BY <1>1, <1>2 DEF Record, Save, Form
  <2>3. /\ v \in Save /\ v.at = "saved" /\ v.id = x /\ v.form = saves[s].form
    BY <1>1, <1>2 DEF Save, Phases
  <2>4. saves' \in [Saves -> Save] /\ \A r \in Saves : saves'[r].form = saves[r].form
    BY <1>2, <2>1, <2>3
  <2>5. SaveInv'
    BY <1>1, <1>2, <2>1, <2>3 DEF IInv, SaveInv
  <2>6. texts' \in Nat
    BY <1>1 DEF IInv, TypeOK
  <2> HIDE DEF new, v
  <2>7. QED
    BY <1>1, <2>1, <2>2, <2>4, <2>5, <2>6, WriteKeeps
<1>4. CASE ~VersionMatches(s)
  <2>1. Become(s, "conflict") /\ record' = record
    BY <1>4 DEF ServePatch
  <2>2. unsure' \subseteq Nat
    BY <1>1 DEF IInv, TypeOK
  <2>3. QED
    BY <1>1, <2>1, <2>2, BecomeKeeps
<1>5. QED
  BY <1>3, <1>4

LEMMA ServePostKeeps ==
  ASSUME IInv, NEW s \in Saves, NEW x \in Roles, ServePost(s, x)
  PROVE  IInv'
<1> DEFINE new == [version |-> 1, text |-> saves[s].form.text, by |-> saves[s].mount]
           v   == [saves[s] EXCEPT !.at = "saved", !.id = x]
<1>1. /\ saves[s].at = "sent" /\ record[x].version = 0
      /\ history' = history /\ screen' = screen /\ gets' = gets
      /\ texts' = texts /\ unsure' = unsure
  BY DEF ServePost
<1>2. saves[s] \in Save /\ saves \in [Saves -> Save] /\ texts \in Nat
  BY DEF IInv, TypeOK
<1>3. record' = [record EXCEPT ![x] = new] /\ saves' = [saves EXCEPT ![s] = v]
  BY <1>2 DEF ServePost
<1>4. new \in Record /\ new.version > record[x].version
  BY <1>1, <1>2 DEF Record, Save, Form
<1>5. /\ v \in Save /\ v.at = "saved" /\ v.id = x /\ v.form = saves[s].form
  BY <1>2 DEF Save, Phases
<1>6. saves' \in [Saves -> Save] /\ \A r \in Saves : saves'[r].form = saves[r].form
  BY <1>2, <1>3, <1>5
<1>7. SaveInv'
  BY <1>1, <1>2, <1>3, <1>5 DEF IInv, SaveInv
<1> HIDE DEF new, v
<1>8. QED
  BY <1>1, <1>2, <1>3, <1>4, <1>6, <1>7, WriteKeeps

LEMMA OtherSaveKeeps ==
  ASSUME IInv, NEW x \in Roles, OtherSave(x)
  PROVE  IInv'
<1> DEFINE new == [version |-> record[x].version + 1, text |-> texts + 1, by |-> 0]
<1>1. /\ record' = [record EXCEPT ![x] = new] /\ texts' = texts + 1
      /\ history' = history /\ screen' = screen /\ gets' = gets
      /\ saves' = saves /\ unsure' = unsure
  BY DEF OtherSave, IInv, TypeOK
<1>2. record[x] \in Record /\ texts \in Nat /\ saves \in [Saves -> Save]
  BY DEF IInv, TypeOK
<1>3. new \in Record /\ new.version > record[x].version
  BY <1>2 DEF Record
<1>4. SaveInv'
  BY <1>1 DEF IInv, SaveInv
<1>5. /\ texts' \in Nat /\ saves' \in [Saves -> Save]
      /\ \A s \in Saves : saves'[s].form = saves[s].form
  BY <1>1, <1>2
<1> HIDE DEF new
<1>6. QED
  BY <1>1, <1>3, <1>4, <1>5, WriteKeeps

LEMMA EndSaveKeeps ==
  ASSUME IInv, NEW s \in Saves, EndSave(s)
  PROVE  IInv'
<1>1. /\ saves' = [saves EXCEPT ![s] = Done]
      /\ record' = record /\ history' = history /\ gets' = gets
      /\ texts' = texts /\ unsure' = unsure
  BY DEF EndSave
<1>2. screen \in Screen /\ unsure \subseteq Nat
  BY DEF IInv, TypeOK
<1>3. /\ screen' \in Screen /\ screen'.form = screen.form
      /\ screen'.loading = screen.loading /\ screen'.failed = screen.failed
  <2>1. CASE OnScreen(s)
    <3>1. PICK c \in BOOLEAN :
             screen' = [screen EXCEPT !.saving = FALSE, !.conflict = c]
      BY <1>2, <2>1 DEF EndSave, Screen
    <3>2. QED
      BY <1>2, <3>1 DEF Screen
  <2>2. CASE ~OnScreen(s)
    BY <1>2, <2>2 DEF EndSave
  <2>3. QED
    BY <2>1, <2>2
<1>4. QED
  BY <1>1, <1>2, <1>3, DoneSafe, SaveStepKeeps

LEMMA FinishSaveKeeps ==
  ASSUME IInv, NEW s \in Saves, FinishSave(s)
  PROVE  IInv'
<1> DEFINE h   == Append(Front(history), saves[s].id)
           scr == IF OnScreen(s) THEN [screen EXCEPT !.saving = FALSE] ELSE screen
<1>1. /\ saves[s].at = "refreshing" /\ saves' = [saves EXCEPT ![s] = Done]
      /\ Show(h, scr, Reloads(s)) /\ record' = record
      /\ texts' = texts /\ unsure' = unsure
  BY DEF FinishSave
<1>2. /\ screen \in Screen /\ history \in Histories /\ texts \in Nat
      /\ unsure \subseteq Nat /\ saves \in [Saves -> Save]
  BY DEF IInv, TypeOK, Histories
<1>3. saves[s].id \in Locations
  BY <1>1 DEF IInv, SaveInv, Locations
<1>4. h \in Histories
  BY <1>2, <1>3, FrontTyped, AppendTyped
<1>5. /\ scr \in Screen /\ scr.form = screen.form
      /\ scr.loading = screen.loading /\ scr.failed = screen.failed
  BY <1>2 DEF Screen
<1>6. Reloads(s) \in BOOLEAN
  BY DEF Reloads
<1>7. TypeOK /\ FormShowsItsRole /\ FormCopy /\ AnswerCopy
  BY DEF IInv
<1> HIDE DEF h, scr
<1>8. /\ history' \in Histories /\ screen' \in Screen /\ gets' \subseteq Get
      /\ \A g, k \in gets' : g.active /\ k.active => g = k
      /\ \A g \in gets' : g.active => g.role = Here'
      /\ FormShowsItsRole' /\ FormCopy' /\ AnswerCopy'
  BY <1>1, <1>4, <1>5, <1>6, <1>7, ShowKeeps
<1>9. saves' \in [Saves -> Save]
  BY <1>1, <1>2, DoneSafe
<1>10. TypeOK'
  BY <1>1, <1>2, <1>7, <1>8, <1>9 DEF TypeOK, Histories
<1>11. SaveCopy' /\ SaveInv'
  BY <1>1, <1>2, DoneSafe DEF IInv, SaveCopy, SaveInv, CopyOf
<1>12. QED
  BY <1>8, <1>10, <1>11 DEF IInv

LEMMA SignOutKeeps ==
  ASSUME IInv, NEW s \in Saves, SignOut(s)
  PROVE  IInv'
<1> DEFINE h == Append(Front(history), Elsewhere)
<1>1. /\ saves' = [saves EXCEPT ![s] = Done]
      /\ Show(h, screen, FALSE) /\ record' = record
      /\ texts' = texts /\ unsure' = unsure
  BY DEF SignOut
<1>2. /\ screen \in Screen /\ history \in Histories /\ texts \in Nat
      /\ unsure \subseteq Nat /\ saves \in [Saves -> Save]
  BY DEF IInv, TypeOK, Histories
<1>3. h \in Histories
  BY <1>2, FrontTyped, AppendTyped DEF Locations
<1>4. TypeOK /\ FormShowsItsRole /\ FormCopy /\ AnswerCopy
  BY DEF IInv
<1> HIDE DEF h
<1>5. /\ history' \in Histories /\ screen' \in Screen /\ gets' \subseteq Get
      /\ \A g, k \in gets' : g.active /\ k.active => g = k
      /\ \A g \in gets' : g.active => g.role = Here'
      /\ FormShowsItsRole' /\ FormCopy' /\ AnswerCopy'
  BY <1>1, <1>2, <1>3, <1>4, ShowKeeps
<1>6. saves' \in [Saves -> Save]
  BY <1>1, <1>2, DoneSafe
<1>7. TypeOK'
  BY <1>1, <1>2, <1>4, <1>5, <1>6 DEF TypeOK, Histories
<1>8. SaveCopy' /\ SaveInv'
  BY <1>1, <1>2, DoneSafe DEF IInv, SaveCopy, SaveInv, CopyOf
<1>9. QED
  BY <1>5, <1>7, <1>8 DEF IInv

LEMMA ProceedKeeps ==
  ASSUME IInv, NEW s \in Saves, Proceed(s)
  PROVE  IInv'
<1>1. ASSUME NEW x \in Roles, ServePost(s, x) PROVE IInv'
  BY <1>1, ServePostKeeps
<1>2. CASE RefuseSave(s)
  BY <1>2, BecomeKeeps DEF RefuseSave, IInv, TypeOK
<1>3. CASE LoseSave(s)
  <2>1. unsure' \subseteq Nat
    BY <1>3 DEF LoseSave, IInv, TypeOK, Save
  <2>2. QED
    BY <1>3, <2>1, BecomeKeeps DEF LoseSave
<1>4. CASE Saved(s)
  BY <1>4, BecomeKeeps DEF Saved, IInv, TypeOK
<1>5. QED
  BY <1>1, <1>2, <1>3, <1>4, ServePatchKeeps, EndSaveKeeps, FinishSaveKeeps,
     SignOutKeeps DEF Proceed

LEMMA StepKeeps ==
  ASSUME IInv, [Next]_vars
  PROVE  IInv'
<1>1. ASSUME NEW g \in gets, Answer(g) PROVE IInv'
  BY <1>1, ServeGetKeeps, ReceiveKeeps, FailGetKeeps DEF Answer
<1>2. ASSUME NEW s \in Saves, Submit(s) \/ Proceed(s) PROVE IInv'
  BY <1>2, SubmitKeeps, ProceedKeeps
<1>3. ASSUME NEW loc \in Locations, Follow(loc) PROVE IInv'
  BY <1>3, FollowKeeps
<1>4. CASE Back \/ Type \/ Reload
  BY <1>4, BackKeeps, TypeKeeps, ReloadKeeps
<1>5. ASSUME NEW x \in Roles, OtherSave(x) PROVE IInv'
  BY <1>5, OtherSaveKeeps
<1>6. CASE UNCHANGED vars
  BY <1>6 DEF vars, IInv, TypeOK, FormShowsItsRole, Visible, Here, FormCopy,
              AnswerCopy, SaveCopy, SaveInv, CopyOf
<1>7. QED
  BY <1>1, <1>2, <1>3, <1>4, <1>5, <1>6 DEF Next

LEMMA Invariance == Spec => []IInv
<1>1. IInv /\ [Next]_vars => IInv'
  BY StepKeeps
<1>2. QED
  BY <1>1, InitIInv, PTL DEF Spec
-----------------------------------------------------------------------------
(* Every variable keeps its type, and the form's instance awaits at most   *)
(* one answer, about the role it is to show.                               *)
THEOREM ScreenTyped == Spec => []TypeOK
<1>1. IInv => TypeOK
  BY DEF IInv
<1>2. QED
  BY <1>1, Invariance, PTL

(* useResource never lets the form of one role show another, though React  *)
(* keeps the instance when the role changes.                               *)
THEOREM FormOfItsRole == Spec => []FormShowsItsRole
<1>1. IInv => FormShowsItsRole
  BY DEF IInv
<1>2. QED
  BY <1>1, Invariance, PTL

(* A save that is accepted replaces what the form was filled from: its     *)
(* version is the role's, so its copy of the text is too.                  *)
THEOREM NothingOverwritten == Spec => NoLostUpdate
<1>1. ASSUME IInv, [Next]_vars, NEW s \in Saves, saves[s].of \in Roles,
             saves[s].at = "sent", saves'[s].at = "saved"
      PROVE  record[saves[s].of].text = saves[s].form.base
  <2>1. saves \in [Saves -> Save]
    BY <1>1 DEF IInv, TypeOK
  <2>2. saves' # saves
    BY <1>1
  <2>3. ASSUME NEW r \in Saves, NEW v, saves' = [saves EXCEPT ![r] = v], v.at # "saved"
        PROVE  FALSE
    BY <1>1, <2>1, <2>3
  <2>4. ASSUME NEW r \in Saves, NEW at, Become(r, at), at # "saved" PROVE FALSE
    BY <1>1, <2>1, <2>4 DEF Become, Save
  <2>5. PICK r \in Saves : Submit(r) \/ Proceed(r)
    BY <1>1, <2>2 DEF Next, vars, Follow, Back, Type, Reload, Answer, ServeGet, Receive,
                      FailGet, OtherSave
  <2>6. ~Submit(r)
    BY <2>3 DEF Submit
  <2>7. ~RefuseSave(r) /\ ~LoseSave(r) /\ ~Saved(r)
    BY <2>4 DEF RefuseSave, LoseSave, Saved
  <2>8. ~EndSave(r) /\ ~FinishSave(r) /\ ~SignOut(r)
    BY <2>3, DoneSafe DEF EndSave, FinishSave, SignOut
  <2>9. ~\E x \in Roles : ServePost(r, x)
    BY <1>1, <2>1, Distinct DEF ServePost, Save
  <2>10. ServePatch(r)
    BY <2>5, <2>6, <2>7, <2>8, <2>9 DEF Proceed
  <2>11. VersionMatches(r)
    BY <2>4, <2>10 DEF ServePatch
  <2>12. r = s
    BY <1>1, <2>1, <2>10, <2>11 DEF ServePatch, Save
  <2>13. saves[s].form.role = saves[s].of
    BY <1>1 DEF IInv, SaveInv
  <2>14. CopyOf(saves[s].form.role, saves[s].form.version, saves[s].form.base)
    BY <1>1 DEF IInv, SaveCopy
  <2>15. QED
    BY <1>1, <2>11, <2>12, <2>13, <2>14 DEF VersionMatches, CopyOf
<1>2. IInv /\ [Next]_vars =>
        [\A s \in Saves :
            LET x == saves[s].of IN
            x \in Roles /\ saves[s].at = "sent" /\ saves'[s].at = "saved" =>
               record[x].text = saves[s].form.base]_vars
  BY <1>1
<1>3. QED
  BY <1>2, Invariance, PTL DEF Spec, NoLostUpdate
-----------------------------------------------------------------------------
(***************************************************************************)
(* Why a conflict is always somebody else's.  A form whose instance wrote  *)
(* the role last either shows the version it wrote, or has yet to load it, *)
(* and cannot be saved while the save that wrote it is under way.          *)
(***************************************************************************)
Under(s) == saves[s].at \in {"sent", "saved", "conflict", "refused", "refreshing"}

(* An instance has one save under way, and then its button is disabled. *)
OneSave ==
    /\ Here # Elsewhere => screen.mount > 0
    /\ \A s \in Saves : Under(s) => 0 < saves[s].mount /\ saves[s].mount <= screen.mount
    /\ \A s, t \in Saves :
          Under(s) /\ Under(t) /\ saves[s].mount = saves[t].mount => s = t
    /\ \A s \in Saves : Under(s) /\ OnScreen(s) => screen.saving

(* What the tab goes to, or may go back to, exists. *)
Exists(x) == x \in Roles => record[x].version > 0
Existing ==
    /\ \A i \in 1 .. Len(history) : Exists(history[i])
    /\ \A s \in Saves : Under(s) => Exists(saves[s].of) /\ Exists(saves[s].id)

(* No instance wrote a role before it was there. *)
Stamps == \A x \in Roles : record[x].by <= screen.mount

(* Instance m wrote x last, and knows so. *)
Own(x, m) == x \in Roles /\ m \notin unsure /\ record[x].by = m

Current ==
    /\ \A g \in gets : g.active /\ g.answered => g.answer.version = record[Here].version
    /\ Visible => screen.form.version = record[Here].version

Reloading(s) ==
    /\ saves[s].at \in {"saved", "refreshing"}
    /\ saves[s].mount = screen.mount /\ saves[s].of = Here

ScreenKnows ==
    Own(Here, screen.mount) => (\E s \in Saves : Reloading(s)) \/ Current

SentKnows ==
    \A s \in Saves :
        saves[s].at = "sent" /\ Own(saves[s].of, saves[s].mount) => VersionMatches(s)

KnowInv == IInv /\ OneSave /\ Existing /\ Stamps /\ ScreenKnows /\ SentKnows
-----------------------------------------------------------------------------
LEMMA HereExists ==
  ASSUME KnowInv
  PROVE  Exists(Here)
<1>1. history \in Seq(Locations) /\ history # <<>>
  BY DEF KnowInv, IInv, TypeOK
<1>2. Len(history) \in 1 .. Len(history) /\ Here = history[Len(history)]
  BY <1>1 DEF Here, Last
<1>3. QED
  BY <1>2 DEF KnowInv, Existing

LEMMA KnowTyped ==
  ASSUME KnowInv
  PROVE  /\ screen \in Screen /\ screen.mount \in Nat /\ screen.form.version \in Nat
         /\ record \in [Roles -> Record]
         /\ \A x \in Roles : record[x].version \in Nat /\ record[x].by \in Nat
         /\ saves \in [Saves -> Save]
         /\ \A s \in Saves : saves[s].mount \in Nat /\ saves[s].form.version \in Nat
         /\ gets \subseteq Get /\ unsure \subseteq Nat
         /\ \A g \in gets : g.answer.version \in Nat
  BY DEF KnowInv, IInv, TypeOK, Screen, Form, Record, Save, Get

LEMMA DoneNotUnder ==
  ASSUME NEW s \in Saves, saves'[s] = Done
  PROVE  ~Under(s)' /\ saves'[s].at \notin {"sent", "saved", "refreshing"}
  BY DoneSafe DEF Under

(* What the tab shows next is the old form, or is loaded anew; and the     *)
(* instance is the old one unless the tab was elsewhere.                   *)
LEMMA ShowLoads ==
  ASSUME TypeOK, NEW h \in Histories, NEW reload \in BOOLEAN, NEW scr \in Screen,
         scr.mount = screen.mount, Show(h, scr, reload)
  PROVE  /\ history' = h /\ Here' = Last(h)
         /\ Here = Elsewhere /\ Here' # Elsewhere =>
               screen'.mount = screen.mount + 1 /\ ~screen'.saving
         /\ Here' = Elsewhere => screen'.mount = screen.mount
         /\ Here # Elsewhere /\ Here' # Elsewhere =>
               screen'.mount = screen.mount /\ screen'.saving = scr.saving
         /\ Here' \in Roles =>
               \/ /\ screen'.loading
                  /\ \A g \in gets' : g.active => ~g.answered
               \/ /\ Here' = Here /\ ~reload
                  /\ screen' = scr /\ gets' = gets
<1> DEFINE loc == Last(h)
<1>1. loc \in Locations /\ history' = h /\ Here' = loc
  BY HereTyped DEF Show, Here
<1>2. \A g \in Cleanup(gets) : ~g.active
  BY DEF Cleanup, TypeOK, Get
<1>3. screen.mount \in Nat
  BY DEF TypeOK, Screen
<1>4. \A n \in Nat : /\ Mounted(n) \in Screen
                     /\ Mounted(n).mount = n /\ ~Mounted(n).saving
  BY MountedTyped DEF Mounted
<1>5. \A x \in Roles : ~GetRole(x).answered
  BY DEF GetRole
<1>6. ASSUME NEW src \in Screen, Load(src, loc)
      PROVE  /\ screen'.mount = src.mount /\ screen'.saving = src.saving
             /\ loc \in Roles =>
                   /\ screen'.loading
                   /\ \A g \in gets' : g.active => ~g.answered
  BY <1>2, <1>5, <1>6, Distinct DEF Load, Screen
<1>7. CASE loc = Elsewhere
  BY <1>1, <1>3, <1>4, <1>7, Distinct DEF Show
<1>8. CASE loc # Elsewhere /\ Here = Elsewhere
  BY <1>1, <1>3, <1>4, <1>6, <1>8 DEF Show
<1>9. CASE loc # Elsewhere /\ Here # Elsewhere /\ (loc # Here \/ reload)
  BY <1>1, <1>6, <1>9 DEF Show
<1>10. CASE loc # Elsewhere /\ Here # Elsewhere /\ loc = Here /\ ~reload
  BY <1>1, <1>10 DEF Show
<1>11. QED
  BY <1>7, <1>8, <1>9, <1>10

(* A step that goes to another location, or loads the form again: a save   *)
(* that ends with it and wrote the role that is shown next loads it again. *)
LEMMA ShowKnows ==
  ASSUME KnowInv, IInv', NEW h \in Histories, NEW reload \in BOOLEAN, NEW scr \in Screen,
         scr.mount = screen.mount, scr.form = screen.form,
         scr.loading = screen.loading, scr.failed = screen.failed,
         Show(h, scr, reload), record' = record, unsure' = unsure,
         \A i \in 1 .. Len(h) : Exists(h[i]),
         \A s \in Saves : saves'[s] = saves[s] \/ saves'[s] = Done,
         scr.saving = screen.saving \/ \A s \in Saves : Under(s)' => ~OnScreen(s),
         \A s \in Saves : Reloading(s) /\ Here' = Here /\ saves'[s] # saves[s] => reload
  PROVE  KnowInv'
<1>1. /\ history' = h /\ Here' = Last(h)
      /\ Here = Elsewhere /\ Here' # Elsewhere =>
            screen'.mount = screen.mount + 1 /\ ~screen'.saving
      /\ Here' = Elsewhere => screen'.mount = screen.mount
      /\ Here # Elsewhere /\ Here' # Elsewhere =>
            screen'.mount = screen.mount /\ screen'.saving = scr.saving
      /\ Here' \in Roles =>
            \/ screen'.loading /\ \A g \in gets' : g.active => ~g.answered
            \/ Here' = Here /\ ~reload /\ screen' = scr /\ gets' = gets
  BY ShowLoads DEF KnowInv, IInv
<1>2. /\ screen.mount \in Nat /\ \A x \in Roles : record[x].by \in Nat
      /\ \A s \in Saves : saves[s].mount \in Nat
  BY KnowTyped
<1>3. \A s \in Saves :
         /\ Under(s)' => Under(s) /\ saves'[s] = saves[s]
         /\ saves'[s].at \in {"sent", "saved", "refreshing"} => saves'[s] = saves[s]
  BY DoneNotUnder DEF Under
<1>4. screen'.mount >= screen.mount
  BY <1>1, <1>2
<1>5. OneSave'
  <2>1. Here' # Elsewhere => screen'.mount > 0
    BY <1>1, <1>2 DEF KnowInv, OneSave
  <2>2. \A s \in Saves : Under(s)' => 0 < saves'[s].mount /\ saves'[s].mount <= screen'.mount
    BY <1>1, <1>2, <1>3 DEF KnowInv, OneSave
  <2>3. \A s, t \in Saves :
           Under(s)' /\ Under(t)' /\ saves'[s].mount = saves'[t].mount => s = t
    BY <1>3 DEF KnowInv, OneSave
  <2>4. ASSUME NEW s \in Saves, Under(s)', OnScreen(s)' PROVE screen'.saving
    <3>1. Under(s) /\ saves'[s] = saves[s] /\ Here' # Elsewhere
          /\ saves[s].mount = screen'.mount
      BY <1>3, <2>4 DEF OnScreen
    <3>2. saves[s].mount <= screen.mount
      BY <3>1 DEF KnowInv, OneSave
    <3>3. Here # Elsewhere
      BY <1>1, <1>2, <3>1, <3>2
    <3>4. OnScreen(s) /\ screen'.saving = scr.saving
      BY <1>1, <3>1, <3>3 DEF OnScreen
    <3>5. QED
      BY <2>4, <3>1, <3>4 DEF KnowInv, OneSave
  <2>5. QED
    BY <2>1, <2>2, <2>3, <2>4 DEF OneSave
<1>6. Existing'
  BY <1>1, <1>3 DEF KnowInv, Existing, Exists
<1>7. Stamps'
  BY <1>1, <1>2, <1>4 DEF KnowInv, Stamps
<1>8. SentKnows'
  BY <1>3 DEF KnowInv, SentKnows, Own, VersionMatches
<1>9. ScreenKnows'
  <2> SUFFICES ASSUME Own(Here, screen.mount)'
               PROVE  (\E s \in Saves : Reloading(s)') \/ Current'
    BY DEF ScreenKnows
  <2>1. Here' \in Roles
    BY DEF Own
  <2>2. CASE screen'.loading /\ \A g \in gets' : g.active => ~g.answered
    BY <2>1, <2>2, Distinct DEF Current, Visible
  <2>3. CASE Here' = Here /\ ~reload /\ screen' = scr /\ gets' = gets
    <3>1. Own(Here, screen.mount)
      BY <2>1, <2>3 DEF Own
    <3>2. CASE \E s \in Saves : Reloading(s)
      <4>1. PICK s \in Saves : Reloading(s)
        BY <3>2
      <4>2. saves'[s] = saves[s]
        BY <2>3, <4>1
      <4>3. QED
        BY <2>3, <4>1, <4>2 DEF Reloading
    <3>3. CASE Current
      BY <2>3, <3>3 DEF Current, Visible
    <3>4. QED
      BY <3>1, <3>2, <3>3 DEF KnowInv, ScreenKnows
  <2>4. QED
    BY <1>1, <2>1, <2>2, <2>3
<1>10. QED
  BY <1>5, <1>6, <1>7, <1>8, <1>9 DEF KnowInv

(* A step that stays where it is, writes nothing and sends nothing.        *)
LEMMA StayKnows ==
  ASSUME KnowInv, IInv', record' = record, history' = history, saves' = saves,
         unsure' = unsure, screen'.mount = screen.mount, screen'.saving = screen.saving,
         Here \in Roles /\ Current => Current'
  PROVE  KnowInv'
<1>1. Here' = Here
  BY DEF Here
<1>2. OneSave' /\ Existing' /\ Stamps' /\ SentKnows'
  BY <1>1 DEF KnowInv, OneSave, Under, OnScreen, Existing, Exists, Stamps, SentKnows, Own,
              VersionMatches
<1>3. ScreenKnows'
  BY <1>1 DEF KnowInv, ScreenKnows, Own, Reloading
<1>4. QED
  BY <1>2, <1>3 DEF KnowInv

(* One save goes on or ends, and nothing is written.                       *)
LEMMA GoOnKnows ==
  ASSUME KnowInv, IInv', NEW s \in Saves, NEW v \in Save, Under(s),
         saves' = [saves EXCEPT ![s] = v], v.at # "sent",
         v = Done \/ (v.mount = saves[s].mount /\ v.of = saves[s].of /\ v.id = saves[s].id),
         saves[s].at \in {"saved", "refreshing"} =>
            v.at \in {"saved", "refreshing"} \/ saves[s].mount \in unsure',
         record' = record, history' = history, gets' = gets, unsure \subseteq unsure',
         screen'.mount = screen.mount, screen'.form = screen.form,
         screen'.loading = screen.loading, screen'.failed = screen.failed,
         screen'.saving = screen.saving \/ (v = Done /\ OnScreen(s))
  PROVE  KnowInv'
<1>1. Here' = Here
  BY DEF Here
<1>2. /\ saves \in [Saves -> Save] /\ saves'[s] = v
      /\ \A t \in Saves : t # s => saves'[t] = saves[t]
  BY KnowTyped
<1>3. \A t \in Saves : Under(t)' =>
         Under(t) /\ saves'[t].mount = saves[t].mount /\ saves'[t].of = saves[t].of
         /\ saves'[t].id = saves[t].id
  <2>1. ASSUME Under(s)' PROVE v # Done
    BY <1>2, <2>1, DoneNotUnder
  <2>2. QED
    BY <1>2, <2>1 DEF Under
<1>4. OneSave'
  <2>1. ASSUME NEW t \in Saves, Under(t)', OnScreen(t)' PROVE screen'.saving
    <3>1. Under(t) /\ OnScreen(t)
      BY <1>1, <1>3, <2>1 DEF OnScreen
    <3>2. screen.saving
      BY <3>1 DEF KnowInv, OneSave
    <3>3. CASE v = Done /\ OnScreen(s)
      <4>1. t # s
        BY <1>2, <2>1, <3>3, DoneNotUnder
      <4>2. t = s
        BY <3>1, <3>3 DEF KnowInv, OneSave, OnScreen
      <4>3. QED
        BY <4>1, <4>2
    <3>4. QED
      BY <3>2, <3>3
  <2>2. QED
    BY <1>1, <1>3, <2>1 DEF KnowInv, OneSave
<1>5. Existing' /\ Stamps'
  BY <1>3 DEF KnowInv, Existing, Exists, Stamps
<1>6. SentKnows'
  BY <1>2 DEF KnowInv, SentKnows, Own, VersionMatches
<1>7. ScreenKnows'
  <2> SUFFICES ASSUME Own(Here, screen.mount)'
               PROVE  (\E t \in Saves : Reloading(t)') \/ Current'
    BY DEF ScreenKnows
  <2>1. Own(Here, screen.mount) /\ screen.mount \notin unsure'
    BY <1>1 DEF Own
  <2>2. CASE \E t \in Saves : Reloading(t)
    <3>1. PICK t \in Saves : Reloading(t)
      BY <2>2
    <3>2. CASE t # s
      BY <1>1, <1>2, <3>1, <3>2 DEF Reloading
    <3>3. CASE t = s
      <4>1. v.at \in {"saved", "refreshing"}
        BY <2>1, <3>1, <3>3 DEF Reloading
      <4>2. v # Done
        BY <4>1, DoneSafe
      <4>3. QED
        BY <1>1, <1>2, <3>1, <3>3, <4>1, <4>2 DEF Reloading
    <3>4. QED
      BY <3>2, <3>3
  <2>3. CASE Current
    BY <1>1, <2>3 DEF Current, Visible
  <2>4. QED
    BY <2>1, <2>2, <2>3 DEF KnowInv, ScreenKnows
<1>8. QED
  BY <1>4, <1>5, <1>6, <1>7 DEF KnowInv
-----------------------------------------------------------------------------
LEMMA InitKnows == Init => KnowInv
<1> SUFFICES ASSUME Init PROVE KnowInv
  OBVIOUS
<1>1. IInv
  BY InitIInv
<1>2. Here = Elsewhere /\ Len(history) = 1 /\ history[1] = Elsewhere
  BY DEF Init, Here, Last
<1>3. \A s \in Saves : saves[s].at = "idle"
  BY DEF Init, Idle
<1>4. screen.mount = 0 /\ \A x \in Roles : record[x].by = 0
  BY DEF Init, Mounted, NoRecord
<1>5. OneSave /\ SentKnows
  BY <1>2, <1>3 DEF OneSave, Under, SentKnows
<1>6. Existing /\ Stamps /\ ScreenKnows
  BY <1>2, <1>3, <1>4, Distinct DEF Existing, Exists, Under, Stamps, ScreenKnows, Own
<1>7. QED
  BY <1>1, <1>5, <1>6 DEF KnowInv

LEMMA FollowKnows ==
  ASSUME KnowInv, NEW loc \in Locations, Follow(loc)
  PROVE  KnowInv'
<1> DEFINE h == Append(history, loc)
<1>1. IInv /\ TypeOK
  BY DEF KnowInv, IInv
<1>2. /\ Show(h, screen, FALSE) /\ record' = record /\ saves' = saves /\ unsure' = unsure
      /\ Exists(loc)
  BY DEF Follow, Exists
<1>3. history \in Seq(Locations) /\ screen \in Screen
  BY <1>1 DEF TypeOK
<1>4. h \in Histories
  BY <1>3, AppendTyped
<1>5. \A i \in 1 .. Len(h) : Exists(h[i])
  <2>1. \A i \in 1 .. Len(h) : h[i] = loc \/ (i \in 1 .. Len(history) /\ h[i] = history[i])
    BY <1>3
  <2>2. QED
    BY <1>2, <2>1 DEF KnowInv, Existing
<1> HIDE DEF h
<1>6. IInv'
  BY <1>1, FollowKeeps
<1>7. QED
  BY <1>2, <1>3, <1>4, <1>5, <1>6, ShowKnows

(* Going back leads to what was there before. *)
LEMMA FrontExists ==
  ASSUME KnowInv
  PROVE  \A i \in 1 .. Len(Front(history)) : Exists(Front(history)[i])
<1>1. history \in Histories
  BY DEF KnowInv, IInv, TypeOK, Histories
<1>2. QED
  BY <1>1, FrontTyped DEF KnowInv, Existing

LEMMA BackKnows ==
  ASSUME KnowInv, Back
  PROVE  KnowInv'
<1>1. IInv /\ TypeOK
  BY DEF KnowInv, IInv
<1>2. /\ history \in Histories /\ Len(history) > 1 /\ screen \in Screen
  BY <1>1 DEF TypeOK, Histories, Back
<1>3. Front(history) \in Histories
  BY <1>2, FrontTyped
<1>4. /\ Show(Front(history), screen, FALSE)
      /\ record' = record /\ saves' = saves /\ unsure' = unsure
  BY DEF Back
<1>5. IInv'
  BY <1>1, BackKeeps
<1>6. QED
  BY <1>2, <1>3, <1>4, <1>5, FrontExists, ShowKnows

LEMMA ReloadKnows ==
  ASSUME KnowInv, Reload
  PROVE  KnowInv'
<1>1. /\ Load(screen, Here) /\ Here # Elsewhere
      /\ record' = record /\ history' = history
      /\ saves' = saves /\ unsure' = unsure
  BY Distinct DEF Reload, Visible
<1>2. history \in Histories /\ screen \in Screen /\ IInv
  BY DEF KnowInv, IInv, TypeOK, Histories
<1>3. Show(history, screen, TRUE)
  BY <1>1 DEF Show, Here
<1>4. \A i \in 1 .. Len(history) : Exists(history[i])
  BY DEF KnowInv, Existing
<1>5. IInv'
  BY <1>2, ReloadKeeps
<1>6. QED
  BY <1>1, <1>2, <1>3, <1>4, <1>5, ShowKnows
-----------------------------------------------------------------------------
LEMMA AnswerKnows ==
  ASSUME KnowInv, NEW g \in gets, Answer(g)
  PROVE  KnowInv'
<1>1. IInv /\ g \in Get /\ screen \in Screen /\ gets \subseteq Get
  BY DEF KnowInv, IInv, TypeOK
<1>2. IInv'
  BY <1>1, ServeGetKeeps, ReceiveKeeps, FailGetKeeps DEF Answer
<1>3. /\ record' = record /\ history' = history /\ saves' = saves /\ unsure' = unsure
      /\ Here' = Here
  BY DEF Answer, ServeGet, Receive, FailGet, Here
<1>4. \A k \in gets : k.active => k.role = Here
  BY <1>1 DEF IInv, TypeOK
<1>5. CASE ServeGet(g)
  <2> DEFINE k == [g EXCEPT !.answered = TRUE, !.answer = record[g.role]]
  <2>1. gets' = (gets \ {g}) \cup {k} /\ screen' = screen
    BY <1>5 DEF ServeGet
  <2>2. k.active = g.active /\ k.answer = record[g.role]
    BY <1>1 DEF Get
  <2> HIDE DEF k
  <2>3. Here \in Roles /\ Current => Current'
    BY <1>3, <1>4, <2>1, <2>2 DEF Current, Visible
  <2>4. QED
    BY <1>2, <1>3, <2>1, <2>3, StayKnows
<1>6. CASE Receive(g)
  <2>1. gets' = gets \ {g} /\ g.answered
    BY <1>6 DEF Receive
  <2>2. CASE g.active
    <3> DEFINE f == [role |-> g.role, version |-> g.answer.version,
                     base |-> g.answer.text, text |-> g.answer.text]
    <3>1. screen' = [screen EXCEPT !.loading = FALSE, !.dirty = FALSE, !.form = f]
      BY <1>6, <2>2 DEF Receive, Expected
    <3>2. /\ screen'.form = f /\ screen'.mount = screen.mount
          /\ screen'.saving = screen.saving
      BY <1>1, <3>1 DEF Screen
    <3>3. f.version = g.answer.version
      OBVIOUS
    <3>4. Here \in Roles /\ Current => Current'
      BY <1>3, <2>1, <2>2, <3>2, <3>3 DEF Current
    <3>5. QED
      BY <1>2, <1>3, <3>2, <3>4, StayKnows
  <2>3. CASE ~g.active
    <3>1. screen' = screen
      BY <1>6, <2>3 DEF Receive, Expected
    <3>2. Here \in Roles /\ Current => Current'
      BY <1>3, <2>1, <3>1 DEF Current, Visible
    <3>3. QED
      BY <1>2, <1>3, <3>1, <3>2, StayKnows
  <2>4. QED
    BY <2>2, <2>3
<1>7. CASE FailGet(g)
  <2>1. gets' = gets \ {g} /\ screen' \in {screen, ShowError(screen)}
    BY <1>7 DEF FailGet
  <2>2. /\ screen'.mount = screen.mount /\ screen'.saving = screen.saving
        /\ screen'.form = screen.form
        /\ screen' = screen \/ screen'.failed
    BY <1>1, <2>1 DEF ShowError, Screen
  <2>3. Here \in Roles /\ Current => Current'
    BY <1>3, <2>1, <2>2, Distinct DEF Current, Visible
  <2>4. QED
    BY <1>2, <1>3, <2>2, <2>3, StayKnows
<1>8. QED
  BY <1>5, <1>6, <1>7 DEF Answer

LEMMA TypeKnows ==
  ASSUME KnowInv, Type
  PROVE  KnowInv'
<1>1. IInv /\ screen \in Screen /\ texts \in Nat
  BY DEF KnowInv, IInv, TypeOK
<1>2. IInv'
  BY <1>1, TypeKeeps
<1>3. /\ screen' = [screen EXCEPT !.form.text = texts + 1, !.dirty = TRUE]
      /\ record' = record /\ history' = history /\ gets' = gets
      /\ saves' = saves /\ unsure' = unsure
  BY DEF Type
<1>4. /\ screen'.form.version = screen.form.version
      /\ screen'.mount = screen.mount /\ screen'.saving = screen.saving
      /\ screen'.loading = screen.loading /\ screen'.failed = screen.failed
  BY <1>1, <1>3 DEF Screen, Form
<1>5. Here' = Here
  BY <1>3 DEF Here
<1>6. Here \in Roles /\ Current => Current'
  BY <1>3, <1>4, <1>5 DEF Current, Visible
<1>7. QED
  BY <1>2, <1>3, <1>4, <1>6, StayKnows

(* A form that is saved has no save under way; if its instance wrote the   *)
(* role last, it shows the version it wrote.                               *)
LEMMA SubmitKnows ==
  ASSUME KnowInv, NEW s \in Saves, Submit(s)
  PROVE  KnowInv'
<1> DEFINE v == [at |-> "sent", mount |-> screen.mount, of |-> Here,
                 form |-> screen.form, id |-> None]
<1>1. /\ saves' = [saves EXCEPT ![s] = v] /\ Visible /\ ~screen.saving
      /\ saves[s].at = "idle"
      /\ screen' = [screen EXCEPT !.saving = TRUE, !.conflict = FALSE]
      /\ record' = record /\ history' = history /\ gets' = gets /\ unsure' = unsure
  BY DEF Submit, Busy
<1>2. /\ screen \in Screen /\ saves \in [Saves -> Save] /\ screen.mount \in Nat
  BY KnowTyped
<1>3. IInv'
  BY SubmitKeeps DEF KnowInv
<1>4. /\ v.at = "sent" /\ v.mount = screen.mount /\ v.of = Here
      /\ v.form = screen.form /\ v.id = None
  OBVIOUS
<1> HIDE DEF v
<1>5. saves'[s] = v /\ \A t \in Saves : t # s => saves'[t] = saves[t]
  BY <1>1, <1>2
<1>6. /\ screen'.mount = screen.mount /\ screen'.saving /\ screen'.form = screen.form
      /\ screen'.loading = screen.loading /\ screen'.failed = screen.failed
  BY <1>1, <1>2 DEF Screen
<1>7. Here' = Here /\ Here # Elsewhere
  BY <1>1, Distinct DEF Here, Visible
<1>8. \A t \in Saves : Under(t) => saves[t].mount # screen.mount
  BY <1>1, <1>7 DEF KnowInv, OneSave, OnScreen
<1>9. \A t \in Saves : t # s => (Under(t)' <=> Under(t))
  BY <1>5 DEF Under
<1>10. OneSave'
  <2>1. Here' # Elsewhere => screen'.mount > 0
    BY <1>6, <1>7 DEF KnowInv, OneSave
  <2>2. \A t \in Saves : Under(t)' => 0 < saves'[t].mount /\ saves'[t].mount <= screen'.mount
    BY <1>2, <1>4, <1>5, <1>6, <1>7, <1>9 DEF KnowInv, OneSave
  <2>3. \A t, u \in Saves :
           Under(t)' /\ Under(u)' /\ saves'[t].mount = saves'[u].mount => t = u
    BY <1>4, <1>5, <1>8, <1>9 DEF KnowInv, OneSave
  <2>4. QED
    BY <1>6, <2>1, <2>2, <2>3 DEF OneSave
<1>11. Existing'
  <2>1. Exists(Here) /\ Exists(None)
    BY HereExists, Distinct DEF Exists
  <2>2. QED
    BY <1>1, <1>4, <1>5, <1>9, <2>1 DEF KnowInv, Existing, Exists
<1>12. Stamps'
  BY <1>1, <1>6 DEF KnowInv, Stamps
<1>13. SentKnows'
  <2>1. ASSUME Own(Here, screen.mount) PROVE screen.form.version = record[Here].version
    <3>1. ~\E t \in Saves : Reloading(t)
      BY <1>8 DEF Reloading, Under
    <3>2. QED
      BY <1>1, <2>1, <3>1 DEF KnowInv, ScreenKnows, Current
  <2>2. QED
    BY <1>1, <1>4, <1>5, <2>1 DEF KnowInv, SentKnows, Own, VersionMatches
<1>14. ScreenKnows'
  <2>1. \A t \in Saves : Reloading(t) => Reloading(t)'
    BY <1>1, <1>5, <1>6, <1>7 DEF Reloading
  <2>2. Current => Current'
    BY <1>1, <1>6, <1>7 DEF Current, Visible
  <2>3. QED
    BY <1>1, <1>6, <1>7, <2>1, <2>2 DEF KnowInv, ScreenKnows, Own
<1>15. QED
  BY <1>3, <1>10, <1>11, <1>12, <1>13, <1>14 DEF KnowInv
-----------------------------------------------------------------------------
(* A save of this tab commits: it writes one role. *)
LEMMA WroteKnows ==
  ASSUME KnowInv, IInv', NEW s \in Saves, NEW x \in Roles, saves[s].at = "sent",
         saves'[s].at = "saved", saves'[s].mount = saves[s].mount,
         saves'[s].of = saves[s].of, saves'[s].id = x,
         \A t \in Saves : t # s => saves'[t] = saves[t],
         record'[x].by = saves[s].mount, record'[x].version = record[x].version + 1,
         \A y \in Roles : y # x => record'[y] = record[y],
         saves[s].of = x \/ record[x].version = 0,
         history' = history, screen' = screen, gets' = gets, unsure' = unsure
  PROVE  KnowInv'
<1>1. Here' = Here
  BY DEF Here
<1>2. /\ screen.mount \in Nat /\ record[x].version \in Nat
      /\ \A t \in Saves : saves[t].mount \in Nat
  BY KnowTyped
<1>3. \A t \in Saves :
         /\ Under(t)' <=> Under(t)
         /\ saves'[t].mount = saves[t].mount /\ saves'[t].of = saves[t].of
  BY DEF Under
<1>4. \A y : Exists(y) => Exists(y)'
  BY <1>2 DEF Exists
<1>5. OneSave'
  BY <1>1, <1>3 DEF KnowInv, OneSave, OnScreen
<1>6. Existing'
  <2>1. Exists(x)'
    BY <1>2 DEF Exists
  <2>2. QED
    BY <1>3, <1>4, <2>1 DEF KnowInv, Existing
<1>7. Stamps'
  <2>1. saves[s].mount <= screen.mount
    BY DEF KnowInv, OneSave, Under
  <2>2. QED
    BY <2>1 DEF KnowInv, Stamps
<1>8. SentKnows'
  <2> SUFFICES ASSUME NEW t \in Saves, saves'[t].at = "sent",
                      Own(saves[t].of, saves[t].mount)'
               PROVE  VersionMatches(t)'
    BY DEF SentKnows
  <2>1. t # s /\ saves'[t] = saves[t]
    OBVIOUS
  <2>2. CASE saves[t].of = x
    <3>1. Under(s) /\ Under(t)
      BY <2>1 DEF Under
    <3>2. saves[t].mount = saves[s].mount
      BY <2>1, <2>2 DEF Own
    <3>3. QED
      BY <2>1, <3>1, <3>2 DEF KnowInv, OneSave
  <2>3. CASE saves[t].of # x
    BY <2>1, <2>3 DEF KnowInv, SentKnows, Own, VersionMatches
  <2>4. QED
    BY <2>2, <2>3
<1>9. ScreenKnows'
  <2> SUFFICES ASSUME Own(Here, screen.mount)'
               PROVE  (\E t \in Saves : Reloading(t)') \/ Current'
    BY DEF ScreenKnows
  <2>1. CASE Here = x
    <3>1. saves[s].mount = screen.mount
      BY <1>1, <2>1 DEF Own
    <3>2. record[x].version > 0
      BY <2>1, HereExists DEF Exists
    <3>3. saves[s].of = x
      BY <3>2
    <3>4. Reloading(s)'
      BY <1>1, <2>1, <3>1, <3>3 DEF Reloading
    <3>5. QED
      BY <3>4
  <2>2. CASE Here # x
    <3>1. Own(Here, screen.mount) /\ record'[Here] = record[Here]
      BY <1>1, <2>2 DEF Own
    <3>2. \A t \in Saves : Reloading(t) => Reloading(t)'
      BY <1>1, <1>3 DEF Reloading
    <3>3. Current => Current'
      BY <1>1, <3>1 DEF Current, Visible
    <3>4. QED
      BY <3>1, <3>2, <3>3 DEF KnowInv, ScreenKnows
  <2>3. QED
    BY <2>1, <2>2
<1>10. QED
  BY <1>5, <1>6, <1>7, <1>8, <1>9 DEF KnowInv

(* The version a save writes is the one its instance then has to load:     *)
(* until it does, the save is under way.                                   *)
LEMMA ServePatchKnows ==
  ASSUME KnowInv, NEW s \in Saves, ServePatch(s)
  PROVE  KnowInv'
<1> DEFINE x   == saves[s].of
           new == [version |-> record[x].version + 1, text |-> saves[s].form.text,
                   by |-> saves[s].mount]
           v   == [saves[s] EXCEPT !.at = "saved", !.id = x]
<1>1. /\ saves[s].at = "sent" /\ x \in Roles
      /\ history' = history /\ screen' = screen /\ gets' = gets /\ unsure' = unsure
  BY DEF ServePatch
<1>2. /\ saves[s] \in Save /\ saves \in [Saves -> Save] /\ record \in [Roles -> Record]
      /\ IInv
  BY DEF KnowInv, IInv, TypeOK
<1>3. IInv'
  BY <1>2, ServePatchKeeps
<1>4. Under(s)
  BY <1>1 DEF Under
<1>5. CASE VersionMatches(s)
  <2>1. record' = [record EXCEPT ![x] = new] /\ saves' = [saves EXCEPT ![s] = v]
    BY <1>2, <1>5 DEF ServePatch
  <2>2. new.by = saves[s].mount /\ new.version = record[x].version + 1
    OBVIOUS
  <2>3. /\ v.at = "saved" /\ v.id = x /\ v.of = x /\ v.mount = saves[s].mount
    BY <1>2 DEF Save
  <2> HIDE DEF new, v
  <2>4. saves'[s] = v /\ \A t \in Saves : t # s => saves'[t] = saves[t]
    BY <1>2, <2>1
  <2>5. /\ record'[x] = new /\ \A y \in Roles : y # x => record'[y] = record[y]
        /\ Here' = Here
    BY <1>1, <1>2, <2>1 DEF Here
  <2>6. record[x].version \in Nat
    BY <1>1, <1>2 DEF Record
  <2>7. QED
    BY <1>1, <1>3, <1>4, <2>2, <2>3, <2>4, <2>5, <2>6, WroteKnows
<1>6. CASE ~VersionMatches(s)
  <2> DEFINE w == [saves[s] EXCEPT !.at = "conflict"]
  <2>1. record' = record /\ saves' = [saves EXCEPT ![s] = w]
    BY <1>2, <1>6 DEF ServePatch, Become
  <2>2. /\ w \in Save /\ w.at = "conflict" /\ w.mount = saves[s].mount
        /\ w.of = saves[s].of /\ w.id = saves[s].id
    BY <1>2 DEF Save, Phases
  <2> HIDE DEF w
  <2>3. QED
    BY <1>1, <1>3, <1>4, <2>1, <2>2, GoOnKnows
<1>7. QED
  BY <1>5, <1>6

LEMMA ServePostKnows ==
  ASSUME KnowInv, NEW s \in Saves, NEW x \in Roles, ServePost(s, x)
  PROVE  KnowInv'
<1> DEFINE new == [version |-> 1, text |-> saves[s].form.text, by |-> saves[s].mount]
           v   == [saves[s] EXCEPT !.at = "saved", !.id = x]
<1>1. /\ saves[s].at = "sent" /\ record[x].version = 0
      /\ history' = history /\ screen' = screen /\ gets' = gets /\ unsure' = unsure
  BY DEF ServePost
<1>2. /\ saves[s] \in Save /\ saves \in [Saves -> Save] /\ record \in [Roles -> Record]
      /\ IInv
  BY DEF KnowInv, IInv, TypeOK
<1>3. IInv'
  BY <1>2, ServePostKeeps
<1>4. record' = [record EXCEPT ![x] = new] /\ saves' = [saves EXCEPT ![s] = v]
  BY <1>2 DEF ServePost
<1>5. new.by = saves[s].mount /\ new.version = record[x].version + 1
  BY <1>1
<1>6. /\ v.at = "saved" /\ v.id = x /\ v.of = saves[s].of /\ v.mount = saves[s].mount
  BY <1>2 DEF Save
<1> HIDE DEF new, v
<1>7. saves'[s] = v /\ \A t \in Saves : t # s => saves'[t] = saves[t]
  BY <1>2, <1>4
<1>8. record'[x] = new /\ \A y \in Roles : y # x => record'[y] = record[y]
  BY <1>2, <1>4
<1>9. QED
  BY <1>1, <1>3, <1>5, <1>6, <1>7, <1>8, WroteKnows

(* Who saves elsewhere is no instance of this tab. *)
LEMMA OtherSaveKnows ==
  ASSUME KnowInv, NEW x \in Roles, OtherSave(x)
  PROVE  KnowInv'
<1> DEFINE new == [version |-> record[x].version + 1, text |-> texts + 1, by |-> 0]
<1>1. /\ record' = [record EXCEPT ![x] = new]
      /\ history' = history /\ screen' = screen /\ gets' = gets
      /\ saves' = saves /\ unsure' = unsure
  BY DEF OtherSave
<1>2. /\ record \in [Roles -> Record] /\ screen.mount \in Nat
      /\ record[x].version \in Nat
  BY KnowTyped
<1>3. IInv'
  BY OtherSaveKeeps DEF KnowInv
<1>4. /\ record'[x].by = 0 /\ record'[x].version = record[x].version + 1
      /\ \A y \in Roles : y # x => record'[y] = record[y]
      /\ Here' = Here
  BY <1>1, <1>2 DEF Here
<1>5. OneSave'
  BY <1>1, <1>4 DEF KnowInv, OneSave, Under, OnScreen
<1>6. \A y : Exists(y) => Exists(y)'
  BY <1>2, <1>4 DEF Exists
<1>7. Existing'
  BY <1>1, <1>6 DEF KnowInv, Existing, Under
<1>8. Stamps'
  BY <1>1, <1>2, <1>4 DEF KnowInv, Stamps
<1>9. \A y, m : Own(y, m)' /\ m # 0 => Own(y, m) /\ record'[y] = record[y]
  BY <1>1, <1>4 DEF Own
<1>10. SentKnows'
  <2>1. \A s \in Saves : saves[s].at = "sent" => saves[s].mount # 0
    BY DEF KnowInv, OneSave, Under
  <2>2. QED
    BY <1>1, <1>9, <2>1 DEF KnowInv, SentKnows, VersionMatches
<1>11. ScreenKnows'
  <2> SUFFICES ASSUME Own(Here, screen.mount)'
               PROVE  (\E s \in Saves : Reloading(s)') \/ Current'
    BY DEF ScreenKnows
  <2>1. Here # Elsewhere
    BY <1>4, Distinct DEF Own
  <2>2. screen.mount # 0
    BY <2>1 DEF KnowInv, OneSave
  <2>3. Own(Here, screen.mount) /\ record'[Here] = record[Here]
    BY <1>1, <1>4, <1>9, <2>2
  <2>4. QED
    BY <1>1, <1>4, <2>3 DEF KnowInv, ScreenKnows, Reloading, Current, Visible
<1>12. QED
  BY <1>3, <1>5, <1>7, <1>8, <1>10, <1>11 DEF KnowInv

LEMMA BecomeKnows ==
  ASSUME KnowInv, NEW s \in Saves, RefuseSave(s) \/ LoseSave(s) \/ Saved(s)
  PROVE  KnowInv'
<1>1. IInv /\ screen \in Screen /\ saves \in [Saves -> Save] /\ unsure \subseteq Nat
  BY DEF KnowInv, IInv, TypeOK
<1>2. IInv'
  <2>1. CASE RefuseSave(s)
    BY <1>1, <2>1, BecomeKeeps DEF RefuseSave, IInv, TypeOK
  <2>2. CASE LoseSave(s)
    <3>1. unsure' \subseteq Nat
      BY <1>1, <2>2 DEF LoseSave, Save
    <3>2. QED
      BY <1>1, <2>2, <3>1, BecomeKeeps DEF LoseSave
  <2>3. CASE Saved(s)
    BY <1>1, <2>3, BecomeKeeps DEF Saved, IInv, TypeOK
  <2>4. QED
    BY <2>1, <2>2, <2>3
<1>3. PICK at \in {"refused", "refreshing"} :
         /\ Become(s, at)
         /\ saves[s].at \in {"saved", "refreshing"} =>
               at = "refreshing" \/ saves[s].mount \in unsure'
  BY DEF RefuseSave, LoseSave, Saved
<1>4. /\ Under(s) /\ record' = record /\ history' = history /\ gets' = gets
      /\ unsure \subseteq unsure'
      /\ screen' \in {screen, [screen EXCEPT !.dirty = FALSE]}
  BY DEF RefuseSave, LoseSave, Saved, Under
<1> DEFINE v == [saves[s] EXCEPT !.at = at]
<1>5. saves' = [saves EXCEPT ![s] = v]
  BY <1>1, <1>3 DEF Become
<1>6. /\ v \in Save /\ v.at = at /\ v.mount = saves[s].mount
      /\ v.of = saves[s].of /\ v.id = saves[s].id
  BY <1>1 DEF Save, Phases
<1>7. /\ screen'.mount = screen.mount /\ screen'.form = screen.form
      /\ screen'.loading = screen.loading /\ screen'.failed = screen.failed
      /\ screen'.saving = screen.saving
  BY <1>1, <1>4 DEF Screen
<1> HIDE DEF v
<1>8. v.at # "sent"
  BY <1>6
<1>9. saves[s].at \in {"saved", "refreshing"} =>
         v.at \in {"saved", "refreshing"} \/ saves[s].mount \in unsure'
  BY <1>3, <1>6
<1>10. QED
  BY <1>2, <1>4, <1>5, <1>6, <1>7, <1>8, <1>9, GoOnKnows

LEMMA EndSaveKnows ==
  ASSUME KnowInv, NEW s \in Saves, EndSave(s)
  PROVE  KnowInv'
<1>1. /\ saves[s].at \in {"conflict", "refused"} /\ saves' = [saves EXCEPT ![s] = Done]
      /\ record' = record /\ history' = history /\ gets' = gets /\ unsure' = unsure
  BY DEF EndSave
<1>2. screen \in Screen
  BY KnowTyped
<1>3. IInv'
  BY EndSaveKeeps DEF KnowInv
<1>4. /\ screen'.mount = screen.mount /\ screen'.form = screen.form
      /\ screen'.loading = screen.loading /\ screen'.failed = screen.failed
      /\ screen'.saving = screen.saving \/ OnScreen(s)
  <2>1. CASE OnScreen(s)
    <3>1. PICK c \in BOOLEAN :
             screen' = [screen EXCEPT !.saving = FALSE, !.conflict = c]
      BY <1>2, <2>1 DEF EndSave, Screen
    <3>2. QED
      BY <1>2, <2>1, <3>1 DEF Screen
  <2>2. CASE ~OnScreen(s)
    BY <2>2 DEF EndSave
  <2>3. QED
    BY <2>1, <2>2
<1>5. Under(s) /\ saves[s].at \notin {"saved", "refreshing"}
  BY <1>1 DEF Under
<1>6. QED
  BY <1>1, <1>3, <1>4, <1>5, DoneSafe, GoOnKnows

LEMMA LeaveKnows ==
  ASSUME KnowInv, NEW s \in Saves, FinishSave(s) \/ SignOut(s)
  PROVE  KnowInv'
<1>1. /\ IInv /\ screen \in Screen /\ history \in Histories
      /\ saves \in [Saves -> Save]
  BY DEF KnowInv, IInv, TypeOK, Histories
<1>2. IInv'
  BY <1>1, FinishSaveKeeps, SignOutKeeps
<1>3. PICK loc \in Locations, reload \in BOOLEAN,
           scr \in {screen, [screen EXCEPT !.saving = FALSE]} :
         /\ Show(Append(Front(history), loc), scr, reload)
         /\ loc \in {saves[s].id, Elsewhere}
         /\ scr = screen \/ OnScreen(s)
         /\ OnScreen(s) /\ saves[s].of # New => reload \/ loc = Elsewhere
  <2>1. CASE FinishSave(s)
    <3>1. saves[s].id \in Locations
      BY <1>1, <2>1 DEF FinishSave, IInv, SaveInv, Locations
    <3>2. Reloads(s) \in BOOLEAN
      BY DEF Reloads
    <3>3. QED
      BY <2>1, <3>1, <3>2 DEF FinishSave, Reloads
  <2>2. CASE SignOut(s)
    BY <2>2 DEF SignOut, Locations
  <2>3. QED
    BY <2>1, <2>2
<1> DEFINE h == Append(Front(history), loc)
<1>4. /\ saves' = [saves EXCEPT ![s] = Done] /\ saves[s].at = "refreshing"
      /\ record' = record /\ unsure' = unsure
  BY DEF FinishSave, SignOut
<1>5. /\ h \in Histories /\ Last(h) = loc
      /\ \A i \in 1 .. Len(h) : Exists(h[i])
  <2>1. Front(history) \in Seq(Locations)
    BY <1>1, FrontTyped
  <2>2. h \in Histories /\ Last(h) = loc
    BY <2>1, AppendTyped
  <2>3. Exists(loc)
    <3>1. Exists(saves[s].id)
      BY <1>4 DEF KnowInv, Existing, Under
    <3>2. QED
      BY <1>3, <3>1, Distinct DEF Exists
  <2>4. \A i \in 1 .. Len(h) : h[i] = loc \/ (i \in 1 .. Len(Front(history))
                                              /\ h[i] = Front(history)[i])
    BY <2>1
  <2>5. QED
    BY <2>2, <2>3, <2>4, FrontExists
<1> HIDE DEF h
<1>6. /\ scr \in Screen /\ scr.mount = screen.mount /\ scr.form = screen.form
      /\ scr.loading = screen.loading /\ scr.failed = screen.failed
      /\ scr.saving = screen.saving \/ OnScreen(s)
  BY <1>1, <1>3 DEF Screen
<1>7. \A t \in Saves : saves'[t] = saves[t] \/ (t = s /\ saves'[t] = Done)
  BY <1>1, <1>4
<1>8. scr.saving = screen.saving \/ \A t \in Saves : Under(t)' => ~OnScreen(t)
  <2> SUFFICES ASSUME OnScreen(s), NEW t \in Saves, Under(t)', OnScreen(t) PROVE FALSE
    BY <1>6
  <2>1. t # s
    BY <1>1, <1>4, DoneNotUnder
  <2>2. Under(s) /\ Under(t)
    BY <1>4, <1>7, <2>1 DEF Under
  <2>3. QED
    BY <2>1, <2>2 DEF KnowInv, OneSave, OnScreen
<1>9. Here' = loc
  BY <1>3, <1>5 DEF Show, Here, h
<1>10. ASSUME NEW t \in Saves, Reloading(t), Here' = Here, saves'[t] # saves[t]
       PROVE  reload
  <2>1. t = s /\ saves[s].of = Here /\ saves[s].mount = screen.mount
    BY <1>7, <1>10 DEF Reloading
  <2>2. loc # Elsewhere
    <3>1. saves[s].of # Elsewhere
      BY <1>1, Distinct DEF Save
    <3>2. QED
      BY <1>9, <1>10, <2>1, <3>1
  <2>3. OnScreen(s)
    BY <1>9, <1>10, <2>1, <2>2 DEF OnScreen
  <2>4. Here # New
    <3>1. saves[s].id \in Roles
      BY <1>1, <1>4 DEF IInv, SaveInv
    <3>2. QED
      BY <1>3, <1>9, <1>10, <2>2, <3>1, Distinct
  <2>5. QED
    BY <1>3, <2>1, <2>2, <2>3, <2>4
<1>11. Show(h, scr, reload)
  BY <1>3 DEF h
<1>12. QED
  BY <1>2, <1>4, <1>5, <1>6, <1>7, <1>8, <1>10, <1>11, ShowKnows
-----------------------------------------------------------------------------
LEMMA StepKnows ==
  ASSUME KnowInv, [Next]_vars
  PROVE  KnowInv'
<1>1. ASSUME NEW g \in gets, Answer(g) PROVE KnowInv'
  BY <1>1, AnswerKnows
<1>2. ASSUME NEW s \in Saves, Submit(s) \/ Proceed(s) PROVE KnowInv'
  <2>1. ASSUME NEW x \in Roles, ServePost(s, x) PROVE KnowInv'
    BY <2>1, ServePostKnows
  <2>2. QED
    BY <1>2, <2>1, SubmitKnows, ServePatchKnows, BecomeKnows, EndSaveKnows, LeaveKnows
       DEF Proceed
<1>3. ASSUME NEW loc \in Locations, Follow(loc) PROVE KnowInv'
  BY <1>3, FollowKnows
<1>4. CASE Back \/ Type \/ Reload
  BY <1>4, BackKnows, TypeKnows, ReloadKnows
<1>5. ASSUME NEW x \in Roles, OtherSave(x) PROVE KnowInv'
  BY <1>5, OtherSaveKnows
<1>6. CASE UNCHANGED vars
  <2>1. IInv'
    BY <1>6, StepKeeps DEF KnowInv
  <2>2. Here \in Roles /\ Current => Current'
    BY <1>6 DEF vars, Current, Visible, Here
  <2>3. QED
    BY <1>6, <2>1, <2>2, StayKnows DEF vars
<1>7. QED
  BY <1>1, <1>2, <1>3, <1>4, <1>5, <1>6 DEF Next

LEMMA KnowInvariance == Spec => []KnowInv
<1>1. KnowInv /\ [Next]_vars => KnowInv'
  BY StepKnows
<1>2. QED
  BY <1>1, InitKnows, PTL DEF Spec

(* `saving' is the only lock of handleSubmit: whatever else the tab does    *)
(* meanwhile, an instance of the form has one save under way at a time,    *)
(* and shows that it has.                                                  *)
THEOREM SavesOneAtATime == Spec => []OneSave
<1>1. KnowInv => OneSave
  BY DEF KnowInv
<1>2. QED
  BY <1>1, KnowInvariance, PTL

(* handleSubmit is told of a conflict only when somebody else changed the  *)
(* role: the version of a form's own save is loaded before its button can  *)
(* be pressed again, unless the answer to the save was lost.               *)
THEOREM ConflictsExplained == Spec => ConflictsAreOthers
<1>1. ASSUME KnowInv, [Next]_vars, NEW s \in Saves,
             saves[s].at = "sent", saves'[s].at = "conflict"
      PROVE  record[saves[s].of].by # saves[s].mount \/ saves[s].mount \in unsure
  <2>1. saves \in [Saves -> Save]
    BY <1>1, KnowTyped
  <2>2. saves' # saves
    BY <1>1
  <2>3. ASSUME NEW r \in Saves, NEW v, saves' = [saves EXCEPT ![r] = v], v.at # "conflict"
        PROVE  FALSE
    BY <1>1, <2>1, <2>3
  <2>4. ASSUME NEW r \in Saves, NEW at, Become(r, at), at # "conflict" PROVE FALSE
    BY <1>1, <2>1, <2>4 DEF Become, Save
  <2>5. PICK r \in Saves : Submit(r) \/ Proceed(r)
    BY <1>1, <2>2 DEF Next, vars, Follow, Back, Type, Reload, Answer, ServeGet, Receive,
                      FailGet, OtherSave
  <2>6. ~Submit(r)
    BY <2>3 DEF Submit
  <2>7. ~RefuseSave(r) /\ ~LoseSave(r) /\ ~Saved(r)
    BY <2>4 DEF RefuseSave, LoseSave, Saved
  <2>8. ~EndSave(r) /\ ~FinishSave(r) /\ ~SignOut(r)
    BY <2>3, DoneSafe DEF EndSave, FinishSave, SignOut
  <2>9. ASSUME NEW x \in Roles, ServePost(r, x) PROVE FALSE
    <3>1. [saves[r] EXCEPT !.at = "saved", !.id = x].at = "saved"
      BY <2>1 DEF Save
    <3>2. QED
      BY <2>1, <2>3, <2>9, <3>1 DEF ServePost
  <2>10. ServePatch(r)
    BY <2>5, <2>6, <2>7, <2>8, <2>9 DEF Proceed
  <2>11. ~VersionMatches(r)
    <3>1. ASSUME VersionMatches(r) PROVE FALSE
      <4>1. [saves[r] EXCEPT !.at = "saved", !.id = saves[r].of].at = "saved"
        BY <2>1 DEF Save
      <4>2. saves' = [saves EXCEPT ![r] = [saves[r] EXCEPT !.at = "saved",
                                                           !.id = saves[r].of]]
        BY <2>1, <2>10, <3>1 DEF ServePatch
      <4>3. QED
        BY <2>3, <4>1, <4>2
    <3>2. QED
      BY <3>1
  <2>12. r = s /\ saves[s].of \in Roles
    BY <1>1, <2>1, <2>10, <2>11 DEF ServePatch, Become, Save
  <2>13. QED
    BY <1>1, <2>11, <2>12 DEF KnowInv, SentKnows, Own
<1>2. KnowInv /\ [Next]_vars =>
        [\A s \in Saves :
            saves[s].at = "sent" /\ saves'[s].at = "conflict" =>
               \/ record[saves[s].of].by # saves[s].mount
               \/ saves[s].mount \in unsure]_vars
  BY <1>1
<1>3. QED
  BY <1>2, KnowInvariance, PTL DEF Spec, ConflictsAreOthers
=============================================================================
