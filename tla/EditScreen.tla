------------------------------ MODULE EditScreen ------------------------------
(***************************************************************************)
(* RoleFormPage in one browser tab: what an administrator sees and edits,  *)
(* and what the server holds.  UserFormPage follows the same protocol, and *)
(* CompanySettingsPage too, with one record and no way to create another.  *)
(*                                                                         *)
(* React keeps one instance of the screen for all of /roles/:roleId: going *)
(* from one role to another, or from the blank form to a role, changes the *)
(* role and leaves the fields of the form until the new role is loaded.    *)
(* Leaving for another screen ends the instance, but not its handleSubmit, *)
(* which goes on when the server answers and then navigates.               *)
(*                                                                         *)
(* All that a role's form says is one number, its text.  A render and the  *)
(* effects it has are one step, and so is a transaction of the server: it  *)
(* holds the row lock from its check of the version to its commit.  The    *)
(* user may go back in the history, not forward, and keeps the permission  *)
(* to edit roles; who has lost the session signs in again, elsewhere.      *)
(***************************************************************************)
EXTENDS Naturals, Sequences, SequencesExt

CONSTANTS
    Roles,          \* every role there is or will be
    Saves,          \* calls of handleSubmit: each is made once
    None,           \* no role
    New,            \* the location /roles/new
    Elsewhere,      \* every location that is no form
    MaxTexts,       \* bound: texts that are typed, by anybody
    MaxVisits       \* bound: locations in the history, and forms the user opens

ASSUME Distinct ==
    /\ None \notin Roles \cup {New, Elsewhere}
    /\ New \notin Roles \cup {Elsewhere}
    /\ Elsewhere \notin Roles
ASSUME BoundTypes == MaxTexts \in Nat /\ MaxVisits \in Nat \ {0}

VARIABLES
    record,         \* the roles in the database
    history,        \* the tab's history, the current location last
    screen,         \* the state of the form's instance
    gets,           \* GET requests of useResource that are under way
    saves,          \* each call of handleSubmit
    texts,          \* history: how many texts were typed
    unsure          \* history: the instances with a save whose answer was lost

vars == <<record, history, screen, gets, saves, texts, unsure>>

Locations == Roles \cup {New, Elsewhere}

(* A role's version is 0 before it exists.  `by' is the instance of the    *)
(* screen that wrote it, 0 for another administrator's.                    *)
Record == [version : Nat, text : Nat, by : Nat]

(* What the fields were loaded from, and what they say. *)
Form  == [role : Roles \cup {None}, version : Nat, base : Nat, text : Nat]
Blank == [role |-> None, version |-> 0, base |-> 0, text |-> 0]

Screen == [mount : Nat, loading : BOOLEAN, failed : BOOLEAN, form : Form,
           dirty : BOOLEAN, saving : BOOLEAN, conflict : BOOLEAN]

(* active: the effect that sent it has not been cleaned up. *)
Get == [active : BOOLEAN, role : Roles, answered : BOOLEAN, answer : Record]

(* of is the location it was called at, id that of the role it saved.      *)
Phases == {"idle", "sent", "saved", "conflict", "refused", "refreshing", "done"}
Save   == [at : Phases, mount : Nat, of : Roles \cup {New, None}, form : Form,
           id : Roles \cup {None}]
Idle   == [at |-> "idle", mount |-> 0, of |-> None, form |-> Blank, id |-> None]
Done   == [Idle EXCEPT !.at = "done"]

Here == Last(history)

TypeOK ==
    /\ record \in [Roles -> Record]
    /\ history \in Seq(Locations) \ {<<>>}
    /\ screen \in Screen
    /\ gets \subseteq Get
    /\ saves \in [Saves -> Save]
    /\ texts \in Nat
    /\ unsure \subseteq Nat
    /\ \A g, h \in gets : g.active /\ h.active => g = h
    /\ \A g \in gets : g.active => g.role = Here

(* useState's initial values. *)
Mounted(n) ==
    [mount |-> n, loading |-> TRUE, failed |-> FALSE, form |-> Blank,
     dirty |-> FALSE, saving |-> FALSE, conflict |-> FALSE]

NoRecord == [version |-> 0, text |-> 0, by |-> 0]

Init ==
    /\ \E existing \in SUBSET Roles :
          record = [x \in Roles |-> IF x \in existing
                                    THEN [version |-> 1, text |-> 1, by |-> 0]
                                    ELSE NoRecord]
    /\ history = <<Elsewhere>>
    /\ screen = Mounted(0)
    /\ gets = {}
    /\ saves = [s \in Saves |-> Idle]
    /\ texts = 1
    /\ unsure = {}
-----------------------------------------------------------------------------
KeepActive(gs) == gs
(* The cleanup of useResource's effect: what it asked for is aborted, and  *)
(* ignored if the answer is there already.                                 *)
Cleanup(gs) == {[g EXCEPT !.active = FALSE] : g \in {h \in gs : h.answered}}

GetRole(x) == [active |-> TRUE, role |-> x, answered |-> FALSE, answer |-> NoRecord]

(* The effect runs again.  The blank form loads nothing. *)
Load(scr, loc) ==
    /\ screen' = [scr EXCEPT !.loading = loc # New, !.failed = FALSE]
    /\ gets' = Cleanup(gets) \cup {GetRole(x) : x \in {loc} \cap Roles}

(* The tab goes to the last location of h; reload says that the nonce of   *)
(* useResource has changed.                                                *)
Show(h, scr, reload) ==
    LET loc == Last(h) IN
    /\ history' = h
    /\ IF loc = Elsewhere
       THEN /\ screen' = Mounted(screen.mount)
            /\ gets' = Cleanup(gets)
       ELSE IF Here = Elsewhere
       THEN Load(Mounted(screen.mount + 1), loc)
       ELSE IF loc # Here \/ reload
       THEN Load(scr, loc)
       ELSE /\ screen' = scr
            /\ UNCHANGED gets

(* The user follows a link.  Forms are linked from the list of roles, which *)
(* is elsewhere; the links of AppShell lead there from a form, and so does  *)
(* "Back to roles", if the user is asked and agrees.                        *)
Follow(loc) ==
    /\ Here = Elsewhere \/ loc = Elsewhere
    /\ Here # loc
    /\ loc \in Roles => record[loc].version > 0
    /\ Len(history) < MaxVisits
    /\ loc # Elsewhere => screen.mount < MaxVisits
    /\ Show(Append(history, loc), screen, FALSE)
    /\ UNCHANGED <<record, saves, texts, unsure>>

Back ==
    /\ Len(history) > 1
    /\ Last(Front(history)) # Elsewhere /\ Here = Elsewhere => screen.mount < MaxVisits
    /\ Show(Front(history), screen, FALSE)
    /\ UNCHANGED <<record, saves, texts, unsure>>
-----------------------------------------------------------------------------
(***************************************************************************)
(* useResource                                                             *)
(***************************************************************************)
(* RoleViewSet.retrieve reads the row at some time, and the answer arrives *)
(* at another.                                                             *)
ServeGet(g) ==
    /\ ~g.answered
    /\ gets' = (gets \ {g}) \cup {[g EXCEPT !.answered = TRUE, !.answer = record[g.role]]}
    /\ UNCHANGED <<record, history, screen, saves, texts, unsure>>

AnyAnswer(g) == TRUE
(* Both then and finally ask for active. *)
Expected(g) == g.active

(* setData, and the effect that fills the form. *)
Receive(g) ==
    /\ g.answered
    /\ gets' = gets \ {g}
    /\ screen' = IF ~Expected(g) THEN screen ELSE
                 [screen EXCEPT !.loading = FALSE, !.dirty = FALSE,
                                !.form = [role |-> g.role, version |-> g.answer.version,
                                          base |-> g.answer.text, text |-> g.answer.text]]
    /\ UNCHANGED <<record, history, saves, texts, unsure>>

FailSilently(scr) == scr
ShowError(scr) == [scr EXCEPT !.loading = FALSE, !.failed = TRUE]

(* The server refuses it, or the connection breaks. *)
FailGet(g) ==
    /\ gets' = gets \ {g}
    /\ screen' = IF Expected(g) THEN ShowError(screen) ELSE screen
    /\ UNCHANGED <<record, history, saves, texts, unsure>>
-----------------------------------------------------------------------------
(***************************************************************************)
(* The form                                                                *)
(***************************************************************************)
(* LoadingState or an error stands in for the form of a role. *)
Visible ==
    \/ Here = New
    \/ Here \in Roles /\ ~screen.loading /\ ~screen.failed

(* The fields stay enabled while the form is being saved. *)
Type ==
    /\ Visible
    /\ texts < MaxTexts
    /\ texts' = texts + 1
    /\ screen' = [screen EXCEPT !.form.text = texts + 1, !.dirty = TRUE]
    /\ UNCHANGED <<record, history, gets, saves, unsure>>

(* The Reload button of the banner, which stays until the next save. *)
Reload ==
    /\ Visible /\ screen.conflict
    /\ Load(screen, Here)
    /\ UNCHANGED <<record, history, saves, texts, unsure>>

Busy == screen.saving

(* handleSubmit up to its first await. *)
Submit(s) ==
    /\ Visible /\ ~Busy
    /\ saves[s].at = "idle"
    /\ saves' = [saves EXCEPT ![s] = [at |-> "sent", mount |-> screen.mount,
                                      of |-> Here, form |-> screen.form,
                                      id |-> None]]
    /\ screen' = [screen EXCEPT !.saving = TRUE, !.conflict = FALSE]
    /\ UNCHANGED <<record, history, gets, texts, unsure>>

Become(s, at) == saves' = [saves EXCEPT ![s].at = at]

VersionIgnored(s) == TRUE
(* assert_version, under the row lock. *)
VersionMatches(s) == saves[s].form.version = record[saves[s].of].version

(* update_role. *)
ServePatch(s) ==
    LET x == saves[s].of IN
    /\ saves[s].at = "sent" /\ x \in Roles
    /\ IF VersionMatches(s)
       THEN /\ record' = [record EXCEPT ![x] = [version |-> @.version + 1,
                                                text |-> saves[s].form.text,
                                                by |-> saves[s].mount]]
            /\ saves' = [saves EXCEPT ![s].at = "saved", ![s].id = x]
       ELSE /\ Become(s, "conflict")
            /\ UNCHANGED record
    /\ UNCHANGED <<history, screen, gets, texts, unsure>>

(* create_role: full_clean refuses a blank form, and one that says what an *)
(* existing role does, and so has its code.                                *)
ServePost(s, x) ==
    /\ saves[s].at = "sent" /\ saves[s].of = New
    /\ record[x].version = 0 /\ saves[s].form.text > 0
    /\ \A y \in Roles : record[y].version > 0 => record[y].text # saves[s].form.text
    /\ record' = [record EXCEPT ![x] = [version |-> 1, text |-> saves[s].form.text,
                                        by |-> saves[s].mount]]
    /\ saves' = [saves EXCEPT ![s].at = "saved", ![s].id = x]
    /\ UNCHANGED <<history, screen, gets, texts, unsure>>

(* Validation, a business rule or a missing permission. *)
RefuseSave(s) ==
    /\ saves[s].at = "sent"
    /\ Become(s, "refused")
    /\ UNCHANGED <<record, history, screen, gets, texts, unsure>>

(* The request or its answer is lost: fetch throws. *)
LoseSave(s) ==
    /\ saves[s].at \in {"sent", "saved", "conflict"}
    /\ Become(s, "refused")
    /\ unsure' = unsure \cup {saves[s].mount}
    /\ UNCHANGED <<record, history, screen, gets, texts>>

(* Setting the state of an instance that has ended does nothing. *)
OnScreen(s) == Here # Elsewhere /\ saves[s].mount = screen.mount

(* The catch, and finally. *)
EndSave(s) ==
    /\ saves[s].at \in {"conflict", "refused"}
    /\ saves' = [saves EXCEPT ![s] = Done]
    /\ screen' = IF ~OnScreen(s) THEN screen ELSE
                 [screen EXCEPT !.saving = FALSE,
                                !.conflict = @ \/ saves[s].at = "conflict"]
    /\ UNCHANGED <<record, history, gets, texts, unsure>>

(* setDirty(false), then refresh() asks for the session. *)
Saved(s) ==
    /\ saves[s].at = "saved"
    /\ Become(s, "refreshing")
    /\ screen' = IF OnScreen(s) THEN [screen EXCEPT !.dirty = FALSE] ELSE screen
    /\ UNCHANGED <<record, history, gets, texts, unsure>>

ReloadsNothing(s) == FALSE
(* existing.reload() of a role that was not just created. *)
Reloads(s) == OnScreen(s) /\ saves[s].of # New

(* refresh() has the session: navigate replaces the current location,      *)
(* whichever that is by now.                                               *)
FinishSave(s) ==
    /\ saves[s].at = "refreshing"
    /\ saves' = [saves EXCEPT ![s] = Done]
    /\ Show(Append(Front(history), saves[s].id),
            IF OnScreen(s) THEN [screen EXCEPT !.saving = FALSE] ELSE screen,
            Reloads(s))
    /\ UNCHANGED <<record, texts, unsure>>

(* refresh() fails, which throws nothing: there is no session, and the     *)
(* location handleSubmit navigates to is replaced by /login.               *)
SignOut(s) ==
    /\ saves[s].at = "refreshing"
    /\ saves' = [saves EXCEPT ![s] = Done]
    /\ Show(Append(Front(history), Elsewhere), screen, FALSE)
    /\ UNCHANGED <<record, texts, unsure>>

(* Another administrator's save. *)
OtherSave(x) ==
    /\ record[x].version > 0
    /\ texts < MaxTexts
    /\ texts' = texts + 1
    /\ record' = [record EXCEPT ![x] = [version |-> @.version + 1, text |-> texts + 1,
                                        by |-> 0]]
    /\ UNCHANGED <<history, screen, gets, saves, unsure>>
-----------------------------------------------------------------------------
Answer(g) == ServeGet(g) \/ Receive(g) \/ FailGet(g)

Proceed(s) ==
    \/ ServePatch(s) \/ (\E x \in Roles : ServePost(s, x)) \/ RefuseSave(s)
    \/ LoseSave(s) \/ EndSave(s) \/ Saved(s) \/ FinishSave(s) \/ SignOut(s)

Next ==
    \/ \E loc \in Locations : Follow(loc)
    \/ Back \/ Type \/ Reload
    \/ \E g \in gets : Answer(g)
    \/ \E s \in Saves : Submit(s) \/ Proceed(s)
    \/ \E x \in Roles : OtherSave(x)

Spec == Init /\ [][Next]_vars

(* The browser answers every request in the end, with an error if nothing  *)
(* else, and what awaits the answer goes on.                               *)
Fairness ==
    /\ WF_vars(\E g \in gets : g.active /\ Answer(g))
    /\ \A s \in Saves : WF_vars(Proceed(s))

FairSpec == Spec /\ Fairness
-----------------------------------------------------------------------------
(* The form under /roles/x is filled from role x, and no slow answer about *)
(* another role, asked for by the same instance before, can appear there:  *)
(* "a slow response can never overwrite a newer one".                      *)
FormShowsItsRole == Visible /\ Here \in Roles => screen.form.role = Here

(* What update_role replaces is what the form was filled from: no save     *)
(* overwrites another administrator's, whatever was answered late, lost or *)
(* tried again.                                                            *)
NoLostUpdate ==
    [][\A s \in Saves :
          LET x == saves[s].of IN
          x \in Roles /\ saves[s].at = "sent" /\ saves'[s].at = "saved" =>
             record[x].text = saves[s].form.base]_vars

(* "The record was changed by someone else since it was loaded": no form   *)
(* is told so for a save of its own that was answered, for the version is  *)
(* loaded again before the form can be saved again.                        *)
ConflictsAreOthers ==
    [][\A s \in Saves :
          saves[s].at = "sent" /\ saves'[s].at = "conflict" =>
             \/ record[saves[s].of].by # saves[s].mount
             \/ saves[s].mount \in unsure]_vars

(* The tab comes to rest on a form that can be used, an error or another   *)
(* screen, whatever is lost.                                               *)
ScreenSettles ==
    (Here \in Roles /\ screen.loading) \/ screen.saving
        ~> ~(Here \in Roles /\ screen.loading) /\ ~screen.saving
=============================================================================
