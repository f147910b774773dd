---------------------------- MODULE ClusterWizard ----------------------------
(***************************************************************************)
(* The cluster settings page of the web interface (SettingsClustersPage)   *)
(* and the seven-step wizard it opens to add or edit a cluster, with the   *)
(* admin endpoints behind them.                                            *)
(*                                                                         *)
(* Requests are answered in two steps: the server handles one, and later   *)
(* its answer reaches the page, which may have moved on by then.           *)
(***************************************************************************)
EXTENDS Naturals, FiniteSets

CONSTANTS
    Names,        \* cluster names that pass the wizard's check
    StaticNames,  \* the ones config.yaml defines
    Servers,      \* bootstrap servers that pass the wizard's check
    Values,       \* contents of an optional section
    InitialStored,\* the clusters there may be when the page opens
    None,         \* no section, no cluster
    Bad,          \* a text that fails the wizard's check, or an empty one
    Empty,        \* what a section without a mechanism shows: a row with nothing in it
    MaxEdits,     \* bound: sections entered in one wizard
    MaxChanges    \* bound: saves and deletes, here and by other admins

\* The optional steps of the wizard; metrics settings have no step of their own.
StepOf == [tls |-> 1, sasl |-> 2, schemaRegistry |-> 3, kafkaConnect |-> 4, ksql |-> 5]
Stepped  == DOMAIN StepOf
Sections == Stepped \cup {"metrics"}
LastStep == 6

Section == Values \cup {None}
Cluster == [boot : Servers, sec : [Sections -> Section]]
Stored  == [Names -> Cluster \cup {None}]

ASSUME WizardAssumption ==
    /\ StaticNames \subseteq Names
    /\ None \notin Values \cup Names \cup Servers \cup Cluster
    /\ Bad \notin Names \cup Servers /\ Bad # None
    /\ Empty \notin Section
    /\ InitialStored \subseteq Stored
    /\ MaxEdits \in Nat /\ MaxChanges \in Nat

\* What the form holds. `shown` is what the steps and the review read from a
\* section, `sent` what the server reads from it: the list endpoint spells the
\* fields of its sections with capitals, which the page does not read and the
\* server's decoder accepts (internal/config/config.go:191-218 has no json tags).
Form == [name  : Names \cup {Bad},
         boot  : Servers \cup {Bad},
         shown : [Sections -> Section \cup {Empty}],
         sent  : [Sections -> Section]]

NoSections == [s \in Sections |-> None]
BlankForm  == [name |-> Bad, boot |-> Bad, shown |-> NoSections, sent |-> NoSections]

\* What the page can read of a listed cluster. Of the Connect clusters the review
\* shows how many there are, and that is what `shown` means for them: an entry
\* keeps the capitals of the fields nobody edits. The login is sent with every
\* listed cluster, one without a login included, so the review has a row for it
\* that is always empty; the other sections have none.
Legible(c) ==
    [s \in Sections |-> CASE s = "kafkaConnect" -> c.sec[s]
                         [] s = "sasl" -> Empty
                         [] OTHER -> None]

FormWithoutRest(n, c) ==     \* mutant: the form takes over only what it reads
    [name |-> n, boot |-> c.boot, shown |-> Legible(c),
     sent |-> [NoSections EXCEPT !["kafkaConnect"] = c.sec["kafkaConnect"]]]

FormOf(n, c) ==
    [name |-> n, boot |-> c.boot, shown |-> Legible(c), sent |-> c.sec]

VARIABLES
    stored,    \* the server's clusters
    listed,    \* the page's copy of them (query "admin-clusters")
    fetch,     \* the query's request: idle, asked, read (with snap), failed
    snap,      \* what the server read for it
    wizard,    \* the open wizard
    save,      \* the save request of the open wizard
    stray,     \* the save request of a wizard that was closed while saving
    removal,   \* the delete dialog and its request
    changes,   \* saves and deletes so far
    unseen     \* names changed since `listed` was read, not announced here:
               \* by others, by a request still to be answered, or by a refused one

vars == <<stored, listed, fetch, snap, wizard, save, stray, removal, changes, unseen>>

Modes  == {"closed", "add", "edit"}
Stages == {"none", "sent", "done", "refused"}
NoSave == [stage |-> "none", mode |-> "closed", form |-> BlankForm]

\* A wizard as its component mounts: what useReducer starts with, and what the
\* checks below compare with (base, touched, tested, testOf, hasty).
Mounted(mode, form, base) ==
    [mode |-> mode, step |-> 0, form |-> form, result |-> "none",
     testing |-> FALSE, saving |-> FALSE, error |-> FALSE,
     base |-> base, touched |-> {}, tested |-> BlankForm, testOf |-> BlankForm,
     hasty |-> FALSE]
Closed == Mounted("closed", BlankForm, None)

IsOpen == wizard.mode # "closed"
-----------------------------------------------------------------------------
Init ==
    /\ stored \in InitialStored
    /\ listed = [n \in Names |-> None]
    /\ fetch = "asked"
    /\ snap = listed
    /\ wizard = Closed
    /\ save = NoSave
    /\ stray = NoSave
    /\ removal = [target |-> None, stage |-> "none", sentFor |-> None]
    /\ changes = 0
    /\ unseen = {n \in Names : stored[n] # None}

(* The list of clusters: a query that is invalidated after each success. *)

ListRead ==
    /\ fetch = "asked"
    /\ fetch' = "read"
    /\ snap' = stored
    /\ unseen' = {}
    /\ UNCHANGED <<stored, listed, wizard, save, stray, removal, changes>>

ListArrives ==
    /\ fetch = "read"
    /\ fetch' = "idle"
    /\ listed' = snap
    /\ UNCHANGED <<stored, snap, wizard, save, stray, removal, changes, unseen>>

ListFails ==
    /\ fetch \in {"asked", "read"}
    /\ fetch' = "failed"
    /\ UNCHANGED <<stored, listed, snap, wizard, save, stray, removal, changes, unseen>>

Retry ==
    /\ fetch = "failed"
    /\ fetch' = "asked"
    /\ UNCHANGED <<stored, listed, snap, wizard, save, stray, removal, changes, unseen>>

Loaded == \E n \in Names : listed[n] # None

\* invalidateQueries on a query in use: a request under way is dropped for a new
\* one; but the very first request is joined, and may have been read before.
Joined == ~Loaded /\ fetch \in {"asked", "read"}

AnnouncedNever(n) == unseen' = unseen \ {n} /\ UNCHANGED fetch    \* mutant

\* The change of `n` was announced here: the list is asked for (again).
Announced(n) ==
    IF Joined THEN UNCHANGED <<fetch, unseen>>
    ELSE fetch' = "asked" /\ unseen' = unseen \ {n}

\* Bound: MaxChanges saves and deletes; and, while the save of a closed wizard is
\* under way, one more save, without a test and without entering a section.
MaySave == changes < MaxChanges \/ (stray.stage = "sent" /\ changes = MaxChanges)
Counted == changes < MaxChanges /\ changes' = changes + 1

(* Opening and closing wizards. *)

OpenAdd ==
    /\ ~IsOpen /\ removal.target = None
    /\ wizard' = Mounted("add", BlankForm, None)
    /\ UNCHANGED <<stored, listed, fetch, snap, save, stray, removal, changes, unseen>>

OpenEdit(n) ==
    /\ ~IsOpen /\ removal.target = None
    /\ n \notin StaticNames /\ listed[n] # None
    /\ wizard' = Mounted("edit", FormOf(n, listed[n]), listed[n])
    /\ UNCHANGED <<stored, listed, fetch, snap, save, stray, removal, changes, unseen>>

\* A save under way goes on without its wizard. Bound: one at a time does.
CloseWizard ==
    /\ IsOpen
    /\ save.stage # "none" => stray.stage = "none"
    /\ wizard' = Closed
    /\ stray' = IF save.stage # "none" THEN save ELSE stray
    /\ save' = NoSave
    /\ UNCHANGED <<stored, listed, fetch, snap, removal, changes, unseen>>

(* The steps. *)

UpdateKeepsResult(form, touched) ==   \* mutant: the old test result stays
    /\ IsOpen
    /\ wizard' = [wizard EXCEPT !.form = form, !.touched = @ \cup touched,
                                !.hasty = @ \/ wizard.testing]
    /\ UNCHANGED <<stored, listed, fetch, snap, save, stray, removal, changes, unseen>>

\* The reducer's UPDATE_DATA: new data, and no test result any more. (An edit
\* during a test is noted as hasty; what the test is about is then forgotten.)
Update(form, touched) ==
    /\ IsOpen
    /\ wizard' = [wizard EXCEPT !.form = form, !.result = "none", !.tested = BlankForm,
                                !.touched = @ \cup touched, !.testOf = BlankForm,
                                !.hasty = @ \/ wizard.testing]
    /\ UNCHANGED <<stored, listed, fetch, snap, save, stray, removal, changes, unseen>>

ConnectionStep ==
    /\ wizard.step = 0
    /\ \/ \E n \in (Names \cup {Bad}) \ {wizard.form.name} :
              Update([wizard.form EXCEPT !.name = n], {})
       \/ \E b \in (Servers \cup {Bad}) \ {wizard.form.boot} :
              Update([wizard.form EXCEPT !.boot = b], {})

\* Bound: one wizard enters at most MaxEdits sections.
MayEnter(s) == stray.stage = "none" /\ Cardinality(wizard.touched \cup {s}) <= MaxEdits

\* What the section's own step shows of it: a login without a mechanism is "None".
FieldShows(s) == IF wizard.form.shown[s] = Empty THEN None ELSE wizard.form.shown[s]

\* A field that shows nothing can not be emptied; whatever is entered replaces
\* the section, with the parts of it that the step did not show.
EnterSection(s, v) ==
    /\ wizard.step = StepOf[s] /\ MayEnter(s)
    /\ v # FieldShows(s)
    /\ Update([wizard.form EXCEPT !.shown[s] = v, !.sent[s] = v], {s})

SecurityStep       == \E v \in Section : EnterSection("tls", v)
AuthStep           == \E v \in Section : EnterSection("sasl", v)
SchemaRegistryStep == \E v \in Section : EnterSection("schemaRegistry", v)
KafkaConnectStep   == \E v \in Section : EnterSection("kafkaConnect", v)
KsqlStep           == \E v \in Section : EnterSection("ksql", v)

CanNext == wizard.step = 0 => wizard.form.name \in Names /\ wizard.form.boot \in Servers

GoTo(step) ==
    /\ IsOpen
    /\ wizard' = [wizard EXCEPT !.step = step]
    /\ UNCHANGED <<stored, listed, fetch, snap, save, stray, removal, changes, unseen>>

\* Next, Skip and the Enter key. Bound: only while the wizard may still save.
HandleNextPast == CanNext /\ MaySave /\ GoTo(wizard.step + 1)   \* mutant: Enter on the last step

HandleNext == wizard.step < LastStep /\ CanNext /\ MaySave /\ GoTo(wizard.step + 1)
Back       == wizard.step > 0 /\ GoTo(wizard.step - 1)
\* The stepper's buttons lead back to completed steps only.
WizardStepper == \E i \in 0..LastStep : i < wizard.step /\ GoTo(i)

(* Test and save. *)

HandleTest ==
    /\ IsOpen /\ wizard.step = LastStep /\ ~wizard.testing
    /\ changes < MaxChanges
    /\ wizard' = [wizard EXCEPT !.testing = TRUE, !.result = "none", !.tested = BlankForm,
                                !.testOf = wizard.form, !.hasty = FALSE]
    /\ UNCHANGED <<stored, listed, fetch, snap, save, stray, removal, changes, unseen>>

\* Whether it says ok or error changes nothing else.
TestAnswered ==
    /\ IsOpen /\ wizard.testing
    /\ wizard' = [wizard EXCEPT !.testing = FALSE, !.result = "shown", !.tested = wizard.testOf,
                                !.testOf = BlankForm]
    /\ UNCHANGED <<stored, listed, fetch, snap, save, stray, removal, changes, unseen>>

\* Without a result the page asks first; a refusal of the user's changes nothing.
HandleSave ==
    /\ IsOpen /\ wizard.step = LastStep /\ ~wizard.saving
    /\ MaySave /\ changes' = changes + 1
    /\ wizard' = [wizard EXCEPT !.saving = TRUE, !.error = FALSE]
    /\ save' = [stage |-> "sent", mode |-> wizard.mode, form |-> wizard.form]
    /\ UNCHANGED <<stored, listed, fetch, snap, stray, removal, unseen>>

\* The server accepts an addition under a free name and an update of a dynamic
\* cluster. Either may fail before its file is changed, or afterwards: the file,
\* which the list is read from, is changed before the registry of connections,
\* and the registry may refuse what the file already has.
Acceptable(r) ==
    IF r.mode = "add" THEN stored[r.form.name] = None
    ELSE r.form.name \notin StaticNames /\ stored[r.form.name] # None

Accepted(r) ==
    /\ Acceptable(r)
    /\ stored' = [stored EXCEPT ![r.form.name] = [boot |-> r.form.boot, sec |-> r.form.sent]]
    /\ unseen' = unseen \cup {r.form.name}

Answers == {"done", "refused"}

SaveHandled ==
    /\ save.stage = "sent"
    /\ \/ Accepted(save) /\ \E answer \in Answers : save' = [save EXCEPT !.stage = answer]
       \/ save' = [save EXCEPT !.stage = "refused"] /\ UNCHANGED <<stored, unseen>>
    /\ UNCHANGED <<listed, fetch, snap, wizard, stray, removal, changes>>

StrayHandled ==
    /\ stray.stage = "sent"
    /\ \/ Accepted(stray) /\ \E answer \in Answers : stray' = [stray EXCEPT !.stage = answer]
       \/ stray' = [stray EXCEPT !.stage = "refused"] /\ UNCHANGED <<stored, unseen>>
    /\ UNCHANGED <<listed, fetch, snap, wizard, save, removal, changes>>

\* handleSaved: both wizards are closed, the list is asked for again.
HandleSaved(r) ==
    /\ wizard' = Closed
    /\ Announced(r.form.name)

SaveSucceeds ==
    /\ save.stage = "done"
    /\ HandleSaved(save)
    /\ save' = NoSave
    /\ UNCHANGED <<stored, listed, snap, stray, removal, changes>>

SaveRefused ==
    /\ save.stage = "refused"
    /\ wizard' = [wizard EXCEPT !.saving = FALSE, !.error = TRUE]
    /\ save' = NoSave
    /\ UNCHANGED <<stored, listed, fetch, snap, stray, removal, changes, unseen>>

\* The answer to a wizard that is gone: success closes the one that is open by
\* now, whose own save goes on without it; of a refusal nobody hears.
StraySucceeds ==
    /\ stray.stage = "done"
    /\ HandleSaved(stray)
    /\ stray' = save
    /\ save' = NoSave
    /\ UNCHANGED <<stored, listed, snap, removal, changes>>

StrayRefused ==
    /\ stray.stage = "refused"
    /\ stray' = NoSave
    /\ UNCHANGED <<stored, listed, fetch, snap, wizard, save, removal, changes, unseen>>

(* Deleting. *)

AskDelete(n) ==
    /\ ~IsOpen /\ removal.target = None
    /\ n \notin StaticNames /\ listed[n] # None
    /\ removal' = [removal EXCEPT !.target = n]
    /\ UNCHANGED <<stored, listed, fetch, snap, wizard, save, stray, changes, unseen>>

CancelDelete ==
    /\ removal.target # None
    /\ removal' = [removal EXCEPT !.target = None]
    /\ UNCHANGED <<stored, listed, fetch, snap, wizard, save, stray, changes, unseen>>

ConfirmDelete ==
    /\ removal.target # None /\ removal.stage = "none"
    /\ Counted
    /\ removal' = [removal EXCEPT !.stage = "sent", !.sentFor = removal.target]
    /\ UNCHANGED <<stored, listed, fetch, snap, wizard, save, stray, unseen>>

\* The last cluster stays. (The server counts its connections, which are the
\* clusters of the list but for those the registry refused to take.)
Deletable(n) == n \notin StaticNames /\ Cardinality({m \in Names : stored[m] # None}) > 1

\* A removal from the file, too, may be followed by a refusal of the registry's.
DeleteHandled ==
    /\ removal.stage = "sent"
    /\ \/ /\ Deletable(removal.sentFor)
          /\ stored' = [stored EXCEPT ![removal.sentFor] = None]
          /\ unseen' = unseen \cup {removal.sentFor}
          /\ \E answer \in Answers : removal' = [removal EXCEPT !.stage = answer]
       \/ removal' = [removal EXCEPT !.stage = "refused"] /\ UNCHANGED <<stored, unseen>>
    /\ UNCHANGED <<listed, fetch, snap, wizard, save, stray, changes>>

\* Success closes the dialog, for whichever cluster it is open by now; a refusal
\* leaves it open and shows why.
DeleteAnswered ==
    /\ removal.stage \in {"done", "refused"}
    /\ IF removal.stage = "done"
       THEN /\ removal' = [removal EXCEPT !.stage = "none", !.sentFor = None, !.target = None]
            /\ Announced(removal.sentFor)
       ELSE /\ removal' = [removal EXCEPT !.stage = "none", !.sentFor = None]
            /\ UNCHANGED <<fetch, unseen>>
    /\ UNCHANGED <<stored, listed, snap, wizard, save, stray, changes>>

(* Other admins. *)

OtherAdmin(n) ==
    /\ Counted /\ n \notin StaticNames
    /\ \E c \in {None} \cup [boot : Servers, sec : {NoSections}] :
          /\ c # stored[n] /\ (c = None => Deletable(n))
          /\ stored' = [stored EXCEPT ![n] = c]
    /\ unseen' = unseen \cup {n}
    /\ UNCHANGED <<listed, fetch, snap, wizard, save, stray, removal>>
-----------------------------------------------------------------------------
UserStep ==
    \/ OpenAdd \/ (\E n \in Names : OpenEdit(n) \/ AskDelete(n)) \/ CloseWizard
    \/ ConnectionStep \/ SecurityStep \/ AuthStep \/ SchemaRegistryStep
    \/ KafkaConnectStep \/ KsqlStep
    \/ HandleNext \/ Back \/ WizardStepper \/ HandleTest \/ HandleSave
    \/ CancelDelete \/ ConfirmDelete \/ Retry

\* What the server and the network do on their own.
AnswerStep ==
    \/ ListRead \/ ListArrives \/ TestAnswered
    \/ SaveHandled \/ StrayHandled \/ SaveSucceeds \/ SaveRefused
    \/ StraySucceeds \/ StrayRefused \/ DeleteHandled \/ DeleteAnswered

Next == UserStep \/ AnswerStep \/ ListFails \/ \E n \in Names : OtherAdmin(n)

Spec == Init /\ [][Next]_vars

-----------------------------------------------------------------------------
SaveRecord == [stage : Stages, mode : Modes, form : Form]

\* Type correctness; what is saved or under way passed the wizard's checks.
TypeOK ==
    /\ stored \in Stored /\ listed \in Stored /\ snap \in Stored
    /\ fetch \in {"idle", "asked", "read", "failed"}
    /\ wizard \in [mode : Modes, step : 0..LastStep, form : Form,
                   result : {"none", "shown"}, testing : BOOLEAN, saving : BOOLEAN,
                   error : BOOLEAN, base : Cluster \cup {None}, touched : SUBSET Stepped,
                   tested : Form, testOf : Form, hasty : BOOLEAN]
    /\ save \in SaveRecord /\ stray \in SaveRecord
    /\ removal \in [target : Names \cup {None}, stage : Stages,
                    sentFor : Names \cup {None}]
    /\ changes \in 0..MaxChanges + 1
    /\ unseen \in SUBSET Names

Valid(form) == form.name \in Names /\ form.boot \in Servers

\* Whatever way leads to the later steps, back through the stepper and over
\* Next, Skip and Enter: a form that fails the checks of the first step is
\* neither reviewed nor sent, so the server never gets one.
SentIsValid ==
    /\ wizard.step > 0 => Valid(wizard.form)
    /\ \A r \in {save, stray} : r.stage # "none" => Valid(r.form)

\* The test result on the review step is about the settings next to it, unless
\* they were edited while a test was under way (ClusterWizard.tsx:81 takes its
\* answer whatever it tested).
ResultIsForData ==
    wizard.result # "none" /\ ~wizard.hasty => wizard.tested = wizard.form

\* What the fields show is what is sent, for a new cluster and for every section
\* entered in this wizard (of the Connect clusters: how many).
SeenIsSent ==
    \A s \in Stepped :
        wizard.mode = "add" \/ s \in wizard.touched => wizard.form.shown[s] = wizard.form.sent[s]

\* An edit sends the sections nobody touched as they were listed, those included
\* that no step shows: editing the address of a cluster does not drop its login.
UntouchedKept ==
    wizard.mode = "edit" =>
        \A s \in Sections \ wizard.touched : wizard.form.sent[s] = wizard.base.sec[s]

\* What a save will send is checked, is what the fields show, and is what was
\* there before wherever nobody entered anything.
SaveIsMeant == SentIsValid /\ SeenIsSent /\ UntouchedKept

\* At rest the page lists what the server has, except for what others changed
\* since, for a change announced while the first list was under way, and for a
\* request of this page that was refused after the file had been changed: a
\* refusal shows its error and asks for no list (ClusterWizard.tsx:99-100).
RestShowsServer ==
    fetch = "idle" => \A n \in Names : listed[n] = stored[n] \/ n \in unseen

\* The review step has a row for every section that will be saved.
ReviewTrue == wizard.step = LastStep =>
                  \A s \in Stepped : wizard.form.sent[s] # None => wizard.form.shown[s] # None
=============================================================================
