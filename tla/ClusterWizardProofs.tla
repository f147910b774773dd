------------------------ MODULE ClusterWizardProofs ------------------------
(***************************************************************************)
(* The cluster wizard, for any clusters, sections and bounds: what it      *)
(* sends passed its checks, a test result is about the settings beside it, *)
(* what is shown is what is sent, and an edit keeps what nobody touched.   *)
(*                                                                         *)
(* Three of these hold only together with what a wizard knows while a test *)
(* is under way; all of them are properties of the wizard alone, which is  *)
(* why they are stated of a wizard w and carried through each of the ways  *)
(* in which a step may change it.                                          *)
(***************************************************************************)
EXTENDS ClusterWizard, TLAPS

Wizard == [mode : Modes, step : 0..LastStep, form : Form,
           result : {"none", "shown"}, testing : BOOLEAN, saving : BOOLEAN,
           error : BOOLEAN, base : Cluster \cup {None}, touched : SUBSET Stepped,
           tested : Form, testOf : Form, hasty : BOOLEAN]

Checked(w)  == w.step > 0 => Valid(w.form)
Matching(w) == /\ w.result # "none" /\ ~w.hasty => w.tested = w.form
               /\ w.testing /\ ~w.hasty => w.testOf = w.form
Seen(w)     == \A s \in Stepped :
                   w.mode = "add" \/ s \in w.touched => w.form.shown[s] = w.form.sent[s]
Kept(w)     == w.mode = "edit" =>
                   \A s \in Sections \ w.touched : w.form.sent[s] = w.base.sec[s]

WizardOK(w) == w \in Wizard /\ Checked(w) /\ Matching(w) /\ Seen(w) /\ Kept(w)

\* A save that is under way passed the checks.
SaveOK(r) == r \in SaveRecord /\ (r.stage # "none" => Valid(r.form))

\* The rest of the page, and the server.
RestOK ==
    /\ stored \in Stored /\ listed \in Stored /\ snap \in Stored
    /\ fetch \in {"idle", "asked", "read", "failed"}
    /\ removal \in [target : Names \cup {None}, stage : Stages,
                    sentFor : Names \cup {None}]
    /\ removal.stage # "none" => removal.sentFor \in Names
    /\ changes \in 0..MaxChanges + 1
    /\ unseen \in SUBSET Names

WizardInv == WizardOK(wizard) /\ SaveOK(save) /\ SaveOK(stray) /\ RestOK

-----------------------------------------------------------------------------
(* The ways in which a wizard changes. *)

LEMMA StepFacts ==
    /\ Stepped \subseteq Sections
    /\ \A s \in Stepped : StepOf[s] \in 1..LastStep
BY DEF Stepped, Sections, StepOf, LastStep

LEMMA BlankType == BlankForm \in Form
BY StepFacts DEF BlankForm, NoSections, Form, Section

LEMMA FormOfType ==
    ASSUME NEW n \in Names, NEW c \in Cluster
    PROVE  FormOf(n, c) \in Form /\ FormOf(n, c).sent = c.sec
<1>1. Legible(c) \in [Sections -> Section \cup {Empty}]
    BY DEF Legible, Cluster, Section
<1> QED BY <1>1 DEF FormOf, Form, Cluster

\* A wizard as it is opened.
LEMMA MountedFacts ==
    ASSUME NEW mode \in Modes, NEW form \in Form, NEW base \in Cluster \cup {None},
           NEW w, w = Mounted(mode, form, base)
    PROVE  /\ w \in Wizard
           /\ w.mode = mode /\ w.step = 0 /\ w.form = form /\ w.base = base
           /\ w.result = "none" /\ ~w.testing /\ w.touched = {}
<1>1. /\ w.mode = mode /\ w.step = 0 /\ w.form = form /\ w.base = base
      /\ w.result = "none" /\ ~w.testing /\ w.touched = {}
    BY DEF Mounted
<1>2. 0 \in 0..LastStep
    BY DEF LastStep
<1>3. w \in Wizard
    BY <1>2, BlankType, Zenon DEF Mounted, Wizard
<1> QED BY <1>1, <1>3

LEMMA MountedAdd ==
    ASSUME NEW w, w = Mounted("add", BlankForm, None)
    PROVE  WizardOK(w)
<1>1. "add" \in Modes /\ None \in Cluster \cup {None}
    BY DEF Modes
<1>2. /\ w \in Wizard /\ w.mode = "add" /\ w.step = 0 /\ w.form = BlankForm
      /\ w.result = "none" /\ ~w.testing
    BY <1>1, MountedFacts, BlankType
<1>3. BlankForm.shown = BlankForm.sent
    BY DEF BlankForm
<1> QED BY <1>2, <1>3 DEF WizardOK, Checked, Matching, Seen, Kept

LEMMA MountedClosed ==
    ASSUME NEW w, w = Closed
    PROVE  WizardOK(w)
<1>1. "closed" \in Modes /\ None \in Cluster \cup {None}
    BY DEF Modes
<1>2. w = Mounted("closed", BlankForm, None)
    BY DEF Closed
<1>3. /\ w \in Wizard /\ w.mode = "closed" /\ w.step = 0
      /\ w.result = "none" /\ ~w.testing /\ w.touched = {}
    BY <1>1, <1>2, MountedFacts, BlankType
<1> QED BY <1>3 DEF WizardOK, Checked, Matching, Seen, Kept

LEMMA MountedEdit ==
    ASSUME NEW n \in Names, NEW c \in Cluster,
           NEW w, w = Mounted("edit", FormOf(n, c), c)
    PROVE  WizardOK(w)
<1>1. "edit" \in Modes
    BY DEF Modes
<1>2. /\ w \in Wizard /\ w.mode = "edit" /\ w.step = 0 /\ w.form = FormOf(n, c) /\ w.base = c
      /\ w.result = "none" /\ ~w.testing /\ w.touched = {}
    BY <1>1, MountedFacts, FormOfType
<1>3. w.form.sent = w.base.sec
    BY <1>2, FormOfType
<1> QED BY <1>2, <1>3 DEF WizardOK, Checked, Matching, Seen, Kept

\* The same wizard on another step, reached by CanNext or from a later one.
LEMMA AnotherStep ==
    ASSUME NEW w, WizardOK(w), NEW step \in 0..LastStep,
           step > 0 => Valid(w.form),
           NEW v, v = [w EXCEPT !.step = step]
    PROVE  WizardOK(v)
<1>1. v \in Wizard
    BY DEF WizardOK, Wizard
<1>2. v.step = step /\ v.form = w.form /\ v.mode = w.mode /\ v.touched = w.touched
      /\ v.base = w.base
    BY DEF WizardOK, Wizard
<1>3. v.result = w.result /\ v.testing = w.testing /\ v.tested = w.tested
      /\ v.testOf = w.testOf /\ v.hasty = w.hasty
    BY DEF WizardOK, Wizard
<1> QED BY <1>1, <1>2, <1>3 DEF WizardOK, Checked, Matching, Seen, Kept

\* Other data, on a step that allows them: the result goes, and a test that is under
\* way is no longer about them.
LEMMA OtherData ==
    ASSUME NEW w, WizardOK(w), NEW form \in Form, NEW touched \in SUBSET Stepped,
           w.step > 0 => Valid(form),
           \A s \in touched : form.shown[s] = form.sent[s],
           \A s \in Sections \ touched : /\ form.shown[s] = w.form.shown[s]
                                         /\ form.sent[s] = w.form.sent[s],
           NEW v, v = [w EXCEPT !.form = form, !.result = "none", !.tested = BlankForm,
                                !.touched = @ \cup touched, !.testOf = BlankForm,
                                !.hasty = @ \/ w.testing]
    PROVE  WizardOK(v)
<1>0. w \in Wizard
    BY DEF WizardOK
<1>1. /\ v.step = w.step /\ v.form = form /\ v.mode = w.mode /\ v.base = w.base
      /\ v.touched = w.touched \cup touched /\ v.result = "none" /\ v.testing = w.testing
    BY <1>0 DEF Wizard
<1>2. v.hasty = (w.hasty \/ w.testing)
    BY <1>0, Zenon DEF Wizard
<1>3. (w.hasty \/ w.testing) \in BOOLEAN
    BY Zenon
<1>4. v \in Wizard
    <2>1. w.touched \cup touched \in SUBSET Stepped
        BY <1>0 DEF Wizard
    <2> DEFINE h == w.hasty \/ w.testing
    <2> HIDE DEF h
    <2>2. h \in BOOLEAN
        BY <1>3 DEF h
    <2>3. v = [w EXCEPT !.form = form, !.result = "none", !.tested = BlankForm,
                        !.touched = w.touched \cup touched, !.testOf = BlankForm, !.hasty = h]
        BY DEF h
    <2> QED BY <1>0, <2>1, <2>2, <2>3, BlankType DEF Wizard
<1>5. Checked(v) /\ Matching(v)
    BY <1>1, <1>2 DEF Checked, Matching
<1>6. Seen(v)
    BY <1>1, StepFacts DEF Seen, WizardOK
<1>7. Kept(v)
    BY <1>1 DEF Kept, WizardOK
<1> QED BY <1>4, <1>5, <1>6, <1>7 DEF WizardOK

\* A test begins, about the data that are there; its answer, about those.
LEMMA TestBegun ==
    ASSUME NEW w, WizardOK(w),
           NEW v, v = [w EXCEPT !.testing = TRUE, !.result = "none", !.tested = BlankForm,
                                !.testOf = w.form, !.hasty = FALSE]
    PROVE  WizardOK(v)
<1>0. w \in Wizard
    BY DEF WizardOK
<1>1. /\ v.step = w.step /\ v.form = w.form /\ v.mode = w.mode /\ v.base = w.base
      /\ v.touched = w.touched /\ v.result = "none" /\ v.testOf = w.form
    BY <1>0 DEF Wizard
<1>2. v \in Wizard
    BY <1>0, BlankType DEF Wizard
<1> QED BY <1>1, <1>2 DEF WizardOK, Checked, Matching, Seen, Kept

LEMMA TestEnded ==
    ASSUME NEW w, WizardOK(w), w.testing,
           NEW v, v = [w EXCEPT !.testing = FALSE, !.result = "shown", !.tested = w.testOf,
                                !.testOf = BlankForm]
    PROVE  WizardOK(v)
<1>0. w \in Wizard
    BY DEF WizardOK
<1>1. /\ v.step = w.step /\ v.form = w.form /\ v.mode = w.mode /\ v.base = w.base
      /\ v.touched = w.touched /\ v.tested = w.testOf /\ ~v.testing /\ v.hasty = w.hasty
    BY <1>0 DEF Wizard
<1>2. v \in Wizard
    BY <1>0, BlankType DEF Wizard
<1> QED BY <1>1, <1>2 DEF WizardOK, Checked, Matching, Seen, Kept

\* Saving, refused: nothing of the data.
LEMMA SavingTurns ==
    ASSUME NEW w, WizardOK(w), NEW saving \in BOOLEAN, NEW error \in BOOLEAN,
           NEW v, v = [w EXCEPT !.saving = saving, !.error = error]
    PROVE  WizardOK(v)
<1>0. w \in Wizard
    BY DEF WizardOK
<1>1. /\ v.step = w.step /\ v.form = w.form /\ v.mode = w.mode /\ v.base = w.base
      /\ v.touched = w.touched /\ v.result = w.result /\ v.testing = w.testing
      /\ v.tested = w.tested /\ v.testOf = w.testOf /\ v.hasty = w.hasty
    BY <1>0 DEF Wizard
<1>2. v \in Wizard
    BY <1>0 DEF Wizard
<1> QED BY <1>1, <1>2 DEF WizardOK, Checked, Matching, Seen, Kept

LEMMA WizardUnchanged == ASSUME WizardOK(wizard), UNCHANGED wizard PROVE WizardOK(wizard')
BY DEF WizardOK, Checked, Matching, Seen, Kept

LEMMA RestUnchanged ==
    ASSUME RestOK, UNCHANGED <<stored, listed, snap, fetch, removal, changes, unseen>>
    PROVE  RestOK'
BY DEF RestOK

\* Saves and deletes stay within their bound.
LEMMA OneMoreChange ==
    ASSUME RestOK, MaySave \/ changes < MaxChanges
    PROVE  changes + 1 \in 0..MaxChanges + 1
BY WizardAssumption DEF RestOK, MaySave

LEMMA NoSaveOK == SaveOK(NoSave)
BY BlankType DEF SaveOK, NoSave, SaveRecord, Stages, Modes

-----------------------------------------------------------------------------
(* The steps of the page. *)

LEMMA InitInv == Init => WizardInv
<1> SUFFICES ASSUME Init PROVE WizardInv
    OBVIOUS
<1>1. WizardOK(wizard)
    BY MountedClosed DEF Init
<1>2. SaveOK(save) /\ SaveOK(stray)
    BY NoSaveOK DEF Init
<1>3. listed \in Stored /\ stored \in Stored
    BY WizardAssumption DEF Init, Stored
<1>4. RestOK
    BY <1>3, WizardAssumption DEF Init, RestOK, Stages
<1> QED BY <1>1, <1>2, <1>4 DEF WizardInv

\* Steps of the list, the delete dialog and other admins.
LEMMA ListSteps ==
    ASSUME WizardInv, ListRead \/ ListArrives \/ ListFails \/ Retry
    PROVE  WizardInv'
<1>1. UNCHANGED <<wizard, save, stray>>
    BY DEF ListRead, ListArrives, ListFails, Retry
<1>2. RestOK'
    BY DEF ListRead, ListArrives, ListFails, Retry, WizardInv, RestOK
<1> QED BY <1>1, <1>2, WizardUnchanged DEF WizardInv, SaveOK

LEMMA DeleteSteps ==
    ASSUME WizardInv,
           \/ \E n \in Names : AskDelete(n) \/ OtherAdmin(n)
           \/ CancelDelete \/ ConfirmDelete \/ DeleteHandled \/ DeleteAnswered
    PROVE  WizardInv'
<1>1. UNCHANGED <<wizard, save, stray>>
    BY DEF AskDelete, CancelDelete, ConfirmDelete, DeleteHandled, DeleteAnswered, OtherAdmin
<1>2. RestOK'
    <2> USE DEF WizardInv, RestOK, Stages
    <2>1. ASSUME NEW n \in Names, AskDelete(n) PROVE RestOK'
        BY <2>1 DEF AskDelete
    <2>2. CASE CancelDelete
        BY <2>2 DEF CancelDelete
    <2>3. CASE ConfirmDelete
        <3>1. changes' \in 0..MaxChanges + 1
            BY <2>3, OneMoreChange DEF ConfirmDelete, Counted
        <3>2. UNCHANGED <<stored, listed, snap, fetch, unseen>>
            BY <2>3 DEF ConfirmDelete
        <3>3. removal' = [removal EXCEPT !.stage = "sent", !.sentFor = removal.target]
              /\ removal.target \in Names
            BY <2>3 DEF ConfirmDelete
        <3> QED BY <3>1, <3>2, <3>3
    <2>4. CASE DeleteHandled
        <3>1. removal.sentFor \in Names /\ removal.stage = "sent"
            BY <2>4 DEF DeleteHandled
        <3>2. stored' \in Stored /\ unseen' \in SUBSET Names
            BY <2>4, <3>1 DEF DeleteHandled, Stored
        <3>3. PICK answer \in Stages : removal' = [removal EXCEPT !.stage = answer]
            BY <2>4 DEF DeleteHandled, Answers
        <3>4. UNCHANGED <<listed, snap, fetch, changes>>
            BY <2>4 DEF DeleteHandled
        <3> QED BY <3>1, <3>2, <3>3, <3>4
    <2>5. CASE DeleteAnswered
        BY <2>5 DEF DeleteAnswered, Announced
    <2>6. ASSUME NEW n \in Names, OtherAdmin(n) PROVE RestOK'
        <3>1. stored' \in Stored
            BY <2>6, StepFacts DEF OtherAdmin, Stored, Cluster, NoSections, Section
        <3>2. changes' \in 0..MaxChanges + 1
            BY <2>6, OneMoreChange DEF OtherAdmin, Counted
        <3>3. unseen' = unseen \cup {n} /\ UNCHANGED <<listed, snap, fetch, removal>>
            BY <2>6 DEF OtherAdmin
        <3> QED BY <3>1, <3>2, <3>3
    <2> QED BY <2>1, <2>2, <2>3, <2>4, <2>5, <2>6
<1> QED BY <1>1, <1>2, WizardUnchanged DEF WizardInv, SaveOK

LEMMA OpenSteps ==
    ASSUME WizardInv, OpenAdd \/ (\E n \in Names : OpenEdit(n))
    PROVE  WizardInv'
<1>1. UNCHANGED <<save, stray, stored, listed, snap, fetch, removal, changes, unseen>>
    BY DEF OpenAdd, OpenEdit
<1>2. ASSUME OpenAdd PROVE WizardOK(wizard')
    BY <1>2, MountedAdd DEF OpenAdd
<1>3. ASSUME NEW n \in Names, OpenEdit(n) PROVE WizardOK(wizard')
    <2>1. listed[n] \in Cluster
        BY <1>3 DEF OpenEdit, WizardInv, RestOK, Stored
    <2> QED BY <1>3, <2>1, MountedEdit DEF OpenEdit
<1>4. WizardOK(wizard')
    BY <1>2, <1>3
<1> QED BY <1>1, <1>4, RestUnchanged DEF WizardInv, SaveOK

LEMMA CloseStep == ASSUME WizardInv, CloseWizard PROVE WizardInv'
<1>1. WizardOK(wizard')
    BY MountedClosed DEF CloseWizard
<1>2. SaveOK(save') /\ SaveOK(stray')
    BY NoSaveOK DEF CloseWizard, WizardInv
<1>3. RestOK'
    BY RestUnchanged DEF CloseWizard, WizardInv
<1> QED BY <1>1, <1>2, <1>3 DEF WizardInv

\* The first step allows any name and address, the later ones change neither.
LEMMA ConnectionStepInv == ASSUME WizardInv, ConnectionStep PROVE WizardInv'
<1>1. wizard.form \in Form /\ wizard.step = 0
    BY DEF WizardInv, WizardOK, Wizard, ConnectionStep
<1>2. PICK form :
         /\ \/ \E n \in Names \cup {Bad} : form = [wizard.form EXCEPT !.name = n]
            \/ \E b \in Servers \cup {Bad} : form = [wizard.form EXCEPT !.boot = b]
         /\ Update(form, {})
    BY DEF ConnectionStep
<1>3. form \in Form /\ form.shown = wizard.form.shown /\ form.sent = wizard.form.sent
    BY <1>1, <1>2 DEF Form
<1>4. WizardOK(wizard')
    <2>1. {} \in SUBSET Stepped /\ ~(wizard.step > 0)
        BY <1>1
    <2>2. wizard' = [wizard EXCEPT !.form = form, !.result = "none", !.tested = BlankForm,
                                   !.touched = @ \cup {}, !.testOf = BlankForm,
                                   !.hasty = @ \/ wizard.testing]
        BY <1>2, Zenon DEF Update
    <2>3. WizardOK(wizard)
        BY DEF WizardInv
    <2> QED BY <1>3, <2>1, <2>2, <2>3, OtherData
<1>5. UNCHANGED <<save, stray, stored, listed, snap, fetch, removal, changes, unseen>>
    BY <1>2 DEF Update
<1> QED BY <1>4, <1>5, RestUnchanged DEF WizardInv, SaveOK

LEMMA EnterSectionInv ==
    ASSUME WizardInv, NEW s \in Stepped, NEW v \in Section, EnterSection(s, v)
    PROVE  WizardInv'
<1> DEFINE form == [wizard.form EXCEPT !.shown[s] = v, !.sent[s] = v]
<1>1. wizard.form \in Form /\ wizard.step = StepOf[s] /\ wizard.step > 0 /\ s \in Sections
    BY StepFacts DEF WizardInv, WizardOK, Wizard, EnterSection
<1>2. /\ form \in Form /\ form.name = wizard.form.name /\ form.boot = wizard.form.boot
      /\ form.shown[s] = v /\ form.sent[s] = v
      /\ \A r \in Sections \ {s} : /\ form.shown[r] = wizard.form.shown[r]
                                   /\ form.sent[r] = wizard.form.sent[r]
    BY <1>1 DEF Form
<1>3. Valid(form)
    BY <1>1, <1>2 DEF WizardInv, WizardOK, Checked, Valid
<1>4. Update(form, {s})
    BY DEF EnterSection
<1> HIDE DEF form
<1>5. WizardOK(wizard')
    <2>1. {s} \in SUBSET Stepped
        OBVIOUS
    <2> QED BY <1>2, <1>3, <1>4, <2>1, OtherData DEF Update, WizardInv
<1>6. UNCHANGED <<save, stray, stored, listed, snap, fetch, removal, changes, unseen>>
    BY <1>4 DEF Update
<1> QED BY <1>5, <1>6, RestUnchanged DEF WizardInv, SaveOK

LEMMA SectionSteps ==
    ASSUME WizardInv,
           SecurityStep \/ AuthStep \/ SchemaRegistryStep \/ KafkaConnectStep \/ KsqlStep
    PROVE  WizardInv'
<1>1. {"tls", "sasl", "schemaRegistry", "kafkaConnect", "ksql"} \subseteq Stepped
    BY DEF Stepped, StepOf
<1> QED BY <1>1, EnterSectionInv
    DEF SecurityStep, AuthStep, SchemaRegistryStep, KafkaConnectStep, KsqlStep

\* Next needs CanNext on the first step; the other ways lead back.
LEMMA GoToSteps ==
    ASSUME WizardInv, HandleNext \/ Back \/ WizardStepper
    PROVE  WizardInv'
<1>1. wizard.step \in 0..LastStep /\ LastStep \in Nat
    BY DEF WizardInv, WizardOK, Wizard, LastStep
<1>2. PICK step \in 0..LastStep : GoTo(step) /\ (step > 0 => Valid(wizard.form))
    <2>1. CASE HandleNext
        BY <1>1, <2>1 DEF HandleNext, CanNext, Valid, WizardInv, WizardOK, Checked
    <2>2. CASE Back
        BY <1>1, <2>2 DEF Back, WizardInv, WizardOK, Checked
    <2>3. CASE WizardStepper
        BY <1>1, <2>3 DEF WizardStepper, WizardInv, WizardOK, Checked
    <2> QED BY <2>1, <2>2, <2>3
<1>3. WizardOK(wizard')
    BY <1>2, AnotherStep DEF GoTo, WizardInv
<1>4. UNCHANGED <<save, stray, stored, listed, snap, fetch, removal, changes, unseen>>
    BY <1>2 DEF GoTo
<1> QED BY <1>3, <1>4, RestUnchanged DEF WizardInv, SaveOK

LEMMA TestSteps == ASSUME WizardInv, HandleTest \/ TestAnswered PROVE WizardInv'
<1>1. WizardOK(wizard')
    BY TestBegun, TestEnded DEF HandleTest, TestAnswered, WizardInv
<1>2. UNCHANGED <<save, stray, stored, listed, snap, fetch, removal, changes, unseen>>
    BY DEF HandleTest, TestAnswered
<1> QED BY <1>1, <1>2, RestUnchanged DEF WizardInv, SaveOK

LEMMA HandleSaveInv == ASSUME WizardInv, HandleSave PROVE WizardInv'
<1>1. WizardOK(wizard')
    BY SavingTurns DEF HandleSave, WizardInv
<1>2. SaveOK(save')
    <2>1. Valid(wizard.form) /\ wizard.mode \in Modes /\ wizard.form \in Form
        BY DEF HandleSave, WizardInv, WizardOK, Wizard, Checked, LastStep
    <2>2. save' = [stage |-> "sent", mode |-> wizard.mode, form |-> wizard.form]
        BY DEF HandleSave
    <2> QED BY <2>1, <2>2 DEF SaveOK, SaveRecord, Stages
<1>3. RestOK'
    <2>1. changes' \in 0..MaxChanges + 1
        BY OneMoreChange DEF HandleSave, WizardInv
    <2> QED BY <2>1 DEF HandleSave, WizardInv, RestOK
<1> QED BY <1>1, <1>2, <1>3 DEF HandleSave, WizardInv, SaveOK

\* What the server takes from a checked save is a cluster.
LEMMA AcceptedFacts ==
    ASSUME RestOK, NEW r, SaveOK(r), r.stage # "none", Accepted(r)
    PROVE  stored' \in Stored /\ unseen' \in SUBSET Names
<1>1. r.form \in Form /\ r.form.name \in Names /\ r.form.boot \in Servers
    BY DEF SaveOK, SaveRecord, Valid
<1>2. [boot |-> r.form.boot, sec |-> r.form.sent] \in Cluster
    BY <1>1 DEF Form, Cluster
<1> QED BY <1>1, <1>2 DEF Accepted, RestOK, Stored

LEMMA Handled ==
    ASSUME NEW r, SaveOK(r), r.stage # "none", NEW stage \in Stages,
           NEW q, q = [r EXCEPT !.stage = stage]
    PROVE  SaveOK(q)
BY DEF SaveOK, SaveRecord

LEMMA HandledSteps == ASSUME WizardInv, SaveHandled \/ StrayHandled PROVE WizardInv'
<1> USE DEF WizardInv
<1>0. "done" \in Stages /\ "refused" \in Stages
    BY DEF Stages
<1>1. UNCHANGED <<wizard, listed, snap, fetch, removal, changes>>
    BY DEF SaveHandled, StrayHandled
<1>2. SaveOK(save') /\ SaveOK(stray')
    BY <1>0, Handled DEF SaveHandled, StrayHandled, Answers
<1>3. stored' \in Stored /\ unseen' \in SUBSET Names
    <2>1. CASE SaveHandled
        BY <2>1, AcceptedFacts DEF SaveHandled, RestOK
    <2>2. CASE StrayHandled
        BY <2>2, AcceptedFacts DEF StrayHandled, RestOK
    <2> QED BY <2>1, <2>2
<1>4. RestOK'
    BY <1>1, <1>3 DEF RestOK
<1> QED BY <1>1, <1>2, <1>4, WizardUnchanged

LEMMA AnnouncedRest ==
    ASSUME RestOK, NEW n, Announced(n), UNCHANGED <<stored, listed, snap, removal, changes>>
    PROVE  RestOK'
BY DEF Announced, RestOK

LEMMA SaveAnswers ==
    ASSUME WizardInv, SaveSucceeds \/ SaveRefused \/ StraySucceeds \/ StrayRefused
    PROVE  WizardInv'
<1> USE DEF WizardInv
<1>1. SaveOK(save') /\ SaveOK(stray')
    BY NoSaveOK DEF SaveSucceeds, SaveRefused, StraySucceeds, StrayRefused
<1>2. WizardOK(wizard')
    <2>1. ASSUME SaveSucceeds \/ StraySucceeds PROVE WizardOK(wizard')
        BY <2>1, MountedClosed DEF SaveSucceeds, StraySucceeds, HandleSaved
    <2>2. ASSUME SaveRefused PROVE WizardOK(wizard')
        BY <2>2, SavingTurns DEF SaveRefused
    <2>3. ASSUME StrayRefused PROVE WizardOK(wizard')
        BY <2>3, WizardUnchanged DEF StrayRefused
    <2> QED BY <2>1, <2>2, <2>3
<1>3. RestOK'
    <2>1. ASSUME SaveSucceeds \/ StraySucceeds PROVE RestOK'
        BY <2>1, AnnouncedRest DEF SaveSucceeds, StraySucceeds, HandleSaved
    <2>2. ASSUME SaveRefused \/ StrayRefused PROVE RestOK'
        BY <2>2, RestUnchanged DEF SaveRefused, StrayRefused
    <2> QED BY <2>1, <2>2
<1> QED BY <1>1, <1>2, <1>3

LEMMA NextInv == ASSUME WizardInv, [Next]_vars PROVE WizardInv'
<1>1. CASE UserStep
    BY <1>1, OpenSteps, DeleteSteps, CloseStep, ConnectionStepInv, SectionSteps, GoToSteps,
       TestSteps, HandleSaveInv, ListSteps DEF UserStep
<1>2. CASE AnswerStep
    BY <1>2, ListSteps, TestSteps, HandledSteps, SaveAnswers, DeleteSteps DEF AnswerStep
<1>3. ASSUME ListFails \/ \E n \in Names : OtherAdmin(n) PROVE WizardInv'
    BY <1>3, ListSteps, DeleteSteps
<1>4. CASE UNCHANGED vars
    BY <1>4, WizardUnchanged, RestUnchanged DEF vars, WizardInv, SaveOK
<1> QED BY <1>1, <1>2, <1>3, <1>4 DEF Next

LEMMA WizardAlways == Spec => []WizardInv
<1>1. Init => WizardInv
    BY InitInv
<1>2. WizardInv /\ [Next]_vars => WizardInv'
    BY NextInv
<1> QED BY <1>1, <1>2, PTL DEF Spec

-----------------------------------------------------------------------------
(* The theorems. *)

\* The page, the wizard and the server hold what they are meant to hold; what the
\* server stores is always a cluster, whatever was typed.
THEOREM WizardTypeCorrect == Spec => []TypeOK
<1>1. WizardInv => TypeOK
    BY DEF WizardInv, WizardOK, Wizard, SaveOK, RestOK, TypeOK
<1> QED BY <1>1, WizardAlways, PTL

\* No form that fails the checks of the first step is reviewed or sent.
THEOREM OnlyValidIsSent == Spec => []SentIsValid
<1>1. WizardInv => SentIsValid
    BY DEF WizardInv, WizardOK, Checked, SaveOK, SentIsValid
<1> QED BY <1>1, WizardAlways, PTL

\* A test result stands next to the settings it is about, unless they were edited
\* while the test was under way.
THEOREM ResultIsForDataAlways == Spec => []ResultIsForData
<1>1. WizardInv => ResultIsForData
    BY DEF WizardInv, WizardOK, Matching, ResultIsForData
<1> QED BY <1>1, WizardAlways, PTL

\* What the fields show of a new cluster or of a section that was entered is sent.
THEOREM SeenIsSentAlways == Spec => []SeenIsSent
<1>1. WizardInv => SeenIsSent
    BY DEF WizardInv, WizardOK, Seen, SeenIsSent
<1> QED BY <1>1, WizardAlways, PTL

\* An edit sends every section that nobody touched as it was listed.
THEOREM UntouchedKeptAlways == Spec => []UntouchedKept
<1>1. WizardInv => UntouchedKept
    BY DEF WizardInv, WizardOK, Kept, UntouchedKept
<1> QED BY <1>1, WizardAlways, PTL

\* A save sends what was checked, what is seen, and the rest as it was.
THEOREM SavesAreMeant == Spec => []SaveIsMeant
<1>1. SentIsValid /\ SeenIsSent /\ UntouchedKept => SaveIsMeant
    BY DEF SaveIsMeant
<1> QED BY <1>1, OnlyValidIsSent, SeenIsSentAlways, UntouchedKeptAlways, PTL

-----------------------------------------------------------------------------
(* The list of clusters, which announcements overtake. *)

\* A copy of the server's clusters, but for what is noted as unseen.
Current(copy) == \A n \in Names : copy[n] = stored[n] \/ n \in unseen

\* What was read for the list may arrive at any time; until then nothing is listed
\* as current.
ListInv == /\ fetch = "read" => Current(snap)
           /\ fetch = "idle" => Current(listed)

LEMMA ListUnchanged ==
    ASSUME ListInv, UNCHANGED <<stored, listed, snap, fetch, unseen>>
    PROVE  ListInv'
BY DEF ListInv, Current

\* A change of one cluster is noted.
LEMMA ChangeNoted ==
    ASSUME ListInv, stored \in Stored, NEW n \in Names, NEW c,
           stored' = [stored EXCEPT ![n] = c], unseen' = unseen \cup {n},
           UNCHANGED <<listed, snap, fetch>>
    PROVE  ListInv'
<1>1. ASSUME NEW m \in Names PROVE stored'[m] = stored[m] \/ m \in unseen'
    BY DEF Stored
<1> QED BY <1>1 DEF ListInv, Current

\* An announcement leaves the list as it is, or asked for.
LEMMA AnnouncedList ==
    ASSUME ListInv, NEW n, Announced(n), UNCHANGED <<stored, listed, snap>>
    PROVE  ListInv'
BY DEF Announced, ListInv, Current

LEMMA ListHandled ==
    ASSUME ListInv, WizardInv, SaveHandled \/ StrayHandled \/ DeleteHandled
    PROVE  ListInv'
<1>1. stored \in Stored
    BY DEF WizardInv, RestOK
<1>2. ASSUME NEW r, SaveOK(r), r.stage = "sent", Accepted(r), UNCHANGED <<listed, snap, fetch>>
      PROVE  ListInv'
    BY <1>1, <1>2, ChangeNoted DEF SaveOK, Valid, Accepted
<1>3. CASE SaveHandled
    BY <1>2, <1>3, ListUnchanged DEF SaveHandled, WizardInv
<1>4. CASE StrayHandled
    BY <1>2, <1>4, ListUnchanged DEF StrayHandled, WizardInv
<1>5. CASE DeleteHandled
    <2>1. removal.sentFor \in Names
        BY <1>5 DEF DeleteHandled, WizardInv, RestOK
    <2> QED BY <1>1, <1>5, <2>1, ChangeNoted, ListUnchanged DEF DeleteHandled
<1> QED BY <1>3, <1>4, <1>5

LEMMA ListAnswered ==
    ASSUME ListInv, WizardInv,
           SaveSucceeds \/ SaveRefused \/ StraySucceeds \/ StrayRefused \/ DeleteAnswered
    PROVE  ListInv'
<1>1. CASE SaveSucceeds \/ StraySucceeds
    BY <1>1, AnnouncedList DEF SaveSucceeds, StraySucceeds, HandleSaved
<1>2. CASE SaveRefused \/ StrayRefused
    BY <1>2, ListUnchanged DEF SaveRefused, StrayRefused
<1>3. CASE DeleteAnswered
    BY <1>3, AnnouncedList, ListUnchanged DEF DeleteAnswered
<1> QED BY <1>1, <1>2, <1>3

LEMMA ListNext == ASSUME ListInv, WizardInv, [Next]_vars PROVE ListInv'
<1>1. CASE UserStep
    BY <1>1, ListUnchanged
    DEF UserStep, OpenAdd, OpenEdit, AskDelete, CloseWizard, ConnectionStep, Update, SecurityStep,
        AuthStep, SchemaRegistryStep, KafkaConnectStep, KsqlStep, EnterSection, HandleNext, GoTo,
        Back, WizardStepper, HandleTest, HandleSave, CancelDelete, ConfirmDelete, Retry, ListInv
<1>2. CASE ListRead \/ ListArrives \/ ListFails
    BY <1>2 DEF ListRead, ListArrives, ListFails, ListInv, Current
<1>3. CASE TestAnswered
    BY <1>3, ListUnchanged DEF TestAnswered
<1>4. ASSUME NEW n \in Names, OtherAdmin(n) PROVE ListInv'
    <2>1. PICK c : stored' = [stored EXCEPT ![n] = c]
        BY <1>4 DEF OtherAdmin
    <2>2. stored \in Stored /\ unseen' = unseen \cup {n} /\ UNCHANGED <<listed, snap, fetch>>
        BY <1>4 DEF OtherAdmin, WizardInv, RestOK
    <2> QED BY <2>1, <2>2, ChangeNoted
<1>5. CASE UNCHANGED vars
    BY <1>5, ListUnchanged DEF vars
<1> QED BY <1>1, <1>2, <1>3, <1>4, <1>5, ListHandled, ListAnswered DEF Next, AnswerStep

\* When the list is at rest it shows what the server has, whatever overtook it, but
\* for what others changed, for what was announced during the first read, and for
\* requests of this page that the server refused after it had changed its file.
THEOREM RestAlwaysShows == Spec => []RestShowsServer
<1>1. Init => ListInv
    BY DEF Init, ListInv
<1>2. ListInv /\ WizardInv /\ [Next]_vars => ListInv'
    BY ListNext
<1>3. ListInv => RestShowsServer
    BY DEF ListInv, Current, RestShowsServer
<1> QED BY <1>1, <1>2, <1>3, WizardAlways, PTL DEF Spec
=============================================================================
