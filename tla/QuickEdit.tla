------------------------------ MODULE QuickEdit ------------------------------
(***************************************************************************)
(* In-place editing in the browser (core/modules/quickedit/js): entities   *)
(* and fields are Backbone models whose `state` attribute is driven by     *)
(* user events, by callbacks deferred with _.defer() and by AJAX replies.  *)
(*                                                                         *)
(* `page` holds everything the browser keeps; a handler is an operator     *)
(* from page to page, because a set() runs the listeners of the change it  *)
(* causes, nested set() calls included, before it returns.  `tempstore` is *)
(* the server's PrivateTempStore copy of each entity.                      *)
(***************************************************************************)
EXTENDS Integers, Sequences, FiniteSets

CONSTANTS
    Entity,        \* the in-place editable entities on the page, two at most
    First,         \* the one that comes first
    Field,         \* their fields
    EntityOf,      \* the entity of each field
    PlainField,    \* fields edited by the plain text editor, not by a form
    None,          \* no field, no entity
    Destroyed,     \* a field model that is no longer on the page
    MaxEvents,     \* the user's clicks, moves and changes
    MaxFailures    \* requests that fail

ASSUME QuickEditAssumption ==
    /\ \E e \in Entity : Entity = {First, e}
    /\ IsFiniteSet(Field) /\ EntityOf \in [Field -> Entity]
    /\ PlainField \subseteq Field
    /\ Field \cap Entity = {} /\ {None, Destroyed} \cap (Field \cup Entity) = {}
    /\ None # Destroyed
    /\ {MaxEvents, MaxFailures} \subseteq Nat

VARIABLES page, tempstore, events, failures

vars == <<page, tempstore, events, failures>>

FieldsOf(e) == {f \in Field : EntityOf[f] = e}

(***************************************************************************)
(* The states of FieldModel and EntityModel, numbered in their sequence.   *)
(***************************************************************************)
FieldStates ==
    [inactive |-> 0, candidate |-> 1, highlighted |-> 2, activating |-> 3,
     active |-> 4, changed |-> 5, saving |-> 6, saved |-> 7, invalid |-> 8]

EntityStates ==
    [closed |-> 0, launching |-> 1, opening |-> 2, opened |-> 3,
     committing |-> 4, deactivating |-> 5, closing |-> 6]

activeFieldStates == {"activating", "active"}
changedFieldStates == {"changed", "saving", "saved", "invalid"}
readyFieldStates == {"candidate", "highlighted"}

fieldFollowsStateSequence(from, to) == FieldStates[from] < FieldStates[to]

entityFollowsStateSequence(from, to) == EntityStates[from] < EntityStates[to]

(***************************************************************************)
(* The page.                                                               *)
(***************************************************************************)
\* isCommitting is a mutex.  fieldsInTempStore is an array; ownArray: it is no
\* longer the one that the defaults of all entities share.
EntityModel ==
    [state : DOMAIN EntityStates, isActive : BOOLEAN, inTempStore : BOOLEAN,
     isDirty : BOOLEAN, isCommitting : BOOLEAN,
     fieldsInTempStore : SUBSET Field, ownArray : BOOLEAN, reload : BOOLEAN]

\* editor: the three views of setupEditor() exist;
\* form: the form container of the form editor and the form in it.
FieldModel ==
    [state : DOMAIN FieldStates, editor : BOOLEAN,
     form : {"none", "loading", "loaded"}]

\* A field request; live: the FieldModel its callback refers to is still the
\* one on the page.
Request ==
    [kind : {"form", "saveform", "submit"}, field : Field, reset : BOOLEAN,
     live : BOOLEAN]

\* A deferred callback and the model it is about, a destroyed one perhaps.
Task ==
    ({"opening", "opened", "reopened", "closing", "closed", "confirm"}
        \X Entity)
      \cup ({"active", "html", "candidate", "rerender"} \X (Field \cup {Destroyed}))

Page ==
    [entity : [Entity -> EntityModel], field : [Field -> FieldModel],
     activeField : Field \cup {None, Destroyed}, activeModal : Entity \cup {None},
     reload : BOOLEAN, timers : Seq(Task), requests : SUBSET Request,
     commits : [Entity -> Nat]]

newField == [state |-> "inactive", editor |-> FALSE, form |-> "none"]

loadedPage ==
    [entity |-> [e \in Entity |->
        [state |-> "closed", isActive |-> FALSE, inTempStore |-> FALSE,
         isDirty |-> FALSE, isCommitting |-> FALSE,
         fieldsInTempStore |-> {}, ownArray |-> FALSE, reload |-> FALSE]],
     field |-> [f \in Field |-> newField],
     activeField |-> None, activeModal |-> None, reload |-> FALSE,
     timers |-> <<>>, requests |-> {}, commits |-> [e \in Entity |-> 0]]

TypeOK ==
    /\ page \in Page
    /\ tempstore \in [Entity -> [exists : BOOLEAN, changed : SUBSET Field]]
    /\ events \in 0..MaxEvents
    /\ failures \in 0..MaxFailures

Init ==
    /\ page = loadedPage
    /\ tempstore = [e \in Entity |-> [exists |-> FALSE, changed |-> {}]]
    /\ events = 0
    /\ failures = 0

fieldState(p, f) == p.field[f].state
entityState(p, e) == p.entity[e].state

\* _.defer(): callbacks run in the order they were deferred.
defer(p, kind, x) == [p EXCEPT !.timers = Append(@, <<kind, x>>)]

\* One callback for each field of S whose change of state is announced.
deferEach(p, kind, e, S) ==
    [p EXCEPT !.timers = @ \o [i \in 1..Cardinality(S) |-> <<kind, e>>]]

(***************************************************************************)
(* Fields S of one entity change their state to `to`: the in-place editor, *)
(* the entity and the app listen, in this order.  S has one element except *)
(* where EntityModel.stateChange() sets many fields to 'candidate',        *)
(* 'saving' or 'inactive'.                                                 *)
(***************************************************************************)
\* The plain text editor becomes active by itself and saves through a hidden
\* form that is fetched first; the form editor fetches its form to become
\* active and saves by submitting it.
requestKind(f, from, to) ==
    CASE f \in PlainField /\ to = "saving" -> "saveform"
      [] f \notin PlainField /\ to = "saving" -> "submit"
      [] f \notin PlainField /\ to = "activating" /\ from # "invalid" -> "form"
      [] OTHER -> "none"

request(p, kind, f, live) ==
    [kind |-> kind, field |-> f, live |-> live,
     reset |-> kind # "submit" /\ ~p.entity[EntityOf[f]].inTempStore]

formAfter(f, fm, to) ==
    CASE to = "candidate" -> "none"
      [] requestKind(f, fm.state, to) = "form" /\ fm.editor -> "loading"
      [] OTHER -> fm.form

editorViewStateChange(p, S, to) ==
    LET edited == {f \in S : p.field[f].editor}
        kind(f) == requestKind(f, fieldState(p, f), to)
        q == [p EXCEPT
                !.field = [f \in Field |->
                    IF f \in S
                    THEN [p.field[f] EXCEPT !.state = to,
                              !.form = formAfter(f, p.field[f], to)]
                    ELSE p.field[f]],
                !.requests = @ \cup
                    {request(p, kind(f), f, TRUE) :
                        f \in {g \in edited : kind(g) # "none"}}]
    IN  IF to = "activating" /\ edited \cap PlainField # {}
        THEN defer(q, "active", CHOOSE f \in edited : TRUE)
        ELSE q

\* set() of one attribute of an entity is validated, and validate() sees the
\* other attributes too: it rejects everything while isCommitting is TRUE.
mutexHeld(p, e) == p.entity[e].isCommitting

\* The id is pushed to the array itself, so to that of all who share it.
push(p, e, S) ==
    LET sharing == IF p.entity[e].ownArray THEN {e}
                   ELSE {x \in Entity : ~p.entity[x].ownArray}
    IN  [p EXCEPT !.entity = [x \in Entity |->
            IF x \in sharing
            THEN [p.entity[x] EXCEPT !.fieldsInTempStore = @ \cup S]
            ELSE p.entity[x]]]

updateInTempStoreAttributes(p, e, S, to) ==
    IF to # "saved" THEN p
    ELSE IF mutexHeld(p, e) THEN push(p, e, S)
    ELSE [push(p, e, S) EXCEPT
            !.entity[e] = [@ EXCEPT !.inTempStore = TRUE, !.ownArray = TRUE]]

fieldsHaveAcceptableStates(p, e, accepted) ==
    \A f \in FieldsOf(e) : fieldState(p, f) \in accepted

\* Variant: the mutex is not looked at.
mayCommitAgain(p, e) == fieldsHaveAcceptableStates(p, e, readyFieldStates)

mayCommit(p, e) ==
    ~mutexHeld(p, e) /\ fieldsHaveAcceptableStates(p, e, readyFieldStates)

\* isCommitting is set, and the request that saves the entity sent.
save(p, e) ==
    IF mayCommit(p, e)
    THEN [p EXCEPT !.entity[e].isCommitting = TRUE, !.commits[e] = @ + 1]
    ELSE p

fieldStateChange(p, e, S, to) ==
    CASE entityState(p, e) = "opening" -> deferEach(p, "opened", e, S)
      [] entityState(p, e) = "opened" ->
             IF to = "changed"
             THEN [p EXCEPT !.entity[e].isDirty = TRUE]
             ELSE updateInTempStoreAttributes(p, e, S, to)
      [] entityState(p, e) = "committing" ->
             save(IF to = "invalid"
                  THEN deferEach(p, "reopened", e, S)
                  ELSE updateInTempStoreAttributes(p, e, S, to), e)
      [] entityState(p, e) = "deactivating" -> deferEach(p, "closing", e, S)
      [] entityState(p, e) = "closing" -> deferEach(p, "closed", e, S)
      [] OTHER -> p

editorStateChange(p, S, to) ==
    CASE to \in activeFieldStates ->
             [p EXCEPT !.activeField = CHOOSE f \in S : TRUE]
      [] to = "candidate" /\ p.activeField \in S ->
             [p EXCEPT !.activeField = None]
      [] OTHER -> p

changeState(p, e, S, to) ==
    IF S = {} THEN p
    ELSE editorStateChange(
             fieldStateChange(editorViewStateChange(p, S, to), e, S, to),
             S, to)

(***************************************************************************)
(* fieldModel.set('state', to): validate() asks the app.  `reason` is the  *)
(* reason given in the options, "none" if there is none.                   *)
(***************************************************************************)
followsOrAllowed(from, to) ==
    \/ fieldFollowsStateSequence(from, to)
    \/ /\ from \in activeFieldStates
                     \cup {"changed", "invalid", "highlighted", "saved"}
       /\ to = "candidate"
    \/ from = "invalid" /\ to \in {"saving", "activating"}

\* Variant: a mouse that leaves a field stops its editing.
neverRejected(from, to, reason) == FALSE

rejectedOnLeave(from, to, reason) ==
    /\ reason = "mouseleave"
    /\ from \in activeFieldStates \cup {"changed", "invalid"}
    /\ to = "candidate"

\* Which fields of S may change to `to`.
acceptEditorStateChange(p, S, to, reason) ==
    {f \in S :
        LET from == fieldState(p, f)
        IN  /\ from # to
            /\ \/ reason \in {"stop", "rerender"}
               \/ /\ followsOrAllowed(from, to)
                  /\ ~rejectedOnLeave(from, to, reason)
                  /\ ~ /\ from = "invalid"
                       /\ to \in activeFieldStates
                       /\ p.activeField \notin {None, f}}

setStates(p, e, S, to, reason) ==
    changeState(p, e, acceptEditorStateChange(p, S, to, reason), to)

\* acceptEditorStateChange() makes room for the field that is about to be
\* active: the active field stops being edited, or is saved.
handOver(p, f, to) ==
    LET a == p.activeField
        set(s) == setStates(p, EntityOf[a], {a}, s, "none")
        stop == IF a = Destroyed THEN p
                ELSE CASE fieldState(p, a) \in activeFieldStates -> set("candidate")
                       [] fieldState(p, a) \in {"changed", "invalid"} -> set("saving")
                       [] OTHER -> p
    IN  IF /\ a \notin {None, f}
           /\ fieldState(p, f) \in readyFieldStates \cup {"invalid"}
           /\ to \in activeFieldStates
           /\ followsOrAllowed(fieldState(p, f), to)
        THEN IF fieldState(p, f) = "invalid"
             THEN [stop EXCEPT !.activeField = f]
             ELSE stop
        ELSE p

setField(p, f, to, reason) ==
    changeState(handOver(p, f, to), EntityOf[f],
                acceptEditorStateChange(p, {f}, to, reason), to)

(***************************************************************************)
(* entityModel.set('state', to): validate(), then stateChange() and the    *)
(* app's appStateChange() and enforceSingleActiveEntity().  `option` is    *)
(* the option given, `accepted` the accept-field-states.                   *)
(***************************************************************************)
acceptStateChange(from, to, option) ==
    \/ entityFollowsStateSequence(from, to)
    \/ from = "closing" /\ to = "closed"
    \/ from = "committing" /\ to = "opened"
         /\ option \in {"invalid", "networkerror"}
    \/ from = "deactivating" /\ to = "opened" /\ option = "confirming"

launching(p, e) ==
    defer([p EXCEPT
             !.entity[e].state = "launching", !.reload = FALSE,
             !.field = [f \in Field |->
                 IF f \in FieldsOf(e) THEN [p.field[f] EXCEPT !.editor = TRUE]
                 ELSE p.field[f]]],
          "opening", e)

opening(p, e) ==
    setStates([p EXCEPT !.entity[e].state = "opening"], e, FieldsOf(e),
              "candidate", "none")

unsavedChanges(p, e) ==
    \/ p.entity[e].fieldsInTempStore # {}
    \/ \E f \in FieldsOf(e) : fieldState(p, f) \in {"changed", "invalid"}

\* All fields become candidates; those that are get their change announced.
deactivate(p, e) ==
    LET ready == {f \in FieldsOf(e) : fieldState(p, f) \in readyFieldStates}
        q == setStates(
               [p EXCEPT !.entity[e] = [@ EXCEPT
                   !.state = "deactivating",
                   !.reload =
                      \/ p.entity[e].fieldsInTempStore # {}
                      \/ \E f \in FieldsOf(e) : fieldState(p, f) = "invalid"]],
               e, FieldsOf(e) \ ready, "candidate", "none")
    IN  deferEach(q, "closing", e, ready)

deactivating(p, e, option) ==
    IF unsavedChanges(p, e) /\ option \notin {"saved", "confirmed"}
    THEN defer([p EXCEPT !.entity[e].state = "opened"], "confirm", e)
    ELSE deactivate(p, e)

\* The other active entity is deactivated too, if its state allows it.
others(p, e) ==
    {x \in Entity \ {e} :
        /\ p.entity[x].isActive
        /\ ~mutexHeld(p, x)
        /\ acceptStateChange(entityState(p, x), "deactivating", "none")}

\* Variant: it is deactivated without a question.
openedAtOnce(p, e) ==
    LET q == [p EXCEPT !.entity[e] =
                 [@ EXCEPT !.state = "opened", !.isActive = TRUE]]
    IN  IF p.entity[e].isActive \/ others(p, e) = {} THEN q
        ELSE deactivate(q, CHOOSE x \in others(p, e) : TRUE)

opened(p, e) ==
    LET q == [p EXCEPT !.entity[e] =
                 [@ EXCEPT !.state = "opened", !.isActive = TRUE]]
    IN  IF p.entity[e].isActive \/ others(p, e) = {} THEN q
        ELSE deactivating(q, CHOOSE x \in others(p, e) : TRUE, "none")

committing(p, e) ==
    LET in(states) == {f \in FieldsOf(e) : fieldState(p, f) \in states}
        q == setStates([p EXCEPT !.entity[e].state = "committing"], e,
                       in({"active"}), "candidate", "none")
    IN  setStates(q, e, in(changedFieldStates), "saving", "none")

closing(p, e) ==
    setStates([p EXCEPT !.entity[e].state = "closing"], e, FieldsOf(e),
              "inactive", "stop")

closed(p, e) ==
    IF p.reload THEN loadedPage
    ELSE [p EXCEPT
            !.entity[e] = [@ EXCEPT !.state = "closed", !.isActive = FALSE,
                               !.inTempStore = FALSE, !.isDirty = FALSE],
            !.field = [f \in Field |->
                IF f \in FieldsOf(e) THEN [p.field[f] EXCEPT !.editor = FALSE]
                ELSE p.field[f]]]

setEntity(p, e, to, option, accepted) ==
    IF /\ entityState(p, e) # to
       /\ ~mutexHeld(p, e)
       /\ acceptStateChange(entityState(p, e), to, option)
       /\ fieldsHaveAcceptableStates(p, e, accepted)
    THEN CASE to = "launching" -> launching(p, e)
           [] to = "opening" -> opening(p, e)
           [] to = "opened" -> opened(p, e)
           [] to = "committing" -> committing(p, e)
           [] to = "deactivating" -> deactivating(p, e, option)
           [] to = "closing" -> closing(p, e)
           [] to = "closed" -> closed(p, e)
    ELSE p

anyFieldState == DOMAIN FieldStates

(***************************************************************************)
(* The user, who may act between any two callbacks.  A modal dialog keeps  *)
(* the user from everything else.                                          *)
(***************************************************************************)
UserEvent ==
    /\ events < MaxEvents /\ events' = events + 1
    /\ UNCHANGED <<tempstore, failures>>

OnPage == UserEvent /\ page.activeModal = None

ClickQuickEdit(e) ==
    /\ OnPage /\ ~page.entity[e].isActive
    /\ page' = setEntity(page, e, "launching", "none", anyFieldState)

onMouseEnter(f) ==
    /\ OnPage /\ page.field[f].editor
    /\ page' = setField(page, f, "highlighted", "none")

onMouseLeave(f) ==
    /\ OnPage /\ page.field[f].editor
    /\ page' = setField(page, f, "candidate", "mouseleave")

onClick(f) ==
    /\ OnPage /\ page.field[f].editor
    /\ page' = setField(page, f, "activating", "none")

\* Typing in the editable element.
keyup(f) ==
    /\ OnPage /\ page.field[f].editor /\ f \in PlainField
    /\ fieldState(page, f) \in {"active"} \cup changedFieldStates
    /\ page' = setField(page, f, "changed", "none")

formUpdated(f) ==
    /\ OnPage /\ page.field[f].form = "loaded"
    /\ page' = setField(page, f, IF fieldState(page, f) = "invalid"
                                 THEN "activating" ELSE "changed", "none")

onClickSave(e) ==
    /\ OnPage /\ page.entity[e].isActive /\ page.entity[e].isDirty
    /\ entityState(page, e) = "opened"
    /\ page' = setEntity(page, e, "committing", "none", anyFieldState)

onClickCancel(e) ==
    /\ OnPage /\ page.entity[e].isActive
    /\ page' = setEntity(page, e, "deactivating", "none", anyFieldState)

ModalSave(e) ==
    /\ UserEvent /\ page.activeModal = e
    /\ page' = setEntity([page EXCEPT !.activeModal = None], e, "committing",
                         "confirmed", anyFieldState)

ModalDiscard(e) ==
    /\ UserEvent /\ page.activeModal = e
    /\ LET p == setEntity([page EXCEPT !.activeModal = None], e,
                          "deactivating", "confirmed", anyFieldState)
       IN  page' = IF p.entity[e].reload
                   THEN [p EXCEPT !.reload = TRUE,
                                  !.entity[e].reload = mutexHeld(p, e)]
                   ELSE p

(***************************************************************************)
(* Deferred callbacks.                                                     *)
(***************************************************************************)
confirmEntityDeactivation(p, e) ==
    IF p.activeModal = None THEN [p EXCEPT !.activeModal = e] ELSE p

\* entities.findWhere({isActive: true}).
activeEntity(p) ==
    LET active == {e \in Entity : p.entity[e].isActive}
    IN  CASE active = {} -> None
          [] First \in active -> First
          [] OTHER -> CHOOSE e \in active : TRUE

\* The last callback of renderUpdatedField(): the model is destroyed and the
\* field rendered again with a new one, a candidate at once if its entity is
\* the first active one.  Other callbacks may still refer to the old model.
rerender(p, f) ==
    LET e == EntityOf[f]
        q == setStates(p, e, {f}, "inactive", "rerender")
        edited == activeEntity(q) = e
        r == [q EXCEPT
                !.field[f] = [newField EXCEPT !.editor = edited],
                !.activeField = IF @ = f THEN Destroyed ELSE @,
                !.timers = [i \in DOMAIN @ |->
                    IF @[i][2] = f THEN <<@[i][1], Destroyed>> ELSE @[i]],
                !.requests = {[x EXCEPT !.live = @ /\ x.field # f] : x \in @}]
    IN  IF edited THEN setStates(r, e, {f}, "candidate", "none") ELSE r

\* Nobody listens to a destroyed model.
runTask(p, kind, x) ==
    IF x = Destroyed THEN p
    ELSE CASE kind = "opening" -> setEntity(p, x, "opening", "none", anyFieldState)
           [] kind = "opened" -> setEntity(p, x, "opened", "none", readyFieldStates)
           [] kind = "reopened" -> setEntity(p, x, "opened", "invalid", anyFieldState)
           [] kind = "closing" -> setEntity(p, x, "closing", "none", readyFieldStates)
           [] kind = "closed" -> setEntity(p, x, "closed", "none", {"inactive"})
           [] kind = "confirm" -> confirmEntityDeactivation(p, x)
           [] kind = "active" -> setField(p, x, "active", "none")
           [] kind = "html" -> defer(p, "candidate", x)
           [] kind = "candidate" ->
                  defer(setField(p, x, "candidate", "none"), "rerender", x)
           [] kind = "rerender" -> rerender(p, x)

RunTimer ==
    /\ page.timers # <<>>
    /\ page' = runTask([page EXCEPT !.timers = Tail(@)],
                       Head(page.timers)[1], Head(page.timers)[2])
    /\ UNCHANGED <<tempstore, events, failures>>

(***************************************************************************)
(* Replies.  A request's effect on the server and its reply's effect on    *)
(* the page are one step; a request that fails may have had its effect.    *)
(***************************************************************************)
answered(r) == [page EXCEPT !.requests = @ \ {r}]

\* QuickEditController::fieldForm() takes the tempstore's copy of the entity, or
\* puts the stored entity there; the form's submitForm() stores the copy with
\* the new value; entitySave() takes it out.
fieldForm(copy, reset) ==
    IF copy.exists /\ ~reset THEN copy ELSE [exists |-> TRUE, changed |-> {}]

submitForm(copy, f) ==
    [exists |-> TRUE, changed |-> fieldForm(copy, FALSE).changed \cup {f}]

entitySave == [exists |-> FALSE, changed |-> {}]

FormLoaded(r) ==
    LET e == EntityOf[r.field]
        p == answered(r)
    IN  /\ r.kind = "form"
        /\ tempstore' = [tempstore EXCEPT ![e] = fieldForm(@, r.reset)]
        /\ page' = IF ~r.live THEN p
                   ELSE setField(
                          IF p.field[r.field].form = "loading"
                          THEN [p EXCEPT !.field[r.field].form = "loaded"]
                          ELSE p, r.field, "active", "none")
        /\ UNCHANGED <<events, failures>>

SaveFormLoaded(r) ==
    /\ r.kind = "saveform"
    /\ tempstore' = [tempstore EXCEPT ![EntityOf[r.field]] = fieldForm(@, r.reset)]
    /\ page' = [answered(r) EXCEPT
                  !.requests = @ \cup {request(page, "submit", r.field, r.live)}]
    /\ UNCHANGED <<events, failures>>

\* quickeditFieldFormSaved; the form editor defers setting the html.
FieldFormSaved(r) ==
    LET f == r.field
        p == setField(answered(r), f, "saved", "none")
    IN  /\ r.kind = "submit"
        /\ tempstore' = [tempstore EXCEPT ![EntityOf[f]] = submitForm(@, f)]
        /\ page' = IF ~r.live THEN answered(r)
                   ELSE defer(p, IF f \in PlainField THEN "candidate" ELSE "html", f)
        /\ UNCHANGED <<events, failures>>

FieldFormValidationErrors(r) ==
    /\ r.kind = "submit"
    /\ tempstore' = [tempstore EXCEPT ![EntityOf[r.field]] = fieldForm(@, FALSE)]
    /\ page' = IF ~r.live THEN answered(r)
               ELSE setField(answered(r), r.field, "invalid", "none")
    /\ UNCHANGED <<events, failures>>

\* form.load()'s error() resets whatever field is active; the request that
\* submits a form has no error handler of its own.
FormLoadError(r) ==
    /\ failures < MaxFailures
    /\ failures' = failures + 1
    /\ page' = IF r.kind = "submit" \/ page.activeField \notin Field
               THEN answered(r)
               ELSE setField(answered(r), page.activeField, "candidate", "none")
    /\ \/ UNCHANGED tempstore
       \/ tempstore' = [tempstore EXCEPT ![EntityOf[r.field]] = fieldForm(@, r.reset)]
       \/ /\ r.kind = "submit"
          /\ tempstore' = [tempstore EXCEPT ![EntityOf[r.field]] =
                             submitForm(@, r.field)]
    /\ UNCHANGED events

clearTempStoreAttributes(p, e) ==
    IF mutexHeld(p, e) THEN p
    ELSE [p EXCEPT !.entity[e] =
            [@ EXCEPT !.inTempStore = FALSE, !.fieldsInTempStore = {},
                      !.ownArray = TRUE]]

\* quickeditEntitySaved, then the success() of fieldStateChange(), whose set()
\* of two attributes at once is not validated.
EntitySaved(e) ==
    LET p == [clearTempStoreAttributes(page, e) EXCEPT
                !.commits[e] = @ - 1, !.entity[e].isCommitting = FALSE]
    IN  /\ page.commits[e] > 0
        /\ tempstore[e].exists
        /\ tempstore' = [tempstore EXCEPT ![e] = entitySave]
        /\ page' = IF entityState(p, e) = "deactivating" THEN p
                   ELSE deactivating(p, e, "saved")
        /\ UNCHANGED <<events, failures>>

\* The error() of fieldStateChange(): the network fails, or the server does
\* because the entity has no copy in the tempstore.
EntitySaveError(e) ==
    LET p == [page EXCEPT !.commits[e] = @ - 1, !.entity[e].isCommitting = FALSE]
    IN  /\ page.commits[e] > 0
        /\ \/ /\ ~tempstore[e].exists
              /\ UNCHANGED <<tempstore, failures>>
           \/ /\ failures < MaxFailures
              /\ failures' = failures + 1
              /\ \/ UNCHANGED tempstore
                 \/ tempstore' = [tempstore EXCEPT ![e] = entitySave]
        /\ page' = setEntity(p, e, "opened", "networkerror", anyFieldState)
        /\ UNCHANGED events

User ==
    \/ \E e \in Entity :
         \/ ClickQuickEdit(e) \/ onClickSave(e) \/ onClickCancel(e)
         \/ ModalSave(e) \/ ModalDiscard(e)
    \/ \E f \in Field :
         \/ onMouseEnter(f) \/ onMouseLeave(f) \/ onClick(f)
         \/ keyup(f) \/ formUpdated(f)

Reply(r) ==
    \/ FormLoaded(r) \/ SaveFormLoaded(r)
    \/ FieldFormSaved(r) \/ FieldFormValidationErrors(r) \/ FormLoadError(r)

EntityReply(e) == EntitySaved(e) \/ EntitySaveError(e)

Next ==
    \/ User
    \/ RunTimer
    \/ \E r \in page.requests : Reply(r)
    \/ \E e \in Entity : EntityReply(e)

Spec == Init /\ [][Next]_vars

----------------------------------------------------------------------------
(***************************************************************************)
(* Properties, most of them of a page p, since they hold between any two   *)
(* set() calls of a handler and not only when it is over.                  *)
(***************************************************************************)
\* The isCommitting mutex (EntityModel.validate()) is held exactly while the
\* one request that saves the entity is under way, and until its answer the
\* entity stays in 'committing', whatever user, callbacks and other replies do.
OneCommit(p) ==
    \A e \in Entity :
        /\ p.commits[e] = IF p.entity[e].isCommitting THEN 1 ELSE 0
        /\ p.entity[e].isCommitting => entityState(p, e) = "committing"

\* A request that saves a field belongs to a field that is in 'saving', and no
\* other such request is under way, unless renderUpdatedField() has destroyed its
\* model: an answer never meets a field that has moved on.
SavesAwaited(p) ==
    \A r \in p.requests : r.live /\ r.kind # "form" =>
        /\ fieldState(p, r.field) = "saving"
        /\ \A x \in p.requests :
             x.live /\ x.kind # "form" /\ x.field = r.field => x = r

\* formEditor.save() needs the form: it is there whenever a form field is
\* changed, though forms come and go with replies that may be late.
FormThere(p) ==
    \A f \in Field \ PlainField :
        fieldState(p, f) \in changedFieldStates => p.field[f].form = "loaded"

\* removeForm(): no form is left in a field that is not being edited.
FormRemoved(p) ==
    \A f \in Field :
        fieldState(p, f) \in readyFieldStates \cup {"inactive"}
            => p.field[f].form = "none"

\* A callback that closes an entity finds it deactivating, and one that opens it
\* never finds it closed: what an earlier state has deferred is over in time,
\* though callbacks are deferred for each field and the user acts between them.
toOpen(e) == {"opening", "opened", "reopened"} \X {e}

CallbacksInTurn(p) ==
    \A e \in Entity, i \in 1..Len(p.timers) :
      /\ p.timers[i] = <<"closing", e>> =>
           /\ entityState(p, e) \in {"deactivating", "closing"}
           /\ entityState(p, e) = "deactivating" =>
                \A j \in i..Len(p.timers) :
                    p.timers[j] \notin toOpen(e) \cup {<<"closed", e>>}
      /\ p.timers[i] = <<"closed", e>> /\ entityState(p, e) = "closing" =>
           \A j \in i..Len(p.timers) : p.timers[j] # <<"closing", e>>
      /\ entityState(p, e) \in {"closing", "closed"} => p.timers[i] \notin toOpen(e)

Inv ==
    /\ TypeOK /\ OneCommit(page) /\ SavesAwaited(page)
    /\ FormThere(page) /\ FormRemoved(page) /\ CallbacksInTurn(page)

\* confirmEntityDeactivation(): while the user is asked what to do with the
\* unsaved changes of an entity that is open, nothing closes it: no callback of
\* what was done before, no reply, no other entity that becomes active.
DialogHolds ==
    [][\A e \in Entity :
         /\ page.activeModal = e /\ page'.activeModal = e
         /\ entityState(page, e) = "opened" /\ unsavedChanges(page, e)
         => entityState(page', e) = "opened"]_vars

\* acceptEditorStateChange(), deactivation: what the user has changed in a
\* field is saved next, or corrected first.  It is given up only when the user
\* discards it, when its entity was committed meanwhile, when a form could not be
\* loaded, by the reload after another entity's changes were discarded, or if the
\* user was too early: before the entity is opening, or before a field that was
\* saved is rendered again.
ChangesKept ==
    [][\A f \in Field :
         /\ fieldState(page, f) \in {"changed", "invalid"}
         /\ page'.field[f].state \notin {"changed", "invalid", "saving", "activating"}
         => \/ ModalDiscard(EntityOf[f]) \/ EntitySaved(EntityOf[f])
            \/ failures' # failures /\ f = page.activeField
            \/ /\ RunTimer
               /\ \/ page.reload /\ Head(page.timers)[1] = "closed"
                  \/ Head(page.timers) \in
                       {<<"opening", EntityOf[f]>>, <<"candidate", f>>, <<"rerender", f>>}]_vars

=============================================================================
