-------------------------- MODULE QuickEditProofs --------------------------
(***************************************************************************)
(* Proofs about QuickEdit.                                                 *)
(*                                                                         *)
(* A handler is an operator from page to page, so the invariant Good is    *)
(* one of a page, and a lemma per handler says that it keeps Good, which   *)
(* unsaved changes it keeps (KeptBut) and which entities it leaves open.   *)
(* The bottom layer is changeState(): Changes says what the listeners of a *)
(* field's new state do together, and ChangeGood that they keep Good if    *)
(* the change is Admissible.  set() of a field, set() of an entity, the    *)
(* deferred callbacks and the replies are built on it, as in the code.     *)
(***************************************************************************)
EXTENDS QuickEdit, FiniteSetTheorems, SequenceTheorems, TLAPS

\* The parts of a page have their types.
LEMMA PageTypes ==
  ASSUME NEW p \in Page
  PROVE  /\ p.entity \in [Entity -> EntityModel]
         /\ p.field \in [Field -> FieldModel]
         /\ p.activeField \in Field \cup {None, Destroyed}
         /\ p.activeModal \in Entity \cup {None}
         /\ p.reload \in BOOLEAN
         /\ p.timers \in Seq(Task)
         /\ p.requests \in SUBSET Request
         /\ p.commits \in [Entity -> Nat]
BY DEF Page

\* Replacing the callbacks changes nothing else.
LEMMA TimersExcept ==
  ASSUME NEW p \in Page, NEW t \in Seq(Task)
  PROVE  LET q == [p EXCEPT !.timers = t]
         IN  /\ q \in Page /\ q.timers = t
             /\ q.entity = p.entity /\ q.field = p.field
             /\ q.activeField = p.activeField /\ q.activeModal = p.activeModal
             /\ q.reload = p.reload /\ q.requests = p.requests /\ q.commits = p.commits
BY DEF Page

\* The page with m as its model of e.
withEntity(p, e, m) == [p EXCEPT !.entity[e] = m]

\* Replacing one EntityModel changes nothing else.
LEMMA WithEntity ==
  ASSUME NEW p \in Page, NEW e \in Entity, NEW m \in EntityModel
  PROVE  LET q == withEntity(p, e, m)
         IN  /\ q \in Page /\ q.field = p.field /\ q.timers = p.timers
             /\ q.activeField = p.activeField /\ q.activeModal = p.activeModal
             /\ q.reload = p.reload /\ q.requests = p.requests /\ q.commits = p.commits
             /\ q.entity[e] = m /\ \A x \in Entity \ {e} : q.entity[x] = p.entity[x]
BY DEF Page, withEntity

\* The callbacks of q are those of p and others, of T, behind them.
Later(p, q, T) ==
  /\ Len(p.timers) <= Len(q.timers)
  /\ \A i \in 1..Len(p.timers) : q.timers[i] = p.timers[i]
  /\ \A i \in 1..Len(q.timers) : i > Len(p.timers) => q.timers[i] \in T

\* The pages differ in their callbacks at most.
SameButTimers(p, q) ==
  /\ q.entity = p.entity /\ q.field = p.field
  /\ q.activeField = p.activeField /\ q.activeModal = p.activeModal
  /\ q.reload = p.reload /\ q.requests = p.requests /\ q.commits = p.commits

\* Callbacks added behind those that are pending.
LEMMA AddTimers ==
  ASSUME NEW p \in Page, NEW T \in SUBSET Task, NEW u \in Seq(T)
  PROVE  LET q == [p EXCEPT !.timers = p.timers \o u]
         IN  q \in Page /\ SameButTimers(p, q) /\ Later(p, q, T)
<1> DEFINE t == p.timers
           v == t \o u
           q == [p EXCEPT !.timers = v]
<1>1. t \in Seq(Task) /\ u \in Seq(Task)
  BY PageTypes
<1>2. /\ v \in Seq(Task) /\ Len(v) = Len(t) + Len(u) /\ Len(t) \in Nat /\ Len(u) \in Nat
      /\ \A i \in 1..Len(v) : v[i] = IF i <= Len(t) THEN t[i] ELSE u[i - Len(t)]
  BY <1>1
<1>3. \A i \in 1..Len(u) : u[i] \in T
  OBVIOUS
<1> HIDE DEF v
<1>4. q \in Page /\ SameButTimers(p, q) /\ q.timers = v
  BY <1>2, TimersExcept DEF SameButTimers
<1> HIDE DEF q
<1>5. \A i \in 1..Len(t) : v[i] = t[i]
  BY <1>2
<1>6. ASSUME NEW i \in 1..Len(v), i > Len(t)
      PROVE  v[i] \in T
  <2>1. i - Len(t) \in 1..Len(u) /\ ~(i <= Len(t))
    BY <1>2, <1>6
  <2> QED BY <1>2, <1>3, <2>1
<1>7. Later(p, q, T)
  BY <1>2, <1>4, <1>5, <1>6 DEF Later
<1> QED BY <1>4, <1>7 DEF q, v

\* _.defer() adds one callback,
LEMMA Defer ==
  ASSUME NEW p \in Page, NEW kind, NEW x, <<kind, x>> \in Task
  PROVE  LET q == defer(p, kind, x)
         IN  q \in Page /\ SameButTimers(p, q) /\ Later(p, q, {<<kind, x>>})
<1> DEFINE u == <<<<kind, x>>>>
<1>1. u \in Seq({<<kind, x>>}) /\ {<<kind, x>>} \in SUBSET Task
  OBVIOUS
<1>2. p.timers \in Seq(Task)
  BY PageTypes
<1>3. Append(p.timers, <<kind, x>>) = p.timers \o u
  BY <1>2
<1>4. defer(p, kind, x) = [p EXCEPT !.timers = p.timers \o u]
  BY <1>3 DEF defer
<1> HIDE DEF u
<1> QED BY <1>1, <1>4, AddTimers

\* and the announcements for several fields some that are alike.
LEMMA DeferEach ==
  ASSUME NEW p \in Page, NEW kind, NEW e, NEW S \in SUBSET Field, <<kind, e>> \in Task
  PROVE  LET q == deferEach(p, kind, e, S)
         IN  q \in Page /\ SameButTimers(p, q) /\ Later(p, q, {<<kind, e>>})
<1> DEFINE n == Cardinality(S)
           u == [i \in 1..n |-> <<kind, e>>]
<1>1. n \in Nat
  BY QuickEditAssumption, FS_Subset, FS_CardinalityType
<1> HIDE DEF n
<1>2. u \in Seq({<<kind, e>>}) /\ {<<kind, e>>} \in SUBSET Task
  BY <1>1
<1>3. deferEach(p, kind, e, S) = [p EXCEPT !.timers = p.timers \o u]
  BY DEF deferEach, n
<1> HIDE DEF u
<1> QED BY <1>2, <1>3, AddTimers

\* The states of FieldModel and of EntityModel.
LEMMA StateNames ==
  /\ DOMAIN FieldStates = {"inactive", "candidate", "highlighted", "activating",
                           "active", "changed", "saving", "saved", "invalid"}
  /\ DOMAIN EntityStates = {"closed", "launching", "opening", "opened",
                            "committing", "deactivating", "closing"}
BY DEF FieldStates, EntityStates

-----------------------------------------------------------------------------
(***************************************************************************)
(* changeState(): what a change of the state of the fields S does.         *)
(***************************************************************************)
\* Of changeState(): the model of f,
fieldAfter(p, S, to, f) ==
  IF f \in S THEN [p.field[f] EXCEPT !.state = to, !.form = formAfter(f, p.field[f], to)]
  ELSE p.field[f]

\* the requests that are sent,
sent(p, S, to) ==
  {request(p, requestKind(f, fieldState(p, f), to), f, TRUE) :
     f \in {g \in S : p.field[g].editor /\ requestKind(g, fieldState(p, g), to) # "none"}}

\* A field model after the change: state and form change, the editor stays.
LEMMA FieldAfter ==
  ASSUME NEW p \in Page, NEW S \in SUBSET Field, NEW to \in DOMAIN FieldStates,
         NEW f \in Field
  PROVE  /\ fieldAfter(p, S, to, f) \in FieldModel
         /\ f \notin S => fieldAfter(p, S, to, f) = p.field[f]
         /\ f \in S => /\ fieldAfter(p, S, to, f).state = to
                       /\ fieldAfter(p, S, to, f).editor = p.field[f].editor
                       /\ fieldAfter(p, S, to, f).form = formAfter(f, p.field[f], to)
<1>1. p.field[f] \in FieldModel
  BY PageTypes
<1>2. formAfter(f, p.field[f], to) \in {"none", "loading", "loaded"}
  BY <1>1 DEF formAfter, FieldModel
<1> QED BY <1>1, <1>2 DEF fieldAfter, FieldModel

\* Each edited field sends at most one request, and the reply finds its model.
LEMMA Sent ==
  ASSUME NEW p \in Page, NEW S \in SUBSET Field, NEW to
  PROVE  /\ sent(p, S, to) \in SUBSET Request
         /\ \A r \in sent(p, S, to) :
              /\ r.live /\ r.field \in S /\ p.field[r.field].editor
              /\ r.kind = requestKind(r.field, fieldState(p, r.field), to)
         /\ \A r, x \in sent(p, S, to) : r.field = x.field => r = x
<1> DEFINE kind(f) == requestKind(f, fieldState(p, f), to)
<1>1. \A f \in Field : kind(f) \in {"form", "saveform", "submit", "none"}
  BY DEF requestKind
<1>2. \A f \in Field : EntityOf[f] \in Entity
  BY QuickEditAssumption
<1>3. \A f \in Field : p.entity[EntityOf[f]].inTempStore \in BOOLEAN
  BY <1>2, PageTypes DEF EntityModel
<1>4. \A f \in Field : kind(f) # "none" =>
        LET r == request(p, kind(f), f, TRUE)
        IN  r \in Request /\ r.live /\ r.field = f /\ r.kind = kind(f)
  BY <1>1, <1>3 DEF request, Request
<1> HIDE DEF kind
<1>5. sent(p, S, to) = {request(p, kind(f), f, TRUE) :
                          f \in {g \in S : p.field[g].editor /\ kind(g) # "none"}}
  BY DEF sent, kind
<1>6. \A r \in sent(p, S, to) : \E f \in S :
        /\ p.field[f].editor /\ kind(f) # "none" /\ r = request(p, kind(f), f, TRUE)
  BY <1>5
<1>7. \A r \in sent(p, S, to) :
        /\ r \in Request /\ r.live /\ r.field \in S /\ p.field[r.field].editor
        /\ r.kind = kind(r.field) /\ r = request(p, kind(r.field), r.field, TRUE)
  <2> TAKE r \in sent(p, S, to)
  <2>1. PICK f \in S : /\ p.field[f].editor /\ kind(f) # "none"
                       /\ r = request(p, kind(f), f, TRUE)
    BY <1>6
  <2>2. r \in Request /\ r.live /\ r.field = f /\ r.kind = kind(f)
    BY <1>4, <2>1
  <2> QED BY <2>1, <2>2
<1> QED BY <1>7 DEF kind

\* and the callback of the plain text editor.
activated(S, to) == {t \in {"active"} \X S : to = "activating"}

\* What the in-place editors do when the fields S change their state.
Edits(p, q, S, to) ==
  /\ q \in Page
  /\ \A f \in Field : q.field[f] = fieldAfter(p, S, to, f)
  /\ q.requests = p.requests \cup sent(p, S, to)
  /\ q.entity = p.entity /\ q.commits = p.commits
  /\ q.activeField = p.activeField /\ q.activeModal = p.activeModal
  /\ q.reload = p.reload
  /\ Later(p, q, activated(S, to))

\* EditorView.stateChange() touches fields, requests and one callback.
LEMMA EditorViewStateChange ==
  ASSUME NEW p \in Page, NEW S \in SUBSET Field, NEW to \in DOMAIN FieldStates
  PROVE  Edits(p, editorViewStateChange(p, S, to), S, to)
<1> DEFINE g == [f \in Field |-> fieldAfter(p, S, to, f)]
           q == [p EXCEPT !.field = g, !.requests = p.requests \cup sent(p, S, to)]
           edited == {f \in S : p.field[f].editor}
           R == p.requests \cup sent(p, S, to)
<1>1. /\ g \in [Field -> FieldModel] /\ p.requests \cup sent(p, S, to) \in SUBSET Request
  BY FieldAfter, Sent, PageTypes
<1>2. editorViewStateChange(p, S, to) =
        IF to = "activating" /\ edited \cap PlainField # {}
        THEN defer(q, "active", CHOOSE f \in edited : TRUE) ELSE q
  <2> DEFINE h == [f \in Field |-> IF f \in S
                    THEN [p.field[f] EXCEPT !.state = to,
                              !.form = formAfter(f, p.field[f], to)]
                    ELSE p.field[f]]
             K == {request(p, requestKind(f, fieldState(p, f), to), f, TRUE) :
                     f \in {k \in edited : requestKind(k, fieldState(p, k), to) # "none"}}
             o == [p EXCEPT !.field = h, !.requests = @ \cup K]
  <2>1. K = sent(p, S, to)
    BY DEF sent
  <2>2. h = g
    BY DEF fieldAfter
  <2>3. editorViewStateChange(p, S, to) =
          IF to = "activating" /\ edited \cap PlainField # {}
          THEN defer(o, "active", CHOOSE f \in edited : TRUE) ELSE o
    BY DEF editorViewStateChange
  <2>4. o = q
    <3> HIDE DEF h, K, g
    <3> QED BY <2>1, <2>2
  <2> HIDE DEF o, q, edited
  <2> QED BY <2>3, <2>4
<1>3. /\ q \in Page /\ q.field = g /\ q.requests = R
      /\ q.entity = p.entity /\ q.timers = p.timers
      /\ q.activeField = p.activeField /\ q.activeModal = p.activeModal
      /\ q.reload = p.reload /\ q.commits = p.commits
  <2> HIDE DEF g, R
  <2>1. q = [p EXCEPT !.field = g, !.requests = R]
    BY DEF R
  <2>2. g \in [Field -> FieldModel] /\ R \in SUBSET Request
    BY <1>1 DEF R
  <2> HIDE DEF q
  <2> QED BY <2>1, <2>2 DEF Page
<1>a. \A f \in Field : g[f] = fieldAfter(p, S, to, f)
  OBVIOUS
<1> HIDE DEF q, g
<1>4. CASE to = "activating" /\ edited \cap PlainField # {}
  <2> DEFINE f == CHOOSE h \in edited : TRUE
  <2>1. f \in S
    BY <1>4
  <2> HIDE DEF f
  <2>2. <<"active", f>> \in Task
    BY <2>1 DEF Task
  <2>3. editorViewStateChange(p, S, to) = defer(q, "active", f)
    BY <1>2, <1>4 DEF f
  <2>4. LET d == defer(q, "active", f)
        IN  d \in Page /\ SameButTimers(q, d) /\ Later(q, d, {<<"active", f>>})
    BY <1>3, <2>2, Defer
  <2>5. <<"active", f>> \in activated(S, to)
    BY <2>1, <1>4 DEF activated
  <2>6. Later(p, defer(q, "active", f), activated(S, to))
    BY <1>3, <2>4, <2>5 DEF Later
  <2> QED BY <1>3, <1>a, <2>3, <2>4, <2>6 DEF SameButTimers, Edits
<1>5. CASE ~(to = "activating" /\ edited \cap PlainField # {})
  <2>1. editorViewStateChange(p, S, to) = q
    BY <1>2, <1>5
  <2>2. Len(p.timers) \in Nat
    BY PageTypes
  <2> QED BY <2>1, <2>2, <1>3, <1>a DEF Later, Edits
<1> QED BY <1>4, <1>5

\* What an entity does when its fields change their state: it defers callbacks of
\* T, changes attributes, and perhaps takes the mutex and sends its request.
Calm(p, q, e, T) ==
  /\ q \in Page /\ q.field = p.field /\ q.requests = p.requests
  /\ q.activeModal = p.activeModal /\ q.reload = p.reload
  /\ \A x \in Entity : /\ entityState(q, x) = entityState(p, x)
                       /\ q.entity[x].isActive = p.entity[x].isActive
                       /\ \/ /\ q.entity[x].isCommitting = p.entity[x].isCommitting
                             /\ q.commits[x] = p.commits[x]
                          \/ /\ x = e /\ entityState(p, e) = "committing"
                             /\ ~p.entity[e].isCommitting /\ q.entity[e].isCommitting
                             /\ q.commits[e] = p.commits[e] + 1
  /\ Later(p, q, T)

\* The callbacks it may defer, by its state.
announced(p, e) ==
  {t \in Task : /\ t[2] = e
                /\ \/ t[1] = "opened" /\ entityState(p, e) = "opening"
                   \/ t[1] = "reopened" /\ entityState(p, e) = "committing"
                   \/ t[1] = "closing" /\ entityState(p, e) = "deactivating"
                   \/ t[1] = "closed" /\ entityState(p, e) = "closing"}

\* The same callbacks are later ones.
LEMMA SameTimers ==
  ASSUME NEW p \in Page, NEW q, q.timers = p.timers, NEW T
  PROVE  Later(p, q, T)
<1>1. Len(p.timers) \in Nat
  BY PageTypes
<1> QED BY <1>1 DEF Later

\* fieldStateChange() that only defers the next state of its entity is calm.
LEMMA CalmDefer ==
  ASSUME NEW p \in Page, NEW e \in Entity, NEW S \in SUBSET Field,
         NEW kind, <<kind, e>> \in announced(p, e)
  PROVE  Calm(p, deferEach(p, kind, e, S), e, announced(p, e))
<1>1. <<kind, e>> \in Task
  BY DEF announced
<1>2. LET q == deferEach(p, kind, e, S)
      IN  q \in Page /\ SameButTimers(p, q) /\ Later(p, q, {<<kind, e>>})
  BY <1>1, DeferEach
<1>3. Later(p, deferEach(p, kind, e, S), announced(p, e))
  BY <1>2 DEF Later
<1> QED BY <1>2, <1>3 DEF Calm, SameButTimers, entityState

\* Pushing an id to the shared array touches neither states nor the mutex.
LEMMA Push ==
  ASSUME NEW p \in Page, NEW e \in Entity, NEW S \in SUBSET Field
  PROVE  LET q == push(p, e, S)
         IN  /\ q \in Page /\ q.field = p.field /\ q.requests = p.requests
             /\ q.activeModal = p.activeModal /\ q.reload = p.reload
             /\ q.timers = p.timers /\ q.commits = p.commits
             /\ \A x \in Entity : /\ q.entity[x].state = p.entity[x].state
                                  /\ q.entity[x].isActive = p.entity[x].isActive
                                  /\ q.entity[x].isCommitting = p.entity[x].isCommitting
<1> DEFINE sharing == IF p.entity[e].ownArray THEN {e}
                      ELSE {x \in Entity : ~p.entity[x].ownArray}
           g == [x \in Entity |->
                   IF x \in sharing
                   THEN [p.entity[x] EXCEPT !.fieldsInTempStore = @ \cup S]
                   ELSE p.entity[x]]
           q == [p EXCEPT !.entity = g]
<1>1. push(p, e, S) = q
  BY DEF push
<1> HIDE DEF sharing
<1>2. p.entity \in [Entity -> EntityModel]
  BY PageTypes
<1>3. g \in [Entity -> EntityModel]
  BY <1>2 DEF EntityModel
<1>4. \A x \in Entity : /\ g[x].state = p.entity[x].state
                        /\ g[x].isActive = p.entity[x].isActive
                        /\ g[x].isCommitting = p.entity[x].isCommitting
  BY <1>2 DEF EntityModel
<1> HIDE DEF g
<1>5. /\ q \in Page /\ q.field = p.field /\ q.requests = p.requests
      /\ q.activeModal = p.activeModal /\ q.reload = p.reload
      /\ q.timers = p.timers /\ q.commits = p.commits /\ q.entity = g
  BY <1>3 DEF Page
<1> HIDE DEF q
<1> QED BY <1>1, <1>4, <1>5

\* Neither does updateInTempStoreAttributes().
LEMMA UpdateInTempStoreAttributes ==
  ASSUME NEW p \in Page, NEW e \in Entity, NEW S \in SUBSET Field, NEW to
  PROVE  LET q == updateInTempStoreAttributes(p, e, S, to)
         IN  /\ q \in Page /\ q.field = p.field /\ q.requests = p.requests
             /\ q.activeModal = p.activeModal /\ q.reload = p.reload
             /\ q.timers = p.timers /\ q.commits = p.commits
             /\ \A x \in Entity : /\ q.entity[x].state = p.entity[x].state
                                  /\ q.entity[x].isActive = p.entity[x].isActive
                                  /\ q.entity[x].isCommitting = p.entity[x].isCommitting
<1> DEFINE o == push(p, e, S)
           m == [o.entity[e] EXCEPT !.inTempStore = TRUE, !.ownArray = TRUE]
           q == withEntity(o, e, m)
<1>1. updateInTempStoreAttributes(p, e, S, to) \in {p, o, q}
  BY DEF updateInTempStoreAttributes, withEntity
<1>2. /\ o \in Page /\ o.field = p.field /\ o.requests = p.requests
      /\ o.activeModal = p.activeModal /\ o.reload = p.reload
      /\ o.timers = p.timers /\ o.commits = p.commits
      /\ \A x \in Entity : /\ o.entity[x].state = p.entity[x].state
                           /\ o.entity[x].isActive = p.entity[x].isActive
                           /\ o.entity[x].isCommitting = p.entity[x].isCommitting
  BY Push
<1> HIDE DEF o
<1>3. o.entity[e] \in EntityModel
  BY <1>2, PageTypes
<1>4. /\ m \in EntityModel /\ m.state = o.entity[e].state
      /\ m.isActive = o.entity[e].isActive /\ m.isCommitting = o.entity[e].isCommitting
  BY <1>3 DEF EntityModel
<1> HIDE DEF m
<1>5. /\ q \in Page /\ q.field = o.field /\ q.requests = o.requests
      /\ q.activeModal = o.activeModal /\ q.reload = o.reload
      /\ q.timers = o.timers /\ q.commits = o.commits
      /\ q.entity[e] = m /\ \A x \in Entity \ {e} : q.entity[x] = o.entity[x]
  BY <1>2, <1>4, WithEntity
<1> HIDE DEF q
<1> QED BY <1>1, <1>2, <1>4, <1>5

\* updateInTempStoreAttributes() is calm.
LEMMA CalmUpdate ==
  ASSUME NEW p \in Page, NEW e \in Entity, NEW S \in SUBSET Field, NEW to
  PROVE  Calm(p, updateInTempStoreAttributes(p, e, S, to), e, announced(p, e))
BY UpdateInTempStoreAttributes, SameTimers DEF Calm, entityState

\* save() of an entity that is committing takes the mutex if it is free.
LEMMA CalmSave ==
  ASSUME NEW p \in Page, NEW q, NEW e \in Entity, NEW T, Calm(p, q, e, T),
         entityState(p, e) = "committing"
  PROVE  Calm(p, save(q, e), e, T)
<1>1. CASE ~mayCommit(q, e)
  BY <1>1 DEF save
<1>2. CASE mayCommit(q, e)
  <2> DEFINE m == [q.entity[e] EXCEPT !.isCommitting = TRUE]
             n == q.commits[e] + 1
             r == [q EXCEPT !.entity[e] = m, !.commits[e] = n]
  <2>1. save(q, e) = r /\ ~q.entity[e].isCommitting /\ q \in Page
    BY <1>2 DEF save, mayCommit, mutexHeld, Calm
  <2>2. q.entity[e] \in EntityModel /\ q.commits[e] \in Nat
    BY <2>1, PageTypes
  <2>3. /\ m \in EntityModel /\ m.state = q.entity[e].state
        /\ m.isActive = q.entity[e].isActive /\ m.isCommitting
    BY <2>2 DEF EntityModel
  <2>4. n \in Nat
    BY <2>2
  <2> HIDE DEF m, n
  <2>5. /\ r \in Page /\ r.field = q.field /\ r.requests = q.requests
        /\ r.activeModal = q.activeModal /\ r.reload = q.reload /\ r.timers = q.timers
        /\ r.entity[e] = m /\ \A x \in Entity \ {e} : r.entity[x] = q.entity[x]
        /\ r.commits[e] = n /\ \A x \in Entity \ {e} : r.commits[x] = q.commits[x]
    BY <2>1, <2>3, <2>4 DEF Page
  <2> HIDE DEF r
  <2>6. Later(p, r, T)
    BY <2>5 DEF Calm, Later
  <2>7. r.commits[e] = q.commits[e] + 1
    BY <2>5 DEF n
  <2>8. q.entity[e].isCommitting = p.entity[e].isCommitting /\ q.commits[e] = p.commits[e]
    BY <2>1 DEF Calm
  <2> QED BY <2>1, <2>3, <2>5, <2>6, <2>7, <2>8 DEF Calm, entityState
<1> QED BY <1>1, <1>2

\* Callbacks are only added, over two steps as well.
LEMMA LaterTransitive ==
  ASSUME NEW p \in Page, NEW q \in Page, NEW r \in Page, NEW T, NEW U,
         Later(p, q, T), Later(q, r, U)
  PROVE  Later(p, r, T \cup U)
<1>1. Len(p.timers) \in Nat /\ Len(q.timers) \in Nat /\ Len(r.timers) \in Nat
  BY PageTypes
<1>2. /\ Len(p.timers) <= Len(q.timers) /\ Len(q.timers) <= Len(r.timers)
      /\ \A i \in 1..Len(p.timers) : q.timers[i] = p.timers[i]
      /\ \A i \in 1..Len(q.timers) : r.timers[i] = q.timers[i]
      /\ \A i \in 1..Len(q.timers) : i > Len(p.timers) => q.timers[i] \in T
      /\ \A i \in 1..Len(r.timers) : i > Len(q.timers) => r.timers[i] \in U
  BY DEF Later
<1>3. \A i \in 1..Len(p.timers) : r.timers[i] = p.timers[i]
  BY <1>1, <1>2
<1>4. ASSUME NEW i \in 1..Len(r.timers), i > Len(p.timers)
      PROVE  r.timers[i] \in T \cup U
  <2>1. CASE i > Len(q.timers)
    BY <1>2, <2>1
  <2>2. CASE ~(i > Len(q.timers))
    <3>1. i \in 1..Len(q.timers)
      BY <1>1, <2>2
    <3> QED BY <1>2, <1>4, <3>1
  <2> QED BY <2>1, <2>2
<1> QED BY <1>1, <1>2, <1>3, <1>4 DEF Later

\* Doing nothing is calm.
LEMMA CalmSame ==
  ASSUME NEW p \in Page, NEW e \in Entity, NEW T
  PROVE  Calm(p, p, e, T)
BY SameTimers DEF Calm

\* EntityModel's fieldStateChange() is calm, in every state of the entity.
LEMMA FieldStateChange ==
  ASSUME NEW p \in Page, NEW e \in Entity, NEW S \in SUBSET Field, NEW to
  PROVE  Calm(p, fieldStateChange(p, e, S, to), e, announced(p, e))
<1> DEFINE s == entityState(p, e)
           q == fieldStateChange(p, e, S, to)
<1>1. CASE s = "opening"
  <2>1. <<"opened", e>> \in announced(p, e)
    BY <1>1 DEF announced, Task
  <2>2. q = deferEach(p, "opened", e, S)
    BY <1>1 DEF fieldStateChange
  <2> QED BY <2>1, <2>2, CalmDefer
<1>2. CASE s = "opened"
  <2>1. CASE to # "changed"
    <3>1. q = updateInTempStoreAttributes(p, e, S, to)
      BY <1>2, <2>1 DEF fieldStateChange
    <3> QED BY <3>1, CalmUpdate
  <2>2. CASE to = "changed"
    <3> DEFINE m == [p.entity[e] EXCEPT !.isDirty = TRUE]
               r == withEntity(p, e, m)
    <3>1. q = r
      BY <1>2, <2>2 DEF fieldStateChange, withEntity
    <3>2. p.entity[e] \in EntityModel
      BY PageTypes
    <3>3. /\ m \in EntityModel /\ m.state = p.entity[e].state
          /\ m.isActive = p.entity[e].isActive /\ m.isCommitting = p.entity[e].isCommitting
      BY <3>2 DEF EntityModel
    <3> HIDE DEF m, q
    <3>4. /\ r \in Page /\ r.field = p.field /\ r.requests = p.requests
          /\ r.activeModal = p.activeModal /\ r.reload = p.reload
          /\ r.timers = p.timers /\ r.commits = p.commits
          /\ r.entity[e] = m /\ \A x \in Entity \ {e} : r.entity[x] = p.entity[x]
      BY <3>3, WithEntity
    <3> HIDE DEF r
    <3>5. Calm(p, r, e, announced(p, e))
      BY <3>3, <3>4, SameTimers DEF Calm, entityState
    <3> QED BY <3>1, <3>5 DEF q
  <2> QED BY <2>1, <2>2
<1>3. CASE s = "committing"
  <2> DEFINE r == IF to = "invalid" THEN deferEach(p, "reopened", e, S)
                  ELSE updateInTempStoreAttributes(p, e, S, to)
  <2>1. q = save(r, e)
    BY <1>3 DEF fieldStateChange
  <2>2. <<"reopened", e>> \in announced(p, e)
    BY <1>3 DEF announced, Task
  <2>3. Calm(p, r, e, announced(p, e))
    BY <2>2, CalmDefer, CalmUpdate
  <2> HIDE DEF r
  <2> QED BY <1>3, <2>1, <2>3, CalmSave
<1>4. CASE s = "deactivating"
  <2>1. <<"closing", e>> \in announced(p, e)
    BY <1>4 DEF announced, Task
  <2>2. q = deferEach(p, "closing", e, S)
    BY <1>4 DEF fieldStateChange
  <2> QED BY <2>1, <2>2, CalmDefer
<1>5. CASE s = "closing"
  <2>1. <<"closed", e>> \in announced(p, e)
    BY <1>5 DEF announced, Task
  <2>2. q = deferEach(p, "closed", e, S)
    BY <1>5 DEF fieldStateChange
  <2> QED BY <2>1, <2>2, CalmDefer
<1>6. CASE s \notin {"opening", "opened", "committing", "deactivating", "closing"}
  <2>1. q = p
    BY <1>6 DEF fieldStateChange
  <2> QED BY <2>1, CalmSame
<1> QED BY <1>1, <1>2, <1>3, <1>4, <1>5, <1>6

\* Both, and the app: the whole of changeState().
Changes(p, q, e, S, to) ==
  /\ q \in Page
  /\ \A f \in Field : q.field[f] = fieldAfter(p, S, to, f)
  /\ q.requests = p.requests \cup sent(p, S, to)
  /\ q.activeModal = p.activeModal /\ q.reload = p.reload
  /\ \A x \in Entity : /\ entityState(q, x) = entityState(p, x)
                       /\ q.entity[x].isActive = p.entity[x].isActive
                       /\ \/ /\ q.entity[x].isCommitting = p.entity[x].isCommitting
                             /\ q.commits[x] = p.commits[x]
                          \/ /\ x = e /\ entityState(p, e) = "committing"
                             /\ ~p.entity[e].isCommitting /\ q.entity[e].isCommitting
                             /\ q.commits[e] = p.commits[e] + 1
  /\ Later(p, q, announced(p, e) \cup activated(S, to))

\* What the listeners of a change of field states do together.
LEMMA ChangeState ==
  ASSUME NEW p \in Page, NEW e \in Entity, NEW S \in SUBSET Field,
         NEW to \in DOMAIN FieldStates
  PROVE  Changes(p, changeState(p, e, S, to), e, S, to)
<1>1. CASE S = {}
  <2>1. changeState(p, e, S, to) = p
    BY <1>1 DEF changeState
  <2>2. \A f \in Field : p.field[f] = fieldAfter(p, S, to, f)
    BY <1>1 DEF fieldAfter
  <2>3. sent(p, S, to) = {}
    BY <1>1 DEF sent
  <2> QED BY <2>1, <2>2, <2>3, SameTimers DEF Changes
<1>2. CASE S # {}
  <2> DEFINE q == editorViewStateChange(p, S, to)
             r == fieldStateChange(q, e, S, to)
             u == editorStateChange(r, S, to)
  <2>1. changeState(p, e, S, to) = u
    BY <1>2 DEF changeState
  <2>2. Edits(p, q, S, to)
    BY EditorViewStateChange
  <2> HIDE DEF q
  <2>3. Calm(q, r, e, announced(q, e))
    BY <2>2, FieldStateChange DEF Edits
  <2>4. announced(q, e) = announced(p, e)
    BY <2>2 DEF Edits, announced, entityState
  <2> HIDE DEF r
  <2>5. r \in Page
    BY <2>3 DEF Calm
  <2>6. PICK a \in Field \cup {None, Destroyed} : u = [r EXCEPT !.activeField = a]
    <3>1. r.activeField \in Field \cup {None, Destroyed}
      BY <2>5, PageTypes
    <3>2. r = [r EXCEPT !.activeField = r.activeField]
      BY <2>5 DEF Page
    <3>3. (CHOOSE f \in S : TRUE) \in Field
      BY <1>2
    <3>4. u \in {r, [r EXCEPT !.activeField = CHOOSE f \in S : TRUE], [r EXCEPT !.activeField = None]}
      BY DEF editorStateChange
    <3> QED BY <3>1, <3>2, <3>3, <3>4
  <2>7. /\ u \in Page /\ u.field = r.field /\ u.requests = r.requests
        /\ u.entity = r.entity /\ u.commits = r.commits
        /\ u.activeModal = r.activeModal
        /\ u.reload = r.reload /\ u.timers = r.timers
    BY <2>5, <2>6 DEF Page
  <2> HIDE DEF u
  <2>8. Later(p, u, announced(p, e) \cup activated(S, to))
    <3>1. Later(q, r, announced(p, e))
      BY <2>3, <2>4 DEF Calm
    <3>2. Later(p, r, activated(S, to) \cup announced(p, e))
      BY <2>2, <2>5, <3>1, LaterTransitive DEF Edits
    <3>3. Later(p, u, activated(S, to) \cup announced(p, e))
      BY <3>2, <2>7 DEF Later
    <3>4. activated(S, to) \cup announced(p, e) = announced(p, e) \cup activated(S, to)
      OBVIOUS
    <3> QED BY <3>3, <3>4
  <2> QED BY <2>1, <2>2, <2>3, <2>7, <2>8 DEF Changes, Edits, Calm, entityState
<1> QED BY <1>1, <1>2

-----------------------------------------------------------------------------
(***************************************************************************)
(* The inductive invariant, of a page.                                     *)
(***************************************************************************)
Good(p) ==
  /\ p \in Page /\ OneCommit(p) /\ SavesAwaited(p)
  /\ FormThere(p) /\ FormRemoved(p) /\ CallbacksInTurn(p)

\* Callbacks that open or close as the entity's state says keep the order.
LEMMA LaterInTurn ==
  ASSUME NEW p \in Page, NEW q \in Page, NEW T, Later(p, q, T),
         CallbacksInTurn(p),
         \A x \in Entity : entityState(q, x) = entityState(p, x),
         \A x \in Entity : <<"closing", x>> \in T => entityState(p, x) = "deactivating",
         \A x \in Entity : <<"closed", x>> \in T => entityState(p, x) = "closing",
         \A x \in Entity, t \in T : t \in toOpen(x) =>
            entityState(p, x) \in {"launching", "opening", "committing"}
  PROVE  CallbacksInTurn(q)
<1>1. Len(p.timers) \in Nat /\ Len(q.timers) \in Nat
  BY PageTypes
<1>2. \A j \in 1..Len(q.timers) :
        IF j <= Len(p.timers) THEN j \in 1..Len(p.timers) /\ q.timers[j] = p.timers[j]
        ELSE q.timers[j] \in T
  BY <1>1 DEF Later
<1> SUFFICES ASSUME NEW e \in Entity, NEW i \in 1..Len(q.timers)
             PROVE  /\ q.timers[i] = <<"closing", e>> =>
                         /\ entityState(q, e) \in {"deactivating", "closing"}
                         /\ entityState(q, e) = "deactivating" =>
                              \A j \in i..Len(q.timers) :
                                  q.timers[j] \notin toOpen(e) \cup {<<"closed", e>>}
                    /\ q.timers[i] = <<"closed", e>> /\ entityState(q, e) = "closing" =>
                         \A j \in i..Len(q.timers) : q.timers[j] # <<"closing", e>>
                    /\ entityState(q, e) \in {"closing", "closed"} => q.timers[i] \notin toOpen(e)
  BY DEF CallbacksInTurn
<1>3. ASSUME q.timers[i] = <<"closing", e>>
      PROVE  entityState(q, e) \in {"deactivating", "closing"}
  BY <1>2, <1>3 DEF CallbacksInTurn
<1>4. ASSUME q.timers[i] = <<"closing", e>>, entityState(q, e) = "deactivating",
             NEW j \in i..Len(q.timers)
      PROVE  q.timers[j] \notin toOpen(e) \cup {<<"closed", e>>}
  <2>1. j \in 1..Len(q.timers) /\ i <= j
    BY <1>1
  <2>2. CASE j <= Len(p.timers)
    <3>1. i <= Len(p.timers) /\ i \in 1..Len(p.timers) /\ j \in i..Len(p.timers)
      BY <1>1, <2>1, <2>2
    <3>2. p.timers[i] = <<"closing", e>> /\ p.timers[j] = q.timers[j]
      BY <1>2, <1>4, <2>1, <2>2, <3>1
    <3> QED BY <1>4, <3>1, <3>2 DEF CallbacksInTurn
  <2>3. CASE ~(j <= Len(p.timers))
    <3>1. q.timers[j] \in T
      BY <1>2, <2>1, <2>3
    <3> QED BY <1>4, <3>1
  <2> QED BY <2>2, <2>3
<1>5. ASSUME q.timers[i] = <<"closed", e>>, entityState(q, e) = "closing",
             NEW j \in i..Len(q.timers)
      PROVE  q.timers[j] # <<"closing", e>>
  <2>1. j \in 1..Len(q.timers) /\ i <= j
    BY <1>1
  <2>2. CASE j <= Len(p.timers)
    <3>1. i <= Len(p.timers) /\ i \in 1..Len(p.timers) /\ j \in i..Len(p.timers)
      BY <1>1, <2>1, <2>2
    <3>2. p.timers[i] = <<"closed", e>> /\ p.timers[j] = q.timers[j]
      BY <1>2, <1>5, <2>1, <2>2, <3>1
    <3> QED BY <1>5, <3>1, <3>2 DEF CallbacksInTurn
  <2>3. CASE ~(j <= Len(p.timers))
    <3>1. q.timers[j] \in T
      BY <1>2, <2>1, <2>3
    <3> QED BY <1>5, <3>1
  <2> QED BY <2>2, <2>3
<1>6. ASSUME entityState(q, e) \in {"closing", "closed"}
      PROVE  q.timers[i] \notin toOpen(e)
  <2>1. CASE i <= Len(p.timers)
    BY <1>2, <1>6, <2>1 DEF CallbacksInTurn
  <2>2. CASE ~(i <= Len(p.timers))
    <3>1. q.timers[i] \in T
      BY <1>2, <2>2
    <3> QED BY <1>6, <3>1
  <2> QED BY <2>1, <2>2
<1> QED BY <1>3, <1>4, <1>5, <1>6

\* A change of field states takes the mutex once.
LEMMA ChangesOneCommit ==
  ASSUME NEW p \in Page, NEW q, NEW e \in Entity, NEW S, NEW to,
         OneCommit(p), Changes(p, q, e, S, to)
  PROVE  OneCommit(q)
BY PageTypes DEF OneCommit, Changes


\* The callbacks of a change of field states are in turn.
LEMMA ChangesInTurn ==
  ASSUME NEW p \in Page, NEW q, NEW e \in Entity, NEW S \in SUBSET Field, NEW to,
         CallbacksInTurn(p), Changes(p, q, e, S, to)
  PROVE  CallbacksInTurn(q)
<1> DEFINE T == announced(p, e) \cup activated(S, to)
<1>1. /\ q \in Page /\ Later(p, q, T)
      /\ \A x \in Entity : entityState(q, x) = entityState(p, x)
  BY DEF Changes
<1>2. \A t \in activated(S, to) : t[1] = "active"
  BY DEF activated
<1>3. \A t \in announced(p, e) :
        /\ t[2] = e
        /\ t[1] = "closing" => entityState(p, e) = "deactivating"
        /\ t[1] = "closed" => entityState(p, e) = "closing"
        /\ t[1] \in {"opening", "opened", "reopened"} =>
             entityState(p, e) \in {"opening", "committing"}
  BY DEF announced
<1>4. \A x \in Entity : <<"closing", x>> \in T => entityState(p, x) = "deactivating"
  <2> SUFFICES ASSUME NEW x \in Entity, <<"closing", x>> \in T
               PROVE  entityState(p, x) = "deactivating"
    OBVIOUS
  <2> HIDE DEF T
  <2>1. <<"closing", x>>[1] = "closing" /\ <<"closing", x>>[2] = x
    OBVIOUS
  <2> QED BY <1>2, <1>3, <2>1 DEF T
<1>5. \A x \in Entity : <<"closed", x>> \in T => entityState(p, x) = "closing"
  <2> SUFFICES ASSUME NEW x \in Entity, <<"closed", x>> \in T
               PROVE  entityState(p, x) = "closing"
    OBVIOUS
  <2> HIDE DEF T
  <2>1. <<"closed", x>>[1] = "closed" /\ <<"closed", x>>[2] = x
    OBVIOUS
  <2> QED BY <1>2, <1>3, <2>1 DEF T
<1>6. \A x \in Entity, t \in T : t \in toOpen(x) =>
        entityState(p, x) \in {"launching", "opening", "committing"}
  <2> SUFFICES ASSUME NEW x \in Entity, NEW t \in T, t \in toOpen(x)
               PROVE  entityState(p, x) \in {"opening", "committing"}
    OBVIOUS
  <2>1. t[1] \in {"opening", "opened", "reopened"} /\ t[2] = x
    BY DEF toOpen
  <2> QED BY <1>2, <1>3, <2>1
<1> HIDE DEF T
<1> QED BY <1>1, <1>4, <1>5, <1>6, LaterInTurn

\* A request that saves f is under way, and f waits for the answer.
Awaited(p, f) == \E r \in p.requests : r.live /\ r.kind # "form" /\ r.field = f

\* The fields S may change to `to`: they have no save under way, a form when they
\* need it and none when it is not to be there.
Admissible(p, S, to) ==
  \A f \in S :
    /\ ~Awaited(p, f)
    /\ to \in changedFieldStates /\ f \notin PlainField => p.field[f].form = "loaded"
    /\ to \in {"inactive", "highlighted"} => p.field[f].form = "none"

\* An admissible change of field states keeps the invariant.
LEMMA ChangeGood ==
  ASSUME NEW p, NEW q, NEW e \in Entity, NEW S \in SUBSET Field,
         NEW to \in DOMAIN FieldStates,
         Good(p), Admissible(p, S, to), Changes(p, q, e, S, to)
  PROVE  Good(q)
<1>1. p \in Page /\ q \in Page
  BY DEF Good, Changes
<1>2. \A f \in Field : q.field[f] = fieldAfter(p, S, to, f)
  BY DEF Changes
<1>3. \A f \in Field : p.field[f] \in FieldModel
  BY <1>1, PageTypes
<1>4. \A f \in Field : f \notin S => q.field[f] = p.field[f]
  BY <1>1, <1>2, FieldAfter
<1>5. \A f \in S : /\ fieldState(q, f) = to
                   /\ q.field[f].editor = p.field[f].editor
                   /\ q.field[f].form = formAfter(f, p.field[f], to)
  BY <1>1, <1>2, FieldAfter DEF fieldState
<1>11. OneCommit(q)
  BY <1>1, ChangesOneCommit DEF Good
<1>12. SavesAwaited(q)
  <2>1. \A r \in sent(p, S, to) :
           /\ r.field \in S
           /\ r.kind # "form" => fieldState(q, r.field) = "saving"
    <3>1. \A r \in sent(p, S, to) :
              /\ r.live /\ r.field \in S
              /\ r.kind = requestKind(r.field, fieldState(p, r.field), to)
              /\ r \in Request
      BY <1>1, Sent
    <3> QED BY <3>1, <1>5 DEF requestKind, Request
  <2>2. \A r \in p.requests : r.live /\ r.kind # "form" =>
           r.field \notin S /\ fieldState(q, r.field) = "saving"
    <3>1. \A r \in p.requests : r.field \in Field
      BY <1>1, PageTypes DEF Request
    <3> QED BY <3>1, <1>4 DEF Good, SavesAwaited, Admissible, Awaited, fieldState
  <2>3. \A r, x \in sent(p, S, to) : r.field = x.field => r = x
    BY <1>1, Sent
  <2>4. q.requests = p.requests \cup sent(p, S, to)
    BY DEF Changes
  <2>5. \A r, x \in p.requests :
          r.live /\ r.kind # "form" /\ x.live /\ x.kind # "form" /\ x.field = r.field => x = r
    BY DEF Good, SavesAwaited
  <2> QED BY <2>1, <2>2, <2>3, <2>4, <2>5 DEF SavesAwaited
<1>13. FormThere(q)
  <2> SUFFICES ASSUME NEW f \in Field \ PlainField, fieldState(q, f) \in changedFieldStates
               PROVE  q.field[f].form = "loaded"
    BY DEF FormThere
  <2>1. CASE f \in S
    <3>1. p.field[f].form = "loaded" /\ to \in changedFieldStates
      BY <1>5, <2>1 DEF Admissible
    <3> QED BY <1>5, <2>1, <3>1 DEF formAfter, requestKind, changedFieldStates
  <2>2. CASE f \notin S
    BY <1>4, <2>2 DEF Good, FormThere, fieldState
  <2> QED BY <2>1, <2>2
<1>14. FormRemoved(q)
  <2> SUFFICES ASSUME NEW f \in Field,
                      fieldState(q, f) \in readyFieldStates \cup {"inactive"}
               PROVE  q.field[f].form = "none"
    BY DEF FormRemoved
  <2>1. CASE f \in S
    BY <1>5, <2>1 DEF Admissible, formAfter, requestKind, readyFieldStates
  <2>2. CASE f \notin S
    BY <1>4, <2>2 DEF Good, FormRemoved, fieldState
  <2> QED BY <2>1, <2>2
<1>15. CallbacksInTurn(q)
  BY <1>1, ChangesInTurn DEF Good
<1> QED BY <1>1, <1>11, <1>12, <1>13, <1>14, <1>15 DEF Good

\* The field models after a change of field states.
LEMMA ChangesField ==
  ASSUME NEW p \in Page, NEW q, NEW e \in Entity, NEW S \in SUBSET Field,
         NEW to \in DOMAIN FieldStates, Changes(p, q, e, S, to)
  PROVE  /\ \A f \in Field \ S : q.field[f] = p.field[f]
         /\ \A f \in S : /\ fieldState(q, f) = to
                         /\ q.field[f].editor = p.field[f].editor
                         /\ q.field[f].form = formAfter(f, p.field[f], to)
<1>1. \A f \in Field : q.field[f] = fieldAfter(p, S, to, f)
  BY DEF Changes
<1>2. \A f \in Field \ S : fieldAfter(p, S, to, f) = p.field[f]
  BY DEF fieldAfter
<1>3. \A f \in S : /\ fieldAfter(p, S, to, f).state = to
                   /\ fieldAfter(p, S, to, f).editor = p.field[f].editor
                   /\ fieldAfter(p, S, to, f).form = formAfter(f, p.field[f], to)
  BY FieldAfter
<1> QED BY <1>1, <1>2, <1>3 DEF fieldState

\* The field states after a change of field states.
LEMMA ChangesStates ==
  ASSUME NEW p \in Page, NEW q, NEW e \in Entity, NEW S \in SUBSET Field,
         NEW to \in DOMAIN FieldStates, Changes(p, q, e, S, to)
  PROVE  \A f \in Field : fieldState(q, f) = IF f \in S THEN to ELSE fieldState(p, f)
<1>1. \A f \in S : fieldState(q, f) = to
  <2>1. \A f \in Field : q.field[f] = fieldAfter(p, S, to, f)
    BY DEF Changes
  <2>2. \A f \in S : fieldAfter(p, S, to, f).state = to
    BY FieldAfter
  <2> QED BY <2>1, <2>2 DEF fieldState
<1>2. \A f \in Field \ S : q.field[f] = p.field[f]
  BY ChangesField
<1>3. \A f \in Field \ S : fieldState(q, f) = fieldState(p, f)
  BY <1>2 DEF fieldState
<1> QED BY <1>1, <1>3

\* The pages agree on all that the invariant speaks of.
Alike(p, q) ==
  /\ q \in Page /\ q.field = p.field /\ q.requests = p.requests
  /\ q.timers = p.timers /\ q.activeModal = p.activeModal
  /\ \A x \in Entity : /\ entityState(q, x) = entityState(p, x)
                       /\ q.entity[x].isActive = p.entity[x].isActive
                       /\ q.entity[x].isCommitting = p.entity[x].isCommitting
                       /\ q.commits[x] = p.commits[x]

\* The invariant does not see what pages that are alike differ in.
LEMMA AlikeGood ==
  ASSUME NEW p, NEW q, Good(p), Alike(p, q)
  PROVE  Good(q)
<1>1. OneCommit(q)
  BY DEF Good, Alike, OneCommit
<1>2. SavesAwaited(q)
  BY DEF Good, Alike, SavesAwaited, fieldState
<1>3. FormThere(q) /\ FormRemoved(q)
  BY DEF Good, Alike, FormThere, FormRemoved, fieldState
<1>4. CallbacksInTurn(q)
  BY DEF Good, Alike, CallbacksInTurn
<1> QED BY <1>1, <1>2, <1>3, <1>4 DEF Good, Alike


-----------------------------------------------------------------------------
(***************************************************************************)
(* FieldModel.set('state', to).                                            *)
(***************************************************************************)
\* Where a field may come from, by the sequence of its states.
LEMMA Follows ==
  ASSUME NEW from \in DOMAIN FieldStates
  PROVE  /\ followsOrAllowed(from, "candidate") => from # "saving"
         /\ followsOrAllowed(from, "highlighted") => from \in {"inactive", "candidate"}
         /\ followsOrAllowed(from, "activating") =>
              from \in {"inactive", "candidate", "highlighted", "invalid"}
         /\ followsOrAllowed(from, "active") =>
              from \in {"inactive", "candidate", "highlighted", "activating"}
         /\ followsOrAllowed(from, "changed") =>
              from \in {"inactive", "candidate", "highlighted", "activating", "active"}
         /\ followsOrAllowed(from, "saving") => from \notin {"saving", "saved"}
BY DEF followsOrAllowed, fieldFollowsStateSequence, FieldStates, activeFieldStates


\* A field that is not in saving has no save request under way.
LEMMA NotSaving ==
  ASSUME NEW p, Good(p), NEW f, fieldState(p, f) # "saving"
  PROVE  ~Awaited(p, f)
BY DEF Good, SavesAwaited, Awaited

\* The changes of the fields S follow the sequence, or are enforced.
Accepted(p, S, to, reason) ==
  \A f \in S : fieldState(p, f) # to /\
    (reason \notin {"stop", "rerender"} => followsOrAllowed(fieldState(p, f), to))

\* acceptEditorStateChange() accepts only changes that follow the sequence.
LEMMA Accept ==
  ASSUME NEW p, NEW S, NEW to, NEW reason
  PROVE  LET A == acceptEditorStateChange(p, S, to, reason)
         IN  A \in SUBSET S /\ Accepted(p, A, to, reason)
BY DEF acceptEditorStateChange, Accepted

\* The states in which what the user changed is not given up.
keptStates == {"changed", "invalid", "saving", "activating"}

\* What is changed in q as compared with p, apart from the fields G, is kept.
KeptBut(p, q, G) ==
  \A g \in Field \ G :
    fieldState(p, g) \in {"changed", "invalid"} => fieldState(q, g) \in keptStates

\* No entity changes its state.
SameStates(p, q) == \A x \in Entity : entityState(q, x) = entityState(p, x)

\* The active field has made room for f, whose model is as it was.
StepsAside(p, h, f) ==
  /\ Good(h) /\ h.field[f] = p.field[f]
  /\ \A r \in h.requests : r.field = f => r \in p.requests
  /\ SameStates(p, h) /\ KeptBut(p, h, {})

\* The active field steps aside without touching the one that is clicked.
LEMMA AsideOne ==
  ASSUME NEW p, Good(p), NEW f \in Field, NEW a \in Field, a # f,
         NEW to \in DOMAIN FieldStates, NEW S \in SUBSET {a},
         Admissible(p, S, to), NEW h, Changes(p, h, EntityOf[a], S, to)
  PROVE  (fieldState(p, a) \in {"changed", "invalid"} => to \in keptStates)
            => StepsAside(p, h, f)
<1>1. p \in Page /\ EntityOf[a] \in Entity /\ S \in SUBSET Field /\ to \in DOMAIN FieldStates
  BY QuickEditAssumption, StateNames DEF Good
<1>3. Good(h)
  BY <1>1, ChangeGood
<1>4. h.field[f] = p.field[f]
  <2>1. f \notin S
    OBVIOUS
  <2> QED BY <1>1, <2>1, ChangesField
<1>5. \A r \in h.requests : r.field = f => r \in p.requests
  <2>1. \A r \in sent(p, S, to) : r.field \in S
    BY <1>1, Sent
  <2> QED BY <2>1 DEF Changes
<1>7. SameStates(p, h)
  BY DEF Changes, SameStates
<1>8. \A g \in Field : fieldState(h, g) = IF g \in S THEN to ELSE fieldState(p, g)
  BY <1>1, ChangesStates
<1>9. ASSUME fieldState(p, a) \in {"changed", "invalid"} => to \in keptStates, NEW g \in Field,
             fieldState(p, g) \in {"changed", "invalid"}
      PROVE  fieldState(h, g) \in keptStates
  <2>1. CASE g \in S
    <3>1. g = a
      BY <2>1
    <3> QED BY <1>8, <1>9, <2>1, <3>1
  <2>2. CASE g \notin S
    BY <1>8, <1>9, <2>2 DEF keptStates
  <2> QED BY <2>1, <2>2
<1> QED BY <1>3, <1>4, <1>5, <1>7, <1>9 DEF StepsAside, KeptBut

\* The page with another active field.
withActiveField(p, a) == [p EXCEPT !.activeField = a]

\* The invariant does not depend on activeField.
LEMMA WithActiveField ==
  ASSUME NEW p \in Page, NEW a \in Field
  PROVE  Alike(p, withActiveField(p, a))
BY DEF Alike, withActiveField, Page, entityState

\* Making room for another field keeps the invariant, and unsaved changes.
LEMMA HandOver ==
  ASSUME NEW p, Good(p), NEW f \in Field, NEW to
  PROVE  StepsAside(p, handOver(p, f, to), f)
<1> DEFINE a == p.activeField
           T == acceptEditorStateChange(p, {a}, "candidate", "none")
           U == acceptEditorStateChange(p, {a}, "saving", "none")
           stop == IF a = Destroyed THEN p
                   ELSE CASE fieldState(p, a) \in activeFieldStates ->
                               changeState(p, EntityOf[a], T, "candidate")
                          [] fieldState(p, a) \in {"changed", "invalid"} ->
                               changeState(p, EntityOf[a], U, "saving")
                          [] OTHER -> p
<1>1. p \in Page
  BY DEF Good
<1>2. StepsAside(p, p, f)
  BY DEF StepsAside, SameStates, KeptBut, keptStates
<1>3. CASE ~(/\ a \notin {None, f}
             /\ fieldState(p, f) \in readyFieldStates \cup {"invalid"}
             /\ to \in activeFieldStates
             /\ followsOrAllowed(fieldState(p, f), to))
  <2>1. handOver(p, f, to) = p
    BY <1>3 DEF handOver
  <2> QED BY <1>2, <2>1
<1>4. CASE /\ a \notin {None, f}
           /\ fieldState(p, f) \in readyFieldStates \cup {"invalid"}
           /\ to \in activeFieldStates
           /\ followsOrAllowed(fieldState(p, f), to)
  <2>1. handOver(p, f, to) = IF fieldState(p, f) = "invalid"
                             THEN withActiveField(stop, f) ELSE stop
    BY <1>4 DEF handOver, setStates, withActiveField
  <2>2. a \in Field \cup {Destroyed}
    BY <1>1, <1>4, PageTypes
  <2>3. StepsAside(p, stop, f)
    <3>1. CASE a = Destroyed
      <4>1. stop = p
        BY <3>1
      <4> QED BY <1>2, <4>1
    <3>2. CASE a # Destroyed /\ fieldState(p, a) \in activeFieldStates
      <4>1. stop = changeState(p, EntityOf[a], T, "candidate")
        BY <3>2 DEF activeFieldStates
      <4> HIDE DEF stop
      <4>2. a \in Field /\ a # f /\ EntityOf[a] \in Entity
        BY <1>4, <2>2, <3>2, QuickEditAssumption
      <4>3. T \in SUBSET {a} /\ T \in SUBSET Field
        BY <4>2, Accept
      <4> HIDE DEF a, T
      <4>4. fieldState(p, a) \notin {"saving", "changed", "invalid"}
        BY <3>2 DEF activeFieldStates
      <4>5. ~Awaited(p, a)
        BY <4>4, NotSaving
      <4>6. Admissible(p, T, "candidate")
        BY <4>3, <4>5 DEF Admissible, changedFieldStates
      <4>7. "candidate" \in DOMAIN FieldStates
        BY StateNames
      <4>8. Changes(p, stop, EntityOf[a], T, "candidate")
        BY <1>1, <4>1, <4>2, <4>3, <4>7, ChangeState
      <4> QED BY <4>2, <4>3, <4>4, <4>6, <4>7, <4>8, AsideOne
    <3>3. CASE a # Destroyed /\ fieldState(p, a) \in {"changed", "invalid"}
      <4>1. stop = changeState(p, EntityOf[a], U, "saving")
        BY <3>3 DEF activeFieldStates
      <4> HIDE DEF stop
      <4>2. a \in Field /\ a # f /\ EntityOf[a] \in Entity
        BY <1>4, <2>2, <3>3, QuickEditAssumption
      <4>3. U \in SUBSET {a} /\ U \in SUBSET Field
        BY <4>2, Accept
      <4> HIDE DEF a, U
      <4>4. ~Awaited(p, a)
        BY <3>3, NotSaving
      <4>5. a \notin PlainField => p.field[a].form = "loaded"
        BY <3>3, <4>2 DEF Good, FormThere, changedFieldStates
      <4>8. Admissible(p, U, "saving")
        BY <4>3, <4>4, <4>5 DEF Admissible
      <4>9. "saving" \in DOMAIN FieldStates
        BY StateNames
      <4>10. Changes(p, stop, EntityOf[a], U, "saving")
        BY <1>1, <4>1, <4>2, <4>3, <4>9, ChangeState
      <4>11. "saving" \in keptStates
        BY DEF keptStates
      <4> QED BY <4>2, <4>3, <4>8, <4>9, <4>10, <4>11, AsideOne
    <3>4. CASE a # Destroyed /\ fieldState(p, a) \notin activeFieldStates \cup {"changed", "invalid"}
      <4>1. stop = p
        BY <3>4
      <4> QED BY <1>2, <4>1
    <3> QED BY <3>1, <3>2, <3>3, <3>4
  <2> HIDE DEF stop
  <2>4. StepsAside(p, withActiveField(stop, f), f)
    <3>1. stop \in Page
      BY <2>3 DEF StepsAside, Good
    <3>2. Alike(stop, withActiveField(stop, f))
      BY <3>1, WithActiveField
    <3>3. Good(withActiveField(stop, f))
      BY <2>3, <3>2, AlikeGood DEF StepsAside
    <3> QED BY <2>3, <3>2, <3>3 DEF StepsAside, Alike, SameStates, KeptBut, fieldState
  <2> QED BY <2>1, <2>3, <2>4
<1> QED BY <1>3, <1>4

\* set() of the state of f: entities and the changes of other fields are kept.
SetsField(p, q, f, to, reason) ==
  /\ Good(q) /\ SameStates(p, q) /\ KeptBut(p, q, {f})
  /\ fieldState(q, f) = IF f \in acceptEditorStateChange(p, {f}, to, reason) THEN to
                        ELSE fieldState(p, f)

\* set() of a field state that would be admissible keeps the invariant.
LEMMA SetField ==
  ASSUME NEW p, Good(p), NEW f \in Field, NEW to \in DOMAIN FieldStates, NEW reason,
         Admissible(p, acceptEditorStateChange(p, {f}, to, reason), to)
  PROVE  SetsField(p, setField(p, f, to, reason), f, to, reason)
<1> DEFINE A == acceptEditorStateChange(p, {f}, to, reason)
           e == EntityOf[f]
           h == handOver(p, f, to)
           q == setField(p, f, to, reason)
<1>1. q = changeState(h, e, A, to)
  BY DEF setField
<1>2. A \in SUBSET {f}
  BY Accept
<1>3. A \in SUBSET Field /\ e \in Entity
  BY <1>2, QuickEditAssumption
<1>4. Admissible(p, A, to)
  OBVIOUS
<1>5. StepsAside(p, h, f)
  BY HandOver
<1> HIDE DEF A, h, q, e
<1>6. Good(h) /\ h \in Page
  BY <1>5 DEF StepsAside, Good
<1>7. Admissible(h, A, to)
  BY <1>2, <1>3, <1>4, <1>5 DEF Admissible, Awaited, StepsAside
<1>8. Changes(h, q, e, A, to)
  BY <1>1, <1>3, <1>6, ChangeState
<1>9. Good(q)
  BY <1>3, <1>6, <1>7, <1>8, ChangeGood
<1>10. \A g \in Field : fieldState(q, g) = IF g \in A THEN to ELSE fieldState(h, g)
  BY <1>3, <1>6, <1>8, ChangesStates
<1>11. fieldState(q, f) = IF f \in A THEN to ELSE fieldState(p, f)
  <2>1. fieldState(h, f) = fieldState(p, f)
    BY <1>5 DEF StepsAside, fieldState
  <2> QED BY <1>10, <2>1
<1>12. KeptBut(p, q, {f})
  BY <1>2, <1>5, <1>10 DEF StepsAside, KeptBut
<1>13. SameStates(p, q)
  BY <1>5, <1>8 DEF StepsAside, SameStates, Changes
<1> QED BY <1>9, <1>11, <1>12, <1>13 DEF SetsField, A, q
\* The states that user events, callbacks and forms ask for are admissible.
LEMMA SetDirectly ==
  ASSUME NEW p, Good(p), NEW f \in Field, NEW reason \in {"none", "mouseleave"},
         NEW to \in {"candidate", "highlighted", "activating", "active", "changed"},
         to = "changed" /\ f \notin PlainField => p.field[f].form = "loaded"
  PROVE  SetsField(p, setField(p, f, to, reason), f, to, reason)
<1> DEFINE A == acceptEditorStateChange(p, {f}, to, reason)
<1>1. A \in SUBSET {f} /\ Accepted(p, A, to, reason)
  BY Accept
<1>2. to \in DOMAIN FieldStates /\ p \in Page /\ fieldState(p, f) \in DOMAIN FieldStates
  BY StateNames, PageTypes DEF Good, fieldState, FieldModel
<1> HIDE DEF A
<1>3. f \in A => followsOrAllowed(fieldState(p, f), to)
  BY <1>1 DEF Accepted
<1>4. f \in A => fieldState(p, f) # "saving"
  BY <1>2, <1>3, Follows
<1>5. f \in A /\ to = "highlighted" => fieldState(p, f) \in {"inactive", "candidate"}
  BY <1>2, <1>3, Follows
<1>6. f \in A /\ to = "highlighted" => p.field[f].form = "none"
  BY <1>5 DEF Good, FormRemoved, readyFieldStates
<1>7. f \in A => ~Awaited(p, f)
  BY <1>4, NotSaving
<1>8. Admissible(p, A, to)
  BY <1>1, <1>6, <1>7 DEF Admissible, changedFieldStates
<1> QED BY <1>2, <1>8, SetField DEF A

\* A change that is not ended by 'candidate' is not given up,
LEMMA SetKept ==
  ASSUME NEW p, NEW q, NEW f \in Field, NEW reason,
         NEW to \in {"candidate", "highlighted", "activating", "active", "changed"},
         p \in Page, SetsField(p, q, f, to, reason),
         to = "candidate" => reason = "mouseleave",
         reason \in {"none", "mouseleave"}
  PROVE  KeptBut(p, q, {})
<1> DEFINE A == acceptEditorStateChange(p, {f}, to, reason)
           from == fieldState(p, f)
<1>1. from \in DOMAIN FieldStates
  BY PageTypes DEF fieldState, FieldModel
<1>2. f \in A => followsOrAllowed(from, to) /\ ~rejectedOnLeave(from, to, reason)
  BY DEF acceptEditorStateChange
<1>3. f \in A /\ from \in {"changed", "invalid"} => to \in keptStates
  <2>1. CASE to = "candidate"
    BY <1>2, <2>1 DEF rejectedOnLeave
  <2>2. CASE to # "candidate"
    BY <1>1, <1>2, <2>2, Follows DEF keptStates
  <2> QED BY <2>1, <2>2
<1>4. from \in {"changed", "invalid"} => from \in keptStates
  BY DEF keptStates
<1>5. fieldState(q, f) = IF f \in A THEN to ELSE from
  BY DEF SetsField
<1> HIDE DEF A, from
<1>6. from \in {"changed", "invalid"} => fieldState(q, f) \in keptStates
  BY <1>3, <1>4, <1>5
<1> QED BY <1>6 DEF SetsField, KeptBut, from

\* The page once a request was answered.
without(p, r) == [p EXCEPT !.requests = @ \ {r}]

\* The invariant with fewer requests.
LEMMA Without ==
  ASSUME NEW p, Good(p), NEW r \in p.requests
  PROVE  LET q == without(p, r)
         IN  /\ Good(q) /\ q.field = p.field /\ q.entity = p.entity
             /\ q.requests = p.requests \ {r} /\ q.activeModal = p.activeModal
             /\ q.reload = p.reload /\ q.activeField = p.activeField
             /\ q.timers = p.timers
<1> DEFINE q == without(p, r)
<1>1. p \in Page
  BY DEF Good
<1>2. p.requests \ {r} \in SUBSET Request
  BY <1>1, PageTypes
<1>3. /\ q \in Page /\ q.field = p.field /\ q.entity = p.entity /\ q.timers = p.timers
      /\ q.requests = p.requests \ {r} /\ q.activeModal = p.activeModal
      /\ q.reload = p.reload /\ q.activeField = p.activeField /\ q.commits = p.commits
  BY <1>1, <1>2 DEF without, Page
<1> HIDE DEF q
<1>4. OneCommit(q)
  BY <1>3 DEF Good, OneCommit, entityState
<1>5. SavesAwaited(q)
  BY <1>3 DEF Good, SavesAwaited, fieldState
<1>6. FormThere(q) /\ FormRemoved(q)
  BY <1>3 DEF Good, FormThere, FormRemoved, fieldState
<1>7. CallbacksInTurn(q)
  BY <1>3 DEF Good, CallbacksInTurn, entityState
<1> QED BY <1>3, <1>4, <1>5, <1>6, <1>7 DEF Good, q

\* The answer to a save finds its field in 'saving', with its form, and no other
\* request that the field waits for.
LEMMA AnsweredSave ==
  ASSUME NEW p, Good(p), NEW r \in p.requests, r.kind = "submit", r.live,
         NEW to \in {"saved", "invalid"}
  PROVE  LET q == setField(without(p, r), r.field, to, "none")
         IN  Good(q) /\ SameStates(p, q) /\ KeptBut(p, q, {})
<1> DEFINE f == r.field
           w == without(p, r)
           q == setField(w, f, to, "none")
           A == acceptEditorStateChange(w, {f}, to, "none")
<1>1. f \in Field /\ p \in Page
  BY PageTypes DEF Good, Request
<1>2. Good(w) /\ w.field = p.field /\ w.entity = p.entity /\ w.requests = p.requests \ {r}
  BY Without
<1>3. fieldState(p, f) = "saving"
  BY DEF Good, SavesAwaited
<1>4. ~Awaited(w, f)
  BY <1>2 DEF Good, SavesAwaited, Awaited
<1> HIDE DEF w
<1>5. f \notin PlainField => w.field[f].form = "loaded"
  BY <1>1, <1>2, <1>3 DEF Good, FormThere, changedFieldStates
<1>6. A \in SUBSET {f}
  BY Accept
<1>7. Admissible(w, A, to)
  BY <1>4, <1>5, <1>6 DEF Admissible
<1>8. to \in DOMAIN FieldStates
  BY StateNames
<1>9. SetsField(w, q, f, to, "none")
  BY <1>1, <1>2, <1>7, <1>8, SetField
<1> HIDE DEF q
<1>10. SameStates(p, q)
  BY <1>2, <1>9 DEF SetsField, SameStates, entityState
<1>11. KeptBut(p, q, {})
  BY <1>2, <1>3, <1>9 DEF SetsField, KeptBut, fieldState
<1> QED BY <1>9, <1>10, <1>11 DEF SetsField, q, w

-----------------------------------------------------------------------------
(***************************************************************************)
(* The answers to the requests of fields.                                  *)
(***************************************************************************)
\* A step that keeps the invariant, the states of entities and all unsaved changes
\* but those of the fields G.
FieldStep(p, q, G) == Good(q) /\ SameStates(p, q) /\ KeptBut(p, q, G)

\* A callback that is about a field, or the dialog, is always in turn.
LEMMA DeferGood ==
  ASSUME NEW p, Good(p), NEW kind \in {"active", "html", "candidate", "rerender", "confirm"},
         NEW x, <<kind, x>> \in Task
  PROVE  LET q == defer(p, kind, x)
         IN  Good(q) /\ SameButTimers(p, q)
<1> DEFINE q == defer(p, kind, x)
<1>1. p \in Page
  BY DEF Good
<1>2. q \in Page /\ SameButTimers(p, q) /\ Later(p, q, {<<kind, x>>})
  BY <1>1, Defer
<1> HIDE DEF q
<1>3. OneCommit(q)
  BY <1>2 DEF Good, SameButTimers, OneCommit, entityState
<1>4. SavesAwaited(q)
  BY <1>2 DEF Good, SameButTimers, SavesAwaited, fieldState
<1>5. FormThere(q) /\ FormRemoved(q)
  BY <1>2 DEF Good, SameButTimers, FormThere, FormRemoved, fieldState
<1>6. CallbacksInTurn(q)
  <2>1. \A y \in Entity : entityState(q, y) = entityState(p, y)
    BY <1>2 DEF SameButTimers, entityState
  <2>2. \A y : <<kind, x>> # <<"closing", y>> /\ <<kind, x>> # <<"closed", y>>
    OBVIOUS
  <2>3. \A y : <<kind, x>> \notin toOpen(y)
    BY DEF toOpen
  <2> QED BY <1>1, <1>2, <2>1, <2>2, <2>3, LaterInTurn DEF Good
<1> QED BY <1>2, <1>3, <1>4, <1>5, <1>6 DEF Good, q

\* It is a field step behind one.
LEMMA DeferStep ==
  ASSUME NEW p, NEW q, NEW G, FieldStep(p, q, G),
         NEW kind \in {"active", "html", "candidate", "rerender", "confirm"},
         NEW x, <<kind, x>> \in Task
  PROVE  FieldStep(p, defer(q, kind, x), G)
BY DeferGood DEF FieldStep, SameButTimers, SameStates, KeptBut, entityState, fieldState

\* The page with the form of f loaded.
withForm(p, f) == [p EXCEPT !.field[f].form = "loaded"]

\* A form arrives in its container.
LEMMA WithForm ==
  ASSUME NEW p, Good(p), NEW f \in Field, p.field[f].form = "loading"
  PROVE  LET q == withForm(p, f)
         IN  /\ Good(q) /\ SameStates(p, q)
             /\ \A g \in Field : fieldState(q, g) = fieldState(p, g)
<1> DEFINE q == withForm(p, f)
           m == [p.field[f] EXCEPT !.form = "loaded"]
<1>1. p \in Page /\ p.field[f] \in FieldModel
  BY PageTypes DEF Good
<1>2. m \in FieldModel /\ m.state = p.field[f].state /\ m.form = "loaded"
  BY <1>1 DEF FieldModel
<1>3. q = [p EXCEPT !.field[f] = m]
  BY DEF withForm
<1> HIDE DEF m
<1>4. /\ q \in Page /\ q.requests = p.requests
      /\ q.entity = p.entity /\ q.timers = p.timers /\ q.commits = p.commits
      /\ q.field[f] = m /\ \A g \in Field \ {f} : q.field[g] = p.field[g]
  BY <1>1, <1>2 DEF Page, withForm, m
<1> HIDE DEF q
<1>5. \A g \in Field : /\ fieldState(q, g) = fieldState(p, g)
                       /\ g # f => q.field[g].form = p.field[g].form
  BY <1>2, <1>4 DEF fieldState
<1>6. SavesAwaited(q)
  <2>1. \A r \in p.requests : r.field \in Field
    BY <1>1, PageTypes DEF Request
  <2> QED BY <1>4, <1>5, <2>1 DEF Good, SavesAwaited
<1>7. OneCommit(q) /\ CallbacksInTurn(q) /\ SameStates(p, q)
  BY <1>4 DEF Good, OneCommit, CallbacksInTurn, SameStates, entityState
<1>8. FormThere(q)
  BY <1>2, <1>4, <1>5 DEF Good, FormThere
<1>9. FormRemoved(q)
  <2>1. fieldState(p, f) \notin readyFieldStates \cup {"inactive"}
    BY DEF Good, FormRemoved
  <2> QED BY <1>5, <2>1 DEF Good, FormRemoved
<1>10. Good(q)
  BY <1>4, <1>6, <1>7, <1>8, <1>9 DEF Good
<1> QED BY <1>5, <1>7, <1>10 DEF q

\* A request that is over changes no field.
LEMMA WithoutStep ==
  ASSUME NEW p, Good(p), NEW r \in p.requests
  PROVE  FieldStep(p, without(p, r), {})
BY Without DEF FieldStep, SameStates, KeptBut, keptStates, entityState, fieldState

\* The reply with the form of a field activates it.
LEMMA FormLoadedStep ==
  ASSUME NEW p, Good(p), NEW r \in p.requests
  PROVE  LET w == without(p, r)
             f == r.field
         IN  FieldStep(p, setField(IF w.field[f].form = "loading" THEN withForm(w, f) ELSE w,
                                   f, "active", "none"), {})
<1> DEFINE w == without(p, r)
           f == r.field
           u == IF w.field[f].form = "loading" THEN withForm(w, f) ELSE w
           q == setField(u, f, "active", "none")
<1>1. f \in Field
  BY PageTypes DEF Good, Request
<1>2. Good(w) /\ w.field = p.field /\ w.entity = p.entity
  BY Without
<1> HIDE DEF w, f
<1>3. /\ Good(u) /\ SameStates(w, u)
      /\ \A g \in Field : fieldState(u, g) = fieldState(w, g)
  BY <1>1, <1>2, WithForm DEF SameStates
<1> HIDE DEF u
<1>4. SetsField(u, q, f, "active", "none")
  BY <1>1, <1>3, SetDirectly
<1> HIDE DEF q
<1>5. KeptBut(u, q, {})
  <2>1. u \in Page
    BY <1>3 DEF Good
  <2> QED BY <1>1, <1>4, <2>1, SetKept
<1>6. \A g \in Field : fieldState(u, g) = fieldState(p, g)
  BY <1>2, <1>3 DEF fieldState
<1>7. KeptBut(p, q, {})
  BY <1>5, <1>6 DEF KeptBut
<1>8. SameStates(p, q)
  BY <1>2, <1>3, <1>4 DEF SetsField, SameStates, entityState
<1> QED BY <1>4, <1>7, <1>8 DEF SetsField, FieldStep, q, u, w, f

\* The reply with the hidden form of a plain text field: it is submitted.
LEMMA SaveFormLoadedStep ==
  ASSUME NEW p, Good(p), NEW r \in p.requests, r.kind = "saveform"
  PROVE  LET q == [without(p, r) EXCEPT
                     !.requests = @ \cup {request(p, "submit", r.field, r.live)}]
         IN  FieldStep(p, q, {})
<1> DEFINE w == without(p, r)
           x == request(p, "submit", r.field, r.live)
           R == w.requests \cup {x}
           q == [w EXCEPT !.requests = @ \cup {x}]
<1>1. r \in Request /\ r.field \in Field /\ r.live \in BOOLEAN /\ p \in Page
  BY PageTypes DEF Good, Request
<1>2. Good(w) /\ w.field = p.field /\ w.entity = p.entity /\ w.requests = p.requests \ {r}
  BY Without
<1>3. x \in Request /\ x.field = r.field /\ x.live = r.live
  BY <1>1 DEF request, Request
<1> HIDE DEF x, w
<1>4. R \in SUBSET Request /\ w \in Page
  BY <1>2, <1>3, PageTypes DEF Good
<1>5. q = [w EXCEPT !.requests = R]
  OBVIOUS
<1> HIDE DEF R
<1>6. /\ q \in Page /\ q.requests = R /\ q.field = w.field
      /\ q.entity = w.entity /\ q.timers = w.timers /\ q.commits = w.commits
  BY <1>4, <1>5 DEF Page
<1> HIDE DEF q
<1>7. SavesAwaited(q)
  <2>1. \A f \in Field : fieldState(q, f) = fieldState(p, f)
    BY <1>2, <1>6 DEF fieldState
  <2>2. r.live => /\ fieldState(q, r.field) = "saving"
                  /\ \A y \in p.requests : y.live /\ y.kind # "form" /\ y.field = r.field => y = r
    BY <1>1, <2>1 DEF Good, SavesAwaited
  <2>3. \A y \in w.requests : r.live /\ y.live /\ y.kind # "form" => y.field # r.field
    BY <1>2, <2>2
  <2>4. \A y \in w.requests : y.field \in Field
    BY <1>4, PageTypes DEF Request
  <2>5. \A y \in w.requests : y.live /\ y.kind # "form" =>
          /\ fieldState(q, y.field) = "saving"
          /\ \A z \in w.requests : z.live /\ z.kind # "form" /\ z.field = y.field => z = y
    BY <1>2, <2>1, <2>4 DEF Good, SavesAwaited
  <2> QED BY <1>3, <1>6, <2>2, <2>3, <2>5 DEF SavesAwaited, R
<1>8. OneCommit(q) /\ CallbacksInTurn(q)
  BY <1>2, <1>6 DEF Good, OneCommit, CallbacksInTurn, entityState
<1>9. FormThere(q) /\ FormRemoved(q)
  BY <1>2, <1>6 DEF Good, FormThere, FormRemoved, fieldState
<1>10. SameStates(p, q) /\ KeptBut(p, q, {})
  BY <1>2, <1>6 DEF SameStates, KeptBut, keptStates, entityState, fieldState
<1> QED BY <1>6, <1>7, <1>8, <1>9, <1>10 DEF FieldStep, Good, q, w, x

-----------------------------------------------------------------------------
(***************************************************************************)
(* EntityModel.set('state', to).                                           *)
(***************************************************************************)
\* The callbacks of e that are pending let it enter the state s.
MayBe(p, e, s) ==
  \A i \in 1..Len(p.timers) :
    IF s = "closing" THEN p.timers[i] \notin toOpen(e) \cup {<<"closed", e>>}
    ELSE /\ p.timers[i] # <<"closing", e>>
         /\ s = "closed" => p.timers[i] \notin toOpen(e)

\* Only a deactivating entity has callbacks that close it.
LEMMA NoneCloses ==
  ASSUME NEW p, Good(p), NEW e \in Entity,
         entityState(p, e) \notin {"deactivating", "closing"},
         NEW s, s \notin {"closing", "closed"}
  PROVE  MayBe(p, e, s)
BY DEF Good, CallbacksInTurn, MayBe

\* An entity changes its attributes, and its state when the callbacks allow it.
LEMMA MoveEntity ==
  ASSUME NEW p, Good(p), NEW e \in Entity, NEW m \in EntityModel,
         ~p.entity[e].isCommitting, ~m.isCommitting,
         m.state = entityState(p, e) \/ MayBe(p, e, m.state)
  PROVE  LET q == withEntity(p, e, m)
         IN  /\ Good(q) /\ q.field = p.field /\ entityState(q, e) = m.state
             /\ \A x \in Entity \ {e} : q.entity[x] = p.entity[x]
             /\ \A x \in Entity : mutexHeld(q, x) = mutexHeld(p, x)
<1> DEFINE q == withEntity(p, e, m)
<1>1. p \in Page
  BY DEF Good
<1>2. /\ q \in Page /\ q.field = p.field /\ q.timers = p.timers
      /\ q.requests = p.requests /\ q.commits = p.commits
      /\ q.entity[e] = m /\ \A x \in Entity \ {e} : q.entity[x] = p.entity[x]
  BY <1>1, WithEntity
<1> HIDE DEF q
<1>3. entityState(q, e) = m.state /\ \A x \in Entity \ {e} : entityState(q, x) = entityState(p, x)
  BY <1>2 DEF entityState
<1>4. OneCommit(q)
  BY <1>2, <1>3 DEF Good, OneCommit
<1>5. SavesAwaited(q)
  BY <1>2 DEF Good, SavesAwaited, fieldState
<1>6. FormThere(q) /\ FormRemoved(q)
  BY <1>2 DEF Good, FormThere, FormRemoved, fieldState
<1>7. CallbacksInTurn(q)
  <2>1. CASE m.state = entityState(p, e)
    <3>1. \A x \in Entity : entityState(q, x) = entityState(p, x)
      BY <1>3, <2>1
    <3> QED BY <1>2, <3>1 DEF Good, CallbacksInTurn
  <2>2. CASE MayBe(p, e, m.state)
    <3> SUFFICES ASSUME NEW x \in Entity, NEW i \in 1..Len(p.timers)
                 PROVE  /\ p.timers[i] = <<"closing", x>> =>
                             /\ entityState(q, x) \in {"deactivating", "closing"}
                             /\ entityState(q, x) = "deactivating" =>
                                  \A j \in i..Len(p.timers) :
                                      p.timers[j] \notin toOpen(x) \cup {<<"closed", x>>}
                        /\ p.timers[i] = <<"closed", x>> /\ entityState(q, x) = "closing" =>
                             \A j \in i..Len(p.timers) : p.timers[j] # <<"closing", x>>
                        /\ entityState(q, x) \in {"closing", "closed"} =>
                             p.timers[i] \notin toOpen(x)
      BY <1>2 DEF CallbacksInTurn
    <3>1. CASE x # e
      <4>1. entityState(q, x) = entityState(p, x)
        BY <1>3, <3>1
      <4> QED BY <4>1 DEF Good, CallbacksInTurn
    <3>2. CASE x = e
      <4>1. IF m.state = "closing" THEN p.timers[i] \notin toOpen(e) \cup {<<"closed", e>>}
            ELSE /\ p.timers[i] # <<"closing", e>>
                 /\ m.state = "closed" => p.timers[i] \notin toOpen(e)
        BY <2>2 DEF MayBe
      <4> QED BY <1>3, <3>2, <4>1
    <3> QED BY <3>1, <3>2
  <2> QED BY <2>1, <2>2
<1>8. \A x \in Entity : mutexHeld(q, x) = mutexHeld(p, x)
  BY <1>1, <1>2, PageTypes DEF mutexHeld, EntityModel
<1> QED BY <1>2, <1>3, <1>4, <1>5, <1>6, <1>7, <1>8 DEF Good, q

\* Fields that can be candidates become it.
LEMMA SetCandidates ==
  ASSUME NEW p, Good(p), NEW e \in Entity, NEW S \in SUBSET Field
  PROVE  LET q == setStates(p, e, S, "candidate", "none")
         IN  /\ FieldStep(p, q, S)
             /\ \A f \in Field \ S : q.field[f] = p.field[f]
             /\ \A f \in S : fieldState(p, f) \notin {"changed", "invalid", "saving", "saved"}
                  => fieldState(q, f) \in {"candidate", fieldState(p, f)}
<1> DEFINE A == acceptEditorStateChange(p, S, "candidate", "none")
           q == setStates(p, e, S, "candidate", "none")
<1>1. q = changeState(p, e, A, "candidate")
  BY DEF setStates
<1>2. A \in SUBSET S /\ Accepted(p, A, "candidate", "none")
  BY Accept
<1> HIDE DEF A, q
<1>3. p \in Page /\ "candidate" \in DOMAIN FieldStates /\ A \in SUBSET Field
  BY <1>2, StateNames DEF Good
<1>4. \A f \in A : fieldState(p, f) # "saving"
  <2>1. \A f \in Field : fieldState(p, f) \in DOMAIN FieldStates
    BY <1>3, PageTypes DEF fieldState, FieldModel
  <2> QED BY <1>2, <1>3, <2>1, Follows DEF Accepted
<1>5. Admissible(p, A, "candidate")
  BY <1>4, NotSaving DEF Admissible, changedFieldStates
<1>6. Changes(p, q, e, A, "candidate")
  BY <1>1, <1>3, ChangeState
<1>7. Good(q)
  BY <1>3, <1>5, <1>6, ChangeGood
<1>8. SameStates(p, q)
  BY <1>6 DEF Changes, SameStates
<1>9. \A f \in Field \ A : q.field[f] = p.field[f]
  <2>1. \A f \in Field \ A : q.field[f] = fieldAfter(p, A, "candidate", f)
    BY <1>6 DEF Changes
  <2> QED BY <2>1 DEF fieldAfter
<1>10. KeptBut(p, q, S)
  BY <1>2, <1>9 DEF KeptBut, keptStates, fieldState
<1>11. \A f \in Field : fieldState(q, f) = IF f \in A THEN "candidate" ELSE fieldState(p, f)
  BY <1>3, <1>6, ChangesStates
<1> QED BY <1>2, <1>7, <1>8, <1>9, <1>10, <1>11 DEF FieldStep, q

\* Another entity that is open and has unsaved changes stays open.
StaysOpen(p, q, x) ==
  entityState(p, x) = "opened" /\ unsavedChanges(p, x) => entityState(q, x) = "opened"

\* A step of e that keeps the invariant, unsaved changes outside G and other
\* entities that wait for an answer.
EntityStep(p, q, e, G) ==
  Good(q) /\ KeptBut(p, q, G) /\ \A x \in Entity \ {e} : StaysOpen(p, q, x)

\* An EntityModel with a new state.
LEMMA NewState ==
  ASSUME NEW m \in EntityModel, NEW s \in DOMAIN EntityStates
  PROVE  LET n == [m EXCEPT !.state = s]
         IN  n \in EntityModel /\ n.state = s /\ n.isCommitting = m.isCommitting
BY DEF EntityModel

\* Fields of an entity.
LEMMA FieldsOfEntity ==
  ASSUME NEW e \in Entity
  PROVE  FieldsOf(e) \in SUBSET Field
BY DEF FieldsOf

\* Deactivation of an entity that is not closing ends the editing of its fields.
LEMMA DeactivateStep ==
  ASSUME NEW p, Good(p), NEW e \in Entity, ~mutexHeld(p, e),
         entityState(p, e) \notin {"deactivating", "closing"}
  PROVE  LET q == deactivate(p, e)
         IN  /\ Good(q) /\ \A f \in Field \ FieldsOf(e) : q.field[f] = p.field[f]
             /\ \A x \in Entity \ {e} : entityState(q, x) = entityState(p, x)
<1> DEFINE S == FieldsOf(e)
           ready == {f \in S : fieldState(p, f) \in readyFieldStates}
           b == \/ p.entity[e].fieldsInTempStore # {}
                \/ \E f \in FieldsOf(e) : fieldState(p, f) = "invalid"
           m == [p.entity[e] EXCEPT !.state = "deactivating", !.reload = b]
           u == withEntity(p, e, m)
           q == setStates(u, e, S \ ready, "candidate", "none")
           r == deferEach(q, "closing", e, ready)
<1>1. p \in Page /\ p.entity[e] \in EntityModel /\ S \in SUBSET Field
  BY PageTypes, FieldsOfEntity DEF Good
<1>2. deactivate(p, e) = r
  BY DEF deactivate, withEntity
<1>3. "deactivating" \in DOMAIN EntityStates /\ b \in BOOLEAN
  BY StateNames
<1> HIDE DEF b
<1>4. m \in EntityModel /\ m.state = "deactivating" /\ m.isCommitting = p.entity[e].isCommitting
  BY <1>1, <1>3 DEF EntityModel
<1>5. S \ ready \in SUBSET Field /\ ready \in SUBSET Field
  BY <1>1
<1> HIDE DEF m, S, ready
<1>6. /\ Good(u) /\ u.field = p.field /\ entityState(u, e) = "deactivating"
      /\ \A x \in Entity \ {e} : u.entity[x] = p.entity[x]
  <2>1. MayBe(p, e, "deactivating")
    BY NoneCloses
  <2> QED BY <1>4, <2>1, MoveEntity DEF mutexHeld
<1> HIDE DEF u
<1>7. /\ FieldStep(u, q, S \ ready)
      /\ \A f \in Field \ (S \ ready) : q.field[f] = u.field[f]
  BY <1>5, <1>6, SetCandidates
<1> HIDE DEF q
<1>8. q \in Page /\ Good(q) /\ SameStates(u, q)
  BY <1>7 DEF FieldStep, Good
<1>9. <<"closing", e>> \in Task
  BY DEF Task
<1>10. r \in Page /\ SameButTimers(q, r) /\ Later(q, r, {<<"closing", e>>})
  BY <1>5, <1>8, <1>9, DeferEach
<1> HIDE DEF r
<1>11. OneCommit(r) /\ SavesAwaited(r) /\ FormThere(r) /\ FormRemoved(r)
  BY <1>8, <1>10 DEF Good, SameButTimers, OneCommit, SavesAwaited, FormThere, FormRemoved,
                     entityState, fieldState
<1>12. CallbacksInTurn(r)
  <2>1. \A x \in Entity : entityState(r, x) = entityState(q, x)
    BY <1>10 DEF SameButTimers, entityState
  <2>2. entityState(q, e) = "deactivating"
    BY <1>6, <1>8 DEF SameStates
  <2>3. \A x : <<"closing", e>> # <<"closed", x>> /\ <<"closing", e>> \notin toOpen(x)
    BY DEF toOpen
  <2>4. \A x : <<"closing", e>> = <<"closing", x>> => x = e
    OBVIOUS
  <2> QED BY <1>8, <1>10, <2>1, <2>2, <2>3, <2>4, LaterInTurn DEF Good
<1>13. \A f \in Field \ S : r.field[f] = p.field[f]
  BY <1>6, <1>7, <1>10 DEF SameButTimers
<1>14. \A x \in Entity \ {e} : entityState(r, x) = entityState(p, x)
  BY <1>6, <1>8, <1>10 DEF SameStates, SameButTimers, entityState
<1> QED BY <1>2, <1>10, <1>11, <1>12, <1>13, <1>14 DEF Good, S

\* Deactivation that asks first, or asks no more.
LEMMA DeactivatingStep ==
  ASSUME NEW p, Good(p), NEW e \in Entity, ~mutexHeld(p, e), NEW option,
         entityState(p, e) \notin {"deactivating", "closing"}
  PROVE  LET q == deactivating(p, e, option)
         IN  /\ Good(q) /\ \A f \in Field \ FieldsOf(e) : q.field[f] = p.field[f]
             /\ \A x \in Entity \ {e} : entityState(q, x) = entityState(p, x)
             /\ option = "none" =>
                  /\ KeptBut(p, q, {})
                  /\ unsavedChanges(p, e) => entityState(q, e) = "opened"
<1> DEFINE q == deactivating(p, e, option)
           m == [p.entity[e] EXCEPT !.state = "opened"]
           u == withEntity(p, e, m)
<1>1. p \in Page /\ p.entity[e] \in EntityModel /\ "opened" \in DOMAIN EntityStates
  BY PageTypes, StateNames DEF Good
<1>2. CASE unsavedChanges(p, e) /\ option \notin {"saved", "confirmed"}
  <2>1. q = defer(u, "confirm", e)
    BY <1>2 DEF deactivating, withEntity
  <2>2. m \in EntityModel /\ m.state = "opened" /\ m.isCommitting = p.entity[e].isCommitting
    BY <1>1, NewState
  <2> HIDE DEF m
  <2>3. /\ Good(u) /\ u.field = p.field /\ entityState(u, e) = "opened"
        /\ \A x \in Entity \ {e} : u.entity[x] = p.entity[x]
    <3>1. MayBe(p, e, "opened")
      BY NoneCloses
    <3> QED BY <2>2, <3>1, MoveEntity DEF mutexHeld
  <2> HIDE DEF u, q
  <2>4. <<"confirm", e>> \in Task
    BY DEF Task
  <2>5. Good(q) /\ SameButTimers(u, q)
    BY <2>1, <2>3, <2>4, DeferGood
  <2>6. /\ q.field = p.field /\ entityState(q, e) = "opened"
        /\ \A x \in Entity \ {e} : entityState(q, x) = entityState(p, x)
    BY <2>3, <2>5 DEF SameButTimers, entityState
  <2>7. KeptBut(p, q, {})
    BY <2>6 DEF KeptBut, keptStates, fieldState
  <2> QED BY <2>5, <2>6, <2>7 DEF q
<1>3. CASE ~(unsavedChanges(p, e) /\ option \notin {"saved", "confirmed"})
  <2>1. q = deactivate(p, e)
    BY <1>3 DEF deactivating
  <2>2. /\ Good(q) /\ \A f \in Field \ FieldsOf(e) : q.field[f] = p.field[f]
        /\ \A x \in Entity \ {e} : entityState(q, x) = entityState(p, x)
    BY <2>1, DeactivateStep
  <2> HIDE DEF q
  <2>3. ASSUME option = "none"
        PROVE  KeptBut(p, q, {}) /\ ~unsavedChanges(p, e)
    <3>1. ~unsavedChanges(p, e)
      BY <1>3, <2>3
    <3>2. \A f \in FieldsOf(e) : fieldState(p, f) \notin {"changed", "invalid"}
      BY <3>1 DEF unsavedChanges
    <3> QED BY <2>2, <3>1, <3>2 DEF KeptBut, keptStates, fieldState
  <2> QED BY <2>2, <2>3 DEF q
<1> QED BY <1>2, <1>3

\* The states that a state may follow.
LEMMA EntityFollows ==
  ASSUME NEW from \in DOMAIN EntityStates, NEW option
  PROVE  /\ acceptStateChange(from, "launching", option) => from = "closed"
         /\ acceptStateChange(from, "opening", option) => from \in {"closed", "launching"}
         /\ acceptStateChange(from, "opened", option) =>
              \/ from \in {"closed", "launching", "opening", "committing"}
              \/ from = "deactivating" /\ option = "confirming"
         /\ acceptStateChange(from, "committing", option) =>
              from \in {"closed", "launching", "opening", "opened"}
         /\ acceptStateChange(from, "deactivating", option) =>
              from \in {"closed", "launching", "opening", "opened", "committing"}
         /\ acceptStateChange(from, "closing", option) => from # "closing"
         /\ acceptStateChange(from, "closed", option) => from = "closing"
BY DEF acceptStateChange, entityFollowsStateSequence, EntityStates

\* The state of an entity is one of its states.
LEMMA EntityState ==
  ASSUME NEW p \in Page, NEW e \in Entity
  PROVE  entityState(p, e) \in DOMAIN EntityStates
BY PageTypes DEF entityState, EntityModel

\* An entity is opened; the other one is deactivated, after a question if it has
\* unsaved changes.
LEMMA OpenedStep ==
  ASSUME NEW p, Good(p), NEW e \in Entity, ~mutexHeld(p, e),
         entityState(p, e) \notin {"deactivating", "closing"}
  PROVE  EntityStep(p, opened(p, e), e, {})
<1> DEFINE m == [p.entity[e] EXCEPT !.state = "opened", !.isActive = TRUE]
           u == withEntity(p, e, m)
           x == CHOOSE y \in others(p, e) : TRUE
           q == opened(p, e)
<1>1. p \in Page /\ p.entity[e] \in EntityModel /\ "opened" \in DOMAIN EntityStates
  BY PageTypes, StateNames DEF Good
<1>2. q = IF p.entity[e].isActive \/ others(p, e) = {} THEN u
          ELSE deactivating(u, x, "none")
  BY DEF opened, withEntity
<1>3. m \in EntityModel /\ m.state = "opened" /\ m.isCommitting = p.entity[e].isCommitting
  BY <1>1 DEF EntityModel
<1>4. others(p, e) # {} =>
        /\ x \in Entity \ {e} /\ ~mutexHeld(p, x)
        /\ acceptStateChange(entityState(p, x), "deactivating", "none")
  BY DEF others
<1> HIDE DEF m, x
<1>5. /\ Good(u) /\ u.field = p.field
      /\ \A y \in Entity \ {e} : u.entity[y] = p.entity[y]
      /\ \A y \in Entity : mutexHeld(u, y) = mutexHeld(p, y)
  <2>1. MayBe(p, e, "opened")
    BY NoneCloses
  <2> QED BY <1>3, <2>1, MoveEntity DEF mutexHeld
<1>6. \A y \in Entity \ {e} : /\ entityState(u, y) = entityState(p, y)
                              /\ unsavedChanges(u, y) <=> unsavedChanges(p, y)
  BY <1>5 DEF entityState, unsavedChanges, fieldState
<1>7. \A f \in Field : fieldState(u, f) = fieldState(p, f)
  BY <1>5 DEF fieldState
<1> HIDE DEF u, q
<1>8. CASE q = u
  BY <1>5, <1>6, <1>7, <1>8 DEF EntityStep, KeptBut, keptStates, StaysOpen, q
<1>9. CASE q # u
  <2>1. q = deactivating(u, x, "none") /\ others(p, e) # {}
    BY <1>2, <1>9
  <2>2. entityState(u, x) \notin {"deactivating", "closing"} /\ ~mutexHeld(u, x)
    BY <1>1, <1>4, <1>5, <1>6, <2>1, EntityState, EntityFollows
  <2>3. /\ Good(q) /\ KeptBut(u, q, {})
        /\ unsavedChanges(u, x) => entityState(q, x) = "opened"
        /\ \A y \in Entity \ {x} : entityState(q, y) = entityState(u, y)
    BY <1>4, <1>5, <2>1, <2>2, DeactivatingStep
  <2>4. KeptBut(p, q, {})
    BY <1>7, <2>3 DEF KeptBut
  <2>5. \A y \in Entity \ {e} : StaysOpen(p, q, y)
    BY <1>6, <2>3 DEF StaysOpen
  <2> QED BY <2>3, <2>4, <2>5 DEF EntityStep, q
<1> QED BY <1>8, <1>9

\* The fields of an entity that is opening become candidates.
LEMMA OpeningStep ==
  ASSUME NEW p, Good(p), NEW e \in Entity, ~mutexHeld(p, e),
         entityState(p, e) \notin {"deactivating", "closing"}
  PROVE  EntityStep(p, opening(p, e), e, FieldsOf(e))
<1> DEFINE m == [p.entity[e] EXCEPT !.state = "opening"]
           u == withEntity(p, e, m)
           q == setStates(u, e, FieldsOf(e), "candidate", "none")
<1>1. p \in Page /\ p.entity[e] \in EntityModel /\ "opening" \in DOMAIN EntityStates
  BY PageTypes, StateNames DEF Good
<1>2. opening(p, e) = q
  BY DEF opening, withEntity
<1>3. m \in EntityModel /\ m.state = "opening" /\ m.isCommitting = p.entity[e].isCommitting
  BY <1>1, NewState
<1> HIDE DEF m
<1>4. /\ Good(u) /\ u.field = p.field
      /\ \A y \in Entity \ {e} : u.entity[y] = p.entity[y]
  <2>1. MayBe(p, e, "opening")
    BY NoneCloses
  <2> QED BY <1>3, <2>1, MoveEntity DEF mutexHeld
<1> HIDE DEF u
<1>5. FieldStep(u, q, FieldsOf(e))
  BY <1>4, FieldsOfEntity, SetCandidates
<1> HIDE DEF q
<1>6. KeptBut(p, q, FieldsOf(e))
  BY <1>4, <1>5 DEF FieldStep, KeptBut, fieldState
<1>7. \A y \in Entity \ {e} : entityState(q, y) = entityState(p, y)
  BY <1>4, <1>5 DEF FieldStep, SameStates, entityState
<1> QED BY <1>2, <1>5, <1>6, <1>7 DEF FieldStep, EntityStep, StaysOpen

\* The commit of an entity: changed fields are saved first.
LEMMA CommittingStep ==
  ASSUME NEW p, Good(p), NEW e \in Entity, ~mutexHeld(p, e),
         entityState(p, e) \notin {"deactivating", "closing"}
  PROVE  EntityStep(p, committing(p, e), e, {})
<1> DEFINE in(states) == {f \in FieldsOf(e) : fieldState(p, f) \in states}
           I == in({"active"})
           C == in(changedFieldStates)
           m == [p.entity[e] EXCEPT !.state = "committing"]
           u == withEntity(p, e, m)
           q == setStates(u, e, I, "candidate", "none")
           A == acceptEditorStateChange(q, C, "saving", "none")
           r == changeState(q, e, A, "saving")
<1>1. p \in Page /\ p.entity[e] \in EntityModel /\ "committing" \in DOMAIN EntityStates
  BY PageTypes, StateNames DEF Good
<1>2. committing(p, e) = r
  BY DEF committing, setStates, withEntity
<1>3. m \in EntityModel /\ m.state = "committing" /\ m.isCommitting = p.entity[e].isCommitting
  BY <1>1, NewState
<1>4. /\ I \in SUBSET Field /\ C \in SUBSET Field /\ I \cap C = {}
      /\ \A f \in C : fieldState(p, f) \in changedFieldStates
      /\ \A f \in I : fieldState(p, f) = "active"
  BY FieldsOfEntity DEF changedFieldStates
<1> HIDE DEF m, I, C
<1>5. /\ Good(u) /\ u.field = p.field
      /\ \A y \in Entity \ {e} : u.entity[y] = p.entity[y]
  <2>1. MayBe(p, e, "committing")
    BY NoneCloses
  <2> QED BY <1>3, <2>1, MoveEntity DEF mutexHeld
<1> HIDE DEF u
<1>6. FieldStep(u, q, I) /\ \A f \in Field \ I : q.field[f] = u.field[f]
  BY <1>4, <1>5, SetCandidates
<1> HIDE DEF q
<1>7. q \in Page /\ Good(q) /\ \A f \in C : q.field[f] = p.field[f]
  BY <1>4, <1>5, <1>6 DEF FieldStep, Good
<1>8. A \in SUBSET C /\ Accepted(q, A, "saving", "none")
  BY Accept
<1> HIDE DEF A
<1>9. Admissible(q, A, "saving")
  <2>1. \A f \in A : fieldState(q, f) # "saving"
    BY <1>8 DEF Accepted
  <2>2. \A f \in A : f \notin PlainField => q.field[f].form = "loaded"
    <3>1. \A f \in A : f \in Field /\ fieldState(q, f) \in changedFieldStates
      BY <1>4, <1>7, <1>8 DEF fieldState
    <3> QED BY <1>7, <3>1 DEF Good, FormThere
  <2> QED BY <1>7, <2>1, <2>2, NotSaving DEF Admissible
<1>10. "saving" \in DOMAIN FieldStates /\ A \in SUBSET Field
  BY <1>4, <1>8, StateNames
<1>11. Changes(q, r, e, A, "saving")
  BY <1>7, <1>10, ChangeState
<1>12. Good(r)
  BY <1>7, <1>9, <1>10, <1>11, ChangeGood
<1>13. \A f \in Field : fieldState(r, f) = IF f \in A THEN "saving" ELSE fieldState(q, f)
  BY <1>7, <1>10, <1>11, ChangesStates
<1>14. KeptBut(p, r, {})
  <2> SUFFICES ASSUME NEW f \in Field, fieldState(p, f) \in {"changed", "invalid"}
               PROVE  fieldState(r, f) \in keptStates
    BY DEF KeptBut
  <2>1. f \notin I
    BY <1>4
  <2>2. fieldState(q, f) = fieldState(p, f)
    BY <1>5, <1>6, <2>1 DEF fieldState
  <2> QED BY <1>13, <2>2 DEF keptStates
<1>15. \A y \in Entity \ {e} : entityState(r, y) = entityState(p, y)
  BY <1>5, <1>6, <1>11 DEF FieldStep, SameStates, Changes, entityState
<1> HIDE DEF r
<1> QED BY <1>2, <1>12, <1>14, <1>15 DEF EntityStep, StaysOpen


\* The entity closes: its fields, all ready, stop being edited.
LEMMA ClosingStep ==
  ASSUME NEW p, Good(p), NEW e \in Entity, ~mutexHeld(p, e), MayBe(p, e, "closing"),
         \A f \in FieldsOf(e) : fieldState(p, f) \in readyFieldStates
  PROVE  EntityStep(p, closing(p, e), e, {})
<1> DEFINE m == [p.entity[e] EXCEPT !.state = "closing"]
           u == withEntity(p, e, m)
           A == acceptEditorStateChange(u, FieldsOf(e), "inactive", "stop")
           q == changeState(u, e, A, "inactive")
<1>1. p \in Page /\ p.entity[e] \in EntityModel /\ "closing" \in DOMAIN EntityStates
  BY PageTypes, StateNames DEF Good
<1>2. closing(p, e) = q
  BY DEF closing, setStates, withEntity
<1>3. m \in EntityModel /\ m.state = "closing" /\ m.isCommitting = p.entity[e].isCommitting
  BY <1>1, NewState
<1> HIDE DEF m
<1>4. /\ Good(u) /\ u.field = p.field
      /\ \A y \in Entity \ {e} : u.entity[y] = p.entity[y]
  BY <1>3, MoveEntity DEF mutexHeld
<1> HIDE DEF u
<1>5. A \in SUBSET FieldsOf(e)
  BY Accept
<1> HIDE DEF A
<1>6. u \in Page /\ "inactive" \in DOMAIN FieldStates /\ A \in SUBSET Field
  BY <1>4, <1>5, StateNames, FieldsOfEntity DEF Good
<1>7. \A f \in A : f \in Field /\ fieldState(u, f) \in readyFieldStates
  BY <1>4, <1>5, <1>6 DEF fieldState
<1>8. Admissible(u, A, "inactive")
  <2>1. \A f \in A : ~Awaited(u, f)
    BY <1>4, <1>7, NotSaving DEF readyFieldStates
  <2>2. \A f \in A : u.field[f].form = "none"
    BY <1>4, <1>7 DEF Good, FormRemoved
  <2> QED BY <2>1, <2>2 DEF Admissible, changedFieldStates
<1>9. Changes(u, q, e, A, "inactive")
  BY <1>6, ChangeState
<1>10. Good(q)
  BY <1>4, <1>6, <1>8, <1>9, ChangeGood
<1>11. \A f \in Field : fieldState(q, f) = IF f \in A THEN "inactive" ELSE fieldState(u, f)
  BY <1>6, <1>9, ChangesStates
<1>12. KeptBut(p, q, {})
  <2> SUFFICES ASSUME NEW f \in Field, fieldState(p, f) \in {"changed", "invalid"}
               PROVE  fieldState(q, f) \in keptStates
    BY DEF KeptBut
  <2>1. fieldState(u, f) = fieldState(p, f)
    BY <1>4 DEF fieldState
  <2>2. f \notin A
    BY <1>7, <2>1 DEF readyFieldStates
  <2> QED BY <1>11, <2>1, <2>2 DEF keptStates
<1>13. \A y \in Entity \ {e} : entityState(q, y) = entityState(p, y)
  BY <1>4, <1>9 DEF Changes, entityState
<1> HIDE DEF q
<1> QED BY <1>2, <1>10, <1>12, <1>13 DEF EntityStep, StaysOpen

\* The page that was just loaded is good.
LEMMA LoadedGood == Good(loadedPage) /\ loadedPage.activeModal = None
<1> DEFINE p == loadedPage
<1>1. p \in Page
  <2>1. p.timers \in Seq(Task)
    BY DEF loadedPage
  <2>2. newField \in FieldModel
    BY StateNames DEF newField, FieldModel
  <2>3. \A e \in Entity : p.entity[e] \in EntityModel
    BY StateNames DEF loadedPage, EntityModel
  <2> QED BY <2>1, <2>2, <2>3 DEF loadedPage, Page
<1>2. /\ \A e \in Entity : ~p.entity[e].isCommitting /\ p.commits[e] = 0
      /\ \A f \in Field : fieldState(p, f) = "inactive" /\ p.field[f].form = "none"
      /\ p.timers = <<>> /\ p.requests = {} /\ p.activeModal = None
  BY DEF loadedPage, newField, fieldState
<1> HIDE DEF p
<1>3. OneCommit(p) /\ SavesAwaited(p)
  BY <1>2 DEF OneCommit, SavesAwaited
<1>4. FormThere(p) /\ FormRemoved(p)
  BY <1>2 DEF FormThere, FormRemoved, changedFieldStates
<1>5. CallbacksInTurn(p)
  BY <1>2 DEF CallbacksInTurn
<1> QED BY <1>1, <1>2, <1>3, <1>4, <1>5 DEF Good, p

\* The field models with or without their editors, of one entity.
editors(p, e, b) ==
  [f \in Field |-> IF f \in FieldsOf(e) THEN [p.field[f] EXCEPT !.editor = b] ELSE p.field[f]]

\* setupEditor() or teardownEditor() of all fields of an entity.
withEditors(p, e, b) == [p EXCEPT !.field = editors(p, e, b)]

\* The invariant does not depend on the editors.
LEMMA WithEditors ==
  ASSUME NEW p, Good(p), NEW e \in Entity, NEW b \in BOOLEAN
  PROVE  LET q == withEditors(p, e, b)
         IN  /\ Good(q) /\ q.entity = p.entity /\ q.timers = p.timers
             /\ \A f \in Field : fieldState(q, f) = fieldState(p, f)
<1> DEFINE g == editors(p, e, b)
           q == withEditors(p, e, b)
<1>1. p \in Page /\ \A f \in Field : p.field[f] \in FieldModel
  BY PageTypes DEF Good
<1>2. /\ g \in [Field -> FieldModel]
      /\ \A f \in Field : g[f].state = p.field[f].state /\ g[f].form = p.field[f].form
  BY <1>1 DEF editors, FieldModel
<1> HIDE DEF g
<1>3. /\ q \in Page /\ q.field = g /\ q.entity = p.entity /\ q.timers = p.timers
      /\ q.requests = p.requests /\ q.commits = p.commits
  BY <1>1, <1>2 DEF withEditors, Page, g
<1> HIDE DEF q
<1>4. \A f \in Field : fieldState(q, f) = fieldState(p, f) /\ q.field[f].form = p.field[f].form
  BY <1>2, <1>3 DEF fieldState
<1>5. OneCommit(q)
  BY <1>3 DEF Good, OneCommit, entityState
<1>6. SavesAwaited(q)
  <2>1. \A x \in p.requests : x.field \in Field
    BY <1>1, PageTypes DEF Request
  <2> QED BY <1>3, <1>4, <2>1 DEF Good, SavesAwaited
<1>7. FormThere(q) /\ FormRemoved(q)
  BY <1>4 DEF Good, FormThere, FormRemoved
<1>8. CallbacksInTurn(q)
  BY <1>3 DEF Good, CallbacksInTurn, entityState
<1> QED BY <1>3, <1>4, <1>5, <1>6, <1>7, <1>8 DEF Good, q

\* The entity is closed, or the page reloaded.
LEMMA ClosedStep ==
  ASSUME NEW p, Good(p), NEW e \in Entity, ~mutexHeld(p, e), MayBe(p, e, "closed")
  PROVE  LET q == closed(p, e)
         IN  /\ Good(q)
             /\ IF p.reload THEN q.activeModal = None ELSE EntityStep(p, q, e, {})
<1>1. CASE p.reload
  BY <1>1, LoadedGood DEF closed
<1>2. CASE ~p.reload
  <2> DEFINE m == [p.entity[e] EXCEPT !.state = "closed", !.isActive = FALSE,
                                      !.inTempStore = FALSE, !.isDirty = FALSE]
             u == withEntity(p, e, m)
             q == withEditors(u, e, FALSE)
  <2>1. p \in Page /\ p.entity[e] \in EntityModel
    BY PageTypes DEF Good
  <2>2. m \in EntityModel /\ m.state = "closed" /\ m.isCommitting = p.entity[e].isCommitting
    BY <2>1, StateNames DEF EntityModel
  <2>3. closed(p, e) = q
    <3>1. u.field = p.field
      BY <2>1, <2>2, WithEntity
    <3>2. editors(u, e, FALSE) = editors(p, e, FALSE)
      BY <3>1 DEF editors
    <3>3. closed(p, e) = [p EXCEPT !.entity[e] = m, !.field = editors(p, e, FALSE)]
      BY <1>2 DEF closed, editors
    <3>4. q = [u EXCEPT !.field = editors(p, e, FALSE)]
      BY <3>2 DEF withEditors
    <3> QED BY <3>3, <3>4 DEF withEntity
  <2> HIDE DEF m
  <2>4. /\ Good(u) /\ u.field = p.field
        /\ \A y \in Entity \ {e} : u.entity[y] = p.entity[y]
    BY <2>2, MoveEntity DEF mutexHeld
  <2> HIDE DEF u
  <2>5. /\ Good(q) /\ q.entity = u.entity
        /\ \A f \in Field : fieldState(q, f) = fieldState(u, f)
    BY <2>4, WithEditors
  <2> HIDE DEF q
  <2>6. KeptBut(p, q, {})
    BY <2>4, <2>5 DEF KeptBut, keptStates, fieldState
  <2>7. \A y \in Entity \ {e} : entityState(q, y) = entityState(p, y)
    BY <2>4, <2>5 DEF entityState
  <2> QED BY <1>2, <2>3, <2>5, <2>6, <2>7 DEF EntityStep, StaysOpen
<1> QED BY <1>1, <1>2

\* A closed entity is launched.
LEMMA LaunchingStep ==
  ASSUME NEW p, Good(p), NEW e \in Entity, ~mutexHeld(p, e), entityState(p, e) = "closed"
  PROVE  EntityStep(p, launching(p, e), e, {})
<1> DEFINE m == [p.entity[e] EXCEPT !.state = "launching"]
           u == withEntity(p, e, m)
           v == [u EXCEPT !.reload = FALSE]
           w == withEditors(v, e, TRUE)
           q == defer(w, "opening", e)
<1>1. p \in Page /\ p.entity[e] \in EntityModel /\ "launching" \in DOMAIN EntityStates
  BY PageTypes, StateNames DEF Good
<1>2. m \in EntityModel /\ m.state = "launching" /\ m.isCommitting = p.entity[e].isCommitting
  BY <1>1, NewState
<1>3. launching(p, e) = q
  <2>1. v.field = p.field
    <3>1. u \in Page /\ u.field = p.field
      BY <1>1, <1>2, WithEntity
    <3> HIDE DEF u
    <3> QED BY <3>1 DEF Page
  <2>2. editors(v, e, TRUE) = editors(p, e, TRUE)
    <3> HIDE DEF v
    <3> QED BY <2>1 DEF editors
  <2>3. launching(p, e) = defer([p EXCEPT !.entity[e] = m, !.reload = FALSE,
                                         !.field = editors(p, e, TRUE)], "opening", e)
    BY DEF launching, editors
  <2>4. w = [v EXCEPT !.field = editors(p, e, TRUE)]
    BY <2>2 DEF withEditors
  <2> QED BY <2>3, <2>4 DEF withEntity
<1> HIDE DEF m
<1>4. /\ Good(u) /\ u.field = p.field /\ entityState(u, e) = "launching"
      /\ \A y \in Entity \ {e} : u.entity[y] = p.entity[y]
  <2>1. MayBe(p, e, "launching")
    BY NoneCloses
  <2> QED BY <1>2, <2>1, MoveEntity DEF mutexHeld
<1> HIDE DEF u
<1>5. Good(v) /\ v.field = u.field /\ v.entity = u.entity
  <2>1. /\ v \in Page /\ v.field = u.field /\ v.entity = u.entity /\ v.requests = u.requests
        /\ v.timers = u.timers /\ v.activeModal = u.activeModal /\ v.commits = u.commits
    BY <1>4 DEF Good, Page
  <2> HIDE DEF v
  <2>2. Alike(u, v)
    BY <2>1 DEF Alike, entityState
  <2> QED BY <1>4, <2>1, <2>2, AlikeGood
<1> HIDE DEF v
<1>6. /\ Good(w) /\ w.entity = v.entity /\ w \in Page
      /\ \A f \in Field : fieldState(w, f) = fieldState(v, f)
  BY <1>5, WithEditors DEF Good
<1> HIDE DEF w
<1>7. <<"opening", e>> \in Task
  BY DEF Task
<1>8. q \in Page /\ SameButTimers(w, q) /\ Later(w, q, {<<"opening", e>>})
  BY <1>6, <1>7, Defer
<1> HIDE DEF q
<1>9. OneCommit(q) /\ SavesAwaited(q) /\ FormThere(q) /\ FormRemoved(q)
  BY <1>6, <1>8 DEF Good, SameButTimers, OneCommit, SavesAwaited, FormThere, FormRemoved,
                    entityState, fieldState
<1>10. CallbacksInTurn(q)
  <2>1. \A x \in Entity : entityState(q, x) = entityState(w, x)
    BY <1>8 DEF SameButTimers, entityState
  <2>2. entityState(w, e) = "launching"
    BY <1>4, <1>5, <1>6 DEF entityState
  <2>3. \A x : <<"opening", e>> # <<"closed", x>> /\ <<"opening", e>> # <<"closing", x>>
    OBVIOUS
  <2>4. \A x : <<"opening", e>> \in toOpen(x) => x = e
    BY DEF toOpen
  <2> QED BY <1>6, <1>8, <2>1, <2>2, <2>3, <2>4, LaterInTurn DEF Good
<1>11. KeptBut(p, q, {})
  BY <1>4, <1>5, <1>6, <1>8 DEF SameButTimers, KeptBut, keptStates, fieldState
<1>12. \A y \in Entity \ {e} : entityState(q, y) = entityState(p, y)
  BY <1>4, <1>5, <1>6, <1>8 DEF SameButTimers, entityState
<1> QED BY <1>3, <1>8, <1>9, <1>10, <1>11, <1>12 DEF Good, EntityStep, StaysOpen

-----------------------------------------------------------------------------
(***************************************************************************)
(* Deferred callbacks.                                                     *)
(***************************************************************************)
\* The callbacks that referred to the model of f, when it is destroyed.
redirected(t, f) ==
  [i \in DOMAIN t |-> IF t[i][2] = f THEN <<t[i][1], Destroyed>> ELSE t[i]]

\* What is deferred about entities is not touched when a field is destroyed.
LEMMA Redirected ==
  ASSUME NEW t \in Seq(Task), NEW f \in Field
  PROVE  LET s == redirected(t, f)
         IN  /\ s \in Seq(Task) /\ Len(s) = Len(t)
             /\ \A k : \A i \in 1..Len(t), x \in Entity : s[i] = <<k, x>> <=> t[i] = <<k, x>>
             /\ \A i \in 1..Len(t), x \in Entity : s[i] \in toOpen(x) <=> t[i] \in toOpen(x)
<1> DEFINE s == redirected(t, f)
<1>1. DOMAIN t = 1..Len(t) /\ Len(t) \in Nat /\ \A i \in 1..Len(t) : t[i] \in Task
  OBVIOUS
<1>2. /\ DOMAIN s = 1..Len(t)
      /\ \A i \in 1..Len(t) : s[i] = IF t[i][2] = f THEN <<t[i][1], Destroyed>> ELSE t[i]
  BY <1>1 DEF redirected
<1>3. \A i \in 1..Len(t) : s[i] \in Task
  <2> SUFFICES ASSUME NEW i \in 1..Len(t) PROVE s[i] \in Task
    OBVIOUS
  <2> HIDE DEF s
  <2>1. t[i] \in Task
    BY <1>1
  <2>2. t[i][2] = f => <<t[i][1], Destroyed>> \in Task
    BY <2>1, QuickEditAssumption DEF Task
  <2> QED BY <1>2, <2>1, <2>2
<1>4. s \in Seq(Task) /\ Len(s) = Len(t)
  <2>1. s = [i \in 1..Len(t) |-> s[i]]
    BY <1>1 DEF redirected
  <2> HIDE DEF s
  <2>2. s \in [1..Len(t) -> Task]
    BY <1>2, <1>3, <2>1
  <2> QED BY <1>1, <1>2, <2>2, SeqDef
<1> HIDE DEF s
<1>5. \A k : \A i \in 1..Len(t), x \in Entity : s[i] = <<k, x>> <=> t[i] = <<k, x>>
  <2> SUFFICES ASSUME NEW k, NEW i \in 1..Len(t), NEW x \in Entity
               PROVE  s[i] = <<k, x>> <=> t[i] = <<k, x>>
    OBVIOUS
  <2>1. x # f /\ x # Destroyed
    BY QuickEditAssumption
  <2>2. CASE t[i][2] = f
    BY <1>2, <2>1, <2>2
  <2>3. CASE t[i][2] # f
    BY <1>2, <2>3
  <2> QED BY <2>2, <2>3
<1>6. \A i \in 1..Len(t), x \in Entity : s[i] \in toOpen(x) <=> t[i] \in toOpen(x)
  <2> SUFFICES ASSUME NEW i \in 1..Len(t), NEW x \in Entity
               PROVE  s[i] \in toOpen(x) <=> t[i] \in toOpen(x)
    OBVIOUS
  <2>1. \A y : y \in toOpen(x) <=> y \in {<<"opening", x>>, <<"opened", x>>, <<"reopened", x>>}
    BY DEF toOpen
  <2>2. /\ s[i] = <<"opening", x>> <=> t[i] = <<"opening", x>>
        /\ s[i] = <<"opened", x>> <=> t[i] = <<"opened", x>>
        /\ s[i] = <<"reopened", x>> <=> t[i] = <<"reopened", x>>
    BY <1>5
  <2> QED BY <2>1, <2>2
<1> QED BY <1>4, <1>5, <1>6 DEF s

\* A field is rendered again with a new model.
LEMMA RerenderStep ==
  ASSUME NEW p, Good(p), NEW f \in Field
  PROVE  FieldStep(p, rerender(p, f), {f})
<1> DEFINE e == EntityOf[f]
           A == acceptEditorStateChange(p, {f}, "inactive", "rerender")
           q == changeState(p, e, A, "inactive")
           edited == activeEntity(q) = e
           n == [newField EXCEPT !.editor = edited]
           a == IF q.activeField = f THEN Destroyed ELSE q.activeField
           T == redirected(q.timers, f)
           late(x) == [x EXCEPT !.live = @ /\ x.field # f]
           R == {late(x) : x \in q.requests}
           r == [q EXCEPT !.field[f] = n, !.activeField = a, !.timers = T, !.requests = R]
           s == rerender(p, f)
<1>1. s = IF edited THEN setStates(r, e, {f}, "candidate", "none") ELSE r
  BY DEF rerender, setStates, redirected
<1>2. e \in Entity /\ p \in Page
  BY QuickEditAssumption DEF Good
<1>3. A \in SUBSET {f} /\ A \in SUBSET Field /\ "inactive" \in DOMAIN FieldStates
  BY Accept, StateNames
<1> HIDE DEF A
<1>4. Changes(p, q, e, A, "inactive")
  BY <1>2, <1>3, ChangeState
<1> HIDE DEF q, e
<1>5. q \in Page
  BY <1>4 DEF Changes
<1>6. q.requests = p.requests
  <2>1. sent(p, A, "inactive") = {}
    BY DEF sent, requestKind
  <2> QED BY <1>4, <2>1 DEF Changes
<1>7. edited \in BOOLEAN /\ n \in FieldModel /\ n.state = "inactive" /\ n.form = "none"
  BY StateNames DEF newField, FieldModel
<1>8. a \in Field \cup {None, Destroyed}
  BY <1>5, PageTypes
<1>9. /\ R \in SUBSET Request
      /\ \A y \in R : y.live => y \in p.requests /\ y.field # f
  <2>1. ASSUME NEW x \in q.requests
        PROVE  late(x) \in Request /\ (late(x).live => late(x) = x /\ late(x).field # f)
    <3>1. x \in Request
      BY <1>2, <1>6, PageTypes
    <3>2. late(x) \in Request /\ late(x).field = x.field
      BY <3>1 DEF Request
    <3>3. late(x).live => x.live /\ x.field # f
      BY <3>1 DEF Request
    <3>4. late(x).live => late(x) = x
      BY <3>1, <3>3 DEF Request
    <3> HIDE DEF late
    <3> QED BY <3>2, <3>3, <3>4
  <2> HIDE DEF late
  <2> QED BY <1>6, <2>1
<1>10. q.timers \in Seq(Task)
  BY <1>5, PageTypes
<1>11. /\ T \in Seq(Task) /\ Len(T) = Len(q.timers)
       /\ \A k : \A i \in 1..Len(q.timers), x \in Entity : T[i] = <<k, x>> <=> q.timers[i] = <<k, x>>
       /\ \A i \in 1..Len(q.timers), x \in Entity : T[i] \in toOpen(x) <=> q.timers[i] \in toOpen(x)
  BY <1>10, Redirected
<1> HIDE DEF n, a, R, T, edited
<1>12. /\ r \in Page /\ r.requests = R /\ r.timers = T
       /\ r.entity = q.entity /\ r.commits = q.commits
       /\ r.field[f] = n /\ \A g \in Field \ {f} : r.field[g] = q.field[g]
  <2> DEFINE F == [q.field EXCEPT ![f] = n]
  <2>1. q.field \in [Field -> FieldModel]
    BY <1>5, PageTypes
  <2>2. F \in [Field -> FieldModel] /\ F[f] = n /\ \A g \in Field \ {f} : F[g] = q.field[g]
    BY <1>7, <2>1
  <2>3. r = [q EXCEPT !.field = F, !.activeField = a, !.timers = T, !.requests = R]
    OBVIOUS
  <2> HIDE DEF F, r
  <2>4. /\ r \in Page /\ r.requests = R /\ r.timers = T /\ r.field = F
        /\ r.entity = q.entity /\ r.commits = q.commits
    BY <1>5, <1>8, <1>9, <1>11, <2>2, <2>3 DEF Page
  <2> QED BY <2>2, <2>4
<1> HIDE DEF r
<1>13. \A g \in Field \ {f} : r.field[g] = p.field[g]
  <2>1. \A g \in Field : q.field[g] = fieldAfter(p, A, "inactive", g)
    BY <1>4 DEF Changes
  <2>2. \A g \in Field \ A : q.field[g] = p.field[g]
    BY <2>1 DEF fieldAfter
  <2> QED BY <1>3, <1>12, <2>2
<1>14. /\ \A g \in Field \ {f} : fieldState(r, g) = fieldState(p, g)
       /\ fieldState(r, f) = "inactive" /\ r.field[f].form = "none"
       /\ \A x \in Entity : entityState(r, x) = entityState(q, x)
       /\ \A x \in Entity : entityState(q, x) = entityState(p, x)
  BY <1>4, <1>7, <1>12, <1>13 DEF fieldState, entityState, Changes
<1>15. OneCommit(r)
  <2>1. OneCommit(q)
    BY <1>2, <1>4, ChangesOneCommit DEF Good
  <2> QED BY <1>12, <1>14, <2>1 DEF OneCommit
<1>16. SavesAwaited(r)
  <2>1. \A x \in p.requests : x.field \in Field
    BY <1>2, PageTypes DEF Request
  <2> QED BY <1>9, <1>12, <1>14, <2>1 DEF Good, SavesAwaited
<1>17. FormThere(r) /\ FormRemoved(r)
  BY <1>13, <1>14 DEF Good, FormThere, FormRemoved, changedFieldStates
<1>18. CallbacksInTurn(r)
  <2>1. CallbacksInTurn(q)
    BY <1>2, <1>3, <1>4, ChangesInTurn DEF Good
  <2>2. Len(q.timers) \in Nat
    BY <1>10
  <2> SUFFICES ASSUME NEW x \in Entity, NEW i \in 1..Len(q.timers)
               PROVE  /\ T[i] = <<"closing", x>> =>
                           /\ entityState(r, x) \in {"deactivating", "closing"}
                           /\ entityState(r, x) = "deactivating" =>
                                \A j \in i..Len(q.timers) :
                                    T[j] \notin toOpen(x) \cup {<<"closed", x>>}
                      /\ T[i] = <<"closed", x>> /\ entityState(r, x) = "closing" =>
                           \A j \in i..Len(q.timers) : T[j] # <<"closing", x>>
                      /\ entityState(r, x) \in {"closing", "closed"} => T[i] \notin toOpen(x)
    BY <1>11, <1>12 DEF CallbacksInTurn
  <2>3. \A j \in i..Len(q.timers) : j \in 1..Len(q.timers)
    BY <2>2
  <2>4. /\ \A j \in 1..Len(q.timers) : /\ T[j] = <<"closing", x>> <=> q.timers[j] = <<"closing", x>>
                                       /\ T[j] = <<"closed", x>> <=> q.timers[j] = <<"closed", x>>
                                       /\ T[j] \in toOpen(x) <=> q.timers[j] \in toOpen(x)
        /\ entityState(r, x) = entityState(q, x)
    BY <1>11, <1>14
  <2> QED BY <2>1, <2>3, <2>4 DEF CallbacksInTurn
<1>19. Good(r)
  BY <1>12, <1>15, <1>16, <1>17, <1>18 DEF Good
<1> DEFINE u == setStates(r, e, {f}, "candidate", "none")
<1>20. FieldStep(r, u, {f})
  BY <1>2, <1>19, SetCandidates
<1> HIDE DEF u, s
<1>21. FieldStep(r, s, {f})
  <2>1. CASE s = r
    BY <1>19, <2>1 DEF FieldStep, SameStates, KeptBut, keptStates
  <2>2. CASE s # r
    BY <1>1, <1>20, <2>2 DEF u
  <2> QED BY <2>1, <2>2
<1>22. SameStates(p, s)
  BY <1>14, <1>21 DEF FieldStep, SameStates
<1>23. KeptBut(p, s, {f})
  BY <1>14, <1>21 DEF FieldStep, KeptBut
<1> QED BY <1>21, <1>22, <1>23 DEF FieldStep, s

\* The page without the first callback.
popped(p) == [p EXCEPT !.timers = Tail(@)]

\* The head of the callbacks comes in turn, and so do the others after it.
LEMMA Popped ==
  ASSUME NEW p, Good(p), p.timers # <<>>
  PROVE  LET q == popped(p)
             h == Head(p.timers)
         IN  /\ Good(q) /\ h \in Task
             /\ q.field = p.field /\ q.entity = p.entity /\ q.activeModal = p.activeModal
             /\ q.reload = p.reload
             /\ \A e \in Entity : h = <<"closing", e>> =>
                  /\ entityState(q, e) \in {"deactivating", "closing"}
                  /\ entityState(q, e) = "deactivating" => MayBe(q, e, "closing")
             /\ \A e \in Entity : h = <<"closed", e>> /\ entityState(q, e) = "closing" =>
                  MayBe(q, e, "closed")
<1> DEFINE q == popped(p)
           t == p.timers
           u == Tail(t)
<1>1. p \in Page /\ t \in Seq(Task)
  BY PageTypes DEF Good
<1>2. /\ u \in Seq(Task) /\ Len(t) \in Nat \ {0} /\ Len(u) = Len(t) - 1
      /\ \A i \in 1..Len(u) : u[i] = t[i + 1]
  BY <1>1
<1>3. Head(t) = t[1] /\ t[1] \in Task /\ 1 \in 1..Len(t)
  BY <1>1, <1>2
<1> HIDE DEF t, u
<1>4. q \in Page /\ q.timers = u /\ SameButTimers(p, q)
  BY <1>1, <1>2, TimersExcept DEF popped, SameButTimers, t, u
<1> HIDE DEF q
<1>5. OneCommit(q) /\ SavesAwaited(q) /\ FormThere(q) /\ FormRemoved(q)
  BY <1>4 DEF Good, SameButTimers, OneCommit, SavesAwaited, FormThere, FormRemoved,
              entityState, fieldState
<1>6. \A x \in Entity : entityState(q, x) = entityState(p, x)
  BY <1>4 DEF SameButTimers, entityState
<1>7. \A i \in 1..Len(u) : i + 1 \in 1..Len(t)
  BY <1>2
<1>8. CallbacksInTurn(q)
  <2> SUFFICES ASSUME NEW x \in Entity, NEW i \in 1..Len(u)
               PROVE  /\ u[i] = <<"closing", x>> =>
                           /\ entityState(p, x) \in {"deactivating", "closing"}
                           /\ entityState(p, x) = "deactivating" =>
                                \A j \in i..Len(u) : u[j] \notin toOpen(x) \cup {<<"closed", x>>}
                      /\ u[i] = <<"closed", x>> /\ entityState(p, x) = "closing" =>
                           \A j \in i..Len(u) : u[j] # <<"closing", x>>
                      /\ entityState(p, x) \in {"closing", "closed"} => u[i] \notin toOpen(x)
    BY <1>4, <1>6 DEF CallbacksInTurn
  <2>1. u[i] = t[i + 1] /\ i + 1 \in 1..Len(t)
    BY <1>2, <1>7
  <2>2. \A j \in i..Len(u) : u[j] = t[j + 1] /\ j + 1 \in (i + 1)..Len(t)
    BY <1>2
  <2> QED BY <2>1, <2>2 DEF Good, CallbacksInTurn, t
<1>9. \A i \in 1..Len(u) : i + 1 \in 1..Len(t) /\ u[i] = t[i + 1]
  BY <1>2, <1>7
<1>10. ASSUME NEW e \in Entity, t[1] = <<"closing", e>>
       PROVE  /\ entityState(q, e) \in {"deactivating", "closing"}
              /\ entityState(q, e) = "deactivating" => MayBe(q, e, "closing")
  <2>1. /\ entityState(p, e) \in {"deactivating", "closing"}
        /\ entityState(p, e) = "deactivating" =>
             \A j \in 1..Len(t) : t[j] \notin toOpen(e) \cup {<<"closed", e>>}
    BY <1>3, <1>10 DEF Good, CallbacksInTurn, t
  <2> QED BY <1>4, <1>6, <1>9, <2>1 DEF MayBe
<1>11. ASSUME NEW e \in Entity, t[1] = <<"closed", e>>, entityState(q, e) = "closing"
       PROVE  MayBe(q, e, "closed")
  <2>1. entityState(p, e) = "closing"
    BY <1>6, <1>11
  <2>2. \A j \in 1..Len(t) : t[j] # <<"closing", e>>
    BY <1>3, <1>11, <2>1 DEF Good, CallbacksInTurn, t
  <2>3. \A j \in 1..Len(t) : t[j] \notin toOpen(e)
    BY <2>1 DEF Good, CallbacksInTurn, t
  <2> QED BY <1>4, <1>9, <2>2, <2>3 DEF MayBe
<1> QED BY <1>3, <1>4, <1>5, <1>8, <1>10, <1>11 DEF Good, SameButTimers, q, t

-----------------------------------------------------------------------------
(***************************************************************************)
(* The steps.                                                              *)
(***************************************************************************)
\* A step that keeps the invariant, unsaved changes outside G, and entities with
\* unsaved changes open.
Safe(p, q, G) ==
  Good(q) /\ KeptBut(p, q, G) /\ \A x \in Entity : StaysOpen(p, q, x)

\* Steps of fields are safe.
LEMMA FieldSafe ==
  ASSUME NEW p, NEW q, NEW G, FieldStep(p, q, G)
  PROVE  Safe(p, q, G)
BY DEF FieldStep, Safe, SameStates, StaysOpen

\* No step is one of them.
LEMMA NoStep ==
  ASSUME NEW p, Good(p), NEW G
  PROVE  FieldStep(p, p, G)
BY DEF FieldStep, SameStates, KeptBut, keptStates

\* A step of an entity that is not open is safe.
LEMMA EntitySafe ==
  ASSUME NEW p, NEW q, NEW e \in Entity, NEW G, EntityStep(p, q, e, G),
         entityState(p, e) # "opened"
  PROVE  Safe(p, q, G)
BY DEF EntityStep, Safe, StaysOpen

\* The pages p and w have the same fields and entities.
Looks(p, w) == w.field = p.field /\ w.entity = p.entity

\* What is safe from a page is safe from one that looks like it.
LEMMA LooksSafe ==
  ASSUME NEW p, NEW w, NEW q, NEW G, Looks(p, w), Safe(w, q, G)
  PROVE  Safe(p, q, G)
<1>1. KeptBut(p, q, G)
  BY DEF Looks, Safe, KeptBut, fieldState
<1>2. \A x \in Entity : StaysOpen(p, q, x)
  BY DEF Looks, Safe, StaysOpen, entityState, unsavedChanges, fieldState
<1> QED BY <1>1, <1>2 DEF Safe

\* An entity is launched, opens or is opened.
LEMMA SetOpen ==
  ASSUME NEW p, Good(p), NEW e \in Entity, NEW to \in {"launching", "opening", "opened"},
         NEW option, option # "confirming", NEW accepted
  PROVE  Safe(p, setEntity(p, e, to, option, accepted),
              IF to = "opening" THEN FieldsOf(e) ELSE {})
<1> DEFINE q == setEntity(p, e, to, option, accepted)
           from == entityState(p, e)
           G == IF to = "opening" THEN FieldsOf(e) ELSE {}
<1>1. CASE q = p
  BY <1>1, NoStep, FieldSafe
<1>2. CASE q # p
  <2>1. /\ from # to /\ ~mutexHeld(p, e) /\ acceptStateChange(from, to, option)
        /\ q = CASE to = "launching" -> launching(p, e)
                 [] to = "opening" -> opening(p, e)
                 [] to = "opened" -> opened(p, e)
    BY <1>2 DEF setEntity
  <2> HIDE DEF q
  <2>2. from \in DOMAIN EntityStates
    BY EntityState DEF Good
  <2>3. from \in {"closed", "launching", "opening", "committing"}
        /\ (to = "launching" => from = "closed")
    BY <2>1, <2>2, EntityFollows
  <2>4. EntityStep(p, q, e, G)
    <3>1. CASE to = "launching"
      BY <2>1, <2>3, <3>1, LaunchingStep
    <3>2. CASE to = "opening"
      BY <2>1, <2>3, <3>2, OpeningStep
    <3>3. CASE to = "opened"
      BY <2>1, <2>3, <3>3, OpenedStep
    <3> QED BY <3>1, <3>2, <3>3
  <2> QED BY <2>3, <2>4, EntitySafe DEF q
<1> QED BY <1>1, <1>2

\* An entity is committed.
LEMMA SetCommitting ==
  ASSUME NEW p, Good(p), NEW e \in Entity, NEW option, NEW accepted
  PROVE  LET q == setEntity(p, e, "committing", option, accepted)
         IN  Good(q) /\ KeptBut(p, q, {})
<1> DEFINE q == setEntity(p, e, "committing", option, accepted)
           from == entityState(p, e)
<1>1. CASE q = p
  BY <1>1, NoStep DEF FieldStep
<1>2. CASE q # p
  <2>1. ~mutexHeld(p, e) /\ acceptStateChange(from, "committing", option) /\ q = committing(p, e)
    BY <1>2 DEF setEntity
  <2> HIDE DEF q
  <2>2. from \notin {"deactivating", "closing"}
    BY <2>1, EntityState, EntityFollows DEF Good
  <2> QED BY <2>1, <2>2, CommittingStep DEF EntityStep, q
<1> QED BY <1>1, <1>2

\* An entity is deactivated.
LEMMA SetDeactivating ==
  ASSUME NEW p, Good(p), NEW e \in Entity, NEW option, NEW accepted
  PROVE  LET q == setEntity(p, e, "deactivating", option, accepted)
         IN  /\ Good(q) /\ KeptBut(p, q, FieldsOf(e))
             /\ option = "none" => KeptBut(p, q, {})
<1> DEFINE q == setEntity(p, e, "deactivating", option, accepted)
           from == entityState(p, e)
<1>1. CASE q = p
  BY <1>1, NoStep DEF FieldStep
<1>2. CASE q # p
  <2>1. /\ ~mutexHeld(p, e) /\ acceptStateChange(from, "deactivating", option)
        /\ q = deactivating(p, e, option)
    BY <1>2 DEF setEntity
  <2> HIDE DEF q
  <2>2. from \notin {"deactivating", "closing"}
    BY <2>1, EntityState, EntityFollows DEF Good
  <2>3. /\ Good(q) /\ \A f \in Field \ FieldsOf(e) : q.field[f] = p.field[f]
        /\ option = "none" => KeptBut(p, q, {})
    BY <2>1, <2>2, DeactivatingStep
  <2>4. KeptBut(p, q, FieldsOf(e))
    BY <2>3 DEF KeptBut, keptStates, fieldState
  <2> QED BY <2>3, <2>4 DEF q
<1> QED BY <1>1, <1>2

\* Field states do not change the dialog.
LEMMA SetStatesModal ==
  ASSUME NEW p \in Page, NEW e \in Entity, NEW S \in SUBSET Field,
         NEW to \in DOMAIN FieldStates, NEW reason
  PROVE  LET q == setStates(p, e, S, to, reason)
         IN  q \in Page /\ q.activeModal = p.activeModal
<1> DEFINE A == acceptEditorStateChange(p, S, to, reason)
           q == setStates(p, e, S, to, reason)
<1>1. A \in SUBSET Field /\ q = changeState(p, e, A, to)
  BY Accept DEF setStates
<1> HIDE DEF A, q
<1>2. Changes(p, q, e, A, to)
  BY <1>1, ChangeState
<1> QED BY <1>2 DEF Changes, q

\* Neither does the commit or the deactivation of an entity.
LEMMA SetEntityModal ==
  ASSUME NEW p \in Page, NEW e \in Entity, NEW to \in {"committing", "deactivating"},
         NEW option, NEW accepted
  PROVE  setEntity(p, e, to, option, accepted).activeModal = p.activeModal
<1> DEFINE q == setEntity(p, e, to, option, accepted)
           in(states) == {f \in FieldsOf(e) : fieldState(p, f) \in states}
<1>1. p.entity[e] \in EntityModel /\ FieldsOf(e) \in SUBSET Field
      /\ "candidate" \in DOMAIN FieldStates /\ "saving" \in DOMAIN FieldStates
  BY PageTypes, FieldsOfEntity, StateNames
<1>2. /\ in({"active"}) \in SUBSET Field /\ in(changedFieldStates) \in SUBSET Field
      /\ in(readyFieldStates) \in SUBSET Field
      /\ FieldsOf(e) \ in(readyFieldStates) \in SUBSET Field
  BY <1>1
<1>3. CASE q = p
  BY <1>3
<1>4. CASE q # p /\ to = "committing"
  <2> DEFINE m == [p.entity[e] EXCEPT !.state = "committing"]
             u == withEntity(p, e, m)
             v == setStates(u, e, in({"active"}), "candidate", "none")
             w == setStates(v, e, in(changedFieldStates), "saving", "none")
  <2>1. q = w
    BY <1>4 DEF setEntity, committing, withEntity
  <2>2. m \in EntityModel
    BY <1>1, NewState, StateNames
  <2> HIDE DEF m, q, in
  <2>3. u \in Page /\ u.activeModal = p.activeModal
    BY <2>2, WithEntity
  <2> HIDE DEF u
  <2>4. v \in Page /\ v.activeModal = u.activeModal
    BY <1>1, <1>2, <2>3, SetStatesModal
  <2> HIDE DEF v
  <2>5. w.activeModal = v.activeModal
    BY <1>1, <1>2, <2>4, SetStatesModal
  <2> QED BY <2>1, <2>3, <2>4, <2>5 DEF q
<1>5. CASE q # p /\ to = "deactivating"
  <2>1. q = deactivating(p, e, option)
    BY <1>5 DEF setEntity
  <2> HIDE DEF q
  <2>2. CASE unsavedChanges(p, e) /\ option \notin {"saved", "confirmed"}
    <3> DEFINE m == [p.entity[e] EXCEPT !.state = "opened"]
               u == withEntity(p, e, m)
    <3>1. q = defer(u, "confirm", e)
      BY <2>1, <2>2 DEF deactivating, withEntity
    <3>2. m \in EntityModel
      BY <1>1, NewState, StateNames
    <3> HIDE DEF m
    <3>3. u \in Page /\ u.activeModal = p.activeModal
      BY <3>2, WithEntity
    <3> HIDE DEF u
    <3>4. <<"confirm", e>> \in Task
      BY DEF Task
    <3>5. SameButTimers(u, q)
      BY <3>1, <3>3, <3>4, Defer
    <3> QED BY <3>3, <3>5 DEF SameButTimers, q
  <2>3. CASE ~(unsavedChanges(p, e) /\ option \notin {"saved", "confirmed"})
    <3> DEFINE ready == in(readyFieldStates)
               b == \/ p.entity[e].fieldsInTempStore # {}
                    \/ \E f \in FieldsOf(e) : fieldState(p, f) = "invalid"
               m == [p.entity[e] EXCEPT !.state = "deactivating", !.reload = b]
               u == withEntity(p, e, m)
               v == setStates(u, e, FieldsOf(e) \ ready, "candidate", "none")
    <3>1. q = deferEach(v, "closing", e, ready)
      BY <2>1, <2>3 DEF deactivating, deactivate, withEntity
    <3>2. b \in BOOLEAN /\ "deactivating" \in DOMAIN EntityStates
      BY StateNames
    <3> HIDE DEF b
    <3>3. m \in EntityModel
      BY <1>1, <3>2 DEF EntityModel
    <3> HIDE DEF m, in
    <3>4. u \in Page /\ u.activeModal = p.activeModal
      BY <3>3, WithEntity
    <3> HIDE DEF u
    <3>5. v \in Page /\ v.activeModal = u.activeModal
      BY <1>1, <1>2, <3>4, SetStatesModal
    <3> HIDE DEF v
    <3>6. <<"closing", e>> \in Task
      BY DEF Task
    <3>7. SameButTimers(v, q)
      BY <1>2, <3>1, <3>5, <3>6, DeferEach
    <3> QED BY <3>4, <3>5, <3>7 DEF SameButTimers, q
  <2> QED BY <2>2, <2>3
<1> QED BY <1>3, <1>4, <1>5

\* The page with another dialog, or none.
withModal(p, m) == [p EXCEPT !.activeModal = m]

\* The invariant does not depend on the dialog.
LEMMA WithModal ==
  ASSUME NEW p, Good(p), NEW m \in Entity \cup {None}
  PROVE  LET q == withModal(p, m)
         IN  Good(q) /\ q.activeModal = m /\ Looks(p, q)
<1> DEFINE q == withModal(p, m)
<1>1. /\ q \in Page /\ q.activeModal = m /\ q.field = p.field /\ q.entity = p.entity
      /\ q.timers = p.timers /\ q.requests = p.requests /\ q.commits = p.commits
  BY DEF withModal, Good, Page
<1> HIDE DEF q
<1>2. Good(q)
  BY <1>1 DEF Good, OneCommit, SavesAwaited, FormThere, FormRemoved, CallbacksInTurn,
              entityState, fieldState
<1> QED BY <1>1, <1>2 DEF Looks, q

\* The changes that a callback may give up, since the user made them too early.
early(h) ==
  {f \in Field : h \in {<<"opening", EntityOf[f]>>, <<"candidate", f>>, <<"rerender", f>>}}

\* The callback h takes the page from w to q.
Ran(w, h, q) ==
  \/ Safe(w, q, early(h))
  \/ Good(q) /\ w.reload /\ h[1] = "closed" /\ q.activeModal = None

\* A larger set of changes may be given up.
LEMMA SafeMore ==
  ASSUME NEW p, NEW q, NEW G, NEW H, G \subseteq H, Safe(p, q, G)
  PROVE  Safe(p, q, H)
BY DEF Safe, KeptBut

\* Callbacks about an entity.
LEMMA RunEntity ==
  ASSUME NEW w, Good(w), NEW e \in Entity, NEW kind,
         kind \in {"opening", "opened", "reopened", "closing", "closed", "confirm"},
         kind = "closing" =>
           /\ entityState(w, e) \in {"deactivating", "closing"}
           /\ entityState(w, e) = "deactivating" => MayBe(w, e, "closing"),
         kind = "closed" /\ entityState(w, e) = "closing" => MayBe(w, e, "closed")
  PROVE  Ran(w, <<kind, e>>, runTask(w, kind, e))
<1> DEFINE q == runTask(w, kind, e)
           h == <<kind, e>>
<1>1. h[1] = kind /\ h[2] = e /\ e # Destroyed
  BY QuickEditAssumption
<1>2. CASE kind = "opening"
  <2>1. q = setEntity(w, e, "opening", "none", anyFieldState)
    BY <1>1, <1>2 DEF runTask
  <2> HIDE DEF q
  <2>2. Safe(w, q, FieldsOf(e))
    BY <2>1, SetOpen
  <2>3. FieldsOf(e) \subseteq early(h)
    BY <1>2 DEF FieldsOf, early
  <2> QED BY <2>2, <2>3, SafeMore DEF Ran, q
<1>3. CASE kind \in {"opened", "reopened"}
  <2>1. \E option \in {"none", "invalid"}, accepted \in {readyFieldStates, anyFieldState} :
           q = setEntity(w, e, "opened", option, accepted)
    <3>1. CASE kind = "opened"
      <4>1. q = setEntity(w, e, "opened", "none", readyFieldStates)
        BY <1>1, <3>1 DEF runTask
      <4> QED BY <4>1
    <3>2. CASE kind = "reopened"
      <4>1. q = setEntity(w, e, "opened", "invalid", anyFieldState)
        BY <1>1, <3>2 DEF runTask
      <4> QED BY <4>1
    <3> QED BY <1>3, <3>1, <3>2
  <2> HIDE DEF q
  <2>2. Safe(w, q, {})
    BY <2>1, SetOpen
  <2> QED BY <2>2, SafeMore DEF Ran, q
<1>4. CASE kind = "closing"
  <2>1. q = setEntity(w, e, "closing", "none", readyFieldStates)
    BY <1>1, <1>4 DEF runTask
  <2> HIDE DEF q
  <2>2. Safe(w, q, {})
    <3>1. CASE q = w
      BY <3>1, NoStep, FieldSafe
    <3>2. CASE q # w
      <4>1. /\ entityState(w, e) # "closing" /\ ~mutexHeld(w, e) /\ q = closing(w, e)
            /\ \A f \in FieldsOf(e) : fieldState(w, f) \in readyFieldStates
        BY <2>1, <3>2 DEF setEntity, fieldsHaveAcceptableStates
      <4>2. EntityStep(w, q, e, {})
        BY <1>4, <4>1, ClosingStep
      <4> QED BY <1>4, <4>2, EntitySafe
    <3> QED BY <3>1, <3>2
  <2> QED BY <2>2, SafeMore DEF Ran, q
<1>5. CASE kind = "closed"
  <2>1. q = setEntity(w, e, "closed", "none", {"inactive"})
    BY <1>1, <1>5 DEF runTask
  <2> HIDE DEF q
  <2>2. CASE q = w
    <3>1. Safe(w, q, early(h))
      BY <2>2, NoStep, FieldSafe
    <3> QED BY <3>1 DEF Ran, q
  <2>3. CASE q # w
    <3>1. /\ ~mutexHeld(w, e) /\ q = closed(w, e)
          /\ acceptStateChange(entityState(w, e), "closed", "none")
      BY <2>1, <2>3 DEF setEntity
    <3>2. entityState(w, e) = "closing"
      BY <3>1, EntityState, EntityFollows DEF Good
    <3>3. Good(q) /\ IF w.reload THEN q.activeModal = None ELSE EntityStep(w, q, e, {})
      BY <1>5, <3>1, <3>2, ClosedStep
    <3>4. ~w.reload => Safe(w, q, early(h))
      BY <3>2, <3>3, EntitySafe, SafeMore
    <3> QED BY <1>1, <1>5, <3>3, <3>4 DEF Ran, q
  <2> QED BY <2>2, <2>3
<1>6. CASE kind = "confirm"
  <2>1. q = IF w.activeModal = None THEN withModal(w, e) ELSE w
    BY <1>1, <1>6 DEF runTask, confirmEntityDeactivation, withModal
  <2> HIDE DEF q
  <2>2. Good(q) /\ Looks(w, q)
    BY <2>1, WithModal DEF Looks
  <2>3. FieldStep(w, q, {})
    BY <2>2 DEF Looks, FieldStep, SameStates, KeptBut, keptStates, entityState, fieldState
  <2> QED BY <2>3, FieldSafe, SafeMore DEF Ran, q
<1> QED BY <1>2, <1>3, <1>4, <1>5, <1>6

\* Callbacks about a field.
LEMMA RunField ==
  ASSUME NEW w, Good(w), NEW f \in Field \cup {Destroyed}, NEW kind,
         kind \in {"active", "html", "candidate", "rerender"}
  PROVE  Ran(w, <<kind, f>>, runTask(w, kind, f))
<1> DEFINE q == runTask(w, kind, f)
           h == <<kind, f>>
<1> SUFFICES FieldStep(w, q, early(h))
  BY FieldSafe DEF Ran
<1>1. CASE f = Destroyed
  <2>1. q = w
    BY <1>1 DEF runTask
  <2> QED BY <2>1, NoStep
<1>2. CASE f # Destroyed
  <2>1. f \in Field
    BY <1>2
  <2>2. CASE kind = "active"
    <3>1. q = setField(w, f, "active", "none")
      BY <1>2, <2>2 DEF runTask
    <3> HIDE DEF q
    <3>2. SetsField(w, q, f, "active", "none")
      BY <2>1, <3>1, SetDirectly
    <3>3. KeptBut(w, q, {})
      BY <2>1, <3>2, SetKept DEF Good
    <3> QED BY <3>2, <3>3 DEF SetsField, FieldStep, KeptBut
  <2>3. CASE kind = "html"
    <3>1. q = defer(w, "candidate", f)
      BY <1>2, <2>3 DEF runTask
    <3> HIDE DEF q
    <3>2. <<"candidate", f>> \in Task
      BY <2>1 DEF Task
    <3> QED BY <3>1, <3>2, NoStep, DeferStep
  <2>4. CASE kind = "candidate"
    <3> DEFINE u == setField(w, f, "candidate", "none")
    <3>1. q = defer(u, "rerender", f)
      BY <1>2, <2>4 DEF runTask
    <3> HIDE DEF q
    <3>2. SetsField(w, u, f, "candidate", "none")
      BY <2>1, SetDirectly
    <3> HIDE DEF u
    <3>3. f \in early(h)
      BY <2>1, <2>4 DEF early
    <3>4. FieldStep(w, u, early(h))
      BY <3>2, <3>3 DEF SetsField, FieldStep, KeptBut
    <3>5. <<"rerender", f>> \in Task
      BY <2>1 DEF Task
    <3> QED BY <3>1, <3>4, <3>5, DeferStep
  <2>5. CASE kind = "rerender"
    <3>1. q = rerender(w, f)
      BY <1>2, <2>5 DEF runTask
    <3> HIDE DEF q
    <3>2. FieldStep(w, q, {f})
      BY <2>1, <3>1, RerenderStep
    <3>3. f \in early(h)
      BY <2>1, <2>5 DEF early
    <3> QED BY <3>2, <3>3 DEF FieldStep, KeptBut
  <2> QED BY <2>2, <2>3, <2>4, <2>5
<1> QED BY <1>1, <1>2

\* The step that runs a callback.
LEMMA RunTimerStep ==
  ASSUME Good(page), RunTimer
  PROVE  Ran(page, Head(page.timers), page')
<1> DEFINE w == popped(page)
           h == Head(page.timers)
           q == runTask(w, h[1], h[2])
<1>1. page' = q /\ page.timers # <<>>
  BY DEF RunTimer, popped
<1>2. /\ Good(w) /\ h \in Task /\ Looks(page, w) /\ w.reload = page.reload
      /\ \A e \in Entity : h = <<"closing", e>> =>
           /\ entityState(w, e) \in {"deactivating", "closing"}
           /\ entityState(w, e) = "deactivating" => MayBe(w, e, "closing")
      /\ \A e \in Entity : h = <<"closed", e>> /\ entityState(w, e) = "closing" =>
           MayBe(w, e, "closed")
  BY <1>1, Popped DEF Looks
<1> HIDE DEF w, h
<1>3. Ran(w, h, q)
  <2>1. CASE h \in {"opening", "opened", "reopened", "closing", "closed", "confirm"} \X Entity
    <3>1. PICK kind, e : /\ h = <<kind, e>> /\ e \in Entity
            /\ kind \in {"opening", "opened", "reopened", "closing", "closed", "confirm"}
      BY <2>1
    <3>2. h[1] = kind /\ h[2] = e
      BY <3>1
    <3>3. Ran(w, <<kind, e>>, runTask(w, kind, e))
      BY <1>2, <3>1, RunEntity
    <3> QED BY <3>1, <3>2, <3>3
  <2>2. CASE h \in {"active", "html", "candidate", "rerender"} \X (Field \cup {Destroyed})
    <3>1. PICK kind, f : /\ h = <<kind, f>> /\ f \in Field \cup {Destroyed}
            /\ kind \in {"active", "html", "candidate", "rerender"}
      BY <2>2
    <3>2. h[1] = kind /\ h[2] = f
      BY <3>1
    <3>3. Ran(w, <<kind, f>>, runTask(w, kind, f))
      BY <1>2, <3>1, RunField
    <3> QED BY <3>1, <3>2, <3>3
  <2> QED BY <1>2, <2>1, <2>2 DEF Task
<1> HIDE DEF q
<1>4. Ran(page, h, q)
  BY <1>2, <1>3, LooksSafe DEF Ran
<1> QED BY <1>1, <1>4 DEF h

\* The dialog is not about an entity whose dialog was just answered, and none is
\* shown while the user is on the page.
Unasked == \A e \in Entity : ~(page.activeModal = e /\ page'.activeModal = e)

\* The user acts on an entity.
LEMMA UserEntity ==
  ASSUME Good(page), NEW e \in Entity,
         ClickQuickEdit(e) \/ onClickSave(e) \/ onClickCancel(e)
  PROVE  Good(page') /\ KeptBut(page, page', {}) /\ Unasked
<1>1. Unasked
  BY QuickEditAssumption DEF ClickQuickEdit, onClickSave, onClickCancel, OnPage, Unasked
<1>2. CASE ClickQuickEdit(e)
  <2>1. page' = setEntity(page, e, "launching", "none", anyFieldState)
    BY <1>2 DEF ClickQuickEdit
  <2> QED BY <1>1, <2>1, SetOpen DEF Safe
<1>3. CASE onClickSave(e)
  <2>1. page' = setEntity(page, e, "committing", "none", anyFieldState)
    BY <1>3 DEF onClickSave
  <2> QED BY <1>1, <2>1, SetCommitting
<1>4. CASE onClickCancel(e)
  <2>1. page' = setEntity(page, e, "deactivating", "none", anyFieldState)
    BY <1>4 DEF onClickCancel
  <2> QED BY <1>1, <2>1, SetDeactivating
<1> QED BY <1>2, <1>3, <1>4

\* The Save button of the dialog.
LEMMA UserSaves ==
  ASSUME Good(page), NEW e \in Entity, ModalSave(e)
  PROVE  Good(page') /\ KeptBut(page, page', {}) /\ Unasked
<1> DEFINE w == withModal(page, None)
           q == setEntity(w, e, "committing", "confirmed", anyFieldState)
<1>1. page' = q
  BY DEF ModalSave, withModal
<1>2. Good(w) /\ w.activeModal = None /\ Looks(page, w) /\ w \in Page
  BY WithModal DEF Good
<1> HIDE DEF w
<1>3. Good(q) /\ KeptBut(w, q, {}) /\ q.activeModal = None
  BY <1>2, SetCommitting, SetEntityModal
<1> HIDE DEF q
<1>4. KeptBut(page, q, {})
  BY <1>2, <1>3 DEF Looks, KeptBut, fieldState
<1> QED BY <1>1, <1>3, <1>4, QuickEditAssumption DEF Unasked

\* The page is to be reloaded when e is closed.
reloaded(p, e) == [p EXCEPT !.reload = TRUE, !.entity[e].reload = mutexHeld(p, e)]

\* The invariant does not depend on the flags that make the page reload.
LEMMA Reloaded ==
  ASSUME NEW p, Good(p), NEW e \in Entity
  PROVE  LET q == reloaded(p, e)
         IN  Good(q) /\ q.field = p.field /\ q.activeModal = p.activeModal
<1> DEFINE m == [p.entity[e] EXCEPT !.reload = mutexHeld(p, e)]
           E == [p.entity EXCEPT ![e] = m]
           q == reloaded(p, e)
<1>1. p \in Page /\ p.entity[e] \in EntityModel /\ p.entity \in [Entity -> EntityModel]
  BY PageTypes DEF Good
<1>2. /\ m \in EntityModel /\ m.state = p.entity[e].state
      /\ m.isActive = p.entity[e].isActive /\ m.isCommitting = p.entity[e].isCommitting
  BY <1>1 DEF EntityModel, mutexHeld
<1>3. q = [p EXCEPT !.reload = TRUE, !.entity = E]
  BY DEF reloaded
<1> HIDE DEF m
<1>4. /\ E \in [Entity -> EntityModel] /\ E[e] = m
      /\ \A x \in Entity \ {e} : E[x] = p.entity[x]
  BY <1>1, <1>2
<1> HIDE DEF E
<1>5. /\ q \in Page /\ q.field = p.field /\ q.requests = p.requests
      /\ q.timers = p.timers /\ q.activeModal = p.activeModal
      /\ q.commits = p.commits /\ q.entity = E
  BY <1>1, <1>3, <1>4 DEF Page
<1> HIDE DEF q
<1>6. Alike(p, q)
  BY <1>2, <1>4, <1>5 DEF Alike, entityState
<1> QED BY <1>5, <1>6, AlikeGood DEF q

\* The Discard button of the dialog.
LEMMA UserDiscards ==
  ASSUME Good(page), NEW e \in Entity, ModalDiscard(e)
  PROVE  Good(page') /\ KeptBut(page, page', FieldsOf(e)) /\ Unasked
<1> DEFINE w == withModal(page, None)
           q == setEntity(w, e, "deactivating", "confirmed", anyFieldState)
           r == IF q.entity[e].reload THEN reloaded(q, e) ELSE q
<1>1. page' = r
  BY DEF ModalDiscard, withModal, reloaded
<1>2. Good(w) /\ w.activeModal = None /\ Looks(page, w) /\ w \in Page
  BY WithModal DEF Good
<1> HIDE DEF w
<1>3. Good(q) /\ KeptBut(w, q, FieldsOf(e)) /\ q.activeModal = None
  BY <1>2, SetDeactivating, SetEntityModal
<1> HIDE DEF q
<1>4. Good(r) /\ r.field = q.field /\ r.activeModal = None
  BY <1>3, Reloaded
<1> HIDE DEF r
<1>5. KeptBut(page, r, FieldsOf(e))
  BY <1>2, <1>3, <1>4 DEF Looks, KeptBut, fieldState
<1> QED BY <1>1, <1>4, <1>5, QuickEditAssumption DEF Unasked

\* The user acts on a field.
LEMMA UserField ==
  ASSUME Good(page), NEW f \in Field,
         onMouseEnter(f) \/ onMouseLeave(f) \/ onClick(f) \/ keyup(f) \/ formUpdated(f)
  PROVE  Good(page') /\ KeptBut(page, page', {}) /\ Unasked
<1>1. Unasked
  BY QuickEditAssumption
     DEF onMouseEnter, onMouseLeave, onClick, keyup, formUpdated, OnPage, Unasked
<1>2. ASSUME NEW to, NEW reason \in {"none", "mouseleave"},
             to \in {"candidate", "highlighted", "activating", "active", "changed"},
             to = "candidate" => reason = "mouseleave",
             to = "changed" /\ f \notin PlainField => page.field[f].form = "loaded",
             page' = setField(page, f, to, reason)
      PROVE  Good(page') /\ KeptBut(page, page', {})
  <2>1. SetsField(page, page', f, to, reason)
    BY <1>2, SetDirectly
  <2>2. KeptBut(page, page', {})
    BY <1>2, <2>1, SetKept DEF Good
  <2> QED BY <2>1, <2>2 DEF SetsField
<1>3. CASE onMouseEnter(f)
  BY <1>1, <1>2, <1>3 DEF onMouseEnter
<1>4. CASE onMouseLeave(f)
  BY <1>1, <1>2, <1>4 DEF onMouseLeave
<1>5. CASE onClick(f)
  BY <1>1, <1>2, <1>5 DEF onClick
<1>6. CASE keyup(f)
  BY <1>1, <1>2, <1>6 DEF keyup
<1>7. CASE formUpdated(f)
  <2>1. page.field[f].form = "loaded"
    BY <1>7 DEF formUpdated
  <2>2. page' = setField(page, f, "activating", "none") \/ page' = setField(page, f, "changed", "none")
    BY <1>7 DEF formUpdated
  <2> QED BY <1>1, <1>2, <2>1, <2>2
<1> QED BY <1>3, <1>4, <1>5, <1>6, <1>7

\* The replies with forms, and to submitted forms.
LEMMA FieldReply ==
  ASSUME Good(page), NEW r \in page.requests,
         FormLoaded(r) \/ SaveFormLoaded(r) \/ FieldFormSaved(r) \/ FieldFormValidationErrors(r)
  PROVE  FieldStep(page, page', {})
<1> DEFINE w == without(page, r)
           f == r.field
<1>1. r.field \in Field /\ page \in Page
  BY PageTypes DEF Good, Request
<1>2. answered(r) = w
  BY DEF answered, without
<1>3. FieldStep(page, w, {})
  BY WithoutStep
<1>4. CASE FormLoaded(r)
  <2>1. page' = IF ~r.live THEN w
                ELSE setField(IF w.field[f].form = "loading" THEN withForm(w, f) ELSE w,
                              f, "active", "none")
    BY <1>2, <1>4 DEF FormLoaded, withForm
  <2>2. FieldStep(page, setField(IF w.field[f].form = "loading" THEN withForm(w, f) ELSE w,
                                 f, "active", "none"), {})
    BY FormLoadedStep
  <2> QED BY <1>3, <2>1, <2>2
<1>5. CASE SaveFormLoaded(r)
  <2>1. r.kind = "saveform"
        /\ page' = [w EXCEPT !.requests = @ \cup {request(page, "submit", r.field, r.live)}]
    BY <1>2, <1>5 DEF SaveFormLoaded
  <2> QED BY <2>1, SaveFormLoadedStep
<1> DEFINE saved == setField(w, f, "saved", "none")
           invalid == setField(w, f, "invalid", "none")
<1>6. r.kind = "submit" /\ r.live => FieldStep(page, saved, {}) /\ FieldStep(page, invalid, {})
  BY AnsweredSave DEF FieldStep
<1>7. CASE FieldFormSaved(r)
  <2> DEFINE kind == IF f \in PlainField THEN "candidate" ELSE "html"
  <2>1. r.kind = "submit" /\ page' = IF ~r.live THEN w ELSE defer(saved, kind, f)
    BY <1>2, <1>7 DEF FieldFormSaved
  <2>2. kind \in {"candidate", "html"} /\ <<kind, f>> \in Task
    BY <1>1 DEF Task
  <2> HIDE DEF kind, saved
  <2>3. r.live => FieldStep(page, defer(saved, kind, f), {})
    BY <1>6, <2>1, <2>2, DeferStep
  <2> QED BY <1>3, <2>1, <2>3
<1>8. CASE FieldFormValidationErrors(r)
  <2>1. r.kind = "submit" /\ page' = IF ~r.live THEN w ELSE invalid
    BY <1>2, <1>8 DEF FieldFormValidationErrors
  <2> QED BY <1>3, <1>6, <2>1
<1> QED BY <1>4, <1>5, <1>7, <1>8

\* A form that cannot be loaded ends the editing of the active field.
LEMMA ErrorReply ==
  ASSUME Good(page), NEW r \in page.requests, FormLoadError(r)
  PROVE  FieldStep(page, page', {page.activeField})
<1> DEFINE w == without(page, r)
           a == page.activeField
           q == setField(w, a, "candidate", "none")
<1>1. page' = IF r.kind = "submit" \/ a \notin Field THEN w ELSE q
  BY DEF FormLoadError, answered, without
<1>2. FieldStep(page, w, {}) /\ Good(w) /\ w.field = page.field
  BY WithoutStep, Without
<1> HIDE DEF w, a
<1>3. a \in Field => SetsField(w, q, a, "candidate", "none")
  BY <1>2, SetDirectly
<1> HIDE DEF q
<1>4. a \in Field => FieldStep(page, q, {a})
  BY <1>2, <1>3 DEF SetsField, FieldStep, SameStates, KeptBut, fieldState
<1>5. FieldStep(page, w, {a})
  BY <1>2 DEF FieldStep, KeptBut
<1> QED BY <1>1, <1>4, <1>5 DEF a

\* The page when the answer to a commit has released the mutex.
committed(p, e) == [p EXCEPT !.commits[e] = @ - 1, !.entity[e].isCommitting = FALSE]

\* The answer to a commit finds its entity committing.
LEMMA Committed ==
  ASSUME NEW p, Good(p), NEW e \in Entity, p.commits[e] > 0
  PROVE  LET q == committed(p, e)
         IN  /\ Good(q) /\ q.field = p.field /\ entityState(q, e) = "committing"
             /\ ~mutexHeld(q, e) /\ mutexHeld(p, e) /\ entityState(p, e) = "committing"
             /\ \A x \in Entity \ {e} : q.entity[x] = p.entity[x]
<1> DEFINE m == [p.entity[e] EXCEPT !.isCommitting = FALSE]
           E == [p.entity EXCEPT ![e] = m]
           C == [p.commits EXCEPT ![e] = @ - 1]
           q == committed(p, e)
<1>1. /\ p \in Page /\ p.entity[e] \in EntityModel /\ p.entity \in [Entity -> EntityModel]
      /\ p.commits \in [Entity -> Nat] /\ p.commits[e] \in Nat
  BY PageTypes DEF Good
<1>2. p.entity[e].isCommitting /\ p.commits[e] = 1 /\ p.entity[e].state = "committing"
  BY <1>1 DEF Good, OneCommit, entityState
<1>3. m \in EntityModel /\ m.state = p.entity[e].state /\ m.isCommitting = FALSE
  BY <1>1 DEF EntityModel
<1>4. q = [p EXCEPT !.commits = C, !.entity = E]
  BY DEF committed
<1> HIDE DEF m
<1>5. /\ E \in [Entity -> EntityModel] /\ E[e] = m
      /\ \A x \in Entity \ {e} : E[x] = p.entity[x]
  BY <1>1, <1>3
<1>6. /\ C \in [Entity -> Nat] /\ C[e] = 0
      /\ \A x \in Entity \ {e} : C[x] = p.commits[x]
  BY <1>1, <1>2
<1> HIDE DEF E, C
<1>7. /\ q \in Page /\ q.field = p.field /\ q.requests = p.requests
      /\ q.timers = p.timers /\ q.commits = C /\ q.entity = E
  BY <1>1, <1>4, <1>5, <1>6 DEF Page
<1> HIDE DEF q
<1>8. \A x \in Entity : entityState(q, x) = entityState(p, x)
  BY <1>3, <1>5, <1>7 DEF entityState
<1>9. OneCommit(q)
  BY <1>3, <1>5, <1>6, <1>7, <1>8 DEF Good, OneCommit
<1>10. SavesAwaited(q) /\ FormThere(q) /\ FormRemoved(q)
  BY <1>7 DEF Good, SavesAwaited, FormThere, FormRemoved, fieldState
<1>11. CallbacksInTurn(q)
  BY <1>7, <1>8 DEF Good, CallbacksInTurn
<1> QED BY <1>2, <1>3, <1>5, <1>7, <1>8, <1>9, <1>10, <1>11 DEF Good, q, entityState, mutexHeld

\* The two answers to a commit.
LEMMA CommitReply ==
  ASSUME Good(page), NEW e \in Entity
  PROVE  /\ EntitySaved(e) => Safe(page, page', FieldsOf(e))
         /\ EntitySaveError(e) => Safe(page, page', {})
<1> SUFFICES ASSUME page.commits[e] > 0
             PROVE  /\ EntitySaved(e) => Safe(page, page', FieldsOf(e))
                    /\ EntitySaveError(e) => Safe(page, page', {})
  BY DEF EntitySaved, EntitySaveError
<1> DEFINE w == committed(page, e)
           d == deactivating(w, e, "saved")
           o == setEntity(w, e, "opened", "networkerror", anyFieldState)
<1>1. /\ Good(w) /\ w.field = page.field /\ entityState(w, e) = "committing"
      /\ ~mutexHeld(w, e) /\ mutexHeld(page, e) /\ entityState(page, e) = "committing"
      /\ \A x \in Entity \ {e} : w.entity[x] = page.entity[x]
  BY Committed
<1>2. EntitySaved(e) => page' = d
  BY <1>1 DEF EntitySaved, clearTempStoreAttributes, committed
<1>3. EntitySaveError(e) => page' = o
  BY DEF EntitySaveError, committed
<1> HIDE DEF w
<1>4. Safe(page, d, FieldsOf(e))
  <2>1. /\ Good(d) /\ \A f \in Field \ FieldsOf(e) : d.field[f] = w.field[f]
        /\ \A x \in Entity \ {e} : entityState(d, x) = entityState(w, x)
    BY <1>1, DeactivatingStep
  <2> HIDE DEF d
  <2>2. KeptBut(page, d, FieldsOf(e))
    BY <1>1, <2>1 DEF KeptBut, keptStates, fieldState
  <2>3. \A x \in Entity : StaysOpen(page, d, x)
    BY <1>1, <2>1 DEF StaysOpen, entityState
  <2> QED BY <2>1, <2>2, <2>3 DEF Safe
<1>5. Safe(page, o, {})
  <2>1. Safe(w, o, {})
    BY <1>1, SetOpen
  <2> HIDE DEF o
  <2>2. KeptBut(page, o, {})
    BY <1>1, <2>1 DEF Safe, KeptBut, fieldState
  <2>3. \A x \in Entity : StaysOpen(page, o, x)
    <3>1. \A x \in Entity \ {e} : /\ entityState(w, x) = entityState(page, x)
                                  /\ unsavedChanges(w, x) <=> unsavedChanges(page, x)
      BY <1>1 DEF entityState, unsavedChanges, fieldState
    <3> QED BY <1>1, <2>1, <3>1 DEF Safe, StaysOpen
  <2> QED BY <2>1, <2>2, <2>3 DEF Safe
<1> QED BY <1>2, <1>3, <1>4, <1>5

\* The changes that the step gives up are the ones ChangesKept names.
Lossless ==
  \A f \in Field :
    /\ fieldState(page, f) \in {"changed", "invalid"}
    /\ page'.field[f].state \notin {"changed", "invalid", "saving", "activating"}
    => \/ ModalDiscard(EntityOf[f]) \/ EntitySaved(EntityOf[f])
       \/ failures' # failures /\ f = page.activeField
       \/ /\ RunTimer
          /\ \/ page.reload /\ Head(page.timers)[1] = "closed"
             \/ Head(page.timers) \in
                  {<<"opening", EntityOf[f]>>, <<"candidate", f>>, <<"rerender", f>>}

\* An entity with unsaved changes that the dialog is about stays open.
Patient ==
  \A e \in Entity :
    /\ page.activeModal = e /\ page'.activeModal = e
    /\ entityState(page, e) = "opened" /\ unsavedChanges(page, e)
    => entityState(page', e) = "opened"

\* Every step keeps the invariant, and is as DialogHolds and ChangesKept say.
LEMMA NextSafe ==
  ASSUME TypeOK, Good(page), Next
  PROVE  Good(page') /\ Lossless /\ Patient
<1>1. KeptBut(page, page', {}) => Lossless
  BY DEF KeptBut, keptStates, Lossless, fieldState
<1>2. Unasked => Patient
  BY DEF Unasked, Patient
<1>3. (\A e \in Entity : StaysOpen(page, page', e)) => Patient
  BY DEF StaysOpen, Patient
<1>4. ASSUME NEW e \in Entity, KeptBut(page, page', FieldsOf(e)), ModalDiscard(e) \/ EntitySaved(e)
      PROVE  Lossless
  BY <1>4 DEF KeptBut, keptStates, Lossless, fieldState, FieldsOf
<1>5. CASE User
  <2>1. ASSUME NEW e \in Entity, ClickQuickEdit(e) \/ onClickSave(e) \/ onClickCancel(e)
        PROVE  Good(page') /\ Lossless /\ Patient
    BY <1>1, <1>2, <2>1, UserEntity
  <2>2. ASSUME NEW e \in Entity, ModalSave(e)
        PROVE  Good(page') /\ Lossless /\ Patient
    BY <1>1, <1>2, <2>2, UserSaves
  <2>3. ASSUME NEW e \in Entity, ModalDiscard(e)
        PROVE  Good(page') /\ Lossless /\ Patient
    BY <1>2, <1>4, <2>3, UserDiscards
  <2>4. ASSUME NEW f \in Field,
               onMouseEnter(f) \/ onMouseLeave(f) \/ onClick(f) \/ keyup(f) \/ formUpdated(f)
        PROVE  Good(page') /\ Lossless /\ Patient
    BY <1>1, <1>2, <2>4, UserField
  <2> QED BY <1>5, <2>1, <2>2, <2>3, <2>4 DEF User
<1>6. CASE RunTimer
  <2> DEFINE h == Head(page.timers)
  <2>1. Ran(page, h, page')
    BY <1>6, RunTimerStep
  <2>2. CASE Safe(page, page', early(h))
    <3>1. Lossless
      BY <1>6, <2>2 DEF Safe, KeptBut, keptStates, early, Lossless, fieldState
    <3> QED BY <1>3, <2>2, <3>1 DEF Safe
  <2>3. CASE Good(page') /\ page.reload /\ h[1] = "closed" /\ page'.activeModal = None
    <3>1. Lossless
      BY <1>6, <2>3 DEF Lossless
    <3>2. Unasked
      BY <2>3, QuickEditAssumption DEF Unasked
    <3> QED BY <1>2, <2>3, <3>1, <3>2
  <2> QED BY <2>1, <2>2, <2>3 DEF Ran
<1>7. ASSUME NEW r \in page.requests, Reply(r)
      PROVE  Good(page') /\ Lossless /\ Patient
  <2>1. CASE FormLoadError(r)
    <3>1. FieldStep(page, page', {page.activeField})
      BY <2>1, ErrorReply
    <3>2. failures' # failures
      BY <2>1 DEF FormLoadError, TypeOK
    <3>3. Safe(page, page', {page.activeField})
      BY <3>1, FieldSafe
    <3> QED BY <1>3, <3>2, <3>3 DEF Safe, KeptBut, keptStates, Lossless, fieldState
  <2>2. CASE ~FormLoadError(r)
    <3>1. FieldStep(page, page', {})
      BY <1>7, <2>2, FieldReply DEF Reply
    <3> QED BY <1>1, <1>3, <3>1, FieldSafe DEF Safe
  <2> QED BY <2>1, <2>2
<1>8. ASSUME NEW e \in Entity, EntityReply(e)
      PROVE  Good(page') /\ Lossless /\ Patient
  <2>1. CASE EntitySaved(e)
    BY <1>3, <1>4, <2>1, CommitReply DEF Safe
  <2>2. CASE EntitySaveError(e)
    BY <1>1, <1>3, <2>2, CommitReply DEF Safe
  <2> QED BY <1>8, <2>1, <2>2 DEF EntityReply
<1> QED BY <1>5, <1>6, <1>7, <1>8 DEF Next

-----------------------------------------------------------------------------
(***************************************************************************)
(* The theorems.                                                           *)
(***************************************************************************)
\* The type of the server's copies.
Copies == [Entity -> [exists : BOOLEAN, changed : SUBSET Field]]

\* The server's operations on the copies.
LEMMA ServerTypes ==
  ASSUME NEW t \in Copies, NEW e \in Entity, NEW f \in Field, NEW b
  PROVE  /\ [t EXCEPT ![e] = fieldForm(t[e], b)] \in Copies
         /\ [t EXCEPT ![e] = submitForm(t[e], f)] \in Copies
         /\ [t EXCEPT ![e] = entitySave] \in Copies
<1> DEFINE C == [exists : BOOLEAN, changed : SUBSET Field]
<1>1. t[e] \in C
  BY DEF Copies
<1>2. ASSUME NEW c \in C PROVE [t EXCEPT ![e] = c] \in Copies
  BY <1>2 DEF Copies
<1>3. fieldForm(t[e], b) \in C
  BY <1>1 DEF fieldForm
<1>4. fieldForm(t[e], FALSE).changed \in SUBSET Field
  BY <1>1 DEF fieldForm
<1>5. submitForm(t[e], f) \in C
  BY <1>4 DEF submitForm
<1>6. entitySave \in C
  BY DEF entitySave
<1> HIDE DEF C
<1> QED BY <1>2, <1>3, <1>5, <1>6

\* The types of everything but the page.
LEMMA OtherTypes ==
  ASSUME TypeOK, Next
  PROVE  tempstore' \in Copies /\ events' \in 0..MaxEvents /\ failures' \in 0..MaxFailures
<1>1. /\ page \in Page /\ tempstore \in Copies /\ events \in 0..MaxEvents
      /\ failures \in 0..MaxFailures /\ MaxEvents \in Nat /\ MaxFailures \in Nat
  BY QuickEditAssumption DEF TypeOK, Copies
<1>2. CASE User
  <2>1. UserEvent
    BY <1>2 DEF User, ClickQuickEdit, onClickSave, onClickCancel, ModalSave, ModalDiscard,
                onMouseEnter, onMouseLeave, onClick, keyup, formUpdated, OnPage
  <2> QED BY <1>1, <2>1 DEF UserEvent
<1>3. CASE RunTimer
  BY <1>1, <1>3 DEF RunTimer
<1>4. ASSUME NEW r \in page.requests, Reply(r)
      PROVE  tempstore' \in Copies /\ events' \in 0..MaxEvents /\ failures' \in 0..MaxFailures
  <2>1. r.field \in Field
    BY <1>1, PageTypes DEF Request
  <2>2. EntityOf[r.field] \in Entity
    BY <2>1, QuickEditAssumption
  <2>3. /\ [tempstore EXCEPT ![EntityOf[r.field]] = fieldForm(tempstore[EntityOf[r.field]], r.reset)] \in Copies
        /\ [tempstore EXCEPT ![EntityOf[r.field]] = fieldForm(tempstore[EntityOf[r.field]], FALSE)] \in Copies
        /\ [tempstore EXCEPT ![EntityOf[r.field]] = submitForm(tempstore[EntityOf[r.field]], r.field)] \in Copies
    BY <1>1, <2>1, <2>2, ServerTypes
  <2>4. CASE FormLoaded(r)
    BY <1>1, <2>3, <2>4 DEF FormLoaded
  <2>5. CASE SaveFormLoaded(r)
    BY <1>1, <2>3, <2>5 DEF SaveFormLoaded
  <2>6. CASE FieldFormSaved(r)
    BY <1>1, <2>3, <2>6 DEF FieldFormSaved
  <2>7. CASE FieldFormValidationErrors(r)
    BY <1>1, <2>3, <2>7 DEF FieldFormValidationErrors
  <2>8. CASE FormLoadError(r)
    <3>1. failures' \in 0..MaxFailures /\ events' = events
      BY <1>1, <2>8 DEF FormLoadError
    <3>2. tempstore' \in Copies
      BY <1>1, <2>3, <2>8 DEF FormLoadError
    <3> QED BY <1>1, <3>1, <3>2
  <2> QED BY <1>4, <2>4, <2>5, <2>6, <2>7, <2>8 DEF Reply
<1>5. ASSUME NEW e \in Entity, EntityReply(e)
      PROVE  tempstore' \in Copies /\ events' \in 0..MaxEvents /\ failures' \in 0..MaxFailures
  <2>1. [tempstore EXCEPT ![e] = entitySave] \in Copies
    <3> DEFINE C == [exists : BOOLEAN, changed : SUBSET Field]
    <3>1. entitySave \in C
      BY DEF entitySave
    <3> HIDE DEF C
    <3> QED BY <1>1, <3>1 DEF Copies, C
  <2>2. CASE EntitySaved(e)
    BY <1>1, <2>1, <2>2 DEF EntitySaved
  <2>3. CASE EntitySaveError(e)
    <3>1. tempstore' \in Copies
      BY <1>1, <2>1, <2>3 DEF EntitySaveError
    <3>2. failures' \in 0..MaxFailures /\ events' = events
      BY <1>1, <2>3 DEF EntitySaveError
    <3> QED BY <1>1, <3>1, <3>2
  <2> QED BY <1>5, <2>2, <2>3 DEF EntityReply
<1> QED BY <1>2, <1>3, <1>4, <1>5 DEF Next

\* Inv is Good of the page, and the types of the rest.
LEMMA InvGood == Inv <=> TypeOK /\ Good(page)
BY DEF Inv, Good, TypeOK

\* The types hold initially.
LEMMA InitTypes == Init => TypeOK
<1> SUFFICES ASSUME Init PROVE TypeOK
  OBVIOUS
<1>1. page \in Page
  BY LoadedGood DEF Init, Good
<1>2. tempstore \in [Entity -> [exists : BOOLEAN, changed : SUBSET Field]]
  BY DEF Init
<1>3. events \in 0..MaxEvents /\ failures \in 0..MaxFailures
  BY QuickEditAssumption DEF Init
<1> QED BY <1>1, <1>2, <1>3 DEF TypeOK

\* Inv is inductive.
LEMMA InvInductive == (Init => Inv) /\ (Inv /\ [Next]_vars => Inv')
<1>1. Init => Inv
  BY InitTypes, LoadedGood, InvGood DEF Init
<1>2. ASSUME Inv, Next PROVE Inv'
  <2>1. TypeOK /\ Good(page)
    BY <1>2, InvGood
  <2>2. Good(page')
    BY <1>2, <2>1, NextSafe
  <2>3. TypeOK'
    BY <1>2, <2>1, <2>2, OtherTypes DEF TypeOK, Good, Copies
  <2> QED BY <2>2, <2>3, InvGood DEF Inv, Good
<1>3. ASSUME Inv, UNCHANGED vars PROVE Inv'
  <2>1. /\ TypeOK /\ Good(page) /\ page' = page /\ tempstore' = tempstore
        /\ events' = events /\ failures' = failures
    BY <1>3, InvGood DEF vars
  <2>2. Good(page') /\ TypeOK'
    BY <2>1 DEF TypeOK
  <2> QED BY <2>2 DEF Inv, Good
<1> QED BY <1>1, <1>2, <1>3

\* For any two entities, any finite number of fields and any number of events and
\* of requests that fail, with the user free to act between any two callbacks:
\* one request per commit, answered while the entity is committing
\* (EntityModel.validate()); answers to saves that find their field in 'saving'
\* and its form there; no form left behind; callbacks that open and close an
\* entity in turn (EntityModel.fieldStateChange()).
THEOREM Invariance == Spec => []Inv
<1>1. Init => Inv
  BY InvInductive
<1>2. Inv /\ [Next]_vars => Inv'
  BY InvInductive
<1> QED BY <1>1, <1>2, PTL DEF Spec

\* As long as confirmEntityDeactivation()'s dialog asks about an open entity with
\* unsaved changes, no callback, reply or other entity closes it.
THEOREM DialogIsHeld == Spec => DialogHolds
<1> DEFINE A == \A e \in Entity :
                  /\ page.activeModal = e /\ page'.activeModal = e
                  /\ entityState(page, e) = "opened" /\ unsavedChanges(page, e)
                  => entityState(page', e) = "opened"
<1>1. Inv /\ [Next]_vars => [A]_vars
  <2> SUFFICES ASSUME Inv, Next PROVE A
    OBVIOUS
  <2>1. TypeOK /\ Good(page)
    BY InvGood
  <2>2. Patient
    BY <2>1, NextSafe
  <2> QED BY <2>2 DEF Patient
<1>2. Spec => []Inv
  BY Invariance
<1> QED BY <1>1, <1>2, PTL DEF Spec, DialogHolds

\* What the user has changed in a field is saved or corrected next
\* (acceptEditorStateChange(), EntityModel.stateChange(), renderUpdatedField()),
\* except in the steps that ChangesKept names.
THEOREM ChangesAreKept == Spec => ChangesKept
<1> DEFINE A == \A f \in Field :
                  /\ fieldState(page, f) \in {"changed", "invalid"}
                  /\ page'.field[f].state \notin {"changed", "invalid", "saving", "activating"}
                  => \/ ModalDiscard(EntityOf[f]) \/ EntitySaved(EntityOf[f])
                     \/ failures' # failures /\ f = page.activeField
                     \/ /\ RunTimer
                        /\ \/ page.reload /\ Head(page.timers)[1] = "closed"
                           \/ Head(page.timers) \in
                                {<<"opening", EntityOf[f]>>, <<"candidate", f>>, <<"rerender", f>>}
<1>1. Inv /\ [Next]_vars => [A]_vars
  <2> SUFFICES ASSUME Inv, Next PROVE A
    OBVIOUS
  <2>1. TypeOK /\ Good(page)
    BY InvGood
  <2>2. Lossless
    BY <2>1, NextSafe
  <2> QED BY <2>2 DEF Lossless
<1>2. Spec => []Inv
  BY Invariance
<1> QED BY <1>1, <1>2, PTL DEF Spec, ChangesKept

=============================================================================
