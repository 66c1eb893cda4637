-------------------------- MODULE ChallengesProofs --------------------------
(***************************************************************************)
(* Theorems about Challenges for any number of runs and challenges, any    *)
(* limit and any edits.                                                    *)
(*                                                                         *)
(* A run with an undisturbed challenge is the only one (Current), so that  *)
(* a step of a run has to be judged only by what it does to its own        *)
(* undisturbed challenges: Consistent, one challenge at a time.            *)
(***************************************************************************)
EXTENDS Challenges, TLAPS

USE ChallengesAssumption

\* What Current and OpeningsFirst say of the local variables l of a run and an
\* undisturbed challenge c that is stored as n.
Consistent(l, n, c) ==
    /\ \A x \in l.nids : x[2] = c =>
         isDue(n, l.operation, l.time) /\ x[1] = n.schedule[l.operation]
    /\ l.pc \in {"save", "dispatch"} => \A x \in l.nids : x[2] = c => l.copy[c] = n
    /\ isDue(n, "open", l.time) =>
         /\ l.operation = "open"
         /\ l.pc \in {"load", "save", "dispatch"} => \E x \in l.nids : x[2] = c

AllConsistent ==
    \A r \in Run : \A c \in run[r].undisturbed :
        /\ \A s \in Run : s # r => run[s].pc = "off"
        /\ Consistent(run[r], node[c], c)

\* The invariant in these terms.
LEMMA InvConsistent == Inv <=> TypeOK /\ AllConsistent
BY DEF Inv, Current, OpeningsFirst, AllConsistent, Consistent

-----------------------------------------------------------------------------
\* Types of the values the actions make.

\* Processing a challenge unsets one schedule and leaves the other alone.
LEMMA Processed ==
    ASSUME NEW n \in Node, NEW o \in Operation
    PROVE  /\ processed(n, o) \in Node
           /\ processed(n, o).published = n.published
           /\ processed(n, o).schedule[o] = Unset
           /\ o = "close" => processed(n, o).schedule["open"] = n.schedule["open"]
<1>1. 0 \in 0..MaxTime
  OBVIOUS
<1>2. processed(n, o).schedule = [n.schedule EXCEPT ![o] = Unset]
  BY DEF processed, Node
<1>3. processed(n, o).schedule \in [Operation -> 0..MaxTime]
  BY <1>1, <1>2 DEF Node, Unset
<1>4. processed(n, o).is_open \in BOOLEAN
  BY DEF processed, Node
<1>5. processed(n, o).published = n.published
  BY DEF processed, Node
<1>6. processed(n, o) \in Node
  BY <1>3, <1>4, <1>5 DEF processed, Node
<1> QED BY <1>2, <1>5, <1>6 DEF Node, Operation

\* The initial local variables.
LEMMA OffLocals == NoNode \in Node /\ NoCopy \in [Challenge -> Node] /\ Off \in Locals
<1>1. NoNode \in Node
  BY DEF NoNode, Node, Unset
<1>2. NoCopy \in [Challenge -> Node]
  BY <1>1 DEF NoCopy
<1> QED BY <1>1, <1>2 DEF Locals, Off, Operation

\* A run that goes on with the closings keeps its request time and its history.
LEMMA NextOperation ==
    ASSUME NEW l \in Locals
    PROVE  /\ nextOperation(l) \in Locals
           /\ nextOperation(l).nids = {}
           /\ nextOperation(l).pc \in {"off", "query"}
           /\ nextOperation(l).undisturbed \subseteq l.undisturbed
           /\ nextOperation(l).undisturbed # {} =>
                /\ l.operation = "open"
                /\ nextOperation(l).time = l.time
BY OffLocals DEF nextOperation, Locals, Operation, Off

-----------------------------------------------------------------------------
\* While one run is under way, no other has undisturbed challenges.
LEMMA OthersDisturbed ==
    ASSUME TypeOK, AllConsistent, NEW r \in Run, run[r].pc # "off",
           NEW s \in Run, s # r
    PROVE  run[s].undisturbed = {}
BY DEF AllConsistent, TypeOK, Locals

\* A step of run r to m keeps the invariant if m is consistent with what it
\* leaves in the table.
LEMMA Moves ==
    ASSUME TypeOK, AllConsistent, NEW r \in Run, run[r].pc # "off",
           NEW m \in Locals, Goto(r, m),
           now' = now, edits' \in 0..MaxEdits, fails' \in 0..MaxFails,
           node' \in [Challenge -> Node],
           m.undisturbed \subseteq run[r].undisturbed,
           \A c \in m.undisturbed : Consistent(m, node'[c], c)
    PROVE  TypeOK' /\ AllConsistent'
<1>1. run' = [run EXCEPT ![r] = m] /\ run \in [Run -> Locals] /\ now \in 1..MaxTime
  BY DEF Goto, TypeOK
<1>2. run'[r] = m /\ \A s \in Run : s # r => run'[s] = run[s]
  BY <1>1
<1>3. TypeOK'
  BY <1>1 DEF TypeOK
<1>4. \A s \in Run : s # r => run[s].undisturbed = {}
  BY OthersDisturbed
<1>5. ASSUME NEW s \in Run, NEW c \in run'[s].undisturbed
      PROVE  /\ \A t \in Run : t # s => run'[t].pc = "off"
             /\ Consistent(run'[s], node'[c], c)
  <2>1. s = r
    BY <1>2, <1>4, <1>5
  <2>2. c \in m.undisturbed /\ c \in run[r].undisturbed
    BY <2>1, <1>2, <1>5
  <2>3. \A t \in Run : t # r => run[t].pc = "off"
    BY <2>2 DEF AllConsistent
  <2> QED BY <1>2, <2>1, <2>2, <2>3
<1> QED BY <1>3, <1>5 DEF AllConsistent

\* A run begins with nothing found; it has undisturbed challenges if it is alone.
LEMMA StartKeeps ==
    ASSUME TypeOK, AllConsistent, NEW r \in Run, Start(r)
    PROVE  TypeOK' /\ AllConsistent'
<1> DEFINE alone == \A s \in Run : run[s].pc = "off"
           m == [Off EXCEPT !.pc = "query", !.time = now,
                            !.undisturbed = IF alone THEN Challenge ELSE {}]
<1>a. now' = now /\ node' = node /\ edits' = edits /\ fails' = fails
  BY DEF Start
<1>b. now \in 1..MaxTime /\ run \in [Run -> Locals]
  BY DEF TypeOK
<1>c. now \in 0..MaxTime
  BY <1>b
<1>0. /\ now \in 0..MaxTime /\ run \in [Run -> Locals]
      /\ now' = now /\ node' = node /\ edits' = edits /\ fails' = fails
  BY <1>a, <1>b, <1>c
<1>1. /\ m \in Locals /\ m.nids = {} /\ m.pc = "query" /\ m.operation = "open"
      /\ m.undisturbed = IF alone THEN Challenge ELSE {}
  <2> HIDE DEF alone
  <2> QED BY <1>0, OffLocals DEF Locals, Off
<1>2. run' = [s \in Run |-> IF s = r THEN m ELSE [run[s] EXCEPT !.undisturbed = {}]]
  BY DEF Start
<1> HIDE DEF m
<1>3. ASSUME NEW l \in Locals
      PROVE  [l EXCEPT !.undisturbed = {}] \in Locals
             /\ [l EXCEPT !.undisturbed = {}].undisturbed = {}
             /\ [l EXCEPT !.undisturbed = {}].pc = l.pc
  BY DEF Locals
<1>4. run'[r] = m
  BY <1>2
<1>5. ASSUME NEW s \in Run, s # r
      PROVE  run'[s] \in Locals /\ run'[s].undisturbed = {} /\ run'[s].pc = run[s].pc
  BY <1>0, <1>2, <1>3, <1>5
<1>6. run' \in [Run -> Locals]
  BY <1>1, <1>2, <1>4, <1>5
<1>7. TypeOK'
  BY <1>0, <1>6 DEF TypeOK
<1>8. ASSUME NEW s \in Run, NEW c \in run'[s].undisturbed
      PROVE  /\ \A t \in Run : t # s => run'[t].pc = "off"
             /\ Consistent(run'[s], node'[c], c)
  <2>1. s = r /\ alone
    BY <1>1, <1>4, <1>5, <1>8
  <2>2. \A t \in Run : t # s => run'[t].pc = "off"
    BY <2>1, <1>5
  <2>3. Consistent(m, node'[c], c)
    BY <1>1 DEF Consistent
  <2> QED BY <2>1, <2>2, <2>3, <1>4
<1> QED BY <1>7, <1>8 DEF AllConsistent

\* What the query finds is due; a run without openings goes on to the closings.
LEMMA QueryKeeps ==
    ASSUME TypeOK, AllConsistent, NEW r \in Run, Query(r)
    PROVE  TypeOK' /\ AllConsistent'
<1> DEFINE l == run[r]
           due == {<<node[c].schedule[l.operation], c>> :
                     c \in {d \in Challenge : isDue(node[d], l.operation, l.time)}}
           nids == {x \in due : Cardinality({y \in due : Before(y, x)}) < LIMIT}
           u == IF l.operation = "close" \/ nids = due THEN l.undisturbed ELSE {}
           m == [l EXCEPT !.undisturbed = u]
           f == [m EXCEPT !.pc = "load", !.nids = nids]
<1>0. /\ l \in Locals /\ l.pc = "query" /\ l.operation \in Operation
      /\ node \in [Challenge -> Node]
      /\ now' = now /\ node' = node /\ edits' = edits /\ fails' = fails
      /\ edits \in 0..MaxEdits /\ fails \in 0..MaxFails
  BY DEF Query, TypeOK, Locals
<1>1. Goto(r, IF nids = {} THEN nextOperation(m) ELSE f)
  BY DEF Query
<1>2. nids \subseteq due
  OBVIOUS
<1>3. ASSUME NEW x \in due
      PROVE  \E c \in Challenge : /\ isDue(node[c], l.operation, l.time)
                                  /\ x = <<node[c].schedule[l.operation], c>>
  BY <1>3
<1>4. ASSUME NEW c \in Challenge, isDue(node[c], l.operation, l.time)
      PROVE  <<node[c].schedule[l.operation], c>> \in due
  BY <1>4
<1>5. due \subseteq (1..MaxTime) \X Challenge
  <2> SUFFICES ASSUME NEW x \in due PROVE x \in (1..MaxTime) \X Challenge
    OBVIOUS
  <2>1. PICK c \in Challenge : /\ isDue(node[c], l.operation, l.time)
                               /\ x = <<node[c].schedule[l.operation], c>>
    BY <1>3
  <2>2. node[c].schedule \in [Operation -> 0..MaxTime]
    BY <1>0 DEF Node
  <2>3. node[c].schedule[l.operation] \in 1..MaxTime
    BY <1>0, <2>1, <2>2 DEF isDue, Unset
  <2> QED BY <2>1, <2>3
<1> HIDE DEF nids, due
<1>6. u \subseteq l.undisturbed /\ u \subseteq Challenge
  BY <1>0 DEF Locals
<1>7. u # {} => l.operation = "close" \/ nids = due
  OBVIOUS
<1> HIDE DEF u
<1>8. /\ m \in Locals /\ m.undisturbed = u /\ m.operation = l.operation
      /\ m.time = l.time /\ m.pc = l.pc
  BY <1>0, <1>6 DEF Locals
<1>9. /\ f \in Locals /\ f.undisturbed = u /\ f.operation = l.operation
      /\ f.time = l.time /\ f.pc = "load" /\ f.nids = nids
  <2> HIDE DEF m
  <2>1. nids \in SUBSET ((1..MaxTime) \X Challenge)
    BY <1>2, <1>5
  <2> QED BY <1>8, <2>1 DEF Locals
<1> HIDE DEF m, f
<1>10. ASSUME NEW c \in u
       PROVE  isDue(node[c], "open", l.time) => l.operation = "open"
  BY <1>6, <1>10 DEF AllConsistent, Consistent
<1>11. CASE nids = {}
  <2> DEFINE n == nextOperation(m)
  <2>1. /\ n \in Locals /\ n.nids = {} /\ n.pc \in {"off", "query"}
        /\ n.undisturbed \subseteq u
        /\ n.undisturbed # {} => l.operation = "open" /\ n.time = l.time
    BY <1>8, NextOperation
  <2>2. Goto(r, n)
    BY <1>1, <1>11
  <2> HIDE DEF n
  <2>3. ASSUME NEW c \in n.undisturbed
        PROVE  Consistent(n, node[c], c)
    <3>1. l.operation = "open" /\ n.time = l.time /\ nids = due /\ c \in Challenge
      BY <2>1, <2>3, <1>6, <1>7
    <3>2. ~isDue(node[c], "open", l.time)
      BY <3>1, <1>4, <1>11
    <3> QED BY <2>1, <3>1, <3>2 DEF Consistent
  <2>4. n.undisturbed \subseteq l.undisturbed
    BY <2>1, <1>6
  <2> QED BY <1>0, <2>1, <2>2, <2>3, <2>4, Moves
<1>12. CASE nids # {}
  <2>1. Goto(r, f)
    BY <1>1, <1>12
  <2>2. ASSUME NEW c \in f.undisturbed
        PROVE  Consistent(f, node[c], c)
    <3>1. c \in Challenge /\ c \in u
      BY <2>2, <1>6, <1>9
    <3>2. ASSUME NEW x \in nids, x[2] = c
          PROVE  isDue(node[c], l.operation, l.time) /\ x[1] = node[c].schedule[l.operation]
      <4>1. PICK d \in Challenge : /\ isDue(node[d], l.operation, l.time)
                                   /\ x = <<node[d].schedule[l.operation], d>>
        BY <1>2, <1>3
      <4>2. d = c
        BY <3>2, <4>1
      <4> QED BY <4>1, <4>2
    <3>3. ASSUME isDue(node[c], "open", l.time)
          PROVE  l.operation = "open" /\ \E x \in nids : x[2] = c
      <4>1. l.operation = "open" /\ nids = due
        BY <3>1, <3>3, <1>7, <1>10
      <4>2. <<node[c].schedule["open"], c>> \in nids
        BY <3>1, <3>3, <4>1, <1>4
      <4> QED BY <4>1, <4>2
    <3> QED BY <1>9, <3>2, <3>3 DEF Consistent
  <2> QED BY <1>0, <1>6, <1>9, <2>1, <2>2, Moves
<1> QED BY <1>11, <1>12

\* What is loaded is what is stored.
LEMMA LoadKeeps ==
    ASSUME TypeOK, AllConsistent, NEW r \in Run, Load(r)
    PROVE  TypeOK' /\ AllConsistent'
<1> DEFINE l == run[r]
           found == {x[2] : x \in l.nids}
           copy == [c \in Challenge |-> IF c \in found THEN node[c] ELSE NoNode]
           m == [l EXCEPT !.pc = "save", !.copy = copy]
<1>0. /\ l \in Locals /\ l.pc = "load"
      /\ node \in [Challenge -> Node]
      /\ now' = now /\ node' = node /\ edits' = edits /\ fails' = fails
      /\ edits \in 0..MaxEdits /\ fails \in 0..MaxFails
      /\ Goto(r, m)
  BY DEF Load, TypeOK
<1>1. copy \in [Challenge -> Node]
  BY <1>0, OffLocals
<1>2. ASSUME NEW x \in l.nids, x[2] \in Challenge PROVE copy[x[2]] = node[x[2]]
  BY <1>2
<1> HIDE DEF copy
<1>3. /\ m \in Locals /\ m.undisturbed = l.undisturbed /\ m.operation = l.operation
      /\ m.time = l.time /\ m.nids = l.nids /\ m.copy = copy /\ m.pc = "save"
  BY <1>0, <1>1 DEF Locals
<1> HIDE DEF m
<1>4. ASSUME NEW c \in m.undisturbed PROVE Consistent(m, node[c], c)
  <2>1. c \in l.undisturbed /\ c \in Challenge
    BY <1>0, <1>3, <1>4 DEF Locals
  <2>2. Consistent(l, node[c], c)
    BY <2>1 DEF AllConsistent
  <2>3. \A x \in l.nids : x[2] = c => copy[c] = node[c]
    BY <2>1, <1>2
  <2> QED BY <1>0, <1>3, <2>2, <2>3 DEF Consistent
<1> QED BY <1>0, <1>3, <1>4, Moves

\* A saved challenge is not found a second time, and an opened one is no longer due.
LEMMA SaveKeeps ==
    ASSUME TypeOK, AllConsistent, NEW r \in Run, Save(r)
    PROVE  TypeOK' /\ AllConsistent'
<1> DEFINE l == run[r]
<1>0. /\ l \in Locals /\ l.pc = "save" /\ l.operation \in Operation
      /\ l.nids \subseteq (1..MaxTime) \X Challenge
      /\ l.copy \in [Challenge -> Node] /\ l.undisturbed \subseteq Challenge
      /\ node \in [Challenge -> Node]
      /\ now' = now /\ edits' = edits /\ fails' = fails
      /\ edits \in 0..MaxEdits /\ fails \in 0..MaxFails
  BY DEF Save, TypeOK, Locals
<1>1. PICK x \in l.nids :
        /\ node' = [node EXCEPT ![x[2]] = processed(l.copy[x[2]], l.operation)]
        /\ Goto(r, [l EXCEPT !.pc = "dispatch", !.nids = @ \ {x},
                           !.copy[x[2]] = NoNode])
  BY DEF Save
<1> DEFINE d == x[2]
           m == [l EXCEPT !.pc = "dispatch", !.nids = @ \ {x}, !.copy[d] = NoNode]
<1>2. d \in Challenge /\ x = <<x[1], d>>
  BY <1>0
<1>3. l.copy[d] \in Node
  BY <1>0, <1>2
<1> DEFINE w == processed(l.copy[d], l.operation)
<1>4. /\ w \in Node /\ w.published = l.copy[d].published
      /\ w.schedule[l.operation] = Unset
      /\ l.operation = "close" => w.schedule["open"] = l.copy[d].schedule["open"]
  BY <1>0, <1>3, Processed
<1>5. /\ node' \in [Challenge -> Node] /\ node'[d] = w
      /\ \A c \in Challenge : c # d => node'[c] = node[c]
  <2> HIDE DEF w
  <2>1. node' = [node EXCEPT ![d] = w]
    BY <1>1 DEF w
  <2> QED BY <1>0, <1>2, <1>4, <2>1
<1> HIDE DEF w
<1>6. /\ m \in Locals /\ m.undisturbed = l.undisturbed /\ m.operation = l.operation
      /\ m.time = l.time /\ m.nids = l.nids \ {x} /\ m.pc = "dispatch"
      /\ m.copy = [l.copy EXCEPT ![d] = NoNode]
  <2> HIDE DEF d
  <2>1. [l.copy EXCEPT ![d] = NoNode] \in [Challenge -> Node]
    BY <1>0, OffLocals
  <2> QED BY <1>0, <2>1 DEF Locals
<1>7. Goto(r, m)
  BY <1>1
<1> HIDE DEF m, d
<1>8. ASSUME NEW c \in m.undisturbed PROVE Consistent(m, node'[c], c)
  <2>1. c \in l.undisturbed /\ c \in Challenge
    BY <1>0, <1>6, <1>8
  <2>2. Consistent(l, node[c], c)
    BY <2>1 DEF AllConsistent
  <2>3. CASE c # d
    <3>1. node'[c] = node[c] /\ m.copy[c] = l.copy[c]
      BY <1>0, <1>2, <1>5, <1>6, <2>1, <2>3
    <3>2. \A y \in l.nids : y[2] = c => y \in m.nids
      BY <1>6, <2>3 DEF d
    <3> QED BY <1>0, <1>6, <2>2, <3>1, <3>2 DEF Consistent
  <2>4. CASE c = d
    <3>1. /\ x[1] = node[c].schedule[l.operation] /\ l.copy[c] = node[c]
      BY <1>0, <1>1, <2>2, <2>4 DEF Consistent, d
    <3>2. \A y \in m.nids : y[2] # c
      <4> SUFFICES ASSUME NEW y \in m.nids, y[2] = c PROVE FALSE
        OBVIOUS
      <4>1. y \in l.nids /\ y # x
        BY <1>6
      <4>2. y[1] = x[1] /\ y[2] = x[2]
        BY <3>1, <4>1, <2>2, <2>4 DEF Consistent, d
      <4> QED BY <1>0, <1>1, <4>1, <4>2
    <3>3. ~isDue(w, "open", l.time)
      <4>1. CASE l.operation = "open"
        BY <1>4, <4>1 DEF isDue
      <4>2. CASE l.operation = "close"
        BY <1>4, <2>2, <2>4, <3>1, <4>2 DEF isDue, Consistent
      <4> QED BY <1>0, <4>1, <4>2 DEF Operation
    <3> QED BY <1>5, <1>6, <2>4, <3>2, <3>3 DEF Consistent
  <2> QED BY <2>3, <2>4
<1>9. m.undisturbed \subseteq run[r].undisturbed
  BY <1>6
<1> QED BY <1>0, <1>5, <1>6, <1>7, <1>8, <1>9, Moves

\* The openings are over when all that were found are saved.
LEMMA DispatchKeeps ==
    ASSUME TypeOK, AllConsistent, NEW r \in Run, Dispatch(r)
    PROVE  TypeOK' /\ AllConsistent'
<1> DEFINE l == run[r]
<1>0. /\ l \in Locals /\ l.pc = "dispatch"
      /\ node \in [Challenge -> Node]
      /\ now' = now /\ node' = node /\ edits' = edits /\ fails' = fails
      /\ edits \in 0..MaxEdits /\ fails \in 0..MaxFails
  BY DEF Dispatch, TypeOK
<1>1. CASE l.nids = {}
  <2> DEFINE n == nextOperation(l)
  <2>1. /\ n \in Locals /\ n.nids = {} /\ n.pc \in {"off", "query"}
        /\ n.undisturbed \subseteq l.undisturbed
        /\ n.undisturbed # {} => l.operation = "open" /\ n.time = l.time
    BY <1>0, NextOperation
  <2>2. Goto(r, n)
    BY <1>1 DEF Dispatch
  <2> HIDE DEF n
  <2>3. ASSUME NEW c \in n.undisturbed PROVE Consistent(n, node[c], c)
    <3>1. n.time = l.time /\ Consistent(l, node[c], c)
      BY <2>1, <2>3 DEF AllConsistent
    <3>2. ~isDue(node[c], "open", l.time)
      BY <1>0, <1>1, <3>1 DEF Consistent
    <3> QED BY <2>1, <3>1, <3>2 DEF Consistent
  <2> QED BY <1>0, <2>1, <2>2, <2>3, Moves
<1>2. CASE l.nids # {}
  <2> DEFINE n == [l EXCEPT !.pc = "save"]
  <2>1. /\ n \in Locals /\ n.nids = l.nids /\ n.pc = "save"
        /\ n.undisturbed = l.undisturbed /\ n.operation = l.operation
        /\ n.time = l.time /\ n.copy = l.copy
    BY <1>0 DEF Locals
  <2>2. Goto(r, n)
    BY <1>2 DEF Dispatch
  <2> HIDE DEF n
  <2>3. ASSUME NEW c \in n.undisturbed PROVE Consistent(n, node[c], c)
    <3>1. Consistent(l, node[c], c)
      BY <2>1, <2>3 DEF AllConsistent
    <3> QED BY <1>0, <2>1, <3>1 DEF Consistent
  <2> QED BY <1>0, <2>1, <2>2, <2>3, Moves
<1> QED BY <1>1, <1>2

\* A run that ends early forgets what it has found.
LEMMA ThrowsKeeps ==
    ASSUME TypeOK, AllConsistent, NEW r \in Run, Throws(r)
    PROVE  TypeOK' /\ AllConsistent'
<1>1. /\ node \in [Challenge -> Node] /\ edits \in 0..MaxEdits
      /\ fails \in 0..MaxFails /\ fails < MaxFails
  BY DEF Throws, TypeOK
<1>2. /\ run[r].pc # "off" /\ Goto(r, Off) /\ fails' = fails + 1
      /\ now' = now /\ node' = node /\ edits' = edits
  BY DEF Throws
<1>3. fails' \in 0..MaxFails
  BY <1>1, <1>2
<1>4. Off.undisturbed = {}
  BY DEF Off
<1> QED BY <1>1, <1>2, <1>3, <1>4, OffLocals, Moves

\* An edit disturbs its challenge in every run.
LEMMA EditKeeps ==
    ASSUME TypeOK, AllConsistent, NEW c \in Challenge, Edit(c)
    PROVE  TypeOK' /\ AllConsistent'
<1>1. /\ edits \in 0..MaxEdits /\ edits < MaxEdits /\ edits' = edits + 1
      /\ now' = now /\ fails' = fails
      /\ run \in [Run -> Locals] /\ node \in [Challenge -> Node]
      /\ run' = [r \in Run |-> [run[r] EXCEPT !.undisturbed = @ \ {c}]]
  BY DEF Edit, TypeOK
<1>2. edits' \in 0..MaxEdits
  BY <1>1
<1>3. PICK n \in Node : node' = [node EXCEPT ![c] = n]
  BY DEF Edit
<1>4. node' \in [Challenge -> Node] /\ \A d \in Challenge : d # c => node'[d] = node[d]
  BY <1>1, <1>3
<1>5. ASSUME NEW l \in Locals
      PROVE  LET m == [l EXCEPT !.undisturbed = @ \ {c}]
             IN  /\ m \in Locals /\ m.undisturbed = l.undisturbed \ {c}
                 /\ m.pc = l.pc /\ m.operation = l.operation /\ m.time = l.time
                 /\ m.nids = l.nids /\ m.copy = l.copy
  BY DEF Locals
<1>6. ASSUME NEW r \in Run
      PROVE  /\ run'[r] \in Locals /\ run'[r].undisturbed = run[r].undisturbed \ {c}
             /\ run'[r].pc = run[r].pc /\ run'[r].operation = run[r].operation
             /\ run'[r].time = run[r].time /\ run'[r].nids = run[r].nids
             /\ run'[r].copy = run[r].copy
  <2>1. run[r] \in Locals /\ run'[r] = [run[r] EXCEPT !.undisturbed = @ \ {c}]
    BY <1>1
  <2> QED BY <2>1, <1>5
<1>7. run' \in [Run -> Locals]
  BY <1>1, <1>6
<1>8. TypeOK'
  BY <1>1, <1>2, <1>4, <1>7 DEF TypeOK
<1>9. ASSUME NEW r \in Run, NEW d \in run'[r].undisturbed
      PROVE  /\ \A s \in Run : s # r => run'[s].pc = "off"
             /\ Consistent(run'[r], node'[d], d)
  <2>1. d \in run[r].undisturbed /\ d # c /\ d \in Challenge
    BY <1>6, <1>9 DEF Locals
  <2>2. /\ \A s \in Run : s # r => run[s].pc = "off"
        /\ Consistent(run[r], node[d], d)
    BY <2>1 DEF AllConsistent
  <2>3. node'[d] = node[d]
    BY <1>4, <2>1
  <2>4. Consistent(run'[r], node'[d], d)
    BY <1>6, <2>2, <2>3 DEF Consistent
  <2> QED BY <1>6, <2>2, <2>4
<1> QED BY <1>8, <1>9 DEF AllConsistent

\* Time does not matter: a run goes by its request time.
LEMMA TickKeeps ==
    ASSUME TypeOK, AllConsistent, Tick
    PROVE  TypeOK' /\ AllConsistent'
<1>1. now \in 1..MaxTime /\ now < MaxTime /\ now' = now + 1
  BY DEF Tick, TypeOK
<1>2. now' \in 1..MaxTime
  BY <1>1
<1>3. node' = node /\ run' = run /\ edits' = edits /\ fails' = fails
  BY DEF Tick
<1>4. TypeOK'
  BY <1>2, <1>3 DEF TypeOK
<1>5. AllConsistent'
  BY <1>3 DEF AllConsistent
<1> QED BY <1>4, <1>5

-----------------------------------------------------------------------------
\* No run is under way in the beginning.
LEMMA InitInv == Init => Inv
<1> SUFFICES ASSUME Init PROVE Inv
  OBVIOUS
<1>1. now \in 1..MaxTime /\ edits \in 0..MaxEdits /\ fails \in 0..MaxFails
  BY DEF Init
<1>2. node \in [Challenge -> Node] /\ run \in [Run -> Locals]
  BY OffLocals DEF Init
<1>3. \A r \in Run : run[r].undisturbed = {}
  BY DEF Init, Off
<1>4. TypeOK /\ AllConsistent
  BY <1>1, <1>2, <1>3 DEF TypeOK, AllConsistent
<1> QED BY <1>4, InvConsistent

\* Every step keeps the invariant.
LEMMA NextInv == Inv /\ [Next]_vars => Inv'
<1> SUFFICES ASSUME Inv, [Next]_vars PROVE Inv'
  OBVIOUS
<1>0. TypeOK /\ AllConsistent
  BY InvConsistent
<1>p. TypeOK' /\ AllConsistent' => Inv'
  BY DEF Inv, Current, OpeningsFirst, AllConsistent, Consistent
<1>1. ASSUME NEW r \in Run, Start(r) PROVE TypeOK' /\ AllConsistent'
  BY <1>0, <1>1, StartKeeps
<1>2. ASSUME NEW r \in Run, Step(r) PROVE TypeOK' /\ AllConsistent'
  BY <1>0, <1>2, QueryKeeps, LoadKeeps, SaveKeeps, DispatchKeeps DEF Step
<1>3. ASSUME NEW r \in Run, Throws(r) PROVE TypeOK' /\ AllConsistent'
  BY <1>0, <1>3, ThrowsKeeps
<1>4. ASSUME NEW c \in Challenge, Edit(c) PROVE TypeOK' /\ AllConsistent'
  BY <1>0, <1>4, EditKeeps
<1>5. CASE Tick
  BY <1>0, <1>5, <1>p, TickKeeps
<1>6. CASE UNCHANGED vars
  BY <1>0, <1>6 DEF vars, Inv, TypeOK, Current, OpeningsFirst
<1>7. CASE Next /\ ~Tick
  BY <1>1, <1>2, <1>3, <1>4, <1>7, <1>p DEF Next
<1> QED BY <1>5, <1>6, <1>7

\* The invariant: what a run knows of a challenge nobody else has touched is what
\* is stored, and it closes only when it has opened.
THEOREM Invariance == Spec => []Inv
<1> QED BY InitInv, NextInv, PTL DEF Spec

\* A step of the invariant closes a challenge only when no earlier opening of it
\* is left.
LEMMA SaveClosesLast ==
    ASSUME TypeOK, AllConsistent, NEW r \in Run, Save(r), NEW x \in run[r].nids,
           run'[r].nids = run[r].nids \ {x},
           run[r].operation = "close", x[2] \in run[r].undisturbed
    PROVE  LET open == node'[x[2]].schedule["open"] IN open = Unset \/ open > x[1]
<1> DEFINE l == run[r]
           c == x[2]
<1>0. /\ l \in Locals /\ l.pc = "save" /\ c \in Challenge /\ l.time \in 0..MaxTime
      /\ node \in [Challenge -> Node] /\ run \in [Run -> Locals]
  BY DEF Save, TypeOK, Locals
<1>1. PICK y \in l.nids :
        /\ node' = [node EXCEPT ![y[2]] = processed(l.copy[y[2]], l.operation)]
        /\ run' = [run EXCEPT ![r] = [l EXCEPT !.pc = "dispatch", !.nids = @ \ {y},
                                         !.copy[y[2]] = NoNode]]
  BY DEF Save, Goto
<1>2. run'[r].nids = l.nids \ {y}
  BY <1>0, <1>1 DEF Locals
<1>3. x = y
  BY <1>1, <1>2
<1>4. Consistent(l, node[c], c)
  BY DEF AllConsistent
<1>5. l.copy[c] = node[c] /\ isDue(node[c], "close", l.time) /\ x[1] = node[c].schedule["close"]
  BY <1>0, <1>4 DEF Consistent
<1>6. node'[c] = processed(node[c], "close")
  BY <1>0, <1>1, <1>3, <1>5
<1>7. node'[c].schedule["open"] = node[c].schedule["open"]
  BY <1>0, <1>6, Processed DEF Operation
<1>8. ~isDue(node[c], "open", l.time)
  BY <1>4 DEF Consistent
<1>9. node[c].schedule["open"] \in 0..MaxTime /\ node[c].schedule["close"] \in 0..MaxTime
  BY <1>0 DEF Node, Operation
<1> HIDE DEF l, c
<1>10. LET open == node'[c].schedule["open"] IN open = Unset \/ open > x[1]
  BY <1>0, <1>5, <1>7, <1>8, <1>9 DEF isDue, Unset
<1> QED BY <1>10 DEF c

\* openideal_challenge_cron() opens before it closes.
THEOREM Order == Spec => ClosesLast
<1> DEFINE A == \A r \in Run : \A x \in run[r].nids :
                 /\ run[r].pc = "save" /\ run'[r].pc = "dispatch"
                 /\ run'[r].nids = run[r].nids \ {x}
                 /\ run[r].operation = "close" /\ x[2] \in run[r].undisturbed
                 => LET open == node'[x[2]].schedule["open"]
                    IN  open = Unset \/ open > x[1]
<1>1. Inv /\ [Next]_vars => [A]_vars
  <2> SUFFICES ASSUME Inv, Next, NEW r \in Run, NEW x \in run[r].nids,
                      run[r].pc = "save", run'[r].pc = "dispatch",
                      run'[r].nids = run[r].nids \ {x},
                      run[r].operation = "close", x[2] \in run[r].undisturbed
               PROVE  LET open == node'[x[2]].schedule["open"]
                      IN  open = Unset \/ open > x[1]
    OBVIOUS
  <2>0. TypeOK /\ AllConsistent /\ run \in [Run -> Locals]
    BY InvConsistent DEF TypeOK
  <2>1. Save(r)
    <3>1. \A s \in Run : ~Start(s)
      <4> SUFFICES ASSUME NEW s \in Run, Start(s) PROVE FALSE
        OBVIOUS
      <4>1. s # r /\ run'[r] = [run[r] EXCEPT !.undisturbed = {}]
        BY DEF Start
      <4>2. run'[r].pc = run[r].pc
        BY <2>0, <4>1 DEF Locals
      <4> QED BY <4>2
    <3>2. \A c \in Challenge : ~Edit(c)
      <4> SUFFICES ASSUME NEW c \in Challenge, Edit(c) PROVE FALSE
        OBVIOUS
      <4>1. run'[r] = [run[r] EXCEPT !.undisturbed = @ \ {c}]
        BY DEF Edit
      <4>2. run'[r].pc = run[r].pc
        BY <2>0, <4>1 DEF Locals
      <4> QED BY <4>2
    <3>3. ~Tick
      BY DEF Tick
    <3>4. PICK s \in Run : Step(s) \/ Throws(s)
      BY <3>1, <3>2, <3>3 DEF Next
    <3>5. s = r
      <4>1. \E m : run' = [run EXCEPT ![s] = m]
        BY <3>4 DEF Step, Throws, Query, Load, Save, Dispatch, Goto
      <4>2. s # r => run'[r] = run[r]
        BY <2>0, <4>1
      <4> QED BY <4>2
    <3>6. ~Throws(r)
      <4> SUFFICES ASSUME Throws(r) PROVE FALSE
        OBVIOUS
      <4>1. run'[r] = Off
        BY <2>0 DEF Throws, Goto
      <4> QED BY <4>1 DEF Off
    <3> QED BY <3>4, <3>5, <3>6 DEF Step, Query, Load, Dispatch
  <2> QED BY <2>0, <2>1, SaveClosesLast
<1>2. ClosesLast <=> [][A]_vars
  BY DEF ClosesLast
<1> QED BY <1>1, <1>2, Invariance, PTL DEF Spec
=============================================================================
