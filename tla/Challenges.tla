----------------------------- MODULE Challenges -----------------------------
(***************************************************************************)
(* The scheduled opening and closing of challenges                         *)
(* (openideal_challenge): cron runs that look for challenges whose opening *)
(* is due, then for those whose closing is due, a few at a time, and users *)
(* who edit challenges meanwhile.                                          *)
(*                                                                         *)
(* A run works on copies of the nodes that it has loaded before.  Nothing  *)
(* but the lock of the cron job keeps two runs apart, and only for as long *)
(* as its lease.                                                           *)
(***************************************************************************)
EXTENDS Integers, FiniteSets

CONSTANTS
    Run,          \* cron runs
    Challenges,   \* the challenges are 1..Challenges, by nid
    LIMIT,        \* how many are processed at a time
    Drafts,       \* what users save
    MaxTime,      \* bound: the clock stops here
    MaxEdits,     \* bound: edits by users
    MaxFails      \* bound: runs that end early

Challenge == 1..Challenges
Operation == {"open", "close"}

\* field_is_open, field_schedule_open, field_schedule_close and the status.
Node ==
    [is_open : BOOLEAN, schedule : [Operation -> 0..MaxTime], published : BOOLEAN]

ASSUME ChallengesAssumption ==
    /\ {Challenges, LIMIT, MaxTime} \subseteq Nat \ {0}
    /\ {MaxEdits, MaxFails} \subseteq Nat
    /\ Drafts \subseteq Node

VARIABLES
    now,      \* the time
    node,     \* node[c]: the stored challenge
    run,      \* run[r]: where run r is, and its local variables
    edits,    \* edits so far
    fails     \* runs that ended early so far

vars == <<now, node, run, edits, fails>>

Unset == 0

\* time: the request time; nids: what the query has found, with its schedule;
\* copy: what was loaded; undisturbed: history, the challenges that nobody else
\* may have changed since the run began and whose opening it did not put off.
Locals ==
    [pc : {"off", "query", "load", "save", "dispatch"},
     operation : Operation, time : 0..MaxTime,
     nids : SUBSET ((1..MaxTime) \X Challenge), copy : [Challenge -> Node],
     undisturbed : SUBSET Challenge]

NoNode ==
    [is_open |-> FALSE, schedule |-> [o \in Operation |-> Unset], published |-> FALSE]
NoCopy == [c \in Challenge |-> NoNode]

Off ==
    [pc |-> "off", operation |-> "open", time |-> 0, nids |-> {}, copy |-> NoCopy,
     undisturbed |-> {}]

TypeOK ==
    /\ now \in 1..MaxTime
    /\ node \in [Challenge -> Node]
    /\ run \in [Run -> Locals]
    /\ edits \in 0..MaxEdits /\ fails \in 0..MaxFails

Init ==
    /\ now = 1
    /\ node \in [Challenge -> Drafts]
    /\ run = [r \in Run |-> Off]
    /\ edits = 0 /\ fails = 0

-----------------------------------------------------------------------------
Goto(r, l) == run' = [run EXCEPT ![r] = l]

isDue(n, operation, t) ==
    n.published /\ n.schedule[operation] # Unset /\ n.schedule[operation] <= t

\* By schedule, then by nid.
Before(x, y) == x[1] < y[1] \/ (x[1] = y[1] /\ x[2] < y[2])

\* openideal_challenge_cron() goes on with the closings, or is over.
nextOperation(l) ==
    IF l.operation = "open"
    THEN [l EXCEPT !.pc = "query", !.operation = "close", !.nids = {}, !.copy = NoCopy]
    ELSE Off

Start(r) ==
    LET alone == \A s \in Run : run[s].pc = "off"
    IN  /\ run[r].pc = "off"
        /\ run' = [s \in Run |->
                     IF s = r THEN [Off EXCEPT !.pc = "query", !.time = now,
                                       !.undisturbed = IF alone THEN Challenge ELSE {}]
                     ELSE [run[s] EXCEPT !.undisturbed = {}]]
        /\ UNCHANGED <<now, node, edits, fails>>

Query(r) ==
    LET l == run[r]
        due == {<<node[c].schedule[l.operation], c>> :
                  c \in {d \in Challenge : isDue(node[d], l.operation, l.time)}}
        nids == {x \in due : Cardinality({y \in due : Before(y, x)}) < LIMIT}
        m == [l EXCEPT !.undisturbed = IF l.operation = "close" \/ nids = due
                                       THEN @ ELSE {}]
    IN  /\ l.pc = "query"
        /\ Goto(r, IF nids = {} THEN nextOperation(m)
                   ELSE [m EXCEPT !.pc = "load", !.nids = nids])
        /\ UNCHANGED <<now, node, edits, fails>>

Load(r) ==
    LET l == run[r]
        found == {x[2] : x \in l.nids}
    IN  /\ l.pc = "load"
        /\ Goto(r, [l EXCEPT !.pc = "save",
                        !.copy = [c \in Challenge |->
                                    IF c \in found THEN node[c] ELSE NoNode]])
        /\ UNCHANGED <<now, node, edits, fails>>

\* Variant: only field_schedule_open is unset.
processedOpen(n, operation) ==
    [n EXCEPT !.is_open = (operation = "open"), !.schedule["open"] = Unset]

processed(n, operation) ==
    [n EXCEPT !.is_open = (operation = "open"), !.schedule[operation] = Unset]

\* The copy is saved, whatever is stored by now.  Listeners of the event that
\* the save triggers run before it is committed.
Save(r) ==
    LET l == run[r]
    IN  /\ l.pc = "save"
        /\ \E x \in l.nids :
             LET c == x[2]
             IN  /\ \A y \in l.nids \ {x} : Before(x, y)
                 /\ node' = [node EXCEPT ![c] = processed(l.copy[c], l.operation)]
                 /\ Goto(r, [l EXCEPT !.pc = "dispatch", !.nids = @ \ {x},
                                 !.copy[c] = NoNode])
        /\ UNCHANGED <<now, edits, fails>>

\* Variant: the operation returns after the first challenge.
DispatchReturns(r) ==
    LET l == run[r]
    IN  /\ l.pc = "dispatch"
        /\ Goto(r, nextOperation(l))
        /\ UNCHANGED <<now, node, edits, fails>>

\* The event is triggered once more.
Dispatch(r) ==
    LET l == run[r]
    IN  /\ l.pc = "dispatch"
        /\ Goto(r, IF l.nids = {} THEN nextOperation(l) ELSE [l EXCEPT !.pc = "save"])
        /\ UNCHANGED <<now, node, edits, fails>>

\* Variant: an exception ends the operation only.
ThrowsOperation(r) ==
    /\ run[r].pc # "off"
    /\ fails < MaxFails /\ fails' = fails + 1
    /\ Goto(r, nextOperation(run[r]))
    /\ UNCHANGED <<now, node, edits>>

\* The save or a listener throws an exception, or the run dies.
Throws(r) ==
    /\ run[r].pc # "off"
    /\ fails < MaxFails /\ fails' = fails + 1
    /\ Goto(r, Off)
    /\ UNCHANGED <<now, node, edits>>

\* The node form, which refuses to overwrite what was saved after it was built.
Edit(c) ==
    /\ edits < MaxEdits /\ edits' = edits + 1
    /\ \E n \in Drafts : node' = [node EXCEPT ![c] = n]
    /\ run' = [r \in Run |-> [run[r] EXCEPT !.undisturbed = @ \ {c}]]
    /\ UNCHANGED <<now, fails>>

Tick ==
    /\ now < MaxTime
    /\ now' = now + 1
    /\ UNCHANGED <<node, run, edits, fails>>

Step(r) == Query(r) \/ Load(r) \/ Save(r) \/ Dispatch(r)

Next ==
    \/ \E r \in Run : Start(r) \/ Step(r) \/ Throws(r)
    \/ \E c \in Challenge : Edit(c)
    \/ Tick

Spec == Init /\ [][Next]_vars

\* Cron runs again and again, and a run goes on unless it fails.
FairSpec ==
    /\ Spec
    /\ \A r \in Run : WF_vars(Start(r)) /\ WF_vars(Step(r))

-----------------------------------------------------------------------------
\* "The schedule will be triggered by cron job" (the node form): whatever the
\* runs find at a time, every opening and closing is processed in the end, also
\* when one run stores anew what another has processed.
SchedulesDone ==
    <>[](\A c \in Challenge, o \in Operation : ~isDue(node[c], o, now))

\* openideal_challenge_cron() opens before it closes: when a run closes a
\* challenge, no opening that was scheduled before that closing is left to be
\* processed later, unless a user or another run interfered or there were more
\* openings than one run takes.
ClosesLast ==
    [][\A r \in Run : \A x \in run[r].nids :
         /\ run[r].pc = "save" /\ run'[r].pc = "dispatch"
         /\ run'[r].nids = run[r].nids \ {x}
         /\ run[r].operation = "close" /\ x[2] \in run[r].undisturbed
         => LET open == node'[x[2]].schedule["open"] IN open = Unset \/ open > x[1]]_vars

\* Why it holds: what a run has found and loaded of an undisturbed challenge is
\* what is stored, ...
Current ==
    \A r \in Run : \A c \in run[r].undisturbed :
        LET l == run[r]
        IN  /\ \A s \in Run : s # r => run[s].pc = "off"
            /\ \A x \in l.nids : x[2] = c =>
                 isDue(node[c], l.operation, l.time) /\ x[1] = node[c].schedule[l.operation]
            /\ l.pc \in {"save", "dispatch"} =>
                 \A x \in l.nids : x[2] = c => l.copy[c] = node[c]

\* ... and it goes on to the closings when it has processed the openings.
OpeningsFirst ==
    \A r \in Run : \A c \in run[r].undisturbed :
        LET l == run[r]
        IN  isDue(node[c], "open", l.time) =>
              /\ l.operation = "open"
              /\ l.pc \in {"load", "save", "dispatch"} => \E x \in l.nids : x[2] = c

Inv == TypeOK /\ Current /\ OpeningsFirst
=============================================================================
