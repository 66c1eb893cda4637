------------------------- MODULE UltimateCronProofs -------------------------
(***************************************************************************)
(* Proofs about UltimateCron, for any processes, jobs, threads, schedules, *)
(* timeouts and bounds.  Inv is inductive.  Most steps change the locals   *)
(* of one process and at most free rows; Moves says what such a step has   *)
(* to respect, MovesInv that it keeps Inv, and the proof of an action is   *)
(* that it Moves.  Taking a lock, a kill, the administrator and the clock  *)
(* have proofs of their own.  Each of these lemmas also says that the step *)
(* is one of Lease (LeaseStep), which gives the refinement.                *)
(***************************************************************************)
EXTENDS UltimateCron, TLAPS

Rows == [lid : Lid, expire : Nat, killed : BOOLEAN]

Executing(l) == l.pc \in {"callback", "finish"} /\ l.held /\ l.juntil > now

\* The parts of the invariant that are about the locals l of one process.
Ids(l) ==
    /\ l.jlock # None =>
         l.pc \in {"callback", "finish", "unlock", "shutdown", "shutdownJob"}
    /\ \/ l.pc \in {"off", "probe", "shutdownJob", "shutdownLog"}
       \/ l.pc \in Locking /\ l.goal = "thread"
       => l.cur = None

Again(rows, l) ==
    LET x == rows[<<"thread", l.thread>>]
    IN  l.goal = "again" /\ l.cur # None /\ x.lid = l.cur =>
          /\ l.pc = "select" => x.expire <= now
          /\ l.pc = "expire" => l.seen = l.cur /\ x.expire <= l.at
          /\ l.pc # "insert"

\* What process r lets go when it goes on with locals m.
GivesUp(r, m, lid) ==
    \/ lid = run[r].cur /\ m.until = 0
    \/ lid = run[r].jlock /\ m.juntil = 0
    \/ lid = run[r].own /\ lid # run[r].cur /\ lid # run[r].jlock

\* r goes on with locals m.
Moves(r, m) ==
    /\ m \in Locals
    /\ run' = [run EXCEPT ![r] = m]
    /\ now' = now /\ admin' = admin /\ fails' \in 0..MaxFails
    /\ log' \in [Job -> [start : Nat, by : {"run", "other"}]]
    /\ row' \in [Name -> Rows \cup {NoRow}]
    \* It keeps its locks or gives them up, ...
    /\ m.own \in {run[r].own, None}
    /\ \/ m.cur = run[r].cur /\ m.until \in {run[r].until, 0}
       \/ m.cur = None /\ m.until = 0
    /\ \/ m.jlock = run[r].jlock /\ m.juntil \in {run[r].juntil, 0}
       \/ m.jlock = None /\ m.juntil = 0
    /\ m.thread = run[r].thread \/ m.cur = None
    /\ m.job = run[r].job \/ m.jlock = None
    \* ... frees rows that are over or its own, leaving none behind, ...
    /\ \A n \in Name :
         \/ row'[n] = row[n]
         \/ row'[n] = NoRow /\ row[n].expire <= now
         \/ row'[n] = NoRow /\ GivesUp(r, m, row[n].lid)
    /\ \A n \in Name : row'[n] # NoRow =>
         /\ row'[n].lid = run[r].cur => m.cur = run[r].cur
         /\ row'[n].lid = run[r].jlock => m.jlock = run[r].jlock
    \* ... is where it may be with them, ...
    /\ Ids(m) /\ Again(row', m)
    \* ... and launches and logs what it may.
    /\ Executing(m) => Executing(run[r]) /\ m.job = run[r].job
    /\ Launching(m) =>
         \/ Launching(run[r]) /\ m.job = run[r].job
         \/ m.pc = "due" /\ ~isLocked(<<"job", m.job>>)
    /\ Launching(m) /\ m.pc # "due" => log' = log /\
         (run[r].pc # "due" \/ pending(log[m.job].start, now))
    /\ \A j \in Job :
         \/ log'[j] = log[j]
         \/ log'[j].by = "other"
         \/ Executing(run[r]) /\ j = run[r].job

\* A step of the promise of a lock backend, or one that it does not see.
LeaseStep == [Promise!LeaseNext]_(Promise!leaseVars)

-----------------------------------------------------------------------------
LEMMA Names ==
    /\ \A t \in Thread : <<"thread", t>> \in Name
    /\ \A j \in Job : <<"job", j>> \in Name
  BY DEF Name

LEMMA IdsApart ==
    \A r \in Run : \A a \in {r} \X (1..MaxLids) :
        /\ a \in Lid /\ a # None
        /\ \A s \in Run : s # r => a \notin {s} \X (1..MaxLids)
  BY UltimateCronAssumption DEF Lid

\* A process keeps its leases or gives them up.
LEMMA ForgoStep ==
  ASSUME TypeOK, NEW r \in Run, NEW m \in Locals, now' = now,
         run' = [run EXCEPT ![r] = m],
         m.until = 0 \/ (m.until = run[r].until /\ m.thread = run[r].thread),
         m.juntil = 0 \/ (m.juntil = run[r].juntil /\ m.job = run[r].job)
  PROVE  LeaseStep
<1> DEFINE l == run[r]
           kept == {n \in Name : leaseOf(m)[n] = leaseOf(l)[n]}
<1>1. leases' = [leases EXCEPT ![r] = leaseOf(m)]
  BY DEF leases, TypeOK
<1>2. \A n \in Name : leaseOf(m)[n] = leaseOf(l)[n] \/ leaseOf(m)[n] = 0
  <2> SUFFICES ASSUME NEW n \in Name, leaseOf(m)[n] # 0
               PROVE  leaseOf(m)[n] = leaseOf(l)[n]
    OBVIOUS
  <2>1. CASE n = <<"thread", m.thread>>
    BY <2>1 DEF leaseOf
  <2>2. CASE n = <<"job", m.job>>
    BY <2>2 DEF leaseOf
  <2> QED BY <2>1, <2>2 DEF leaseOf
<1>3. /\ leaseOf(m) = [n \in Name |-> leaseOf(m)[n]]
      /\ leases[r] = leaseOf(l)
  BY DEF leases, leaseOf
<1>4. leaseOf(m) = [n \in Name |-> IF n \in kept THEN leases[r][n] ELSE 0]
  BY <1>2, <1>3
<1>5. kept \in SUBSET Name
  OBVIOUS
<1> HIDE DEF kept
<1>6. Promise!Forgo(r)
  BY <1>1, <1>4, <1>5 DEF Promise!Forgo
<1> QED BY <1>6 DEF LeaseStep, Promise!LeaseNext

\* A process takes a lock that has no row: nobody else has a lease on it.
LEMMA GrantStep ==
  ASSUME Inv, NEW r \in Run, NEW n \in Name, NEW end \in Nat, NEW m \in Locals,
         row[n] = NoRow, now' = now, run' = [run EXCEPT ![r] = m],
         leaseOf(m) = [leaseOf(run[r]) EXCEPT ![n] = end]
  PROVE  LeaseStep
<1>1. leases' = [leases EXCEPT ![r] = leaseOf(m)] /\ leases[r] = leaseOf(run[r])
  BY DEF leases, Inv, TypeOK
<1>2. leases' = [leases EXCEPT ![r][n] = end]
  BY <1>1
<1>3. leases'[r][n] = end
  BY <1>2 DEF leases, leaseOf
<1>4. ASSUME NEW q \in Run \ {r}, Promise!Live(q, n) PROVE FALSE
  <2>1. leaseOf(run[q])[n] >= now + 1 /\ now \in Nat /\ run[q] \in Locals
    BY <1>4 DEF Promise!Live, leases, Inv, TypeOK
  <2>2. NoRow.lid = None
    BY DEF NoRow
  <2>3. CASE n = <<"thread", run[q].thread>>
    <3>1. run[q].until > now
      BY <2>1, <2>3 DEF leaseOf, Locals
    <3> QED BY <2>2, <2>3, <3>1 DEF Inv, RowsBackLeases
  <2>4. CASE n = <<"job", run[q].job>>
    <3>1. run[q].juntil > now
      BY <2>1, <2>4 DEF leaseOf, Locals
    <3> QED BY <2>2, <2>4, <3>1 DEF Inv, RowsBackLeases
  <2>5. CASE n # <<"thread", run[q].thread>> /\ n # <<"job", run[q].job>>
    BY <2>1, <2>5 DEF leaseOf
  <2> QED BY <2>3, <2>4, <2>5
<1>5. Promise!Grant(r, n)
  BY <1>2, <1>3, <1>4 DEF Promise!Grant
<1> QED BY <1>5 DEF LeaseStep, Promise!LeaseNext

LEMMA MovesInv ==
  ASSUME NEW r \in Run, NEW m, Inv, Moves(r, m)
  PROVE  Inv' /\ LeaseStep
<1> DEFINE l == run[r]
<1> USE DEF Inv
<1>t. TypeOK
  OBVIOUS
<1>1. /\ run'[r] = m /\ l \in Locals /\ m \in Locals
      /\ \A s \in Run : s # r => run'[s] = run[s]
  BY <1>t DEF Moves, TypeOK
<1>2. TypeOK'
  BY <1>t DEF TypeOK, Moves, Rows
<1>3. OwnIds'
  BY <1>1, <1>t DEF Moves, OwnIds, Ids, TypeOK, Locals
<1>4. RowsInPlace'
  <2> SUFFICES ASSUME NEW s \in Run, NEW n \in Name, row'[n] # NoRow
               PROVE  /\ row'[n].lid = run'[s].cur => n = <<"thread", run'[s].thread>>
                      /\ row'[n].lid = run'[s].jlock => n = <<"job", run'[s].job>>
    BY DEF RowsInPlace
  <2>1. row'[n] = row[n] /\ row[n].lid # None
    BY <1>t, UltimateCronAssumption DEF Moves, TypeOK
  <2>2. CASE s # r
    BY <1>1, <2>1, <2>2 DEF RowsInPlace
  <2>3. CASE s = r
    BY <1>1, <2>1, <2>3 DEF RowsInPlace, Moves
  <2> QED BY <2>2, <2>3
<1>5. RowsBackLeases'
  <2> SUFFICES ASSUME NEW s \in Run
               PROVE  LET k == run'[s]
                      IN  /\ k.until > now =>
                               /\ k.cur # None
                               /\ row'[<<"thread", k.thread>>].lid = k.cur
                               /\ row'[<<"thread", k.thread>>].expire = k.until
                          /\ k.juntil > now =>
                               /\ k.jlock # None
                               /\ row'[<<"job", k.job>>].lid = k.jlock
                               /\ row'[<<"job", k.job>>].expire = k.juntil
    BY DEF RowsBackLeases, Moves
  <2> DEFINE k == run'[s]
  <2>1. CASE s # r
    <3>1. k = run[s] /\ k \in Locals
      BY <1>1, <1>t, <2>1 DEF TypeOK
    <3>2. ASSUME k.until > now
          PROVE  row'[<<"thread", k.thread>>] = row[<<"thread", k.thread>>]
      <4>1. /\ <<"thread", k.thread>> \in Name /\ k.cur # None
            /\ row[<<"thread", k.thread>>].lid = k.cur
            /\ row[<<"thread", k.thread>>].expire = k.until
        BY <3>1, <3>2, Names DEF RowsBackLeases, Locals
      <4>2. k.cur \in {s} \X (1..MaxLids)
        BY <3>1, <4>1 DEF OwnIds
      <4>3. ~GivesUp(r, m, k.cur)
        BY <2>1, <4>1, <4>2, IdsApart DEF OwnIds, GivesUp
      <4> QED BY <1>t, <3>1, <3>2, <4>1, <4>3 DEF Moves, TypeOK, Locals
    <3>3. ASSUME k.juntil > now
          PROVE  row'[<<"job", k.job>>] = row[<<"job", k.job>>]
      <4>1. /\ <<"job", k.job>> \in Name /\ k.jlock # None
            /\ row[<<"job", k.job>>].lid = k.jlock
            /\ row[<<"job", k.job>>].expire = k.juntil
        BY <3>1, <3>3, Names DEF RowsBackLeases, Locals
      <4>2. k.jlock \in {s} \X (1..MaxLids)
        BY <3>1, <4>1 DEF OwnIds
      <4>3. ~GivesUp(r, m, k.jlock)
        BY <2>1, <4>1, <4>2, IdsApart DEF OwnIds, GivesUp
      <4> QED BY <1>t, <3>1, <3>3, <4>1, <4>3 DEF Moves, TypeOK, Locals
    <3> QED BY <3>1, <3>2, <3>3 DEF RowsBackLeases
  <2>2. CASE s = r
    <3>0. now \in Nat
      BY <1>t DEF TypeOK
    <3>1. ASSUME m.until > now
          PROVE  /\ m.until = l.until /\ m.cur = l.cur /\ m.thread = l.thread
                 /\ l.cur # None
                 /\ row'[<<"thread", l.thread>>] = row[<<"thread", l.thread>>]
      <4>1. m.until = l.until /\ m.cur = l.cur /\ m.until # 0
        BY <3>0, <3>1 DEF Moves
      <4>2. /\ <<"thread", l.thread>> \in Name /\ l.cur # None
            /\ row[<<"thread", l.thread>>].lid = l.cur
            /\ row[<<"thread", l.thread>>].expire = l.until
        BY <1>1, <3>1, <4>1, Names DEF RowsBackLeases, Locals
      <4>3. ~GivesUp(r, m, l.cur)
        BY <4>1, <4>2 DEF OwnIds, GivesUp
      <4> QED BY <3>0, <3>1, <4>1, <4>2, <4>3, <1>1 DEF Moves, Locals
    <3>2. ASSUME m.juntil > now
          PROVE  /\ m.juntil = l.juntil /\ m.jlock = l.jlock /\ m.job = l.job
                 /\ l.jlock # None
                 /\ row'[<<"job", l.job>>] = row[<<"job", l.job>>]
      <4>1. m.juntil = l.juntil /\ m.jlock = l.jlock /\ m.juntil # 0
        BY <3>0, <3>2 DEF Moves
      <4>2. /\ <<"job", l.job>> \in Name /\ l.jlock # None
            /\ row[<<"job", l.job>>].lid = l.jlock
            /\ row[<<"job", l.job>>].expire = l.juntil
        BY <1>1, <3>2, <4>1, Names DEF RowsBackLeases, Locals
      <4>3. ~GivesUp(r, m, l.jlock)
        BY <4>1, <4>2 DEF OwnIds, GivesUp
      <4> QED BY <3>0, <3>2, <4>1, <4>2, <4>3, <1>1 DEF Moves, Locals
    <3> QED BY <1>1, <2>2, <3>1, <3>2 DEF RowsBackLeases
  <2> QED BY <2>1, <2>2
<1>6. Revoked'
  BY <1>1, <1>t DEF Moves, Revoked, TypeOK, Locals
<1>7. GoneWhenAgain'
  <2> SUFFICES ASSUME NEW s \in Run PROVE Again(row', run'[s])
    BY DEF GoneWhenAgain, Again, Moves
  <2>0. CASE s = r
    BY <1>1, <2>0 DEF Moves
  <2>1. CASE s # r
    <3>1. /\ Again(row, run[s]) /\ run'[s] = run[s]
          /\ <<"thread", run[s].thread>> \in Name
      BY <1>1, <1>t, <2>1, Names DEF GoneWhenAgain, Again, TypeOK, Locals
    <3>2. CASE row'[<<"thread", run[s].thread>>] = row[<<"thread", run[s].thread>>]
      BY <3>1, <3>2 DEF Again
    <3>3. CASE row'[<<"thread", run[s].thread>>] = NoRow
      BY <3>1, <3>3 DEF Again, NoRow
    <3> QED BY <3>1, <3>2, <3>3 DEF Moves
  <2> QED BY <2>0, <2>1
<1>8. LaunchesAlone'
  <2> SUFFICES ASSUME MaxThreads = 1, NEW a \in Run, NEW b \in Run,
                      Launching(run'[a]), run'[a].job = run'[b].job,
                      Executing(run'[b])
               PROVE  FALSE
    BY DEF LaunchesAlone, Launching, Executing, Moves
  <2>0. \A k : ~(Launching(k) /\ Executing(k))
    BY DEF Launching, Executing, Locking
  <2>1. /\ Executing(run[b]) /\ run'[b].job = run[b].job
    BY <1>1 DEF Moves
  <2>2. CASE Launching(run[a]) /\ run'[a].job = run[a].job
    BY <2>1, <2>2 DEF LaunchesAlone, Executing
  <2>3. CASE a = r /\ b # r /\ ~isLocked(<<"job", run'[a].job>>)
    <3>1. /\ row[<<"job", run[b].job>>].lid # None
          /\ row[<<"job", run[b].job>>].expire > now
      BY <2>1 DEF RowsBackLeases, Executing
    <3>2. row[<<"job", run[b].job>>] # NoRow
      BY <3>1 DEF NoRow
    <3> QED BY <2>1, <2>3, <3>1, <3>2 DEF isLocked
  <2> QED BY <1>1, <2>0, <2>2, <2>3 DEF Moves
<1>9. StillPending'
  <2> SUFFICES ASSUME MaxThreads = 1, NEW a \in Run, Launching(run'[a]),
                      run'[a].pc # "due", log'[run'[a].job].by = "run"
               PROVE  pending(log'[run'[a].job].start, now)
    BY DEF StillPending, Launching, pending, Moves
  <2>1. CASE a = r
    <3>1. log' = log /\ Launching(l) /\ m.job = l.job
      BY <1>1, <2>1 DEF Moves
    <3> QED BY <1>1, <2>1, <3>1 DEF Moves, StillPending
  <2>2. CASE a # r
    <3>1. run'[a] = run[a] /\ run[a].job \in Job
      BY <1>1, <1>t, <2>2 DEF TypeOK, Locals
    <3>2. ~(Executing(l) /\ run[a].job = l.job)
      BY <3>1 DEF LaunchesAlone, Executing
    <3>3. log'[run[a].job] = log[run[a].job]
      BY <3>1, <3>2 DEF Moves
    <3> QED BY <3>1, <3>3 DEF StillPending
  <2> QED BY <2>1, <2>2
<1>10. NothingLeftBehind'
  BY <1>1, <1>t DEF Moves, NothingLeftBehind
<1>11. LeaseStep
  <2>1. /\ l.cur = None => l.until = 0
        /\ l.jlock = None => l.juntil = 0
    BY DEF OwnIds
  <2>2. /\ m.until = 0 \/ (m.until = l.until /\ m.thread = l.thread)
        /\ m.juntil = 0 \/ (m.juntil = l.juntil /\ m.job = l.job)
    BY <2>1 DEF Moves
  <2> QED BY <1>1, <1>t, <2>2, ForgoStep DEF Moves
<1> QED BY <1>2, <1>3, <1>4, <1>5, <1>6, <1>7, <1>8, <1>9, <1>10, <1>11
-----------------------------------------------------------------------------
\* What the operators on locals leave alone.
Kept(m, l) ==
    /\ m.own = l.own /\ m.cur = l.cur /\ m.until = l.until
    /\ m.jlock = l.jlock /\ m.juntil = l.juntil
    /\ m.manual = l.manual /\ m.held = l.held /\ m.start = l.start

LEMMA NextJobKeeps ==
  ASSUME NEW l \in Locals
  PROVE  /\ nextJob(l) \in Locals /\ Kept(nextJob(l), l)
         /\ nextJob(l).thread = l.thread
         /\ nextJob(l).pc \in {"scheduled", "release"}
<1>1. CASE l.job < Jobs
  <2>0. l.job \in 1..Jobs /\ Jobs \in Nat
    BY UltimateCronAssumption DEF Locals, Job
  <2>1. l.job + 1 \in Job
    BY <1>1, <2>0 DEF Job
  <2> QED BY <1>1, <2>1 DEF nextJob, Locals, Kept
<1>2. CASE ~(l.job < Jobs)
  BY <1>2 DEF nextJob, Locals, Kept
<1> QED BY <1>1, <1>2

LEMMA NotScheduledKeeps ==
  ASSUME NEW l \in Locals
  PROVE  /\ notScheduled(l) \in Locals /\ Kept(notScheduled(l), l)
         /\ notScheduled(l).thread = l.thread
         /\ notScheduled(l).pc \in {"scheduled", "release", "shutdown"}
<1>1. CASE l.manual
  BY <1>1 DEF notScheduled, Locals, Kept
<1>2. CASE ~l.manual
  BY <1>2, NextJobKeeps DEF notScheduled
<1> QED BY <1>1, <1>2

LEMMA ThreadTakenKeeps ==
  ASSUME NEW l \in Locals
  PROVE  /\ threadTaken(l) \in Locals /\ Kept(threadTaken(l), l)
         /\ threadTaken(l).job = l.job
         /\ threadTaken(l).pc \in {"scheduled", "probe", "shutdown"}
<1>1. CASE l.option
  BY <1>1 DEF threadTaken, Locals, Kept
<1>2. CASE ~l.option /\ l.thread < MaxThreads
  <2>1. l.thread + 1 \in Thread
    BY <1>2, UltimateCronAssumption DEF Locals, Thread
  <2>2. threadTaken(l) = [l EXCEPT !.pc = "probe", !.thread = l.thread + 1]
    <3>1. l.thread # MaxThreads
      BY <1>2, UltimateCronAssumption DEF Locals, Thread
    <3> QED BY <1>2, <3>1 DEF threadTaken
  <2> QED BY ZenonT(60), <2>1, <2>2 DEF Locals, Kept
<1>3. CASE ~l.option /\ l.thread = MaxThreads /\ l.polls > 0
  <2>1. 1 \in Thread /\ l.polls - 1 \in 0..MaxPolls
    BY <1>3, UltimateCronAssumption DEF Locals, Thread
  <2>2. threadTaken(l) = [l EXCEPT !.pc = "probe", !.thread = 1, !.polls = l.polls - 1]
    <3>1. ~(l.thread < MaxThreads)
      BY <1>3, UltimateCronAssumption
    <3> QED BY <1>3, <3>1 DEF threadTaken
  <2> QED BY ZenonT(60), <2>1, <2>2 DEF Locals, Kept
<1>4. CASE ~l.option /\ ~(l.thread < MaxThreads) /\ ~(l.thread = MaxThreads /\ l.polls > 0)
  BY <1>4 DEF threadTaken, Locals, Kept
<1> QED BY <1>1, <1>2, <1>3, <1>4

LEMMA LockKeeps ==
  ASSUME NEW l \in Locals, NEW goal \in {"thread", "job", "again"}
  PROVE  /\ lock(l, goal) \in Locals /\ Kept(lock(l, goal), l)
         /\ lock(l, goal).thread = l.thread /\ lock(l, goal).job = l.job
         /\ lock(l, goal).pc = "select" /\ lock(l, goal).goal = goal
  BY DEF lock, Locals, Kept

LEMMA Bounds ==
    /\ MaxPolls \in 0..MaxPolls /\ 0 \in 0..MaxPolls
    /\ MaxFails \in Nat
    /\ 1 \in Thread /\ 1 \in Job
    /\ JobTime \in Nat /\ ThreadTime \in Nat /\ AgainTime \in Nat
<1>1. MaxPolls \in Nat /\ MaxFails \in Nat
  BY UltimateCronAssumption
<1> QED BY <1>1, UltimateCronAssumption DEF Thread, Job

LEMMA OffLocals == Off \in Locals
  BY Bounds DEF Off, Locals

\* What a process holds remains, or its lease is revoked.
Holds(m, l) ==
    /\ m.own \in {l.own, None}
    /\ m.cur = l.cur /\ m.until \in {l.until, 0}
    /\ m.jlock = l.jlock /\ m.juntil \in {l.juntil, 0}

LEMMA GotoFacts ==
  ASSUME TypeOK, NEW r \in Run, NEW k \in Locals, Goto(r, k)
  PROVE  /\ run'[r] \in Locals /\ run' = [run EXCEPT ![r] = run'[r]]
         /\ Kept(run'[r], k) /\ run'[r].pc = k.pc
         /\ run'[r].thread = k.thread /\ run'[r].job = k.job
         /\ run'[r].seen = k.seen
         /\ k.pc = "expire" => run'[r].at = now
         /\ run'[r].goal = IF k.pc \in Locking THEN k.goal ELSE "thread"
<1> DEFINE a == IF k.pc \in {"expire", "insert", "callback"} THEN now ELSE 0
           g == IF k.pc \in {"select", "expire", "insert"} THEN k.goal ELSE "thread"
           m == [k EXCEPT !.at = a, !.goal = g]
<1>1. run' = [run EXCEPT ![r] = m] /\ run'[r] = m
  BY DEF Goto, TypeOK
<1>2. m \in Locals
  <2>1. a \in Nat /\ g \in {"thread", "job", "again"}
    BY DEF TypeOK, Locals
  <2> HIDE DEF a, g
  <2> QED BY <2>1 DEF Locals
<1> QED BY <1>1, <1>2 DEF Kept, Locals, Locking, TypeOK

\* A process goes on with the locks it has, and the tables are not touched.
LEMMA KeepMoves ==
  ASSUME NEW r \in Run, NEW k \in Locals, Inv, Goto(r, k), Holds(k, run[r]),
         UNCHANGED <<now, row, log, admin>>, fails' \in 0..MaxFails,
         k.thread = run[r].thread \/ run[r].cur = None,
         k.job = run[r].job \/ run[r].jlock = None,
         Ids(k),
         k.pc \in Locking /\ k.goal = "again" => Again(row, run'[r]),
         k.pc \notin {"callback", "finish"},
         Launching(k) =>
           \/ Launching(run[r]) /\ k.job = run[r].job
           \/ k.pc = "due" /\ ~isLocked(<<"job", k.job>>),
         Launching(k) /\ k.pc # "due" =>
           run[r].pc # "due" \/ pending(log[k.job].start, now)
  PROVE  Inv' /\ LeaseStep
<1> DEFINE m == run'[r]
<1>1. /\ m \in Locals /\ run' = [run EXCEPT ![r] = m]
      /\ Kept(m, k) /\ m.pc = k.pc /\ m.thread = k.thread /\ m.job = k.job
      /\ m.goal = IF k.pc \in Locking THEN k.goal ELSE "thread"
  BY GotoFacts DEF Inv
<1>2. Holds(m, run[r])
  BY <1>1 DEF Kept, Holds
<1>3. Launching(m) <=> Launching(k)
  BY <1>1 DEF Launching, Kept
<1>4. Ids(m)
  BY <1>1 DEF Ids, Kept
<1>5. Again(row, m)
  BY <1>1 DEF Again, Locking
<1>6. ~Executing(m)
  BY <1>1 DEF Executing
<1>7. Moves(r, m)
  BY <1>1, <1>2, <1>3, <1>4, <1>5, <1>6 DEF Moves, Holds, Inv, TypeOK, Rows
<1> QED BY <1>7, MovesInv

-----------------------------------------------------------------------------
\* One lemma per action.
LEMMA FirstMoves ==
  ASSUME NEW r \in Run, NEW k \in Locals, Inv, run[r].pc = "off", Goto(r, k),
         UNCHANGED <<now, row, log, admin, fails>>,
         k.own = None, k.cur = None, k.until = 0, k.jlock = None, k.juntil = 0,
         \/ k.pc = "probe"
         \/ k.manual /\ k.pc \in {"select", "scheduled"} /\ k.goal = "job"
  PROVE  Inv' /\ LeaseStep
<1>1. Holds(k, run[r])
  BY DEF Inv, OwnIds, Holds
<1>2. run[r].cur = None /\ run[r].jlock = None
  BY DEF Inv, OwnIds
<1> QED BY <1>1, <1>2, KeepMoves DEF Ids, Launching, Inv, TypeOK, Locking

LEMMA StartInv ==
  ASSUME NEW r \in Run, Inv, Start(r)
  PROVE  Inv' /\ LeaseStep
<1> DEFINE k == [Off EXCEPT !.pc = "probe", !.polls = MaxPolls]
<1>1. k \in Locals
  BY OffLocals, Bounds DEF Locals
<1>2. k.own = None /\ k.cur = None /\ k.until = 0 /\ k.jlock = None /\ k.juntil = 0
      /\ k.pc = "probe"
  BY DEF Off
<1> HIDE DEF k
<1> QED BY <1>1, <1>2, FirstMoves DEF Start, k

LEMMA StartThreadInv ==
  ASSUME NEW r \in Run, NEW t \in Thread, Inv, StartThread(r, t)
  PROVE  Inv' /\ LeaseStep
<1> DEFINE k == [Off EXCEPT !.pc = "probe", !.thread = t, !.option = TRUE]
<1>1. k \in Locals
  BY OffLocals DEF Locals
<1>2. k.own = None /\ k.cur = None /\ k.until = 0 /\ k.jlock = None /\ k.juntil = 0
      /\ k.pc = "probe"
  BY DEF Off
<1> QED BY <1>1, <1>2, FirstMoves DEF StartThread

LEMMA RunCronJobInv ==
  ASSUME NEW r \in Run, NEW j \in Job, Inv, RunCronJob(r, j)
  PROVE  Inv' /\ LeaseStep
<1> PICK s \in {"select", "scheduled"} :
      Goto(r, [Off EXCEPT !.pc = s, !.manual = TRUE, !.job = j, !.goal = "job"])
  BY DEF RunCronJob
<1> DEFINE k == [Off EXCEPT !.pc = s, !.manual = TRUE, !.job = j, !.goal = "job"]
<1>1. k \in Locals
  BY OffLocals DEF Locals
<1>2. k.own = None /\ k.cur = None /\ k.until = 0 /\ k.jlock = None /\ k.juntil = 0
      /\ k.manual /\ k.pc = s /\ k.goal = "job"
  BY DEF Off
<1> QED BY <1>1, <1>2, FirstMoves DEF RunCronJob

LEMMA ProbeInv ==
  ASSUME NEW r \in Run, Inv, Probe(r)
  PROVE  Inv' /\ LeaseStep
<1> DEFINE l == run[r]
<1>1. /\ l \in Locals /\ l.pc = "probe" /\ l.cur = None /\ l.jlock = None
      /\ UNCHANGED <<now, row, log, admin, fails>> /\ fails' \in 0..MaxFails
  BY DEF Probe, Inv, OwnIds, TypeOK
<1>2. CASE isLocked(<<"thread", l.thread>>)
  <2>1. Goto(r, threadTaken(l))
    BY <1>2 DEF Probe
  <2>2. /\ Holds(threadTaken(l), l) /\ Ids(threadTaken(l)) /\ ~Launching(threadTaken(l))
    BY <1>1, ThreadTakenKeeps DEF Kept, Holds, Ids, Launching, Locking
  <2> QED BY <1>1, <2>1, <2>2, ThreadTakenKeeps, KeepMoves DEF Locking
<1>3. CASE ~isLocked(<<"thread", l.thread>>)
  <2>1. Goto(r, lock(l, "thread"))
    BY <1>3 DEF Probe
  <2>2. /\ Holds(lock(l, "thread"), l) /\ Ids(lock(l, "thread")) /\ ~Launching(lock(l, "thread"))
    BY <1>1, LockKeeps DEF Kept, Holds, Ids, Launching, Locking
  <2> QED BY <1>1, <2>1, <2>2, LockKeeps, KeepMoves DEF Locking
<1> QED BY <1>2, <1>3

LEMMA SelectInv ==
  ASSUME NEW r \in Run, Inv, Select(r)
  PROVE  Inv' /\ LeaseStep
<1> DEFINE l == run[r]
           n == LockName(l)
           k == [l EXCEPT !.seen = row[n].lid,
                          !.pc = IF row[n] = NoRow THEN "insert" ELSE "expire"]
<1>1. /\ l \in Locals /\ l.pc = "select" /\ Goto(r, k)
      /\ UNCHANGED <<now, row, log, admin, fails>> /\ fails' \in 0..MaxFails
  BY DEF Select, Inv, OwnIds, TypeOK
<1>2. n \in Name
  BY <1>1, Names DEF LockName, Locals
<1>3. k \in Locals
  <2>1. row[n].lid \in Lid \cup {None}
    BY <1>2 DEF Inv, TypeOK, NoRow
  <2> QED BY ZenonT(60), <1>1, <2>1 DEF Locals
<1>4. /\ Kept(k, l) /\ k.thread = l.thread /\ k.job = l.job /\ k.goal = l.goal
      /\ k.pc \in {"insert", "expire"} /\ k.seen = row[n].lid
      /\ k.pc = "insert" => row[n] = NoRow
  BY <1>1 DEF Locals, Kept
<1> HIDE DEF k
<1>5. k.goal = "again" => Again(row, run'[r])
  <2>1. l.goal = "again" => n = <<"thread", l.thread>>
    BY DEF LockName
  <2>2. l.goal = "again" => Again(row, l)
    BY DEF Inv, GoneWhenAgain, Again
  <2>3. NoRow.lid = None
    BY DEF NoRow
  <2> QED BY <1>1, <1>3, <1>4, <2>1, <2>2, <2>3, GotoFacts DEF Inv, Again, Kept
<1>6. /\ Holds(k, l) /\ Ids(k) /\ (Launching(k) => Launching(l))
  BY <1>1, <1>4 DEF Kept, Holds, Ids, Launching, Locking, Inv, OwnIds
<1> QED BY <1>1, <1>3, <1>4, <1>5, <1>6, KeepMoves

LEMMA ScheduledInv ==
  ASSUME NEW r \in Run, Inv, Scheduled(r)
  PROVE  Inv' /\ LeaseStep
<1> DEFINE l == run[r]
<1>1. /\ l \in Locals /\ l.pc = "scheduled" /\ l.jlock = None
      /\ UNCHANGED <<now, row, log, admin, fails>> /\ fails' \in 0..MaxFails
  BY DEF Scheduled, Inv, OwnIds, TypeOK
<1>2. CASE Goto(r, notScheduled(l))
  <2>2. /\ Holds(notScheduled(l), l) /\ Ids(notScheduled(l)) /\ ~Launching(notScheduled(l))
    BY <1>1, NotScheduledKeeps DEF Kept, Holds, Ids, Launching, Locking
  <2> QED BY <1>1, <1>2, <2>2, NotScheduledKeeps, KeepMoves DEF Locking
<1>3. CASE ~isLocked(<<"job", l.job>>) /\ Goto(r, [l EXCEPT !.pc = "due"])
  <2> DEFINE k == [l EXCEPT !.pc = "due"]
  <2>1. k \in Locals /\ Kept(k, l) /\ k.thread = l.thread /\ k.job = l.job /\ k.pc = "due"
    BY <1>1 DEF Locals, Kept
  <2> HIDE DEF k
  <2>2. /\ Holds(k, l) /\ Ids(k)
    BY <1>1, <2>1 DEF Kept, Holds, Ids, Locking
  <2> QED BY <1>1, <1>3, <2>1, <2>2, KeepMoves DEF Locking, k
<1> QED BY <1>2, <1>3 DEF Scheduled

LEMMA DueInv ==
  ASSUME NEW r \in Run, Inv, Due(r)
  PROVE  Inv' /\ LeaseStep
<1> DEFINE l == run[r]
<1>1. /\ l \in Locals /\ l.pc = "due" /\ l.jlock = None
      /\ UNCHANGED <<now, row, log, admin, fails>> /\ fails' \in 0..MaxFails
  BY DEF Due, Inv, OwnIds, TypeOK
<1>2. CASE Goto(r, notScheduled(l))
  <2>2. /\ Holds(notScheduled(l), l) /\ Ids(notScheduled(l)) /\ ~Launching(notScheduled(l))
    BY <1>1, NotScheduledKeeps DEF Kept, Holds, Ids, Launching, Locking
  <2> QED BY <1>1, <1>2, <2>2, NotScheduledKeeps, KeepMoves DEF Locking
<1>3. CASE shouldRun(log[l.job].start, now) /\ Goto(r, lock(l, "job"))
  <2>1. pending(log[l.job].start, now)
    BY <1>3 DEF shouldRun, pending
  <2>2. /\ Holds(lock(l, "job"), l) /\ Ids(lock(l, "job"))
        /\ Launching(lock(l, "job")) => Launching(l)
    BY <1>1, LockKeeps DEF Kept, Holds, Ids, Launching, Locking
  <2> QED BY <1>1, <1>3, <2>1, <2>2, LockKeeps, KeepMoves DEF Locking
<1> QED BY <1>2, <1>3 DEF Due

LEMMA CheckInv ==
  ASSUME NEW r \in Run, Inv, Check(r)
  PROVE  Inv' /\ LeaseStep
<1> DEFINE l == run[r]
           n == <<"thread", l.thread>>
<1>1. /\ l \in Locals /\ l.pc = "check" /\ l.jlock = None
      /\ UNCHANGED <<now, row, log, admin, fails>> /\ fails' \in 0..MaxFails
  BY DEF Check, Inv, OwnIds, TypeOK
<1>2. CASE ~isLocked(n) /\ Goto(r, lock(l, "again"))
  <2>1. Again(row, run'[r])
    <3>1. row[n] = NoRow \/ row[n].expire <= now
      BY <1>1, <1>2, Names DEF isLocked, Inv, TypeOK, Locals
    <3>2. NoRow.lid = None
      BY DEF NoRow
    <3> QED BY <1>1, <1>2, <3>1, <3>2, LockKeeps, GotoFacts DEF Inv, Again, Kept
  <2>2. /\ Holds(lock(l, "again"), l) /\ Ids(lock(l, "again"))
        /\ ~Launching(lock(l, "again"))
    BY <1>1, LockKeeps DEF Kept, Holds, Ids, Launching, Locking
  <2> QED BY <1>1, <1>2, <2>1, <2>2, LockKeeps, KeepMoves
<1>3. CASE Goto(r, [l EXCEPT !.pc = "release"])
  <2> DEFINE k == [l EXCEPT !.pc = "release"]
  <2>1. k \in Locals /\ Kept(k, l) /\ k.thread = l.thread /\ k.job = l.job /\ k.pc = "release"
    BY <1>1 DEF Locals, Kept
  <2> HIDE DEF k
  <2>2. /\ Holds(k, l) /\ Ids(k) /\ ~Launching(k)
    BY <1>1, <2>1 DEF Kept, Holds, Ids, Locking, Launching
  <2> QED BY <1>1, <1>3, <2>1, <2>2, KeepMoves DEF Locking, k
<1>4. CASE Goto(r, nextJob(l))
  <2>2. /\ Holds(nextJob(l), l) /\ Ids(nextJob(l)) /\ ~Launching(nextJob(l))
    BY <1>1, NextJobKeeps DEF Kept, Holds, Ids, Launching, Locking
  <2> QED BY <1>1, <1>4, <2>2, NextJobKeeps, KeepMoves DEF Locking
<1> QED BY <1>2, <1>3, <1>4 DEF Check

LEMMA FatalInv ==
  ASSUME NEW r \in Run, Inv, Fatal(r)
  PROVE  Inv' /\ LeaseStep
<1> DEFINE l == run[r]
<1>1. /\ l \in Locals /\ l.pc \notin Ending
      /\ UNCHANGED <<now, row, log, admin>> /\ fails' \in 0..MaxFails
  BY Bounds DEF Fatal, Fail, Inv, TypeOK
<1>2. PICK s \in Nat : Goto(r, [l EXCEPT !.pc = "shutdown", !.seen = None, !.start = s])
  <2>1. (IF l.pc = "callback" THEN Clock(r) ELSE {l.start}) \subseteq Nat
    BY <1>1 DEF Clock, Inv, TypeOK, Locals
  <2> QED BY <2>1 DEF Fatal
<1> DEFINE k == [l EXCEPT !.pc = "shutdown", !.seen = None, !.start = s]
<1>3. /\ k \in Locals /\ k.thread = l.thread /\ k.job = l.job /\ k.pc = "shutdown"
      /\ Holds(k, l)
  BY <1>1 DEF Locals, Holds
<1> HIDE DEF k
<1>4. /\ Ids(k) /\ ~Launching(k)
  BY <1>1, <1>3 DEF Holds, Ids, Launching, Locking
<1> QED BY <1>1, <1>2, <1>3, <1>4, KeepMoves DEF Locking, k

LEMMA Updates ==
  ASSUME NEW l \in Locals
  PROVE  /\ [l EXCEPT !.juntil = 0] \in Locals
         /\ [l EXCEPT !.pc = "shutdownLog", !.jlock = None, !.juntil = 0] \in Locals
         /\ [l EXCEPT !.pc = "release", !.cur = None, !.until = 0] \in Locals
         /\ \A c \in Lid \cup {None}, u \in Nat :
              [l EXCEPT !.pc = "shutdown", !.own = None, !.cur = c, !.until = u] \in Locals
  BY ZenonT(60) DEF Locals

LEMMA UnlockFacts ==
  ASSUME NEW lid, TypeOK, row' = unlock(lid)
  PROVE  /\ row' \in [Name -> Rows \cup {NoRow}]
         /\ \A n \in Name : \/ row'[n] = row[n] /\ row[n].lid # lid
                            \/ row'[n] = NoRow /\ row[n].lid = lid
  BY DEF unlock, TypeOK, Rows

LEMMA ExpireInv ==
  ASSUME NEW r \in Run, Inv, Expire(r)
  PROVE  Inv' /\ LeaseStep
<1> DEFINE l == run[r]
           n == LockName(l)
           k == [l EXCEPT !.pc = "insert", !.seen = None]
           m == run'[r]
<1>1. /\ TypeOK /\ l \in Locals /\ l.pc = "expire" /\ Goto(r, k)
      /\ UNCHANGED <<now, log, admin, fails>> /\ fails' \in 0..MaxFails
  BY DEF Expire, Inv, TypeOK
<1>2. n \in Name
  BY <1>1, Names DEF LockName, Locals
<1>3. PICK t \in Clock(r) :
        row' = IF stillExpired(row[n], l.seen, t) THEN [row EXCEPT ![n] = NoRow] ELSE row
  BY DEF Expire
<1>4. t \in Nat /\ t <= now /\ l.at <= t /\ now \in Nat
  BY <1>1 DEF Clock, TypeOK, Locals
<1>5. /\ row' \in [Name -> Rows \cup {NoRow}]
      /\ \A x \in Name : row'[x] = row[x] \/ (row'[x] = NoRow /\ row[x].expire <= now)
  BY <1>1, <1>2, <1>3, <1>4 DEF TypeOK, Rows, stillExpired, NoRow
<1>6. /\ k \in Locals /\ k.thread = l.thread /\ k.job = l.job /\ k.pc = "insert"
      /\ k.goal = l.goal /\ Kept(k, l)
  BY <1>1 DEF Locals, Kept
<1> HIDE DEF k
<1>7. /\ m \in Locals /\ run' = [run EXCEPT ![r] = m]
      /\ Kept(m, l) /\ m.pc = "insert" /\ m.thread = l.thread /\ m.job = l.job
      /\ m.goal = l.goal
  BY <1>1, <1>6, GotoFacts DEF Kept, Locking
<1>8. Again(row', m)
  <2> SUFFICES ASSUME l.goal = "again", l.cur # None,
                      row'[<<"thread", l.thread>>].lid = l.cur
               PROVE  FALSE
    BY <1>7 DEF Again, Kept
  <2>1. n = <<"thread", l.thread>>
    BY DEF LockName
  <2>2. row'[n] # NoRow
    BY <2>1 DEF NoRow
  <2>3. row[n].lid = l.cur /\ row[n] = row'[n]
    BY <1>2, <1>5, <2>1, <2>2
  <2>4. l.seen = l.cur /\ row[n].expire <= l.at
    BY <1>1, <2>1, <2>3 DEF Inv, GoneWhenAgain
  <2>5. row[n].expire \in Nat /\ l.at \in Nat
    BY <1>1, <1>2, <2>2, <2>3 DEF TypeOK, Locals
  <2>6. stillExpired(row[n], l.seen, t)
    BY <1>4, <2>3, <2>4, <2>5 DEF stillExpired
  <2> QED BY <1>1, <1>2, <1>3, <2>2, <2>6 DEF TypeOK
<1>9. /\ Ids(m) /\ ~Executing(m) /\ (Launching(m) => Launching(l)) /\ l.pc # "due"
  BY <1>1, <1>7 DEF Kept, Ids, Executing, Launching, Locking, Inv, OwnIds
<1>10. Moves(r, m)
  BY <1>1, <1>5, <1>7, <1>8, <1>9 DEF Moves, Kept, TypeOK
<1> QED BY <1>10, MovesInv

LEMMA CallbackInv ==
  ASSUME NEW r \in Run, Inv, Callback(r)
  PROVE  Inv' /\ LeaseStep
<1> DEFINE l == run[r]
           m == run'[r]
<1>1. /\ TypeOK /\ l \in Locals /\ l.pc = "callback"
      /\ UNCHANGED <<now, log, admin, fails>> /\ fails' \in 0..MaxFails
  BY DEF Callback, Inv, TypeOK
<1>2. PICK s, t \in Clock(r) :
        /\ row' = IF l.job = CleanupJob THEN cleanup(t) ELSE row
        /\ Goto(r, [l EXCEPT !.pc = "finish", !.start = s])
  BY DEF Callback
<1> DEFINE k == [l EXCEPT !.pc = "finish", !.start = s]
<1>4. s \in Nat /\ t \in Nat /\ t <= now /\ now \in Nat
  BY <1>1 DEF Clock, TypeOK, Locals
<1>5. /\ row' \in [Name -> Rows \cup {NoRow}]
      /\ \A x \in Name : row'[x] = row[x] \/ (row'[x] = NoRow /\ row[x].expire <= now)
  BY <1>1, <1>2, <1>4 DEF TypeOK, Rows, cleanup, NoRow
<1>6. /\ k \in Locals /\ k.thread = l.thread /\ k.job = l.job /\ k.pc = "finish"
      /\ k.own = l.own /\ k.cur = l.cur /\ k.until = l.until
      /\ k.jlock = l.jlock /\ k.juntil = l.juntil /\ k.held = l.held
  BY <1>1, <1>4 DEF Locals
<1>f. Goto(r, k)
  BY <1>2
<1> HIDE DEF k
<1>7. /\ m \in Locals /\ run' = [run EXCEPT ![r] = m]
      /\ Kept(m, k) /\ m.pc = "finish" /\ m.thread = l.thread /\ m.job = l.job
      /\ m.goal = "thread"
  BY <1>1, <1>f, <1>6, GotoFacts DEF Locking
<1>9. /\ Ids(m) /\ Again(row', m) /\ ~Launching(m) /\ (Executing(m) => Executing(l))
  BY <1>1, <1>6, <1>7 DEF Kept, Ids, Again, Executing, Launching, Locking
<1>10. Moves(r, m)
  BY <1>1, <1>5, <1>6, <1>7, <1>9 DEF Moves, Kept, TypeOK
<1> QED BY <1>10, MovesInv

LEMMA LoggedFacts ==
  ASSUME TypeOK, NEW l \in Locals, NEW by \in {"run", "other"}, log' = logged(l, by)
  PROVE  /\ log' \in [Job -> [start : Nat, by : {"run", "other"}]]
         /\ \A j \in Job : \/ log'[j] = log[j]
                           \/ j = l.job /\ log'[j].by = by
  BY DEF logged, TypeOK, Locals

LEMMA FinishInv ==
  ASSUME NEW r \in Run, Inv, Finish(r)
  PROVE  Inv' /\ LeaseStep
<1> DEFINE l == run[r]
           m == run'[r]
           k == [l EXCEPT !.pc = "unlock", !.start = 0]
           by == IF ~l.manual /\ l.held /\ l.juntil > now THEN "run" ELSE "other"
<1>1. /\ TypeOK /\ l \in Locals /\ l.pc = "finish" /\ Goto(r, k) /\ log' = logged(l, by)
      /\ UNCHANGED <<now, row, admin, fails>> /\ fails' \in 0..MaxFails
      /\ row' \in [Name -> Rows \cup {NoRow}]
  BY DEF Finish, Inv, TypeOK, Rows
<1>2. by \in {"run", "other"} /\ (by = "run" => Executing(l))
  BY <1>1 DEF Executing
<1> HIDE DEF by
<1>3. /\ log' \in [Job -> [start : Nat, by : {"run", "other"}]]
      /\ \A j \in Job : \/ log'[j] = log[j] \/ log'[j].by = "other"
                        \/ Executing(l) /\ j = l.job
  BY <1>1, <1>2, LoggedFacts
<1>6. /\ k \in Locals /\ k.thread = l.thread /\ k.job = l.job /\ k.pc = "unlock"
      /\ Holds(k, l)
  BY <1>1 DEF Locals, Holds
<1> HIDE DEF k
<1>7. /\ m \in Locals /\ run' = [run EXCEPT ![r] = m]
      /\ Holds(m, l) /\ m.pc = "unlock" /\ m.thread = l.thread /\ m.job = l.job
      /\ m.goal = "thread"
  BY <1>1, <1>6, GotoFacts DEF Locking, Kept, Holds
<1>9. /\ Ids(m) /\ Again(row', m) /\ ~Launching(m) /\ ~Executing(m)
  BY <1>7 DEF Ids, Again, Executing, Launching, Locking
<1>10. Moves(r, m)
  BY <1>1, <1>3, <1>7, <1>9 DEF Moves, Holds
<1> QED BY <1>10, MovesInv

LEMMA UnlockInv ==
  ASSUME NEW r \in Run, Inv, Unlock(r)
  PROVE  Inv' /\ LeaseStep
<1> DEFINE l == run[r]
           m == run'[r]
           k == [l EXCEPT !.jlock = None, !.juntil = 0, !.held = FALSE,
                          !.pc = IF l.manual THEN "shutdown" ELSE "check"]
<1>1. /\ TypeOK /\ l \in Locals /\ l.pc = "unlock" /\ row' = unlock(l.jlock) /\ Goto(r, k)
      /\ UNCHANGED <<now, log, admin, fails>> /\ fails' \in 0..MaxFails
  BY DEF Unlock, Inv, TypeOK
<1>6. /\ k \in Locals /\ k.thread = l.thread /\ k.job = l.job /\ k.pc \in {"check", "shutdown"}
      /\ k.own = l.own /\ k.cur = l.cur /\ k.until = l.until
      /\ k.jlock = None /\ k.juntil = 0
  BY ZenonT(60), <1>1 DEF Locals
<1> HIDE DEF k
<1>7. /\ m \in Locals /\ run' = [run EXCEPT ![r] = m]
      /\ Kept(m, k) /\ m.pc = k.pc /\ m.thread = l.thread /\ m.job = l.job
      /\ m.goal = "thread"
  BY <1>1, <1>6, GotoFacts DEF Locking
<1>9. /\ Ids(m) /\ Again(row', m) /\ ~Launching(m) /\ ~Executing(m)
  BY <1>6, <1>7 DEF Kept, Ids, Again, Executing, Launching, Locking
<1>10. /\ row' \in [Name -> Rows \cup {NoRow}]
       /\ \A n \in Name : \/ row'[n] = row[n] /\ row[n].lid # l.jlock
                          \/ row'[n] = NoRow /\ row[n].lid = l.jlock
  BY <1>1, UnlockFacts
<1>11. \A n \in Name : row'[n] = row[n] \/ (row'[n] = NoRow /\ GivesUp(r, m, row[n].lid))
  BY <1>6, <1>7, <1>10 DEF GivesUp, Kept
<1>12. Moves(r, m)
  BY <1>1, <1>6, <1>7, <1>9, <1>10, <1>11 DEF Moves, Kept, TypeOK
<1> QED BY <1>12, MovesInv

LEMMA ReleaseInv ==
  ASSUME NEW r \in Run, Inv, Release(r)
  PROVE  Inv' /\ LeaseStep
<1> DEFINE l == run[r]
           m == run'[r]
           c == IF l.cur = l.own THEN None ELSE l.cur
           u == IF l.cur = l.own THEN 0 ELSE l.until
           k == [l EXCEPT !.pc = "shutdown", !.own = None, !.cur = c, !.until = u]
<1>1. /\ TypeOK /\ l \in Locals /\ l.pc = "release" /\ row' = unlock(l.own) /\ Goto(r, k)
      /\ UNCHANGED <<now, log, admin, fails>> /\ fails' \in 0..MaxFails
      /\ l.jlock = None
  BY DEF Release, Inv, TypeOK, OwnIds
<1>6. /\ k \in Locals /\ k.thread = l.thread /\ k.job = l.job /\ k.pc = "shutdown"
      /\ k.own = None /\ k.jlock = l.jlock /\ k.juntil = l.juntil
      /\ l.cur = l.own => k.cur = None /\ k.until = 0
      /\ l.cur # l.own => k.cur = l.cur /\ k.until = l.until
  <2>1. /\ c \in Lid \cup {None} /\ u \in Nat
        /\ l.cur = l.own => c = None /\ u = 0
        /\ l.cur # l.own => c = l.cur /\ u = l.until
    BY <1>1 DEF Locals
  <2> HIDE DEF c, u
  <2>2. k \in Locals
    BY <1>1, <2>1, Updates
  <2>3. /\ k.thread = l.thread /\ k.job = l.job /\ k.pc = "shutdown"
        /\ k.own = None /\ k.jlock = l.jlock /\ k.juntil = l.juntil
        /\ k.cur = c /\ k.until = u
    BY <1>1 DEF Locals
  <2> QED BY <2>1, <2>2, <2>3
<1> HIDE DEF k
<1>7. /\ m \in Locals /\ run' = [run EXCEPT ![r] = m]
      /\ Kept(m, k) /\ m.pc = k.pc /\ m.thread = l.thread /\ m.job = l.job
      /\ m.goal = "thread"
  BY <1>1, <1>6, GotoFacts DEF Locking
<1>9. /\ Ids(m) /\ Again(row', m) /\ ~Launching(m) /\ ~Executing(m)
  BY <1>1, <1>6, <1>7 DEF Kept, Ids, Again, Executing, Launching, Locking
<1>10. /\ row' \in [Name -> Rows \cup {NoRow}]
       /\ \A n \in Name : \/ row'[n] = row[n] /\ row[n].lid # l.own
                          \/ row'[n] = NoRow /\ row[n].lid = l.own
  BY <1>1, UnlockFacts
<1>11. \A n \in Name : row'[n] = row[n] \/ (row'[n] = NoRow /\ GivesUp(r, m, row[n].lid))
  <2> SUFFICES ASSUME NEW n \in Name, row'[n] # row[n] PROVE GivesUp(r, m, row[n].lid)
    BY <1>10
  <2>1. row[n].lid = l.own /\ row[n] # NoRow
    BY <1>10
  <2>2. row[n].lid # None
    BY <1>1, <2>1, UltimateCronAssumption DEF TypeOK
  <2> QED BY <1>1, <1>6, <1>7, <2>1, <2>2 DEF GivesUp, Kept
<1>12. Moves(r, m)
  BY <1>1, <1>6, <1>7, <1>9, <1>10, <1>11 DEF Moves, Kept, TypeOK
<1> QED BY <1>12, MovesInv

LEMMA OverFacts ==
  ASSUME TypeOK, NEW r \in Run, Over(r)
  PROVE  /\ run' = [run EXCEPT ![r] = Off] /\ Off \in Locals
         /\ Off.pc = "off" /\ Off.own = None /\ Off.cur = None /\ Off.until = 0
         /\ Off.jlock = None /\ Off.juntil = 0 /\ Off.goal = "thread"
         /\ Ids(Off) /\ Again(row', Off) /\ ~Launching(Off) /\ ~Executing(Off)
<1>1. /\ Off.pc = "off" /\ Off.own = None /\ Off.cur = None /\ Off.until = 0
      /\ Off.jlock = None /\ Off.juntil = 0 /\ Off.goal = "thread"
  BY DEF Off
<1>2. Ids(Off) /\ Again(row', Off) /\ ~Launching(Off) /\ ~Executing(Off)
  BY <1>1 DEF Ids, Again, Launching, Executing, Locking
<1> QED BY <1>1, <1>2, OffLocals DEF Over

\* A process that ends has released the rows it had.
LEMMA OverMoves ==
  ASSUME NEW r \in Run, Inv, Over(r),
         UNCHANGED <<now, admin, fails>>,
         log' \in [Job -> [start : Nat, by : {"run", "other"}]],
         \A j \in Job : log'[j] = log[j] \/ log'[j].by = "other",
         run[r].cur = None \/ run[r].jlock = None,
         \/ row' = unlock(run[r].cur) /\ run[r].jlock = None
         \/ row' = unlock(run[r].jlock) /\ run[r].cur = None
  PROVE  Inv' /\ LeaseStep
<1> DEFINE l == run[r]
<1>1. TypeOK /\ l \in Locals /\ fails' \in 0..MaxFails
  BY DEF Inv, TypeOK
<1>2. PICK lid \in {l.cur, l.jlock} : row' = unlock(lid) /\ {l.cur, l.jlock} \subseteq {lid, None}
  OBVIOUS
<1>3. /\ row' \in [Name -> Rows \cup {NoRow}]
      /\ \A n \in Name : \/ row'[n] = row[n] /\ row[n].lid # lid
                         \/ row'[n] = NoRow /\ row[n].lid = lid
  BY <1>1, <1>2, UnlockFacts
<1>4. \A n \in Name : row'[n] # NoRow =>
         /\ row'[n].lid = l.cur => Off.cur = l.cur
         /\ row'[n].lid = l.jlock => Off.jlock = l.jlock
  <2> SUFFICES ASSUME NEW n \in Name, row'[n] # NoRow
               PROVE  row'[n].lid \notin {l.cur, l.jlock}
    OBVIOUS
  <2>1. row'[n].lid # None
    BY <1>3, UltimateCronAssumption DEF Rows
  <2> QED BY <1>2, <1>3, <2>1
<1>5. Off.until = 0 /\ Off.juntil = 0
  BY DEF Off
<1>6. \A n \in Name :
         \/ row'[n] = row[n]
         \/ row'[n] = NoRow /\ GivesUp(r, Off, row[n].lid)
  BY <1>2, <1>3, <1>5 DEF GivesUp
<1>8. Moves(r, Off)
  BY <1>1, <1>3, <1>4, <1>6, OverFacts DEF Moves
<1> QED BY <1>8, MovesInv

LEMMA ShutdownInv ==
  ASSUME NEW r \in Run, Inv, Shutdown(r)
  PROVE  Inv' /\ LeaseStep
<1> DEFINE l == run[r]
           m == run'[r]
           k == [l EXCEPT !.pc = "shutdownJob", !.own = None, !.cur = None, !.until = 0]
<1>1. /\ TypeOK /\ l \in Locals /\ l.pc = "shutdown" /\ row' = unlock(l.cur)
      /\ UNCHANGED <<now, log, admin, fails>> /\ fails' \in 0..MaxFails
      /\ log' \in [Job -> [start : Nat, by : {"run", "other"}]]
  BY DEF Shutdown, Inv, TypeOK
<1>2. CASE l.jlock = None /\ Over(r)
  BY <1>1, <1>2, OverMoves
<1>3. CASE Goto(r, k)
  <2>6. /\ k \in Locals /\ k.thread = l.thread /\ k.job = l.job /\ k.pc = "shutdownJob"
        /\ k.own = None /\ k.cur = None /\ k.until = 0
        /\ k.jlock = l.jlock /\ k.juntil = l.juntil
    BY <1>1 DEF Locals
  <2> HIDE DEF k
  <2>7. /\ m \in Locals /\ run' = [run EXCEPT ![r] = m]
        /\ Kept(m, k) /\ m.pc = k.pc /\ m.thread = l.thread /\ m.job = l.job
        /\ m.goal = "thread"
    BY <1>1, <1>3, <2>6, GotoFacts DEF Locking
  <2>9. /\ Ids(m) /\ Again(row', m) /\ ~Launching(m) /\ ~Executing(m)
    BY <1>1, <2>6, <2>7 DEF Kept, Ids, Again, Executing, Launching, Locking
  <2>10. /\ row' \in [Name -> Rows \cup {NoRow}]
         /\ \A n \in Name : \/ row'[n] = row[n] /\ row[n].lid # l.cur
                            \/ row'[n] = NoRow /\ row[n].lid = l.cur
    BY <1>1, UnlockFacts
  <2>11. \A n \in Name : row'[n] = row[n] \/ (row'[n] = NoRow /\ GivesUp(r, m, row[n].lid))
    BY <2>6, <2>7, <2>10 DEF GivesUp, Kept
  <2>12. Moves(r, m)
    BY <1>1, <2>6, <2>7, <2>9, <2>10, <2>11 DEF Moves, Kept
  <2> QED BY <2>12, MovesInv
<1> QED BY <1>2, <1>3 DEF Shutdown

LEMMA ShutdownJobInv ==
  ASSUME NEW r \in Run, Inv, ShutdownJob(r)
  PROVE  Inv' /\ LeaseStep
<1> DEFINE l == run[r]
           m == run'[r]
           k == [l EXCEPT !.pc = "shutdownLog", !.jlock = None, !.juntil = 0]
<1>1. /\ TypeOK /\ l \in Locals /\ l.pc = "shutdownJob" /\ row' = unlock(l.jlock)
      /\ UNCHANGED <<now, log, admin, fails>> /\ fails' \in 0..MaxFails
      /\ log' \in [Job -> [start : Nat, by : {"run", "other"}]]
      /\ l.cur = None
  BY DEF ShutdownJob, Inv, TypeOK, OwnIds
<1>2. CASE Over(r)
  BY <1>1, <1>2, OverMoves
<1>3. CASE Goto(r, k)
  <2>5. k \in Locals
    BY <1>1, Updates
  <2>6. /\ k.thread = l.thread /\ k.job = l.job /\ k.pc = "shutdownLog"
        /\ k.own = l.own /\ k.cur = l.cur /\ k.until = l.until
        /\ k.jlock = None /\ k.juntil = 0
    BY <1>1 DEF Locals
  <2> HIDE DEF k
  <2>7. /\ m \in Locals /\ run' = [run EXCEPT ![r] = m]
        /\ Kept(m, k) /\ m.pc = k.pc /\ m.thread = l.thread /\ m.job = l.job
        /\ m.goal = "thread"
    BY <1>1, <1>3, <2>5, <2>6, GotoFacts DEF Locking
  <2>9. /\ Ids(m) /\ Again(row', m) /\ ~Launching(m) /\ ~Executing(m)
    BY <1>1, <2>6, <2>7 DEF Kept, Ids, Again, Executing, Launching, Locking
  <2>10. /\ row' \in [Name -> Rows \cup {NoRow}]
         /\ \A n \in Name : \/ row'[n] = row[n] /\ row[n].lid # l.jlock
                            \/ row'[n] = NoRow /\ row[n].lid = l.jlock
    BY <1>1, UnlockFacts
  <2>11. \A n \in Name : row'[n] = row[n] \/ (row'[n] = NoRow /\ GivesUp(r, m, row[n].lid))
    BY <2>6, <2>7, <2>10 DEF GivesUp, Kept
  <2>12. Moves(r, m)
    BY <1>1, <2>6, <2>7, <2>9, <2>10, <2>11 DEF Moves, Kept
  <2> QED BY <2>12, MovesInv
<1> QED BY <1>2, <1>3 DEF ShutdownJob

LEMMA ShutdownLogInv ==
  ASSUME NEW r \in Run, Inv, ShutdownLog(r)
  PROVE  Inv' /\ LeaseStep
<1> DEFINE l == run[r]
<1>1. /\ TypeOK /\ l \in Locals /\ Over(r) /\ log' = logged(l, "other")
      /\ UNCHANGED <<now, row, admin, fails>>
      /\ l.cur = None /\ l.jlock = None
  BY DEF ShutdownLog, Inv, TypeOK, OwnIds
<1>2. row' = unlock(None)
  <2>1. \A n \in Name : row[n].lid = None => row[n] = NoRow
    BY <1>1, UltimateCronAssumption DEF TypeOK
  <2> QED BY <1>1, <2>1 DEF unlock, TypeOK
<1>3. /\ log' \in [Job -> [start : Nat, by : {"run", "other"}]]
      /\ \A j \in Job : log'[j] = log[j] \/ log'[j].by = "other"
  BY <1>1, LoggedFacts
<1> QED BY <1>1, <1>2, <1>3, OverMoves

LEMMA KillInv ==
  ASSUME NEW r \in Run, Inv, Kill(r)
  PROVE  Inv' /\ LeaseStep
<1> USE DEF Inv
<1>1. /\ TypeOK /\ Over(r) /\ UNCHANGED <<now, log, admin>> /\ fails' \in 0..MaxFails
  BY Bounds DEF Kill, Fail, TypeOK
<1>2. /\ run'[r] = Off /\ run' \in [Run -> Locals]
      /\ \A s \in Run : s # r => run'[s] = run[s]
  BY <1>1, OverFacts DEF TypeOK
<1>3. row' \in [Name -> Rows \cup {NoRow}]
  BY <1>1 DEF Kill, TypeOK, Rows
<1>4. \A n \in Name :
        /\ row'[n].lid = row[n].lid /\ row'[n].expire = row[n].expire
        /\ row'[n] # NoRow => row[n] # NoRow
        /\ \/ row'[n] = row[n]
           \/ row'[n].killed
        /\ \/ row'[n] = NoRow
           \/ row[n].lid \in {run[r].cur, run[r].jlock} => row'[n].killed
  <2> SUFFICES ASSUME NEW n \in Name
               PROVE /\ row'[n].lid = row[n].lid /\ row'[n].expire = row[n].expire
                     /\ row'[n] # NoRow => row[n] # NoRow
                     /\ row'[n] = row[n] \/ row'[n].killed
                     /\ \/ row'[n] = NoRow
                        \/ row[n].lid \in {run[r].cur, run[r].jlock} => row'[n].killed
    OBVIOUS
  <2>1. CASE row[n] # NoRow /\ row[n].lid \in {run[r].cur, run[r].jlock}
    <3>1. row[n] \in Rows /\ row'[n] = [row[n] EXCEPT !.killed = TRUE]
      BY <1>1, <2>1 DEF Kill, TypeOK, Rows
    <3> QED BY <2>1, <3>1 DEF Rows
  <2>2. CASE ~(row[n] # NoRow /\ row[n].lid \in {run[r].cur, run[r].jlock})
    BY <2>2 DEF Kill
  <2> QED BY <2>1, <2>2
<1>5. /\ Off.pc = "off" /\ Off.own = None /\ Off.cur = None /\ Off.until = 0
      /\ Off.jlock = None /\ Off.juntil = 0 /\ Off.goal = "thread"
      /\ ~Launching(Off) /\ ~Executing(Off)
  BY <1>1, OverFacts
<1>6. \A n \in Name : row[n] # NoRow => row[n].lid # None
  BY <1>1, UltimateCronAssumption DEF TypeOK
<1>7. TypeOK'
  BY <1>1, <1>2, <1>3 DEF TypeOK, Rows
<1>8. OwnIds'
  BY <1>2, <1>5 DEF OwnIds, Locking
<1>9. RowsInPlace'
  BY <1>2, <1>4, <1>5, <1>6 DEF RowsInPlace
<1>10. RowsBackLeases'
  <2>1. \A s \in Run : /\ <<"thread", run[s].thread>> \in Name
                       /\ <<"job", run[s].job>> \in Name
    BY <1>1, Names DEF TypeOK, Locals
  <2>2. ~(0 > now) /\ now' = now
    BY <1>1 DEF TypeOK
  <2> QED BY <1>2, <1>4, <1>5, <2>1, <2>2 DEF RowsBackLeases
<1>11. Revoked'
  BY <1>1, <1>2, <1>5 DEF Revoked
<1>12. GoneWhenAgain'
  <2>1. \A s \in Run : <<"thread", run[s].thread>> \in Name
    BY <1>1, Names DEF TypeOK, Locals
  <2> QED BY <1>1, <1>2, <1>4, <1>5, <2>1 DEF GoneWhenAgain
<1>13. LaunchesAlone' /\ StillPending'
  BY <1>1, <1>2, <1>5 DEF LaunchesAlone, StillPending, Launching, Executing
<1>14. NothingLeftBehind'
  BY <1>2, <1>4 DEF NothingLeftBehind
<1>15. LeaseStep
  BY <1>1, <1>5, OverFacts, ForgoStep
<1> QED BY <1>7, <1>8, <1>9, <1>10, <1>11, <1>12, <1>13, <1>14, <1>15

LEMMA AdminSelectInv ==
  ASSUME NEW j \in Job, Inv, AdminSelect(j)
  PROVE  Inv' /\ LeaseStep
<1> USE DEF Inv
<1> DEFINE lid == row[<<"job", j>>].lid
<1>1. /\ TypeOK /\ UNCHANGED <<now, row, log>> /\ fails' \in 0..MaxFails
      /\ admin' = lid /\ row[<<"job", j>>] # NoRow
  BY Bounds DEF AdminSelect, Fail, TypeOK, isLocked
<1>2. lid \in Lid
  BY <1>1, Names DEF TypeOK
<1>3. \A r \in Run :
        run'[r] = IF run[r].jlock = lid THEN [run[r] EXCEPT !.juntil = 0] ELSE run[r]
  BY DEF AdminSelect
<1>4. \A r \in Run :
        LET l == run[r]  m == run'[r]
        IN  /\ m.pc = l.pc /\ m.own = l.own /\ m.cur = l.cur /\ m.jlock = l.jlock
            /\ m.until = l.until /\ m.juntil \in {l.juntil, 0}
            /\ m.thread = l.thread /\ m.job = l.job /\ m.goal = l.goal
            /\ m.manual = l.manual /\ m.held = l.held /\ m.seen = l.seen /\ m.at = l.at
            /\ m \in Locals /\ (l.jlock = lid => m.juntil = 0)
  <2> SUFFICES ASSUME NEW r \in Run PROVE <1>4!(r)
    OBVIOUS
  <2>1. run[r] \in Locals
    BY <1>1 DEF TypeOK
  <2>2. CASE run[r].jlock = lid
    <3>1. run'[r] = [run[r] EXCEPT !.juntil = 0]
      BY <1>3, <2>2
    <3>2. run'[r] \in Locals
      BY <2>1, <3>1, Updates
    <3> QED BY <2>1, <3>1, <3>2 DEF Locals
  <2>3. CASE run[r].jlock # lid
    BY <1>3, <2>1, <2>3
  <2> QED BY <2>2, <2>3
<1>5. now \in Nat /\ now' = now
  BY <1>1 DEF TypeOK
<1>6. TypeOK'
  BY <1>1, <1>2, <1>4 DEF TypeOK, AdminSelect
<1>7. OwnIds'
  BY <1>4 DEF OwnIds
<1>8. RowsInPlace' /\ NothingLeftBehind'
  BY <1>1, <1>4 DEF RowsInPlace, NothingLeftBehind
<1>9. RowsBackLeases'
  BY <1>1, <1>4, <1>5 DEF RowsBackLeases
<1>10. Revoked'
  <2>1. \A r \in Run : run[r].cur # lid
    BY <1>1, Names DEF RowsInPlace
  <2> QED BY <1>1, <1>4, <2>1 DEF Revoked
<1>11. GoneWhenAgain'
  BY <1>1, <1>4 DEF GoneWhenAgain
<1>12. LaunchesAlone' /\ StillPending'
  BY <1>1, <1>4, <1>5 DEF LaunchesAlone, StillPending, Launching
<1>13. LeaseStep
  <2>1. CASE \A r \in Run : run[r].jlock # lid
    <3>1. run' = run
      BY <1>1, <1>3, <2>1 DEF AdminSelect, TypeOK
    <3> QED BY <1>5, <3>1 DEF LeaseStep, Promise!leaseVars, leases
  <2>2. ASSUME NEW r \in Run, run[r].jlock = lid PROVE LeaseStep
    <3>1. \A s \in Run : s # r => run[s].jlock # lid
      BY <1>2, <2>2, IdsApart, UltimateCronAssumption DEF OwnIds
    <3>2. run' = [run EXCEPT ![r] = run'[r]]
      BY <1>1, <1>3, <3>1 DEF AdminSelect, TypeOK
    <3> QED BY <1>1, <1>4, <1>5, <3>2, <2>2, ForgoStep
  <2> QED BY <2>1, <2>2
<1> QED BY <1>6, <1>7, <1>8, <1>9, <1>10, <1>11, <1>12, <1>13

LEMMA AdminUnlockInv ==
  ASSUME Inv, AdminUnlock
  PROVE  Inv' /\ LeaseStep
<1> USE DEF Inv
<1>1. /\ TypeOK /\ admin # None /\ row' = unlock(admin) /\ admin' = None
      /\ UNCHANGED <<now, log, run, fails>>
  BY DEF AdminUnlock
<1>2. /\ row' \in [Name -> Rows \cup {NoRow}]
      /\ \A n \in Name : \/ row'[n] = row[n] /\ row[n].lid # admin
                         \/ row'[n] = NoRow /\ row[n].lid = admin
  BY <1>1, UnlockFacts
<1>n. \A s \in Run : /\ <<"thread", run[s].thread>> \in Name
                     /\ <<"job", run[s].job>> \in Name
  BY <1>1, Names DEF TypeOK, Locals
<1>3. TypeOK'
  BY <1>1, <1>2 DEF TypeOK, Rows
<1>4. OwnIds' /\ Revoked' /\ LaunchesAlone' /\ StillPending'
  BY <1>1 DEF OwnIds, Revoked, LaunchesAlone, StillPending, Launching
<1>5. RowsInPlace' /\ NothingLeftBehind'
  BY <1>1, <1>2 DEF RowsInPlace, NothingLeftBehind
<1>6. RowsBackLeases'
  BY <1>1, <1>2, <1>n DEF RowsBackLeases, Revoked, TypeOK
<1>7. GoneWhenAgain'
  <2>1. NoRow.lid = None
    BY DEF NoRow
  <2> QED BY <1>1, <1>2, <1>n, <2>1 DEF GoneWhenAgain
<1>8. LeaseStep
  BY <1>1 DEF LeaseStep, Promise!leaseVars, leases
<1> QED BY <1>3, <1>4, <1>5, <1>6, <1>7, <1>8

LEMMA TickInv ==
  ASSUME Inv, Tick
  PROVE  Inv' /\ LeaseStep
<1> USE DEF Inv
<1>1. /\ TypeOK /\ now' = now + 1 /\ now \in Nat
      /\ UNCHANGED <<row, log, run, admin, fails>>
  BY DEF Tick, TypeOK
<1>2. TypeOK'
  BY <1>1 DEF TypeOK
<1>3. OwnIds' /\ Revoked' /\ RowsInPlace' /\ NothingLeftBehind'
  BY <1>1 DEF OwnIds, Revoked, RowsInPlace, NothingLeftBehind
<1>4. \A r \in Run : /\ run[r].until \in Nat /\ run[r].juntil \in Nat
                     /\ run[r].until > now' => run[r].until > now
                     /\ run[r].juntil > now' => run[r].juntil > now
  BY <1>1 DEF TypeOK, Locals
<1>5. RowsBackLeases'
  BY <1>1, <1>4 DEF RowsBackLeases
<1>6. GoneWhenAgain'
  <2>1. \A n \in Name : row[n].expire \in Nat
    BY <1>1 DEF TypeOK, NoRow
  <2>2. \A n \in Name : row[n].expire <= now => row[n].expire <= now'
    BY <1>1, <2>1
  <2>3. \A s \in Run : <<"thread", run[s].thread>> \in Name
    BY <1>1, Names DEF TypeOK, Locals
  <2> QED BY <1>1, <2>2, <2>3 DEF GoneWhenAgain
<1>7. LaunchesAlone'
  BY <1>1, <1>4 DEF LaunchesAlone, Launching
<1>8. StillPending'
  <2>1. \A s \in Schedule : s <= now => s <= now'
    BY <1>1, UltimateCronAssumption
  <2> QED BY <1>1, <1>4, <2>1 DEF StillPending, Launching, pending
<1>9. LeaseStep
  <2>1. leases' = leases
    BY <1>1 DEF leases
  <2>2. Promise!Tick
    BY <1>1, <2>1 DEF Promise!Tick
  <2> QED BY <2>2 DEF LeaseStep, Promise!LeaseNext
<1> QED BY <1>2, <1>3, <1>5, <1>6, <1>7, <1>8, <1>9

\* A lock that could not be taken.
LEMMA NotLockedInv ==
  ASSUME NEW r \in Run, Inv, run[r].pc = "insert", Goto(r, notLocked(run[r])),
         UNCHANGED <<now, row, log, admin, fails>>
  PROVE  Inv' /\ LeaseStep
<1> DEFINE l == run[r]
           m == run'[r]
<1>1. /\ TypeOK /\ l \in Locals /\ fails' \in 0..MaxFails /\ l.jlock = None
      /\ l.goal \in {"thread", "job", "again"}
  BY DEF Inv, TypeOK, OwnIds, Locals
<1>2. CASE l.goal = "thread"
  <2>1. Goto(r, threadTaken(l)) /\ l.cur = None
    BY <1>2 DEF notLocked, Inv, OwnIds, Locking
  <2>2. /\ Holds(threadTaken(l), l) /\ Ids(threadTaken(l)) /\ ~Launching(threadTaken(l))
    BY <1>1, <2>1, ThreadTakenKeeps DEF Kept, Holds, Ids, Launching, Locking
  <2> QED BY <1>1, <2>1, <2>2, ThreadTakenKeeps, KeepMoves DEF Locking
<1>3. CASE l.goal = "job"
  <2> DEFINE p == IF l.manual THEN "shutdown" ELSE "check"
             k == [l EXCEPT !.pc = p]
  <2>1. Goto(r, k)
    BY <1>3 DEF notLocked
  <2>2. p \in {"shutdown", "check"}
    OBVIOUS
  <2> HIDE DEF p
  <2>3. k \in Locals /\ Kept(k, l) /\ k.thread = l.thread /\ k.job = l.job /\ k.pc = p
    BY <1>1, <2>2 DEF Locals, Kept
  <2> HIDE DEF k
  <2>4. /\ Holds(k, l) /\ Ids(k) /\ ~Launching(k)
    BY <1>1, <2>2, <2>3 DEF Kept, Holds, Ids, Locking, Launching
  <2> QED BY <1>1, <2>1, <2>2, <2>3, <2>4, KeepMoves DEF Locking
<1>4. CASE l.goal = "again"
  <2> DEFINE k == [l EXCEPT !.pc = "release", !.cur = None, !.until = 0]
  <2>1. Goto(r, k)
    BY <1>4 DEF notLocked
  <2>2. /\ k \in Locals /\ k.thread = l.thread /\ k.job = l.job /\ k.pc = "release"
        /\ k.own = l.own /\ k.cur = None /\ k.until = 0
        /\ k.jlock = l.jlock /\ k.juntil = l.juntil
    <3>1. k \in Locals
      BY <1>1, Updates
    <3> QED BY <1>1, <3>1 DEF Locals
  <2> HIDE DEF k
  <2>3. /\ m \in Locals /\ run' = [run EXCEPT ![r] = m]
        /\ Kept(m, k) /\ m.pc = k.pc /\ m.thread = l.thread /\ m.job = l.job
        /\ m.goal = "thread"
    BY <1>1, <2>1, <2>2, GotoFacts DEF Locking
  <2>4. /\ Ids(m) /\ Again(row', m) /\ ~Launching(m) /\ ~Executing(m)
    BY <1>1, <2>2, <2>3 DEF Kept, Ids, Again, Executing, Launching, Locking
  <2>5. \A n \in Name : row'[n] # NoRow =>
          /\ row'[n].lid = l.cur => FALSE
          /\ row'[n].lid = l.jlock => m.jlock = l.jlock
    <3> SUFFICES ASSUME NEW n \in Name, row[n] # NoRow, row[n].lid = l.cur
                 PROVE  FALSE
      BY <2>2, <2>3 DEF Kept
    <3>1. n = <<"thread", l.thread>> /\ l.cur # None
      BY <1>1, UltimateCronAssumption DEF Inv, RowsInPlace, TypeOK
    <3> QED BY <1>4, <3>1 DEF Inv, GoneWhenAgain
  <2>6. Moves(r, m)
    BY <1>1, <2>2, <2>3, <2>4, <2>5 DEF Moves, Kept, TypeOK, Rows
  <2> QED BY <2>6, MovesInv
<1> QED BY <1>1, <1>2, <1>3, <1>4

\* Two leases that are not over have rows of different processes.
LEMMA InvExclusive == Inv => LeasesExclusive
<1> SUFFICES ASSUME Inv, NEW r \in Run, NEW s \in Run, r # s
             PROVE  /\ ~ /\ run[r].juntil > now /\ run[s].juntil > now
                         /\ run[r].job = run[s].job
                    /\ ~ /\ run[r].until > now /\ run[s].until > now
                         /\ run[r].thread = run[s].thread
  BY DEF LeasesExclusive
<1>1. CASE run[r].juntil > now /\ run[s].juntil > now /\ run[r].job = run[s].job
  <2>1. run[r].jlock = run[s].jlock /\ run[r].jlock # None
    BY <1>1 DEF Inv, RowsBackLeases
  <2> QED BY <2>1, IdsApart DEF Inv, OwnIds
<1>2. CASE run[r].until > now /\ run[s].until > now /\ run[r].thread = run[s].thread
  <2>1. run[r].cur = run[s].cur /\ run[r].cur # None
    BY <1>2 DEF Inv, RowsBackLeases
  <2> QED BY <2>1, IdsApart DEF Inv, OwnIds
<1> QED BY <1>1, <1>2

\* What r goes on with when it has inserted a row.
LEMMA LockedKeeps ==
  ASSUME NEW l \in Locals, NEW lid \in Lid, NEW end \in Nat,
         NEW h \in BOOLEAN, NEW k, k = locked(l, lid, end, h)
  PROVE  /\ k \in Locals /\ k.thread = l.thread
         /\ l.goal \in {"thread", "again"} =>
              /\ k.own \in {lid, None} /\ k.cur = lid /\ k.until = end
              /\ k.jlock = l.jlock /\ k.juntil = l.juntil
              /\ k.pc \in {"scheduled", "release"}
         /\ l.goal = "job" =>
              /\ k.own = l.own /\ k.cur = l.cur /\ k.until = l.until
              /\ k.jlock = lid /\ k.juntil = end /\ k.job = l.job
              /\ k.pc = "callback" /\ k.held = h
<1>1. CASE l.goal = "thread"
  <2>1. k = [l EXCEPT !.pc = "scheduled", !.own = lid, !.cur = lid, !.until = end, !.polls = 0]
    BY <1>1 DEF locked
  <2>2. k \in Locals
    BY ZenonT(60), <2>1, Bounds DEF Locals
  <2> QED BY <1>1, <2>1, <2>2 DEF Locals
<1>2. CASE l.goal = "again"
  <2> DEFINE x == [l EXCEPT !.own = None, !.cur = lid, !.until = end]
  <2>1. k = nextJob(x)
    BY <1>2 DEF locked
  <2>2. /\ x \in Locals /\ x.own = None /\ x.cur = lid /\ x.until = end
        /\ x.jlock = l.jlock /\ x.juntil = l.juntil /\ x.thread = l.thread
    BY DEF Locals
  <2> HIDE DEF x
  <2> QED BY <1>2, <2>1, <2>2, NextJobKeeps DEF Kept
<1>3. CASE l.goal = "job"
  <2>1. k = [l EXCEPT !.pc = "callback", !.jlock = lid, !.juntil = end, !.held = h]
    BY <1>3 DEF locked
  <2>2. k \in Locals
    BY <2>1 DEF Locals
  <2> QED BY <1>3, <2>1, <2>2 DEF Locals
<1> QED BY <1>1, <1>2, <1>3 DEF Locals

\* A row is inserted for the thread of r, which had none.
LEMMA ThreadLockedInv ==
  ASSUME NEW r \in Run, Inv, run[r].pc = "insert", run[r].goal \in {"thread", "again"},
         NEW lid \in {r} \X (1..MaxLids), lid \notin Remembered, NEW end \in Nat,
         row[<<"thread", run[r].thread>>] = NoRow,
         row' = [row EXCEPT ![<<"thread", run[r].thread>>] =
                   [lid |-> lid, killed |-> FALSE, expire |-> end]],
         Goto(r, locked(run[r], lid, end, run[r].until > now)),
         UNCHANGED <<now, log, admin, fails>>
  PROVE  Inv' /\ LeaseStep
<1> USE DEF Inv
<1> DEFINE l == run[r]
           m == run'[r]
           n == <<"thread", l.thread>>
<1>1. /\ TypeOK /\ l \in Locals /\ l.jlock = None /\ n \in Name /\ lid \in Lid
      /\ lid # None
  BY Names, IdsApart DEF TypeOK, OwnIds, Locals
<1>2. /\ lid # admin
      /\ \A x \in Name : row[x].lid # lid
      /\ \A s \in Run : lid \notin {run[s].cur, run[s].jlock, run[s].own}
  BY DEF Remembered
<1>3. /\ m \in Locals /\ run' = [run EXCEPT ![r] = m]
      /\ m.own \in {lid, None} /\ m.cur = lid /\ m.until = end
      /\ m.jlock = None /\ m.juntil = l.juntil /\ m.thread = l.thread
      /\ m.pc \in {"scheduled", "release"} /\ m.goal = "thread"
  <2> DEFINE h == l.until > now
             k == locked(l, lid, end, h)
  <2>0. h \in BOOLEAN /\ k = locked(l, lid, end, h) /\ Goto(r, k)
    OBVIOUS
  <2> HIDE DEF h, k
  <2>1. /\ k \in Locals /\ k.thread = l.thread
        /\ k.own \in {lid, None} /\ k.cur = lid /\ k.until = end
        /\ k.jlock = l.jlock /\ k.juntil = l.juntil
        /\ k.pc \in {"scheduled", "release"}
    BY <1>1, <2>0, LockedKeeps
  <2> QED BY <1>1, <2>0, <2>1, GotoFacts DEF Kept, Locking, h
<1>4. \A s \in Run : s # r => run'[s] = run[s]
  BY <1>3 DEF TypeOK
<1>5. /\ row' \in [Name -> Rows \cup {NoRow}]
      /\ row'[n].lid = lid /\ row'[n].expire = end
      /\ \A x \in Name : x # n => row'[x] = row[x]
  BY <1>1 DEF TypeOK, Rows
<1>6. \A x \in Name : row[x] # NoRow => row[x].lid # l.cur
  <2> SUFFICES ASSUME NEW x \in Name, row[x] # NoRow, row[x].lid = l.cur
               PROVE  FALSE
    OBVIOUS
  <2>1. x = n
    BY DEF RowsInPlace
  <2> QED BY <2>1
<1>7. TypeOK'
  BY <1>1, <1>3, <1>5 DEF TypeOK, Rows
<1>8. OwnIds'
  BY <1>1, <1>3, <1>4 DEF OwnIds, Locking
<1>9. RowsInPlace'
  <2> SUFFICES ASSUME NEW s \in Run, NEW x \in Name, row'[x] # NoRow
               PROVE  /\ row'[x].lid = run'[s].cur => x = <<"thread", run'[s].thread>>
                      /\ row'[x].lid = run'[s].jlock => x = <<"job", run'[s].job>>
    BY DEF RowsInPlace
  <2>1. CASE x = n
    BY <1>1, <1>2, <1>3, <1>4, <1>5, <2>1
  <2>2. CASE x # n
    <3>1. row'[x] = row[x] /\ row[x].lid # None
      BY <1>1, <1>5, <2>2, UltimateCronAssumption DEF TypeOK
    <3> QED BY <1>2, <1>3, <1>4, <3>1 DEF RowsInPlace
  <2> QED BY <2>1, <2>2
<1>10. RowsBackLeases'
  <2>1. ~(l.juntil > now)
    BY <1>1 DEF RowsBackLeases
  <2>2. row[n].lid = None
    BY DEF NoRow
  <2>3. ASSUME NEW s \in Run, s # r
        PROVE  /\ run[s].until > now =>
                     row'[<<"thread", run[s].thread>>] = row[<<"thread", run[s].thread>>]
               /\ run[s].juntil > now =>
                     row'[<<"job", run[s].job>>] = row[<<"job", run[s].job>>]
    <3>1. /\ <<"thread", run[s].thread>> \in Name /\ <<"job", run[s].job>> \in Name
      BY <1>1, <2>3, Names DEF TypeOK, Locals
    <3> QED BY <1>5, <2>2, <2>3, <3>1 DEF RowsBackLeases
  <2> QED BY <1>1, <1>3, <1>4, <1>5, <2>1, <2>3 DEF RowsBackLeases
<1>11. Revoked'
  BY <1>2, <1>3, <1>4 DEF Revoked
<1>12. GoneWhenAgain'
  <2> SUFFICES ASSUME NEW s \in Run PROVE Again(row', run'[s])
    BY DEF GoneWhenAgain, Again
  <2>1. CASE s = r
    BY <1>3, <2>1 DEF Again
  <2>2. CASE s # r
    <3>1. /\ <<"thread", run[s].thread>> \in Name /\ Again(row, run[s])
          /\ run'[s] = run[s]
      BY <1>1, <1>4, <2>2, Names DEF TypeOK, Locals, GoneWhenAgain, Again
    <3> QED BY <1>2, <1>5, <3>1 DEF Again
  <2> QED BY <2>1, <2>2
<1>13. LaunchesAlone' /\ StillPending'
  BY <1>3, <1>4 DEF LaunchesAlone, StillPending, Launching, Locking
<1>14. NothingLeftBehind'
  BY <1>1, <1>3, <1>4, <1>5, <1>6 DEF NothingLeftBehind
<1>15. LeaseStep
  <2>1. l.juntil = 0 /\ m.juntil = 0
    BY <1>1, <1>3 DEF OwnIds
  <2>2. \A x \in Name : leaseOf(m)[x] = IF x = n THEN end ELSE leaseOf(l)[x]
    BY <1>3, <2>1 DEF leaseOf
  <2>3. leaseOf(m) = [leaseOf(l) EXCEPT ![n] = end]
    BY ZenonT(60), <2>2 DEF leaseOf
  <2> QED BY <1>1, <1>3, <2>3, GrantStep
<1> QED BY <1>7, <1>8, <1>9, <1>10, <1>11, <1>12, <1>13, <1>14, <1>15

\* A row is inserted for the job of r, which had none.
LEMMA JobLockedInv ==
  ASSUME NEW r \in Run, Inv, run[r].pc = "insert", run[r].goal = "job",
         NEW lid \in {r} \X (1..MaxLids), lid \notin Remembered, NEW end \in Nat,
         row[<<"job", run[r].job>>] = NoRow,
         row' = [row EXCEPT ![<<"job", run[r].job>>] =
                   [lid |-> lid, killed |-> FALSE, expire |-> end]],
         Goto(r, locked(run[r], lid, end, run[r].until > now)),
         UNCHANGED <<now, log, admin, fails>>
  PROVE  Inv' /\ LeaseStep
<1> USE DEF Inv
<1> DEFINE l == run[r]
           m == run'[r]
           n == <<"job", l.job>>
<1>1. /\ TypeOK /\ l \in Locals /\ l.jlock = None /\ n \in Name /\ lid \in Lid
      /\ lid # None
  BY Names, IdsApart DEF TypeOK, OwnIds, Locals
<1>2. /\ lid # admin
      /\ \A x \in Name : row[x].lid # lid
      /\ \A s \in Run : lid \notin {run[s].cur, run[s].jlock, run[s].own}
  BY DEF Remembered
<1>3. /\ m \in Locals /\ run' = [run EXCEPT ![r] = m]
      /\ m.own = l.own /\ m.cur = l.cur /\ m.until = l.until /\ m.thread = l.thread
      /\ m.jlock = lid /\ m.juntil = end /\ m.job = l.job
      /\ m.pc = "callback" /\ m.goal = "thread" /\ (m.held => l.until > now)
  <2> DEFINE h == l.until > now
             k == locked(l, lid, end, h)
  <2>0. h \in BOOLEAN /\ k = locked(l, lid, end, h) /\ Goto(r, k)
    OBVIOUS
  <2> HIDE DEF h, k
  <2>1. /\ k \in Locals /\ k.thread = l.thread
        /\ k.own = l.own /\ k.cur = l.cur /\ k.until = l.until
        /\ k.jlock = lid /\ k.juntil = end /\ k.job = l.job
        /\ k.pc = "callback" /\ k.held = h
    BY <1>1, <2>0, LockedKeeps
  <2> QED BY <1>1, <2>0, <2>1, GotoFacts DEF Kept, Locking, h
<1>4. \A s \in Run : s # r => run'[s] = run[s]
  BY <1>3 DEF TypeOK
<1>5. /\ row' \in [Name -> Rows \cup {NoRow}]
      /\ row'[n].lid = lid /\ row'[n].expire = end
      /\ \A x \in Name : x # n => row'[x] = row[x]
  BY <1>1 DEF TypeOK, Rows
<1>7. TypeOK'
  BY <1>1, <1>3, <1>5 DEF TypeOK, Rows
<1>8. OwnIds'
  BY <1>1, <1>2, <1>3, <1>4 DEF OwnIds, Locking
<1>9. RowsInPlace'
  <2> SUFFICES ASSUME NEW s \in Run, NEW x \in Name, row'[x] # NoRow
               PROVE  /\ row'[x].lid = run'[s].cur => x = <<"thread", run'[s].thread>>
                      /\ row'[x].lid = run'[s].jlock => x = <<"job", run'[s].job>>
    BY DEF RowsInPlace
  <2>1. CASE x = n
    BY <1>1, <1>2, <1>3, <1>4, <1>5, <2>1
  <2>2. CASE x # n
    <3>1. row'[x] = row[x] /\ row[x].lid # None
      BY <1>1, <1>5, <2>2, UltimateCronAssumption DEF TypeOK
    <3> QED BY <1>2, <1>3, <1>4, <3>1 DEF RowsInPlace
  <2> QED BY <2>1, <2>2
<1>10. RowsBackLeases'
  <2>2. row[n].lid = None
    BY DEF NoRow
  <2>3. ASSUME NEW s \in Run
        PROVE  /\ run[s].until > now =>
                     row'[<<"thread", run[s].thread>>] = row[<<"thread", run[s].thread>>]
               /\ run[s].juntil > now =>
                     row'[<<"job", run[s].job>>] = row[<<"job", run[s].job>>]
    <3>1. /\ <<"thread", run[s].thread>> \in Name /\ <<"job", run[s].job>> \in Name
      BY <1>1, <2>3, Names DEF TypeOK, Locals
    <3> QED BY <1>5, <2>2, <2>3, <3>1 DEF RowsBackLeases
  <2> QED BY <1>1, <1>3, <1>4, <1>5, <2>3 DEF RowsBackLeases
<1>11. Revoked'
  BY <1>2, <1>3, <1>4 DEF Revoked
<1>12. GoneWhenAgain'
  <2> SUFFICES ASSUME NEW s \in Run PROVE Again(row', run'[s])
    BY DEF GoneWhenAgain, Again
  <2>1. CASE s = r
    BY <1>3, <2>1 DEF Again
  <2>2. CASE s # r
    <3>1. /\ <<"thread", run[s].thread>> \in Name /\ Again(row, run[s])
          /\ run'[s] = run[s]
      BY <1>1, <1>4, <2>2, Names DEF TypeOK, Locals, GoneWhenAgain, Again
    <3> QED BY <1>2, <1>5, <3>1 DEF Again
  <2> QED BY <2>1, <2>2
<1>13. LaunchesAlone'
  <2> SUFFICES ASSUME MaxThreads = 1, NEW a \in Run, NEW b \in Run,
                      Launching(run'[a]), run'[a].job = run'[b].job,
                      Executing(run'[b])
               PROVE  FALSE
    BY DEF LaunchesAlone, Launching, Executing
  <2>1. a # r
    BY <1>3 DEF Launching, Locking
  <2>2. CASE b # r
    BY <1>4, <2>1, <2>2 DEF LaunchesAlone, Executing
  <2>3. CASE b = r
    <3>1. l.until > now /\ run[a].until > now
      BY <1>3, <1>4, <2>1, <2>3 DEF Executing, Launching
    <3>2. l.thread = run[a].thread
      BY <1>1 DEF TypeOK, Locals, Thread
    <3> QED BY <2>1, <3>1, <3>2, InvExclusive DEF LeasesExclusive
  <2> QED BY <2>2, <2>3
<1>14. StillPending'
  BY <1>3, <1>4 DEF StillPending, Launching, Locking
<1>15. NothingLeftBehind'
  <2>1. \A x \in Name : row[x] # NoRow => row[x].lid # l.jlock
    BY <1>1, UltimateCronAssumption DEF TypeOK
  <2> QED BY <1>1, <1>3, <1>4, <1>5, <2>1 DEF NothingLeftBehind
<1>16. LeaseStep
  <2>1. \A x \in Name : leaseOf(m)[x] = IF x = n THEN end ELSE leaseOf(l)[x]
    BY <1>3 DEF leaseOf
  <2>2. leaseOf(m) = [leaseOf(l) EXCEPT ![n] = end]
    BY ZenonT(60), <2>1 DEF leaseOf
  <2> QED BY <1>1, <1>3, <2>2, GrantStep
<1> QED BY <1>7, <1>8, <1>9, <1>10, <1>11, <1>12, <1>13, <1>14, <1>15, <1>16

LEMMA InsertInv ==
  ASSUME NEW r \in Run, Inv, Insert(r)
  PROVE  Inv' /\ LeaseStep
<1> DEFINE l == run[r]
           n == LockName(l)
           free == {k \in 1..MaxLids : <<r, k>> \notin Remembered}
           lid == <<r, CHOOSE k \in free : TRUE>>
<1>1. /\ l \in Locals /\ l.pc = "insert" /\ UNCHANGED <<now, log, admin, fails>>
      /\ now \in Nat /\ l.goal \in {"thread", "job", "again"}
  BY DEF Insert, Inv, TypeOK, Locals
<1>2. lid \in {r} \X (1..MaxLids) /\ lid \notin Remembered
  <2> DEFINE k == CHOOSE k \in free : TRUE
  <2>1. k \in free
    BY DEF Insert
  <2> HIDE DEF k
  <2>2. k \in 1..MaxLids /\ <<r, k>> \notin Remembered
    BY <2>1
  <2>3. lid = <<r, k>>
    BY DEF k
  <2> HIDE DEF lid
  <2> QED BY <2>2, <2>3
<1>3. CASE row[n] # NoRow
  BY <1>1, <1>3, NotLockedInv DEF Insert
<1>4. CASE row[n] = NoRow
  <2>1. PICK t \in Clock(r) :
          /\ row' = [row EXCEPT ![n] = [lid |-> lid, killed |-> FALSE,
                                        expire |-> t + Timeout(l)]]
          /\ Goto(r, locked(l, lid, t + Timeout(l), l.until > now))
    BY <1>4 DEF Insert
  <2> DEFINE end == t + Timeout(l)
  <2>2. end \in Nat
    <3>1. t \in Nat
      BY <1>1 DEF Clock, Locals
    <3>2. Timeout(l) \in Nat
      BY <1>1, Bounds DEF Timeout
    <3> QED BY <3>1, <3>2
  <2> HIDE DEF end, lid
  <2>3. CASE l.goal = "job"
    <3>1. n = <<"job", l.job>>
      BY <2>3 DEF LockName
    <3> QED BY <1>1, <1>2, <1>4, <2>1, <2>2, <2>3, <3>1, JobLockedInv DEF end
  <2>4. CASE l.goal \in {"thread", "again"}
    <3>1. n = <<"thread", l.thread>>
      BY <2>4 DEF LockName
    <3> QED BY <1>1, <1>2, <1>4, <2>1, <2>2, <2>4, <3>1, ThreadLockedInv DEF end
  <2> QED BY <1>1, <2>3, <2>4
<1> QED BY <1>3, <1>4

LEMMA NextInv == Inv /\ [Next]_vars => Inv' /\ LeaseStep
<1> SUFFICES ASSUME Inv, [Next]_vars PROVE Inv' /\ LeaseStep
  OBVIOUS
<1>1. CASE UNCHANGED vars
  <2>1. UNCHANGED <<now, row, log, run, admin, fails>>
    BY <1>1 DEF vars
  <2>2. Inv'
    BY <2>1
    DEF Inv, TypeOK, OwnIds, RowsInPlace, RowsBackLeases, Revoked, GoneWhenAgain,
        LaunchesAlone, StillPending, NothingLeftBehind, Launching, pending
  <2>3. LeaseStep
    BY <2>1 DEF LeaseStep, Promise!leaseVars, leases
  <2> QED BY <2>2, <2>3
<1>2. ASSUME NEW r \in Run, Step(r) PROVE Inv' /\ LeaseStep
  BY <1>2, ProbeInv, SelectInv, ExpireInv, InsertInv, ScheduledInv, DueInv,
     CallbackInv, FinishInv, UnlockInv, CheckInv, ReleaseInv, ShutdownInv,
     ShutdownJobInv, ShutdownLogInv DEF Step
<1> QED
  BY <1>1, <1>2, StartInv, FatalInv, KillInv, StartThreadInv, RunCronJobInv,
     AdminSelectInv, AdminUnlockInv, TickInv DEF Next

LEMMA InitInv == Init => Inv
<1> SUFFICES ASSUME Init PROVE Inv
  OBVIOUS
<1>1. /\ Off.pc = "off" /\ Off.own = None /\ Off.cur = None /\ Off.until = 0
      /\ Off.jlock = None /\ Off.juntil = 0 /\ Off.goal = "thread"
  BY DEF Off
<1>2. \A r \in Run : run[r] = Off
  BY DEF Init
<1>3. now = 1 /\ admin = None /\ \A n \in Name : row[n] = NoRow
  BY DEF Init
<1>4. TypeOK
  BY OffLocals, Bounds DEF Init, TypeOK
<1>5. OwnIds /\ Revoked /\ RowsInPlace /\ NothingLeftBehind
  BY <1>1, <1>2, <1>3 DEF OwnIds, Revoked, RowsInPlace, NothingLeftBehind, Locking
<1>6. RowsBackLeases /\ GoneWhenAgain
  BY <1>1, <1>2, <1>3 DEF RowsBackLeases, GoneWhenAgain
<1>7. LaunchesAlone /\ StillPending
  BY <1>1, <1>2, <1>3 DEF LaunchesAlone, StillPending, Launching, Locking
<1> QED BY <1>4, <1>5, <1>6, <1>7 DEF Inv

-----------------------------------------------------------------------------
\* In every reachable state the invariant holds: among others, a lock that
\* outlives its process is that of a process that was killed (Lock.php, shutdown
\* functions), and a lease that is not over is that of the row.
THEOREM Invariance == Spec => []Inv
  BY InitInv, NextInv, PTL DEF Spec

\* No two processes hold the lease of one job or of one thread (Lock::lock(),
\* expire(), cleanup()), however their statements interleave.
THEOREM Exclusion == Spec => []LeasesExclusive
  BY Invariance, InvExclusive, PTL

\* The lock service of ultimate cron (Lock::lock(), expire(), unlock()) is a
\* lock backend: its steps are grants, releases and the clock of Lease.
THEOREM Refinement == Spec => ImplementsLease
<1>1. Init => Promise!LeaseInit
  <2> SUFFICES ASSUME Init PROVE Promise!LeaseInit
    OBVIOUS
  <2>1. leaseOf(Off) = [n \in Name |-> 0]
    BY DEF leaseOf, Off
  <2> QED BY <2>1 DEF Init, leases, Promise!LeaseInit
<1> QED BY <1>1, NextInv, Invariance, PTL
        DEF Spec, ImplementsLease, Promise!LeaseSpec, LeaseStep

\* A step to the callback is an insert for a job.
LEMMA CallbackStep ==
  ASSUME Inv, Next, NEW r \in Run, run[r].pc = "insert", run'[r].pc = "callback"
  PROVE  run[r].goal = "job"
<1> DEFINE l == run[r]
<1>1. TypeOK /\ l \in Locals
  BY DEF Inv, TypeOK
<1>2. ASSUME NEW s \in Run, s # r,
             \/ Over(s)
             \/ \E k : Goto(s, k)
      PROVE  FALSE
  BY <1>1, <1>2 DEF Over, Goto, TypeOK
<1>3. \A j \in Job : ~AdminSelect(j)
  <2> SUFFICES ASSUME NEW j \in Job, AdminSelect(j) PROVE FALSE
    OBVIOUS
  <2> QED BY <1>1 DEF AdminSelect, Locals
<1>4. ~AdminUnlock /\ ~Tick
  BY DEF AdminUnlock, Tick
<1>5. PICK s \in Run :
        \/ Start(s) \/ Step(s) \/ Fatal(s) \/ Kill(s)
        \/ \E t \in Thread : StartThread(s, t)
        \/ \E j \in Job : RunCronJob(s, j)
  BY <1>3, <1>4 DEF Next
<1>6. s = r
  BY <1>2, <1>5 DEF Start, Step, Fatal, Kill, StartThread, RunCronJob, Probe, Select,
     Expire, Insert, Scheduled, Due, Callback, Finish, Unlock, Check, Release,
     Shutdown, ShutdownJob, ShutdownLog
<1>7. Insert(r) \/ Fatal(r) \/ Kill(r)
  BY <1>5, <1>6 DEF Start, Step, Fatal, Kill, StartThread, RunCronJob, Probe, Select,
     Expire, Scheduled, Due, Callback, Finish, Unlock, Check, Release,
     Shutdown, ShutdownJob, ShutdownLog
<1>8. ~Kill(r)
  BY <1>1, OverFacts DEF Kill, Over, TypeOK
<1>9. ~Fatal(r)
  <2> SUFFICES ASSUME NEW s1, Goto(r, [l EXCEPT !.pc = "shutdown", !.seen = None, !.start = s1])
               PROVE  FALSE
    BY DEF Fatal
  <2>1. [l EXCEPT !.pc = "shutdown", !.seen = None, !.start = s1].pc = "shutdown"
    BY <1>1 DEF Locals
  <2> QED BY <1>1, <2>1 DEF Goto, TypeOK
<1>10. CASE Insert(r)
  <2> SUFFICES ASSUME l.goal # "job" PROVE FALSE
    OBVIOUS
  <2>1. l.goal \in {"thread", "again"}
    BY <1>1 DEF Locals
  <2>2. CASE Goto(r, notLocked(l))
    <3>1. notLocked(l).pc # "callback"
      BY <1>1, <2>1, ThreadTakenKeeps DEF notLocked, Locals
    <3> QED BY <1>1, <2>2, <3>1 DEF Goto, TypeOK
  <2>3. ASSUME NEW lid, NEW end, NEW h, Goto(r, locked(l, lid, end, h)) PROVE FALSE
    <3>1. locked(l, lid, end, h).pc # "callback"
      BY <1>1, <2>1 DEF locked, nextJob, Locals
    <3> QED BY <1>1, <2>3, <3>1 DEF Goto, TypeOK
  <2> QED BY <1>10, <2>2, <2>3 DEF Insert
<1> QED BY <1>7, <1>8, <1>9, <1>10

\* With one thread, a run that holds it starts a job only if no run that held
\* it has executed the job since it was scheduled last: what the run has read
\* in the log is not stale when it locks the job (SerialLauncher::runThread()).
THEOREM Scheduling == Spec => StartsDue
<1>1. Inv /\ [Next]_vars =>
        [\A r \in Run :
         LET l == run[r]
         IN  /\ MaxThreads = 1
             /\ l.pc = "insert" /\ run'[r].pc = "callback"
             /\ ~l.manual /\ l.until > now /\ log[l.job].by = "run"
             => pending(log[l.job].start, now)]_vars
  <2> SUFFICES ASSUME Inv, Next, NEW r \in Run, MaxThreads = 1,
                      run[r].pc = "insert", run'[r].pc = "callback",
                      ~run[r].manual, run[r].until > now,
                      log[run[r].job].by = "run"
               PROVE  pending(log[run[r].job].start, now)
    OBVIOUS
  <2>1. run[r].goal = "job"
    BY CallbackStep
  <2> QED BY <2>1 DEF Inv, StillPending, Launching, Locking
<1> QED BY <1>1, Invariance, PTL DEF Spec, StartsDue
=============================================================================
