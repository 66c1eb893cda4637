---------------------------- MODULE UltimateCron ----------------------------
(***************************************************************************)
(* The cron of this site (contrib/ultimate_cron): cron runs that take a    *)
(* thread, go through the jobs and launch those that are due, and jobs     *)
(* launched by hand, each under a lock of its own.                         *)
(*                                                                         *)
(* Every SQL statement is a step.  A clock value that the code reads       *)
(* between two statements is one from between them.  A lock is the row of  *)
(* its name whose column `current` is 0, of which the unique key allows    *)
(* one; rows that were released stay in the table until cleanup() deletes  *)
(* them, no other statement sees them and the model does not keep them.    *)
(* Lock ids are compared for equality only: the model gives each process   *)
(* ids of its own, and hands one out again when nobody remembers it.       *)
(***************************************************************************)
EXTENDS Integers, FiniteSets

CONSTANTS
    Run,           \* processes
    MaxLids,       \* lock ids a process needs in the model
    None,          \* no lock id
    Jobs,          \* the jobs are 1..Jobs, by weight
    CleanupJob,    \* the job whose callback is ultimate_cron_cron()
    MaxThreads,    \* launcher setting max_threads
    JobThread,     \* launcher setting thread of each job, 0 for 'any'
    JobTime,       \* launcher setting lock_timeout
    ThreadTime,    \* how long a thread is locked (55 s)
    AgainTime,     \* ... when it is locked again (30 s)
    Schedule,      \* the times the rule of the jobs matches
    CatchUp,       \* scheduler setting catch_up
    MaxPolls,      \* bound: rounds of findFreeThread()
    MaxTime,       \* bound: the clock stops here
    MaxFails       \* bound: fatal errors, kills and unlocks by hand

Job == 1..Jobs
Thread == 1..MaxThreads
Lid == Run \X (1..MaxLids)

ASSUME UltimateCronAssumption ==
    /\ Jobs \in Nat \ {0} /\ CleanupJob \in Job
    /\ MaxThreads \in Nat \ {0}
    /\ JobThread \in [Job -> 0..MaxThreads]
    /\ {JobTime, ThreadTime, AgainTime} \subseteq Nat \ {0}
    /\ Schedule \subseteq Nat
    /\ None \notin Lid
    /\ {MaxLids, CatchUp, MaxPolls, MaxTime, MaxFails} \subseteq Nat

VARIABLES
    now,       \* microtime(TRUE)
    row,       \* row[n]: the current row of lock n
    log,       \* log[j]: the latest entry of job j; by: who wrote it
    run,       \* run[r]: where process r is, and its local variables
    admin,     \* the lock id unlockCronJob() has read
    fails      \* fatal errors, kills and unlocks so far

vars == <<now, row, log, run, admin, fails>>

Name == ({"thread"} \X Thread) \cup ({"job"} \X Job)

\* killed: history, the process that holds the lock was killed.
NoRow == [lid |-> None, expire |-> 0, killed |-> FALSE]

\* thread .. jlock: $thread, the $lock_id of launchJobs() and of runThread(),
\* the job at hand and its lock; option: the thread was asked for; manual: one
\* job launched by hand; goal: what lock() is called for; seen: the lock id
\* isLocked() gave to expire(); at: when the last statement was executed, if the
\* clock is read before the next one; start: the start of the log entry, 0 if
\* there is none that is unfinished; until, juntil: history, when the leases of
\* cur and jlock end, 0 once revoked; held: history, the thread was locked when
\* the job was.
Locals ==
    [pc : {"off", "probe", "select", "expire", "insert", "scheduled", "due",
           "callback", "finish", "unlock", "check", "release", "shutdown",
           "shutdownJob", "shutdownLog"},
     thread : Thread, option : BOOLEAN, manual : BOOLEAN, polls : 0..MaxPolls,
     own : Lid \cup {None}, cur : Lid \cup {None}, job : Job,
     jlock : Lid \cup {None}, goal : {"thread", "job", "again"},
     seen : Lid \cup {None}, at : Nat, start : Nat,
     until : Nat, juntil : Nat, held : BOOLEAN]

Off ==
    [pc |-> "off", thread |-> 1, option |-> FALSE, manual |-> FALSE,
     polls |-> 0, own |-> None, cur |-> None, job |-> 1, jlock |-> None,
     goal |-> "thread", seen |-> None, at |-> 0, start |-> 0,
     until |-> 0, juntil |-> 0, held |-> FALSE]

TypeOK ==
    /\ now \in Nat
    /\ row \in [Name -> [lid : Lid, expire : Nat, killed : BOOLEAN] \cup {NoRow}]
    /\ log \in [Job -> [start : Nat, by : {"run", "other"}]]
    /\ run \in [Run -> Locals]
    /\ admin \in Lid \cup {None}
    /\ fails \in 0..MaxFails

Init ==
    /\ now = 1
    /\ row = [n \in Name |-> NoRow]
    /\ log = [j \in Job |-> [start |-> 0, by |-> "other"]]
    /\ run = [r \in Run |-> Off]
    /\ admin = None
    /\ fails = 0

-----------------------------------------------------------------------------
(***************************************************************************)
(* The lock service.                                                       *)
(***************************************************************************)
Clock(r) == run[r].at..now

\* With $ignore_expiration isLocked() looks at the row only.
isLocked(n) == row[n] # NoRow /\ row[n].expire > now

unlock(lid) ==
    [n \in Name |-> IF row[n].lid = lid THEN NoRow ELSE row[n]]

\* Variant: the rows are deleted whether they are over or not.
cleanupAny(t) == [n \in Name |-> NoRow]

\* The first statement of cleanup().
cleanup(t) ==
    [n \in Name |-> IF row[n].expire <= t THEN NoRow ELSE row[n]]

Remembered ==
    {row[n].lid : n \in Name} \cup {admin}
      \cup UNION {{run[r].own, run[r].cur, run[r].jlock, run[r].seen} : r \in Run}

\* r executes a statement and goes on with locals l.
Goto(r, l) ==
    run' = [run EXCEPT ![r] =
              [l EXCEPT !.at = IF l.pc \in {"expire", "insert", "callback"}
                               THEN now ELSE 0,
                        !.goal = IF l.pc \in {"select", "expire", "insert"}
                                 THEN @ ELSE "thread"]]

\* r's process is over.
Over(r) == run' = [run EXCEPT ![r] = Off]

LockName(l) == IF l.goal = "job" THEN <<"job", l.job>> ELSE <<"thread", l.thread>>

Timeout(l) ==
    CASE l.goal = "thread" -> ThreadTime
      [] l.goal = "again" -> AgainTime
      [] l.goal = "job" -> JobTime

lock(l, goal) == [l EXCEPT !.pc = "select", !.goal = goal]

\* lock() makes sure that an expired lock is gone, ...
Select(r) ==
    LET n == LockName(run[r])
    IN  /\ run[r].pc = "select"
        /\ Goto(r, [run[r] EXCEPT !.seen = row[n].lid,
                        !.pc = IF row[n] = NoRow THEN "insert" ELSE "expire"])
        /\ UNCHANGED <<now, row, log, admin, fails>>

\* Variant: the lock of the name is released, whoever has it by now.
stillThere(x, lid, t) == TRUE

stillExpired(x, lid, t) == x.lid = lid /\ x.expire <= t

Expire(r) ==
    LET n == LockName(run[r])
    IN  /\ run[r].pc = "expire"
        /\ \E t \in Clock(r) :
             row' = IF stillExpired(row[n], run[r].seen, t)
                    THEN [row EXCEPT ![n] = NoRow] ELSE row
        /\ Goto(r, [run[r] EXCEPT !.pc = "insert", !.seen = None])
        /\ UNCHANGED <<now, log, admin, fails>>

(***************************************************************************)
(* SerialLauncher: where a process goes on.                                *)
(***************************************************************************)
nextJob(l) ==
    IF l.job < Jobs THEN [l EXCEPT !.pc = "scheduled", !.job = @ + 1]
    ELSE [l EXCEPT !.pc = "release"]

notScheduled(l) == IF l.manual THEN [l EXCEPT !.pc = "shutdown"] ELSE nextJob(l)

\* A thread is locked: by a run that was asked to use it this is only logged.
threadTaken(l) ==
    CASE l.option -> [l EXCEPT !.pc = "scheduled"]
      [] ~l.option /\ l.thread < MaxThreads ->
             [l EXCEPT !.pc = "probe", !.thread = @ + 1]
      [] ~l.option /\ l.thread = MaxThreads /\ l.polls > 0 ->
             [l EXCEPT !.pc = "probe", !.thread = 1, !.polls = @ - 1]
      [] OTHER -> [l EXCEPT !.pc = "shutdown"]

\* The own lock of a run that locks its thread again is expired and gone.
locked(l, lid, end, held) ==
    CASE l.goal = "thread" ->
             [l EXCEPT !.pc = "scheduled", !.own = lid, !.cur = lid, !.until = end,
                       !.polls = 0]
      [] l.goal = "again" ->
             nextJob([l EXCEPT !.own = None, !.cur = lid, !.until = end])
      [] l.goal = "job" ->
             [l EXCEPT !.pc = "callback", !.jlock = lid, !.juntil = end,
                       !.held = held]

notLocked(l) ==
    CASE l.goal = "thread" -> threadTaken(l)
      [] l.goal = "again" -> [l EXCEPT !.pc = "release", !.cur = None, !.until = 0]
      [] l.goal = "job" -> [l EXCEPT !.pc = IF l.manual THEN "shutdown" ELSE "check"]

\* ... and inserts a row of its own, which fails if there is one.
Insert(r) ==
    LET n == LockName(run[r])
        l == run[r]
        free == {k \in 1..MaxLids : <<r, k>> \notin Remembered}
        lid == <<r, CHOOSE k \in free : TRUE>>
    IN  /\ l.pc = "insert" /\ free # {}
        /\ IF row[n] = NoRow
           THEN \E t \in Clock(r) :
                  /\ row' = [row EXCEPT ![n] = [lid |-> lid, killed |-> FALSE,
                                                 expire |-> t + Timeout(l)]]
                  /\ Goto(r, locked(l, lid, t + Timeout(l), l.until > now))
           ELSE Goto(r, notLocked(l)) /\ UNCHANGED row
        /\ UNCHANGED <<now, log, admin, fails>>

\* launchJobs(): findFreeThread(), or the thread that was asked for.
Start(r) ==
    /\ run[r].pc = "off"
    /\ Goto(r, [Off EXCEPT !.pc = "probe", !.polls = MaxPolls])
    /\ UNCHANGED <<now, row, log, admin, fails>>

StartThread(r, t) ==
    /\ run[r].pc = "off"
    /\ Goto(r, [Off EXCEPT !.pc = "probe", !.thread = t, !.option = TRUE])
    /\ UNCHANGED <<now, row, log, admin, fails>>

\* A job launched by hand, by drush only if it is scheduled.
RunCronJob(r, j) ==
    /\ run[r].pc = "off"
    /\ \E s \in {"select", "scheduled"} :
         Goto(r, [Off EXCEPT !.pc = s, !.manual = TRUE, !.job = j, !.goal = "job"])
    /\ UNCHANGED <<now, row, log, admin, fails>>

Probe(r) ==
    /\ run[r].pc = "probe"
    /\ Goto(r, IF isLocked(<<"thread", run[r].thread>>)
               THEN threadTaken(run[r]) ELSE lock(run[r], "thread"))
    /\ UNCHANGED <<now, row, log, admin, fails>>

(***************************************************************************)
(* runThread() and CronJob::run().                                         *)
(***************************************************************************)
\* Variant: the schedule is looked at, the lock is not.
ScheduledLocked(r) ==
    LET l == run[r]
        elsewhere == l.option /\ JobThread[l.job] \notin {0, l.thread}
    IN  /\ l.pc = "scheduled"
        /\ Goto(r, IF elsewhere
                   THEN notScheduled(l) ELSE [l EXCEPT !.pc = "due"])
        /\ UNCHANGED <<now, row, log, admin, fails>>

\* The job may run in this thread and is not locked, ...
Scheduled(r) ==
    LET l == run[r]
        elsewhere == l.option /\ JobThread[l.job] \notin {0, l.thread}
    IN  /\ l.pc = "scheduled"
        /\ Goto(r, IF elsewhere \/ isLocked(<<"job", l.job>>)
                   THEN notScheduled(l) ELSE [l EXCEPT !.pc = "due"])
        /\ UNCHANGED <<now, row, log, admin, fails>>

pending(last, t) == \E s \in Schedule : last < s /\ s <= t

shouldRun(last, t) ==
    \E s \in Schedule :
        last < s /\ s <= t /\ (CatchUp = 0 \/ t <= s + CatchUp)

\* ... and it is due according to the log.
Due(r) ==
    /\ run[r].pc = "due"
    /\ Goto(r, IF shouldRun(log[run[r].job].start, now)
               THEN lock(run[r], "job") ELSE notScheduled(run[r]))
    /\ UNCHANGED <<now, row, log, admin, fails>>

\* startLog(), then the callback returns or throws an exception.
Callback(r) ==
    /\ run[r].pc = "callback"
    /\ \E s, t \in Clock(r) :
         /\ s <= t
         /\ row' = IF run[r].job = CleanupJob THEN cleanup(t) ELSE row
         /\ Goto(r, [run[r] EXCEPT !.pc = "finish", !.start = s])
    /\ UNCHANGED <<now, log, admin, fails>>

\* The entry is the latest if none started later.
logged(l, by) ==
    IF l.start < log[l.job].start THEN log
    ELSE [log EXCEPT ![l.job] = [start |-> l.start, by |-> by]]

Finish(r) ==
    LET l == run[r]
    IN  /\ l.pc = "finish"
        /\ log' = logged(l, IF ~l.manual /\ l.held /\ l.juntil > now
                            THEN "run" ELSE "other")
        /\ Goto(r, [l EXCEPT !.pc = "unlock", !.start = 0])
        /\ UNCHANGED <<now, row, admin, fails>>

Unlock(r) ==
    /\ run[r].pc = "unlock"
    /\ row' = unlock(run[r].jlock)
    /\ Goto(r, [run[r] EXCEPT !.jlock = None, !.juntil = 0, !.held = FALSE,
                    !.pc = IF run[r].manual THEN "shutdown" ELSE "check"])
    /\ UNCHANGED <<now, log, admin, fails>>

\* Has someone else taken the thread?
Check(r) ==
    LET l == run[r]
        n == <<"thread", l.thread>>
    IN  /\ l.pc = "check"
        /\ Goto(r, CASE ~isLocked(n) -> lock(l, "again")
                     [] isLocked(n) /\ row[n].lid # l.cur ->
                            [l EXCEPT !.pc = "release"]
                     [] OTHER -> nextJob(l))
        /\ UNCHANGED <<now, row, log, admin, fails>>

\* launchJobs() unlocks the thread with the id it knows.
Release(r) ==
    LET l == run[r]
    IN  /\ l.pc = "release"
        /\ row' = unlock(l.own)
        /\ Goto(r, [l EXCEPT !.pc = "shutdown", !.own = None,
                        !.cur = IF @ = l.own THEN None ELSE @,
                        !.until = IF l.cur = l.own THEN 0 ELSE @])
        /\ UNCHANGED <<now, log, admin, fails>>

(***************************************************************************)
(* The end of a process: the shutdown functions unlock what it still       *)
(* holds, in this order, and then finish a log entry.                      *)
(***************************************************************************)
\* Variant: what launchJobs() has locked is taken for what runThread() holds.
ShutdownOwn(r) ==
    LET l == run[r]
    IN  /\ l.pc = "shutdown"
        /\ row' = unlock(l.own)
        /\ IF l.jlock = None THEN Over(r)
           ELSE Goto(r, [l EXCEPT !.pc = "shutdownJob", !.own = None, !.cur = None,
                            !.until = 0])
        /\ UNCHANGED <<now, log, admin, fails>>

Shutdown(r) ==
    LET l == run[r]
    IN  /\ l.pc = "shutdown"
        /\ row' = unlock(l.cur)
        /\ IF l.jlock = None THEN Over(r)
           ELSE Goto(r, [l EXCEPT !.pc = "shutdownJob", !.own = None, !.cur = None,
                            !.until = 0])
        /\ UNCHANGED <<now, log, admin, fails>>

ShutdownJob(r) ==
    LET l == run[r]
    IN  /\ l.pc = "shutdownJob"
        /\ row' = unlock(l.jlock)
        /\ IF l.start = 0 THEN Over(r)
           ELSE Goto(r, [l EXCEPT !.pc = "shutdownLog", !.jlock = None, !.juntil = 0])
        /\ UNCHANGED <<now, log, admin, fails>>

ShutdownLog(r) ==
    /\ run[r].pc = "shutdownLog"
    /\ log' = logged(run[r], "other")
    /\ Over(r)
    /\ UNCHANGED <<now, row, admin, fails>>

Fail == fails < MaxFails /\ fails' = fails + 1

Ending == {"off", "shutdown", "shutdownJob", "shutdownLog"}

\* A fatal error, or the time limit.
Fatal(r) ==
    LET l == run[r]
    IN  /\ l.pc \notin Ending
        /\ Fail
        /\ \E s \in IF l.pc = "callback" THEN Clock(r) ELSE {l.start} :
             Goto(r, [l EXCEPT !.pc = "shutdown", !.seen = None, !.start = s])
        /\ UNCHANGED <<now, row, log, admin>>

Kill(r) ==
    /\ run[r].pc # "off"
    /\ Fail
    /\ row' = [n \in Name |->
                 IF row[n] # NoRow /\ row[n].lid \in {run[r].cur, run[r].jlock}
                 THEN [row[n] EXCEPT !.killed = TRUE] ELSE row[n]]
    /\ Over(r)
    /\ UNCHANGED <<now, log, admin>>

\* unlockCronJob(): the lock that is read is unlocked.
AdminSelect(j) ==
    LET n == <<"job", j>>
    IN  /\ admin = None /\ isLocked(n)
        /\ Fail
        /\ admin' = row[n].lid
        /\ run' = [r \in Run |-> IF run[r].jlock = row[n].lid
                                 THEN [run[r] EXCEPT !.juntil = 0] ELSE run[r]]
        /\ UNCHANGED <<now, row, log>>

AdminUnlock ==
    /\ admin # None
    /\ row' = unlock(admin)
    /\ admin' = None
    /\ UNCHANGED <<now, log, run, fails>>

Tick ==
    /\ now < MaxTime
    /\ now' = now + 1
    /\ UNCHANGED <<row, log, run, admin, fails>>

Step(r) ==
    \/ Probe(r) \/ Select(r) \/ Expire(r) \/ Insert(r)
    \/ Scheduled(r) \/ Due(r) \/ Callback(r) \/ Finish(r) \/ Unlock(r)
    \/ Check(r) \/ Release(r)
    \/ Shutdown(r) \/ ShutdownJob(r) \/ ShutdownLog(r)

Next ==
    \/ \E r \in Run :
         \/ Start(r) \/ Step(r) \/ Fatal(r) \/ Kill(r)
         \/ \E t \in Thread : StartThread(r, t)
         \/ \E j \in Job : RunCronJob(r, j)
    \/ \E j \in Job : AdminSelect(j)
    \/ AdminUnlock
    \/ Tick

Spec == Init /\ [][Next]_vars

-----------------------------------------------------------------------------
\* "This method must handle the locking of job before launching it"
\* (LauncherBase): two processes run a job at the same time, or the jobs of a
\* thread, only if the lease of one of them is over or was revoked by hand.
LeasesExclusive ==
    \A r, s \in Run : r # s =>
        /\ ~ /\ run[r].juntil > now /\ run[s].juntil > now
             /\ run[r].job = run[s].job
        /\ ~ /\ run[r].until > now /\ run[s].until > now
             /\ run[r].thread = run[s].thread

\* The shutdown functions: a lock that outlives its process is that of a
\* process that was killed.
NothingLeftBehind ==
    \A n \in Name : row[n] # NoRow =>
        \/ row[n].killed
        \/ \E r \in Run : row[n].lid \in {run[r].cur, run[r].jlock}

\* runThread(), with one thread: a run that holds its thread starts a job only
\* if no run that held it has executed the job since it was scheduled last,
\* however long ago it looked at the lock and the log.
StartsDue ==
    [][\A r \in Run :
         LET l == run[r]
         IN  /\ MaxThreads = 1
             /\ l.pc = "insert" /\ run'[r].pc = "callback"
             /\ ~l.manual /\ l.until > now /\ log[l.job].by = "run"
             => pending(log[l.job].start, now)]_vars

\* Why these hold.  A process holds lock ids of its own, no lease without one,
\* and the rows that have them are those of its thread and job.
Locking == {"select", "expire", "insert"}

OwnIds ==
    \A r \in Run :
        LET l == run[r]
        IN  /\ {l.own, l.cur, l.jlock} \ {None} \subseteq {r} \X (1..MaxLids)
            /\ l.cur = None => l.until = 0
            /\ l.jlock = None => l.juntil = 0
            /\ l.cur = l.jlock => l.cur = None
            /\ l.jlock # None =>
                 l.pc \in {"callback", "finish", "unlock", "shutdown", "shutdownJob"}
            /\ \/ l.pc \in {"off", "probe", "shutdownJob", "shutdownLog"}
               \/ l.pc \in Locking /\ l.goal = "thread"
               => l.cur = None

RowsInPlace ==
    \A r \in Run, n \in Name : row[n] # NoRow =>
        /\ row[n].lid = run[r].cur => n = <<"thread", run[r].thread>>
        /\ row[n].lid = run[r].jlock => n = <<"job", run[r].job>>

\* A lease that is not over is that of the row.
RowsBackLeases ==
    \A r \in Run :
        LET l == run[r]
        IN  /\ l.until > now =>
                 /\ l.cur # None
                 /\ row[<<"thread", l.thread>>].lid = l.cur
                 /\ row[<<"thread", l.thread>>].expire = l.until
            /\ l.juntil > now =>
                 /\ l.jlock # None
                 /\ row[<<"job", l.job>>].lid = l.jlock
                 /\ row[<<"job", l.job>>].expire = l.juntil

\* What the administrator unlocks was revoked.
Revoked ==
    admin # None => \A r \in Run :
        /\ run[r].cur # admin
        /\ run[r].jlock = admin => run[r].juntil = 0

\* A thread is locked again when the run's lock on it is gone.
GoneWhenAgain ==
    \A r \in Run :
        LET l == run[r]
            x == row[<<"thread", l.thread>>]
        IN  l.goal = "again" /\ l.cur # None /\ x.lid = l.cur =>
              /\ l.pc = "select" => x.expire <= now
              /\ l.pc = "expire" => l.seen = l.cur /\ x.expire <= l.at
              /\ l.pc # "insert"

\* While a run that holds the only thread is about to launch a job, ...
Launching(l) ==
    /\ ~l.manual /\ l.until > now
    /\ l.pc = "due" \/ (l.pc \in Locking /\ l.goal = "job")

\* ... no run that held it executes that job, ...
LaunchesAlone ==
    MaxThreads = 1 => \A r, s \in Run :
        Launching(run[r]) /\ run[r].job = run[s].job =>
            ~ /\ run[s].pc \in {"callback", "finish"}
              /\ run[s].held /\ run[s].juntil > now

\* ... so what it has read in the log remains true.
StillPending ==
    MaxThreads = 1 => \A r \in Run :
        LET l == run[r]
        IN  Launching(l) /\ l.pc # "due" /\ log[l.job].by = "run"
              => pending(log[l.job].start, now)

Inv ==
    /\ TypeOK /\ OwnIds /\ RowsInPlace /\ RowsBackLeases /\ Revoked
    /\ GoneWhenAgain /\ LaunchesAlone /\ StillPending
    /\ NothingLeftBehind

\* lock(), expire() and unlock() keep the promise of any lock backend: a thread
\* or a job is granted to a process only when the leases of all the others on
\* it are over or were given up, and a lease is never prolonged otherwise,
\* although a process may go on to lock its thread again under a new id.
leaseOf(l) ==
    [n \in Name |->
        CASE n = <<"thread", l.thread>> -> l.until
          [] n = <<"job", l.job>> -> l.juntil
          [] OTHER -> 0]

leases == [r \in Run |-> leaseOf(run[r])]

Promise == INSTANCE Lease WITH Proc <- Run, Slack <- 1, lease <- leases

ImplementsLease == Promise!LeaseSpec
=============================================================================
