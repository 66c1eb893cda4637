----------------------------- MODULE Semaphore -----------------------------
(***************************************************************************)
(* The database lock backend of Drupal core (DatabaseLockBackend with      *)
(* LockBackendAbstract): named locks kept as rows of the `semaphore`       *)
(* table, one row per name, carrying the id of the request that inserted   *)
(* it and the time at which it expires.                                    *)
(*                                                                         *)
(* Every SQL statement is one atomic step; between two statements of a     *)
(* call any other request may run.  A request keeps, besides the table,    *)
(* only its own array `locks`.  The table is created on demand.            *)
(***************************************************************************)
EXTENDS Integers, FiniteSets

CONSTANTS
    Proc,         \* requests; getLockId() draws a distinct id for each
    Name,         \* lock names, already normalised
    Timeouts,     \* timeouts callers pass to acquire()
    MinTimeout,   \* acquire() raises a timeout to at least this (1 ms)
    Slack,        \* added to the expiry read before it is compared (0.1 ms)
    MaxTime,      \* bound: the clock stops here
    MaxPolls,     \* bound: polls of one wait()
    MaxFaults     \* bound: failed statements and fatal errors

ASSUME TimeAssumption ==
    /\ Timeouts \subseteq Nat
    /\ MinTimeout \in Nat \ {0}
    /\ Slack \in Nat
    /\ MaxTime \in Nat

ASSUME IdAssumption ==
    /\ "none" \notin Proc
    /\ Name # {}

ASSUME BoundAssumption ==
    /\ MaxPolls \in Nat
    /\ MaxFaults \in Nat

VARIABLES
    now,       \* microtime(TRUE)
    table,     \* does the semaphore table exist
    row,       \* row[n]: the row of lock n, or NoRow
    locks,     \* locks[p]: names p believes it holds ($this->locks)
    pc,        \* pc[p]: the statement p runs next
    call,      \* call[p]: the local variables of p's current call
    faults,    \* failed statements and fatal errors so far
    granted    \* history: expiry of the lease p was last granted on n

vars == <<now, table, row, locks, pc, call, faults, granted>>

-----------------------------------------------------------------------------
NoRow == [value |-> "none", expire |-> 0]

Rows == {NoRow} \cup [value : Proc, expire : Nat]

\* `name` and `expire` are arguments or locals of acquire(); `retry` its loop
\* variable; `seen` the row lockMayBeAvailable() read; `polls` what is left
\* of the delay of wait(); `by` the caller of lockMayBeAvailable().
Calls == [name : Name, expire : Nat, retry : BOOLEAN, seen : Rows,
          polls : Nat, by : {"acquire", "wait"}]

Statements == {"extend", "insert", "createTable", "record", "select", "break",
               "check", "sleep", "delete", "deleteAll"}

Gone == {"exited", "crashed"}

NewCall(n, e, k, caller) ==
    [name |-> n, expire |-> e, retry |-> FALSE, seen |-> NoRow, polls |-> k,
     by |-> caller]

NoCall == NewCall(CHOOSE n \in Name : TRUE, 0, 0, "acquire")

TypeOK ==
    /\ now \in Nat \ {0}
    /\ table \in BOOLEAN
    /\ row \in [Name -> Rows]
    /\ locks \in [Proc -> SUBSET Name]
    /\ pc \in [Proc -> Statements \cup {"idle"} \cup Gone]
    /\ call \in [Proc -> Calls]
    /\ faults \in Nat
    /\ granted \in [Proc -> [Name -> Nat]]

Init ==
    /\ now = 1
    /\ table \in BOOLEAN
    /\ row = [n \in Name |-> NoRow]
    /\ locks = [p \in Proc |-> {}]
    /\ pc = [p \in Proc |-> "idle"]
    /\ call = [p \in Proc |-> NoCall]
    /\ faults = 0
    /\ granted = [p \in Proc |-> [n \in Name |-> 0]]

-----------------------------------------------------------------------------
AtLeast(t) == IF t < MinTimeout THEN MinTimeout ELSE t

Goto(p, s) == pc' = [pc EXCEPT ![p] = s]

\* The call ends and its locals go out of scope.
End(p, s) == Goto(p, s) /\ call' = [call EXCEPT ![p] = NoCall]

Return(p) == End(p, "idle")

\* acquire(): the expiry is computed before the first statement is sent.
Acquire(p, n, t) ==
    /\ pc[p] = "idle"
    /\ now + AtLeast(t) < MaxTime
    /\ call' = [call EXCEPT ![p] = NewCall(n, now + AtLeast(t), 0, "acquire")]
    /\ Goto(p, IF n \in locks[p] THEN "extend" ELSE "insert")
    /\ UNCHANGED <<now, table, row, locks, faults, granted>>

\* Variant: a renewal that drops the lock from `locks` even when it succeeds.
ExtendForgets(p) ==
    LET n == call[p].name
        e == call[p].expire
    IN  /\ pc[p] = "extend"
        /\ locks' = [locks EXCEPT ![p] = @ \ {n}]
        /\ IF row[n].value = p
           THEN /\ row' = [row EXCEPT ![n] = [value |-> p, expire |-> e]]
                /\ granted' = [granted EXCEPT ![p][n] = e]
           ELSE /\ granted' = [granted EXCEPT ![p][n] = 0]
                /\ UNCHANGED row
        /\ Return(p)
        /\ UNCHANGED <<now, table, faults>>

\* acquire() of a lock we already hold: UPDATE ... WHERE name AND value.
Extend(p) ==
    LET n == call[p].name
        e == call[p].expire
    IN  /\ pc[p] = "extend"
        /\ IF row[n].value = p
           THEN /\ row' = [row EXCEPT ![n] = [value |-> p, expire |-> e]]
                /\ granted' = [granted EXCEPT ![p][n] = e]
                /\ UNCHANGED locks
           ELSE /\ locks' = [locks EXCEPT ![p] = @ \ {n}]
                /\ granted' = [granted EXCEPT ![p][n] = 0]
                /\ UNCHANGED row
        /\ Return(p)
        /\ UNCHANGED <<now, table, faults>>

\* INSERT under the unique key on the name succeeds.
InsertRow(p) ==
    LET n == call[p].name
        e == call[p].expire
    IN  /\ pc[p] = "insert"
        /\ table
        /\ row[n] = NoRow
        /\ row' = [row EXCEPT ![n] = [value |-> p, expire |-> e]]
        /\ granted' = [granted EXCEPT ![p][n] = e]
        /\ Goto(p, "record")
        /\ UNCHANGED <<now, table, locks, call, faults>>

\* ... and only then does the request note that it holds the lock.
Record(p) ==
    /\ pc[p] = "record"
    /\ locks' = [locks EXCEPT ![p] = @ \cup {call[p].name}]
    /\ Return(p)
    /\ UNCHANGED <<now, table, row, faults, granted>>

\* Variant: the retry loop without its "only once".
InsertConflictRetries(p) ==
    /\ pc[p] = "insert"
    /\ table
    /\ row[call[p].name] # NoRow
    /\ Goto(p, "select")
    /\ UNCHANGED <<now, table, row, locks, call, faults, granted>>

\* INSERT violates the unique key: on the second pass acquire() gives up, on
\* the first it asks lockMayBeAvailable().
InsertConflict(p) ==
    /\ pc[p] = "insert"
    /\ table
    /\ row[call[p].name] # NoRow
    /\ IF call[p].retry
       THEN Return(p)
       ELSE Goto(p, "select") /\ UNCHANGED call
    /\ UNCHANGED <<now, table, row, locks, faults, granted>>

\* INSERT fails for another reason: there is no table.
InsertNoTable(p) ==
    /\ pc[p] = "insert"
    /\ ~table
    /\ Goto(p, "createTable")
    /\ UNCHANGED <<now, table, row, locks, call, faults, granted>>

\* ensureTableExists() returned TRUE and `$retry = !$retry`: one more pass, if
\* the failed one was the first.
NextPass(p) ==
    IF call[p].retry
    THEN Return(p)
    ELSE Goto(p, "insert") /\ call' = [call EXCEPT ![p].retry = TRUE]

\* ensureTableExists() creates the table, or catches that somebody has.
CreateTable(p) ==
    /\ pc[p] = "createTable"
    /\ table' = TRUE
    /\ NextPass(p)
    /\ UNCHANGED <<now, row, locks, faults, granted>>

-----------------------------------------------------------------------------
\* Variant: wait() without the check that there is delay left.
MayBeAvailableForever(p, b) ==
    \/ /\ call[p].by = "acquire" /\ b
       /\ call' = [call EXCEPT ![p].retry = TRUE, ![p].seen = NoRow]
       /\ Goto(p, "insert")
    \/ /\ call[p].by = "wait" /\ ~b
       /\ call' = [call EXCEPT ![p].seen = NoRow]
       /\ Goto(p, "sleep")
    \/ /\ IF call[p].by = "acquire" THEN ~b ELSE b
       /\ Return(p)

\* lockMayBeAvailable() returns b to acquire(), which then makes its second
\* pass, or to the polling loop of wait().
MayBeAvailable(p, b) ==
    \/ /\ call[p].by = "acquire" /\ b
       /\ call' = [call EXCEPT ![p].retry = TRUE, ![p].seen = NoRow]
       /\ Goto(p, "insert")
    \/ /\ call[p].by = "wait" /\ ~b /\ call[p].polls > 0
       /\ call' = [call EXCEPT ![p].seen = NoRow]
       /\ Goto(p, "sleep")
    \/ /\ IF call[p].by = "acquire" THEN ~b ELSE b \/ call[p].polls = 0
       /\ Return(p)

\* SELECT expire, value: no row, or no table, means available.
Select(p) ==
    LET n == call[p].name
    IN  /\ pc[p] = "select"
        /\ \/ /\ ~table \/ row[n] = NoRow
              /\ MayBeAvailable(p, TRUE)
           \/ /\ table
              /\ row[n] # NoRow
              /\ call' = [call EXCEPT ![p].seen = row[n]]
              /\ Goto(p, "check")
        /\ UNCHANGED <<now, table, row, locks, faults, granted>>

\* $now > $expire, with the clock read after the row.
CheckExpired(p) ==
    /\ pc[p] = "check"
    /\ \/ /\ now > call[p].seen.expire
          /\ Goto(p, "break")
          /\ UNCHANGED call
       \/ /\ now <= call[p].seen.expire
          /\ MayBeAvailable(p, FALSE)
    /\ UNCHANGED <<now, table, row, locks, faults, granted>>

\* Variant: the DELETE that breaks a row without its second condition.
StillThatOwner(r, seen) == r.value = seen.value

\* The WHERE clause of the DELETE that breaks the row which was seen expired.
StillThatRow(r, seen) ==
    /\ r.value = seen.value
    /\ r.expire <= seen.expire + Slack

Break(p) ==
    LET n == call[p].name
        b == StillThatRow(row[n], call[p].seen)
    IN  /\ pc[p] = "break"
        /\ row' = IF b THEN [row EXCEPT ![n] = NoRow] ELSE row
        /\ MayBeAvailable(p, b)
        /\ UNCHANGED <<now, table, locks, faults, granted>>

\* wait(): sleep first, then poll, k times at most.
Wait(p, n, k) ==
    /\ pc[p] = "idle"
    /\ call' = [call EXCEPT ![p] = NewCall(n, 0, k, "wait")]
    /\ Goto(p, "sleep")
    /\ UNCHANGED <<now, table, row, locks, faults, granted>>

Sleep(p) ==
    /\ pc[p] = "sleep"
    /\ call' = [call EXCEPT ![p].polls = @ - 1]
    /\ Goto(p, "select")
    /\ UNCHANGED <<now, table, row, locks, faults, granted>>

-----------------------------------------------------------------------------
\* release(): the belief goes first, the row second.
Release(p, n) ==
    /\ pc[p] = "idle"
    /\ call' = [call EXCEPT ![p] = NewCall(n, 0, 0, "acquire")]
    /\ locks' = [locks EXCEPT ![p] = @ \ {n}]
    /\ granted' = [granted EXCEPT ![p][n] = 0]
    /\ Goto(p, "delete")
    /\ UNCHANGED <<now, table, row, faults>>

\* Variant: release() deletes the row whoever owns it.
DeleteAnybodys(p) ==
    /\ pc[p] = "delete"
    /\ row' = [row EXCEPT ![call[p].name] = NoRow]
    /\ Return(p)
    /\ UNCHANGED <<now, table, locks, faults, granted>>

DeleteOwn(p) ==
    LET n == call[p].name
    IN  /\ pc[p] = "delete"
        /\ row' = IF row[n].value = p THEN [row EXCEPT ![n] = NoRow] ELSE row
        /\ Return(p)
        /\ UNCHANGED <<now, table, locks, faults, granted>>

\* releaseAll(), the shutdown function the constructor registers.
ReleaseAll(p) ==
    /\ locks' = [locks EXCEPT ![p] = {}]
    /\ granted' = [granted EXCEPT ![p] = [n \in Name |-> 0]]
    /\ End(p, IF locks[p] = {} THEN "exited" ELSE "deleteAll")

Shutdown(p) ==
    /\ pc[p] = "idle"
    /\ ReleaseAll(p)
    /\ UNCHANGED <<now, table, row, faults>>

DeleteAll(p) ==
    /\ pc[p] = "deleteAll"
    /\ row' = [n \in Name |-> IF row[n].value = p THEN NoRow ELSE row[n]]
    /\ Goto(p, "exited")
    /\ UNCHANGED <<now, table, locks, call, faults, granted>>

-----------------------------------------------------------------------------
\* The database fails p's statement.  An INSERT goes to ensureTableExists(),
\* which takes a failed CREATE TABLE for one that was not needed, so that the
\* loop goes on without a table, and lets acquire() throw on an exception of
\* another kind.  Everything else ends the call with an exception, state as
\* it is; without a table the SELECT cannot fail in any other way.
DbFault(p) ==
    /\ pc[p] \in Statements \ {"record", "check", "sleep"}
    /\ pc[p] = "select" => table
    /\ faults < MaxFaults
    /\ faults' = faults + 1
    /\ \/ pc[p] = "insert" /\ Goto(p, "createTable") /\ UNCHANGED call
       \/ pc[p] = "createTable" /\ NextPass(p)
       \/ pc[p] = "deleteAll" /\ End(p, "exited")
       \/ pc[p] \notin {"insert", "deleteAll"} /\ Return(p)
    /\ UNCHANGED <<now, table, row, locks, granted>>

\* A fatal error (memory or time limit) inside a call: PHP still runs the
\* shutdown function, which only knows the locks recorded so far.
FatalError(p) ==
    /\ pc[p] \in Statements \ {"deleteAll"}
    /\ faults < MaxFaults
    /\ faults' = faults + 1
    /\ ReleaseAll(p)
    /\ UNCHANGED <<now, table, row>>

\* The process is killed: no shutdown function runs.
Crash(p) ==
    /\ pc[p] \notin Gone
    /\ granted' = [granted EXCEPT ![p] = [n \in Name |-> 0]]
    /\ locks' = [locks EXCEPT ![p] = {}]
    /\ End(p, "crashed")
    /\ UNCHANGED <<now, table, row, faults>>

Tick ==
    /\ now < MaxTime
    /\ now' = now + 1
    /\ UNCHANGED <<table, row, locks, pc, call, faults, granted>>

\* The next statement of p's current call.
Step(p) ==
    \/ Extend(p) \/ InsertRow(p) \/ Record(p) \/ InsertConflict(p)
    \/ InsertNoTable(p) \/ CreateTable(p)
    \/ Select(p) \/ CheckExpired(p) \/ Break(p) \/ Sleep(p)
    \/ DeleteOwn(p) \/ DeleteAll(p)

Request(p) ==
    \/ \E n \in Name, t \in Timeouts : Acquire(p, n, t)
    \/ \E n \in Name, k \in 1..MaxPolls : Wait(p, n, k)
    \/ \E n \in Name : Release(p, n)
    \/ Shutdown(p)

Next ==
    \/ \E p \in Proc : Request(p) \/ Step(p)
    \/ \E p \in Proc : DbFault(p) \/ FatalError(p) \/ Crash(p)
    \/ Tick

Spec == Init /\ [][Next]_vars

\* A statement that was sent is eventually executed; nothing obliges a
\* request to make a call, and the clock may stop.
FairSpec == Spec /\ \A p \in Proc : WF_vars(Step(p))

-----------------------------------------------------------------------------
\* A lease that acquire() granted and that has not run out is backed by the
\* row it wrote: nobody's lockMayBeAvailable(), release() or releaseAll()
\* removed or replaced it.  This is what the two extra conditions of the
\* DELETE in lockMayBeAvailable() are for.
Live(p, n) == granted[p][n] >= now + Slack

LiveLeaseOwnsRow ==
    \A p \in Proc, n \in Name :
        Live(p, n)
            => row[n] = [value |-> p, expire |-> granted[p][n]]

\* Two requests never both rely on an unexpired lease on the same name, the
\* mutual exclusion cron, the router rebuild and the cache collectors build on.
OneLiveHolder ==
    \A p, q \in Proc, n \in Name :
        Live(p, n) /\ Live(q, n) => p = q

\* A request that shut down in order left no row of its own: whatever order
\* of acquire, failed renewal and release it went through, releaseAll() is
\* not skipped while the table still has a row with its id.
NothingLeftBehind ==
    faults = 0 =>
        \A p \in Proc, n \in Name : pc[p] = "exited" => row[n].value # p

\* acquire(), wait(), release() and releaseAll() end: the retry loop of
\* acquire() makes at most two passes whatever the other requests do.
CallsReturn ==
    \A p \in Proc : pc[p] \in Statements ~> pc[p] \notin Statements

\* Why the above hold: the row a request is about to break was read expired,
\* a request about to delete its rows no longer relies on them, a sleeping
\* one has delay left, an ended one holds nothing, and every row is known to
\* the request that will have to remove it.
BreaksExpired ==
    \A p \in Proc : pc[p] = "break" => call[p].seen.expire < now

DeletesForgone ==
    \A p \in Proc :
        /\ pc[p] = "delete" => granted[p][call[p].name] = 0
        /\ pc[p] = "deleteAll" => \A n \in Name : granted[p][n] = 0

SleepsWithDelayLeft ==
    \A p \in Proc : pc[p] = "sleep" => call[p].polls > 0

GoneHoldNothing ==
    \A p \in Proc : pc[p] \in Gone \cup {"deleteAll"} => locks[p] = {}

RowsTracked ==
    faults = 0 =>
        \A p \in Proc, n \in Name :
            row[n].value = p =>
                \/ n \in locks[p]
                \/ pc[p] \in {"record", "delete"} /\ call[p].name = n
                \/ pc[p] \in {"deleteAll", "crashed"}

IInv ==
    /\ TypeOK
    /\ LiveLeaseOwnsRow
    /\ BreaksExpired
    /\ DeletesForgone
    /\ SleepsWithDelayLeft
    /\ GoneHoldNothing
    /\ RowsTracked

\* The backend implements the abstract lease.
Promise == INSTANCE Lease WITH lease <- granted
ImplementsLease == Promise!LeaseSpec

=============================================================================
