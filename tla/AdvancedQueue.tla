--------------------------- MODULE AdvancedQueue ---------------------------
(***************************************************************************)
(* The advancedqueue module: its database backend, the processor that      *)
(* works on a queue (from cron or drush), the forms with which an          *)
(* administrator releases, retries or deletes a job, and the requests that *)
(* enqueue jobs.                                                           *)
(*                                                                         *)
(* A job stays in the table after it was processed, in state success or    *)
(* failure, until a threshold removes it.  A processor keeps a copy of the *)
(* row from the SELECT of claimJob() on, and writes the whole copy back in *)
(* the end.  Each SQL statement is one step.  Payloads, messages and the   *)
(* listeners of the PRE_PROCESS and POST_PROCESS events are left out.      *)
(***************************************************************************)
EXTENDS Integers, FiniteSets

CONSTANTS
    Proc,            \* requests that process a queue
    Admin,           \* administrators retrying a job
    Caller,          \* requests that enqueue jobs
    Queue,           \* queue entities
    LeaseTime,       \* lease_time of the backend
    ProcessingTime,  \* processing_time of the queues, 0 for unlimited
    ThresholdType,   \* threshold of the queues: "none", "days" or "items"
    ThresholdLimit,  \* its limit, days being counted in ticks
    FinishedStates,  \* the states it removes
    RetryLimits,     \* max_retries of a job type or a result
    Delays,          \* delays of a retry or of an enqueued job
    BatchSizes,      \* numbers of jobs passed to enqueueJobs()
    MaxJobs,         \* bound: jobs ever inserted
    MaxTime,         \* bound: the clock stops here
    MaxFails,        \* bound: deaths and stop signals
    MaxEdits         \* bound: interventions of administrators

ASSUME AdvancedQueueAssumption ==
    /\ LeaseTime \in Nat
    /\ ProcessingTime \in Nat
    /\ ThresholdType \in {"none", "days", "items"}
    /\ ThresholdLimit \in Nat \ {0}
    /\ FinishedStates \in {{"success"}, {"success", "failure"}}
    /\ RetryLimits \subseteq Nat
    /\ Delays \subseteq Nat
    /\ BatchSizes \subseteq Nat \ {0}
    /\ MaxJobs \in Nat
    /\ MaxTime \in Nat
    /\ MaxFails \in Nat
    /\ MaxEdits \in Nat

VARIABLES
    now,          \* getCurrentTime()
    queues,       \* the queue entities that exist
    nextId,       \* the next value of the serial column job_id
    row,          \* row[j]: the row of job j
    pc,           \* pc[p]: what processor p does next
    working,      \* working[p]: the queue p works on
    before,       \* before[p]: $delete_before of its cleanup
    end,          \* end[p]: $expected_end
    copy,         \* copy[p]: the Job object p has, and its id
    loaded,       \* loaded[a]: the Job object of a retry form
    call,         \* call[c]: what is left of c's call of enqueueJobs()
    fails, edits, \* failures and interventions so far
    got,          \* history: got[j], who claimed j since it was last queued
    settled,      \* history: settled[j], when j last got a final result
    deleted,      \* history: jobs deleted by hand or with their queue
    disturbed     \* history: jobs written by somebody without a lease

history == <<got, settled, deleted, disturbed>>
bounds == <<fails, edits>>
local == <<pc, working, before, end, copy>>
vars == <<now, queues, nextId, row, local, loaded, call, bounds, history>>

Job == 1..MaxJobs

Final == {"success", "failure"}

NoRow == [queue |-> "none", state |-> "absent", retries |-> 0,
          available |-> 0, processed |-> 0, expires |-> 0]

NoJob == [id |-> 0, job |-> NoRow]

NoCall == [queue |-> "none", left |-> 0, delay |-> 0]

Rows == [queue : Queue \cup {"none"},
         state : {"absent", "queued", "processing"} \cup Final,
         retries : Nat, available : Nat, processed : Nat, expires : Nat]

TypeOK ==
    /\ now \in Nat \ {0}
    /\ queues \subseteq Queue
    /\ nextId \in Nat \ {0}
    /\ row \in [Job -> Rows]
    /\ pc \in [Proc -> {"off", "items", "purge", "loop", "select", "update",
                        "process", "success", "failure", "exception"}]
    /\ working \in [Proc -> Queue \cup {"none"}]
    /\ before \in [Proc -> Int]
    /\ end \in [Proc -> Nat]
    /\ copy \in [Proc -> [id : Job \cup {0}, job : Rows]]
    /\ loaded \in [Admin -> [id : Job \cup {0}, job : Rows]]
    /\ call \in [Caller -> [queue : Queue \cup {"none"}, left : Nat,
                            delay : Nat]]
    /\ fails \in Nat /\ edits \in Nat
    /\ got \in [Job -> SUBSET Proc]
    /\ settled \in [Job -> Nat]
    /\ deleted \subseteq Job
    /\ disturbed \subseteq Job

Init ==
    /\ now = 1
    /\ queues = Queue
    /\ nextId = 1
    /\ row = [j \in Job |-> NoRow]
    /\ pc = [p \in Proc |-> "off"]
    /\ working = [p \in Proc |-> "none"]
    /\ before = [p \in Proc |-> 0]
    /\ end = [p \in Proc |-> 0]
    /\ copy = [p \in Proc |-> NoJob]
    /\ loaded = [a \in Admin |-> NoJob]
    /\ call = [c \in Caller |-> NoCall]
    /\ fails = 0 /\ edits = 0
    /\ got = [j \in Job |-> {}]
    /\ settled = [j \in Job |-> 0]
    /\ deleted = {}
    /\ disturbed = {}

-----------------------------------------------------------------------------
Present(j) == row[j].state # "absent"

\* The rows S are put back into the queue, and any lease on them ends.
Requeued(S) ==
    /\ row' = [j \in Job |-> IF j \in S
                             THEN [row[j] EXCEPT !.state = "queued", !.expires = 0]
                             ELSE row[j]]
    /\ got' = [j \in Job |-> IF j \in S THEN {} ELSE got[j]]

Without(S) == [j \in Job |-> IF j \in S THEN NoRow ELSE row[j]]

\* updateJob(): the whole Job object replaces what the row holds now.
UpdateJob(id, job) ==
    row' = IF Present(id) THEN [row EXCEPT ![id] = job] ELSE row

Goto(p, s) == pc' = [pc EXCEPT ![p] = s]

\* processQueue() returns.
Leave(p) ==
    /\ Goto(p, "off")
    /\ working' = [working EXCEPT ![p] = "none"]
    /\ before' = [before EXCEPT ![p] = 0]
    /\ end' = [end EXCEPT ![p] = 0]
    /\ copy' = [copy EXCEPT ![p] = NoJob]

EnterLoop(p) ==
    /\ Goto(p, "loop")
    /\ before' = [before EXCEPT ![p] = 0]
    /\ end' = [end EXCEPT ![p] = now + ProcessingTime]

-----------------------------------------------------------------------------
\* Variant: a lease is reset in its last second.
LeaseOverEarly(j) == Present(j) /\ row[j].expires \in 1..now

\* Variant: nothing is reset.
LeaseNeverOver(j) == FALSE

\* The WHERE clause of the UPDATE that resets expired jobs, of every queue.
LeaseOver(j) == Present(j) /\ row[j].expires # 0 /\ row[j].expires < now

\* processQueue() starts: cleanupQueue() resets expired jobs.
ProcessQueue(p, q) ==
    /\ pc[p] = "off"
    /\ q \in queues
    /\ Requeued({j \in Job : LeaseOver(j)})
    /\ Goto(p, "items")
    /\ working' = [working EXCEPT ![p] = q]
    /\ UNCHANGED <<now, queues, nextId, before, end, copy, loaded, call, bounds,
                   settled, deleted, disturbed>>

\* Jobs of q in one of the states the threshold removes.
Finished(q) == {j \in Job : row[j].queue = q /\ row[j].state \in FinishedStates}

\* t is the time of the limit-th row of q, the latest first.
IsLimit(q, t) ==
    \E j \in Finished(q) :
        /\ row[j].processed = t
        /\ Cardinality({i \in Finished(q) : row[i].processed > t})
               < ThresholdLimit
        /\ Cardinality({i \in Finished(q) : row[i].processed >= t})
               >= ThresholdLimit

\* cleanupQueueItems() up to its SELECT.
SeekOldItems(p) ==
    /\ pc[p] = "items"
    /\ working[p] \in queues
    /\ \/ /\ ThresholdType = "none"
          /\ EnterLoop(p)
       \/ /\ ThresholdType = "days"
          /\ before' = [before EXCEPT ![p] = now - ThresholdLimit]
          /\ Goto(p, "purge")
          /\ UNCHANGED end
       \/ /\ ThresholdType = "items"
          /\ \E t \in 1..now :
                /\ IsLimit(working[p], t)
                /\ before' = [before EXCEPT ![p] = t]
          /\ Goto(p, "purge")
          /\ UNCHANGED end
       \/ /\ ThresholdType = "items"
          /\ Cardinality(Finished(working[p])) < ThresholdLimit
          /\ EnterLoop(p)
    /\ UNCHANGED <<now, queues, nextId, row, working, copy, loaded, call,
                   bounds, history>>

\* ... but the queue entity is gone: an error that ends the request.
QueueIsGone(p) ==
    /\ pc[p] = "items"
    /\ working[p] \notin queues
    /\ Leave(p)
    /\ UNCHANGED <<now, queues, nextId, row, loaded, call, bounds, history>>

\* Variant: the DELETE without its condition on the state.
OldItemsAny(q, t) == {j \in Job : row[j].queue = q /\ row[j].processed < t}

\* Variant: the DELETE with <= instead of <.
OldItemsUpTo(q, t) == {j \in Finished(q) : row[j].processed <= t}

\* The WHERE clause of the DELETE.
OldItems(q, t) == {j \in Finished(q) : row[j].processed < t}

PurgeOldItems(p) ==
    /\ pc[p] = "purge"
    /\ row' = Without(OldItems(working[p], before[p]))
    /\ EnterLoop(p)
    /\ UNCHANGED <<now, queues, nextId, working, copy, loaded, call, bounds,
                   history>>

-----------------------------------------------------------------------------
\* SELECT ... ORDER BY available, job_id.
Claimable(q) ==
    {j \in Job : /\ row[j].queue = q /\ row[j].state = "queued"
                 /\ row[j].available <= now /\ row[j].expires = 0}

First(j, S) ==
    \A i \in S : \/ row[j].available < row[i].available
                 \/ row[j].available = row[i].available /\ j <= i

SelectJob(p) ==
    /\ pc[p] \in {"loop", "select"}
    /\ \E j \in Claimable(working[p]) :
          /\ First(j, Claimable(working[p]))
          /\ copy' = [copy EXCEPT ![p] = [id |-> j, job |-> row[j]]]
    /\ Goto(p, "update")
    /\ UNCHANGED <<now, queues, nextId, row, working, before, end, loaded, call,
                   bounds, history>>

\* No jobs left to claim.
SelectNothing(p) ==
    /\ pc[p] \in {"loop", "select"}
    /\ Claimable(working[p]) = {}
    /\ Leave(p)
    /\ UNCHANGED <<now, queues, nextId, row, loaded, call, bounds, history>>

\* Variant: the UPDATE without its condition on expires.
UnclaimedIgnored(j) == Present(j)

\* The WHERE clause of the UPDATE that claims a job.
Unclaimed(j) == Present(j) /\ row[j].expires = 0

Leased(job, e) == [job EXCEPT !.state = "processing", !.expires = e]

\* The copy gets the new state and expiry, the rest of it is as selected.
ClaimJob(p) ==
    LET j == copy[p].id
        e == now + LeaseTime
    IN  /\ pc[p] = "update"
        /\ Unclaimed(j)
        /\ row' = [row EXCEPT ![j] = Leased(row[j], e)]
        /\ copy' = [copy EXCEPT ![p] = [id |-> j, job |-> Leased(copy[p].job, e)]]
        /\ got' = [got EXCEPT ![j] = @ \cup {p}]
        /\ Goto(p, "process")
        /\ UNCHANGED <<now, queues, nextId, working, before, end, loaded, call,
                       bounds, settled, deleted, disturbed>>

ClaimMissed(p) ==
    /\ pc[p] = "update"
    /\ ~Unclaimed(copy[p].id)
    /\ copy' = [copy EXCEPT ![p] = NoJob]
    /\ Goto(p, "select")
    /\ UNCHANGED <<now, queues, nextId, row, working, before, end, loaded, call,
                   bounds, history>>

\* processJob(): the job type returns a result or throws.
ProcessJob(p) ==
    /\ pc[p] = "process"
    /\ \E s \in {"success", "failure", "exception"} : Goto(p, s)
    /\ UNCHANGED <<now, queues, nextId, row, working, before, end, copy, loaded,
                   call, bounds, history>>

\* After a job: leave when the time is up.
TimeLimit(p) ==
    IF ProcessingTime # 0 /\ now >= end[p]
    THEN Leave(p)
    ELSE /\ Goto(p, "loop")
         /\ copy' = [copy EXCEPT ![p] = NoJob]
         /\ UNCHANGED <<working, before, end>>

\* Whoever writes a job after its lease was over, or without one, may take it
\* from somebody else.
Disturbs(id, without) ==
    disturbed' = IF without THEN disturbed \cup {id} ELSE disturbed

Overdue(p) == copy[p].job.expires < now

\* onSuccess(), onFailure().
Settle(p, state) ==
    LET c == copy[p]
    IN  /\ UpdateJob(c.id, [c.job EXCEPT !.state = state, !.expires = 0,
                                         !.processed = now])
        /\ settled' = IF Present(c.id) THEN [settled EXCEPT ![c.id] = now]
                                       ELSE settled
        /\ got' = got

\* retryJob().
Retry(id, job, delay) ==
    /\ UpdateJob(id, [job EXCEPT !.state = "queued", !.expires = 0,
                                 !.retries = @ + 1, !.available = now + delay])
    /\ got' = [got EXCEPT ![id] = {}]
    /\ settled' = settled

Report(p) ==
    /\ \/ pc[p] = "success" /\ Settle(p, "success")
       \/ pc[p] = "exception" /\ Settle(p, "failure")
       \/ /\ pc[p] = "failure"
          /\ \E m \in RetryLimits :
                \/ /\ copy[p].job.retries < m
                   /\ \E d \in Delays :
                         /\ now + d <= MaxTime  \* bound
                         /\ Retry(copy[p].id, copy[p].job, d)
                \/ /\ copy[p].job.retries >= m
                   /\ Settle(p, "failure")
    /\ Disturbs(copy[p].id, Overdue(p))
    /\ TimeLimit(p)
    /\ UNCHANGED <<now, queues, nextId, loaded, call, bounds, deleted>>

-----------------------------------------------------------------------------
Fail == fails < MaxFails /\ fails' = fails + 1

\* The processor dies; a lease it has runs out while the clock still ticks.
Kill(p) ==
    /\ pc[p] # "off"
    /\ copy[p].job.expires < MaxTime
    /\ Fail
    /\ Leave(p)
    /\ UNCHANGED <<now, queues, nextId, row, loaded, call, edits, history>>

\* stop() was called by a signal handler of drush.
Stop(p) ==
    /\ pc[p] = "loop"
    /\ Fail
    /\ Leave(p)
    /\ UNCHANGED <<now, queues, nextId, row, loaded, call, edits, history>>

\* The object startTransaction() returns is dropped, and with it goes the
\* transaction: every INSERT is committed on its own.
EnqueueJobs(c, q, n, d) ==
    /\ call[c] = NoCall
    /\ q \in queues
    /\ call' = [call EXCEPT ![c] = [queue |-> q, left |-> n,
                                    delay |-> d]]
    /\ UNCHANGED <<now, queues, nextId, row, local, loaded, bounds, history>>

InsertJob(c) ==
    /\ call[c].left > 0
    /\ nextId <= MaxJobs
    /\ now + call[c].delay <= MaxTime
    /\ row' = [row EXCEPT ![nextId] =
                  [NoRow EXCEPT !.queue = call[c].queue, !.state = "queued",
                                !.available = now + call[c].delay]]
    /\ nextId' = nextId + 1
    /\ call' = [call EXCEPT ![c] =
                    IF call[c].left = 1 THEN NoCall
                    ELSE [call[c] EXCEPT !.left = call[c].left - 1]]
    /\ UNCHANGED <<now, queues, local, loaded, bounds, history>>

CallerDies(c) ==
    /\ call[c] # NoCall
    /\ Fail
    /\ call' = [call EXCEPT ![c] = NoCall]
    /\ UNCHANGED <<now, queues, nextId, row, local, loaded, edits, history>>

-----------------------------------------------------------------------------
Edit == edits < MaxEdits /\ edits' = edits + 1

ReleaseJob(j) ==
    /\ Present(j)
    /\ Edit
    /\ Requeued({j})
    /\ Disturbs(j, TRUE)
    /\ UNCHANGED <<now, queues, nextId, local, loaded, call, fails, settled,
                   deleted>>

DeleteJob(j) ==
    /\ Present(j)
    /\ Edit
    /\ row' = Without({j})
    /\ deleted' = deleted \cup {j}
    /\ UNCHANGED <<now, queues, nextId, local, loaded, call, fails, got, settled,
                   disturbed>>

\* The retry form: loadJob(), and retryJob() unless the job has not failed.
LoadJob(a, j) ==
    /\ loaded[a] = NoJob
    /\ row[j].state = "failure"
    /\ Edit
    /\ loaded' = [loaded EXCEPT ![a] = [id |-> j, job |-> row[j]]]
    /\ UNCHANGED <<now, queues, nextId, row, local, call, fails, history>>

RetryLoaded(a) ==
    /\ loaded[a] # NoJob
    /\ Retry(loaded[a].id, loaded[a].job, 0)
    /\ Disturbs(loaded[a].id, TRUE)
    /\ loaded' = [loaded EXCEPT ![a] = NoJob]
    /\ UNCHANGED <<now, queues, nextId, local, call, bounds, deleted>>

\* The queue entity is deleted, and postDelete() deletes its jobs.
DeleteQueue(q) ==
    LET S == {j \in Job : row[j].queue = q}
    IN  /\ q \in queues
        /\ Edit
        /\ queues' = queues \ {q}
        /\ row' = Without(S)
        /\ deleted' = deleted \cup S
        /\ UNCHANGED <<now, nextId, local, loaded, call, fails, got, settled,
                       disturbed>>

Tick ==
    /\ now < MaxTime
    /\ now' = now + 1
    /\ UNCHANGED <<queues, nextId, row, local, loaded, call, bounds, history>>

Step(p) ==
    \/ SeekOldItems(p) \/ QueueIsGone(p) \/ PurgeOldItems(p)
    \/ SelectJob(p) \/ SelectNothing(p) \/ ClaimJob(p) \/ ClaimMissed(p)
    \/ ProcessJob(p) \/ Report(p)

Next ==
    \/ \E p \in Proc, q \in Queue : ProcessQueue(p, q)
    \/ \E p \in Proc : Step(p) \/ Kill(p) \/ Stop(p)
    \/ \E c \in Caller, q \in Queue, n \in BatchSizes, d \in Delays :
           EnqueueJobs(c, q, n, d)
    \/ \E c \in Caller : InsertJob(c) \/ CallerDies(c)
    \/ \E j \in Job : ReleaseJob(j) \/ DeleteJob(j)
    \/ \E a \in Admin, j \in Job : LoadJob(a, j)
    \/ \E a \in Admin : RetryLoaded(a)
    \/ \E q \in Queue : DeleteQueue(q)
    \/ Tick

Spec == Init /\ [][Next]_vars

\* Cron comes back to every queue, a started processor proceeds unless it
\* dies, and time passes.
FairSpec ==
    /\ Spec
    /\ \A p \in Proc, q \in Queue : WF_vars(ProcessQueue(p, q))
    /\ \A p \in Proc : WF_vars(Step(p))
    /\ WF_vars(Tick)

-----------------------------------------------------------------------------
Holds(p, j) ==
    /\ pc[p] \in {"process", "success", "failure", "exception"}
    /\ copy[p].id = j
    /\ ~Overdue(p)

\* Two processors work on the same job within their leases only if somebody
\* without a lease wrote it: a processor that was too slow, or an
\* administrator.  claimJob() and cleanupQueue() alone never do that.
LeasesExclusive ==
    \A p, q \in Proc, j \in Job :
        Holds(p, j) /\ Holds(q, j) => p = q \/ j \in disturbed

\* "every job is guaranteed to be executed at least once" (BackendInterface):
\* a job that left the table was deleted by hand or has got a final result,
\* whatever the threshold, and whatever died in between.
NothingLost ==
    \A j \in Job :
        j < nextId /\ ~Present(j) => j \in deleted \/ settled[j] # 0

\* The threshold keeps the jobs it says: a cleanup never removes one of the
\* ThresholdLimit jobs that got their result last.
KeepsRecent ==
    [][\A p \in Proc, j \in Job :
          /\ ThresholdType = "items"
          /\ pc[p] = "purge" /\ pc'[p] = "loop"
          /\ Present(j) /\ row'[j] = NoRow
          => Cardinality({i \in Job : settled[i] > row[j].processed})
                 >= ThresholdLimit]_vars

\* Every job gets a final result in the end, unless it or its queue is
\* deleted.
EventuallySettled ==
    \A j \in Job :
        (j < nextId) ~> (\/ settled[j] # 0
                         \/ j \in deleted
                         \/ row[j].queue \notin queues)

\* Why these hold.  Ids are not used twice; a final state in the table is a
\* result some processor has written, no later than now; a processor within
\* its lease finds that lease in the row; and what a cleanup has read as the
\* time of the limit-th job can only be outdated by later results.
JobsInOrder ==
    /\ \A j \in Job : j >= nextId => row[j] = NoRow
    /\ \A p \in Proc :
          /\ copy[p].id < nextId
          /\ pc[p] \in {"update", "process", "success", "failure", "exception"}
                 => copy[p].id # 0
    /\ \A a \in Admin :
          loaded[a].id < nextId /\ (loaded[a] # NoJob => loaded[a].id # 0)

ResultsKept ==
    \A j \in Job :
        /\ settled[j] <= now
        /\ row[j].state \in Final => row[j].processed \in 1..settled[j]

RowHasLease ==
    \A p \in Proc, j \in Job :
        Holds(p, j) /\ j \notin disturbed /\ Present(j)
            => row[j].expires = copy[p].job.expires

LimitStillRecent ==
    \A p \in Proc :
        pc[p] = "purge" /\ ThresholdType = "items"
            => Cardinality({i \in Job : settled[i] >= before[p]})
                   >= ThresholdLimit

Inv ==
    /\ TypeOK
    /\ JobsInOrder
    /\ ResultsKept
    /\ RowHasLease
    /\ LimitStillRecent
    /\ LeasesExclusive
    /\ NothingLost

\* "Only one thread can succeed in updating the same row" (claimJob()): a job
\* that is queued once is claimed by one processor.
ClaimedOnce == \A j \in Job : Cardinality(got[j]) <= 1

=============================================================================
