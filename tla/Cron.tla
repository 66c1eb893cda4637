-------------------------------- MODULE Cron --------------------------------
(***************************************************************************)
(* The cron service of Drupal core (Cron::run): requests that take the     *)
(* `cron` lock, call every hook_cron(), note the time, release the lock    *)
(* and then work on the queues, the last without the lock and even when    *)
(* they did not get it.                                                    *)
(*                                                                         *)
(* A run is a consumer of DatabaseQueue.  The lock is the row that         *)
(* Semaphore models in detail; here acquire() and release() are the atomic *)
(* operations Semaphore is proved to implement.  Hook number SystemHook is *)
(* system_cron(), which collects the garbage of the queues.  The queues of  *)
(* batches are private to the Batch API and left out here.                 *)
(***************************************************************************)
EXTENDS DatabaseQueue, Sequences

CONSTANTS
    Queues,        \* the queue workers with a cron time, in order
    CronTime,      \* info['cron']['time']: budget and lease time of a queue
    LockTime,      \* timeout of the cron lock (900 s)
    Hooks,         \* number of hook_cron() implementations
    SystemHook,    \* which of them is system_cron()
    MaxFails       \* bound: exceptions, failed statements, errors and kills

ASSUME CronAssumption ==
    /\ BatchQueue = {}
    /\ Queues \in Seq(Queue)
    /\ CronTime \in LeaseTimes
    /\ LockTime \in Nat
    /\ Hooks \in Nat
    /\ SystemHook \in 1..Hooks
    /\ MaxFails \in Nat

VARIABLES
    pc,            \* pc[r]: what run r does next
    requestTime,   \* requestTime[r]: getRequestTime() of its request
    lock,          \* the row of the cron lock
    lockUntil,     \* lockUntil[r]: when r's lease on the lock ends, 0 if none
    hook,          \* hook[r]: the hook r calls next
    at,            \* at[r]: index in Queues of the queue r works on
    end,           \* end[r]: when r stops claiming from that queue
    cronLast,      \* state system.cron_last
    done,          \* history: items some worker processed successfully
    fails          \* failures so far

control == <<pc, requestTime, lock, lockUntil, hook, at, end, cronLast, done,
             fails>>
cronVars == <<queueVars, control>>

Run == Consumer

NoLock == [owner |-> "none", expire |-> 0]

States == {"off", "acquire", "hooks", "last", "release", "queue", "loop",
           "select", "update", "process", "delete", "delay", "requeue",
           "suspend"}

Holding == {"hooks", "last", "release"}

CronTypeOK ==
    /\ pc \in [Run -> States]
    /\ requestTime \in [Run -> Nat]
    /\ lock \in [owner : Run \cup {"none", "dead"}, expire : Nat]
    /\ lockUntil \in [Run -> Nat]
    /\ hook \in [Run -> 1..Hooks + 1]
    /\ at \in [Run -> 1..Len(Queues) + 1]
    /\ end \in [Run -> Nat]
    /\ cronLast \in Nat
    /\ done \subseteq Item
    /\ fails \in Nat

CronInit ==
    /\ QueueInit
    /\ pc = [r \in Run |-> "off"]
    /\ requestTime = [r \in Run |-> 0]
    /\ lock = NoLock
    /\ lockUntil = [r \in Run |-> 0]
    /\ hook = [r \in Run |-> 1]
    /\ at = [r \in Run |-> 1]
    /\ end = [r \in Run |-> 0]
    /\ cronLast = 0
    /\ done = {}
    /\ fails = 0

-----------------------------------------------------------------------------
Goto(r, s) == pc' = [pc EXCEPT ![r] = s]

\* Bound: what is leased or delayed at t runs out before the clock stops.
InTime(t) ==
    /\ t + LockTime < MaxTime
    /\ t + CronTime < MaxTime
    /\ \A d \in Delays : t + d < MaxTime

Fail ==
    /\ fails < MaxFails
    /\ InTime(now)
    /\ fails' = fails + 1

\* The request is over and its memory gone.
Over(r) ==
    /\ Goto(r, "off")
    /\ requestTime' = [requestTime EXCEPT ![r] = 0]
    /\ lockUntil' = [lockUntil EXCEPT ![r] = 0]
    /\ hook' = [hook EXCEPT ![r] = 1]
    /\ at' = [at EXCEPT ![r] = 1]
    /\ end' = [end EXCEPT ![r] = 0]

Start(r) ==
    /\ pc[r] = "off"
    /\ Goto(r, "acquire")
    /\ requestTime' = [requestTime EXCEPT ![r] = now]
    /\ UNCHANGED <<queueVars, lock, lockUntil, hook, at, end, cronLast, done, fails>>

\* Variant: an expired lock is not broken.
FreeUntouched == lock = NoLock

\* Nobody has the lock, or its lease is over and acquire() breaks it.
Free == lock = NoLock \/ now > lock.expire

AcquireLock(r) ==
    /\ pc[r] = "acquire"
    /\ Free
    /\ lock' = [owner |-> r, expire |-> now + LockTime]
    /\ lockUntil' = [lockUntil EXCEPT ![r] = now + LockTime]
    /\ Goto(r, "hooks")
    /\ UNCHANGED <<queueVars, requestTime, hook, at, end, cronLast, done,
                   fails>>

\* The rest of the run reads neither the request time nor the hook again.
EnterQueues(r) ==
    /\ requestTime' = [requestTime EXCEPT ![r] = 0]
    /\ hook' = [hook EXCEPT ![r] = 1]
    /\ Goto(r, "queue")

\* Cron is still running elsewhere: skip the hooks, not the queues.
AcquireFails(r) ==
    /\ pc[r] = "acquire"
    /\ ~Free
    /\ EnterQueues(r)
    /\ UNCHANGED <<queueVars, lock, lockUntil, at, end, cronLast, done, fails>>

\* The hook has returned or thrown an exception, which is logged; hook[r] is
\* the position of invokeAllWith() among the implementations.
HookDone(r) ==
    /\ hook' = [hook EXCEPT ![r] = @ + 1]
    /\ Goto(r, IF hook[r] = Hooks THEN "last" ELSE "hooks")
    /\ UNCHANGED <<requestTime, lock, lockUntil, at, end, cronLast, done>>

CallHook(r) ==
    /\ pc[r] = "hooks"
    /\ IF hook[r] = SystemHook
       THEN GarbageCollection(requestTime[r])
       ELSE UNCHANGED queueVars
    /\ HookDone(r)
    /\ UNCHANGED fails

HookThrows(r) ==
    /\ pc[r] = "hooks"
    /\ Fail
    /\ HookDone(r)
    /\ UNCHANGED queueVars

SetCronLastTime(r) ==
    /\ pc[r] = "last"
    /\ cronLast' = requestTime[r]
    /\ Goto(r, "release")
    /\ UNCHANGED <<queueVars, requestTime, lock, lockUntil, hook, at, end,
                   done, fails>>

\* Variant: release() without the condition on the owner.
WithoutAnyLock(r) == NoLock

\* DELETE ... WHERE value = own id.
WithoutOwnLock(r) == IF lock.owner = r THEN NoLock ELSE lock

ReleaseLock(r) ==
    /\ pc[r] = "release"
    /\ lock' = WithoutOwnLock(r)
    /\ lockUntil' = [lockUntil EXCEPT ![r] = 0]
    /\ EnterQueues(r)
    /\ UNCHANGED <<queueVars, at, end, cronLast, done, fails>>

-----------------------------------------------------------------------------
\* processQueues(): the next queue, or the end of the run.
OpenQueue(r) ==
    /\ pc[r] = "queue"
    /\ at[r] <= Len(Queues)
    /\ end' = [end EXCEPT ![r] = now + CronTime]
    /\ Goto(r, "loop")
    /\ UNCHANGED <<queueVars, requestTime, lock, lockUntil, hook, at, cronLast,
                   done, fails>>

Finish(r) ==
    /\ pc[r] = "queue"
    /\ at[r] > Len(Queues)
    /\ Over(r)
    /\ UNCHANGED <<queueVars, lock, cronLast, done, fails>>

NextQueue(r) ==
    /\ at' = [at EXCEPT ![r] = @ + 1]
    /\ end' = [end EXCEPT ![r] = 0]
    /\ Goto(r, "queue")

\* May r ask for an item: the time is checked between two items, not by the
\* loop inside claimItem().
Asks(r) == pc[r] = "select" \/ (pc[r] = "loop" /\ now < end[r])

TimeIsUp(r) ==
    /\ pc[r] = "loop"
    /\ now >= end[r]
    /\ NextQueue(r)
    /\ UNCHANGED <<queueVars, requestTime, lock, lockUntil, hook, cronLast, done,
                   fails>>

SelectItem(r) ==
    /\ Asks(r)
    /\ ClaimSelect(r, Queues[at[r]])
    /\ Goto(r, "update")
    /\ UNCHANGED <<requestTime, lock, lockUntil, hook, at, end, cronLast, done,
                   fails>>

SelectNothing(r) ==
    /\ Asks(r)
    /\ Claimable(Queues[at[r]]) = {}
    /\ NextQueue(r)
    /\ UNCHANGED <<queueVars, requestTime, lock, lockUntil, hook, cronLast, done,
                   fails>>

UpdateItem(r) ==
    /\ pc[r] = "update"
    /\ ClaimUpdate(r, CronTime)
    /\ Goto(r, IF Unclaimed(picked[r]) THEN "process" ELSE "select")
    /\ UNCHANGED <<requestTime, lock, lockUntil, hook, at, end, cronLast, done,
                   fails>>

\* processItem() returns.
ProcessItem(r) ==
    /\ pc[r] = "process"
    /\ done' = done \cup {claim[r].item}
    /\ Goto(r, "delete")
    /\ UNCHANGED <<queueVars, requestTime, lock, lockUntil, hook, at, end,
                   cronLast, fails>>

\* processItem() throws a DelayedRequeueException, a RequeueException or a
\* SuspendQueueException.
WorkerThrows(r) ==
    /\ pc[r] = "process"
    /\ Fail
    /\ \E s \in {"delay", "requeue", "suspend"} : Goto(r, s)
    /\ UNCHANGED <<queueVars, requestTime, lock, lockUntil, hook, at, end,
                   cronLast, done>>

\* Variant: the item of a worker that threw is deleted.
LeaveItemDeletes(r) ==
    /\ pc[r] \in {"process", "delete"}
    /\ Fail
    /\ DeleteItem(r)
    /\ Goto(r, "loop")
    /\ UNCHANGED <<requestTime, lock, lockUntil, hook, at, end, cronLast, done>>

\* ... any other exception, or deleteItem() throws: the item stays leased.
LeaveItem(r) ==
    /\ pc[r] \in {"process", "delete"}
    /\ Fail
    /\ Abandon(r)
    /\ Goto(r, "loop")
    /\ UNCHANGED <<requestTime, lock, lockUntil, hook, at, end, cronLast, done>>

DeleteProcessed(r) ==
    /\ pc[r] = "delete"
    /\ DeleteItem(r)
    /\ Goto(r, "loop")
    /\ UNCHANGED <<requestTime, lock, lockUntil, hook, at, end, cronLast, done,
                   fails>>

DelayRequeue(r) ==
    /\ pc[r] = "delay"
    /\ \E d \in Delays : DelayItem(r, d)
    /\ Goto(r, "loop")
    /\ UNCHANGED <<requestTime, lock, lockUntil, hook, at, end, cronLast, done,
                   fails>>

Requeue(r) ==
    /\ pc[r] = "requeue"
    /\ ReleaseItem(r)
    /\ Goto(r, "loop")
    /\ UNCHANGED <<requestTime, lock, lockUntil, hook, at, end, cronLast, done,
                   fails>>

SuspendQueue(r) ==
    /\ pc[r] = "suspend"
    /\ ReleaseItem(r)
    /\ NextQueue(r)
    /\ UNCHANGED <<requestTime, lock, lockUntil, hook, cronLast, done, fails>>

-----------------------------------------------------------------------------
\* The run ends in the middle.  After a PHP error, or an exception nothing
\* catches, the shutdown function releases the lock; a killed process leaves
\* it to expire.
Dies(r) ==
    /\ pc[r] # "off"
    /\ Fail
    /\ Abandon(r)
    /\ Over(r)
    /\ UNCHANGED <<cronLast, done>>

\* Variant: the shutdown function removes the lock by its name.
ErrorByName(r) == Dies(r) /\ lock' = NoLock

Error(r) == Dies(r) /\ lock' = WithoutOwnLock(r)

Kill(r) ==
    /\ Dies(r)
    /\ lock' = IF lock.owner = r THEN [lock EXCEPT !.owner = "dead"] ELSE lock

Enqueue == \E q \in Queue : CreateItem(q) /\ UNCHANGED control

Tick ==
    /\ \A r \in Run : pc[r] = "delay" => InTime(now + 1)
    /\ QueueTick
    /\ UNCHANGED control

\* The step of run r that needs no failure.
Step(r) ==
    \/ AcquireLock(r) \/ AcquireFails(r) \/ CallHook(r) \/ SetCronLastTime(r)
    \/ ReleaseLock(r) \/ OpenQueue(r) \/ Finish(r) \/ TimeIsUp(r)
    \/ SelectItem(r) \/ SelectNothing(r) \/ UpdateItem(r) \/ ProcessItem(r)
    \/ DeleteProcessed(r) \/ DelayRequeue(r) \/ Requeue(r) \/ SuspendQueue(r)

CronNext ==
    \/ \E r \in Run : Start(r) \/ Step(r)
    \/ \E r \in Run : HookThrows(r) \/ WorkerThrows(r) \/ LeaveItem(r)
    \/ \E r \in Run : Error(r) \/ Kill(r)
    \/ Enqueue
    \/ Tick

CronSpec == CronInit /\ [][CronNext]_cronVars

\* Runs are started again and again, a started run proceeds unless it fails,
\* and time passes.
CronFairSpec ==
    /\ CronSpec
    /\ \A r \in Run : WF_cronVars(Start(r)) /\ WF_cronVars(Step(r))
    /\ WF_cronVars(Tick)

-----------------------------------------------------------------------------
\* "some implementations of hook_cron() implicitly assume they are running
\* only once": two runs are inside their hooks only if one of them has
\* outlived its lease on the cron lock.
HooksExclusive ==
    \A r, s \in Run :
        /\ pc[r] \in Holding /\ lockUntil[r] >= now
        /\ pc[s] \in Holding /\ lockUntil[s] >= now
        => r = s

\* "guarantee that every item will be executed at least once"
\* (ReliableQueueInterface): an item that left the queue was processed by a
\* worker that returned without an exception, whatever failed on the way.
AtLeastOnce ==
    \A i \in Item : i < nextId /\ name[i] = "absent" => i \in done

\* ... and every item is processed in the end.
EventuallyDone ==
    \A i \in Item : i < nextId ~> i \in done

\* Why these hold: a run in its hooks has a request time in the past, the
\* lease a run relies on is the one in the lock's row, and a run deletes only
\* what its worker has finished.
WithItem == {"process", "delete", "delay", "requeue", "suspend"}

InQueue == {"loop", "select", "update"} \cup WithItem

RunsInOrder ==
    \A r \in Run :
        /\ pc[r] \in {"acquire", "hooks", "last"} => requestTime[r] \in 1..now
        /\ pc[r] = "hooks" => hook[r] <= Hooks
        /\ pc[r] \in {"off", "acquire", "queue"} \cup InQueue => hook[r] = 1
        /\ pc[r] \in InQueue => at[r] <= Len(Queues)
        /\ pc[r] \in WithItem => claim[r].item # 0

LockBacksLease ==
    \A r \in Run :
        pc[r] \in Holding /\ lockUntil[r] >= now
            => lock = [owner |-> r, expire |-> lockUntil[r]]

DeletesFinished == \A r \in Run : pc[r] = "delete" => claim[r].item \in done

CronInv ==
    /\ QueueInv
    /\ CronTypeOK
    /\ RunsInOrder
    /\ LockBacksLease
    /\ DeletesFinished
    /\ AtLeastOnce

=============================================================================
