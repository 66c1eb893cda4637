----------------------------- MODULE CronProofs -----------------------------
(***************************************************************************)
(* Proofs about Cron, for any number of runs, queues, items, hooks and     *)
(* failures.                                                               *)
(***************************************************************************)
EXTENDS Cron, DatabaseQueueProofs

USE CronAssumption

\* A step of a run is a step of the queue's interface, or leaves the queue alone.
LEMMA RunsUseTheQueue == CronInv /\ [CronNext]_cronVars => (QueueNext \/ UNCHANGED queueVars)
<1> SUFFICES ASSUME CronInv, [CronNext]_cronVars PROVE (QueueNext \/ UNCHANGED queueVars)
  OBVIOUS
<1>1. ASSUME NEW r \in Run, Start(r) PROVE (QueueNext \/ UNCHANGED queueVars)
  BY <1>1 DEF Start
<1>2. ASSUME NEW r \in Run, AcquireLock(r) PROVE (QueueNext \/ UNCHANGED queueVars)
  BY <1>2 DEF AcquireLock
<1>3. ASSUME NEW r \in Run, AcquireFails(r) PROVE (QueueNext \/ UNCHANGED queueVars)
  BY <1>3 DEF AcquireFails
<1>4. ASSUME NEW r \in Run, CallHook(r) PROVE (QueueNext \/ UNCHANGED queueVars)
  <2>1. CASE hook[r] = SystemHook
    <3>1. requestTime[r] \in 1..now
      BY <1>4 DEF CallHook, CronInv, RunsInOrder
    <3> QED BY <1>4, <2>1, <3>1 DEF CallHook, QueueNext
  <2> QED BY <1>4, <2>1 DEF CallHook
<1>5. ASSUME NEW r \in Run, HookThrows(r) PROVE (QueueNext \/ UNCHANGED queueVars)
  BY <1>5 DEF HookThrows
<1>6. ASSUME NEW r \in Run, SetCronLastTime(r) PROVE (QueueNext \/ UNCHANGED queueVars)
  BY <1>6 DEF SetCronLastTime
<1>7. ASSUME NEW r \in Run, ReleaseLock(r) PROVE (QueueNext \/ UNCHANGED queueVars)
  BY <1>7 DEF ReleaseLock
<1>8. ASSUME NEW r \in Run, OpenQueue(r) PROVE (QueueNext \/ UNCHANGED queueVars)
  BY <1>8 DEF OpenQueue
<1>9. ASSUME NEW r \in Run, Finish(r) PROVE (QueueNext \/ UNCHANGED queueVars)
  BY <1>9 DEF Finish
<1>10. ASSUME NEW r \in Run, TimeIsUp(r) PROVE (QueueNext \/ UNCHANGED queueVars)
  BY <1>10 DEF TimeIsUp
<1>11. ASSUME NEW r \in Run, SelectItem(r) PROVE (QueueNext \/ UNCHANGED queueVars)
  <2>1. Queues[at[r]] \in Queue
    BY <1>11 DEF SelectItem, Asks, CronInv, CronTypeOK, RunsInOrder, InQueue
  <2> QED BY <1>11, <2>1 DEF SelectItem, QueueNext, Run
<1>12. ASSUME NEW r \in Run, SelectNothing(r) PROVE (QueueNext \/ UNCHANGED queueVars)
  BY <1>12 DEF SelectNothing
<1>13. ASSUME NEW r \in Run, UpdateItem(r) PROVE (QueueNext \/ UNCHANGED queueVars)
  BY <1>13 DEF UpdateItem, QueueNext, Run
<1>14. ASSUME NEW r \in Run, ProcessItem(r) PROVE (QueueNext \/ UNCHANGED queueVars)
  BY <1>14 DEF ProcessItem
<1>15. ASSUME NEW r \in Run, WorkerThrows(r) PROVE (QueueNext \/ UNCHANGED queueVars)
  BY <1>15 DEF WorkerThrows
<1>16. ASSUME NEW r \in Run, LeaveItem(r) PROVE (QueueNext \/ UNCHANGED queueVars)
  BY <1>16 DEF LeaveItem, QueueNext, Run
<1>17. ASSUME NEW r \in Run, DeleteProcessed(r) PROVE (QueueNext \/ UNCHANGED queueVars)
  BY <1>17 DEF DeleteProcessed, QueueNext, Run
<1>18. ASSUME NEW r \in Run, DelayRequeue(r) PROVE (QueueNext \/ UNCHANGED queueVars)
  BY <1>18 DEF DelayRequeue, QueueNext, Run
<1>19. ASSUME NEW r \in Run, Requeue(r) PROVE (QueueNext \/ UNCHANGED queueVars)
  BY <1>19 DEF Requeue, QueueNext, Run
<1>20. ASSUME NEW r \in Run, SuspendQueue(r) PROVE (QueueNext \/ UNCHANGED queueVars)
  BY <1>20 DEF SuspendQueue, QueueNext, Run
<1>21. ASSUME NEW r \in Run, Error(r) PROVE (QueueNext \/ UNCHANGED queueVars)
  BY <1>21 DEF Error, Dies, QueueNext, Run
<1>22. ASSUME NEW r \in Run, Kill(r) PROVE (QueueNext \/ UNCHANGED queueVars)
  BY <1>22 DEF Kill, Dies, QueueNext, Run
<1>23. CASE Enqueue
  BY <1>23 DEF Enqueue, QueueNext
<1>24. CASE Tick
  BY <1>24 DEF Tick, QueueNext
<1>25. CASE UNCHANGED cronVars
  BY <1>25 DEF cronVars
<1> QED
  BY <1>1, <1>2, <1>3, <1>4, <1>5, <1>6, <1>7, <1>8, <1>9, <1>10, <1>11,
     <1>12, <1>13, <1>14, <1>15, <1>16, <1>17, <1>18, <1>19, <1>20, <1>21,
     <1>22, <1>23, <1>24, <1>25
  DEF CronNext, Step

\* Every step of a run keeps the types of the control variables.
LEMMA CronTypeStep == CronInv /\ [CronNext]_cronVars => CronTypeOK'
<1> SUFFICES ASSUME CronInv, [CronNext]_cronVars PROVE CronTypeOK'
  OBVIOUS
<1> USE DEF CronInv, CronTypeOK, States
<1>0. /\ now \in Nat /\ CronTime \in Nat /\ LockTime \in Nat /\ fails + 1 \in Nat
      /\ 1 \in 1..Hooks + 1 /\ 1 \in 1..Len(Queues) + 1
      /\ \A r \in Run : pc[r] = "hooks" => hook[r] + 1 \in 1..Hooks + 1
      /\ \A r \in Run : pc[r] \in InQueue => at[r] + 1 \in 1..Len(Queues) + 1
      /\ \A r \in Run : pc[r] \in WithItem => claim[r].item \in Item
  <2>1. Len(Queues) \in Nat
    OBVIOUS
  <2>2. now \in Nat /\ CronTime \in Nat /\ LockTime \in Nat /\ fails + 1 \in Nat
    BY QueueAssumption DEF CronInv, QueueInv, QueueTypeOK
  <2>3. \A r \in Run : pc[r] \in WithItem => claim[r].item \in Item
    BY DEF CronInv, RunsInOrder, QueueInv, QueueTypeOK, Run
  <2>4. ASSUME NEW r \in Run, pc[r] \in InQueue PROVE at[r] + 1 \in 1..Len(Queues) + 1
    <3>1. at[r] <= Len(Queues)
      BY <2>4 DEF RunsInOrder
    <3> QED BY SMTT(30), <2>1, <3>1
  <2>5. ASSUME NEW r \in Run, pc[r] = "hooks" PROVE hook[r] + 1 \in 1..Hooks + 1
    <3>1. hook[r] <= Hooks
      BY <2>5 DEF RunsInOrder
    <3> QED BY SMTT(30), <3>1
  <2>6. 1 \in 1..Hooks + 1 /\ 1 \in 1..Len(Queues) + 1
    BY <2>1
  <2> HIDE DEF CronInv, CronTypeOK
  <2> QED BY <2>2, <2>3, <2>4, <2>5, <2>6
<1>1. ASSUME NEW r \in Run, Start(r) PROVE CronTypeOK'
  BY <1>1, <1>0 DEF Start, Goto
<1>2. ASSUME NEW r \in Run, AcquireLock(r) PROVE CronTypeOK'
  BY SMTT(30), <1>2, <1>0 DEF AcquireLock, Goto, Free
<1>3. ASSUME NEW r \in Run, AcquireFails(r) PROVE CronTypeOK'
  BY <1>3, <1>0 DEF AcquireFails, EnterQueues, Goto
<1>4. ASSUME NEW r \in Run, CallHook(r) PROVE CronTypeOK'
  BY <1>4, <1>0 DEF CallHook, HookDone, Goto
<1>5. ASSUME NEW r \in Run, HookThrows(r) PROVE CronTypeOK'
  BY <1>5, <1>0 DEF HookThrows, HookDone, Goto, Fail
<1>6. ASSUME NEW r \in Run, SetCronLastTime(r) PROVE CronTypeOK'
  BY <1>6, <1>0 DEF SetCronLastTime, Goto
<1>7. ASSUME NEW r \in Run, ReleaseLock(r) PROVE CronTypeOK'
  BY <1>7, <1>0 DEF ReleaseLock, EnterQueues, WithoutOwnLock, Goto, NoLock
<1>8. ASSUME NEW r \in Run, OpenQueue(r) PROVE CronTypeOK'
  BY SMTT(30), <1>8, <1>0 DEF OpenQueue, Goto, InQueue, WithItem
<1>9. ASSUME NEW r \in Run, Finish(r) PROVE CronTypeOK'
  BY <1>9, <1>0 DEF Finish, Over, Goto
<1>10. ASSUME NEW r \in Run, TimeIsUp(r) PROVE CronTypeOK'
  BY <1>10, <1>0 DEF TimeIsUp, NextQueue, Goto, InQueue, WithItem
<1>11. ASSUME NEW r \in Run, SelectItem(r) PROVE CronTypeOK'
  BY <1>11, <1>0 DEF SelectItem, Asks, Goto, InQueue, WithItem
<1>12. ASSUME NEW r \in Run, SelectNothing(r) PROVE CronTypeOK'
  BY <1>12, <1>0 DEF SelectNothing, Asks, NextQueue, Goto, InQueue, WithItem
<1>13. ASSUME NEW r \in Run, UpdateItem(r) PROVE CronTypeOK'
  BY <1>13, <1>0 DEF UpdateItem, Goto, InQueue, WithItem
<1>14. ASSUME NEW r \in Run, ProcessItem(r) PROVE CronTypeOK'
  BY <1>14, <1>0 DEF ProcessItem, Goto, InQueue, WithItem
<1>15. ASSUME NEW r \in Run, WorkerThrows(r) PROVE CronTypeOK'
  BY <1>15, <1>0 DEF WorkerThrows, Goto, Fail
<1>16. ASSUME NEW r \in Run, LeaveItem(r) PROVE CronTypeOK'
  BY <1>16, <1>0 DEF LeaveItem, Goto, Fail
<1>17. ASSUME NEW r \in Run, DeleteProcessed(r) PROVE CronTypeOK'
  BY <1>17, <1>0 DEF DeleteProcessed, Goto
<1>18. ASSUME NEW r \in Run, DelayRequeue(r) PROVE CronTypeOK'
  BY <1>18, <1>0 DEF DelayRequeue, Goto
<1>19. ASSUME NEW r \in Run, Requeue(r) PROVE CronTypeOK'
  BY <1>19, <1>0 DEF Requeue, Goto
<1>20. ASSUME NEW r \in Run, SuspendQueue(r) PROVE CronTypeOK'
  BY <1>20, <1>0 DEF SuspendQueue, NextQueue, Goto, InQueue, WithItem
<1>21. ASSUME NEW r \in Run, Error(r) PROVE CronTypeOK'
  <2>1. Over(r) /\ Fail /\ UNCHANGED <<cronLast, done>>
    BY <1>21 DEF Error, Dies
  <2>2. lock' \in [owner : Run \cup {"none", "dead"}, expire : Nat]
    BY <1>21 DEF Error, WithoutOwnLock, NoLock
  <2>3. /\ pc' \in [Run -> States] /\ requestTime' \in [Run -> Nat]
        /\ lockUntil' \in [Run -> Nat] /\ end' \in [Run -> Nat]
        /\ hook' \in [Run -> 1..Hooks + 1] /\ at' \in [Run -> 1..Len(Queues) + 1]
    BY <1>0, <2>1 DEF Over, Goto
  <2> QED BY <1>0, <2>1, <2>2, <2>3 DEF Fail
<1>22. ASSUME NEW r \in Run, Kill(r) PROVE CronTypeOK'
  <2>1. Over(r) /\ Fail /\ UNCHANGED <<cronLast, done>>
    BY <1>22 DEF Kill, Dies
  <2>2. lock' \in [owner : Run \cup {"none", "dead"}, expire : Nat]
    BY <1>22 DEF Kill, WithoutOwnLock, NoLock
  <2>3. /\ pc' \in [Run -> States] /\ requestTime' \in [Run -> Nat]
        /\ lockUntil' \in [Run -> Nat] /\ end' \in [Run -> Nat]
        /\ hook' \in [Run -> 1..Hooks + 1] /\ at' \in [Run -> 1..Len(Queues) + 1]
    BY <1>0, <2>1 DEF Over, Goto
  <2> QED BY <1>0, <2>1, <2>2, <2>3 DEF Fail
<1>23. CASE Enqueue
  BY <1>23 DEF Enqueue, control
<1>24. CASE Tick
  BY <1>24 DEF Tick, control
<1>25. CASE UNCHANGED cronVars
  BY <1>25 DEF cronVars, queueVars, control
<1> QED
  BY <1>1, <1>2, <1>3, <1>4, <1>5, <1>6, <1>7, <1>8, <1>9, <1>10, <1>11,
     <1>12, <1>13, <1>14, <1>15, <1>16, <1>17, <1>18, <1>19, <1>20, <1>21,
     <1>22, <1>23, <1>24, <1>25
  DEF CronNext, Step

\* A run goes through its stages in order.
LEMMA RunsStep == CronInv /\ [CronNext]_cronVars => RunsInOrder'
<1> SUFFICES ASSUME CronInv, [CronNext]_cronVars PROVE RunsInOrder'
  OBVIOUS
<1> USE DEF CronInv, CronTypeOK, RunsInOrder, InQueue, WithItem, Run, QueueInv, QueueTypeOK
<1>1. ASSUME NEW r \in Run, Start(r) PROVE RunsInOrder'
  BY <1>1 DEF Start, Goto, queueVars
<1>2. ASSUME NEW r \in Run, AcquireLock(r) PROVE RunsInOrder'
  <2>1. /\ pc' = [pc EXCEPT ![r] = "hooks"]
        /\ UNCHANGED <<now, claim, requestTime, hook, at>>
    BY <1>2 DEF AcquireLock, Goto, queueVars
  <2>2. hook[r] <= Hooks /\ requestTime[r] \in 1..now
    BY <1>2 DEF AcquireLock
  <2> QED BY <2>1, <2>2
<1>3. ASSUME NEW r \in Run, AcquireFails(r) PROVE RunsInOrder'
  BY <1>3 DEF AcquireFails, EnterQueues, Goto, queueVars
<1>4. ASSUME NEW r \in Run, CallHook(r) PROVE RunsInOrder'
  <2>1. UNCHANGED <<now, claim, requestTime, at>>
    BY <1>4 DEF CallHook, HookDone, GarbageCollection, queueVars
  <2>2. hook' = [hook EXCEPT ![r] = hook[r] + 1]
    BY <1>4 DEF CallHook, HookDone
  <2>3. pc' = [pc EXCEPT ![r] = IF hook[r] = Hooks THEN "last" ELSE "hooks"]
    BY <1>4 DEF CallHook, HookDone, Goto
  <2>4. pc[r] = "hooks" /\ hook[r] \in 1..Hooks
    BY <1>4 DEF CallHook
  <2>5. CASE hook[r] = Hooks
    BY <2>1, <2>2, <2>3, <2>4, <2>5
  <2>6. CASE hook[r] # Hooks
    BY <2>1, <2>2, <2>3, <2>4, <2>6
  <2> QED BY <2>5, <2>6
<1>5. ASSUME NEW r \in Run, HookThrows(r) PROVE RunsInOrder'
  BY <1>5 DEF HookThrows, HookDone, Goto, Fail, queueVars
<1>6. ASSUME NEW r \in Run, SetCronLastTime(r) PROVE RunsInOrder'
  BY <1>6 DEF SetCronLastTime, Goto, queueVars
<1>7. ASSUME NEW r \in Run, ReleaseLock(r) PROVE RunsInOrder'
  BY <1>7 DEF ReleaseLock, EnterQueues, WithoutOwnLock, Goto, queueVars
<1>8. ASSUME NEW r \in Run, OpenQueue(r) PROVE RunsInOrder'
  BY <1>8 DEF OpenQueue, Goto, queueVars
<1>9. ASSUME NEW r \in Run, Finish(r) PROVE RunsInOrder'
  BY <1>9 DEF Finish, Over, Goto, queueVars
<1>10. ASSUME NEW r \in Run, TimeIsUp(r) PROVE RunsInOrder'
  BY <1>10 DEF TimeIsUp, NextQueue, Goto, queueVars
<1>11. ASSUME NEW r \in Run, SelectItem(r) PROVE RunsInOrder'
  BY <1>11 DEF SelectItem, Asks, Goto, ClaimSelect, table
<1>12. ASSUME NEW r \in Run, SelectNothing(r) PROVE RunsInOrder'
  BY <1>12 DEF SelectNothing, Asks, NextQueue, Goto, queueVars
<1>13. ASSUME NEW r \in Run, UpdateItem(r) PROVE RunsInOrder'
  <2>1. UNCHANGED <<now, requestTime, hook, at>> /\ pc[r] = "update"
    BY <1>13 DEF UpdateItem, ClaimUpdate
  <2>2. CASE Unclaimed(picked[r])
    <3>1. /\ pc' = [pc EXCEPT ![r] = "process"]
          /\ claim' = [claim EXCEPT ![r] = [item |-> picked[r], until |-> now + CronTime]]
          /\ picked[r] # 0
      BY <1>13, <2>2 DEF UpdateItem, ClaimUpdate, Goto
    <3> QED BY <2>1, <3>1
  <2>3. CASE ~Unclaimed(picked[r])
    <3>1. pc' = [pc EXCEPT ![r] = "select"] /\ claim' = claim
      BY <1>13, <2>3 DEF UpdateItem, ClaimUpdate, Goto
    <3> QED BY <2>1, <3>1
  <2> QED BY <2>2, <2>3
<1>14. ASSUME NEW r \in Run, ProcessItem(r) PROVE RunsInOrder'
  BY <1>14 DEF ProcessItem, Goto, queueVars
<1>15. ASSUME NEW r \in Run, WorkerThrows(r) PROVE RunsInOrder'
  BY <1>15 DEF WorkerThrows, Goto, Fail, queueVars
<1>16. ASSUME NEW r \in Run, LeaveItem(r) PROVE RunsInOrder'
  BY <1>16 DEF LeaveItem, Goto, Fail, Abandon, table
<1>17. ASSUME NEW r \in Run, DeleteProcessed(r) PROVE RunsInOrder'
  BY <1>17 DEF DeleteProcessed, Goto, DeleteItem
<1>18. ASSUME NEW r \in Run, DelayRequeue(r) PROVE RunsInOrder'
  BY <1>18 DEF DelayRequeue, Goto, DelayItem, SetExpire
<1>19. ASSUME NEW r \in Run, Requeue(r) PROVE RunsInOrder'
  BY <1>19 DEF Requeue, Goto, ReleaseItem, SetExpire
<1>20. ASSUME NEW r \in Run, SuspendQueue(r) PROVE RunsInOrder'
  BY <1>20 DEF SuspendQueue, NextQueue, Goto, ReleaseItem, SetExpire
<1>21. ASSUME NEW r \in Run, Error(r) PROVE RunsInOrder'
  BY <1>21 DEF Error, Dies, Over, WithoutOwnLock, Goto, Fail, Abandon, table
<1>22. ASSUME NEW r \in Run, Kill(r) PROVE RunsInOrder'
  BY <1>22 DEF Kill, Dies, Over, Goto, Fail, Abandon, table
<1>23. CASE Enqueue
  BY <1>23 DEF Enqueue, CreateItem, control
<1>24. CASE Tick
  BY <1>24 DEF Tick, QueueTick, table, control
<1>25. CASE UNCHANGED cronVars
  BY <1>25 DEF cronVars, queueVars, control
<1> QED
  BY <1>1, <1>2, <1>3, <1>4, <1>5, <1>6, <1>7, <1>8, <1>9, <1>10, <1>11,
     <1>12, <1>13, <1>14, <1>15, <1>16, <1>17, <1>18, <1>19, <1>20, <1>21,
     <1>22, <1>23, <1>24, <1>25
  DEF CronNext, Step

\* Only the owner, or somebody who found it expired, rewrites the lock's row.
LEMMA LockStep == CronInv /\ [CronNext]_cronVars => LockBacksLease'
<1> SUFFICES ASSUME CronInv, [CronNext]_cronVars PROVE LockBacksLease'
  OBVIOUS
<1> USE DEF CronInv, CronTypeOK, LockBacksLease, Holding, NoLock, Run, QueueInv, QueueTypeOK
<1>1. ASSUME NEW r \in Run, Start(r) PROVE LockBacksLease'
  BY <1>1 DEF Start, Goto, queueVars
<1>2. ASSUME NEW r \in Run, AcquireLock(r) PROVE LockBacksLease'
  <2>1. /\ pc' = [pc EXCEPT ![r] = "hooks"]
        /\ lock' = [owner |-> r, expire |-> now + LockTime]
        /\ lockUntil' = [lockUntil EXCEPT ![r] = now + LockTime]
        /\ now' = now
    BY <1>2 DEF AcquireLock, Goto, queueVars
  <2>2. ASSUME NEW s \in Run, s # r, pc[s] \in Holding, lockUntil[s] >= now PROVE FALSE
    <3>1. lock = [owner |-> s, expire |-> lockUntil[s]]
      BY <2>2
    <3>2. lock # NoLock /\ lock.expire = lockUntil[s]
      BY <2>2, <3>1
    <3> QED BY <1>2, <2>2, <3>2 DEF AcquireLock, Free
  <2> QED BY <2>1, <2>2
<1>3. ASSUME NEW r \in Run, AcquireFails(r) PROVE LockBacksLease'
  BY <1>3 DEF AcquireFails, EnterQueues, Goto, queueVars
<1>4. ASSUME NEW r \in Run, CallHook(r) PROVE LockBacksLease'
  BY <1>4 DEF CallHook, HookDone, Goto, GarbageCollection, queueVars
<1>5. ASSUME NEW r \in Run, HookThrows(r) PROVE LockBacksLease'
  BY <1>5 DEF HookThrows, HookDone, Goto, Fail, queueVars
<1>6. ASSUME NEW r \in Run, SetCronLastTime(r) PROVE LockBacksLease'
  BY <1>6 DEF SetCronLastTime, Goto, queueVars
<1>7. ASSUME NEW r \in Run, ReleaseLock(r) PROVE LockBacksLease'
  BY SMTT(30), <1>7 DEF ReleaseLock, EnterQueues, WithoutOwnLock, Goto, queueVars
<1>8. ASSUME NEW r \in Run, OpenQueue(r) PROVE LockBacksLease'
  BY <1>8 DEF OpenQueue, Goto, queueVars
<1>9. ASSUME NEW r \in Run, Finish(r) PROVE LockBacksLease'
  BY <1>9 DEF Finish, Over, Goto, queueVars
<1>10. ASSUME NEW r \in Run, TimeIsUp(r) PROVE LockBacksLease'
  BY <1>10 DEF TimeIsUp, NextQueue, Goto, queueVars
<1>11. ASSUME NEW r \in Run, SelectItem(r) PROVE LockBacksLease'
  BY <1>11 DEF SelectItem, Asks, Goto, ClaimSelect, table
<1>12. ASSUME NEW r \in Run, SelectNothing(r) PROVE LockBacksLease'
  BY <1>12 DEF SelectNothing, Asks, NextQueue, Goto, queueVars
<1>13. ASSUME NEW r \in Run, UpdateItem(r) PROVE LockBacksLease'
  BY <1>13 DEF UpdateItem, Goto, ClaimUpdate
<1>14. ASSUME NEW r \in Run, ProcessItem(r) PROVE LockBacksLease'
  BY <1>14 DEF ProcessItem, Goto, queueVars
<1>15. ASSUME NEW r \in Run, WorkerThrows(r) PROVE LockBacksLease'
  BY <1>15 DEF WorkerThrows, Goto, Fail, queueVars
<1>16. ASSUME NEW r \in Run, LeaveItem(r) PROVE LockBacksLease'
  BY <1>16 DEF LeaveItem, Goto, Fail, Abandon, table
<1>17. ASSUME NEW r \in Run, DeleteProcessed(r) PROVE LockBacksLease'
  BY <1>17 DEF DeleteProcessed, Goto, DeleteItem
<1>18. ASSUME NEW r \in Run, DelayRequeue(r) PROVE LockBacksLease'
  BY <1>18 DEF DelayRequeue, Goto, DelayItem, SetExpire
<1>19. ASSUME NEW r \in Run, Requeue(r) PROVE LockBacksLease'
  BY <1>19 DEF Requeue, Goto, ReleaseItem, SetExpire
<1>20. ASSUME NEW r \in Run, SuspendQueue(r) PROVE LockBacksLease'
  BY <1>20 DEF SuspendQueue, NextQueue, Goto, ReleaseItem, SetExpire
<1>21. ASSUME NEW r \in Run, Error(r) PROVE LockBacksLease'
  BY SMTT(30), <1>21 DEF Error, Dies, Over, WithoutOwnLock, Goto, Fail, Abandon, table
<1>22. ASSUME NEW r \in Run, Kill(r) PROVE LockBacksLease'
  <2>1. /\ pc' = [pc EXCEPT ![r] = "off"] /\ now' = now
        /\ lockUntil' = [lockUntil EXCEPT ![r] = 0]
    BY <1>22 DEF Kill, Dies, Over, Goto, Abandon
  <2>2. ASSUME NEW s \in Run, pc'[s] \in Holding, lockUntil'[s] >= now'
        PROVE  lock' = [owner |-> s, expire |-> lockUntil'[s]]
    <3>1. s # r /\ pc[s] \in Holding /\ lockUntil'[s] = lockUntil[s]
      BY <2>1, <2>2
    <3>2. lock = [owner |-> s, expire |-> lockUntil[s]]
      BY <2>1, <2>2, <3>1
    <3>3. lock.owner # r
      BY <3>1, <3>2
    <3> QED BY <1>22, <3>1, <3>2, <3>3 DEF Kill
  <2> QED BY <2>2
<1>23. CASE Enqueue
  BY <1>23 DEF Enqueue, CreateItem, control
<1>24. CASE Tick
  BY SMTT(30), <1>24 DEF Tick, QueueTick, table, control
<1>25. CASE UNCHANGED cronVars
  BY <1>25 DEF cronVars, queueVars, control
<1> QED
  BY <1>1, <1>2, <1>3, <1>4, <1>5, <1>6, <1>7, <1>8, <1>9, <1>10, <1>11,
     <1>12, <1>13, <1>14, <1>15, <1>16, <1>17, <1>18, <1>19, <1>20, <1>21,
     <1>22, <1>23, <1>24, <1>25
  DEF CronNext, Step

\* deleteItem() follows a worker that returned.
LEMMA FinishedStep == CronInv /\ [CronNext]_cronVars => DeletesFinished'
<1> SUFFICES ASSUME CronInv, [CronNext]_cronVars PROVE DeletesFinished'
  OBVIOUS
<1> USE DEF CronInv, CronTypeOK, DeletesFinished, Run, QueueInv, QueueTypeOK
<1>1. ASSUME NEW r \in Run, Start(r) PROVE DeletesFinished'
  BY <1>1 DEF Start, Goto, queueVars
<1>2. ASSUME NEW r \in Run, AcquireLock(r) PROVE DeletesFinished'
  BY <1>2 DEF AcquireLock, Goto, Free, queueVars
<1>3. ASSUME NEW r \in Run, AcquireFails(r) PROVE DeletesFinished'
  BY <1>3 DEF AcquireFails, EnterQueues, Goto, queueVars
<1>4. ASSUME NEW r \in Run, CallHook(r) PROVE DeletesFinished'
  BY <1>4 DEF CallHook, HookDone, Goto, GarbageCollection, queueVars
<1>5. ASSUME NEW r \in Run, HookThrows(r) PROVE DeletesFinished'
  BY <1>5 DEF HookThrows, HookDone, Goto, Fail, queueVars
<1>6. ASSUME NEW r \in Run, SetCronLastTime(r) PROVE DeletesFinished'
  BY <1>6 DEF SetCronLastTime, Goto, queueVars
<1>7. ASSUME NEW r \in Run, ReleaseLock(r) PROVE DeletesFinished'
  BY <1>7 DEF ReleaseLock, EnterQueues, WithoutOwnLock, Goto, queueVars
<1>8. ASSUME NEW r \in Run, OpenQueue(r) PROVE DeletesFinished'
  BY <1>8 DEF OpenQueue, Goto, queueVars
<1>9. ASSUME NEW r \in Run, Finish(r) PROVE DeletesFinished'
  BY <1>9 DEF Finish, Over, Goto, queueVars
<1>10. ASSUME NEW r \in Run, TimeIsUp(r) PROVE DeletesFinished'
  BY <1>10 DEF TimeIsUp, NextQueue, Goto, queueVars
<1>11. ASSUME NEW r \in Run, SelectItem(r) PROVE DeletesFinished'
  BY <1>11 DEF SelectItem, Asks, Goto, ClaimSelect, table
<1>12. ASSUME NEW r \in Run, SelectNothing(r) PROVE DeletesFinished'
  BY <1>12 DEF SelectNothing, Asks, NextQueue, Goto, queueVars
<1>13. ASSUME NEW r \in Run, UpdateItem(r) PROVE DeletesFinished'
  BY <1>13 DEF UpdateItem, Goto, ClaimUpdate
<1>14. ASSUME NEW r \in Run, ProcessItem(r) PROVE DeletesFinished'
  BY <1>14 DEF ProcessItem, Goto, queueVars
<1>15. ASSUME NEW r \in Run, WorkerThrows(r) PROVE DeletesFinished'
  BY <1>15 DEF WorkerThrows, Goto, Fail, queueVars
<1>16. ASSUME NEW r \in Run, LeaveItem(r) PROVE DeletesFinished'
  BY <1>16 DEF LeaveItem, Goto, Fail, Abandon, table
<1>17. ASSUME NEW r \in Run, DeleteProcessed(r) PROVE DeletesFinished'
  BY <1>17 DEF DeleteProcessed, Goto, DeleteItem
<1>18. ASSUME NEW r \in Run, DelayRequeue(r) PROVE DeletesFinished'
  BY <1>18 DEF DelayRequeue, Goto, DelayItem, SetExpire
<1>19. ASSUME NEW r \in Run, Requeue(r) PROVE DeletesFinished'
  BY <1>19 DEF Requeue, Goto, ReleaseItem, SetExpire
<1>20. ASSUME NEW r \in Run, SuspendQueue(r) PROVE DeletesFinished'
  BY <1>20 DEF SuspendQueue, NextQueue, Goto, ReleaseItem, SetExpire
<1>21. ASSUME NEW r \in Run, Error(r) PROVE DeletesFinished'
  BY <1>21 DEF Error, Dies, Over, WithoutOwnLock, Goto, Fail, Abandon, table
<1>22. ASSUME NEW r \in Run, Kill(r) PROVE DeletesFinished'
  BY <1>22 DEF Kill, Dies, Over, Goto, Fail, Abandon, table
<1>23. CASE Enqueue
  BY <1>23 DEF Enqueue, CreateItem, control
<1>24. CASE Tick
  BY <1>24 DEF Tick, QueueTick, table, control
<1>25. CASE UNCHANGED cronVars
  BY <1>25 DEF cronVars, queueVars, control
<1> QED
  BY <1>1, <1>2, <1>3, <1>4, <1>5, <1>6, <1>7, <1>8, <1>9, <1>10, <1>11,
     <1>12, <1>13, <1>14, <1>15, <1>16, <1>17, <1>18, <1>19, <1>20, <1>21,
     <1>22, <1>23, <1>24, <1>25
  DEF CronNext, Step

\* Nothing else removes an item.
LEMMA AtLeastOnceStep == CronInv /\ [CronNext]_cronVars => AtLeastOnce'
<1> SUFFICES ASSUME CronInv, [CronNext]_cronVars PROVE AtLeastOnce'
  OBVIOUS
<1> USE DEF CronInv, CronTypeOK, AtLeastOnce, Run, QueueInv, QueueTypeOK
<1>1. ASSUME NEW r \in Run, Start(r) PROVE AtLeastOnce'
  BY <1>1 DEF Start, Goto, queueVars
<1>2. ASSUME NEW r \in Run, AcquireLock(r) PROVE AtLeastOnce'
  BY <1>2 DEF AcquireLock, Goto, Free, queueVars
<1>3. ASSUME NEW r \in Run, AcquireFails(r) PROVE AtLeastOnce'
  BY <1>3 DEF AcquireFails, EnterQueues, Goto, queueVars
<1>4. ASSUME NEW r \in Run, CallHook(r) PROVE AtLeastOnce'
  BY <1>4 DEF CallHook, HookDone, Goto, GarbageCollection, queueVars
<1>5. ASSUME NEW r \in Run, HookThrows(r) PROVE AtLeastOnce'
  BY <1>5 DEF HookThrows, HookDone, Goto, Fail, queueVars
<1>6. ASSUME NEW r \in Run, SetCronLastTime(r) PROVE AtLeastOnce'
  BY <1>6 DEF SetCronLastTime, Goto, queueVars
<1>7. ASSUME NEW r \in Run, ReleaseLock(r) PROVE AtLeastOnce'
  BY <1>7 DEF ReleaseLock, EnterQueues, WithoutOwnLock, Goto, queueVars
<1>8. ASSUME NEW r \in Run, OpenQueue(r) PROVE AtLeastOnce'
  BY <1>8 DEF OpenQueue, Goto, queueVars
<1>9. ASSUME NEW r \in Run, Finish(r) PROVE AtLeastOnce'
  BY <1>9 DEF Finish, Over, Goto, queueVars
<1>10. ASSUME NEW r \in Run, TimeIsUp(r) PROVE AtLeastOnce'
  BY <1>10 DEF TimeIsUp, NextQueue, Goto, queueVars
<1>11. ASSUME NEW r \in Run, SelectItem(r) PROVE AtLeastOnce'
  BY <1>11 DEF SelectItem, Asks, Goto, ClaimSelect, table
<1>12. ASSUME NEW r \in Run, SelectNothing(r) PROVE AtLeastOnce'
  BY <1>12 DEF SelectNothing, Asks, NextQueue, Goto, queueVars
<1>13. ASSUME NEW r \in Run, UpdateItem(r) PROVE AtLeastOnce'
  BY <1>13 DEF UpdateItem, Goto, ClaimUpdate
<1>14. ASSUME NEW r \in Run, ProcessItem(r) PROVE AtLeastOnce'
  BY <1>14 DEF ProcessItem, Goto, queueVars
<1>15. ASSUME NEW r \in Run, WorkerThrows(r) PROVE AtLeastOnce'
  BY <1>15 DEF WorkerThrows, Goto, Fail, queueVars
<1>16. ASSUME NEW r \in Run, LeaveItem(r) PROVE AtLeastOnce'
  BY <1>16 DEF LeaveItem, Goto, Fail, Abandon, table
<1>17. ASSUME NEW r \in Run, DeleteProcessed(r) PROVE AtLeastOnce'
  <2>1. claim[r].item \in done
    BY <1>17 DEF DeleteProcessed, DeletesFinished
  <2>2. /\ name' = [name EXCEPT ![claim[r].item] = "absent"]
        /\ UNCHANGED <<nextId, done>>
    BY <1>17 DEF DeleteProcessed, DeleteItem
  <2> QED BY <2>1, <2>2
<1>18. ASSUME NEW r \in Run, DelayRequeue(r) PROVE AtLeastOnce'
  BY <1>18 DEF DelayRequeue, Goto, DelayItem, SetExpire
<1>19. ASSUME NEW r \in Run, Requeue(r) PROVE AtLeastOnce'
  BY <1>19 DEF Requeue, Goto, ReleaseItem, SetExpire
<1>20. ASSUME NEW r \in Run, SuspendQueue(r) PROVE AtLeastOnce'
  BY <1>20 DEF SuspendQueue, NextQueue, Goto, ReleaseItem, SetExpire
<1>21. ASSUME NEW r \in Run, Error(r) PROVE AtLeastOnce'
  BY <1>21 DEF Error, Dies, Over, WithoutOwnLock, Goto, Fail, Abandon, table
<1>22. ASSUME NEW r \in Run, Kill(r) PROVE AtLeastOnce'
  BY <1>22 DEF Kill, Dies, Over, Goto, Fail, Abandon, table
<1>23. CASE Enqueue
  <2>1. PICK q \in Queue : CreateItem(q)
    BY <1>23 DEF Enqueue
  <2>2. ASSUME NEW i \in Item, i < nextId', name'[i] = "absent" PROVE i \in done'
    <3>1. i # nextId /\ i \in Int
      BY <2>1, <2>2, QueueAssumption DEF CreateItem, Item
    <3>2. i < nextId /\ name[i] = "absent"
      BY <2>1, <2>2, <3>1 DEF CreateItem
    <3> QED BY <1>23, <3>2 DEF Enqueue, control
  <2> QED BY <2>2
<1>24. CASE Tick
  BY <1>24 DEF Tick, QueueTick, table, control
<1>25. CASE UNCHANGED cronVars
  BY <1>25 DEF cronVars, queueVars, control
<1> QED
  BY <1>1, <1>2, <1>3, <1>4, <1>5, <1>6, <1>7, <1>8, <1>9, <1>10, <1>11,
     <1>12, <1>13, <1>14, <1>15, <1>16, <1>17, <1>18, <1>19, <1>20, <1>21,
     <1>22, <1>23, <1>24, <1>25
  DEF CronNext, Step

LEMMA CronInitial == CronInit => CronInv
<1> SUFFICES ASSUME CronInit PROVE CronInv
  OBVIOUS
<1>1. QueueInv
  BY QueueInitial DEF CronInit
<1>2. CronTypeOK
  <2>1. Len(Queues) \in Nat
    OBVIOUS
  <2> QED BY <2>1 DEF CronInit, CronTypeOK, States, NoLock
<1>3. RunsInOrder /\ LockBacksLease /\ DeletesFinished
  BY DEF CronInit, RunsInOrder, LockBacksLease, DeletesFinished, InQueue, WithItem,
         Holding
<1>4. AtLeastOnce
  BY DEF CronInit, QueueInit, AtLeastOnce, Item
<1> QED BY <1>1, <1>2, <1>3, <1>4 DEF CronInv

\* The inductive invariant of cron.
THEOREM CronInvariance == CronSpec => []CronInv
<1>1. CronInv /\ [CronNext]_cronVars => CronInv'
  <2>1. CronInv /\ [CronNext]_cronVars => QueueInv'
    BY RunsUseTheQueue, QueueStep DEF CronInv
  <2> QED BY <2>1, CronTypeStep, RunsStep, LockStep, FinishedStep, AtLeastOnceStep
          DEF CronInv
<1> QED BY CronInitial, <1>1, PTL DEF CronSpec

\* Cron uses the queue only through its interface, with the arguments it
\* allows: what is proved of the queue holds under cron.
THEOREM CronUsesQueue == CronSpec => QueueSpec
<1>1. CronInit => QueueInit
  BY DEF CronInit
<1>2. CronInv /\ [CronNext]_cronVars => [QueueNext]_queueVars
  BY RunsUseTheQueue
<1> QED BY <1>1, <1>2, CronInvariance, PTL DEF CronSpec, QueueSpec

\* Two runs are inside their hooks only if one has outlived its lease.
THEOREM HookExclusion == CronSpec => []HooksExclusive
<1>1. CronInv => HooksExclusive
  <2> SUFFICES ASSUME CronInv, NEW r \in Run, NEW s \in Run,
                      pc[r] \in Holding, lockUntil[r] >= now,
                      pc[s] \in Holding, lockUntil[s] >= now
               PROVE  r = s
    BY DEF HooksExclusive
  <2>1. lock = [owner |-> r, expire |-> lockUntil[r]]
    BY DEF CronInv, LockBacksLease
  <2>2. lock = [owner |-> s, expire |-> lockUntil[s]]
    BY DEF CronInv, LockBacksLease
  <2>3. lock.owner = r /\ lock.owner = s
    BY <2>1, <2>2
  <2> QED BY <2>3
<1> QED BY <1>1, CronInvariance, PTL

\* An item leaves the queue only after a worker has processed it.
THEOREM ExecutedAtLeastOnce == CronSpec => []AtLeastOnce
<1>1. CronInv => AtLeastOnce
  BY DEF CronInv
<1> QED BY <1>1, CronInvariance, PTL

=============================================================================
