------------------------ MODULE AdvancedQueueProofs ------------------------
(***************************************************************************)
(* Proofs about AdvancedQueue, for any number of processors, callers,      *)
(* administrators, queues and jobs, and any threshold.                     *)
(***************************************************************************)
EXTENDS AdvancedQueue, FiniteSetTheorems, TLAPS

USE AdvancedQueueAssumption

\* What the steps that write rows do to them, in the terms the invariants use.

\* Rows that are put back into the queue.
RequeueWrites(S) ==
    /\ row' \in [Job -> Rows]
    /\ \A j \in S : row'[j].state = "queued" /\ row'[j].expires = 0
    /\ \A j \in Job \ S : row'[j] = row[j]
    /\ got' \in [Job -> SUBSET Proc]

\* A claim changes one row and one copy.
ClaimWrites(p) ==
    /\ copy[p].id \in Job
    /\ row' \in [Job -> Rows]
    /\ \A j \in Job : j # copy[p].id => row'[j] = row[j]
    /\ row'[copy[p].id].state = "processing"
    /\ row'[copy[p].id].expires = now + LeaseTime
    /\ copy' \in [Proc -> [id : Job \cup {0}, job : Rows]]
    /\ copy'[p].id = copy[p].id
    /\ copy'[p].job.expires = now + LeaseTime
    /\ \A q \in Proc : q # p => copy'[q] = copy[q]

Calls == [queue : Queue \cup {"none"}, left : Nat, delay : Nat]

\* An INSERT uses a new id.
InsertWrites ==
    /\ nextId \in Job
    /\ nextId' = nextId + 1
    /\ \E w \in Rows : w.state = "queued" /\ row' = [row EXCEPT ![nextId] = w]
    /\ call' \in [Caller -> Calls]

\* updateJob() writes w over job id, if it is there.
Overwrites(id, w) ==
    row' = IF Present(id) THEN [row EXCEPT ![id] = w] ELSE row

\* The retry form puts its copy of a failed job back into the queue.
RetryWrites(a) ==
    /\ loaded[a].id \in Job
    /\ \E w \in Rows : /\ w.state = "queued" /\ w.expires = 0
                       /\ Overwrites(loaded[a].id, w)
    /\ got' \in [Job -> SUBSET Proc]
    /\ loaded' = [loaded EXCEPT ![a] = NoJob]
    /\ disturbed' = disturbed \cup {loaded[a].id}
    /\ UNCHANGED <<now, queues, nextId, local, call, bounds, deleted, settled>>

\* A processor writes w back: a result, or another try.
Reports(p, w) ==
    /\ w.expires = 0
    /\ Overwrites(copy[p].id, w)
    /\ \/ /\ w.state \in Final /\ w.processed = now
          /\ settled' = IF Present(copy[p].id)
                        THEN [settled EXCEPT ![copy[p].id] = now] ELSE settled
       \/ w.state = "queued" /\ settled' = settled

ReportWrites(p) ==
    /\ pc[p] \in {"success", "failure", "exception"}
    /\ copy[p].id \in Job
    /\ \E s \in {"off", "loop"} : pc' = [pc EXCEPT ![p] = s]
    /\ copy' = [copy EXCEPT ![p] = NoJob]
    /\ working' \in [Proc -> Queue \cup {"none"}]
    /\ before' \in [Proc -> Int]
    /\ \A q \in Proc : q # p => before'[q] = before[q]
    /\ end' \in [Proc -> Nat]
    /\ \E w \in Rows : Reports(p, w)
    /\ got' \in [Job -> SUBSET Proc]
    /\ disturbed' = IF copy[p].job.expires < now
                    THEN disturbed \cup {copy[p].id} ELSE disturbed
    /\ UNCHANGED <<now, queues, nextId, loaded, call, fails, edits, deleted>>

LEMMA RequeueEffect ==
    ASSUME Inv, NEW S \in SUBSET Job, Requeued(S) PROVE RequeueWrites(S)
<1>1. ASSUME NEW j \in S
      PROVE  row'[j].state = "queued" /\ row'[j].expires = 0 /\ row'[j] \in Rows
  <2>1. row'[j] = [row[j] EXCEPT !.state = "queued", !.expires = 0]
    BY DEF Requeued
  <2>2. row[j] \in Rows
    BY DEF Inv, TypeOK
  <2>3. \A r \in Rows :
           /\ [r EXCEPT !.state = "queued", !.expires = 0] \in Rows
           /\ [r EXCEPT !.state = "queued", !.expires = 0].state = "queued"
           /\ [r EXCEPT !.state = "queued", !.expires = 0].expires = 0
    BY DEF Rows, Final
  <2> QED BY <2>1, <2>2, <2>3
<1>2. \A j \in Job \ S : row'[j] = row[j]
  BY DEF Requeued
<1>3. row' \in [Job -> Rows]
  <2>1. \A j \in Job : row'[j] \in Rows
    BY <1>1, <1>2 DEF Inv, TypeOK
  <2>2. row' = [j \in Job |-> row'[j]]
    BY DEF Requeued
  <2> QED BY <2>1, <2>2
<1>4. got' \in [Job -> SUBSET Proc]
  BY DEF Requeued, Inv, TypeOK
<1> QED BY <1>1, <1>2, <1>3, <1>4 DEF RequeueWrites

LEMMA ClaimEffect == ASSUME Inv, NEW p \in Proc, ClaimJob(p) PROVE ClaimWrites(p)
<1>1. copy[p].id \in Job
  BY DEF ClaimJob, Inv, TypeOK, JobsInOrder
<1>2. now + LeaseTime \in Nat
  BY DEF Inv, TypeOK
<1>3. \A r \in Rows : /\ Leased(r, now + LeaseTime) \in Rows
                      /\ Leased(r, now + LeaseTime).state = "processing"
                      /\ Leased(r, now + LeaseTime).expires = now + LeaseTime
  BY <1>2 DEF Rows, Final, Leased
<1>4. /\ row \in [Job -> Rows] /\ copy[p].job \in Rows
      /\ copy \in [Proc -> [id : Job \cup {0}, job : Rows]]
  BY DEF Inv, TypeOK
<1>5. row' = [row EXCEPT ![copy[p].id] = Leased(row[copy[p].id], now + LeaseTime)]
  BY DEF ClaimJob
<1>6. copy' = [copy EXCEPT ![p] = [id |-> copy[p].id,
                                   job |-> Leased(copy[p].job, now + LeaseTime)]]
  BY DEF ClaimJob
<1> QED BY <1>1, <1>3, <1>4, <1>5, <1>6 DEF ClaimWrites

LEMMA InsertEffect == ASSUME Inv, NEW c \in Caller, InsertJob(c) PROVE InsertWrites
<1> USE DEF Inv, TypeOK
<1>1. nextId \in Job /\ nextId' = nextId + 1
  BY DEF InsertJob, Job
<1>2. call[c] \in Calls
  BY DEF Calls
<1>3. call[c].left - 1 \in Nat /\ now + call[c].delay \in Nat
  BY <1>2 DEF InsertJob, Calls
<1>4. \E w \in Rows : w.state = "queued" /\ row' = [row EXCEPT ![nextId] = w]
  <2> DEFINE w == [NoRow EXCEPT !.queue = call[c].queue, !.state = "queued",
                                !.available = now + call[c].delay]
  <2>1. w \in Rows /\ w.state = "queued"
    BY <1>2, <1>3 DEF Rows, NoRow, Calls
  <2>2. row' = [row EXCEPT ![nextId] = w]
    BY DEF InsertJob
  <2> QED BY <2>1, <2>2
<1>5. call' \in [Caller -> Calls]
  <2>1. [call[c] EXCEPT !.left = call[c].left - 1] \in Calls
    BY <1>2, <1>3 DEF Calls
  <2>2. NoCall \in Calls
    BY DEF NoCall, Calls
  <2>3. call' = [call EXCEPT ![c] = IF call[c].left = 1 THEN NoCall
                              ELSE [call[c] EXCEPT !.left = call[c].left - 1]]
    BY DEF InsertJob
  <2>4. call \in [Caller -> Calls]
    BY DEF Calls
  <2> QED BY <2>1, <2>2, <2>3, <2>4
<1> QED BY <1>1, <1>4, <1>5 DEF InsertWrites

LEMMA RetryEffect ==
    ASSUME Inv, NEW a \in Admin, RetryLoaded(a) PROVE RetryWrites(a)
<1>1. loaded[a].id \in Job
  BY DEF RetryLoaded, Inv, TypeOK, JobsInOrder
<1>2. loaded[a].job \in Rows /\ now + 0 \in Nat
  BY DEF Inv, TypeOK
<1> DEFINE w == [loaded[a].job EXCEPT !.state = "queued", !.expires = 0,
                                      !.retries = loaded[a].job.retries + 1,
                                      !.available = now + 0]
<1>3. w \in Rows /\ w.state = "queued" /\ w.expires = 0
  <2>1. loaded[a].job.retries + 1 \in Nat
    BY <1>2 DEF Rows
  <2> QED BY <1>2, <2>1 DEF Rows, Final
<1>4. Overwrites(loaded[a].id, w)
  BY DEF RetryLoaded, Retry, UpdateJob, Overwrites
<1>5. got' = [got EXCEPT ![loaded[a].id] = {}] /\ settled' = settled
  BY DEF RetryLoaded, Retry
<1>6. got' \in [Job -> SUBSET Proc]
  BY <1>1, <1>5 DEF Inv, TypeOK
<1>7. /\ loaded' = [loaded EXCEPT ![a] = NoJob]
      /\ disturbed' = disturbed \cup {loaded[a].id}
      /\ UNCHANGED <<now, queues, nextId, local, call, bounds, deleted>>
  BY DEF RetryLoaded, Disturbs
<1> HIDE DEF w
<1> QED BY <1>1, <1>3, <1>4, <1>5, <1>6, <1>7 DEF RetryWrites

LEMMA ReportEffect == ASSUME Inv, NEW p \in Proc, Report(p) PROVE ReportWrites(p)
<1> USE DEF Inv, TypeOK
<1>1. pc[p] \in {"success", "failure", "exception"}
  BY DEF Report
<1>2. copy[p].id \in Job
  BY <1>1 DEF JobsInOrder
<1>3. \E s \in {"off", "loop"} : pc' = [pc EXCEPT ![p] = s]
  BY DEF Report, TimeLimit, Leave, Goto
<1>4. /\ copy' = [copy EXCEPT ![p] = NoJob]
      /\ UNCHANGED <<now, queues, nextId, loaded, call, fails, edits, deleted>>
  BY DEF Report, TimeLimit, Leave, bounds
<1>5. /\ working' \in [Proc -> Queue \cup {"none"}]
      /\ before' \in [Proc -> Int]
      /\ \A q \in Proc : q # p => before'[q] = before[q]
      /\ end' \in [Proc -> Nat]
  <2>1. CASE Leave(p)
    BY <2>1 DEF Leave
  <2>2. CASE UNCHANGED <<working, before, end>>
    BY <2>2
  <2> QED BY <2>1, <2>2 DEF Report, TimeLimit
<1>6. disturbed' = IF copy[p].job.expires < now
                   THEN disturbed \cup {copy[p].id} ELSE disturbed
  BY DEF Report, Disturbs, Overdue
<1>7. copy[p].job \in Rows
  OBVIOUS
<1>8. ASSUME NEW state \in Final, Settle(p, state)
      PROVE  (\E w \in Rows : Reports(p, w)) /\ got' \in [Job -> SUBSET Proc]
  <2> DEFINE w == [copy[p].job EXCEPT !.state = state, !.expires = 0,
                                      !.processed = now]
  <2>1. w \in Rows /\ w.expires = 0 /\ w.state \in Final /\ w.processed = now
    BY <1>7, <1>8 DEF Rows, Final
  <2>2. Overwrites(copy[p].id, w)
    BY <1>8 DEF Settle, UpdateJob, Overwrites
  <2>3. settled' = IF Present(copy[p].id) THEN [settled EXCEPT ![copy[p].id] = now]
                   ELSE settled
    BY <1>8 DEF Settle
  <2>4. got' = got
    BY <1>8 DEF Settle
  <2> HIDE DEF w
  <2> QED BY <2>1, <2>2, <2>3, <2>4 DEF Reports
<1>9. ASSUME NEW d \in Delays, Retry(copy[p].id, copy[p].job, d)
      PROVE  (\E w \in Rows : Reports(p, w)) /\ got' \in [Job -> SUBSET Proc]
  <2> DEFINE w == [copy[p].job EXCEPT !.state = "queued", !.expires = 0,
                                      !.retries = copy[p].job.retries + 1,
                                      !.available = now + d]
  <2>1. w \in Rows /\ w.expires = 0 /\ w.state = "queued"
    <3>1. now + d \in Nat /\ copy[p].job.retries + 1 \in Nat
      BY <1>7, <1>9 DEF Rows
    <3> QED BY <1>7, <3>1 DEF Rows, Final
  <2>2. Overwrites(copy[p].id, w)
    BY <1>9 DEF Retry, UpdateJob, Overwrites
  <2>3. settled' = settled /\ got' = [got EXCEPT ![copy[p].id] = {}]
    BY <1>9 DEF Retry
  <2>4. got' \in [Job -> SUBSET Proc]
    BY <1>2, <2>3
  <2> HIDE DEF w
  <2> QED BY <2>1, <2>2, <2>3, <2>4 DEF Reports
<1>10. (\E w \in Rows : Reports(p, w)) /\ got' \in [Job -> SUBSET Proc]
  BY <1>8, <1>9 DEF Report, Final
<1> QED BY <1>1, <1>2, <1>3, <1>4, <1>5, <1>6, <1>10 DEF ReportWrites

Effects ==
    /\ \A S \in SUBSET Job : Requeued(S) => RequeueWrites(S)
    /\ \A p \in Proc : ClaimJob(p) => ClaimWrites(p)
    /\ \A c \in Caller : InsertJob(c) => InsertWrites
    /\ \A a \in Admin : RetryLoaded(a) => RetryWrites(a)
    /\ \A p \in Proc : Report(p) => ReportWrites(p)

LEMMA StepEffects == Inv => Effects
BY RequeueEffect, ClaimEffect, InsertEffect, RetryEffect, ReportEffect DEF Effects


\* Types.
LEMMA TypeStep == Inv /\ [Next]_vars => TypeOK'
<1> SUFFICES ASSUME Inv, [Next]_vars PROVE TypeOK'
  OBVIOUS
<1>e. Effects
  BY StepEffects
<1> USE DEF Inv, TypeOK, local, bounds, history, Rows, NoRow, NoJob, NoCall, Final
<1>1. ASSUME NEW p \in Proc, NEW q \in Queue, ProcessQueue(p, q) PROVE TypeOK'
  <2>0. RequeueWrites({j \in Job : LeaseOver(j)})
    BY <1>1, <1>e DEF Effects, ProcessQueue
  <2>1. row' \in [Job -> Rows] /\ got' \in [Job -> SUBSET Proc]
    BY <2>0 DEF RequeueWrites
  <2> HIDE DEF Rows
  <2> QED BY <1>1, <2>1 DEF ProcessQueue, Goto
<1>2. ASSUME NEW p \in Proc, SeekOldItems(p) PROVE TypeOK'
  <2>1. now + ProcessingTime \in Nat /\ now - ThresholdLimit \in Int /\ 1..now \subseteq Int
    OBVIOUS
  <2>2. \E s \in {"purge", "loop"} : pc' = [pc EXCEPT ![p] = s]
    BY <1>2 DEF SeekOldItems, EnterLoop, Goto
  <2>3. before' \in [Proc -> Int] /\ end' \in [Proc -> Nat]
    BY <1>2, <2>1 DEF SeekOldItems, EnterLoop
  <2> HIDE DEF Rows
  <2> QED BY ZenonT(60), <1>2, <2>2, <2>3 DEF SeekOldItems
<1>3. ASSUME NEW p \in Proc, QueueIsGone(p) PROVE TypeOK'
  BY <1>3 DEF QueueIsGone, Leave, Goto
<1>4. ASSUME NEW p \in Proc, PurgeOldItems(p) PROVE TypeOK'
  BY <1>4 DEF PurgeOldItems, EnterLoop, Without, OldItems, Finished, Goto
<1>5. ASSUME NEW p \in Proc, SelectJob(p) PROVE TypeOK'
  BY <1>5 DEF SelectJob, Claimable, Goto
<1>6. ASSUME NEW p \in Proc, SelectNothing(p) PROVE TypeOK'
  BY <1>6 DEF SelectNothing, Leave, Goto
<1>7. ASSUME NEW p \in Proc, ClaimJob(p) PROVE TypeOK'
  <2>0. ClaimWrites(p)
    BY <1>7, <1>e DEF Effects
  <2> HIDE DEF Rows
  <2>1. row' \in [Job -> Rows] /\ copy' \in [Proc -> [id : Job \cup {0}, job : Rows]]
    BY <2>0 DEF ClaimWrites
  <2>2. got' \in [Job -> SUBSET Proc]
    BY <1>7, <2>0 DEF ClaimWrites, ClaimJob
  <2> QED BY <1>7, <2>1, <2>2 DEF ClaimJob, Goto
<1>8. ASSUME NEW p \in Proc, ClaimMissed(p) PROVE TypeOK'
  BY <1>8 DEF ClaimMissed, Goto
<1>9. ASSUME NEW p \in Proc, ProcessJob(p) PROVE TypeOK'
  BY <1>9 DEF ProcessJob, Goto
<1>10. ASSUME NEW p \in Proc, Report(p) PROVE TypeOK'
  <2> HIDE DEF Rows
  <2>0. ReportWrites(p)
    BY <1>10, <1>e DEF Effects
  <2>1. PICK w \in Rows : Reports(p, w)
    BY <2>0 DEF ReportWrites
  <2>a. row \in [Job -> Rows] /\ settled \in [Job -> Nat] /\ now \in Nat
    BY DEF TypeOK
  <2>b. row' \in [Job -> Rows]
    BY <2>a, <2>1, <2>0 DEF ReportWrites, Reports, Overwrites
  <2>c. settled' \in [Job -> Nat]
    BY <2>a, <2>1, <2>0 DEF ReportWrites, Reports
  <2>2. row' \in [Job -> Rows] /\ settled' \in [Job -> Nat]
    BY <2>b, <2>c
  <2>3. /\ pc' \in [Proc -> {"off", "items", "purge", "loop", "select", "update",
                          "process", "success", "failure", "exception"}]
        /\ working' \in [Proc -> Queue \cup {"none"}]
        /\ before' \in [Proc -> Int] /\ end' \in [Proc -> Nat]
    BY <2>0 DEF ReportWrites
  <2>4. copy' \in [Proc -> [id : Job \cup {0}, job : Rows]]
    <3>1. NoJob \in [id : Job \cup {0}, job : Rows]
      BY DEF Rows
    <3> QED BY <3>1, <2>0 DEF ReportWrites
  <2>5. disturbed' \subseteq Job /\ got' \in [Job -> SUBSET Proc]
    BY <2>0 DEF ReportWrites
  <2>6. UNCHANGED <<now, queues, nextId, loaded, call, fails, edits, deleted>>
    BY <2>0 DEF ReportWrites
  <2> QED BY <2>2, <2>3, <2>4, <2>5, <2>6
<1>11. ASSUME NEW p \in Proc, Kill(p) PROVE TypeOK'
  BY <1>11 DEF Kill, Leave, Fail, Goto
<1>12. ASSUME NEW p \in Proc, Stop(p) PROVE TypeOK'
  BY <1>12 DEF Stop, Leave, Fail, Goto
<1>13. ASSUME NEW c \in Caller, NEW q \in Queue, NEW n \in BatchSizes, NEW d \in Delays, EnqueueJobs(c, q, n, d) PROVE TypeOK'
  BY <1>13 DEF EnqueueJobs
<1>14. ASSUME NEW c \in Caller, InsertJob(c) PROVE TypeOK'
  <2> HIDE DEF Rows
  <2>0. InsertWrites
    BY <1>14, <1>e DEF Effects
  <2>1. PICK w \in Rows : w.state = "queued" /\ row' = [row EXCEPT ![nextId] = w]
    BY <2>0 DEF InsertWrites
  <2>2. nextId' \in Nat \ {0} /\ row' \in [Job -> Rows]
    BY <2>1, <2>0 DEF InsertWrites
  <2> QED BY <1>14, <2>2, <2>0 DEF InsertWrites, InsertJob, Calls
<1>15. ASSUME NEW c \in Caller, CallerDies(c) PROVE TypeOK'
  BY <1>15 DEF CallerDies, Fail
<1>16. ASSUME NEW j \in Job, ReleaseJob(j) PROVE TypeOK'
  <2>0. RequeueWrites({j})
    BY <1>16, <1>e DEF Effects, ReleaseJob
  <2>1. row' \in [Job -> Rows] /\ got' \in [Job -> SUBSET Proc]
    BY <2>0 DEF RequeueWrites
  <2> HIDE DEF Rows
  <2> QED BY <1>16, <2>1 DEF ReleaseJob, Edit, Disturbs
<1>17. ASSUME NEW j \in Job, DeleteJob(j) PROVE TypeOK'
  BY <1>17 DEF DeleteJob, Edit, Without, Present
<1>18. ASSUME NEW a \in Admin, NEW j \in Job, LoadJob(a, j) PROVE TypeOK'
  BY <1>18 DEF LoadJob, Edit
<1>19. ASSUME NEW a \in Admin, RetryLoaded(a) PROVE TypeOK'
  <2>0. RetryWrites(a)
    BY <1>19, <1>e DEF Effects
  <2>1. PICK w \in Rows : /\ w.state = "queued" /\ w.expires = 0
                         /\ Overwrites(loaded[a].id, w)
    BY <2>0 DEF RetryWrites
  <2>2. row' \in [Job -> Rows] /\ disturbed' \subseteq Job
    BY <2>1, <2>0 DEF RetryWrites, Overwrites
  <2>3. loaded' \in [Admin -> [id : Job \cup {0}, job : Rows]]
    <3>1. NoJob \in [id : Job \cup {0}, job : Rows]
      OBVIOUS
    <3> HIDE DEF Rows, NoJob
    <3> QED BY <3>1, <2>0 DEF RetryWrites
  <2> HIDE DEF Rows
  <2> QED BY <2>2, <2>3, <2>0 DEF RetryWrites
<1>20. ASSUME NEW q \in Queue, DeleteQueue(q) PROVE TypeOK'
  BY <1>20 DEF DeleteQueue, Edit, Without
<1>21. CASE Tick
  BY <1>21 DEF Tick
<1>22. CASE UNCHANGED vars
  BY <1>22 DEF vars
<1> QED
  BY <1>1, <1>2, <1>3, <1>4, <1>5, <1>6, <1>7, <1>8, <1>9, <1>10, <1>11,
     <1>12, <1>13, <1>14, <1>15, <1>16, <1>17, <1>18, <1>19, <1>20, <1>21,
     <1>22
  DEF Next, Step

\* Ids are handed out once.
LEMMA OrderStep == Inv /\ [Next]_vars => JobsInOrder'
<1> SUFFICES ASSUME Inv, [Next]_vars PROVE JobsInOrder'
  OBVIOUS
<1>e. Effects
  BY StepEffects
<1> USE DEF Inv, TypeOK, local, bounds, history, JobsInOrder, NoRow, NoJob
<1>1. ASSUME NEW p \in Proc, NEW q \in Queue, ProcessQueue(p, q) PROVE JobsInOrder'
  <2>1. \A j \in Job : j >= nextId => row'[j] = row[j]
    BY <1>1, <1>e DEF Effects, RequeueWrites, ProcessQueue, LeaseOver
  <2> QED BY <1>1, <2>1 DEF ProcessQueue, Goto
<1>2. ASSUME NEW p \in Proc, SeekOldItems(p) PROVE JobsInOrder'
  BY <1>2 DEF SeekOldItems, EnterLoop, Goto
<1>3. ASSUME NEW p \in Proc, QueueIsGone(p) PROVE JobsInOrder'
  BY <1>3 DEF QueueIsGone, Leave, Goto
<1>4. ASSUME NEW p \in Proc, PurgeOldItems(p) PROVE JobsInOrder'
  BY <1>4 DEF PurgeOldItems, EnterLoop, Without, OldItems, Finished, Goto
<1>5. ASSUME NEW p \in Proc, SelectJob(p) PROVE JobsInOrder'
  <2>1. PICK j \in Claimable(working[p]) :
          copy' = [copy EXCEPT ![p] = [id |-> j, job |-> row[j]]]
    BY <1>5 DEF SelectJob
  <2>2. j \in Job /\ row[j].state = "queued"
    BY DEF Claimable
  <2>3. j < nextId /\ j # 0
    BY <2>2 DEF Job
  <2> QED BY <1>5, <2>1, <2>3 DEF SelectJob, Goto
<1>6. ASSUME NEW p \in Proc, SelectNothing(p) PROVE JobsInOrder'
  BY <1>6 DEF SelectNothing, Leave, Goto
<1>7. ASSUME NEW p \in Proc, ClaimJob(p) PROVE JobsInOrder'
  <2>0. ClaimWrites(p)
    BY <1>7, <1>e DEF Effects
  <2>1. copy[p].id < nextId /\ copy[p].id # 0 /\ copy[p].id \in Job
    BY <1>7, <2>0 DEF ClaimWrites, ClaimJob
  <2>2. \A j \in Job : j >= nextId' => row'[j] = NoRow
    BY <1>7, <2>1, <2>0 DEF ClaimWrites, ClaimJob, Job
  <2> QED BY <1>7, <2>1, <2>2, <2>0 DEF ClaimWrites, ClaimJob, Goto
<1>8. ASSUME NEW p \in Proc, ClaimMissed(p) PROVE JobsInOrder'
  BY <1>8 DEF ClaimMissed, Goto
<1>9. ASSUME NEW p \in Proc, ProcessJob(p) PROVE JobsInOrder'
  BY <1>9 DEF ProcessJob, Goto
<1>10. ASSUME NEW p \in Proc, Report(p) PROVE JobsInOrder'
  <2>0. ReportWrites(p)
    BY <1>10, <1>e DEF Effects
  <2>1. PICK w \in Rows : Reports(p, w)
    BY <2>0 DEF ReportWrites
  <2>2. \A j \in Job : j >= nextId => j # copy[p].id
    BY <2>0 DEF ReportWrites, Job
  <2>3. \A j \in Job : j >= nextId => row'[j] = NoRow
    BY <2>1, <2>2, <2>0 DEF ReportWrites, Reports, Overwrites
  <2> QED BY <2>3, <2>0 DEF ReportWrites
<1>11. ASSUME NEW p \in Proc, Kill(p) PROVE JobsInOrder'
  BY <1>11 DEF Kill, Leave, Fail, Goto
<1>12. ASSUME NEW p \in Proc, Stop(p) PROVE JobsInOrder'
  BY <1>12 DEF Stop, Leave, Fail, Goto
<1>13. ASSUME NEW c \in Caller, NEW q \in Queue, NEW n \in BatchSizes, NEW d \in Delays, EnqueueJobs(c, q, n, d) PROVE JobsInOrder'
  BY <1>13 DEF EnqueueJobs
<1>14. ASSUME NEW c \in Caller, InsertJob(c) PROVE JobsInOrder'
  <2>0. InsertWrites
    BY <1>14, <1>e DEF Effects
  <2>1. PICK w \in Rows : w.state = "queued" /\ row' = [row EXCEPT ![nextId] = w]
    BY <2>0 DEF InsertWrites
  <2>2. \A j \in Job : j >= nextId' => j >= nextId /\ j # nextId
    BY <2>0 DEF InsertWrites, Job
  <2>3. \A i \in Int : i < nextId => i < nextId'
    BY <2>0 DEF InsertWrites
  <2>4. UNCHANGED <<pc, copy, loaded>>
    BY <1>14 DEF InsertJob
  <2>5. \A j \in Job : j >= nextId' => row'[j] = NoRow
    BY <2>1, <2>2
  <2>6. (\A q \in Proc : copy[q].id \in Int) /\ (\A b \in Admin : loaded[b].id \in Int)
    BY DEF Job
  <2> QED BY <2>3, <2>4, <2>5, <2>6
<1>15. ASSUME NEW c \in Caller, CallerDies(c) PROVE JobsInOrder'
  BY <1>15 DEF CallerDies, Fail
<1>16. ASSUME NEW j \in Job, ReleaseJob(j) PROVE JobsInOrder'
  <2>0. RequeueWrites({j})
    BY <1>16, <1>e DEF Effects, ReleaseJob
  <2>1. \A i \in Job : i # j => row'[i] = row[i]
    BY <2>0 DEF RequeueWrites
  <2>2. row'[j].state = "queued" /\ row'[j].expires = 0 /\ row[j].state # "absent"
    BY <1>16, <2>0 DEF RequeueWrites, ReleaseJob, Present
  <2> QED BY <1>16, <2>1, <2>2 DEF ReleaseJob
<1>17. ASSUME NEW j \in Job, DeleteJob(j) PROVE JobsInOrder'
  BY <1>17 DEF DeleteJob, Edit, Without, Present
<1>18. ASSUME NEW a \in Admin, NEW j \in Job, LoadJob(a, j) PROVE JobsInOrder'
  <2>1. j < nextId /\ j # 0
    BY <1>18 DEF LoadJob, Job
  <2> QED BY <1>18, <2>1 DEF LoadJob
<1>19. ASSUME NEW a \in Admin, RetryLoaded(a) PROVE JobsInOrder'
  <2>0. RetryWrites(a)
    BY <1>19, <1>e DEF Effects
  <2>1. PICK w \in Rows : /\ w.state = "queued" /\ w.expires = 0
                         /\ Overwrites(loaded[a].id, w)
    BY <2>0 DEF RetryWrites
  <2>2. \A j \in Job : j >= nextId => j # loaded[a].id
    BY <2>0 DEF RetryWrites, Job
  <2>3. \A j \in Job : j >= nextId => row'[j] = NoRow
    BY <2>1, <2>2, <2>0 DEF RetryWrites, Overwrites
  <2> QED BY <2>3, <2>0 DEF RetryWrites
<1>20. ASSUME NEW q \in Queue, DeleteQueue(q) PROVE JobsInOrder'
  BY <1>20 DEF DeleteQueue, Edit, Without
<1>21. CASE Tick
  BY <1>21 DEF Tick
<1>22. CASE UNCHANGED vars
  BY <1>22 DEF vars
<1> QED
  BY <1>1, <1>2, <1>3, <1>4, <1>5, <1>6, <1>7, <1>8, <1>9, <1>10, <1>11,
     <1>12, <1>13, <1>14, <1>15, <1>16, <1>17, <1>18, <1>19, <1>20, <1>21,
     <1>22
  DEF Next, Step

\* A final state comes with the time of its result.
LEMMA ResultsStep == Inv /\ [Next]_vars => ResultsKept'
<1> SUFFICES ASSUME Inv, [Next]_vars PROVE ResultsKept'
  OBVIOUS
<1>e. Effects
  BY StepEffects
<1> USE DEF Inv, TypeOK, local, bounds, history, ResultsKept, Rows, NoRow, Final
<1>1. ASSUME NEW p \in Proc, NEW q \in Queue, ProcessQueue(p, q) PROVE ResultsKept'
  <2>0. RequeueWrites({j \in Job : LeaseOver(j)})
    BY <1>1, <1>e DEF Effects, ProcessQueue
  <2>1. \A j \in Job : LeaseOver(j) \/ row'[j] = row[j]
    BY <2>0 DEF RequeueWrites
  <2>2. \A j \in Job : LeaseOver(j) => row'[j].state = "queued" /\ row'[j].expires = 0
    BY <2>0 DEF RequeueWrites
  <2> QED BY <1>1, <2>1, <2>2 DEF ProcessQueue
<1>2. ASSUME NEW p \in Proc, SeekOldItems(p) PROVE ResultsKept'
  BY <1>2 DEF SeekOldItems, EnterLoop, Goto
<1>3. ASSUME NEW p \in Proc, QueueIsGone(p) PROVE ResultsKept'
  BY <1>3 DEF QueueIsGone, Leave, Goto
<1>4. ASSUME NEW p \in Proc, PurgeOldItems(p) PROVE ResultsKept'
  BY <1>4 DEF PurgeOldItems, EnterLoop, Without, OldItems, Finished, Goto
<1>5. ASSUME NEW p \in Proc, SelectJob(p) PROVE ResultsKept'
  BY <1>5 DEF SelectJob, Claimable, Goto
<1>6. ASSUME NEW p \in Proc, SelectNothing(p) PROVE ResultsKept'
  BY <1>6 DEF SelectNothing, Leave, Goto
<1>7. ASSUME NEW p \in Proc, ClaimJob(p) PROVE ResultsKept'
  <2>0. ClaimWrites(p)
    BY <1>7, <1>e DEF Effects
  <2> QED BY <1>7, <2>0 DEF ClaimWrites, ClaimJob
<1>8. ASSUME NEW p \in Proc, ClaimMissed(p) PROVE ResultsKept'
  BY <1>8 DEF ClaimMissed, Goto
<1>9. ASSUME NEW p \in Proc, ProcessJob(p) PROVE ResultsKept'
  BY <1>9 DEF ProcessJob, Goto
<1>10. ASSUME NEW p \in Proc, Report(p) PROVE ResultsKept'
  <2>0. ReportWrites(p)
    BY <1>10, <1>e DEF Effects
  <2>1. PICK w \in Rows : Reports(p, w)
    BY <2>0 DEF ReportWrites
  <2> QED BY <2>1, <2>0 DEF ReportWrites, Reports, Overwrites
<1>11. ASSUME NEW p \in Proc, Kill(p) PROVE ResultsKept'
  BY <1>11 DEF Kill, Leave, Fail, Goto
<1>12. ASSUME NEW p \in Proc, Stop(p) PROVE ResultsKept'
  BY <1>12 DEF Stop, Leave, Fail, Goto
<1>13. ASSUME NEW c \in Caller, NEW q \in Queue, NEW n \in BatchSizes, NEW d \in Delays, EnqueueJobs(c, q, n, d) PROVE ResultsKept'
  BY <1>13 DEF EnqueueJobs
<1>14. ASSUME NEW c \in Caller, InsertJob(c) PROVE ResultsKept'
  <2>0. InsertWrites
    BY <1>14, <1>e DEF Effects
  <2>1. PICK w \in Rows : w.state = "queued" /\ row' = [row EXCEPT ![nextId] = w]
    BY <2>0 DEF InsertWrites
  <2> QED BY <1>14, <2>1, <2>0 DEF InsertWrites, InsertJob
<1>15. ASSUME NEW c \in Caller, CallerDies(c) PROVE ResultsKept'
  BY <1>15 DEF CallerDies, Fail
<1>16. ASSUME NEW j \in Job, ReleaseJob(j) PROVE ResultsKept'
  <2>0. RequeueWrites({j})
    BY <1>16, <1>e DEF Effects, ReleaseJob
  <2>1. \A i \in Job : i # j => row'[i] = row[i]
    BY <2>0 DEF RequeueWrites
  <2>2. row'[j].state = "queued" /\ row'[j].expires = 0 /\ row[j].state # "absent"
    BY <1>16, <2>0 DEF RequeueWrites, ReleaseJob, Present
  <2> QED BY <1>16, <2>1, <2>2 DEF ReleaseJob
<1>17. ASSUME NEW j \in Job, DeleteJob(j) PROVE ResultsKept'
  BY <1>17 DEF DeleteJob, Edit, Without, Present
<1>18. ASSUME NEW a \in Admin, NEW j \in Job, LoadJob(a, j) PROVE ResultsKept'
  BY <1>18 DEF LoadJob, Edit
<1>19. ASSUME NEW a \in Admin, RetryLoaded(a) PROVE ResultsKept'
  <2>0. RetryWrites(a)
    BY <1>19, <1>e DEF Effects
  <2>1. PICK w \in Rows : /\ w.state = "queued" /\ w.expires = 0
                         /\ Overwrites(loaded[a].id, w)
    BY <2>0 DEF RetryWrites
  <2> QED BY <2>1, <2>0 DEF RetryWrites, Overwrites
<1>20. ASSUME NEW q \in Queue, DeleteQueue(q) PROVE ResultsKept'
  BY <1>20 DEF DeleteQueue, Edit, Without
<1>21. CASE Tick
  BY <1>21 DEF Tick
<1>22. CASE UNCHANGED vars
  BY <1>22 DEF vars
<1> QED
  BY <1>1, <1>2, <1>3, <1>4, <1>5, <1>6, <1>7, <1>8, <1>9, <1>10, <1>11,
     <1>12, <1>13, <1>14, <1>15, <1>16, <1>17, <1>18, <1>19, <1>20, <1>21,
     <1>22
  DEF Next, Step

\* A lease is reset only when it is over, or by somebody without one.
LEMMA LeaseStep == Inv /\ [Next]_vars => RowHasLease'
<1> SUFFICES ASSUME Inv, [Next]_vars PROVE RowHasLease'
  OBVIOUS
<1>e. Effects
  BY StepEffects
<1> USE DEF Inv, TypeOK, local, bounds, history, RowHasLease, Holds, Overdue, Present, Rows, NoRow, NoJob
<1>1. ASSUME NEW p \in Proc, NEW q \in Queue, ProcessQueue(p, q) PROVE RowHasLease'
  <2>0. RequeueWrites({j \in Job : LeaseOver(j)})
    BY <1>1, <1>e DEF Effects, ProcessQueue
  <2>1. \A j \in Job : LeaseOver(j) \/ row'[j] = row[j]
    BY <2>0 DEF RequeueWrites
  <2>2. \A j \in Job : LeaseOver(j) => row'[j].state = "queued" /\ row'[j].expires = 0
    BY <2>0 DEF RequeueWrites
  <2>3. pc' = [pc EXCEPT ![p] = "items"] /\ UNCHANGED <<now, copy, disturbed>>
    BY <1>1 DEF ProcessQueue, Goto
  <2>4. ASSUME NEW r \in Proc, NEW j \in Job, Holds(r, j)', j \notin disturbed', Present(j)'
        PROVE  row'[j].expires = copy'[r].job.expires
    <3>1. Holds(r, j)
      BY <2>3, <2>4
    <3>2. ~LeaseOver(j)
      BY <2>3, <2>4, <3>1 DEF LeaseOver
    <3> QED BY <2>1, <2>3, <2>4, <3>1, <3>2
  <2> QED BY <2>4
<1>2. ASSUME NEW p \in Proc, SeekOldItems(p) PROVE RowHasLease'
  BY SMTT(30), <1>2 DEF SeekOldItems, EnterLoop, Goto
<1>3. ASSUME NEW p \in Proc, QueueIsGone(p) PROVE RowHasLease'
  BY <1>3 DEF QueueIsGone, Leave, Goto
<1>4. ASSUME NEW p \in Proc, PurgeOldItems(p) PROVE RowHasLease'
  BY <1>4 DEF PurgeOldItems, EnterLoop, Without, OldItems, Finished, Goto
<1>5. ASSUME NEW p \in Proc, SelectJob(p) PROVE RowHasLease'
  <2>1. /\ pc' = [pc EXCEPT ![p] = "update"]
        /\ \A q \in Proc : q # p => copy'[q] = copy[q]
        /\ UNCHANGED <<now, row, disturbed>>
    BY <1>5 DEF SelectJob, Goto
  <2>2. ASSUME NEW q \in Proc, NEW j \in Job, Holds(q, j)'
        PROVE  Holds(q, j) /\ copy'[q] = copy[q]
    BY <2>1, <2>2
  <2> HIDE DEF Holds
  <2> QED BY SMTT(60), <2>1, <2>2
<1>6. ASSUME NEW p \in Proc, SelectNothing(p) PROVE RowHasLease'
  BY <1>6 DEF SelectNothing, Leave, Goto
<1>7. ASSUME NEW p \in Proc, ClaimJob(p) PROVE RowHasLease'
  <2>0. ClaimWrites(p)
    BY <1>7, <1>e DEF Effects
  <2>1. ASSUME NEW q \in Proc, NEW j \in Job, Holds(q, j)', j \notin disturbed', Present(j)'
        PROVE  row'[j].expires = copy'[q].job.expires
    <3>1. CASE q = p
      BY <2>1, <3>1, <2>0 DEF ClaimWrites
    <3>2. CASE q # p
      <4>1. Holds(q, j) /\ copy'[q] = copy[q] /\ j \notin disturbed
        BY <1>7, <2>1, <3>2, <2>0 DEF ClaimWrites, ClaimJob, Goto
      <4>2. copy[q].job.expires # 0
        BY <4>1
      <4>3. j # copy[p].id
        <5>1. Present(copy[p].id) /\ row[copy[p].id].expires = 0
          BY <1>7 DEF ClaimJob, Unclaimed
        <5> QED BY <4>1, <4>2, <5>1
      <4>4. row'[j] = row[j]
        BY <4>3, <2>0 DEF ClaimWrites
      <4> QED BY SMTT(30), <2>1, <4>1, <4>4
    <3> QED BY <3>1, <3>2
  <2> QED BY <2>1
<1>8. ASSUME NEW p \in Proc, ClaimMissed(p) PROVE RowHasLease'
  BY <1>8 DEF ClaimMissed, Goto
<1>9. ASSUME NEW p \in Proc, ProcessJob(p) PROVE RowHasLease'
  BY <1>9 DEF ProcessJob, Goto
<1>10. ASSUME NEW p \in Proc, Report(p) PROVE RowHasLease'
  <2>0. ReportWrites(p)
    BY <1>10, <1>e DEF Effects
  <2>1. PICK w \in Rows : Reports(p, w)
    BY <2>0 DEF ReportWrites
  <2>2. ASSUME NEW q \in Proc, NEW j \in Job, Holds(q, j)', j \notin disturbed', Present(j)'
        PROVE  row'[j].expires = copy'[q].job.expires
    <3>1. q # p /\ Holds(q, j) /\ copy'[q] = copy[q]
      BY <2>2, <2>0 DEF ReportWrites
    <3>2. j \notin disturbed /\ ~(j = copy[p].id /\ copy[p].job.expires < now)
      BY <2>2, <2>0 DEF ReportWrites
    <3>3. j # copy[p].id
      BY <3>1, <3>2, <2>0 DEF ReportWrites, LeasesExclusive
    <3>4. row'[j] = row[j]
      BY <2>1, <3>3 DEF Reports, Overwrites
    <3> QED BY SMTT(30), <2>2, <3>1, <3>2, <3>4
  <2> QED BY <2>2
<1>11. ASSUME NEW p \in Proc, Kill(p) PROVE RowHasLease'
  BY <1>11 DEF Kill, Leave, Fail, Goto
<1>12. ASSUME NEW p \in Proc, Stop(p) PROVE RowHasLease'
  BY <1>12 DEF Stop, Leave, Fail, Goto
<1>13. ASSUME NEW c \in Caller, NEW q \in Queue, NEW n \in BatchSizes, NEW d \in Delays, EnqueueJobs(c, q, n, d) PROVE RowHasLease'
  BY <1>13 DEF EnqueueJobs
<1>14. ASSUME NEW c \in Caller, InsertJob(c) PROVE RowHasLease'
  <2>0. InsertWrites
    BY <1>14, <1>e DEF Effects
  <2>1. PICK w \in Rows : w.state = "queued" /\ row' = [row EXCEPT ![nextId] = w]
    BY <2>0 DEF InsertWrites
  <2>2. \A q \in Proc : copy[q].id # nextId
    BY DEF JobsInOrder
  <2>3. UNCHANGED <<now, pc, copy, disturbed>>
    BY <1>14 DEF InsertJob
  <2> QED BY <2>1, <2>2, <2>3
<1>15. ASSUME NEW c \in Caller, CallerDies(c) PROVE RowHasLease'
  BY <1>15 DEF CallerDies, Fail
<1>16. ASSUME NEW j \in Job, ReleaseJob(j) PROVE RowHasLease'
  <2>0. RequeueWrites({j})
    BY <1>16, <1>e DEF Effects, ReleaseJob
  <2>1. \A i \in Job : i # j => row'[i] = row[i]
    BY <2>0 DEF RequeueWrites
  <2>2. row'[j].state = "queued" /\ row'[j].expires = 0 /\ row[j].state # "absent"
    BY <1>16, <2>0 DEF RequeueWrites, ReleaseJob, Present
  <2>3. UNCHANGED <<now, pc, copy>> /\ disturbed' = disturbed \cup {j}
    BY <1>16 DEF ReleaseJob, Disturbs
  <2>4. ASSUME NEW q \in Proc, NEW i \in Job, Holds(q, i)' PROVE Holds(q, i)
    BY <2>3, <2>4
  <2> HIDE DEF Holds
  <2> QED BY <2>1, <2>3, <2>4
<1>17. ASSUME NEW j \in Job, DeleteJob(j) PROVE RowHasLease'
  BY <1>17 DEF DeleteJob, Edit, Without, Present
<1>18. ASSUME NEW a \in Admin, NEW j \in Job, LoadJob(a, j) PROVE RowHasLease'
  BY <1>18 DEF LoadJob, Edit
<1>19. ASSUME NEW a \in Admin, RetryLoaded(a) PROVE RowHasLease'
  <2>0. RetryWrites(a)
    BY <1>19, <1>e DEF Effects
  <2>1. PICK w \in Rows : /\ w.state = "queued" /\ w.expires = 0
                         /\ Overwrites(loaded[a].id, w)
    BY <2>0 DEF RetryWrites
  <2>2. UNCHANGED <<now, pc, copy>> /\ disturbed' = disturbed \cup {loaded[a].id}
    BY <2>0 DEF RetryWrites
  <2>3. \A i \in Job : i # loaded[a].id => row'[i] = row[i]
    BY <2>1 DEF Overwrites
  <2>4. ASSUME NEW q \in Proc, NEW i \in Job, Holds(q, i)' PROVE Holds(q, i)
    BY <2>2, <2>4
  <2> HIDE DEF Holds
  <2> QED BY <2>2, <2>3, <2>4
<1>20. ASSUME NEW q \in Queue, DeleteQueue(q) PROVE RowHasLease'
  BY <1>20 DEF DeleteQueue, Edit, Without
<1>21. CASE Tick
  BY SMTT(30), <1>21 DEF Tick
<1>22. CASE UNCHANGED vars
  BY <1>22 DEF vars
<1> QED
  BY <1>1, <1>2, <1>3, <1>4, <1>5, <1>6, <1>7, <1>8, <1>9, <1>10, <1>11,
     <1>12, <1>13, <1>14, <1>15, <1>16, <1>17, <1>18, <1>19, <1>20, <1>21,
     <1>22
  DEF Next, Step

\* A job is claimed only while its row shows no lease.
LEMMA ExclusiveStep == Inv /\ [Next]_vars => LeasesExclusive'
<1> SUFFICES ASSUME Inv, [Next]_vars PROVE LeasesExclusive'
  OBVIOUS
<1>e. Effects
  BY StepEffects
<1> USE DEF Inv, TypeOK, local, bounds, history, LeasesExclusive, Holds, Overdue, Present, NoJob
<1>1. ASSUME NEW p \in Proc, NEW q \in Queue, ProcessQueue(p, q) PROVE LeasesExclusive'
  BY <1>1 DEF ProcessQueue, Requeued, LeaseOver, Goto
<1>2. ASSUME NEW p \in Proc, SeekOldItems(p) PROVE LeasesExclusive'
  <2>1. UNCHANGED <<now, copy, disturbed>>
    BY <1>2 DEF SeekOldItems
  <2>2. PICK s \in {"loop", "purge"} : pc' = [pc EXCEPT ![p] = s]
    BY <1>2 DEF SeekOldItems, EnterLoop, Goto
  <2> QED BY <2>1, <2>2
<1>3. ASSUME NEW p \in Proc, QueueIsGone(p) PROVE LeasesExclusive'
  BY <1>3 DEF QueueIsGone, Leave, Goto
<1>4. ASSUME NEW p \in Proc, PurgeOldItems(p) PROVE LeasesExclusive'
  BY <1>4 DEF PurgeOldItems, EnterLoop, Without, OldItems, Finished, Goto
<1>5. ASSUME NEW p \in Proc, SelectJob(p) PROVE LeasesExclusive'
  BY <1>5 DEF SelectJob, Claimable, Goto
<1>6. ASSUME NEW p \in Proc, SelectNothing(p) PROVE LeasesExclusive'
  BY <1>6 DEF SelectNothing, Leave, Goto
<1>7. ASSUME NEW p \in Proc, ClaimJob(p) PROVE LeasesExclusive'
  <2>0. ClaimWrites(p)
    BY <1>7, <1>e DEF Effects
  <2>1. disturbed' = disturbed
    BY <1>7 DEF ClaimJob
  <2>2. ASSUME NEW q \in Proc, NEW j \in Job, Holds(q, j)', q # p PROVE Holds(q, j)
    BY <1>7, <2>2, <2>0 DEF ClaimWrites, ClaimJob, Goto
  <2>3. ASSUME NEW q \in Proc, q # p, Holds(q, copy[p].id) PROVE copy[p].id \in disturbed
    BY <1>7, <2>3, <2>0 DEF ClaimWrites, ClaimJob, Unclaimed, RowHasLease
  <2>4. ASSUME NEW j \in Job, Holds(p, j)' PROVE j = copy[p].id
    BY <2>4, <2>0 DEF ClaimWrites
  <2>5. ASSUME NEW q \in Proc, NEW r \in Proc, NEW j \in Job, Holds(q, j)', Holds(r, j)',
               q # r
        PROVE  j \in disturbed
    <3> HIDE DEF Holds
    <3>1. CASE q = p
      BY <2>2, <2>3, <2>4, <2>5, <3>1
    <3>2. CASE r = p
      BY <2>2, <2>3, <2>4, <2>5, <3>2
    <3>3. CASE q # p /\ r # p
      BY <2>2, <2>5, <3>3
    <3> QED BY <3>1, <3>2, <3>3
  <2> HIDE DEF Holds
  <2> QED BY <2>1, <2>5
<1>8. ASSUME NEW p \in Proc, ClaimMissed(p) PROVE LeasesExclusive'
  BY <1>8 DEF ClaimMissed, Goto
<1>9. ASSUME NEW p \in Proc, ProcessJob(p) PROVE LeasesExclusive'
  BY <1>9 DEF ProcessJob, Goto
<1>10. ASSUME NEW p \in Proc, Report(p) PROVE LeasesExclusive'
  <2>0. ReportWrites(p)
    BY <1>10, <1>e DEF Effects
  <2>1. PICK w \in Rows : Reports(p, w)
    BY <2>0 DEF ReportWrites
  <2>2. ASSUME NEW q \in Proc, NEW j \in Job, Holds(q, j)' PROVE q # p /\ Holds(q, j)
    BY <2>0, <2>2 DEF ReportWrites
  <2>3. disturbed \subseteq disturbed'
    BY <2>0 DEF ReportWrites
  <2> HIDE DEF Holds
  <2> QED BY <2>2, <2>3
<1>11. ASSUME NEW p \in Proc, Kill(p) PROVE LeasesExclusive'
  BY <1>11 DEF Kill, Leave, Fail, Goto
<1>12. ASSUME NEW p \in Proc, Stop(p) PROVE LeasesExclusive'
  BY SMTT(30), <1>12 DEF Stop, Leave, Fail, Goto
<1>13. ASSUME NEW c \in Caller, NEW q \in Queue, NEW n \in BatchSizes, NEW d \in Delays, EnqueueJobs(c, q, n, d) PROVE LeasesExclusive'
  BY <1>13 DEF EnqueueJobs
<1>14. ASSUME NEW c \in Caller, InsertJob(c) PROVE LeasesExclusive'
  BY <1>14 DEF InsertJob
<1>15. ASSUME NEW c \in Caller, CallerDies(c) PROVE LeasesExclusive'
  BY <1>15 DEF CallerDies, Fail
<1>16. ASSUME NEW j \in Job, ReleaseJob(j) PROVE LeasesExclusive'
  BY <1>16 DEF ReleaseJob, Disturbs
<1>17. ASSUME NEW j \in Job, DeleteJob(j) PROVE LeasesExclusive'
  BY <1>17 DEF DeleteJob, Edit, Without, Present
<1>18. ASSUME NEW a \in Admin, NEW j \in Job, LoadJob(a, j) PROVE LeasesExclusive'
  BY <1>18 DEF LoadJob, Edit
<1>19. ASSUME NEW a \in Admin, RetryLoaded(a) PROVE LeasesExclusive'
  <2>0. RetryWrites(a)
    BY <1>19, <1>e DEF Effects
  <2>1. PICK w \in Rows : /\ w.state = "queued" /\ w.expires = 0
                         /\ Overwrites(loaded[a].id, w)
    BY <2>0 DEF RetryWrites
  <2> QED BY <2>0 DEF RetryWrites
<1>20. ASSUME NEW q \in Queue, DeleteQueue(q) PROVE LeasesExclusive'
  BY <1>20 DEF DeleteQueue, Edit, Without
<1>21. CASE Tick
  <2>1. UNCHANGED <<pc, copy, disturbed>> /\ now' = now + 1
    BY <1>21 DEF Tick
  <2>2. ASSUME NEW q \in Proc, NEW j \in Job, Holds(q, j)' PROVE Holds(q, j)
    <3>1. copy[q].job.expires \in Nat
      BY DEF Rows
    <3> QED BY <2>1, <2>2, <3>1
  <2> HIDE DEF Holds
  <2> QED BY <2>1, <2>2
<1>22. CASE UNCHANGED vars
  BY <1>22 DEF vars
<1> QED
  BY <1>1, <1>2, <1>3, <1>4, <1>5, <1>6, <1>7, <1>8, <1>9, <1>10, <1>11,
     <1>12, <1>13, <1>14, <1>15, <1>16, <1>17, <1>18, <1>19, <1>20, <1>21,
     <1>22
  DEF Next, Step

\* Only finished jobs are removed.
LEMMA LostStep == Inv /\ [Next]_vars => NothingLost'
<1> SUFFICES ASSUME Inv, [Next]_vars PROVE NothingLost'
  OBVIOUS
<1>e. Effects
  BY StepEffects
<1> USE DEF Inv, TypeOK, local, bounds, history, NothingLost, Present, NoRow
<1>1. ASSUME NEW p \in Proc, NEW q \in Queue, ProcessQueue(p, q) PROVE NothingLost'
  <2>0. RequeueWrites({j \in Job : LeaseOver(j)})
    BY <1>1, <1>e DEF Effects, ProcessQueue
  <2>1. \A j \in Job : LeaseOver(j) \/ row'[j] = row[j]
    BY <2>0 DEF RequeueWrites
  <2>2. \A j \in Job : LeaseOver(j) => row'[j].state = "queued" /\ row'[j].expires = 0
    BY <2>0 DEF RequeueWrites
  <2> QED BY <1>1, <2>1, <2>2 DEF ProcessQueue
<1>2. ASSUME NEW p \in Proc, SeekOldItems(p) PROVE NothingLost'
  BY <1>2 DEF SeekOldItems, EnterLoop, Goto
<1>3. ASSUME NEW p \in Proc, QueueIsGone(p) PROVE NothingLost'
  BY <1>3 DEF QueueIsGone, Leave, Goto
<1>4. ASSUME NEW p \in Proc, PurgeOldItems(p) PROVE NothingLost'
  <2>1. \A j \in Job : row'[j] = row[j] \/ row[j].state \in Final
    BY <1>4 DEF PurgeOldItems, Without, OldItems, Finished, Final
  <2>2. \A j \in Job : row[j].state \in Final => settled[j] # 0
    BY DEF ResultsKept
  <2>3. UNCHANGED <<nextId, settled, deleted>>
    BY <1>4 DEF PurgeOldItems
  <2> QED BY <2>1, <2>2, <2>3
<1>5. ASSUME NEW p \in Proc, SelectJob(p) PROVE NothingLost'
  BY <1>5 DEF SelectJob, Claimable, Goto
<1>6. ASSUME NEW p \in Proc, SelectNothing(p) PROVE NothingLost'
  BY <1>6 DEF SelectNothing, Leave, Goto
<1>7. ASSUME NEW p \in Proc, ClaimJob(p) PROVE NothingLost'
  <2>0. ClaimWrites(p)
    BY <1>7, <1>e DEF Effects
  <2> QED BY <1>7, <2>0 DEF ClaimWrites, ClaimJob
<1>8. ASSUME NEW p \in Proc, ClaimMissed(p) PROVE NothingLost'
  BY <1>8 DEF ClaimMissed, Goto
<1>9. ASSUME NEW p \in Proc, ProcessJob(p) PROVE NothingLost'
  BY <1>9 DEF ProcessJob, Goto
<1>10. ASSUME NEW p \in Proc, Report(p) PROVE NothingLost'
  <2>0. ReportWrites(p)
    BY <1>10, <1>e DEF Effects
  <2>1. PICK w \in Rows : Reports(p, w)
    BY <2>0 DEF ReportWrites
  <2> QED BY <2>1, <2>0 DEF ReportWrites, Reports, Overwrites
<1>11. ASSUME NEW p \in Proc, Kill(p) PROVE NothingLost'
  BY <1>11 DEF Kill, Leave, Fail, Goto
<1>12. ASSUME NEW p \in Proc, Stop(p) PROVE NothingLost'
  BY <1>12 DEF Stop, Leave, Fail, Goto
<1>13. ASSUME NEW c \in Caller, NEW q \in Queue, NEW n \in BatchSizes, NEW d \in Delays, EnqueueJobs(c, q, n, d) PROVE NothingLost'
  BY <1>13 DEF EnqueueJobs
<1>14. ASSUME NEW c \in Caller, InsertJob(c) PROVE NothingLost'
  <2>0. InsertWrites
    BY <1>14, <1>e DEF Effects
  <2>1. PICK w \in Rows : w.state = "queued" /\ row' = [row EXCEPT ![nextId] = w]
    BY <2>0 DEF InsertWrites
  <2>2. \A j \in Job : j < nextId' => j < nextId \/ j = nextId
    BY <2>0 DEF InsertWrites, Job
  <2> QED BY <1>14, <2>1, <2>2, <2>0 DEF InsertWrites, InsertJob
<1>15. ASSUME NEW c \in Caller, CallerDies(c) PROVE NothingLost'
  BY <1>15 DEF CallerDies, Fail
<1>16. ASSUME NEW j \in Job, ReleaseJob(j) PROVE NothingLost'
  <2>0. RequeueWrites({j})
    BY <1>16, <1>e DEF Effects, ReleaseJob
  <2>1. \A i \in Job : i # j => row'[i] = row[i]
    BY <2>0 DEF RequeueWrites
  <2>2. row'[j].state = "queued" /\ row'[j].expires = 0 /\ row[j].state # "absent"
    BY <1>16, <2>0 DEF RequeueWrites, ReleaseJob, Present
  <2> QED BY <1>16, <2>1, <2>2 DEF ReleaseJob
<1>17. ASSUME NEW j \in Job, DeleteJob(j) PROVE NothingLost'
  BY <1>17 DEF DeleteJob, Edit, Without, Present
<1>18. ASSUME NEW a \in Admin, NEW j \in Job, LoadJob(a, j) PROVE NothingLost'
  BY <1>18 DEF LoadJob, Edit
<1>19. ASSUME NEW a \in Admin, RetryLoaded(a) PROVE NothingLost'
  <2>0. RetryWrites(a)
    BY <1>19, <1>e DEF Effects
  <2>1. PICK w \in Rows : /\ w.state = "queued" /\ w.expires = 0
                         /\ Overwrites(loaded[a].id, w)
    BY <2>0 DEF RetryWrites
  <2> QED BY <2>1, <2>0 DEF RetryWrites, Overwrites
<1>20. ASSUME NEW q \in Queue, DeleteQueue(q) PROVE NothingLost'
  BY <1>20 DEF DeleteQueue, Edit, Without
<1>21. CASE Tick
  BY <1>21 DEF Tick
<1>22. CASE UNCHANGED vars
  BY <1>22 DEF vars
<1> QED
  BY <1>1, <1>2, <1>3, <1>4, <1>5, <1>6, <1>7, <1>8, <1>9, <1>10, <1>11,
     <1>12, <1>13, <1>14, <1>15, <1>16, <1>17, <1>18, <1>19, <1>20, <1>21,
     <1>22
  DEF Next, Step

\* Results only get later.
LEMMA LimitStep == Inv /\ [Next]_vars => LimitStillRecent'
<1> SUFFICES ASSUME Inv, [Next]_vars PROVE LimitStillRecent'
  OBVIOUS
<1>e. Effects
  BY StepEffects
<1> USE DEF Inv, TypeOK, local, bounds, history, LimitStillRecent

<1>0. \A T \in SUBSET Job : \A S \in SUBSET T : Cardinality(S) <= Cardinality(T)
  <2>1. IsFiniteSet(Job)
    BY FS_Interval DEF Job
  <2>2. ASSUME NEW T \in SUBSET Job, NEW S \in SUBSET T
        PROVE  Cardinality(S) <= Cardinality(T)
    <3>1. IsFiniteSet(T)
      BY <2>1, FS_Subset
    <3> QED BY <3>1, FS_Subset
  <2> QED BY <2>2
<1>nat. \A S \in SUBSET Job : Cardinality(S) \in Nat
  <2>1. IsFiniteSet(Job)
    BY FS_Interval DEF Job
  <2> QED BY <2>1, FS_Subset, FS_CardinalityType
<1>1. ASSUME NEW p \in Proc, NEW q \in Queue, ProcessQueue(p, q) PROVE LimitStillRecent'
  BY ZenonT(60), <1>1, <1>0 DEF ProcessQueue, Requeued, LeaseOver, Goto
<1>2. ASSUME NEW p \in Proc, SeekOldItems(p) PROVE LimitStillRecent'
  <2>1. ASSUME pc'[p] = "purge", ThresholdType = "items"
        PROVE  Cardinality({i \in Job : settled[i] >= before'[p]}) >= ThresholdLimit
    <3>1. PICK t \in 1..now : IsLimit(working[p], t) /\ before' = [before EXCEPT ![p] = t]
      BY <1>2, <2>1 DEF SeekOldItems, EnterLoop, Goto
    <3>2. Cardinality({i \in Finished(working[p]) : row[i].processed >= t}) >= ThresholdLimit
      BY <3>1 DEF IsLimit
    <3>3. {i \in Finished(working[p]) : row[i].processed >= t}
             \subseteq {i \in Job : settled[i] >= t}
      BY DEF Finished, ResultsKept, Final, Rows
    <3> DEFINE S == {i \in Finished(working[p]) : row[i].processed >= t}
               T == {i \in Job : settled[i] >= t}
    <3>4. Cardinality(S) \in Nat /\ Cardinality(T) \in Nat /\ Cardinality(S) <= Cardinality(T)
      BY <1>0, <1>nat, <3>3 DEF Finished
    <3>5. before'[p] = t
      BY <3>1
    <3> QED BY <3>2, <3>4, <3>5
  <2>2. /\ \A q \in Proc : q # p => pc'[q] = pc[q] /\ before'[q] = before[q]
        /\ UNCHANGED settled
    BY <1>2 DEF SeekOldItems, EnterLoop, Goto
  <2> QED BY ZenonT(60), <2>1, <2>2
<1>3. ASSUME NEW p \in Proc, QueueIsGone(p) PROVE LimitStillRecent'
  BY <1>3, <1>0 DEF QueueIsGone, Leave, Goto
<1>4. ASSUME NEW p \in Proc, PurgeOldItems(p) PROVE LimitStillRecent'
  BY <1>4, <1>0 DEF PurgeOldItems, EnterLoop, Without, OldItems, Finished, Goto
<1>5. ASSUME NEW p \in Proc, SelectJob(p) PROVE LimitStillRecent'
  BY <1>5, <1>0 DEF SelectJob, Claimable, Goto
<1>6. ASSUME NEW p \in Proc, SelectNothing(p) PROVE LimitStillRecent'
  BY <1>6, <1>0 DEF SelectNothing, Leave, Goto
<1>7. ASSUME NEW p \in Proc, ClaimJob(p) PROVE LimitStillRecent'
  BY <1>7, <1>0 DEF ClaimJob, Unclaimed, Present, Goto
<1>8. ASSUME NEW p \in Proc, ClaimMissed(p) PROVE LimitStillRecent'
  BY <1>8, <1>0 DEF ClaimMissed, Goto
<1>9. ASSUME NEW p \in Proc, ProcessJob(p) PROVE LimitStillRecent'
  BY <1>9, <1>0 DEF ProcessJob, Goto
<1>10. ASSUME NEW p \in Proc, Report(p) PROVE LimitStillRecent'
  <2>0. ReportWrites(p)
    BY <1>10, <1>e DEF Effects
  <2>1. PICK w \in Rows : Reports(p, w)
    BY <2>0 DEF ReportWrites
  <2>2. \A i \in Job : settled'[i] \in Nat /\ settled[i] \in Nat /\ settled'[i] >= settled[i]
    BY SMTT(30), <2>1, <2>0 DEF ReportWrites, Reports, Overwrites, ResultsKept
  <2>3. ASSUME NEW q \in Proc, pc'[q] = "purge", ThresholdType = "items"
        PROVE  Cardinality({i \in Job : settled'[i] >= before'[q]}) >= ThresholdLimit
    <3>1. pc[q] = "purge" /\ before'[q] = before[q] /\ before[q] \in Int
      BY <2>3, <2>0 DEF ReportWrites
    <3> DEFINE S == {i \in Job : settled[i] >= before[q]}
               T == {i \in Job : settled'[i] >= before[q]}
    <3>2. S \subseteq T
      BY <2>2, <3>1
    <3>3. Cardinality(S) \in Nat /\ Cardinality(T) \in Nat /\ Cardinality(S) <= Cardinality(T)
      BY <1>0, <1>nat, <3>2
    <3>4. Cardinality(S) >= ThresholdLimit
      BY <2>3, <3>1
    <3> QED BY <3>1, <3>3, <3>4
  <2> QED BY <2>3
<1>11. ASSUME NEW p \in Proc, Kill(p) PROVE LimitStillRecent'
  BY <1>11, <1>0 DEF Kill, Leave, Fail, Goto
<1>12. ASSUME NEW p \in Proc, Stop(p) PROVE LimitStillRecent'
  BY <1>12, <1>0 DEF Stop, Leave, Fail, Goto
<1>13. ASSUME NEW c \in Caller, NEW q \in Queue, NEW n \in BatchSizes, NEW d \in Delays, EnqueueJobs(c, q, n, d) PROVE LimitStillRecent'
  BY <1>13, <1>0 DEF EnqueueJobs
<1>14. ASSUME NEW c \in Caller, InsertJob(c) PROVE LimitStillRecent'
  BY <1>14, <1>0 DEF InsertJob
<1>15. ASSUME NEW c \in Caller, CallerDies(c) PROVE LimitStillRecent'
  BY <1>15, <1>0 DEF CallerDies, Fail
<1>16. ASSUME NEW j \in Job, ReleaseJob(j) PROVE LimitStillRecent'
  BY ZenonT(60), <1>16, <1>0 DEF ReleaseJob, Edit, Requeued, Disturbs, Present
<1>17. ASSUME NEW j \in Job, DeleteJob(j) PROVE LimitStillRecent'
  BY <1>17, <1>0 DEF DeleteJob, Edit, Without, Present
<1>18. ASSUME NEW a \in Admin, NEW j \in Job, LoadJob(a, j) PROVE LimitStillRecent'
  BY <1>18, <1>0 DEF LoadJob, Edit
<1>19. ASSUME NEW a \in Admin, RetryLoaded(a) PROVE LimitStillRecent'
  <2>0. RetryWrites(a)
    BY <1>19, <1>e DEF Effects
  <2>1. PICK w \in Rows : /\ w.state = "queued" /\ w.expires = 0
                         /\ Overwrites(loaded[a].id, w)
    BY <2>0 DEF RetryWrites
  <2> QED BY <2>0 DEF RetryWrites
<1>20. ASSUME NEW q \in Queue, DeleteQueue(q) PROVE LimitStillRecent'
  BY <1>20, <1>0 DEF DeleteQueue, Edit, Without
<1>21. CASE Tick
  BY <1>21, <1>0 DEF Tick
<1>22. CASE UNCHANGED vars
  BY <1>22, <1>0 DEF vars
<1> QED
  BY <1>1, <1>2, <1>3, <1>4, <1>5, <1>6, <1>7, <1>8, <1>9, <1>10, <1>11,
     <1>12, <1>13, <1>14, <1>15, <1>16, <1>17, <1>18, <1>19, <1>20, <1>21,
     <1>22
  DEF Next, Step

\* Only the DELETE of a cleanup leads from there into the loop.
LEMMA OnlyPurge ==
    ASSUME Inv, [Next]_vars, NEW x \in Proc, pc[x] = "purge", pc'[x] = "loop"
    PROVE  PurgeOldItems(x)
<1>e. Effects
  BY StepEffects
<1> USE DEF Inv, TypeOK, local
<1>1. ASSUME NEW p \in Proc, NEW q \in Queue, ProcessQueue(p, q) PROVE PurgeOldItems(x)
  BY <1>1 DEF ProcessQueue, Goto
<1>2. ASSUME NEW p \in Proc, SeekOldItems(p) PROVE PurgeOldItems(x)
  BY <1>2 DEF SeekOldItems, EnterLoop, Goto
<1>3. ASSUME NEW p \in Proc, QueueIsGone(p) PROVE PurgeOldItems(x)
  BY <1>3 DEF QueueIsGone, Leave, Goto
<1>4. ASSUME NEW p \in Proc, PurgeOldItems(p) PROVE PurgeOldItems(x)
  <2>1. x = p
    BY <1>4 DEF PurgeOldItems, EnterLoop, Goto
  <2> QED BY <1>4, <2>1
<1>5. ASSUME NEW p \in Proc, SelectJob(p) PROVE PurgeOldItems(x)
  BY <1>5 DEF SelectJob, Goto
<1>6. ASSUME NEW p \in Proc, SelectNothing(p) PROVE PurgeOldItems(x)
  BY <1>6 DEF SelectNothing, Leave, Goto
<1>7. ASSUME NEW p \in Proc, ClaimJob(p) PROVE PurgeOldItems(x)
  BY <1>7 DEF ClaimJob, Goto
<1>8. ASSUME NEW p \in Proc, ClaimMissed(p) PROVE PurgeOldItems(x)
  BY <1>8 DEF ClaimMissed, Goto
<1>9. ASSUME NEW p \in Proc, ProcessJob(p) PROVE PurgeOldItems(x)
  BY <1>9 DEF ProcessJob, Goto
<1>10. ASSUME NEW p \in Proc, Report(p) PROVE PurgeOldItems(x)
  BY SMTT(30), <1>10, <1>e DEF Effects, ReportWrites
<1>11. ASSUME NEW p \in Proc, Kill(p) PROVE PurgeOldItems(x)
  BY <1>11 DEF Kill, Leave, Goto
<1>12. ASSUME NEW p \in Proc, Stop(p) PROVE PurgeOldItems(x)
  BY <1>12 DEF Stop, Leave, Goto
<1>13. ASSUME NEW c \in Caller, NEW q \in Queue, NEW n \in BatchSizes, NEW d \in Delays, EnqueueJobs(c, q, n, d) PROVE PurgeOldItems(x)
  BY <1>13 DEF EnqueueJobs
<1>14. ASSUME NEW c \in Caller, InsertJob(c) PROVE PurgeOldItems(x)
  BY <1>14 DEF InsertJob
<1>15. ASSUME NEW c \in Caller, CallerDies(c) PROVE PurgeOldItems(x)
  BY <1>15 DEF CallerDies
<1>16. ASSUME NEW j \in Job, ReleaseJob(j) PROVE PurgeOldItems(x)
  BY <1>16 DEF ReleaseJob
<1>17. ASSUME NEW j \in Job, DeleteJob(j) PROVE PurgeOldItems(x)
  BY <1>17 DEF DeleteJob
<1>18. ASSUME NEW a \in Admin, NEW j \in Job, LoadJob(a, j) PROVE PurgeOldItems(x)
  BY <1>18 DEF LoadJob
<1>19. ASSUME NEW a \in Admin, RetryLoaded(a) PROVE PurgeOldItems(x)
  BY <1>19 DEF RetryLoaded
<1>20. ASSUME NEW q \in Queue, DeleteQueue(q) PROVE PurgeOldItems(x)
  BY <1>20 DEF DeleteQueue
<1>21. CASE Tick
  BY <1>21 DEF Tick
<1>22. CASE UNCHANGED vars
  BY <1>22 DEF vars
<1> QED
  BY <1>1, <1>2, <1>3, <1>4, <1>5, <1>6, <1>7, <1>8, <1>9, <1>10, <1>11,
     <1>12, <1>13, <1>14, <1>15, <1>16, <1>17, <1>18, <1>19, <1>20, <1>21,
     <1>22
  DEF Next, Step


LEMMA Initial == Init => Inv
BY DEF Init, Inv, TypeOK, JobsInOrder, ResultsKept, RowHasLease, LimitStillRecent,
       LeasesExclusive, NothingLost, Holds, Rows, NoRow, NoJob, NoCall, Final, Job

\* The inductive invariant of the queue.
THEOREM Invariance == Spec => []Inv
<1>1. Inv /\ [Next]_vars => Inv'
  BY TypeStep, OrderStep, ResultsStep, LeaseStep, ExclusiveStep, LostStep, LimitStep
  DEF Inv
<1> QED BY Initial, <1>1, PTL DEF Spec

\* Two processors have the same job within their leases only if somebody
\* without a lease wrote it.
THEOREM Exclusion == Spec => []LeasesExclusive
<1>1. Inv => LeasesExclusive
  BY DEF Inv
<1> QED BY <1>1, Invariance, PTL

\* No job leaves the table without a result unless it is deleted by hand.
THEOREM NoJobLost == Spec => []NothingLost
<1>1. Inv => NothingLost
  BY DEF Inv
<1> QED BY <1>1, Invariance, PTL

\* A cleanup never removes one of the ThresholdLimit latest results, however
\* old its reading of the table is when it deletes.
THEOREM RecentResultsKept == Spec => KeepsRecent
<1>1. ASSUME Inv, [Next]_vars, NEW p \in Proc, NEW j \in Job,
             ThresholdType = "items", pc[p] = "purge", pc'[p] = "loop",
             Present(j), row'[j] = NoRow
      PROVE  Cardinality({i \in Job : settled[i] > row[j].processed})
                 >= ThresholdLimit
  <2>1. PurgeOldItems(p)
    BY <1>1, OnlyPurge
  <2>2. row[j].processed < before[p]
    BY <1>1, <2>1 DEF PurgeOldItems, Without, OldItems, Present, NoRow
  <2>3. Cardinality({i \in Job : settled[i] >= before[p]}) >= ThresholdLimit
    BY <1>1 DEF Inv, LimitStillRecent
  <2> DEFINE S == {i \in Job : settled[i] >= before[p]}
             T == {i \in Job : settled[i] > row[j].processed}
  <2>4. S \subseteq T
    <3>1. before[p] \in Int /\ row[j].processed \in Nat
      BY <1>1 DEF Inv, TypeOK, Rows
    <3>2. \A i \in Job : settled[i] \in Nat
      BY <1>1 DEF Inv, TypeOK
    <3> QED BY <2>2, <3>1, <3>2
  <2>5. IsFiniteSet(T)
    <3>1. IsFiniteSet(Job)
      BY FS_Interval DEF Job
    <3> QED BY <3>1, FS_Subset
  <2>6. /\ Cardinality(S) \in Nat /\ Cardinality(T) \in Nat
        /\ Cardinality(S) <= Cardinality(T)
    BY <2>4, <2>5, FS_Subset, FS_CardinalityType
  <2> QED BY <2>3, <2>6
<1> DEFINE A == \A p \in Proc, j \in Job :
                   /\ ThresholdType = "items"
                   /\ pc[p] = "purge" /\ pc'[p] = "loop"
                   /\ Present(j) /\ row'[j] = NoRow
                   => Cardinality({i \in Job : settled[i] > row[j].processed})
                          >= ThresholdLimit
<1>2. Inv /\ [Next]_vars => [A]_vars
  BY <1>1
<1> QED BY <1>2, Invariance, PTL DEF Spec, KeepsRecent

=============================================================================
