-------------------------- MODULE SemaphoreProofs --------------------------
(***************************************************************************)
(* Proofs about Semaphore, for any number of requests, names, timeouts,    *)
(* faults and any length of time.                                          *)
(***************************************************************************)
EXTENDS Semaphore, TLAPS

USE TimeAssumption, IdAssumption, BoundAssumption

LEMMA NewCallType ==
    \A n \in Name, e \in Nat, k \in Nat, c \in {"acquire", "wait"} :
        NewCall(n, e, k, c) \in Calls
BY DEF NewCall, Calls, Rows

LEMMA NoCallType == NoCall \in Calls
BY NewCallType DEF NoCall

LEMMA AtLeastType == \A t \in Timeouts : AtLeast(t) \in Nat
BY DEF AtLeast

\* What lockMayBeAvailable() does on its return, whatever it returns.
LEMMA MayBeAvailableType ==
    ASSUME TypeOK, NEW p \in Proc, NEW b, MayBeAvailable(p, b)
    PROVE  /\ call' \in [Proc -> Calls]
           /\ pc' \in [Proc -> Statements \cup {"idle"} \cup Gone]
<1>0. NoRow \in Rows /\ call \in [Proc -> Calls]
  BY DEF TypeOK, Rows
<1>1. [call EXCEPT ![p].retry = TRUE, ![p].seen = NoRow] \in [Proc -> Calls]
  BY ZenonT(60), <1>0 DEF Calls
<1>2. [call EXCEPT ![p].seen = NoRow] \in [Proc -> Calls]
  BY <1>0 DEF Calls
<1>3. CASE /\ call' = [call EXCEPT ![p].retry = TRUE, ![p].seen = NoRow]
           /\ Goto(p, "insert")
  BY <1>1, <1>3 DEF TypeOK, Goto, Statements
<1>4. CASE /\ call' = [call EXCEPT ![p].seen = NoRow]
           /\ Goto(p, "sleep")
  BY <1>2, <1>4 DEF TypeOK, Goto, Statements
<1>5. CASE Return(p)
  BY <1>5, NoCallType DEF TypeOK, Return, End, Goto
<1> QED BY <1>3, <1>4, <1>5 DEF MayBeAvailable

\* Every step keeps the variables in their types.
LEMMA TypeStep == TypeOK /\ SleepsWithDelayLeft /\ [Next]_vars => TypeOK'
<1> SUFFICES ASSUME TypeOK, SleepsWithDelayLeft, [Next]_vars PROVE TypeOK'
  OBVIOUS
<1> USE NoCallType DEF TypeOK
<1>1. ASSUME NEW p \in Proc, NEW n \in Name, NEW t \in Timeouts, Acquire(p, n, t)
      PROVE TypeOK'
  <2>1. now + AtLeast(t) \in Nat
    BY AtLeastType
  <2>2. NewCall(n, now + AtLeast(t), 0, "acquire") \in Calls
    BY <2>1, NewCallType
  <2> QED BY <1>1, <2>2 DEF Acquire, Goto, Statements
<1>2. ASSUME NEW p \in Proc, NEW n \in Name, NEW k \in 1..MaxPolls, Wait(p, n, k)
      PROVE TypeOK'
  <2>1. NewCall(n, 0, k, "wait") \in Calls
    BY NewCallType
  <2> QED BY <1>2, <2>1 DEF Wait, Goto, Statements
<1>3. ASSUME NEW p \in Proc, NEW n \in Name, Release(p, n)
      PROVE TypeOK'
  <2>1. NewCall(n, 0, 0, "acquire") \in Calls
    BY NewCallType
  <2> QED BY <1>3, <2>1 DEF Release, Goto, Statements
<1>4. ASSUME NEW p \in Proc, Shutdown(p) PROVE TypeOK'
  BY <1>4 DEF Shutdown, ReleaseAll, End, Goto, Gone, Statements
<1>5. ASSUME NEW p \in Proc, Extend(p) PROVE TypeOK'
  <2>1. PICK n \in Name, e \in Nat : n = call[p].name /\ e = call[p].expire
    BY DEF Calls
  <2>2. [value |-> p, expire |-> e] \in Rows
    BY DEF Rows
  <2>3. \A x \in Nat : [granted EXCEPT ![p][n] = x] \in [Proc -> [Name -> Nat]]
    OBVIOUS
  <2>4. call' \in [Proc -> Calls] /\ pc' \in [Proc -> Statements \cup {"idle"} \cup Gone]
    BY <1>5 DEF Extend, Return, End, Goto
  <2>5. CASE row[n].value = p
    <3>1. /\ row' = [row EXCEPT ![n] = [value |-> p, expire |-> e]]
          /\ granted' = [granted EXCEPT ![p][n] = e]
          /\ UNCHANGED <<now, table, faults, locks>>
      BY <1>5, <2>1, <2>5 DEF Extend
    <3> QED BY <2>2, <2>3, <2>4, <3>1
  <2>6. CASE row[n].value # p
    <3>1. /\ locks' = [locks EXCEPT ![p] = @ \ {n}]
          /\ granted' = [granted EXCEPT ![p][n] = 0]
          /\ UNCHANGED <<now, table, faults, row>>
      BY <1>5, <2>1, <2>6 DEF Extend
    <3>2. locks' \in [Proc -> SUBSET Name]
      BY <3>1
    <3> QED BY <2>3, <2>4, <3>1, <3>2
  <2> QED BY <2>5, <2>6
<1>6. ASSUME NEW p \in Proc, InsertRow(p) PROVE TypeOK'
  <2>1. call[p].name \in Name /\ call[p].expire \in Nat
    BY DEF Calls
  <2>2. [value |-> p, expire |-> call[p].expire] \in Rows
    BY <2>1 DEF Rows
  <2> QED BY <1>6, <2>1, <2>2 DEF InsertRow, Goto, Statements
<1>7. ASSUME NEW p \in Proc, Record(p) PROVE TypeOK'
  BY <1>7 DEF Record, Return, End, Goto, Calls
<1>8. ASSUME NEW p \in Proc, InsertConflict(p) PROVE TypeOK'
  BY ZenonT(60), <1>8 DEF InsertConflict, Return, End, Goto, Statements
<1>9. ASSUME NEW p \in Proc, InsertNoTable(p) PROVE TypeOK'
  BY <1>9 DEF InsertNoTable, Goto, Statements
<1>10. ASSUME NEW p \in Proc, CreateTable(p) PROVE TypeOK'
  <2>1. [call EXCEPT ![p].retry = TRUE] \in [Proc -> Calls]
    BY DEF Calls
  <2>2. call' \in [Proc -> Calls]
    BY <1>10, <2>1 DEF CreateTable, NextPass, Return, End, Goto
  <2>3. pc' \in [Proc -> Statements \cup {"idle"} \cup Gone]
    BY <1>10 DEF CreateTable, NextPass, Return, End, Goto, Statements
  <2>4. table' \in BOOLEAN
    BY <1>10, Zenon DEF CreateTable
  <2> QED BY <1>10, <2>2, <2>3, <2>4 DEF CreateTable
<1>11. ASSUME NEW p \in Proc, Select(p) PROVE TypeOK'
  <2>1. [call EXCEPT ![p].seen = row[call[p].name]] \in [Proc -> Calls]
    BY DEF Calls
  <2>2. CASE MayBeAvailable(p, TRUE)
    BY <1>11, <2>2, MayBeAvailableType DEF Select
  <2>3. CASE /\ call' = [call EXCEPT ![p].seen = row[call[p].name]]
             /\ Goto(p, "check")
    BY <1>11, <2>1, <2>3 DEF Select, Goto, Statements
  <2> QED BY <1>11, <2>2, <2>3 DEF Select
<1>12. ASSUME NEW p \in Proc, CheckExpired(p) PROVE TypeOK'
  <2>1. CASE MayBeAvailable(p, FALSE)
    BY <1>12, <2>1, MayBeAvailableType DEF CheckExpired
  <2>2. CASE Goto(p, "break") /\ UNCHANGED call
    BY <1>12, <2>2 DEF CheckExpired, Goto, Statements
  <2> QED BY <1>12, <2>1, <2>2 DEF CheckExpired
<1>13. ASSUME NEW p \in Proc, Break(p) PROVE TypeOK'
  <2>1. row' \in [Name -> Rows]
    BY <1>13 DEF Break, Rows, Calls
  <2> QED BY <1>13, <2>1, MayBeAvailableType DEF Break
<1>14. ASSUME NEW p \in Proc, Sleep(p) PROVE TypeOK'
  <2>1. call[p].polls - 1 \in Nat
    BY <1>14 DEF Sleep, SleepsWithDelayLeft, Calls
  <2>2. [call EXCEPT ![p].polls = @ - 1] \in [Proc -> Calls]
    BY <2>1 DEF Calls
  <2> QED BY <1>14, <2>2 DEF Sleep, Goto, Statements
<1>15. ASSUME NEW p \in Proc, DeleteOwn(p) PROVE TypeOK'
  BY <1>15 DEF DeleteOwn, Return, End, Goto, Rows, Calls
<1>16. ASSUME NEW p \in Proc, DeleteAll(p) PROVE TypeOK'
  BY <1>16 DEF DeleteAll, End, Goto, Rows, Gone
<1>17. ASSUME NEW p \in Proc, DbFault(p) PROVE TypeOK'
  <2>1. [call EXCEPT ![p].retry = TRUE] \in [Proc -> Calls]
    BY DEF Calls
  <2>2. call' \in [Proc -> Calls]
    BY <1>17, <2>1 DEF DbFault, NextPass, Return, End, Goto
  <2>3. pc' \in [Proc -> Statements \cup {"idle"} \cup Gone]
    BY <1>17 DEF DbFault, NextPass, Return, End, Goto, Statements, Gone
  <2> QED BY <1>17, <2>2, <2>3 DEF DbFault
<1>18. ASSUME NEW p \in Proc, FatalError(p) PROVE TypeOK'
  BY <1>18 DEF FatalError, ReleaseAll, End, Goto, Gone, Statements
<1>19. ASSUME NEW p \in Proc, Crash(p) PROVE TypeOK'
  BY <1>19 DEF Crash, End, Goto, Gone
<1>20. CASE Tick
  BY <1>20 DEF Tick
<1>21. CASE UNCHANGED vars
  BY <1>21 DEF vars
<1> QED
  BY <1>1, <1>2, <1>3, <1>4, <1>5, <1>6, <1>7, <1>8, <1>9, <1>10, <1>11, <1>12,
     <1>13, <1>14, <1>15, <1>16, <1>17, <1>18, <1>19, <1>20, <1>21
  DEF Next, Request, Step

\* No step takes the row from under a lease that has not run out.
LEMMA LeaseStep == IInv /\ [Next]_vars => LiveLeaseOwnsRow'
<1> SUFFICES ASSUME IInv, [Next]_vars PROVE LiveLeaseOwnsRow'
  OBVIOUS
<1> USE DEF IInv, TypeOK, LiveLeaseOwnsRow, Live, Calls, Rows, NoRow
<1>1. ASSUME NEW p \in Proc, NEW n \in Name, NEW t \in Timeouts, Acquire(p, n, t) PROVE LiveLeaseOwnsRow'
  BY <1>1 DEF Acquire, Goto, NewCall
<1>2. ASSUME NEW p \in Proc, NEW n \in Name, NEW k \in 1..MaxPolls, Wait(p, n, k) PROVE LiveLeaseOwnsRow'
  BY <1>2 DEF Wait, Goto, NewCall
<1>3. ASSUME NEW p \in Proc, NEW n \in Name, Release(p, n) PROVE LiveLeaseOwnsRow'
  BY <1>3 DEF Release, Goto, NewCall
<1>4. ASSUME NEW p \in Proc, Shutdown(p) PROVE LiveLeaseOwnsRow'
  BY <1>4 DEF Shutdown, ReleaseAll, End, Goto
<1>5. ASSUME NEW p \in Proc, Extend(p) PROVE LiveLeaseOwnsRow'
  <2>1. PICK n \in Name, e \in Nat : n = call[p].name /\ e = call[p].expire
    OBVIOUS
  <2>2. CASE row[n].value = p
    <3>1. /\ row' = [row EXCEPT ![n] = [value |-> p, expire |-> e]]
          /\ granted' = [granted EXCEPT ![p][n] = e]
          /\ now' = now
      BY <1>5, <2>1, <2>2 DEF Extend
    <3> QED BY <2>2, <3>1
  <2>3. CASE row[n].value # p
    <3>1. /\ row' = row
          /\ granted' = [granted EXCEPT ![p][n] = 0]
          /\ now' = now
      BY <1>5, <2>1, <2>3 DEF Extend
    <3> QED BY <2>3, <3>1
  <2> QED BY <2>2, <2>3
<1>6. ASSUME NEW p \in Proc, InsertRow(p) PROVE LiveLeaseOwnsRow'
  BY <1>6 DEF InsertRow, Goto
<1>7. ASSUME NEW p \in Proc, Record(p) PROVE LiveLeaseOwnsRow'
  BY <1>7 DEF Record, Return, End, Goto
<1>8. ASSUME NEW p \in Proc, InsertConflict(p) PROVE LiveLeaseOwnsRow'
  BY <1>8 DEF InsertConflict, Return, End, Goto
<1>9. ASSUME NEW p \in Proc, InsertNoTable(p) PROVE LiveLeaseOwnsRow'
  BY <1>9 DEF InsertNoTable, Goto
<1>10. ASSUME NEW p \in Proc, CreateTable(p) PROVE LiveLeaseOwnsRow'
  BY <1>10 DEF CreateTable, NextPass, Return, End, Goto
<1>11. ASSUME NEW p \in Proc, Select(p) PROVE LiveLeaseOwnsRow'
  BY <1>11 DEF Select, MayBeAvailable, Return, End, Goto
<1>12. ASSUME NEW p \in Proc, CheckExpired(p) PROVE LiveLeaseOwnsRow'
  BY <1>12 DEF CheckExpired, MayBeAvailable, Return, End, Goto
<1>13. ASSUME NEW p \in Proc, Break(p) PROVE LiveLeaseOwnsRow'
  <2>1. PICK n \in Name : n = call[p].name
    OBVIOUS
  <2>2. granted' = granted /\ now' = now
    BY <1>13 DEF Break
  <2>3. CASE row' = row
    BY <2>2, <2>3
  <2>4. CASE /\ StillThatRow(row[n], call[p].seen)
             /\ row' = [row EXCEPT ![n] = NoRow]
    <3>1. row[n].expire < now + Slack
      BY <1>13, <2>1, <2>4 DEF StillThatRow, BreaksExpired, Break
    <3>2. ASSUME NEW q \in Proc, Live(q, n) PROVE FALSE
      BY <3>1, <3>2
    <3> QED BY <2>2, <2>4, <3>2
  <2> QED BY <1>13, <2>1, <2>3, <2>4 DEF Break
<1>14. ASSUME NEW p \in Proc, Sleep(p) PROVE LiveLeaseOwnsRow'
  BY <1>14 DEF Sleep, Goto
<1>15. ASSUME NEW p \in Proc, DeleteOwn(p) PROVE LiveLeaseOwnsRow'
  <2>1. PICK n \in Name : n = call[p].name
    OBVIOUS
  <2>2. granted' = granted /\ now' = now /\ granted[p][n] = 0
    BY <1>15, <2>1 DEF DeleteOwn, DeletesForgone
  <2>3. \/ row' = row
        \/ row[n].value = p /\ row' = [row EXCEPT ![n] = NoRow]
    BY <1>15, <2>1 DEF DeleteOwn
  <2>4. CASE row' = row
    BY <2>2, <2>4
  <2>5. CASE row[n].value = p /\ row' = [row EXCEPT ![n] = NoRow]
    <3>1. ASSUME NEW q \in Proc, Live(q, n) PROVE FALSE
      BY <2>2, <2>5, <3>1
    <3> QED BY <2>2, <2>5, <3>1
  <2> QED BY <2>3, <2>4, <2>5
<1>16. ASSUME NEW p \in Proc, DeleteAll(p) PROVE LiveLeaseOwnsRow'
  <2>1. granted' = granted /\ now' = now
    BY <1>16 DEF DeleteAll
  <2>2. \A n \in Name : granted[p][n] = 0
    BY <1>16 DEF DeleteAll, DeletesForgone
  <2> SUFFICES ASSUME NEW q \in Proc, NEW n \in Name, Live(q, n)
               PROVE  row'[n] = [value |-> q, expire |-> granted[q][n]]
    BY <2>1
  <2>3. q # p
    BY <2>2
  <2>4. row[n] = [value |-> q, expire |-> granted[q][n]]
    OBVIOUS
  <2>5. row'[n] = row[n]
    BY <1>16, <2>3, <2>4 DEF DeleteAll
  <2> QED BY <2>4, <2>5
<1>17. ASSUME NEW p \in Proc, DbFault(p) PROVE LiveLeaseOwnsRow'
  BY <1>17 DEF DbFault, NextPass, Return, End, Goto
<1>18. ASSUME NEW p \in Proc, FatalError(p) PROVE LiveLeaseOwnsRow'
  BY <1>18 DEF FatalError, ReleaseAll, End, Goto
<1>19. ASSUME NEW p \in Proc, Crash(p) PROVE LiveLeaseOwnsRow'
  BY <1>19 DEF Crash, End, Goto
<1>20. CASE Tick
  BY <1>20 DEF Tick
<1>21. CASE UNCHANGED vars
  BY <1>21 DEF vars
<1> QED
  BY <1>1, <1>2, <1>3, <1>4, <1>5, <1>6, <1>7, <1>8, <1>9, <1>10, <1>11, <1>12,
     <1>13, <1>14, <1>15, <1>16, <1>17, <1>18, <1>19, <1>20, <1>21
  DEF Next, Request, Step

\* The row a request is about to break stays expired: time only advances.
LEMMA BreaksStep == IInv /\ [Next]_vars => BreaksExpired'
<1> SUFFICES ASSUME IInv, [Next]_vars PROVE BreaksExpired'
  OBVIOUS
<1> USE DEF IInv, TypeOK, BreaksExpired, Calls, Rows, NoRow
<1>1. ASSUME NEW p \in Proc, NEW n \in Name, NEW t \in Timeouts, Acquire(p, n, t) PROVE BreaksExpired'
  BY <1>1 DEF Acquire, Goto, NewCall
<1>2. ASSUME NEW p \in Proc, NEW n \in Name, NEW k \in 1..MaxPolls, Wait(p, n, k) PROVE BreaksExpired'
  BY <1>2 DEF Wait, Goto, NewCall
<1>3. ASSUME NEW p \in Proc, NEW n \in Name, Release(p, n) PROVE BreaksExpired'
  BY <1>3 DEF Release, Goto, NewCall
<1>4. ASSUME NEW p \in Proc, Shutdown(p) PROVE BreaksExpired'
  BY <1>4 DEF Shutdown, ReleaseAll, End, Goto
<1>5. ASSUME NEW p \in Proc, Extend(p) PROVE BreaksExpired'
  BY <1>5 DEF Extend, Return, End, Goto
<1>6. ASSUME NEW p \in Proc, InsertRow(p) PROVE BreaksExpired'
  BY <1>6 DEF InsertRow, Goto
<1>7. ASSUME NEW p \in Proc, Record(p) PROVE BreaksExpired'
  BY <1>7 DEF Record, Return, End, Goto
<1>8. ASSUME NEW p \in Proc, InsertConflict(p) PROVE BreaksExpired'
  BY <1>8 DEF InsertConflict, Return, End, Goto
<1>9. ASSUME NEW p \in Proc, InsertNoTable(p) PROVE BreaksExpired'
  BY <1>9 DEF InsertNoTable, Goto
<1>10. ASSUME NEW p \in Proc, CreateTable(p) PROVE BreaksExpired'
  BY <1>10 DEF CreateTable, NextPass, Return, End, Goto
<1>11. ASSUME NEW p \in Proc, Select(p) PROVE BreaksExpired'
  BY <1>11 DEF Select, MayBeAvailable, Return, End, Goto
<1>12. ASSUME NEW p \in Proc, CheckExpired(p) PROVE BreaksExpired'
  BY <1>12 DEF CheckExpired, MayBeAvailable, Return, End, Goto
<1>13. ASSUME NEW p \in Proc, Break(p) PROVE BreaksExpired'
  BY <1>13 DEF Break, StillThatRow, MayBeAvailable, Return, End, Goto
<1>14. ASSUME NEW p \in Proc, Sleep(p) PROVE BreaksExpired'
  BY <1>14 DEF Sleep, Goto
<1>15. ASSUME NEW p \in Proc, DeleteOwn(p) PROVE BreaksExpired'
  BY <1>15 DEF DeleteOwn, Return, End, Goto
<1>16. ASSUME NEW p \in Proc, DeleteAll(p) PROVE BreaksExpired'
  BY <1>16 DEF DeleteAll, End, Goto
<1>17. ASSUME NEW p \in Proc, DbFault(p) PROVE BreaksExpired'
  BY <1>17 DEF DbFault, NextPass, Return, End, Goto
<1>18. ASSUME NEW p \in Proc, FatalError(p) PROVE BreaksExpired'
  BY <1>18 DEF FatalError, ReleaseAll, End, Goto
<1>19. ASSUME NEW p \in Proc, Crash(p) PROVE BreaksExpired'
  BY <1>19 DEF Crash, End, Goto
<1>20. CASE Tick
  BY <1>20 DEF Tick
<1>21. CASE UNCHANGED vars
  BY <1>21 DEF vars
<1> QED
  BY <1>1, <1>2, <1>3, <1>4, <1>5, <1>6, <1>7, <1>8, <1>9, <1>10, <1>11, <1>12,
     <1>13, <1>14, <1>15, <1>16, <1>17, <1>18, <1>19, <1>20, <1>21
  DEF Next, Request, Step

\* Whoever is about to delete its rows does not rely on them.
LEMMA DeletesStep == IInv /\ [Next]_vars => DeletesForgone'
<1> SUFFICES ASSUME IInv, [Next]_vars PROVE DeletesForgone'
  OBVIOUS
<1> USE DEF IInv, TypeOK, DeletesForgone, Calls
<1>1. ASSUME NEW p \in Proc, NEW n \in Name, NEW t \in Timeouts, Acquire(p, n, t) PROVE DeletesForgone'
  BY <1>1 DEF Acquire, Goto, NewCall
<1>2. ASSUME NEW p \in Proc, NEW n \in Name, NEW k \in 1..MaxPolls, Wait(p, n, k) PROVE DeletesForgone'
  BY <1>2 DEF Wait, Goto, NewCall
<1>3. ASSUME NEW p \in Proc, NEW n \in Name, Release(p, n) PROVE DeletesForgone'
  BY <1>3 DEF Release, Goto, NewCall
<1>4. ASSUME NEW p \in Proc, Shutdown(p) PROVE DeletesForgone'
  BY <1>4 DEF Shutdown, ReleaseAll, End, Goto
<1>5. ASSUME NEW p \in Proc, Extend(p) PROVE DeletesForgone'
  BY <1>5 DEF Extend, Return, End, Goto
<1>6. ASSUME NEW p \in Proc, InsertRow(p) PROVE DeletesForgone'
  BY <1>6 DEF InsertRow, Goto
<1>7. ASSUME NEW p \in Proc, Record(p) PROVE DeletesForgone'
  BY <1>7 DEF Record, Return, End, Goto
<1>8. ASSUME NEW p \in Proc, InsertConflict(p) PROVE DeletesForgone'
  BY <1>8 DEF InsertConflict, Return, End, Goto
<1>9. ASSUME NEW p \in Proc, InsertNoTable(p) PROVE DeletesForgone'
  BY <1>9 DEF InsertNoTable, Goto
<1>10. ASSUME NEW p \in Proc, CreateTable(p) PROVE DeletesForgone'
  BY <1>10 DEF CreateTable, NextPass, Return, End, Goto
<1>11. ASSUME NEW p \in Proc, Select(p) PROVE DeletesForgone'
  BY <1>11 DEF Select, MayBeAvailable, Return, End, Goto
<1>12. ASSUME NEW p \in Proc, CheckExpired(p) PROVE DeletesForgone'
  BY <1>12 DEF CheckExpired, MayBeAvailable, Return, End, Goto
<1>13. ASSUME NEW p \in Proc, Break(p) PROVE DeletesForgone'
  BY SMTT(30), <1>13 DEF Break, StillThatRow, MayBeAvailable, Return, End, Goto
<1>14. ASSUME NEW p \in Proc, Sleep(p) PROVE DeletesForgone'
  BY <1>14 DEF Sleep, Goto
<1>15. ASSUME NEW p \in Proc, DeleteOwn(p) PROVE DeletesForgone'
  BY <1>15 DEF DeleteOwn, Return, End, Goto
<1>16. ASSUME NEW p \in Proc, DeleteAll(p) PROVE DeletesForgone'
  BY <1>16 DEF DeleteAll, End, Goto
<1>17. ASSUME NEW p \in Proc, DbFault(p) PROVE DeletesForgone'
  BY <1>17 DEF DbFault, NextPass, Return, End, Goto
<1>18. ASSUME NEW p \in Proc, FatalError(p) PROVE DeletesForgone'
  BY <1>18 DEF FatalError, ReleaseAll, End, Goto
<1>19. ASSUME NEW p \in Proc, Crash(p) PROVE DeletesForgone'
  BY <1>19 DEF Crash, End, Goto
<1>20. CASE Tick
  BY <1>20 DEF Tick
<1>21. CASE UNCHANGED vars
  BY <1>21 DEF vars
<1> QED
  BY <1>1, <1>2, <1>3, <1>4, <1>5, <1>6, <1>7, <1>8, <1>9, <1>10, <1>11, <1>12,
     <1>13, <1>14, <1>15, <1>16, <1>17, <1>18, <1>19, <1>20, <1>21
  DEF Next, Request, Step

\* wait() goes to sleep only while there is delay left.
LEMMA SleepsStep == IInv /\ [Next]_vars => SleepsWithDelayLeft'
<1> SUFFICES ASSUME IInv, [Next]_vars PROVE SleepsWithDelayLeft'
  OBVIOUS
<1> USE DEF IInv, TypeOK, SleepsWithDelayLeft, Calls
<1>1. ASSUME NEW p \in Proc, NEW n \in Name, NEW t \in Timeouts, Acquire(p, n, t) PROVE SleepsWithDelayLeft'
  BY <1>1 DEF Acquire, Goto, NewCall
<1>2. ASSUME NEW p \in Proc, NEW n \in Name, NEW k \in 1..MaxPolls, Wait(p, n, k) PROVE SleepsWithDelayLeft'
  BY <1>2 DEF Wait, Goto, NewCall
<1>3. ASSUME NEW p \in Proc, NEW n \in Name, Release(p, n) PROVE SleepsWithDelayLeft'
  BY <1>3 DEF Release, Goto, NewCall
<1>4. ASSUME NEW p \in Proc, Shutdown(p) PROVE SleepsWithDelayLeft'
  BY <1>4 DEF Shutdown, ReleaseAll, End, Goto
<1>5. ASSUME NEW p \in Proc, Extend(p) PROVE SleepsWithDelayLeft'
  BY <1>5 DEF Extend, Return, End, Goto
<1>6. ASSUME NEW p \in Proc, InsertRow(p) PROVE SleepsWithDelayLeft'
  BY <1>6 DEF InsertRow, Goto
<1>7. ASSUME NEW p \in Proc, Record(p) PROVE SleepsWithDelayLeft'
  BY <1>7 DEF Record, Return, End, Goto
<1>8. ASSUME NEW p \in Proc, InsertConflict(p) PROVE SleepsWithDelayLeft'
  BY <1>8 DEF InsertConflict, Return, End, Goto
<1>9. ASSUME NEW p \in Proc, InsertNoTable(p) PROVE SleepsWithDelayLeft'
  BY <1>9 DEF InsertNoTable, Goto
<1>10. ASSUME NEW p \in Proc, CreateTable(p) PROVE SleepsWithDelayLeft'
  BY <1>10 DEF CreateTable, NextPass, Return, End, Goto
<1>11. ASSUME NEW p \in Proc, Select(p) PROVE SleepsWithDelayLeft'
  BY <1>11 DEF Select, MayBeAvailable, Return, End, Goto
<1>12. ASSUME NEW p \in Proc, CheckExpired(p) PROVE SleepsWithDelayLeft'
  BY ZenonT(60), <1>12 DEF CheckExpired, MayBeAvailable, Return, End, Goto
<1>13. ASSUME NEW p \in Proc, Break(p) PROVE SleepsWithDelayLeft'
  BY ZenonT(60), <1>13 DEF Break, StillThatRow, MayBeAvailable, Return, End, Goto
<1>14. ASSUME NEW p \in Proc, Sleep(p) PROVE SleepsWithDelayLeft'
  BY <1>14 DEF Sleep, Goto
<1>15. ASSUME NEW p \in Proc, DeleteOwn(p) PROVE SleepsWithDelayLeft'
  BY <1>15 DEF DeleteOwn, Return, End, Goto
<1>16. ASSUME NEW p \in Proc, DeleteAll(p) PROVE SleepsWithDelayLeft'
  BY <1>16 DEF DeleteAll, End, Goto
<1>17. ASSUME NEW p \in Proc, DbFault(p) PROVE SleepsWithDelayLeft'
  BY <1>17 DEF DbFault, NextPass, Return, End, Goto
<1>18. ASSUME NEW p \in Proc, FatalError(p) PROVE SleepsWithDelayLeft'
  BY <1>18 DEF FatalError, ReleaseAll, End, Goto
<1>19. ASSUME NEW p \in Proc, Crash(p) PROVE SleepsWithDelayLeft'
  BY <1>19 DEF Crash, End, Goto
<1>20. CASE Tick
  BY <1>20 DEF Tick
<1>21. CASE UNCHANGED vars
  BY <1>21 DEF vars
<1> QED
  BY <1>1, <1>2, <1>3, <1>4, <1>5, <1>6, <1>7, <1>8, <1>9, <1>10, <1>11, <1>12,
     <1>13, <1>14, <1>15, <1>16, <1>17, <1>18, <1>19, <1>20, <1>21
  DEF Next, Request, Step

\* A request that is gone, or past emptying `locks`, holds nothing.
LEMMA GoneStep == IInv /\ [Next]_vars => GoneHoldNothing'
<1> SUFFICES ASSUME IInv, [Next]_vars PROVE GoneHoldNothing'
  OBVIOUS
<1> USE DEF IInv, TypeOK, GoneHoldNothing, Gone, Calls
<1>1. ASSUME NEW p \in Proc, NEW n \in Name, NEW t \in Timeouts, Acquire(p, n, t) PROVE GoneHoldNothing'
  BY <1>1 DEF Acquire, Goto, NewCall
<1>2. ASSUME NEW p \in Proc, NEW n \in Name, NEW k \in 1..MaxPolls, Wait(p, n, k) PROVE GoneHoldNothing'
  BY <1>2 DEF Wait, Goto, NewCall
<1>3. ASSUME NEW p \in Proc, NEW n \in Name, Release(p, n) PROVE GoneHoldNothing'
  BY <1>3 DEF Release, Goto, NewCall
<1>4. ASSUME NEW p \in Proc, Shutdown(p) PROVE GoneHoldNothing'
  BY <1>4 DEF Shutdown, ReleaseAll, End, Goto
<1>5. ASSUME NEW p \in Proc, Extend(p) PROVE GoneHoldNothing'
  BY <1>5 DEF Extend, Return, End, Goto
<1>6. ASSUME NEW p \in Proc, InsertRow(p) PROVE GoneHoldNothing'
  BY <1>6 DEF InsertRow, Goto
<1>7. ASSUME NEW p \in Proc, Record(p) PROVE GoneHoldNothing'
  BY <1>7 DEF Record, Return, End, Goto
<1>8. ASSUME NEW p \in Proc, InsertConflict(p) PROVE GoneHoldNothing'
  BY <1>8 DEF InsertConflict, Return, End, Goto
<1>9. ASSUME NEW p \in Proc, InsertNoTable(p) PROVE GoneHoldNothing'
  BY <1>9 DEF InsertNoTable, Goto
<1>10. ASSUME NEW p \in Proc, CreateTable(p) PROVE GoneHoldNothing'
  BY <1>10 DEF CreateTable, NextPass, Return, End, Goto
<1>11. ASSUME NEW p \in Proc, Select(p) PROVE GoneHoldNothing'
  BY <1>11 DEF Select, MayBeAvailable, Return, End, Goto
<1>12. ASSUME NEW p \in Proc, CheckExpired(p) PROVE GoneHoldNothing'
  BY <1>12 DEF CheckExpired, MayBeAvailable, Return, End, Goto
<1>13. ASSUME NEW p \in Proc, Break(p) PROVE GoneHoldNothing'
  BY <1>13 DEF Break, StillThatRow, MayBeAvailable, Return, End, Goto
<1>14. ASSUME NEW p \in Proc, Sleep(p) PROVE GoneHoldNothing'
  BY <1>14 DEF Sleep, Goto
<1>15. ASSUME NEW p \in Proc, DeleteOwn(p) PROVE GoneHoldNothing'
  BY <1>15 DEF DeleteOwn, Return, End, Goto
<1>16. ASSUME NEW p \in Proc, DeleteAll(p) PROVE GoneHoldNothing'
  BY <1>16 DEF DeleteAll, End, Goto
<1>17. ASSUME NEW p \in Proc, DbFault(p) PROVE GoneHoldNothing'
  BY <1>17 DEF DbFault, NextPass, Return, End, Goto
<1>18. ASSUME NEW p \in Proc, FatalError(p) PROVE GoneHoldNothing'
  BY <1>18 DEF FatalError, ReleaseAll, End, Goto
<1>19. ASSUME NEW p \in Proc, Crash(p) PROVE GoneHoldNothing'
  BY <1>19 DEF Crash, End, Goto
<1>20. CASE Tick
  BY <1>20 DEF Tick
<1>21. CASE UNCHANGED vars
  BY <1>21 DEF vars
<1> QED
  BY <1>1, <1>2, <1>3, <1>4, <1>5, <1>6, <1>7, <1>8, <1>9, <1>10, <1>11, <1>12,
     <1>13, <1>14, <1>15, <1>16, <1>17, <1>18, <1>19, <1>20, <1>21
  DEF Next, Request, Step

\* While nothing has failed, each row is known to the request that removes it.
LEMMA TracksStep == IInv /\ [Next]_vars => RowsTracked'
<1> SUFFICES ASSUME IInv, [Next]_vars PROVE RowsTracked'
  OBVIOUS
<1> USE DEF IInv, TypeOK, RowsTracked, Calls, Rows, NoRow
<1>1. ASSUME NEW p \in Proc, NEW n \in Name, NEW t \in Timeouts, Acquire(p, n, t) PROVE RowsTracked'
  BY <1>1 DEF Acquire, Goto, NewCall
<1>2. ASSUME NEW p \in Proc, NEW n \in Name, NEW k \in 1..MaxPolls, Wait(p, n, k) PROVE RowsTracked'
  BY <1>2 DEF Wait, Goto, NewCall
<1>3. ASSUME NEW p \in Proc, NEW n \in Name, Release(p, n) PROVE RowsTracked'
  BY <1>3 DEF Release, Goto, NewCall
<1>4. ASSUME NEW p \in Proc, Shutdown(p) PROVE RowsTracked'
  BY <1>4 DEF Shutdown, ReleaseAll, End, Goto
<1>5. ASSUME NEW p \in Proc, Extend(p) PROVE RowsTracked'
  BY SMTT(30), <1>5 DEF Extend, Return, End, Goto
<1>6. ASSUME NEW p \in Proc, InsertRow(p) PROVE RowsTracked'
  BY <1>6 DEF InsertRow, Goto
<1>7. ASSUME NEW p \in Proc, Record(p) PROVE RowsTracked'
  BY <1>7 DEF Record, Return, End, Goto
<1>8. ASSUME NEW p \in Proc, InsertConflict(p) PROVE RowsTracked'
  BY <1>8 DEF InsertConflict, Return, End, Goto
<1>9. ASSUME NEW p \in Proc, InsertNoTable(p) PROVE RowsTracked'
  BY <1>9 DEF InsertNoTable, Goto
<1>10. ASSUME NEW p \in Proc, CreateTable(p) PROVE RowsTracked'
  BY <1>10 DEF CreateTable, NextPass, Return, End, Goto
<1>11. ASSUME NEW p \in Proc, Select(p) PROVE RowsTracked'
  BY SMTT(30), <1>11 DEF Select, MayBeAvailable, Return, End, Goto
<1>12. ASSUME NEW p \in Proc, CheckExpired(p) PROVE RowsTracked'
  BY <1>12 DEF CheckExpired, MayBeAvailable, Return, End, Goto
<1>13. ASSUME NEW p \in Proc, Break(p) PROVE RowsTracked'
  BY SMTT(30), <1>13 DEF Break, StillThatRow, MayBeAvailable, Return, End, Goto
<1>14. ASSUME NEW p \in Proc, Sleep(p) PROVE RowsTracked'
  BY <1>14 DEF Sleep, Goto
<1>15. ASSUME NEW p \in Proc, DeleteOwn(p) PROVE RowsTracked'
  BY <1>15 DEF DeleteOwn, Return, End, Goto
<1>16. ASSUME NEW p \in Proc, DeleteAll(p) PROVE RowsTracked'
  BY <1>16 DEF DeleteAll, End, Goto
<1>17. ASSUME NEW p \in Proc, DbFault(p) PROVE RowsTracked'
  BY <1>17 DEF DbFault, NextPass, Return, End, Goto
<1>18. ASSUME NEW p \in Proc, FatalError(p) PROVE RowsTracked'
  BY <1>18 DEF FatalError, ReleaseAll, End, Goto
<1>19. ASSUME NEW p \in Proc, Crash(p) PROVE RowsTracked'
  BY <1>19 DEF Crash, End, Goto
<1>20. CASE Tick
  BY <1>20 DEF Tick
<1>21. CASE UNCHANGED vars
  BY <1>21 DEF vars
<1> QED
  BY <1>1, <1>2, <1>3, <1>4, <1>5, <1>6, <1>7, <1>8, <1>9, <1>10, <1>11, <1>12,
     <1>13, <1>14, <1>15, <1>16, <1>17, <1>18, <1>19, <1>20, <1>21
  DEF Next, Request, Step

LEMMA InitInvariant == Init => IInv
<1> SUFFICES ASSUME Init PROVE IInv
  OBVIOUS
<1>1. TypeOK
  BY NoCallType DEF Init, TypeOK, Rows
<1>2. LiveLeaseOwnsRow
  BY DEF Init, LiveLeaseOwnsRow, Live
<1>3. BreaksExpired /\ DeletesForgone /\ SleepsWithDelayLeft /\ GoneHoldNothing
  BY DEF Init, BreaksExpired, DeletesForgone, SleepsWithDelayLeft, GoneHoldNothing
<1>4. RowsTracked
  BY DEF Init, RowsTracked, NoRow
<1> QED BY <1>1, <1>2, <1>3, <1>4 DEF IInv

\* The inductive invariant of the lock backend.
THEOREM Invariance == Spec => []IInv
<1>1. IInv /\ [Next]_vars => IInv'
  <2>1. IInv /\ [Next]_vars => TypeOK'
    BY TypeStep DEF IInv
  <2> QED BY <2>1, LeaseStep, BreaksStep, DeletesStep, SleepsStep, GoneStep, TracksStep
     DEF IInv
<1> QED BY InitInvariant, <1>1, PTL DEF Spec

\* acquire() never lets two requests rely on the same lock at the same time,
\* whatever the interleaving of their statements, the crashes and the faults.
THEOREM MutualExclusion == Spec => []OneLiveHolder
<1>1. IInv => OneLiveHolder
  <2> SUFFICES ASSUME IInv, NEW p \in Proc, NEW q \in Proc, NEW n \in Name,
                      Live(p, n), Live(q, n)
               PROVE  p = q
    BY DEF OneLiveHolder
  <2>1. row[n] = [value |-> p, expire |-> granted[p][n]]
    BY DEF IInv, LiveLeaseOwnsRow
  <2>2. row[n] = [value |-> q, expire |-> granted[q][n]]
    BY DEF IInv, LiveLeaseOwnsRow
  <2>3. row[n].value = p /\ row[n].value = q
    BY <2>1, <2>2
  <2> QED BY <2>3
<1> QED BY <1>1, Invariance, PTL

\* releaseAll() in the shutdown function leaves nothing in the table for a
\* request that met no failure.
THEOREM CleanShutdown == Spec => []NothingLeftBehind
<1>1. IInv => NothingLeftBehind
  <2> SUFFICES ASSUME IInv, faults = 0, NEW p \in Proc, NEW n \in Name,
                      pc[p] = "exited", row[n].value = p
               PROVE  FALSE
    BY DEF NothingLeftBehind
  <2>1. n \in locks[p]
    BY DEF IInv, RowsTracked
  <2>2. locks[p] = {}
    BY DEF IInv, GoneHoldNothing, Gone
  <2> QED BY <2>1, <2>2
<1> QED BY <1>1, Invariance, PTL

\* Giving up the lease on one name, or all leases, is a Forgo of the promise.
LEMMA ForgoOne ==
    ASSUME TypeOK, NEW p \in Proc, NEW n \in Name, now' = now,
           granted' = [granted EXCEPT ![p][n] = 0]
    PROVE  Promise!Forgo(p)
<1>1. granted' = [granted EXCEPT ![p] =
          [m \in Name |-> IF m \in Name \ {n} THEN granted[p][m] ELSE 0]]
  BY DEF TypeOK
<1> QED BY <1>1 DEF Promise!Forgo

LEMMA ForgoAll ==
    ASSUME TypeOK, NEW p \in Proc, now' = now,
           granted' = [granted EXCEPT ![p] = [n \in Name |-> 0]]
    PROVE  Promise!Forgo(p)
<1>1. granted' = [granted EXCEPT ![p] =
          [m \in Name |-> IF m \in {} THEN granted[p][m] ELSE 0]]
  BY DEF TypeOK
<1>2. {} \in SUBSET Name
  OBVIOUS
<1>3. \E kept \in SUBSET Name :
          granted' = [granted EXCEPT ![p] =
              [m \in Name |-> IF m \in kept THEN granted[p][m] ELSE 0]]
  BY <1>1, <1>2, Zenon
<1> QED BY <1>3 DEF Promise!Forgo

\* A request that writes its row while nobody else's is there is granted the
\* lease the promise allows.
LEMMA GrantStep ==
    ASSUME IInv, NEW p \in Proc, NEW n \in Name, NEW e \in Nat, now' = now,
           row[n] = NoRow \/ row[n].value = p,
           granted' = [granted EXCEPT ![p][n] = e]
    PROVE  Promise!Grant(p, n)
<1>1. ASSUME NEW q \in Proc \ {p}, Promise!Live(q, n) PROVE FALSE
  <2>1. row[n] = [value |-> q, expire |-> granted[q][n]]
    BY <1>1 DEF IInv, LiveLeaseOwnsRow, Live, Promise!Live
  <2>2. row[n].value = q
    BY <2>1
  <2> QED BY <2>2 DEF NoRow
<1>2. granted'[p][n] = e
  BY DEF IInv, TypeOK
<1> QED BY <1>1, <1>2 DEF Promise!Grant

\* The steps of the backend that grant, give up or leave alone the leases.
LEMMA StepRefines ==
    IInv /\ [Next]_vars => [Promise!LeaseNext]_(Promise!leaseVars)
<1> SUFFICES ASSUME IInv, [Next]_vars
             PROVE  Promise!LeaseNext \/ UNCHANGED <<now, granted>>
  BY DEF Promise!leaseVars
<1>0. TypeOK
  BY DEF IInv
<1>1. ASSUME NEW p \in Proc, Extend(p) PROVE Promise!LeaseNext
  <2>1. PICK n \in Name, e \in Nat : n = call[p].name /\ e = call[p].expire
    BY <1>0 DEF TypeOK, Calls
  <2>2. CASE row[n].value = p
    <3>1. now' = now /\ granted' = [granted EXCEPT ![p][n] = e]
      BY <1>1, <2>1, <2>2 DEF Extend
    <3>2. Promise!Grant(p, n)
      BY <2>2, <3>1, GrantStep
    <3> QED BY <3>2 DEF Promise!LeaseNext
  <2>3. CASE row[n].value # p
    <3>1. now' = now /\ granted' = [granted EXCEPT ![p][n] = 0]
      BY <1>1, <2>1, <2>3 DEF Extend
    <3> QED BY <1>0, <3>1, ForgoOne DEF Promise!LeaseNext
  <2> QED BY <2>2, <2>3
<1>2. ASSUME NEW p \in Proc, InsertRow(p) PROVE Promise!LeaseNext
  <2>1. PICK n \in Name, e \in Nat : n = call[p].name /\ e = call[p].expire
    BY <1>0 DEF TypeOK, Calls
  <2>2. /\ now' = now
        /\ row[n] = NoRow
        /\ granted' = [granted EXCEPT ![p][n] = e]
    BY <1>2, <2>1 DEF InsertRow
  <2>3. Promise!Grant(p, n)
    BY <2>2, GrantStep
  <2> QED BY <2>3 DEF Promise!LeaseNext
<1>3. ASSUME NEW p \in Proc, NEW n \in Name, Release(p, n) PROVE Promise!LeaseNext
  BY <1>0, <1>3, ForgoOne DEF Release, Promise!LeaseNext
<1>4. ASSUME NEW p \in Proc, Shutdown(p) \/ FatalError(p) PROVE Promise!LeaseNext
  BY <1>0, <1>4, ForgoAll DEF Shutdown, FatalError, ReleaseAll, Promise!LeaseNext
<1>5. ASSUME NEW p \in Proc, Crash(p) PROVE Promise!LeaseNext
  BY <1>0, <1>5, ForgoAll DEF Crash, Promise!LeaseNext
<1>6. CASE Tick
  <2>1. now' \in Nat /\ now' > now /\ granted' = granted
    BY <1>0, <1>6 DEF Tick, TypeOK
  <2> QED BY <2>1 DEF Promise!LeaseNext, Promise!Tick
<1>7. ASSUME NEW p \in Proc,
             \/ Record(p) \/ InsertConflict(p) \/ InsertNoTable(p) \/ CreateTable(p)
             \/ Select(p) \/ CheckExpired(p) \/ Break(p) \/ Sleep(p)
             \/ DeleteOwn(p) \/ DeleteAll(p) \/ DbFault(p)
      PROVE  UNCHANGED <<now, granted>>
  BY <1>7 DEF Record, InsertConflict, InsertNoTable, CreateTable, Select, CheckExpired,
     Break, Sleep, DeleteOwn, DeleteAll, DbFault
<1>8. ASSUME NEW p \in Proc, NEW n \in Name, NEW t \in Timeouts, Acquire(p, n, t)
      PROVE  UNCHANGED <<now, granted>>
  BY <1>8 DEF Acquire
<1>9. ASSUME NEW p \in Proc, NEW n \in Name, NEW k \in 1..MaxPolls, Wait(p, n, k)
      PROVE  UNCHANGED <<now, granted>>
  BY <1>9 DEF Wait
<1>10. CASE UNCHANGED vars
  BY <1>10 DEF vars
<1> QED
  BY <1>1, <1>2, <1>3, <1>4, <1>5, <1>6, <1>7, <1>8, <1>9, <1>10
  DEF Next, Request, Step

\* The lock backend implements the abstract lease.
THEOREM Refinement == Spec => ImplementsLease
<1>1. Init => Promise!LeaseInit
  BY DEF Init, Promise!LeaseInit
<1> QED BY <1>1, StepRefines, Invariance, PTL
        DEF Spec, ImplementsLease, Promise!LeaseSpec

=============================================================================
