------------------------- MODULE ChainedFastProofs -------------------------
(***************************************************************************)
(* Proofs about ChainedFast, for any processes, nodes, cache ids and       *)
(* bounds.  Core is the inductive part of Inv; Fresh follows from it.      *)
(***************************************************************************)
EXTENDS ChainedFast, TLAPS

Core ==
    /\ TypeOK
    /\ NotFromFuture
    /\ UpsertsWhatItHas
    /\ RowsMeant
    /\ ItemsMeant
    /\ CopiesMeant
    /\ WritesMarked

\* Nothing has been written or copied yet.
LEMMA InitCore == Init => Core
  BY ChainedFastAssumption
  DEF Init, Core, TypeOK, NotFromFuture, UpsertsWhatItHas, RowsMeant, Current,
      ItemsMeant, CopiesMeant, WritesMarked, NoItem, NoCopy, Items, Copies,
      Null, PERMANENT

\* An item stays one when one of its fields is assigned.
LEMMA ItemFields ==
    ASSUME NEW i \in Items, NEW e \in Nat \cup {PERMANENT}, NEW k \in Nat
    PROVE  /\ [i EXCEPT !.expire = e] \in Items
           /\ [i EXCEPT !.checksum = k] \in Items
  BY DEF Items

\* The types.
LEMMA TypeStep == Core /\ [Next]_vars => TypeOK'
<1> SUFFICES ASSUME Core, [Next]_vars PROVE TypeOK'
  OBVIOUS
<1> USE ChainedFastAssumption DEF Core, consistent, call, request, history,
        TypeOK, Items, Copies, NoItem, NoCopy, Null, PERMANENT, Known
<1>1. ASSUME NEW r \in Request, NEW C \in SUBSET Cid \ {{}}, NEW a \in AllowInvalid, GetMultiple(r, C, a) PROVE TypeOK'
  BY <1>1 DEF GetMultiple, Goto
<1>2. ASSUME NEW r \in Request, NEW C \in SUBSET Cid \ {{}}, SetMultiple(r, C) PROVE TypeOK'
  BY <1>2 DEF SetMultiple, OneMore, Goto, Checksum
<1>3. ASSUME NEW r \in Request, NEW C \in SUBSET Cid \ {{}}, DeleteMultiple(r, C) PROVE TypeOK'
  BY <1>3 DEF DeleteMultiple, Withdraw, OneMore, Write, Goto, Overtaken
<1>4. ASSUME NEW r \in Request, NEW C \in SUBSET Cid \ {{}}, InvalidateMultiple(r, C) PROVE TypeOK'
  <2>1. requestTime[r] - 1 \in Nat
    OBVIOUS
  <2>2. Expired(r) \in [Cid -> Items]
    <3> SUFFICES ASSUME NEW c \in Cid
                 PROVE  [row[c] EXCEPT !.expire = requestTime[r] - 1] \in Items
      BY DEF Expired
    <3>1. row[c] \in Items
      OBVIOUS
    <3> HIDE DEF Items
    <3> QED BY <2>1, <3>1, ItemFields
  <2> QED BY <1>4, <2>2 DEF InvalidateMultiple, Withdraw, OneMore, Write, Goto, Overtaken
<1>5. ASSUME NEW r \in Request, DeleteAll(r) PROVE TypeOK'
  BY <1>5 DEF DeleteAll, Withdraw, OneMore, Write, Goto, Overtaken
<1>6. ASSUME NEW r \in Request, InvalidateAll(r) PROVE TypeOK'
  <2>1. requestTime[r] - 1 \in Nat
    OBVIOUS
  <2>2. Expired(r) \in [Cid -> Items]
    <3> SUFFICES ASSUME NEW c \in Cid
                 PROVE  [row[c] EXCEPT !.expire = requestTime[r] - 1] \in Items
      BY DEF Expired
    <3>1. row[c] \in Items
      OBVIOUS
    <3> HIDE DEF Items
    <3> QED BY <2>1, <3>1, ItemFields
  <2> QED BY <1>6, <2>1, <2>2 DEF InvalidateAll, Withdraw, OneMore, Write, Goto, Overtaken
<1>7. ASSUME NEW r \in Request, InvalidateTags(r) PROVE TypeOK'
  BY <1>7 DEF InvalidateTags, Withdraw, OneMore, Write, Goto, Overtaken
<1>8. ASSUME NEW r \in Request, InvalidateTagsAgain(r) PROVE TypeOK'
  BY <1>8 DEF InvalidateTagsAgain, Withdraw, OneMore, Write, Goto, Overtaken
<1>9. ASSUME NEW r \in Request, ReadFast(r) PROVE TypeOK'
  <2>1. PICK s \in {"idle", "slow"} : pc' = [pc EXCEPT ![r] = s]
    BY <1>9 DEF ReadFast, Missed, Return, Goto
  <2>2. PICK C \in SUBSET Cid : cids' = [cids EXCEPT ![r] = C]
    BY <1>9 DEF ReadFast, Missed, Return, Goto
  <2>3. allow' \in [Request -> BOOLEAN]
    BY <1>9 DEF ReadFast, Missed, Return, Goto
  <2>4. UNCHANGED <<clock, second, consistent, fast, items, stamp, request, writes,
                    faults, history>>
    BY <1>9 DEF ReadFast, Missed
  <2> QED BY <2>1, <2>2, <2>3, <2>4
<1>10. ASSUME NEW r \in Request, ReadFastThrows(r) PROVE TypeOK'
  <2>1. PICK s \in {"idle", "slow"} : pc' = [pc EXCEPT ![r] = s]
    BY <1>10 DEF ReadFastThrows, Missed, Return, Goto
  <2>2. PICK C \in SUBSET Cid : cids' = [cids EXCEPT ![r] = C]
    BY <1>10 DEF ReadFastThrows, Missed, Return, Goto
  <2>3. allow' \in [Request -> BOOLEAN]
    BY <1>10 DEF ReadFastThrows, Missed, Return, Goto
  <2>4. UNCHANGED <<clock, second, consistent, fast, items, stamp, request, writes,
                    faults, history>>
    BY <1>10 DEF ReadFastThrows, Missed
  <2> QED BY <2>1, <2>2, <2>3, <2>4
<1>11. ASSUME NEW r \in Request, ReadConsistent(r) PROVE TypeOK'
  <2>1. PICK s \in {"idle", "judge"} : pc' = [pc EXCEPT ![r] = s]
    BY <1>11 DEF ReadConsistent, Return, Goto
  <2>2. cids' \in [Request -> SUBSET Cid]
    <3>1. cids' = cids \/ cids' = [cids EXCEPT ![r] = {}]
      BY <1>11 DEF ReadConsistent, Return
    <3>2. {} \in SUBSET Cid
      OBVIOUS
    <3> QED BY <3>1, <3>2, Zenon
  <2>3. allow' \in [Request -> BOOLEAN]
    BY <1>11 DEF ReadConsistent, Return, Goto
  <2>4. UNCHANGED <<clock, second, consistent, fast, stamp, request, writes,
                    faults, meant, wrote, top, suspect, orphaned>>
    BY <1>11 DEF ReadConsistent
  <2>5. items' \in [Request -> [Cid -> Items]]
    <3> DEFINE new == [c \in Cid |-> IF c \in {d \in cids[r] : row[d] # NoItem}
                                     THEN row[c] ELSE NoItem]
    <3>1. new \in [Cid -> Items]
      OBVIOUS
    <3>2. items' = items \/ items' = [items EXCEPT ![r] = new]
      BY <1>11 DEF ReadConsistent
    <3> QED BY <3>1, <3>2
  <2>6. doubtful' \in [Request -> SUBSET Cid]
    <3>1. {c \in {d \in cids[r] : row[d] # NoItem} : ~Current(c)} \in SUBSET Cid
      OBVIOUS
    <3> QED BY <1>11, <3>1 DEF ReadConsistent
  <2>7. pc' \in [Request -> {"idle", "fast", "slow", "judge", "upsert", "now", "compare",
                               "mark", "put", "remove"}]
    BY <2>1
  <2> QED BY <2>2, <2>3, <2>4, <2>5, <2>6, <2>7
<1>12. ASSUME NEW r \in Request, PrepareItems(r) PROVE TypeOK'
  <2> DEFINE found == {c \in {d \in Cid : items[r][d] # NoItem} : Readable(r, c)}
             new == [c \in Cid |-> IF c \in found
                                   THEN [items[r][c] EXCEPT !.checksum = 0]
                                   ELSE NoItem]
  <2>1. PICK s \in {"idle", "put"} : pc' = [pc EXCEPT ![r] = s]
    BY <1>12 DEF PrepareItems, Return, Goto
  <2>2. cids' \in [Request -> SUBSET Cid]
    BY <1>12 DEF PrepareItems, Return, Goto
  <2>3. allow' \in [Request -> BOOLEAN]
    BY <1>12 DEF PrepareItems, Return, Goto
  <2>4. UNCHANGED <<clock, second, consistent, fast, stamp, lastWrite,
                    requestTime, invalidated, writes, faults, meant, wrote,
                    top, suspect, orphaned>>
    BY <1>12 DEF PrepareItems
  <2>5. items' \in [Request -> [Cid -> Items]]
    <3>1. ASSUME NEW c \in Cid PROVE [items[r][c] EXCEPT !.checksum = 0] \in Items
      <4>1. items[r][c] \in Items
        OBVIOUS
      <4> HIDE DEF Items
      <4> QED BY <4>1, ItemFields
    <3>2. new \in [Cid -> Items]
      BY <3>1
    <3>3. items' = [items EXCEPT ![r] = new]
      BY <1>12 DEF PrepareItems
    <3> QED BY <3>2, <3>3
  <2>6. doubtful' \in [Request -> SUBSET Cid]
    <3>1. doubtful' = [doubtful EXCEPT ![r] = @ \cap found]
      BY <1>12 DEF PrepareItems
    <3> QED BY <3>1
  <2>7. tagCache' \in [Request -> Nat \cup {Null}]
    <3>1. Checksum(r) \in Nat \cup {Null}
      BY DEF Checksum
    <3>2. tagCache' = tagCache \/ tagCache' = [tagCache EXCEPT ![r] = Checksum(r)]
      BY <1>12 DEF PrepareItems
    <3> QED BY <3>1, <3>2
  <2>8. pc' \in [Request -> {"idle", "fast", "slow", "judge", "upsert", "now", "compare",
                               "mark", "put", "remove"}]
    BY <2>1
  <2> HIDE DEF found, new
  <2> QED BY <2>2, <2>3, <2>4, <2>5, <2>6, <2>7, <2>8
<1>13. ASSUME NEW r \in Request, PutFast(r) PROVE TypeOK'
  <2> PICK c \in Cid :
        /\ items[r][c] # NoItem
        /\ fast' = [fast EXCEPT ![NodeOf[r]][c] = Copied(items[r][c])]
        /\ suspect' = [suspect EXCEPT ![NodeOf[r]] =
               IF c \in doubtful[r] THEN @ \cup {c} ELSE @ \ {c}]
        /\ items' = [items EXCEPT ![r][c] = NoItem]
        /\ doubtful' = [doubtful EXCEPT ![r] = @ \ {c}]
        /\ UNCHANGED <<pc, cids, allow>> \/ Return(r)
    BY <1>13 DEF PutFast
  <2>1. Copied(items[r][c]) \in Copies
    BY DEF Copied
  <2>2. fast' \in [Node -> [Cid -> Copies]]
    BY <2>1
  <2>3. items' \in [Request -> [Cid -> Items]]
    OBVIOUS
  <2>4. /\ pc' \in [Request -> {"idle", "fast", "slow", "judge", "upsert", "now", "compare",
                               "mark", "put", "remove"}]
        /\ cids' \in [Request -> SUBSET Cid]
    BY DEF Return, Goto
  <2>5. allow' \in [Request -> BOOLEAN]
    BY DEF Return
  <2>6. suspect' \in [Node -> SUBSET Cid] /\ doubtful' \in [Request -> SUBSET Cid]
    OBVIOUS
  <2>7. UNCHANGED <<clock, second, consistent, stamp, request, writes, faults,
                    meant, wrote, top, orphaned>>
    BY <1>13 DEF PutFast
  <2> QED BY <2>2, <2>3, <2>4, <2>5, <2>6, <2>7
<1>14. ASSUME NEW r \in Request, Upsert(r) PROVE TypeOK'
  <2> DEFINE new == [c \in Cid |-> [items[r][c] EXCEPT !.checksum =
                                       IF c \in Tagged THEN tagCache[r] ELSE 0]]
  <2>1. /\ pc[r] = "upsert"
        /\ row' = [c \in Cid |-> IF c \in cids[r] THEN new[c] ELSE row[c]]
    BY <1>14 DEF Upsert, Write
  <2>2. row' \in [Cid -> Items]
    <3>1. ASSUME NEW c \in cids[r]
          PROVE  (IF c \in Tagged THEN tagCache[r] ELSE 0) \in Nat
      BY <2>1 DEF UpsertsWhatItHas
    <3>2. ASSUME NEW c \in cids[r] PROVE new[c] \in Items
      <4>1. items[r][c] \in Items
        OBVIOUS
      <4> HIDE DEF Items
      <4> QED BY <3>1, <4>1, ItemFields
    <3> QED BY <2>1, <3>2
  <2>3. /\ pc' \in [Request -> {"idle", "fast", "slow", "judge", "upsert", "now", "compare",
                               "mark", "put", "remove"}]
        /\ cids' \in [Request -> SUBSET Cid]
        /\ wrote' \in [Cid -> Nat]
    BY <1>14 DEF Upsert, Write, Goto
  <2>4. meant' \in [Cid -> Nat]
    BY <1>14 DEF Upsert
  <2>5. doubtful' \in [Request -> SUBSET Cid]
    BY <1>14 DEF Upsert, Overtaken
  <2>6. UNCHANGED <<clock, second, fast, allow, items, stamp, request, writes, faults,
                    mark, markExpire, count, top, suspect, orphaned>>
    BY <1>14 DEF Upsert, Write
  <2> HIDE DEF new
  <2> QED BY <2>2, <2>3, <2>4, <2>5, <2>6
<1>15. ASSUME NEW r \in Request, ReadClock(r) PROVE TypeOK'
  BY <1>15 DEF ReadClock, Now, Goto
<1>16. ASSUME NEW r \in Request, Compare(r) PROVE TypeOK'
  <2>1. PICK s \in {"idle", "mark", "put"} : pc' = [pc EXCEPT ![r] = s]
    BY <1>16 DEF Compare, Marked, Return, Goto
  <2>2. cids' \in [Request -> SUBSET Cid]
    <3>1. cids' = cids \/ cids' = [cids EXCEPT ![r] = {}]
      BY <1>16 DEF Compare, Marked, Return
    <3>2. {} \in SUBSET Cid
      OBVIOUS
    <3> QED BY <3>1, <3>2, Zenon
  <2>3. allow' \in [Request -> BOOLEAN]
    BY <1>16 DEF Compare, Marked, Return, Goto
  <2>4. UNCHANGED <<clock, second, consistent, fast, items, requestTime, tagCache,
                    invalidated, writes, faults, history>>
    BY <1>16 DEF Compare
  <2>5. stamp' = stamp \/ stamp' = [stamp EXCEPT ![r] = 0]
    BY <1>16 DEF Compare, Marked
  <2>6. lastWrite' = [lastWrite EXCEPT ![r] = Known(r)] /\ Known(r) \in Nat
    BY <1>16 DEF Compare
  <2>7. pc' \in [Request -> {"idle", "fast", "slow", "judge", "upsert", "now", "compare",
                               "mark", "put", "remove"}]
    BY <2>1
  <2>8. stamp' \in [Request -> Nat]
    <3>1. CASE stamp' = stamp
      BY <3>1
    <3>2. CASE stamp' = [stamp EXCEPT ![r] = 0]
      BY <3>2
    <3> QED BY <2>5, <3>1, <3>2
  <2>9. lastWrite' \in [Request -> Nat \cup {Null}]
    BY <2>6
  <2> HIDE DEF Null, PERMANENT
  <2> QED BY <2>2, <2>3, <2>4, <2>7, <2>8, <2>9
<1>17. ASSUME NEW r \in Request, StoreTimestamp(r) PROVE TypeOK'
  BY <1>17 DEF StoreTimestamp, Marked, Return, Goto
<1>18. ASSUME NEW r \in Request, RemoveBin(r) PROVE TypeOK'
  BY <1>18 DEF RemoveBin, Fault, Goto, Overtaken
<1>19. ASSUME NEW r \in Request, RemoveFast(r) PROVE TypeOK'
  BY <1>19 DEF RemoveFast, Emptied, Goto
<1>20. ASSUME NEW r \in Request, Reset(r) PROVE TypeOK'
  BY <1>20 DEF Reset
<1>21. ASSUME NEW r \in Request, NextRequest(r) PROVE TypeOK'
  BY <1>21 DEF NextRequest, NewRequest
<1>22. ASSUME NEW r \in Request, Die(r) PROVE TypeOK'
  BY <1>22 DEF Die, Fault, Return, Goto, NewRequest
<1>23. ASSUME NEW S \in SUBSET Cid, NEW m \in {0, mark}, GarbageCollection(S, m) PROVE TypeOK'
  BY <1>23 DEF GarbageCollection, Fault
<1>24. ASSUME NEW n \in Node, Restart(n) PROVE TypeOK'
  BY <1>24 DEF Restart, Fault, Emptied
<1>25. CASE Tick
  BY <1>25 DEF Tick
<1>26. CASE UNCHANGED vars
  BY <1>26 DEF vars
<1> HIDE DEF Core, TypeOK
<1> QED
  BY <1>1, <1>2, <1>3, <1>4, <1>5, <1>6, <1>7, <1>8, <1>9, <1>10, <1>11,
     <1>12, <1>13, <1>14, <1>15, <1>16, <1>17, <1>18, <1>19, <1>20, <1>21,
     <1>22, <1>23, <1>24, <1>25, <1>26
  DEF Next

\* Timestamps that are known were stored, counters and times do not exceed the
\* present ones.
LEMMA FutureStep == Core /\ [Next]_vars => NotFromFuture'
<1> SUFFICES ASSUME Core, [Next]_vars PROVE NotFromFuture'
  OBVIOUS
<1> USE ChainedFastAssumption DEF Core, consistent, call, request, history,
        TypeOK, NotFromFuture, Items, Copies, NoItem, NoCopy, Null, PERMANENT, Known
<1>1. ASSUME NEW r \in Request, NEW C \in SUBSET Cid \ {{}}, NEW a \in AllowInvalid, GetMultiple(r, C, a) PROVE NotFromFuture'
  BY <1>1 DEF GetMultiple, Goto
<1>2. ASSUME NEW r \in Request, NEW C \in SUBSET Cid \ {{}}, SetMultiple(r, C) PROVE NotFromFuture'
  BY <1>2 DEF SetMultiple, OneMore, Goto, Checksum
<1>3. ASSUME NEW r \in Request, NEW C \in SUBSET Cid \ {{}}, DeleteMultiple(r, C) PROVE NotFromFuture'
  BY <1>3 DEF DeleteMultiple, Withdraw, OneMore, Write, Goto, Overtaken
<1>4. ASSUME NEW r \in Request, NEW C \in SUBSET Cid \ {{}}, InvalidateMultiple(r, C) PROVE NotFromFuture'
  BY <1>4 DEF InvalidateMultiple, Withdraw, OneMore, Write, Expired, Goto, Overtaken
<1>5. ASSUME NEW r \in Request, DeleteAll(r) PROVE NotFromFuture'
  BY <1>5 DEF DeleteAll, Withdraw, OneMore, Write, Goto, Overtaken
<1>6. ASSUME NEW r \in Request, InvalidateAll(r) PROVE NotFromFuture'
  BY <1>6 DEF InvalidateAll, Withdraw, OneMore, Write, Expired, Goto, Overtaken
<1>7. ASSUME NEW r \in Request, InvalidateTags(r) PROVE NotFromFuture'
  BY <1>7 DEF InvalidateTags, Withdraw, OneMore, Write, Goto, Overtaken
<1>8. ASSUME NEW r \in Request, InvalidateTagsAgain(r) PROVE NotFromFuture'
  BY <1>8 DEF InvalidateTagsAgain, Withdraw, OneMore, Write, Goto, Overtaken
<1>9. ASSUME NEW r \in Request, ReadFast(r) PROVE NotFromFuture'
  BY <1>9 DEF ReadFast, Missed, Return, Goto
<1>10. ASSUME NEW r \in Request, ReadFastThrows(r) PROVE NotFromFuture'
  BY <1>10 DEF ReadFastThrows, Missed, Return, Goto
<1>11. ASSUME NEW r \in Request, ReadConsistent(r) PROVE NotFromFuture'
  BY <1>11 DEF ReadConsistent, Return, Goto
<1>12. ASSUME NEW r \in Request, PrepareItems(r) PROVE NotFromFuture'
  BY <1>12 DEF PrepareItems, Return, Goto, Checksum
<1>13. ASSUME NEW r \in Request, PutFast(r) PROVE NotFromFuture'
  BY <1>13 DEF PutFast, Copied, Return, Goto
<1>14. ASSUME NEW r \in Request, Upsert(r) PROVE NotFromFuture'
  <2>1. /\ pc[r] = "upsert"
        /\ row' = [c \in Cid |-> IF c \in cids[r]
                      THEN [items[r][c] EXCEPT !.checksum =
                               IF c \in Tagged THEN tagCache[r] ELSE 0]
                      ELSE row[c]]
        /\ wrote' = [c \in Cid |-> IF c \in cids[r] THEN clock ELSE wrote[c]]
        /\ UNCHANGED <<clock, second, mark, count, fast, lastWrite, requestTime,
                       tagCache, top, items>>
    BY <1>14 DEF Upsert, Write
  <2>2. ASSUME NEW c \in Cid PROVE items[r][c].expire < second
    <3>1. items[r][c].expire = PERMANENT
      BY <2>1 DEF UpsertsWhatItHas
    <3> QED BY <3>1
  <2>3. ASSUME NEW c \in Cid PROVE row'[c].expire < second /\ row'[c].checksum <= count
    BY <2>1, <2>2
  <2>4. ASSUME NEW c \in Cid PROVE wrote'[c] <= clock
    BY <2>1
  <2> QED BY <2>1, <2>3, <2>4
<1>15. ASSUME NEW r \in Request, ReadClock(r) PROVE NotFromFuture'
  BY <1>15 DEF ReadClock, Now, Goto
<1>16. ASSUME NEW r \in Request, Compare(r) PROVE NotFromFuture'
  BY <1>16 DEF Compare, Marked, Return, Goto
<1>17. ASSUME NEW r \in Request, StoreTimestamp(r) PROVE NotFromFuture'
  <2>1. /\ mark' = stamp[r]
        /\ lastWrite' = [lastWrite EXCEPT ![r] = stamp[r]]
        /\ top' = IF stamp[r] > top THEN stamp[r] ELSE top
        /\ UNCHANGED <<clock, second, row, count, fast, wrote, requestTime, tagCache>>
    BY <1>17 DEF StoreTimestamp
  <2>2. top' >= top /\ top' >= stamp[r]
    BY <2>1
  <2>3. ASSUME NEW s \in Request PROVE lastWrite'[s] <= top'
    <3>1. CASE s = r
      BY <2>1, <2>2, <3>1
    <3>2. CASE s # r
      <4>1. lastWrite'[s] = lastWrite[s] /\ lastWrite[s] \in Int
        BY <2>1, <3>2
      <4>2. lastWrite[s] <= top
        OBVIOUS
      <4> QED BY <4>1, <4>2, <2>2, <2>1
    <3> QED BY <3>1, <3>2
  <2> QED BY <2>1, <2>2, <2>3
<1>18. ASSUME NEW r \in Request, RemoveBin(r) PROVE NotFromFuture'
  BY <1>18 DEF RemoveBin, Fault, Goto, Overtaken
<1>19. ASSUME NEW r \in Request, RemoveFast(r) PROVE NotFromFuture'
  BY <1>19 DEF RemoveFast, Emptied, Goto
<1>20. ASSUME NEW r \in Request, Reset(r) PROVE NotFromFuture'
  BY <1>20 DEF Reset
<1>21. ASSUME NEW r \in Request, NextRequest(r) PROVE NotFromFuture'
  BY <1>21 DEF NextRequest, NewRequest
<1>22. ASSUME NEW r \in Request, Die(r) PROVE NotFromFuture'
  BY <1>22 DEF Die, Fault, Return, Goto, NewRequest
<1>23. ASSUME NEW S \in SUBSET Cid, NEW m \in {0, mark}, GarbageCollection(S, m) PROVE NotFromFuture'
  BY <1>23 DEF GarbageCollection, Fault
<1>24. ASSUME NEW n \in Node, Restart(n) PROVE NotFromFuture'
  BY <1>24 DEF Restart, Fault, Emptied
<1>25. CASE Tick
  <2>1. /\ clock' = clock + 1 /\ second' >= second
        /\ UNCHANGED <<mark, top, lastWrite, requestTime, tagCache, count, wrote,
                       row, fast, items>>
    BY <1>25 DEF Tick
  <2>2. ASSUME NEW r \in Request PROVE requestTime[r] <= second'
    BY <2>1, <1>25 DEF Tick
  <2>3. ASSUME NEW c \in Cid PROVE wrote[c] <= clock + 1 /\ row[c].expire < second'
    <3>1. row[c].expire \in Int /\ wrote[c] \in Int /\ row[c].expire < second
      OBVIOUS
    <3>2. second' \in Int
      BY <1>25 DEF Tick
    <3> QED BY <2>1, <3>1, <3>2
  <2>4. ASSUME NEW n \in Node, NEW c \in Cid PROVE fast[n][c].created <= clock + 1
    OBVIOUS
  <2> QED BY <2>1, <2>2, <2>3, <2>4
<1>26. CASE UNCHANGED vars
  BY <1>26 DEF vars
<1> HIDE DEF Core, NotFromFuture, TypeOK
<1> QED
  BY <1>1, <1>2, <1>3, <1>4, <1>5, <1>6, <1>7, <1>8, <1>9, <1>10, <1>11,
     <1>12, <1>13, <1>14, <1>15, <1>16, <1>17, <1>18, <1>19, <1>20, <1>21,
     <1>22, <1>23, <1>24, <1>25, <1>26
  DEF Next

\* A request about to write has a checksum and nothing but what it writes.
LEMMA UpsertStep == Core /\ [Next]_vars => UpsertsWhatItHas'
<1> SUFFICES ASSUME Core, [Next]_vars PROVE UpsertsWhatItHas'
  OBVIOUS
<1> USE ChainedFastAssumption DEF Core, consistent, call, request, history,
        TypeOK, UpsertsWhatItHas, Null, NoItem, PERMANENT
<1>1. ASSUME NEW r \in Request, NEW C \in SUBSET Cid \ {{}}, NEW a \in AllowInvalid, GetMultiple(r, C, a) PROVE UpsertsWhatItHas'
  BY <1>1 DEF GetMultiple, Goto
<1>2. ASSUME NEW r \in Request, NEW C \in SUBSET Cid \ {{}}, SetMultiple(r, C) PROVE UpsertsWhatItHas'
  BY <1>2 DEF SetMultiple, OneMore, Goto, Checksum
<1>3. ASSUME NEW r \in Request, NEW C \in SUBSET Cid \ {{}}, DeleteMultiple(r, C) PROVE UpsertsWhatItHas'
  BY <1>3 DEF DeleteMultiple, Withdraw, OneMore, Write, Goto, Overtaken
<1>4. ASSUME NEW r \in Request, NEW C \in SUBSET Cid \ {{}}, InvalidateMultiple(r, C) PROVE UpsertsWhatItHas'
  BY <1>4 DEF InvalidateMultiple, Withdraw, OneMore, Write, Expired, Goto, Overtaken
<1>5. ASSUME NEW r \in Request, DeleteAll(r) PROVE UpsertsWhatItHas'
  BY <1>5 DEF DeleteAll, Withdraw, OneMore, Write, Goto, Overtaken
<1>6. ASSUME NEW r \in Request, InvalidateAll(r) PROVE UpsertsWhatItHas'
  BY <1>6 DEF InvalidateAll, Withdraw, OneMore, Write, Expired, Goto, Overtaken
<1>7. ASSUME NEW r \in Request, InvalidateTags(r) PROVE UpsertsWhatItHas'
  BY <1>7 DEF InvalidateTags, Withdraw, OneMore, Write, Goto, Overtaken
<1>8. ASSUME NEW r \in Request, InvalidateTagsAgain(r) PROVE UpsertsWhatItHas'
  BY <1>8 DEF InvalidateTagsAgain, Withdraw, OneMore, Write, Goto, Overtaken
<1>9. ASSUME NEW r \in Request, ReadFast(r) PROVE UpsertsWhatItHas'
  <2>1. pc'[r] # "upsert"
    BY <1>9 DEF ReadFast, Missed, Return, Goto
  <2>2. ASSUME NEW s \in Request, s # r
        PROVE  /\ pc'[s] = pc[s] /\ cids'[s] = cids[s]
               /\ items'[s] = items[s] /\ tagCache'[s] = tagCache[s]
    BY <1>9, <2>2 DEF ReadFast, Missed, Return, Goto
  <2> HIDE DEF TypeOK, NoItem, Null, PERMANENT
  <2> QED BY <2>1, <2>2
<1>10. ASSUME NEW r \in Request, ReadFastThrows(r) PROVE UpsertsWhatItHas'
  <2>1. pc'[r] # "upsert"
    BY <1>10 DEF ReadFastThrows, Missed, Return, Goto
  <2>2. ASSUME NEW s \in Request, s # r
        PROVE  /\ pc'[s] = pc[s] /\ cids'[s] = cids[s]
               /\ items'[s] = items[s] /\ tagCache'[s] = tagCache[s]
    BY <1>10, <2>2 DEF ReadFastThrows, Missed, Return, Goto
  <2> HIDE DEF TypeOK, NoItem, Null, PERMANENT
  <2> QED BY <2>1, <2>2
<1>11. ASSUME NEW r \in Request, ReadConsistent(r) PROVE UpsertsWhatItHas'
  <2>1. pc'[r] # "upsert"
    BY <1>11 DEF ReadConsistent, Return, Goto
  <2>2. ASSUME NEW s \in Request, s # r
        PROVE  /\ pc'[s] = pc[s] /\ cids'[s] = cids[s]
               /\ items'[s] = items[s] /\ tagCache'[s] = tagCache[s]
    BY <1>11, <2>2 DEF ReadConsistent, Return, Goto
  <2> HIDE DEF TypeOK, NoItem, Null, PERMANENT
  <2> QED BY <2>1, <2>2
<1>12. ASSUME NEW r \in Request, PrepareItems(r) PROVE UpsertsWhatItHas'
  BY <1>12 DEF PrepareItems, Return, Goto, Checksum
<1>13. ASSUME NEW r \in Request, PutFast(r) PROVE UpsertsWhatItHas'
  BY <1>13 DEF PutFast, Copied, Return, Goto
<1>14. ASSUME NEW r \in Request, Upsert(r) PROVE UpsertsWhatItHas'
  BY <1>14 DEF Upsert, Write, Goto, Overtaken
<1>15. ASSUME NEW r \in Request, ReadClock(r) PROVE UpsertsWhatItHas'
  BY <1>15 DEF ReadClock, Now, Goto
<1>16. ASSUME NEW r \in Request, Compare(r) PROVE UpsertsWhatItHas'
  <2>1. pc'[r] # "upsert"
    BY <1>16 DEF Compare, Marked, Return, Goto
  <2>2. ASSUME NEW s \in Request, s # r
        PROVE  /\ pc'[s] = pc[s] /\ cids'[s] = cids[s]
               /\ items'[s] = items[s] /\ tagCache'[s] = tagCache[s]
    BY <1>16, <2>2 DEF Compare, Marked, Return, Goto
  <2> HIDE DEF TypeOK, NoItem, Null, PERMANENT
  <2> QED BY <2>1, <2>2
<1>17. ASSUME NEW r \in Request, StoreTimestamp(r) PROVE UpsertsWhatItHas'
  <2>1. pc'[r] # "upsert"
    BY <1>17 DEF StoreTimestamp, Marked, Return, Goto
  <2>2. ASSUME NEW s \in Request, s # r
        PROVE  /\ pc'[s] = pc[s] /\ cids'[s] = cids[s]
               /\ items'[s] = items[s] /\ tagCache'[s] = tagCache[s]
    BY <1>17, <2>2 DEF StoreTimestamp, Marked, Return, Goto
  <2> HIDE DEF TypeOK, NoItem, Null, PERMANENT
  <2> QED BY <2>1, <2>2
<1>18. ASSUME NEW r \in Request, RemoveBin(r) PROVE UpsertsWhatItHas'
  BY <1>18 DEF RemoveBin, Fault, Goto, Overtaken
<1>19. ASSUME NEW r \in Request, RemoveFast(r) PROVE UpsertsWhatItHas'
  BY <1>19 DEF RemoveFast, Emptied, Goto
<1>20. ASSUME NEW r \in Request, Reset(r) PROVE UpsertsWhatItHas'
  BY <1>20 DEF Reset
<1>21. ASSUME NEW r \in Request, NextRequest(r) PROVE UpsertsWhatItHas'
  BY <1>21 DEF NextRequest, NewRequest
<1>22. ASSUME NEW r \in Request, Die(r) PROVE UpsertsWhatItHas'
  BY <1>22 DEF Die, Fault, Return, Goto, NewRequest
<1>23. ASSUME NEW S \in SUBSET Cid, NEW m \in {0, mark}, GarbageCollection(S, m) PROVE UpsertsWhatItHas'
  BY <1>23 DEF GarbageCollection, Fault
<1>24. ASSUME NEW n \in Node, Restart(n) PROVE UpsertsWhatItHas'
  BY <1>24 DEF Restart, Fault, Emptied
<1>25. CASE Tick
  BY <1>25 DEF Tick
<1>26. CASE UNCHANGED vars
  BY <1>26 DEF vars
<1> HIDE DEF Core, UpsertsWhatItHas, TypeOK
<1> QED
  BY <1>1, <1>2, <1>3, <1>4, <1>5, <1>6, <1>7, <1>8, <1>9, <1>10, <1>11,
     <1>12, <1>13, <1>14, <1>15, <1>16, <1>17, <1>18, <1>19, <1>20, <1>21,
     <1>22, <1>23, <1>24, <1>25, <1>26
  DEF Next

\* A current row holds what is meant.
LEMMA RowsStep == Core /\ [Next]_vars => RowsMeant'
<1> SUFFICES ASSUME Core, [Next]_vars PROVE RowsMeant'
  OBVIOUS
<1> USE ChainedFastAssumption DEF Core, consistent, call, request, history,
        TypeOK, NotFromFuture, RowsMeant, Current, Items, NoItem, PERMANENT
<1>1. ASSUME NEW r \in Request, NEW C \in SUBSET Cid \ {{}}, NEW a \in AllowInvalid, GetMultiple(r, C, a) PROVE RowsMeant'
  BY <1>1 DEF GetMultiple, Goto
<1>2. ASSUME NEW r \in Request, NEW C \in SUBSET Cid \ {{}}, SetMultiple(r, C) PROVE RowsMeant'
  BY <1>2 DEF SetMultiple, OneMore, Goto, Checksum
<1>3. ASSUME NEW r \in Request, NEW C \in SUBSET Cid \ {{}}, DeleteMultiple(r, C) PROVE RowsMeant'
  BY <1>3 DEF DeleteMultiple, Withdraw, OneMore, Write, Goto, Overtaken
<1>4. ASSUME NEW r \in Request, NEW C \in SUBSET Cid \ {{}}, InvalidateMultiple(r, C) PROVE RowsMeant'
  BY <1>4 DEF InvalidateMultiple, Withdraw, OneMore, Write, Expired, Goto, Overtaken
<1>5. ASSUME NEW r \in Request, DeleteAll(r) PROVE RowsMeant'
  BY <1>5 DEF DeleteAll, Withdraw, OneMore, Write, Goto, Overtaken
<1>6. ASSUME NEW r \in Request, InvalidateAll(r) PROVE RowsMeant'
  BY <1>6 DEF InvalidateAll, Withdraw, OneMore, Write, Expired, Goto, Overtaken
<1>7. ASSUME NEW r \in Request, InvalidateTags(r) PROVE RowsMeant'
  BY <1>7 DEF InvalidateTags, Withdraw, OneMore, Write, Goto, Overtaken
<1>8. ASSUME NEW r \in Request, InvalidateTagsAgain(r) PROVE RowsMeant'
  BY <1>8 DEF InvalidateTagsAgain, Withdraw, OneMore, Write, Goto, Overtaken
<1>9. ASSUME NEW r \in Request, ReadFast(r) PROVE RowsMeant'
  BY <1>9 DEF ReadFast, Missed, Return, Goto
<1>10. ASSUME NEW r \in Request, ReadFastThrows(r) PROVE RowsMeant'
  BY <1>10 DEF ReadFastThrows, Missed, Return, Goto
<1>11. ASSUME NEW r \in Request, ReadConsistent(r) PROVE RowsMeant'
  BY <1>11 DEF ReadConsistent, Return, Goto
<1>12. ASSUME NEW r \in Request, PrepareItems(r) PROVE RowsMeant'
  BY <1>12 DEF PrepareItems, Return, Goto, Checksum
<1>13. ASSUME NEW r \in Request, PutFast(r) PROVE RowsMeant'
  BY <1>13 DEF PutFast, Copied, Return, Goto
<1>14. ASSUME NEW r \in Request, Upsert(r) PROVE RowsMeant'
  BY <1>14 DEF Upsert, Write, Goto, Overtaken
<1>15. ASSUME NEW r \in Request, ReadClock(r) PROVE RowsMeant'
  BY <1>15 DEF ReadClock, Now, Goto
<1>16. ASSUME NEW r \in Request, Compare(r) PROVE RowsMeant'
  BY <1>16 DEF Compare, Marked, Return, Goto
<1>17. ASSUME NEW r \in Request, StoreTimestamp(r) PROVE RowsMeant'
  BY <1>17 DEF StoreTimestamp, Marked, Return, Goto
<1>18. ASSUME NEW r \in Request, RemoveBin(r) PROVE RowsMeant'
  BY <1>18 DEF RemoveBin, Fault, Goto, Overtaken
<1>19. ASSUME NEW r \in Request, RemoveFast(r) PROVE RowsMeant'
  BY <1>19 DEF RemoveFast, Emptied, Goto
<1>20. ASSUME NEW r \in Request, Reset(r) PROVE RowsMeant'
  BY <1>20 DEF Reset
<1>21. ASSUME NEW r \in Request, NextRequest(r) PROVE RowsMeant'
  BY <1>21 DEF NextRequest, NewRequest
<1>22. ASSUME NEW r \in Request, Die(r) PROVE RowsMeant'
  BY <1>22 DEF Die, Fault, Return, Goto, NewRequest
<1>23. ASSUME NEW S \in SUBSET Cid, NEW m \in {0, mark}, GarbageCollection(S, m) PROVE RowsMeant'
  BY <1>23 DEF GarbageCollection, Fault
<1>24. ASSUME NEW n \in Node, Restart(n) PROVE RowsMeant'
  BY <1>24 DEF Restart, Fault, Emptied
<1>25. CASE Tick
  BY <1>25 DEF Tick
<1>26. CASE UNCHANGED vars
  BY <1>26 DEF vars
<1> HIDE DEF Core, RowsMeant, TypeOK
<1> QED
  BY <1>1, <1>2, <1>3, <1>4, <1>5, <1>6, <1>7, <1>8, <1>9, <1>10, <1>11,
     <1>12, <1>13, <1>14, <1>15, <1>16, <1>17, <1>18, <1>19, <1>20, <1>21,
     <1>22, <1>23, <1>24, <1>25, <1>26
  DEF Next

\* What a request carries is doubtful or meant.
LEMMA ItemsStep == Core /\ [Next]_vars => ItemsMeant'
<1> SUFFICES ASSUME Core, [Next]_vars PROVE ItemsMeant'
  OBVIOUS
<1> USE ChainedFastAssumption DEF Core, consistent, call, request, history,
        TypeOK, ItemsMeant, RowsMeant
<1>1. ASSUME NEW r \in Request, NEW C \in SUBSET Cid \ {{}}, NEW a \in AllowInvalid, GetMultiple(r, C, a) PROVE ItemsMeant'
  BY <1>1 DEF GetMultiple, Goto
<1>2. ASSUME NEW r \in Request, NEW C \in SUBSET Cid \ {{}}, SetMultiple(r, C) PROVE ItemsMeant'
  BY <1>2 DEF SetMultiple, OneMore, Goto, Checksum
<1>3. ASSUME NEW r \in Request, NEW C \in SUBSET Cid \ {{}}, DeleteMultiple(r, C) PROVE ItemsMeant'
  BY <1>3 DEF DeleteMultiple, Withdraw, OneMore, Write, Goto, Overtaken
<1>4. ASSUME NEW r \in Request, NEW C \in SUBSET Cid \ {{}}, InvalidateMultiple(r, C) PROVE ItemsMeant'
  BY <1>4 DEF InvalidateMultiple, Withdraw, OneMore, Write, Expired, Goto, Overtaken
<1>5. ASSUME NEW r \in Request, DeleteAll(r) PROVE ItemsMeant'
  BY <1>5 DEF DeleteAll, Withdraw, OneMore, Write, Goto, Overtaken
<1>6. ASSUME NEW r \in Request, InvalidateAll(r) PROVE ItemsMeant'
  BY <1>6 DEF InvalidateAll, Withdraw, OneMore, Write, Expired, Goto, Overtaken
<1>7. ASSUME NEW r \in Request, InvalidateTags(r) PROVE ItemsMeant'
  BY <1>7 DEF InvalidateTags, Withdraw, OneMore, Write, Goto, Overtaken
<1>8. ASSUME NEW r \in Request, InvalidateTagsAgain(r) PROVE ItemsMeant'
  BY <1>8 DEF InvalidateTagsAgain, Withdraw, OneMore, Write, Goto, Overtaken
<1>9. ASSUME NEW r \in Request, ReadFast(r) PROVE ItemsMeant'
  BY <1>9 DEF ReadFast, Missed, Return, Goto
<1>10. ASSUME NEW r \in Request, ReadFastThrows(r) PROVE ItemsMeant'
  BY <1>10 DEF ReadFastThrows, Missed, Return, Goto
<1>11. ASSUME NEW r \in Request, ReadConsistent(r) PROVE ItemsMeant'
  <2>1. UNCHANGED meant
    BY <1>11 DEF ReadConsistent
  <2>2. ASSUME NEW s \in Request, s # r
        PROVE  /\ pc'[s] = pc[s] /\ items'[s] = items[s]
               /\ doubtful'[s] = doubtful[s]
    BY <1>11, <2>2 DEF ReadConsistent, Return, Goto
  <2>3. ASSUME NEW c \in Cid, items'[r][c] # NoItem, c \notin doubtful'[r]
        PROVE  pc'[r] # "upsert" => items'[r][c].data = meant[c]
    <3>1. CASE \A d \in cids[r] : row[d] = NoItem
      <4>1. UNCHANGED <<items, doubtful>> /\ pc[r] = "slow"
        BY <1>11, <3>1 DEF ReadConsistent
      <4> QED BY <2>3, <4>1
    <3>2. CASE ~ \A d \in cids[r] : row[d] = NoItem
      <4>1. /\ items' = [items EXCEPT ![r] =
                   [d \in Cid |-> IF d \in {b \in cids[r] : row[b] # NoItem}
                                  THEN row[d] ELSE NoItem]]
            /\ doubtful' = [doubtful EXCEPT ![r] =
                   {d \in {b \in cids[r] : row[b] # NoItem} : ~Current(d)}]
        BY <1>11, <3>2 DEF ReadConsistent
      <4>2. c \in cids[r] /\ row[c] # NoItem /\ items'[r][c] = row[c]
        BY <2>3, <4>1
      <4>3. Current(c)
        BY <2>3, <4>1, <4>2
      <4> QED BY <4>2, <4>3
    <3> QED BY <3>1, <3>2
  <2> HIDE DEF TypeOK, RowsMeant
  <2> QED BY <2>1, <2>2, <2>3
<1>12. ASSUME NEW r \in Request, PrepareItems(r) PROVE ItemsMeant'
  BY <1>12 DEF PrepareItems, Return, Goto, Checksum
<1>13. ASSUME NEW r \in Request, PutFast(r) PROVE ItemsMeant'
  BY <1>13 DEF PutFast, Copied, Return, Goto
<1>14. ASSUME NEW r \in Request, Upsert(r) PROVE ItemsMeant'
  <2> DEFINE valid == {c \in cids[r] : c \in Tagged => tagCache[r] = count}
  <2>1. /\ pc[r] = "upsert" /\ UNCHANGED items
        /\ pc' = [pc EXCEPT ![r] = "now"]
        /\ meant' = [c \in Cid |-> IF c \notin cids[r] THEN meant[c]
                         ELSE IF c \in valid THEN items[r][c].data ELSE 0]
        /\ doubtful' = [s \in Request |-> IF s = r THEN cids[r] \ valid
                            ELSE doubtful[s] \cup Overtaken(s, cids[r])]
    BY <1>14 DEF Upsert, Write, Goto
  <2>2. ASSUME NEW c \in Cid, items[r][c] # NoItem, c \notin doubtful'[r]
        PROVE  items[r][c].data = meant'[c]
    <3>1. c \in cids[r]
      BY <2>1, <2>2 DEF UpsertsWhatItHas
    <3> QED BY <2>1, <2>2, <3>1
  <2>3. ASSUME NEW s \in Request, s # r, NEW c \in Cid, items[s][c] # NoItem,
               pc[s] # "upsert", c \notin doubtful'[s]
        PROVE  items[s][c].data = meant'[c]
    <3>1. c \notin doubtful[s] /\ c \notin cids[r]
      BY <2>1, <2>3 DEF Overtaken
    <3> QED BY <2>1, <2>3, <3>1
  <2> HIDE DEF valid
  <2> QED BY <2>1, <2>2, <2>3
<1>15. ASSUME NEW r \in Request, ReadClock(r) PROVE ItemsMeant'
  BY <1>15 DEF ReadClock, Now, Goto
<1>16. ASSUME NEW r \in Request, Compare(r) PROVE ItemsMeant'
  BY <1>16 DEF Compare, Marked, Return, Goto
<1>17. ASSUME NEW r \in Request, StoreTimestamp(r) PROVE ItemsMeant'
  BY <1>17 DEF StoreTimestamp, Marked, Return, Goto
<1>18. ASSUME NEW r \in Request, RemoveBin(r) PROVE ItemsMeant'
  BY <1>18 DEF RemoveBin, Fault, Goto, Overtaken
<1>19. ASSUME NEW r \in Request, RemoveFast(r) PROVE ItemsMeant'
  BY <1>19 DEF RemoveFast, Emptied, Goto
<1>20. ASSUME NEW r \in Request, Reset(r) PROVE ItemsMeant'
  BY <1>20 DEF Reset
<1>21. ASSUME NEW r \in Request, NextRequest(r) PROVE ItemsMeant'
  BY <1>21 DEF NextRequest, NewRequest
<1>22. ASSUME NEW r \in Request, Die(r) PROVE ItemsMeant'
  BY <1>22 DEF Die, Fault, Return, Goto, NewRequest
<1>23. ASSUME NEW S \in SUBSET Cid, NEW m \in {0, mark}, GarbageCollection(S, m) PROVE ItemsMeant'
  BY <1>23 DEF GarbageCollection, Fault
<1>24. ASSUME NEW n \in Node, Restart(n) PROVE ItemsMeant'
  BY <1>24 DEF Restart, Fault, Emptied
<1>25. CASE Tick
  BY <1>25 DEF Tick
<1>26. CASE UNCHANGED vars
  BY <1>26 DEF vars
<1> HIDE DEF Core, ItemsMeant, TypeOK
<1> QED
  BY <1>1, <1>2, <1>3, <1>4, <1>5, <1>6, <1>7, <1>8, <1>9, <1>10, <1>11,
     <1>12, <1>13, <1>14, <1>15, <1>16, <1>17, <1>18, <1>19, <1>20, <1>21,
     <1>22, <1>23, <1>24, <1>25, <1>26
  DEF Next

\* A copy put after the last write is meant.
LEMMA CopiesStep == Core /\ [Next]_vars => CopiesMeant'
<1> SUFFICES ASSUME Core, [Next]_vars PROVE CopiesMeant'
  OBVIOUS
<1> USE ChainedFastAssumption DEF Core, consistent, call, request, history,
        TypeOK, CopiesMeant, NotFromFuture, ItemsMeant, Copies, NoCopy
<1>1. ASSUME NEW r \in Request, NEW C \in SUBSET Cid \ {{}}, NEW a \in AllowInvalid, GetMultiple(r, C, a) PROVE CopiesMeant'
  BY <1>1 DEF GetMultiple, Goto
<1>2. ASSUME NEW r \in Request, NEW C \in SUBSET Cid \ {{}}, SetMultiple(r, C) PROVE CopiesMeant'
  BY <1>2 DEF SetMultiple, OneMore, Goto, Checksum
<1>3. ASSUME NEW r \in Request, NEW C \in SUBSET Cid \ {{}}, DeleteMultiple(r, C) PROVE CopiesMeant'
  BY <1>3 DEF DeleteMultiple, Withdraw, OneMore, Write, Goto, Overtaken
<1>4. ASSUME NEW r \in Request, NEW C \in SUBSET Cid \ {{}}, InvalidateMultiple(r, C) PROVE CopiesMeant'
  BY <1>4 DEF InvalidateMultiple, Withdraw, OneMore, Write, Expired, Goto, Overtaken
<1>5. ASSUME NEW r \in Request, DeleteAll(r) PROVE CopiesMeant'
  BY <1>5 DEF DeleteAll, Withdraw, OneMore, Write, Goto, Overtaken
<1>6. ASSUME NEW r \in Request, InvalidateAll(r) PROVE CopiesMeant'
  BY <1>6 DEF InvalidateAll, Withdraw, OneMore, Write, Expired, Goto, Overtaken
<1>7. ASSUME NEW r \in Request, InvalidateTags(r) PROVE CopiesMeant'
  BY <1>7 DEF InvalidateTags, Withdraw, OneMore, Write, Goto, Overtaken
<1>8. ASSUME NEW r \in Request, InvalidateTagsAgain(r) PROVE CopiesMeant'
  BY <1>8 DEF InvalidateTagsAgain, Withdraw, OneMore, Write, Goto, Overtaken
<1>9. ASSUME NEW r \in Request, ReadFast(r) PROVE CopiesMeant'
  BY <1>9 DEF ReadFast, Missed, Return, Goto
<1>10. ASSUME NEW r \in Request, ReadFastThrows(r) PROVE CopiesMeant'
  BY <1>10 DEF ReadFastThrows, Missed, Return, Goto
<1>11. ASSUME NEW r \in Request, ReadConsistent(r) PROVE CopiesMeant'
  BY <1>11 DEF ReadConsistent, Return, Goto
<1>12. ASSUME NEW r \in Request, PrepareItems(r) PROVE CopiesMeant'
  BY <1>12 DEF PrepareItems, Return, Goto, Checksum
<1>13. ASSUME NEW r \in Request, PutFast(r) PROVE CopiesMeant'
  BY <1>13 DEF PutFast, Copied, Return, Goto
<1>14. ASSUME NEW r \in Request, Upsert(r) PROVE CopiesMeant'
  BY <1>14 DEF Upsert, Write, Goto, Overtaken
<1>15. ASSUME NEW r \in Request, ReadClock(r) PROVE CopiesMeant'
  BY <1>15 DEF ReadClock, Now, Goto
<1>16. ASSUME NEW r \in Request, Compare(r) PROVE CopiesMeant'
  BY <1>16 DEF Compare, Marked, Return, Goto
<1>17. ASSUME NEW r \in Request, StoreTimestamp(r) PROVE CopiesMeant'
  BY <1>17 DEF StoreTimestamp, Marked, Return, Goto
<1>18. ASSUME NEW r \in Request, RemoveBin(r) PROVE CopiesMeant'
  BY <1>18 DEF RemoveBin, Fault, Goto, Overtaken
<1>19. ASSUME NEW r \in Request, RemoveFast(r) PROVE CopiesMeant'
  BY <1>19 DEF RemoveFast, Emptied, Goto
<1>20. ASSUME NEW r \in Request, Reset(r) PROVE CopiesMeant'
  BY <1>20 DEF Reset
<1>21. ASSUME NEW r \in Request, NextRequest(r) PROVE CopiesMeant'
  BY <1>21 DEF NextRequest, NewRequest
<1>22. ASSUME NEW r \in Request, Die(r) PROVE CopiesMeant'
  BY <1>22 DEF Die, Fault, Return, Goto, NewRequest
<1>23. ASSUME NEW S \in SUBSET Cid, NEW m \in {0, mark}, GarbageCollection(S, m) PROVE CopiesMeant'
  BY <1>23 DEF GarbageCollection, Fault
<1>24. ASSUME NEW n \in Node, Restart(n) PROVE CopiesMeant'
  BY <1>24 DEF Restart, Fault, Emptied
<1>25. CASE Tick
  BY <1>25 DEF Tick
<1>26. CASE UNCHANGED vars
  BY <1>26 DEF vars
<1> HIDE DEF Core, CopiesMeant, TypeOK
<1> QED
  BY <1>1, <1>2, <1>3, <1>4, <1>5, <1>6, <1>7, <1>8, <1>9, <1>10, <1>11,
     <1>12, <1>13, <1>14, <1>15, <1>16, <1>17, <1>18, <1>19, <1>20, <1>21,
     <1>22, <1>23, <1>24, <1>25, <1>26
  DEF Next

\* Whoever wrote last has stored a later timestamp or is going to.
LEMMA MarkedStep == Core /\ [Next]_vars => WritesMarked'
<1> SUFFICES ASSUME Core, [Next]_vars PROVE WritesMarked'
  OBVIOUS
<1> USE ChainedFastAssumption DEF Core, consistent, call, request, history,
        TypeOK, WritesMarked, NotFromFuture, WillMark, Writing, Null
<1>1. ASSUME NEW r \in Request, NEW C \in SUBSET Cid \ {{}}, NEW a \in AllowInvalid, GetMultiple(r, C, a) PROVE WritesMarked'
  BY <1>1 DEF GetMultiple, Goto
<1>2. ASSUME NEW r \in Request, NEW C \in SUBSET Cid \ {{}}, SetMultiple(r, C) PROVE WritesMarked'
  BY <1>2 DEF SetMultiple, OneMore, Goto, Checksum
<1>3. ASSUME NEW r \in Request, NEW C \in SUBSET Cid \ {{}}, DeleteMultiple(r, C) PROVE WritesMarked'
  BY <1>3 DEF DeleteMultiple, Withdraw, OneMore, Write, Goto, Overtaken
<1>4. ASSUME NEW r \in Request, NEW C \in SUBSET Cid \ {{}}, InvalidateMultiple(r, C) PROVE WritesMarked'
  BY <1>4 DEF InvalidateMultiple, Withdraw, OneMore, Write, Expired, Goto, Overtaken
<1>5. ASSUME NEW r \in Request, DeleteAll(r) PROVE WritesMarked'
  BY <1>5 DEF DeleteAll, Withdraw, OneMore, Write, Goto, Overtaken
<1>6. ASSUME NEW r \in Request, InvalidateAll(r) PROVE WritesMarked'
  BY <1>6 DEF InvalidateAll, Withdraw, OneMore, Write, Expired, Goto, Overtaken
<1>7. ASSUME NEW r \in Request, InvalidateTags(r) PROVE WritesMarked'
  BY <1>7 DEF InvalidateTags, Withdraw, OneMore, Write, Goto, Overtaken
<1>8. ASSUME NEW r \in Request, InvalidateTagsAgain(r) PROVE WritesMarked'
  BY <1>8 DEF InvalidateTagsAgain, Withdraw, OneMore, Write, Goto, Overtaken
<1>9. ASSUME NEW r \in Request, ReadFast(r) PROVE WritesMarked'
  <2>1. UNCHANGED <<wrote, top, orphaned, stamp>>
    BY <1>9 DEF ReadFast, Missed
  <2>2. /\ pc[r] = "fast"
        /\ \A s \in Request : s # r => pc'[s] = pc[s] /\ cids'[s] = cids[s]
    BY <1>9 DEF ReadFast, Missed, Return, Goto
  <2>3. ASSUME NEW s \in Request, NEW c \in Cid, WillMark(s, c)
        PROVE  WillMark(s, c)'
    BY <2>1, <2>2, <2>3
  <2> HIDE DEF WillMark
  <2> QED BY <2>1, <2>3
<1>10. ASSUME NEW r \in Request, ReadFastThrows(r) PROVE WritesMarked'
  <2>1. UNCHANGED <<wrote, top, orphaned, stamp>>
    BY <1>10 DEF ReadFastThrows, Missed
  <2>2. /\ pc[r] = "fast"
        /\ \A s \in Request : s # r => pc'[s] = pc[s] /\ cids'[s] = cids[s]
    BY <1>10 DEF ReadFastThrows, Missed, Return, Goto
  <2>3. ASSUME NEW s \in Request, NEW c \in Cid, WillMark(s, c)
        PROVE  WillMark(s, c)'
    BY <2>1, <2>2, <2>3
  <2> HIDE DEF WillMark
  <2> QED BY <2>1, <2>3
<1>11. ASSUME NEW r \in Request, ReadConsistent(r) PROVE WritesMarked'
  <2>1. UNCHANGED <<wrote, top, orphaned, stamp>>
    BY <1>11 DEF ReadConsistent
  <2>2. /\ pc[r] = "slow"
        /\ \A s \in Request : s # r => pc'[s] = pc[s] /\ cids'[s] = cids[s]
    BY <1>11 DEF ReadConsistent, Return, Goto
  <2>3. ASSUME NEW s \in Request, NEW c \in Cid, WillMark(s, c)
        PROVE  WillMark(s, c)'
    BY <2>1, <2>2, <2>3
  <2> HIDE DEF WillMark
  <2> QED BY <2>1, <2>3
<1>12. ASSUME NEW r \in Request, PrepareItems(r) PROVE WritesMarked'
  <2>1. UNCHANGED <<wrote, top, orphaned, stamp>>
    BY <1>12 DEF PrepareItems
  <2>2. /\ pc[r] = "judge"
        /\ \A s \in Request : s # r => pc'[s] = pc[s] /\ cids'[s] = cids[s]
    BY <1>12 DEF PrepareItems, Return, Goto
  <2>3. ASSUME NEW s \in Request, NEW c \in Cid, WillMark(s, c)
        PROVE  WillMark(s, c)'
    BY <2>1, <2>2, <2>3
  <2> HIDE DEF WillMark
  <2> QED BY <2>1, <2>3
<1>13. ASSUME NEW r \in Request, PutFast(r) PROVE WritesMarked'
  <2>1. UNCHANGED <<wrote, top, orphaned, stamp>>
    BY <1>13 DEF PutFast
  <2>2. pc[r] = "put" /\ (UNCHANGED <<pc, cids>> \/ Return(r))
    BY <1>13 DEF PutFast
  <2>3. ASSUME NEW s \in Request, NEW c \in Cid, WillMark(s, c)
        PROVE  WillMark(s, c)'
    BY <2>1, <2>2, <2>3 DEF Return, Goto
  <2> HIDE DEF WillMark
  <2> QED BY <2>1, <2>3
<1>14. ASSUME NEW r \in Request, Upsert(r) PROVE WritesMarked'
  BY <1>14 DEF Upsert, Write, Goto, Overtaken
<1>15. ASSUME NEW r \in Request, ReadClock(r) PROVE WritesMarked'
  BY <1>15 DEF ReadClock, Now, Goto
<1>16. ASSUME NEW r \in Request, Compare(r) PROVE WritesMarked'
  <2>1. UNCHANGED <<wrote, top, orphaned>>
    BY <1>16 DEF Compare
  <2>2. ASSUME NEW c \in Cid, NEW s \in Request, s # r, WillMark(s, c)
        PROVE  WillMark(s, c)'
    BY <1>16, <2>1, <2>2 DEF Compare, Marked, Return, Goto
  <2>3. ASSUME NEW c \in Cid, WillMark(r, c)
        PROVE  wrote[c] < top \/ WillMark(r, c)'
    <3>1. stamp[r] > wrote[c]
      BY <1>16, <2>3 DEF Compare
    <3>2. CASE Newer(r)
      BY <1>16, <2>1, <2>3, <3>1, <3>2 DEF Compare, Goto
    <3>3. CASE ~Newer(r)
      <4>1. stamp[r] <= top
        BY <3>3 DEF Newer, Known
      <4> QED BY <3>1, <4>1
    <3> QED BY <3>2, <3>3
  <2> HIDE DEF WillMark
  <2> QED BY <2>1, <2>2, <2>3
<1>17. ASSUME NEW r \in Request, StoreTimestamp(r) PROVE WritesMarked'
  <2>1. /\ UNCHANGED wrote
        /\ top' = IF stamp[r] > top THEN stamp[r] ELSE top
        /\ orphaned' = {c \in orphaned : wrote[c] >= stamp[r]}
    BY <1>17 DEF StoreTimestamp
  <2>2. top' >= top /\ top' >= stamp[r]
    BY <2>1
  <2>3. ASSUME NEW c \in Cid, NEW s \in Request, s # r, WillMark(s, c)
        PROVE  WillMark(s, c)'
    BY <1>17, <2>1, <2>3 DEF StoreTimestamp, Marked, Return, Goto
  <2>4. ASSUME NEW c \in Cid, WillMark(r, c)
        PROVE  wrote[c] < top'
    BY <1>17, <2>2, <2>4 DEF StoreTimestamp
  <2>5. ASSUME NEW c \in Cid, c \in orphaned
        PROVE  c \in orphaned' \/ wrote[c] < top'
    BY <2>1, <2>2, <2>5
  <2>6. ASSUME NEW c \in Cid, wrote[c] < top
        PROVE  wrote[c] < top'
    BY <2>2, <2>6, <2>1
  <2> HIDE DEF WillMark
  <2> QED BY <2>1, <2>3, <2>4, <2>5, <2>6
<1>18. ASSUME NEW r \in Request, RemoveBin(r) PROVE WritesMarked'
  BY <1>18 DEF RemoveBin, Fault, Goto, Overtaken
<1>19. ASSUME NEW r \in Request, RemoveFast(r) PROVE WritesMarked'
  BY <1>19 DEF RemoveFast, Emptied, Goto
<1>20. ASSUME NEW r \in Request, Reset(r) PROVE WritesMarked'
  BY <1>20 DEF Reset
<1>21. ASSUME NEW r \in Request, NextRequest(r) PROVE WritesMarked'
  BY <1>21 DEF NextRequest, NewRequest
<1>22. ASSUME NEW r \in Request, Die(r) PROVE WritesMarked'
  BY <1>22 DEF Die, Fault, Return, Goto, NewRequest
<1>23. ASSUME NEW S \in SUBSET Cid, NEW m \in {0, mark}, GarbageCollection(S, m) PROVE WritesMarked'
  BY <1>23 DEF GarbageCollection, Fault
<1>24. ASSUME NEW n \in Node, Restart(n) PROVE WritesMarked'
  BY <1>24 DEF Restart, Fault, Emptied
<1>25. CASE Tick
  BY <1>25 DEF Tick
<1>26. CASE UNCHANGED vars
  BY <1>26 DEF vars
<1> HIDE DEF Core, WritesMarked, TypeOK
<1> QED
  BY <1>1, <1>2, <1>3, <1>4, <1>5, <1>6, <1>7, <1>8, <1>9, <1>10, <1>11,
     <1>12, <1>13, <1>14, <1>15, <1>16, <1>17, <1>18, <1>19, <1>20, <1>21,
     <1>22, <1>23, <1>24, <1>25, <1>26
  DEF Next

\* A copy that is served is not older than the latest timestamp, which is
\* later than the last write, so it was put after that write.
LEMMA CoreFresh == Core => Fresh
<1> SUFFICES ASSUME Core, NEW r \in Request, NEW c \in Cid, Served(r, c),
                    Known(r) = top, c \notin suspect[NodeOf[r]], c \notin orphaned
             PROVE  fast[NodeOf[r]][c].data = meant[c]
  BY DEF Fresh
<1>1. \A s \in Request : ~WillMark(s, c)
  BY DEF Served, WillMark
<1>2. /\ NodeOf[r] \in Node
      /\ fast[NodeOf[r]][c] \in Copies
      /\ top \in Nat /\ wrote[c] \in Nat
  BY ChainedFastAssumption DEF Core, TypeOK
<1>3. /\ top # 0
      /\ fast[NodeOf[r]][c] # NoCopy
      /\ fast[NodeOf[r]][c].created >= top
  BY DEF Served, Hit
<1>4. wrote[c] < top
  BY <1>1, <1>2, <1>3 DEF Core, WritesMarked
<1>5. fast[NodeOf[r]][c].created > wrote[c]
  BY <1>2, <1>3, <1>4 DEF Copies
<1> QED BY <1>2, <1>3, <1>5 DEF Core, CopiesMeant

\* The invariant of the chained cache.
THEOREM Invariance == Spec => []Inv
<1>1. Core /\ [Next]_vars => Core'
  BY TypeStep, FutureStep, UpsertStep, RowsStep, ItemsStep, CopiesStep, MarkedStep
  DEF Core
<1>2. Core => Inv
  BY CoreFresh DEF Core, Inv
<1> QED BY InitCore, <1>1, <1>2, PTL DEF Spec

\* What the fast backend serves to a request that knows the latest timestamp is
\* what the consistent backend holds as valid, unless the copy was put there
\* while doubtful or the writer never stored a timestamp.
THEOREM Freshness == Spec => []Fresh
<1>1. Inv => Fresh
  BY DEF Inv
<1> QED BY Invariance, <1>1, PTL

=============================================================================
