------------------------ MODULE DatabaseQueueProofs ------------------------
(***************************************************************************)
(* Proofs about DatabaseQueue, for any number of consumers, queues, items, *)
(* lease times and delays.                                                 *)
(***************************************************************************)
EXTENDS DatabaseQueue, TLAPS

USE QueueAssumption

LEMMA NoClaimType == NoClaim \in [item : Item \cup {0}, until : Nat]
BY DEF NoClaim

LEMMA QueueInitial == QueueInit => QueueInv
<1> SUFFICES ASSUME QueueInit PROVE QueueInv
  OBVIOUS
<1>1. QueueTypeOK
  BY NoClaimType DEF QueueInit, QueueTypeOK
<1>2. ClaimOwnsRow /\ FreshIds /\ ExclusiveClaims
  BY DEF QueueInit, ClaimOwnsRow, FreshIds, ExclusiveClaims, Working, NoClaim, Item
<1> QED BY <1>1, <1>2 DEF QueueInv

\* createItem() uses an id no consumer knows.
LEMMA CreateKeeps == ASSUME QueueInv, NEW q \in Queue, CreateItem(q) PROVE QueueInv'
<1> USE DEF QueueInv, QueueTypeOK, CreateItem, Item
<1>1. QueueTypeOK'
  BY SMTT(30)
<1>2. FreshIds'
  <2>1. \A i \in Item : i >= nextId' => name'[i] = "absent"
    BY DEF FreshIds
  <2>2. ASSUME NEW c \in Consumer
        PROVE  picked'[c] < nextId' /\ claim'[c].item < nextId'
    <3>1. picked[c] \in Int /\ claim[c].item \in Int
      OBVIOUS
    <3>2. picked[c] < nextId /\ claim[c].item < nextId
      BY DEF FreshIds
    <3> QED BY <3>1, <3>2
  <2> QED BY <2>1, <2>2 DEF FreshIds
<1>3. ClaimOwnsRow'
  BY DEF FreshIds, ClaimOwnsRow, Working, Overdue
<1>4. ExclusiveClaims'
  BY DEF ExclusiveClaims, Working, Overdue
<1> QED BY <1>1, <1>2, <1>3, <1>4

LEMMA SelectKeeps ==
    ASSUME QueueInv, NEW c \in Consumer, NEW q \in Queue, ClaimSelect(c, q)
    PROVE  QueueInv'
<1>1. PICK i \in Item : /\ name[i] = q
                        /\ picked' = [picked EXCEPT ![c] = i]
  BY DEF ClaimSelect, Claimable
<1>2. UNCHANGED <<now, nextId, name, created, expire, claim, disturbed>>
  BY DEF ClaimSelect, table
<1>3. QueueTypeOK'
  BY <1>1, <1>2 DEF QueueInv, QueueTypeOK
<1>4. i < nextId
  BY <1>1 DEF QueueInv, QueueTypeOK, FreshIds, Item
<1>5. FreshIds'
  BY <1>1, <1>2, <1>4 DEF QueueInv, QueueTypeOK, FreshIds
<1>6. ClaimOwnsRow' /\ ExclusiveClaims'
  BY <1>2 DEF QueueInv, ClaimOwnsRow, ExclusiveClaims, Working, Overdue
<1> QED BY <1>3, <1>5, <1>6 DEF QueueInv

\* The conditional UPDATE is what keeps two consumers apart.
LEMMA UpdateKeeps ==
    ASSUME QueueInv, NEW c \in Consumer, NEW l \in LeaseTimes, ClaimUpdate(c, l)
    PROVE  QueueInv'
<1>1. PICK i \in Item : i = picked[c]
  BY DEF QueueInv, QueueTypeOK, ClaimUpdate
<1>2. /\ picked' = [picked EXCEPT ![c] = 0]
      /\ UNCHANGED <<now, nextId, name, created, disturbed>>
  BY DEF ClaimUpdate
<1>3. CASE /\ Unclaimed(i)
           /\ expire' = [expire EXCEPT ![i] = now + l]
           /\ claim' = [claim EXCEPT ![c] = [item |-> i, until |-> now + l]]
  <2>1. QueueTypeOK'
    BY <1>2, <1>3 DEF QueueInv, QueueTypeOK
  <2>2. i < nextId
    BY <1>1 DEF QueueInv, QueueTypeOK, FreshIds
  <2>3. FreshIds'
    BY <1>2, <1>3, <2>2 DEF QueueInv, QueueTypeOK, FreshIds, Item
  <2>4. ASSUME NEW d \in Consumer, d # c, Working(d), ~Overdue(d), claim[d].item = i
        PROVE  i \in disturbed
    <3>1. claim[d].until # 0 /\ expire[i] = 0 /\ name[i] # "absent"
      BY <1>3, <2>4 DEF Unclaimed, Present, Overdue, QueueInv, QueueTypeOK
    <3> QED BY <2>4, <3>1 DEF QueueInv, ClaimOwnsRow
  <2>5. ClaimOwnsRow'
    <3> SUFFICES ASSUME NEW d \in Consumer, Working(d)', ~Overdue(d)',
                        claim'[d].item \notin disturbed
                 PROVE  \/ name[claim'[d].item] = "absent"
                        \/ expire'[claim'[d].item] = claim'[d].until
      BY <1>2 DEF ClaimOwnsRow
    <3>1. CASE d = c
      BY <1>3, <3>1 DEF QueueInv, QueueTypeOK
    <3>2. CASE d # c
      <4>1. claim'[d] = claim[d]
        BY <1>3, <3>2 DEF QueueInv, QueueTypeOK
      <4>2. Working(d) /\ ~Overdue(d)
        BY <1>2, <4>1 DEF Working, Overdue
      <4>3. claim[d].item # i
        BY <2>4, <3>2, <4>1, <4>2
      <4>4. expire'[claim[d].item] = expire[claim[d].item]
        BY <1>3, <4>2, <4>3 DEF QueueInv, QueueTypeOK, Working
      <4> QED BY <4>1, <4>2, <4>4 DEF QueueInv, ClaimOwnsRow
    <3> QED BY <3>1, <3>2
  <2>6. ExclusiveClaims'
    <3> SUFFICES ASSUME NEW d \in Consumer, NEW e \in Consumer, d # e,
                        Working(d)', ~Overdue(d)', Working(e)', ~Overdue(e)',
                        claim'[d].item = claim'[e].item
                 PROVE  claim'[d].item \in disturbed
      BY <1>2 DEF ExclusiveClaims
    <3>1. \A f \in Consumer : f # c => claim'[f] = claim[f]
      BY <1>3 DEF QueueInv, QueueTypeOK
    <3>2. claim'[c].item = i
      BY <1>3 DEF QueueInv, QueueTypeOK
    <3>3. CASE d = c
      BY <1>2, <2>4, <3>1, <3>2, <3>3 DEF Working, Overdue
    <3>4. CASE e = c
      BY <1>2, <2>4, <3>1, <3>2, <3>4 DEF Working, Overdue
    <3>5. CASE d # c /\ e # c
      BY <1>2, <3>1, <3>5 DEF QueueInv, ExclusiveClaims, Working, Overdue
    <3> QED BY <3>3, <3>4, <3>5
  <2> QED BY <2>1, <2>3, <2>5, <2>6 DEF QueueInv
<1>4. CASE UNCHANGED <<expire, claim>>
  <2>1. QueueTypeOK'
    BY <1>2, <1>4 DEF QueueInv, QueueTypeOK
  <2>2. FreshIds'
    BY <1>2, <1>4 DEF QueueInv, QueueTypeOK, FreshIds
  <2>3. ClaimOwnsRow' /\ ExclusiveClaims'
    BY <1>2, <1>4 DEF QueueInv, ClaimOwnsRow, ExclusiveClaims, Working, Overdue
  <2> QED BY <2>1, <2>2, <2>3 DEF QueueInv
<1> QED BY <1>1, <1>3, <1>4 DEF ClaimUpdate

\* Claims that only end, while time passes, stay exclusive.
LEMMA ClaimsEnd ==
    ASSUME QueueInv, QueueTypeOK', now' >= now, disturbed \subseteq disturbed',
           \A c \in Consumer : claim'[c] = claim[c] \/ claim'[c] = NoClaim
    PROVE  ExclusiveClaims'
<1>1. \A c \in Consumer : Working(c)' => claim'[c] = claim[c]
  BY DEF Working, NoClaim
<1>2. \A c \in Consumer : Working(c)' /\ ~Overdue(c)' => Working(c) /\ ~Overdue(c)
  BY <1>1 DEF Working, Overdue, QueueInv, QueueTypeOK
<1> QED BY <1>1, <1>2 DEF QueueInv, ExclusiveClaims

\* ... and own their rows, if no row other than a deleted one is rewritten.
LEMMA RowsStay ==
    ASSUME QueueInv, QueueTypeOK', now' >= now, disturbed \subseteq disturbed',
           \A c \in Consumer : claim'[c] = claim[c] \/ claim'[c] = NoClaim,
           \A c \in Consumer : Working(c)' /\ ~Overdue(c)' =>
               LET i == claim[c].item
               IN  \/ name'[i] = "absent"
                   \/ name'[i] = name[i] /\ expire'[i] = expire[i]
                   \/ i \in disturbed'
    PROVE  ClaimOwnsRow'
<1> SUFFICES ASSUME NEW c \in Consumer, Working(c)', ~Overdue(c)',
                    claim'[c].item \notin disturbed'
             PROVE  \/ name'[claim'[c].item] = "absent"
                    \/ expire'[claim'[c].item] = claim'[c].until
  BY DEF ClaimOwnsRow
<1>1. claim'[c] = claim[c]
  BY DEF Working, NoClaim
<1>2. Working(c) /\ ~Overdue(c) /\ claim[c].item \notin disturbed
  BY <1>1 DEF Working, Overdue, QueueInv, QueueTypeOK
<1>3. \/ name[claim[c].item] = "absent"
      \/ expire[claim[c].item] = claim[c].until
  BY <1>2 DEF QueueInv, ClaimOwnsRow
<1> QED BY <1>1, <1>3

\* releaseItem() and delayItem(): within its lease a consumer writes its own
\* row; after it the item counts as disturbed.
LEMMA SetExpireKeeps ==
    ASSUME QueueInv, NEW c \in Consumer, NEW e \in Nat, SetExpire(c, e)
    PROVE  QueueInv'
<1>1. PICK i \in Item : i = claim[c].item
  BY DEF SetExpire, Working, QueueInv, QueueTypeOK
<1>2. /\ expire' = expire \/ expire' = [expire EXCEPT ![i] = e]
      /\ claim' = [claim EXCEPT ![c] = NoClaim]
      /\ disturbed' = IF Overdue(c) THEN disturbed \cup {i} ELSE disturbed
      /\ Working(c)
      /\ UNCHANGED <<now, nextId, name, created, picked>>
  BY <1>1 DEF SetExpire
<1>3. QueueTypeOK'
  <2>1. expire' \in [Item -> Nat]
    BY <1>2 DEF QueueInv, QueueTypeOK
  <2>2. claim' \in [Consumer -> [item : Item \cup {0}, until : Nat]]
    BY <1>2, NoClaimType DEF QueueInv, QueueTypeOK
  <2>3. disturbed' \subseteq Item
    BY <1>2 DEF QueueInv, QueueTypeOK
  <2> QED BY <1>2, <2>1, <2>2, <2>3 DEF QueueInv, QueueTypeOK
<1>4. \A d \in Consumer : claim'[d] = claim[d] \/ claim'[d] = NoClaim
  BY <1>2 DEF QueueInv, QueueTypeOK
<1>5. now' >= now /\ disturbed \subseteq disturbed'
  BY <1>2 DEF QueueInv, QueueTypeOK
<1>6. ASSUME NEW d \in Consumer, Working(d)', ~Overdue(d)', claim[d].item = i
      PROVE  i \in disturbed'
  <2>1. d # c
    BY <1>2, <1>6 DEF Working, NoClaim, QueueInv, QueueTypeOK
  <2>2. claim'[d] = claim[d]
    BY <1>2, <2>1 DEF QueueInv, QueueTypeOK
  <2>3. Working(d) /\ ~Overdue(d)
    BY <1>2, <1>6, <2>2 DEF Working, Overdue
  <2>4. CASE Overdue(c)
    BY <1>2, <2>4
  <2>5. CASE ~Overdue(c)
    BY <1>1, <1>2, <1>6, <2>1, <2>3, <2>5 DEF QueueInv, ExclusiveClaims
  <2> QED BY <2>4, <2>5
<1>7. \A d \in Consumer : Working(d)' /\ ~Overdue(d)' =>
          \/ name'[claim[d].item] = name[claim[d].item]
             /\ expire'[claim[d].item] = expire[claim[d].item]
          \/ claim[d].item \in disturbed'
  <2> SUFFICES ASSUME NEW d \in Consumer, Working(d)', ~Overdue(d)',
                      claim[d].item # i
               PROVE  expire'[claim[d].item] = expire[claim[d].item]
    BY <1>2, <1>6
  <2>1. claim[d].item \in Item
    BY <1>4 DEF Working, NoClaim, QueueInv, QueueTypeOK
  <2> QED BY <1>2, <2>1 DEF QueueInv, QueueTypeOK
<1>8. ClaimOwnsRow'
  BY <1>3, <1>4, <1>5, <1>7, RowsStay
<1>9. ExclusiveClaims'
  BY <1>3, <1>4, <1>5, ClaimsEnd
<1>10. FreshIds'
  BY <1>2, <1>4 DEF QueueInv, QueueTypeOK, FreshIds, NoClaim
<1> QED BY <1>3, <1>8, <1>9, <1>10 DEF QueueInv

LEMMA DeleteKeeps == ASSUME QueueInv, NEW c \in Consumer, DeleteItem(c) PROVE QueueInv'
<1>1. PICK i \in Item : i = claim[c].item
  BY DEF DeleteItem, Working, QueueInv, QueueTypeOK
<1>2. /\ name' = [name EXCEPT ![i] = "absent"]
      /\ expire' = [expire EXCEPT ![i] = 0]
      /\ claim' = [claim EXCEPT ![c] = NoClaim]
      /\ UNCHANGED <<now, nextId, created, picked, disturbed>>
  BY <1>1 DEF DeleteItem
<1>3. QueueTypeOK'
  BY <1>2, NoClaimType DEF QueueInv, QueueTypeOK
<1>4. \A d \in Consumer : claim'[d] = claim[d] \/ claim'[d] = NoClaim
  BY <1>2 DEF QueueInv, QueueTypeOK
<1>5. now' >= now /\ disturbed \subseteq disturbed'
  BY <1>2 DEF QueueInv, QueueTypeOK
<1>6. \A j \in Item : \/ name'[j] = "absent"
                      \/ name'[j] = name[j] /\ expire'[j] = expire[j]
  BY <1>2 DEF QueueInv, QueueTypeOK
<1>7. \A d \in Consumer : Working(d)' => claim[d].item \in Item
  BY <1>4 DEF Working, NoClaim, QueueInv, QueueTypeOK
<1>8. ClaimOwnsRow'
  BY <1>3, <1>4, <1>5, <1>6, <1>7, RowsStay
<1>9. ExclusiveClaims'
  BY <1>3, <1>4, <1>5, ClaimsEnd
<1>10. FreshIds'
  BY <1>2, <1>4 DEF QueueInv, QueueTypeOK, FreshIds, NoClaim
<1> QED BY <1>3, <1>8, <1>9, <1>10 DEF QueueInv

LEMMA AbandonKeeps == ASSUME QueueInv, NEW c \in Consumer, Abandon(c) PROVE QueueInv'
<1>2. /\ picked' = [picked EXCEPT ![c] = 0]
      /\ claim' = [claim EXCEPT ![c] = NoClaim]
      /\ UNCHANGED <<now, nextId, name, created, expire, disturbed>>
  BY DEF Abandon, table
<1>3. QueueTypeOK'
  BY <1>2, NoClaimType DEF QueueInv, QueueTypeOK
<1>4. \A d \in Consumer : claim'[d] = claim[d] \/ claim'[d] = NoClaim
  BY <1>2 DEF QueueInv, QueueTypeOK
<1>5. now' >= now /\ disturbed \subseteq disturbed'
  BY <1>2 DEF QueueInv, QueueTypeOK
<1>8. ClaimOwnsRow'
  BY <1>2, <1>3, <1>4, <1>5, RowsStay
<1>9. ExclusiveClaims'
  BY <1>3, <1>4, <1>5, ClaimsEnd
<1>10. FreshIds'
  BY <1>2, <1>4 DEF QueueInv, QueueTypeOK, FreshIds, NoClaim
<1> QED BY <1>3, <1>8, <1>9, <1>10 DEF QueueInv

LEMMA DeleteQueueKeeps == ASSUME QueueInv, NEW q \in Queue, DeleteQueue(q) PROVE QueueInv'
<1>2. UNCHANGED <<now, nextId, created, picked, claim, disturbed>>
  BY DEF DeleteQueue
<1>3. QueueTypeOK'
  BY DEF DeleteQueue, QueueInv, QueueTypeOK
<1>5. now' >= now
  BY <1>2 DEF QueueInv, QueueTypeOK
<1>6. \A j \in Item : \/ name'[j] = "absent"
                      \/ name'[j] = name[j] /\ expire'[j] = expire[j]
  BY DEF DeleteQueue, QueueInv, QueueTypeOK
<1>7. \A d \in Consumer : Working(d)' => claim[d].item \in Item
  BY <1>2 DEF Working, QueueInv, QueueTypeOK
<1>8. ClaimOwnsRow'
  BY <1>2, <1>3, <1>5, <1>6, <1>7, RowsStay
<1>9. ExclusiveClaims'
  BY <1>2, <1>3, <1>5, ClaimsEnd
<1>10. FreshIds'
  BY <1>2, <1>6 DEF QueueInv, QueueTypeOK, FreshIds
<1> QED BY <1>3, <1>8, <1>9, <1>10 DEF QueueInv

\* garbageCollection() with a request time that is not in the future leaves
\* every claim that is within its lease alone.
LEMMA CollectKeeps ==
    ASSUME QueueInv, NEW t \in 1..now, GarbageCollection(t)
    PROVE  QueueInv'
<1>2. UNCHANGED <<now, nextId, created, picked, claim, disturbed>>
  BY DEF GarbageCollection
<1>3. QueueTypeOK'
  BY DEF GarbageCollection, QueueInv, QueueTypeOK
<1>5. now' >= now
  BY <1>2 DEF QueueInv, QueueTypeOK
<1>6. \A j \in Item : \/ name'[j] = "absent"
                      \/ name'[j] = name[j] /\ expire'[j] = expire[j]
                      \/ name'[j] = name[j] /\ expire[j] < now /\ expire[j] # 0
  BY DEF GarbageCollection, Expired, QueueInv, QueueTypeOK
<1>8. ClaimOwnsRow'
  <2> SUFFICES ASSUME NEW c \in Consumer, Working(c), ~Overdue(c),
                      claim[c].item \notin disturbed
               PROVE  \/ name'[claim[c].item] = "absent"
                      \/ expire'[claim[c].item] = claim[c].until
    BY <1>2 DEF ClaimOwnsRow, Working, Overdue
  <2>1. \/ name[claim[c].item] = "absent"
        \/ expire[claim[c].item] = claim[c].until
    BY DEF QueueInv, ClaimOwnsRow
  <2>2. claim[c].item \in Item /\ claim[c].until >= now
    BY DEF Working, Overdue, QueueInv, QueueTypeOK
  <2> QED BY <1>6, <2>1, <2>2 DEF QueueInv, QueueTypeOK
<1>9. ExclusiveClaims'
  BY <1>2, <1>3, <1>5, ClaimsEnd
<1>10. FreshIds'
  BY <1>2, <1>6 DEF QueueInv, QueueTypeOK, FreshIds
<1> QED BY <1>3, <1>8, <1>9, <1>10 DEF QueueInv

LEMMA TickKeeps == ASSUME QueueInv, QueueTick PROVE QueueInv'
<1>2. UNCHANGED <<nextId, name, created, expire, picked, claim, disturbed>>
  BY DEF QueueTick, table
<1>3. now' \in Nat \ {0} /\ now' >= now
  BY DEF QueueTick, QueueInv, QueueTypeOK
<1>4. QueueTypeOK'
  BY <1>2, <1>3 DEF QueueInv, QueueTypeOK
<1>8. ClaimOwnsRow'
  BY <1>2, <1>3, <1>4, RowsStay
<1>9. ExclusiveClaims'
  BY <1>2, <1>3, <1>4, ClaimsEnd
<1>10. FreshIds'
  BY <1>2 DEF QueueInv, FreshIds
<1> QED BY <1>4, <1>8, <1>9, <1>10 DEF QueueInv

\* One step of the queue, or a stutter.
LEMMA QueueStep == QueueInv /\ [QueueNext]_queueVars => QueueInv'
<1> SUFFICES ASSUME QueueInv, [QueueNext]_queueVars PROVE QueueInv'
  OBVIOUS
<1>1. ASSUME NEW c \in Consumer, ReleaseItem(c) PROVE QueueInv'
  BY <1>1, SetExpireKeeps DEF ReleaseItem
<1>2. ASSUME NEW c \in Consumer, NEW d \in Delays, DelayItem(c, d) PROVE QueueInv'
  <2>1. now + d \in Nat
    BY DEF QueueInv, QueueTypeOK
  <2> QED BY <1>2, <2>1, SetExpireKeeps DEF DelayItem
<1>3. CASE UNCHANGED queueVars
  <2>1. QueueTypeOK'
    BY <1>3 DEF queueVars, QueueInv, QueueTypeOK
  <2>2. FreshIds' /\ ClaimOwnsRow' /\ ExclusiveClaims'
    BY <1>3 DEF queueVars, QueueInv, FreshIds, ClaimOwnsRow, ExclusiveClaims,
                Working, Overdue
  <2> QED BY <2>1, <2>2 DEF QueueInv
<1> QED
  BY <1>1, <1>2, <1>3, CreateKeeps, SelectKeeps, UpdateKeeps, DeleteKeeps,
     AbandonKeeps, DeleteQueueKeeps, CollectKeeps, TickKeeps
  DEF QueueNext

\* The inductive invariant of the queue.
THEOREM QueueInvariance == QueueSpec => []QueueInv
BY QueueInitial, QueueStep, PTL DEF QueueSpec

\* claimItem() and garbageCollection() never hand an item to two consumers
\* within their leases.
THEOREM ExclusiveClaiming == QueueSpec => []ExclusiveClaims
<1>1. QueueInv => ExclusiveClaims
  BY DEF QueueInv
<1> QED BY <1>1, QueueInvariance, PTL

=============================================================================
