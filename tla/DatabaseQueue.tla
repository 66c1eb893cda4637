--------------------------- MODULE DatabaseQueue ---------------------------
(***************************************************************************)
(* The database queue of Drupal core (DatabaseQueue): one table for all    *)
(* queues, a row per item.  `expire` is 0 while the item may be claimed    *)
(* and otherwise the time at which the claim, or the delay, runs out.      *)
(*                                                                         *)
(* Consumers are whatever code calls claimItem(): cron, drush, a batch.    *)
(* They share nothing but the table, may be slower than their lease, and   *)
(* may stop at any time without a word.  Each SQL statement is one step;   *)
(* the two of garbageCollection() touch different queues as a rule (those  *)
(* of batches, each worked by one request only) and are taken as one.      *)
(* A table that does not exist yet reads as an empty one and is created by *)
(* the first createItem(), so it is not distinguished from an empty one.   *)
(***************************************************************************)
EXTENDS Integers

CONSTANTS
    Consumer,      \* the requests that claim items
    Queue,         \* queue names
    BatchQueue,    \* those named drupal_batch:...
    LeaseTimes,    \* lease times passed to claimItem()
    Delays,        \* delays passed to delayItem()
    BatchAge,      \* age at which items of failed batches are deleted
    MaxItems,      \* bound: items ever created
    MaxTime        \* bound: the clock stops here

ASSUME QueueAssumption ==
    /\ "absent" \notin Queue
    /\ BatchQueue \subseteq Queue
    /\ LeaseTimes \subseteq Nat
    /\ Delays \subseteq Nat
    /\ BatchAge \in Nat
    /\ MaxItems \in Nat
    /\ MaxTime \in Nat

VARIABLES
    now,         \* getCurrentTime()
    nextId,      \* the next value of the serial column item_id
    name,        \* name[i]: queue of row i, or "absent"
    created,     \* created[i]
    expire,      \* expire[i]
    picked,      \* picked[c]: item a claimItem() has selected, 0 if none
    claim,       \* claim[c]: the item c works on and when its lease ends
    disturbed    \* history: items a consumer wrote after its lease was over

table == <<nextId, name, created, expire>>
queueVars == <<now, nextId, name, created, expire, picked, claim, disturbed>>

Item == 1..MaxItems

NoClaim == [item |-> 0, until |-> 0]

QueueTypeOK ==
    /\ now \in Nat \ {0}
    /\ nextId \in Nat \ {0}
    /\ name \in [Item -> Queue \cup {"absent"}]
    /\ created \in [Item -> Nat]
    /\ expire \in [Item -> Nat]
    /\ picked \in [Consumer -> Item \cup {0}]
    /\ claim \in [Consumer -> [item : Item \cup {0}, until : Nat]]
    /\ disturbed \subseteq Item

QueueInit ==
    /\ now = 1
    /\ nextId = 1
    /\ name = [i \in Item |-> "absent"]
    /\ created = [i \in Item |-> 0]
    /\ expire = [i \in Item |-> 0]
    /\ picked = [c \in Consumer |-> 0]
    /\ claim = [c \in Consumer |-> NoClaim]
    /\ disturbed = {}

-----------------------------------------------------------------------------
Present(i) == name[i] # "absent"

Working(c) == claim[c].item # 0

\* The lease of c on its item has run out.
Overdue(c) == claim[c].until < now

CreateItem(q) ==
    /\ nextId <= MaxItems
    /\ name' = [name EXCEPT ![nextId] = q]
    /\ created' = [created EXCEPT ![nextId] = now]
    /\ nextId' = nextId + 1
    /\ UNCHANGED <<now, expire, picked, claim, disturbed>>

\* SELECT ... WHERE expire = 0 AND name ORDER BY created, item_id.
Claimable(q) == {i \in Item : name[i] = q /\ expire[i] = 0}

Before(i, j) == created[i] < created[j] \/ (created[i] = created[j] /\ i <= j)

ClaimSelect(c, q) ==
    /\ ~Working(c)
    /\ picked[c] = 0
    /\ \E i \in Claimable(q) :
          /\ \A j \in Claimable(q) : Before(i, j)
          /\ picked' = [picked EXCEPT ![c] = i]
    /\ UNCHANGED <<now, table, claim, disturbed>>

\* Variant: the UPDATE without its condition on expire.
UnclaimedIgnored(i) == Present(i)

\* The WHERE clause of the UPDATE that claims the selected item.
Unclaimed(i) == Present(i) /\ expire[i] = 0

\* UPDATE ... WHERE item_id AND expire = 0: a claim, or another round.
ClaimUpdate(c, lease) ==
    LET i == picked[c]
    IN  /\ i # 0
        /\ picked' = [picked EXCEPT ![c] = 0]
        /\ \/ /\ Unclaimed(i)
              /\ expire' = [expire EXCEPT ![i] = now + lease]
              /\ claim' = [claim EXCEPT ![c] = [item |-> i, until |-> now + lease]]
           \/ /\ ~Unclaimed(i)
              /\ UNCHANGED <<expire, claim>>
        /\ UNCHANGED <<now, nextId, name, created, disturbed>>

\* releaseItem() and delayItem() write the row whoever has it by now; if the
\* row is gone the UPDATE changes nothing.
SetExpire(c, e) ==
    LET i == claim[c].item
    IN  /\ Working(c)
        /\ expire' = IF Present(i) THEN [expire EXCEPT ![i] = e] ELSE expire
        /\ claim' = [claim EXCEPT ![c] = NoClaim]
        /\ disturbed' = IF Overdue(c) THEN disturbed \cup {i} ELSE disturbed
        /\ UNCHANGED <<now, nextId, name, created, picked>>

ReleaseItem(c) == SetExpire(c, 0)

DelayItem(c, delay) == SetExpire(c, now + delay)

DeleteItem(c) ==
    LET i == claim[c].item
    IN  /\ Working(c)
        /\ name' = [name EXCEPT ![i] = "absent"]
        /\ expire' = [expire EXCEPT ![i] = 0]
        /\ claim' = [claim EXCEPT ![c] = NoClaim]
        /\ UNCHANGED <<now, nextId, created, picked, disturbed>>

\* The consumer stops without touching the item: an exception, or its death.
Abandon(c) ==
    /\ picked' = [picked EXCEPT ![c] = 0]
    /\ claim' = [claim EXCEPT ![c] = NoClaim]
    /\ UNCHANGED <<now, table, disturbed>>

DeleteQueue(q) ==
    /\ name' = [i \in Item |-> IF name[i] = q THEN "absent" ELSE name[i]]
    /\ expire' = [i \in Item |-> IF name[i] = q THEN 0 ELSE expire[i]]
    /\ UNCHANGED <<now, nextId, created, picked, claim, disturbed>>

\* Variant: a claim is reset in its last second.
ExpiredEarly(e, requestTime) == e # 0 /\ e <= requestTime

\* The WHERE clause of the UPDATE that resets items.
Expired(e, requestTime) == e # 0 /\ e < requestTime

\* garbageCollection(), in a request that started at requestTime: items of
\* old batches go, expired claims and delays are reset.
GarbageCollection(requestTime) ==
    LET old == {i \in Item : /\ name[i] \in BatchQueue
                             /\ created[i] < requestTime - BatchAge}
    IN  /\ name' = [i \in Item |-> IF i \in old THEN "absent" ELSE name[i]]
        /\ expire' = [i \in Item |->
               IF i \in old \/ Expired(expire[i], requestTime)
               THEN 0 ELSE expire[i]]
        /\ UNCHANGED <<now, nextId, created, picked, claim, disturbed>>

QueueTick ==
    /\ now < MaxTime
    /\ now' = now + 1
    /\ UNCHANGED <<table, picked, claim, disturbed>>

QueueNext ==
    \/ \E q \in Queue : CreateItem(q) \/ DeleteQueue(q)
    \/ \E c \in Consumer, q \in Queue : ClaimSelect(c, q)
    \/ \E c \in Consumer, l \in LeaseTimes : ClaimUpdate(c, l)
    \/ \E c \in Consumer : ReleaseItem(c) \/ DeleteItem(c) \/ Abandon(c)
    \/ \E c \in Consumer, d \in Delays : DelayItem(c, d)
    \/ \E t \in 1..now : GarbageCollection(t)
    \/ QueueTick

QueueSpec == QueueInit /\ [][QueueNext]_queueVars

-----------------------------------------------------------------------------
\* Two consumers work on the same item within their leases only if a third
\* wrote the item after its own lease was over: claimItem() and
\* garbageCollection() by themselves never hand out an item twice, however
\* old the request time of the collector is.
ExclusiveClaims ==
    \A c, d \in Consumer :
        /\ Working(c) /\ ~Overdue(c)
        /\ Working(d) /\ ~Overdue(d)
        /\ claim[c].item = claim[d].item
        => c = d \/ claim[c].item \in disturbed

\* Why: the row of an item claimed within its lease carries that lease.
ClaimOwnsRow ==
    \A c \in Consumer :
        Working(c) /\ ~Overdue(c) /\ claim[c].item \notin disturbed
            => \/ name[claim[c].item] = "absent"
               \/ expire[claim[c].item] = claim[c].until

\* A row that is gone stays gone: ids are not used twice, so a consumer that
\* selected an item before it was deleted cannot claim a later one instead.
FreshIds ==
    /\ \A i \in Item : i >= nextId => name[i] = "absent"
    /\ \A c \in Consumer : picked[c] < nextId /\ claim[c].item < nextId

QueueInv == QueueTypeOK /\ ClaimOwnsRow /\ FreshIds /\ ExclusiveClaims

=============================================================================
