---------------------------- MODULE ChainedFast ----------------------------
(***************************************************************************)
(* One bin of the chained fast cache (ChainedFastBackend): a consistent    *)
(* backend in the database, shared by all requests, behind a fast one      *)
(* (APCu) that the requests of a node share.  An item of the fast backend  *)
(* is used only if it is not older than the last write timestamp, which    *)
(* is itself an item of the bin in the consistent backend and which a      *)
(* request reads once.                                                     *)
(*                                                                         *)
(* Each access to one of the two backends is one step.  Whether an item is *)
(* valid is judged by the request that reads it: by its REQUEST_TIME and   *)
(* by the invalidation counter of the tag it has cached.                   *)
(*                                                                         *)
(* Time is in milliseconds, and all nodes have the same clock; how many of *)
(* them make a second is left open.  Items are permanent until they are    *)
(* invalidated; all tagged items have the same tag, and no call is made    *)
(* inside a database transaction.                                          *)
(***************************************************************************)
EXTENDS Integers

CONSTANTS
    Request,       \* PHP processes, each serving one request after another
    Node,          \* what has a fast backend of its own: web node, CLI
    NodeOf,        \* the node of a process
    Cid,           \* cache ids
    Tagged,        \* those of items with the tag
    AllowInvalid,  \* values of $allow_invalid passed to getMultiple()
    MaxWrites,     \* bound: calls that set, delete or invalidate
    MaxFaults,     \* bound: deaths, removals, restarts and collections
    MaxTime        \* bound: the clock stops here

ASSUME ChainedFastAssumption ==
    /\ NodeOf \in [Request -> Node]
    /\ Tagged \subseteq Cid
    /\ AllowInvalid \subseteq BOOLEAN
    /\ MaxWrites \in Nat
    /\ MaxFaults \in Nat
    /\ MaxTime \in Nat

VARIABLES
    clock,       \* microtime()
    second,      \* the same in seconds
    row,         \* row[c]: item c in the consistent backend
    mark,        \* last write timestamp in the consistent backend, 0 if none
    markExpire,  \* the `expire` of its row
    count,       \* invalidations of the tag, in the table cachetags
    fast,        \* fast[n][c]: item c in the fast backend of node n
    pc,          \* pc[r]: what request r does next
    cids,        \* cids[r]: what its call still has to read, or has written
    allow,       \* allow[r]: $allow_invalid of its call
    items,       \* items[r][c]: what it has read, or is going to set
    stamp,       \* stamp[r]: $now in markAsOutdated()
    lastWrite,   \* lastWrite[r]: its $lastWriteTimestamp
    requestTime, \* requestTime[r]: its REQUEST_TIME
    tagCache,    \* tagCache[r]: its $tagCache
    invalidated, \* invalidated[r]: is the tag in its $invalidatedTags
    writes,      \* calls that set, delete or invalidate so far
    faults,      \* deaths, removals, restarts and collections so far
    meant,       \* history: the data a new request is to get, 0 if none
    wrote,       \* history: when that was last set or withdrawn
    top,         \* history: the latest timestamp ever stored
    doubtful,    \* history: items of r not current when, or since, read
    suspect,     \* history: items of n put there while doubtful
    orphaned     \* history: items whose writer never stored a timestamp

consistent == <<row, mark, markExpire, count>>
call == <<pc, cids, allow, items, stamp>>
request == <<lastWrite, requestTime, tagCache, invalidated>>
history == <<meant, wrote, top, doubtful, suspect, orphaned>>
vars == <<clock, second, consistent, fast, call, request, writes, faults, history>>

PERMANENT == -1

NoItem == [data |-> 0, expire |-> PERMANENT, checksum |-> 0]

NoCopy == [data |-> 0, expire |-> PERMANENT, created |-> 0]

Null == -1

Items == [data : Nat, expire : Nat \cup {PERMANENT}, checksum : Nat]

Copies == [data : Nat, expire : Nat \cup {PERMANENT}, created : Nat]

TypeOK ==
    /\ clock \in Nat \ {0}
    /\ second \in Nat \ {0}
    /\ row \in [Cid -> Items]
    /\ mark \in Nat
    /\ markExpire \in Nat \cup {PERMANENT}
    /\ count \in Nat
    /\ fast \in [Node -> [Cid -> Copies]]
    /\ pc \in [Request -> {"idle", "fast", "slow", "judge", "upsert", "now",
                           "compare", "mark", "put", "remove"}]
    /\ cids \in [Request -> SUBSET Cid]
    /\ allow \in [Request -> BOOLEAN]
    /\ items \in [Request -> [Cid -> Items]]
    /\ stamp \in [Request -> Nat]
    /\ lastWrite \in [Request -> Nat \cup {Null}]
    /\ requestTime \in [Request -> Nat \ {0}]
    /\ tagCache \in [Request -> Nat \cup {Null}]
    /\ invalidated \in [Request -> BOOLEAN]
    /\ writes \in Nat
    /\ faults \in Nat
    /\ meant \in [Cid -> Nat]
    /\ wrote \in [Cid -> Nat]
    /\ top \in Nat
    /\ doubtful \in [Request -> SUBSET Cid]
    /\ suspect \in [Node -> SUBSET Cid]
    /\ orphaned \in SUBSET Cid

Init ==
    /\ clock = 1
    /\ second = 1
    /\ row = [c \in Cid |-> NoItem]
    /\ mark = 0
    /\ markExpire = PERMANENT
    /\ count = 0
    /\ fast = [n \in Node |-> [c \in Cid |-> NoCopy]]
    /\ pc = [r \in Request |-> "idle"]
    /\ cids = [r \in Request |-> {}]
    /\ allow = [r \in Request |-> FALSE]
    /\ items = [r \in Request |-> [c \in Cid |-> NoItem]]
    /\ stamp = [r \in Request |-> 0]
    /\ lastWrite = [r \in Request |-> Null]
    /\ requestTime = [r \in Request |-> 1]
    /\ tagCache = [r \in Request |-> Null]
    /\ invalidated = [r \in Request |-> FALSE]
    /\ writes = 0
    /\ faults = 0
    /\ meant = [c \in Cid |-> 0]
    /\ wrote = [c \in Cid |-> 0]
    /\ top = 0
    /\ doubtful = [r \in Request |-> {}]
    /\ suspect = [n \in Node |-> {}]
    /\ orphaned = {}

-----------------------------------------------------------------------------
Goto(r, s) == pc' = [pc EXCEPT ![r] = s]

\* The call of r returns.
Return(r) ==
    /\ Goto(r, "idle")
    /\ cids' = [cids EXCEPT ![r] = {}]
    /\ allow' = [allow EXCEPT ![r] = FALSE]

\* The test of `expire` in prepareItem(), the same in both backends.
Unexpired(r, expire) == expire = PERMANENT \/ expire >= requestTime[r]

\* getLastWriteTimestamp().
Known(r) ==
    IF lastWrite[r] # Null THEN lastWrite[r]
    ELSE IF Unexpired(r, markExpire) THEN mark ELSE 0

\* calculateChecksum() of the tag.
Checksum(r) == IF tagCache[r] = Null THEN count ELSE tagCache[r]

\* A request that begins now reads item c as valid.
Current(c) ==
    /\ row[c] # NoItem
    /\ row[c].expire = PERMANENT \/ row[c].expire >= second
    /\ c \in Tagged => row[c].checksum = count

GetMultiple(r, C, a) ==
    /\ pc[r] = "idle"
    /\ lastWrite' = [lastWrite EXCEPT ![r] = Known(r)]
    /\ Goto(r, IF Known(r) = 0 THEN "slow" ELSE "fast")
    /\ cids' = [cids EXCEPT ![r] = C]
    /\ allow' = [allow EXCEPT ![r] = a]
    /\ UNCHANGED <<clock, second, consistent, fast, items, stamp, requestTime,
                   tagCache, invalidated, writes, faults, history>>

\* The fast backend has item c and r, which knows of a write at time t, takes
\* it; copies have no tags.
Hit(r, c, a, t) ==
    LET copy == fast[NodeOf[r]][c]
    IN  /\ copy # NoCopy
        /\ a \/ Unexpired(r, copy.expire)
        /\ copy.created >= t

\* What is not hit is looked up in the consistent backend.
Missed(r, C) ==
    /\ IF C = {} THEN Return(r)
       ELSE /\ Goto(r, "slow")
            /\ cids' = [cids EXCEPT ![r] = C]
            /\ UNCHANGED allow
    /\ UNCHANGED <<clock, second, consistent, fast, items, stamp, request, writes,
                   faults, history>>

ReadFast(r) ==
    /\ pc[r] = "fast"
    /\ Missed(r, {c \in cids[r] : ~Hit(r, c, allow[r], lastWrite[r])})

\* ... or fails to unserialize what it has.
ReadFastThrows(r) ==
    /\ pc[r] = "fast"
    /\ Missed(r, cids[r])

\* The SELECT of the rows.
ReadConsistent(r) ==
    LET found == {c \in cids[r] : row[c] # NoItem}
    IN  /\ pc[r] = "slow"
        /\ IF found = {}
           THEN Return(r) /\ UNCHANGED <<items, doubtful>>
           ELSE /\ Goto(r, "judge")
                /\ items' = [items EXCEPT ![r] =
                       [c \in Cid |-> IF c \in found THEN row[c] ELSE NoItem]]
                /\ doubtful' = [doubtful EXCEPT ![r] =
                       {c \in found : ~Current(c)}]
                /\ UNCHANGED <<cids, allow>>
        /\ UNCHANGED <<clock, second, consistent, fast, stamp, request, writes,
                       faults, meant, wrote, top, suspect, orphaned>>

\* r reads the row of c it has as valid, or does not mind.
Readable(r, c) ==
    \/ allow[r]
    \/ /\ Unexpired(r, items[r][c].expire)
       /\ c \in Tagged => items[r][c].checksum = Checksum(r)

\* prepareItem() for each row: the counter of the tag is read, unless cached.
PrepareItems(r) ==
    LET read == {c \in Cid : items[r][c] # NoItem}
        found == {c \in read : Readable(r, c)}
    IN  /\ pc[r] = "judge"
        /\ tagCache' = [tagCache EXCEPT ![r] =
               IF read \cap Tagged = {} THEN @ ELSE Checksum(r)]
        /\ items' = [items EXCEPT ![r] =
               [c \in Cid |-> IF c \in found
                             THEN [items[r][c] EXCEPT !.checksum = 0]
                             ELSE NoItem]]
        /\ doubtful' = [doubtful EXCEPT ![r] = @ \cap found]
        /\ IF found = {} THEN Return(r)
           ELSE Goto(r, "put") /\ UNCHANGED <<cids, allow>>
        /\ UNCHANGED <<clock, second, consistent, fast, stamp, lastWrite,
                       requestTime, invalidated, writes, faults, meant, wrote,
                       top, suspect, orphaned>>

\* The fast backend gets an item without its tags.
Copied(item) ==
    [data |-> item.data, expire |-> item.expire, created |-> clock]

\* fastBackend->set() for one of the items; the call returns after the last.
PutFast(r) ==
    LET n == NodeOf[r]
    IN  \E c \in Cid :
        /\ pc[r] = "put"
        /\ items[r][c] # NoItem
        /\ fast' = [fast EXCEPT ![n][c] = Copied(items[r][c])]
        /\ suspect' = [suspect EXCEPT ![n] =
               IF c \in doubtful[r] THEN @ \cup {c} ELSE @ \ {c}]
        /\ items' = [items EXCEPT ![r][c] = NoItem]
        /\ doubtful' = [doubtful EXCEPT ![r] = @ \ {c}]
        /\ IF \E d \in Cid \ {c} : items[r][d] # NoItem
           THEN UNCHANGED <<pc, cids, allow>> ELSE Return(r)
        /\ UNCHANGED <<clock, second, consistent, stamp, request, writes, faults,
                       meant, wrote, top, orphaned>>

-----------------------------------------------------------------------------
OneMore == writes < MaxWrites /\ writes' = writes + 1

\* A call of r writes the items C of the consistent backend; markAsOutdated()
\* follows.
Write(r, C, new) ==
    /\ row' = [c \in Cid |-> IF c \in C THEN new[c] ELSE row[c]]
    /\ Goto(r, "now")
    /\ cids' = [cids EXCEPT ![r] = C]
    /\ wrote' = [c \in Cid |-> IF c \in C THEN clock ELSE wrote[c]]
    /\ UNCHANGED <<clock, second, fast, allow, stamp, lastWrite, requestTime,
                   faults, top, suspect, orphaned>>

\* Who has one of the items C has one that is not current any more.
Overtaken(s, C) == {c \in C : items[s][c] # NoItem}

Withdraw(r, C, new) ==
    /\ pc[r] = "idle"
    /\ OneMore
    /\ Write(r, C, new)
    /\ meant' = [c \in Cid |-> IF c \in C THEN 0 ELSE meant[c]]
    /\ doubtful' = [s \in Request |-> doubtful[s] \cup Overtaken(s, C)]
    /\ UNCHANGED items

\* set() and setMultiple(): the checksum is computed first ...
SetMultiple(r, C) ==
    LET item == [data |-> writes + 1, expire |-> PERMANENT, checksum |-> 0]
        tagged == C \cap Tagged # {}
    IN  /\ pc[r] = "idle"
        /\ OneMore
        /\ Goto(r, "upsert")
        /\ cids' = [cids EXCEPT ![r] = C]
        /\ items' = [items EXCEPT ![r] =
               [c \in Cid |-> IF c \in C THEN item ELSE NoItem]]
        /\ tagCache' = [tagCache EXCEPT ![r] = IF tagged THEN Checksum(r) ELSE @]
        /\ invalidated' = [invalidated EXCEPT ![r] = @ /\ ~tagged]
        /\ UNCHANGED <<clock, second, consistent, fast, allow, stamp, lastWrite,
                       requestTime, faults, history>>

\* ... and may be that of an invalid item by the time the row is written.
Upsert(r) ==
    LET C == cids[r]
        valid == {c \in C : c \in Tagged => tagCache[r] = count}
    IN  /\ pc[r] = "upsert"
        /\ Write(r, C, [c \in Cid |-> [items[r][c] EXCEPT !.checksum =
               IF c \in Tagged THEN tagCache[r] ELSE 0]])
        /\ meant' = [c \in Cid |-> IF c \notin C THEN meant[c]
                         ELSE IF c \in valid THEN items[r][c].data ELSE 0]
        /\ doubtful' = [s \in Request |-> IF s = r THEN C \ valid
                            ELSE doubtful[s] \cup Overtaken(s, C)]
        /\ UNCHANGED <<mark, markExpire, count, items, tagCache, invalidated, writes>>

DeleteMultiple(r, C) ==
    /\ Withdraw(r, C, [c \in Cid |-> NoItem])
    /\ UNCHANGED <<mark, markExpire, count, tagCache, invalidated>>

\* TRUNCATE: the timestamp is a row like the others.
DeleteAll(r) ==
    /\ Withdraw(r, Cid, [c \in Cid |-> NoItem])
    /\ mark' = 0
    /\ markExpire' = PERMANENT
    /\ UNCHANGED <<count, tagCache, invalidated>>

\* Invalid for requests not older than the one that invalidates.
Expired(r) ==
    [c \in Cid |-> IF row[c] = NoItem THEN NoItem
                   ELSE [row[c] EXCEPT !.expire = requestTime[r] - 1]]

InvalidateMultiple(r, C) ==
    /\ Withdraw(r, C, Expired(r))
    /\ UNCHANGED <<mark, markExpire, count, tagCache, invalidated>>

\* ... and here too, so that younger ones do not find it.
InvalidateAll(r) ==
    /\ Withdraw(r, Cid, Expired(r))
    /\ markExpire' = IF mark = 0 THEN markExpire ELSE requestTime[r] - 1
    /\ UNCHANGED <<mark, count, tagCache, invalidated>>

\* The counter of the tag changes, then the bin is told.
InvalidateTags(r) ==
    /\ ~invalidated[r]
    /\ count' = count + 1
    /\ tagCache' = [tagCache EXCEPT ![r] = Null]
    /\ invalidated' = [invalidated EXCEPT ![r] = TRUE]
    /\ Withdraw(r, Tagged, row)
    /\ UNCHANGED <<mark, markExpire>>

\* A request that has not set a tagged item since counts no second one.
InvalidateTagsAgain(r) ==
    /\ invalidated[r]
    /\ Withdraw(r, {}, row)
    /\ UNCHANGED <<mark, markExpire, count, tagCache, invalidated>>

\* Variant: the timestamp without the added millisecond.
NowThisMillisecond == clock

\* $now in markAsOutdated().
Now == clock + 1

ReadClock(r) ==
    /\ pc[r] = "now"
    /\ stamp' = [stamp EXCEPT ![r] = Now]
    /\ Goto(r, "compare")
    /\ UNCHANGED <<clock, second, consistent, fast, cids, allow, items, request,
                   writes, faults, history>>

\* After markAsOutdated(): set() puts its items into the fast backend.
Marked(r) ==
    /\ IF \E c \in Cid : items[r][c] # NoItem
       THEN Goto(r, "put") /\ UNCHANGED <<cids, allow>>
       ELSE Return(r)
    /\ stamp' = [stamp EXCEPT ![r] = 0]

\* Variant: a timestamp is stored only if there is none.
NewerIfNone(r) == Known(r) = 0

Newer(r) == stamp[r] > Known(r)

Compare(r) ==
    /\ pc[r] = "compare"
    /\ lastWrite' = [lastWrite EXCEPT ![r] = Known(r)]
    /\ IF Newer(r)
       THEN Goto(r, "mark") /\ UNCHANGED <<cids, allow, stamp>>
       ELSE Marked(r)
    /\ UNCHANGED <<clock, second, consistent, fast, items, requestTime, tagCache,
                   invalidated, writes, faults, history>>

StoreTimestamp(r) ==
    /\ pc[r] = "mark"
    /\ mark' = stamp[r]
    /\ markExpire' = PERMANENT
    /\ lastWrite' = [lastWrite EXCEPT ![r] = stamp[r]]
    /\ top' = IF stamp[r] > top THEN stamp[r] ELSE top
    /\ orphaned' = {c \in orphaned : wrote[c] >= stamp[r]}
    /\ Marked(r)
    /\ UNCHANGED <<clock, second, row, count, fast, items, requestTime, tagCache,
                   invalidated, writes, faults, meant, wrote, doubtful, suspect>>

-----------------------------------------------------------------------------
Fault == faults < MaxFaults /\ faults' = faults + 1

\* removeBin(): the table is dropped, then the fast backend is emptied; no
\* timestamp is stored.
RemoveBin(r) ==
    /\ pc[r] = "idle"
    /\ Fault
    /\ row' = [c \in Cid |-> NoItem]
    /\ mark' = 0
    /\ markExpire' = PERMANENT
    /\ meant' = [c \in Cid |-> 0]
    /\ wrote' = [c \in Cid |-> clock]
    /\ doubtful' = [s \in Request |-> doubtful[s] \cup Overtaken(s, Cid)]
    /\ orphaned' = Cid
    /\ Goto(r, "remove")
    /\ UNCHANGED <<clock, second, count, fast, cids, allow, items, stamp, request,
                   writes, top, suspect>>

Emptied(n) ==
    /\ fast' = [fast EXCEPT ![n] = [c \in Cid |-> NoCopy]]
    /\ suspect' = [suspect EXCEPT ![n] = {}]
    /\ UNCHANGED <<clock, second, consistent, cids, allow, items, stamp, request,
                   writes, meant, wrote, top, doubtful, orphaned>>

RemoveFast(r) ==
    /\ pc[r] = "remove"
    /\ Goto(r, "idle")
    /\ Emptied(NodeOf[r]) /\ UNCHANGED faults

\* The web server of node n restarts and loses its memory.
Restart(n) == Fault /\ Emptied(n) /\ UNCHANGED pc

\* garbageCollection(): rows beyond the maximum and expired ones are deleted,
\* the timestamp possibly among them; which ones is left open.
GarbageCollection(S, m) ==
    /\ Fault
    /\ row' = [c \in Cid |-> IF c \in S THEN NoItem ELSE row[c]]
    /\ mark' = m
    /\ markExpire' = IF m = 0 THEN PERMANENT ELSE markExpire
    /\ UNCHANGED <<clock, second, count, fast, call, request, writes,
                   history>>

\* reset() of the bin.
Reset(r) ==
    /\ pc[r] = "idle"
    /\ lastWrite' = [lastWrite EXCEPT ![r] = Null]
    /\ UNCHANGED <<clock, second, consistent, fast, call, requestTime, tagCache,
                   invalidated, writes, faults, history>>

\* The next request of a process begins with empty memory.
NewRequest(r) ==
    /\ lastWrite' = [lastWrite EXCEPT ![r] = Null]
    /\ requestTime' = [requestTime EXCEPT ![r] = second]
    /\ tagCache' = [tagCache EXCEPT ![r] = Null]
    /\ invalidated' = [invalidated EXCEPT ![r] = FALSE]

NextRequest(r) ==
    /\ pc[r] = "idle"
    /\ NewRequest(r)
    /\ UNCHANGED <<clock, second, consistent, fast, call, writes, faults, history>>

\* r has written to the consistent backend and not yet stored a timestamp.
Writing(r) == pc[r] \in {"now", "compare", "mark"}

Die(r) ==
    /\ pc[r] # "idle"
    /\ Fault
    /\ orphaned' = IF Writing(r) THEN orphaned \cup cids[r] ELSE orphaned
    /\ Return(r)
    /\ items' = [items EXCEPT ![r] = [c \in Cid |-> NoItem]]
    /\ doubtful' = [doubtful EXCEPT ![r] = {}]
    /\ stamp' = [stamp EXCEPT ![r] = 0]
    /\ NewRequest(r)
    /\ UNCHANGED <<clock, second, consistent, fast, writes, meant, wrote, top,
                   suspect>>

\* A millisecond passes, and with it possibly a second ends.
Tick ==
    /\ clock < MaxTime
    /\ clock' = clock + 1
    /\ second' \in {second, second + 1}
    /\ UNCHANGED <<consistent, fast, call, request, writes, faults, history>>

Next ==
    \/ \E r \in Request, C \in SUBSET Cid \ {{}} :
          \/ \E a \in AllowInvalid : GetMultiple(r, C, a)
          \/ SetMultiple(r, C)
          \/ DeleteMultiple(r, C)
          \/ InvalidateMultiple(r, C)
    \/ \E r \in Request :
          \/ DeleteAll(r) \/ InvalidateAll(r)
          \/ InvalidateTags(r) \/ InvalidateTagsAgain(r)
          \/ ReadFast(r) \/ ReadFastThrows(r)
          \/ ReadConsistent(r) \/ PrepareItems(r) \/ PutFast(r)
          \/ Upsert(r) \/ ReadClock(r) \/ Compare(r) \/ StoreTimestamp(r)
          \/ RemoveBin(r) \/ RemoveFast(r)
          \/ Reset(r) \/ NextRequest(r) \/ Die(r)
    \/ \E S \in SUBSET Cid, m \in {0, mark} : GarbageCollection(S, m)
    \/ \E n \in Node : Restart(n)
    \/ Tick

Spec == Init /\ [][Next]_vars

-----------------------------------------------------------------------------
\* Request r takes c from the fast backend as valid, and no write of c is
\* under way.
Served(r, c) ==
    /\ Known(r) # 0
    /\ Hit(r, c, FALSE, Known(r))
    /\ \A s \in Request : Writing(s) => c \notin cids[s]

\* "we can guarantee that the cache entries we return are all up-to-date"
\* (ChainedFastBackend): what the fast backend serves to a request that knows
\* the last timestamp is what the consistent backend holds as valid.
UpToDate ==
    \A r \in Request, c \in Cid :
        Served(r, c) /\ Known(r) = mark => fast[NodeOf[r]][c].data = meant[c]

\* When the guarantee does hold, for a request with the latest timestamp:
\* unless the copy was not current when it was put there, because a write had
\* overtaken it, or its reader took an invalidated row for a valid one (with
\* $allow_invalid, a counter cached before, or an earlier REQUEST_TIME), or its
\* writer had a counter cached before an invalidation; or the writer of c has
\* died or removed the bin without storing a timestamp.  In particular two
\* writes, or a write and a copy, in the same millisecond are harmless, and so
\* are lost timestamps and expired ones that older requests still read.
Fresh ==
    \A r \in Request, c \in Cid :
        /\ Served(r, c)
        /\ Known(r) = top
        /\ c \notin suspect[NodeOf[r]]
        /\ c \notin orphaned
        => fast[NodeOf[r]][c].data = meant[c]

\* Why: nothing is from the future; a request sets what its call has, with a
\* checksum; what is current is meant, and so is what a request is going to
\* put and what was put after the last write of c; and the last write of c is
\* earlier than some timestamp, or its writer will store a later one.
NotFromFuture ==
    /\ mark <= top
    /\ \A r \in Request : lastWrite[r] <= top
    /\ \A r \in Request : requestTime[r] <= second /\ tagCache[r] <= count
    /\ \A c \in Cid : wrote[c] <= clock
    /\ \A c \in Cid : row[c].expire < second /\ row[c].checksum <= count
    /\ \A n \in Node, c \in Cid : fast[n][c].created <= clock

UpsertsWhatItHas ==
    \A r \in Request :
        pc[r] = "upsert" =>
            /\ \A c \in Cid : /\ items[r][c].expire = PERMANENT
                              /\ items[r][c] # NoItem => c \in cids[r]
            /\ cids[r] \cap Tagged # {} => tagCache[r] # Null

RowsMeant == \A c \in Cid : Current(c) => row[c].data = meant[c]

ItemsMeant ==
    \A r \in Request, c \in Cid :
        /\ items[r][c] # NoItem
        /\ pc[r] # "upsert"
        /\ c \notin doubtful[r]
        => items[r][c].data = meant[c]

CopiesMeant ==
    \A n \in Node, c \in Cid :
        /\ fast[n][c] # NoCopy
        /\ c \notin suspect[n]
        /\ fast[n][c].created > wrote[c]
        => fast[n][c].data = meant[c]

WillMark(r, c) ==
    Writing(r) /\ c \in cids[r] /\ (pc[r] = "now" \/ stamp[r] > wrote[c])

WritesMarked ==
    \A c \in Cid :
        \/ wrote[c] = 0
        \/ wrote[c] < top
        \/ c \in orphaned
        \/ \E r \in Request : WillMark(r, c)

Inv ==
    /\ TypeOK
    /\ NotFromFuture
    /\ UpsertsWhatItHas
    /\ RowsMeant
    /\ ItemsMeant
    /\ CopiesMeant
    /\ WritesMarked
    /\ Fresh

=============================================================================
