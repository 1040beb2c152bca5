---------------------------- MODULE StateStoreProofs ----------------------------
(* Proofs about StateStore, for every set of keys, rows and runs and every batch
   size: the queues and the MERGE first, then the invariants, then the refinement
   of WriteBackMap.                                                           *)
EXTENDS StateStore, TLAPS

(* --- queues --------------------------------------------------------------- *)

IsLast(queue, k, i) ==
    /\ i \in DOMAIN queue
    /\ queue[i].key = k
    /\ \A j \in DOMAIN queue : queue[j].key = k => j <= i

Longer(queue, key, row) == Append(queue, [key |-> key, row |-> row])

(* Every key that is queued is queued for a last time. *)
Settled(queue) == \A k : Queued(queue, k) => \E i : IsLast(queue, k, i)

(* The row a MERGE takes for a key is the one at its last place in the queue. *)
LEMMA LastIsChosen ==
    ASSUME NEW K, NEW R, NEW queue \in Seq(Entry(K, R)), NEW k, NEW i,
           IsLast(queue, k, i)
    PROVE  LastQueued(queue, k) = queue[i].row
<1> DEFINE Best(n) == /\ queue[n].key = k
                      /\ \A j \in DOMAIN queue : queue[j].key = k => j <= n
<1> DEFINE c == CHOOSE n \in DOMAIN queue : Best(n)
<1>1. i \in DOMAIN queue /\ Best(i)
    BY DEF IsLast
<1>2. c \in DOMAIN queue /\ Best(c)
    <2> HIDE DEF Best
    <2> QED BY <1>1
<1>3. DOMAIN queue \subseteq Int
    OBVIOUS
<1>4. c = i
    <2>1. c <= i /\ i <= c
        BY <1>1, <1>2
    <2> HIDE DEF c
    <2> QED BY <2>1, <1>1, <1>2, <1>3
<1> QED BY <1>4 DEF LastQueued

(* That row is one of the rows queued. *)
LEMMA LastQueuedIsARow ==
    ASSUME NEW K, NEW R, NEW queue \in Seq(Entry(K, R)), Settled(queue),
           NEW k, Queued(queue, k)
    PROVE  LastQueued(queue, k) \in R
<1>1. PICK i : IsLast(queue, k, i)
    BY DEF Settled
<1>2. LastQueued(queue, k) = queue[i].row
    BY <1>1, LastIsChosen
<1>3. queue[i] \in Entry(K, R)
    BY <1>1 DEF IsLast
<1> QED BY <1>2, <1>3 DEF Entry

(* Queueing a row makes it the one its key's MERGE takes and leaves what the MERGE
   takes for the other keys alone.                                            *)
LEMMA QueueOneMore ==
    ASSUME NEW K, NEW R, NEW queue \in Seq(Entry(K, R)), Settled(queue),
           NEW key \in K, NEW row \in R
    PROVE  LET longer == Longer(queue, key, row) IN
           /\ longer \in Seq(Entry(K, R))
           /\ Settled(longer)
           /\ Len(longer) = Len(queue) + 1
           /\ \A k : Queued(longer, k) <=> (Queued(queue, k) \/ k = key)
           /\ LastQueued(longer, key) = row
           /\ \A k : k # key /\ Queued(queue, k) =>
                         LastQueued(longer, k) = LastQueued(queue, k)
<1> DEFINE n == Len(queue)
<1> DEFINE longer == Longer(queue, key, row)
<1>1. /\ [key |-> key, row |-> row] \in Entry(K, R)
      /\ longer \in Seq(Entry(K, R))
      /\ Len(longer) = n + 1 /\ n \in Nat
    BY DEF Entry, Longer
<1>2. DOMAIN queue = 1..n /\ DOMAIN longer = 1..(n + 1)
    BY <1>1
<1>3. /\ \A i \in 1..n : longer[i] = queue[i]
      /\ longer[n + 1] = [key |-> key, row |-> row]
    BY <1>1 DEF Longer
<1>4. IsLast(longer, key, n + 1)
    BY <1>1, <1>2, <1>3 DEF IsLast
<1>5. \A k, i : k # key /\ IsLast(queue, k, i) => IsLast(longer, k, i)
    BY <1>1, <1>2, <1>3 DEF IsLast
<1>6. \A k : Queued(longer, k) <=> (Queued(queue, k) \/ k = key)
    BY <1>1, <1>2, <1>3 DEF Queued
<1>7. Settled(longer)
    BY <1>4, <1>5, <1>6 DEF Settled
<1>8. LastQueued(longer, key) = row
    <2>1. PICK last : last = n + 1
        OBVIOUS
    <2>2. IsLast(longer, key, last)
        BY <2>1, <1>4
    <2>3. LastQueued(longer, key) = longer[last].row
        BY <2>2, <1>1, LastIsChosen
    <2> QED BY <2>1, <2>3, <1>3
<1>9. ASSUME NEW k, k # key, Queued(queue, k)
      PROVE  LastQueued(longer, k) = LastQueued(queue, k)
    <2>1. PICK i : IsLast(queue, k, i)
        BY <1>9 DEF Settled
    <2>2. LastQueued(queue, k) = queue[i].row
        BY <2>1, LastIsChosen
    <2>3. LastQueued(longer, k) = longer[i].row
        BY <2>1, <1>1, <1>5, <1>9, LastIsChosen
    <2>4. longer[i] = queue[i]
        BY <2>1, <1>2, <1>3 DEF IsLast
    <2> QED BY <2>2, <2>3, <2>4
<1> QED BY <1>1, <1>6, <1>7, <1>8, <1>9

(* An empty queue is settled and queues nothing. *)
LEMMA EmptyQueue ==
    /\ Settled(<<>>)
    /\ \A k : ~Queued(<<>>, k)
BY DEF Settled, Queued

(* --- rows and the MERGE ---------------------------------------------------- *)

Rows == Row \cup {NoRow}
IdRows == IdRow \cup {NoRow}

(* `row` still says what `prior` knew: the id of an object, a fingerprint. *)
Keeps(prior, row) ==
    prior # NoRow => /\ row.target = Blank => prior.target = Blank
                     /\ row.fp = Blank => prior.fp = Blank

KeepsId(prior, row) ==
    prior # NoRow => (row.target = Blank => prior.target = Blank)

LEMMA NoRowIsNoRow == NoRow \notin Row /\ NoRow \notin IdRow
BY NoRowAssumption

(* record() builds a row and forgets nothing. *)
LEMMA CarryForwardKeeps ==
    ASSUME NEW prior \in Rows, NEW action \in LastActions,
           NEW fp \in Fingerprints \cup {Blank}, NEW id \in TargetIds \cup {Blank},
           NEW run \in RunIds
    PROVE  /\ CarryForward(prior, action, fp, id, run) \in Row
           /\ Keeps(prior, CarryForward(prior, action, fp, id, run))
BY DEF Rows, Row, CarryForward, OrElse, TargetOf, FingerprintOf, Keeps

LEMMA CarryIdForwardKeeps ==
    ASSUME NEW prior \in IdRows, NEW id \in TargetIds \cup {Blank}, NEW run \in RunIds
    PROVE  /\ CarryIdForward(prior, id, run) \in IdRow
           /\ KeepsId(prior, CarryIdForward(prior, id, run))
BY DEF IdRows, IdRow, CarryIdForward, OrElse, TargetOf, KeepsId

(* WHEN MATCHED: the written row keeps what the stored one knew, a row that already
   does is stored as it is, and storing it again changes nothing.              *)
LEMMA CoalesceRow ==
    ASSUME NEW old \in Rows, NEW new \in Row
    PROVE  /\ Coalesce(old, new) \in Row
           /\ Keeps(old, Coalesce(old, new))
           /\ Keeps(old, new) => Coalesce(old, new) = new
           /\ Coalesce(Coalesce(old, new), new) = Coalesce(old, new)
BY NoRowIsNoRow DEF Rows, Row, Coalesce, OrElse, Keeps

LEMMA CoalesceIdRow ==
    ASSUME NEW old \in IdRows, NEW new \in IdRow
    PROVE  /\ CoalesceId(old, new) \in IdRow
           /\ KeepsId(old, CoalesceId(old, new))
           /\ KeepsId(old, new) => CoalesceId(old, new) = new
           /\ CoalesceId(CoalesceId(old, new), new) = CoalesceId(old, new)
BY NoRowIsNoRow DEF IdRows, IdRow, CoalesceId, OrElse, KeepsId

(* A MERGE yields a table; of an empty queue, the table there was; run a second time
   -- after an answer was lost -- the table it had yielded.                    *)
LEMMA MergeRows ==
    ASSUME NEW tbl \in [Keys -> Rows], NEW queue \in Seq(Entry(Keys, Row)),
           Settled(queue)
    PROVE  /\ Merged(tbl, queue) \in [Keys -> Rows]
           /\ Merged(tbl, <<>>) = tbl
           /\ Merged(Merged(tbl, queue), queue) = Merged(tbl, queue)
<1>1. \A k : Queued(queue, k) => LastQueued(queue, k) \in Row
    BY LastQueuedIsARow
<1>2. Merged(tbl, queue) \in [Keys -> Rows]
    BY <1>1, CoalesceRow DEF Merged, Rows
<1>3. Merged(tbl, <<>>) = tbl
    BY EmptyQueue DEF Merged
<1>4. Merged(Merged(tbl, queue), queue) = Merged(tbl, queue)
    BY <1>1, CoalesceRow DEF Merged
<1> QED BY <1>2, <1>3, <1>4

LEMMA MergeIdRows ==
    ASSUME NEW tbl \in [IdKeys -> IdRows], NEW queue \in Seq(Entry(IdKeys, IdRow)),
           Settled(queue)
    PROVE  /\ MergedId(tbl, queue) \in [IdKeys -> IdRows]
           /\ MergedId(tbl, <<>>) = tbl
           /\ MergedId(MergedId(tbl, queue), queue) = MergedId(tbl, queue)
<1>1. \A k : Queued(queue, k) => LastQueued(queue, k) \in IdRow
    BY LastQueuedIsARow
<1>2. MergedId(tbl, queue) \in [IdKeys -> IdRows]
    BY <1>1, CoalesceIdRow DEF MergedId, IdRows
<1>3. MergedId(tbl, <<>>) = tbl
    BY EmptyQueue DEF MergedId
<1>4. MergedId(MergedId(tbl, queue), queue) = MergedId(tbl, queue)
    BY <1>1, CoalesceIdRow DEF MergedId
<1> QED BY <1>2, <1>3, <1>4

(* Queueing a row that keeps what the merged table knows is the same as writing it
   into the merged table: the queue and the in-memory view stay in step.       *)
LEMMA MergeOneMore ==
    ASSUME NEW tbl \in [Keys -> Rows], NEW queue \in Seq(Entry(Keys, Row)),
           Settled(queue), NEW key \in Keys, NEW row \in Row,
           Keeps(Merged(tbl, queue)[key], row)
    PROVE  Merged(tbl, Longer(queue, key, row)) = [Merged(tbl, queue) EXCEPT ![key] = row]
<1> DEFINE longer == Longer(queue, key, row)
<1>1. /\ \A k : Queued(longer, k) <=> (Queued(queue, k) \/ k = key)
      /\ LastQueued(longer, key) = row
      /\ \A k : k # key /\ Queued(queue, k) =>
                    LastQueued(longer, k) = LastQueued(queue, k)
    BY QueueOneMore
<1>2. Coalesce(tbl[key], row) = row
    <2>1. Keeps(tbl[key], Merged(tbl, queue)[key])
        <3>1. Queued(queue, key) => LastQueued(queue, key) \in Row
            BY LastQueuedIsARow
        <3> QED BY <3>1, CoalesceRow DEF Merged, Keeps
    <2>2. tbl[key] # NoRow => Merged(tbl, queue)[key] # NoRow
        <3>1. Queued(queue, key) => LastQueued(queue, key) \in Row
            BY LastQueuedIsARow
        <3> QED BY <3>1, CoalesceRow, NoRowIsNoRow DEF Merged
    <2>3. Keeps(tbl[key], row)
        BY <2>1, <2>2 DEF Keeps
    <2> QED BY <2>3, CoalesceRow
<1>3. ASSUME NEW k \in Keys
      PROVE  Merged(tbl, longer)[k] = [Merged(tbl, queue) EXCEPT ![key] = row][k]
    BY <1>1, <1>2 DEF Merged
<1> QED BY <1>3 DEF Merged

LEMMA MergeOneMoreId ==
    ASSUME NEW tbl \in [IdKeys -> IdRows], NEW queue \in Seq(Entry(IdKeys, IdRow)),
           Settled(queue), NEW key \in IdKeys, NEW row \in IdRow,
           KeepsId(MergedId(tbl, queue)[key], row)
    PROVE  MergedId(tbl, Longer(queue, key, row)) = [MergedId(tbl, queue) EXCEPT ![key] = row]
<1> DEFINE longer == Longer(queue, key, row)
<1>1. /\ \A k : Queued(longer, k) <=> (Queued(queue, k) \/ k = key)
      /\ LastQueued(longer, key) = row
      /\ \A k : k # key /\ Queued(queue, k) =>
                    LastQueued(longer, k) = LastQueued(queue, k)
    BY QueueOneMore
<1>2. CoalesceId(tbl[key], row) = row
    <2>1. Queued(queue, key) => LastQueued(queue, key) \in IdRow
        BY LastQueuedIsARow
    <2>2. KeepsId(tbl[key], MergedId(tbl, queue)[key])
        BY <2>1, CoalesceIdRow DEF MergedId, KeepsId
    <2>3. tbl[key] # NoRow => MergedId(tbl, queue)[key] # NoRow
        BY <2>1, CoalesceIdRow, NoRowIsNoRow DEF MergedId
    <2>4. KeepsId(tbl[key], row)
        BY <2>2, <2>3 DEF KeepsId
    <2> QED BY <2>4, CoalesceIdRow
<1>3. ASSUME NEW k \in IdKeys
      PROVE  MergedId(tbl, longer)[k] = [MergedId(tbl, queue) EXCEPT ![key] = row][k]
    BY <1>1, <1>2 DEF MergedId
<1> QED BY <1>3 DEF MergedId

(* --- the inductive invariant ---------------------------------------------- *)

(* What the runs check, and the fact about queues that makes it inductive: a MERGE
   always has a last row to take.                                             *)
StoreIInv ==
    /\ StoreTypeOK
    /\ Settled(pending) /\ Settled(pendingId)
    /\ PendingCoversTheGap
    /\ BoundedLoss
    /\ FlushFailedMeansPending

Queues(q, qi) ==
    /\ q \in Seq(Entry(Keys, Row)) /\ Settled(q)
    /\ qi \in Seq(Entry(IdKeys, IdRow)) /\ Settled(qi)

Tables(t, ti) == t \in [Keys -> Rows] /\ ti \in [IdKeys -> IdRows]

(* Whatever a flush of the queues q and qi manages to write, merging what it leaves
   pending into what it leaves stored gives the same tables as before.         *)
Flushed(q, qi) ==
    /\ Tables(table', idTable')
    /\ Queues(pending', pendingId')
    /\ Merged(table', pending') = Merged(table, q)
    /\ MergedId(idTable', pendingId') = MergedId(idTable, qi)
    /\ table' \in {table, Merged(table, q)}
    /\ idTable' \in {idTable, MergedId(idTable, qi)}
    /\ flushFailed' \in BOOLEAN
    /\ since' \in {"none", "recent", "overdue"}
    /\ flushFailed' => pending' # <<>> \/ pendingId' # <<>>

LEMMA FlushQueuesFlushes ==
    ASSUME Tables(table, idTable), NEW q, NEW qi, Queues(q, qi),
           flushFailed \in BOOLEAN, since \in {"none", "recent", "overdue"},
           flushFailed => q # <<>> \/ qi # <<>>,
           FlushQueues(q, qi)
    PROVE  /\ Flushed(q, qi)
           /\ ~flushFailed' => /\ pending' = <<>> /\ pendingId' = <<>>
                               /\ table' = Merged(table, q)
                               /\ idTable' = MergedId(idTable, qi)
<1>1. /\ Merged(table, q) \in [Keys -> Rows]
      /\ Merged(Merged(table, q), q) = Merged(table, q)
      /\ Merged(table, <<>>) = table
      /\ Merged(Merged(table, q), <<>>) = Merged(table, q)
    BY MergeRows, EmptyQueue DEF Tables, Queues
<1>2. /\ MergedId(idTable, qi) \in [IdKeys -> IdRows]
      /\ MergedId(MergedId(idTable, qi), qi) = MergedId(idTable, qi)
      /\ MergedId(idTable, <<>>) = idTable
      /\ MergedId(MergedId(idTable, qi), <<>>) = MergedId(idTable, qi)
    BY MergeIdRows, EmptyQueue DEF Tables, Queues
<1>3. /\ <<>> \in Seq(Entry(Keys, Row)) /\ <<>> \in Seq(Entry(IdKeys, IdRow))
      /\ Settled(<<>>)
    BY EmptyQueue
<1>4. CASE /\ q = <<>> /\ qi = <<>>
           /\ pending' = q /\ pendingId' = qi
           /\ UNCHANGED <<table, idTable, flushFailed, since>>
    BY <1>1, <1>2, <1>3, <1>4 DEF Flushed, Tables, Queues
<1>5. CASE /\ q # <<>>
           /\ table' \in {table, Merged(table, q)}
           /\ pending' = q /\ pendingId' = qi
           /\ FlushFails
           /\ UNCHANGED idTable
    BY <1>1, <1>2, <1>5 DEF Flushed, Tables, Queues, FlushFails
<1>6. CASE /\ qi # <<>>
           /\ table' = Merged(table, q)
           /\ idTable' \in {idTable, MergedId(idTable, qi)}
           /\ pending' = <<>> /\ pendingId' = qi
           /\ FlushFails
    BY <1>1, <1>2, <1>3, <1>6 DEF Flushed, Tables, Queues, FlushFails
<1>7. CASE /\ q # <<>> \/ qi # <<>>
           /\ table' = Merged(table, q)
           /\ idTable' = MergedId(idTable, qi)
           /\ pending' = <<>> /\ pendingId' = <<>>
           /\ FlushSucceeds
    BY <1>1, <1>2, <1>3, <1>7 DEF Flushed, Tables, Queues, FlushSucceeds
<1> QED BY <1>4, <1>5, <1>6, <1>7 DEF FlushQueues

(* Queueing a row keeps the batches below their size until a flush has failed. *)
LEMMA EnqueueFlushes ==
    ASSUME Tables(table, idTable), NEW q, NEW qi, Queues(q, qi),
           flushFailed \in BOOLEAN, since \in {"none", "recent", "overdue"},
           q # <<>> \/ qi # <<>>,
           NEW queued \in Nat,
           ~flushFailed /\ queued < BatchSize => Len(q) < BatchSize /\ Len(qi) < BatchSize,
           Enqueue(q, qi, queued)
    PROVE  /\ Flushed(q, qi)
           /\ ~flushFailed' => Len(pending') < BatchSize /\ Len(pendingId') < BatchSize
<1>1. CASE FlushDue(queued)
    <2>1. FlushQueues(q, qi)
        BY <1>1 DEF Enqueue
    <2>2. /\ Flushed(q, qi)
          /\ ~flushFailed' => pending' = <<>> /\ pendingId' = <<>>
        BY <2>1, FlushQueuesFlushes
    <2>3. Len(<<>>) < BatchSize
        BY BatchAssumption
    <2> QED BY <2>2, <2>3
<1>2. CASE ~FlushDue(queued)
    <2>1. /\ pending' = q /\ pendingId' = qi
          /\ since' = (IF since = "none" THEN "recent" ELSE since)
          /\ UNCHANGED <<table, idTable, flushFailed>>
        BY <1>2 DEF Enqueue
    <2>2. Flushed(q, qi)
        BY <2>1 DEF Flushed, Tables, Queues
    <2>3. flushFailed \/ queued < BatchSize
        BY <1>2, BatchAssumption DEF FlushDue
    <2> QED BY <2>1, <2>2, <2>3
<1> QED BY <1>1, <1>2

LEMMA StoreInitIInv == StoreInit => StoreIInv
<1> SUFFICES ASSUME StoreInit PROVE StoreIInv
    OBVIOUS
<1>1. StoreTypeOK
    <2>1. /\ NoRows \in [Keys -> Row \cup {NoRow}]
          /\ NoIdRows \in [IdKeys -> IdRow \cup {NoRow}]
        BY DEF NoRows, NoIdRows
    <2>2. /\ <<>> \in Seq(Entry(Keys, Row))
          /\ <<>> \in Seq(Entry(IdKeys, IdRow))
        OBVIOUS
    <2> QED BY <2>1, <2>2 DEF StoreInit, StoreTypeOK
<1>2. BoundedLoss
    BY BatchAssumption DEF StoreInit, BoundedLoss
<1>3. PendingCoversTheGap /\ FlushFailedMeansPending
    BY DEF StoreInit, PendingCoversTheGap, FlushFailedMeansPending
<1> QED BY <1>1, <1>2, <1>3, EmptyQueue DEF StoreIInv, StoreInit

(* Every change of the in-memory state row by row. *)
LEMMA RecordIInv ==
    ASSUME StoreIInv, NEW k \in Keys, NEW action \in LastActions,
           NEW fp \in Fingerprints \cup {Blank}, NEW id \in TargetIds \cup {Blank},
           Record(k, action, fp, id)
    PROVE  StoreIInv' /\ table' \in {table, cache'}
                      /\ idTable' \in {idTable, idCache}
<1> DEFINE row == CarryForward(cache[k], action, fp, id, runId)
<1> DEFINE queue == Longer(pending, k, row)
<1> USE DEF StoreIInv
<1>1. /\ Tables(table, idTable) /\ Queues(pending, pendingId)
      /\ cache[k] \in Rows /\ runId \in RunIds
      /\ flushFailed \in BOOLEAN /\ since \in {"none", "recent", "overdue"}
    BY DEF StoreTypeOK, Tables, Queues, Rows, IdRows
<1>2. row \in Row /\ Keeps(cache[k], row)
    BY <1>1, CarryForwardKeeps
<1>3. /\ up /\ UNCHANGED <<idCache, up, runId>>
      /\ cache' = [cache EXCEPT ![k] = row]
      /\ Enqueue(queue, pendingId, Len(queue))
      /\ Merged(table, pending) = cache /\ MergedId(idTable, pendingId) = idCache
    BY DEF Record, Longer, PendingCoversTheGap
<1> HIDE DEF row
<1>4. /\ Queues(queue, pendingId)
      /\ Len(queue) = Len(pending) + 1
      /\ Len(pending) \in Nat
    BY <1>1, <1>2, QueueOneMore DEF Queues
<1>5. Merged(table, queue) = cache'
    BY <1>1, <1>2, <1>3, MergeOneMore DEF Tables, Queues
<1> HIDE DEF queue
<1>6. queue # <<>> /\ Len(queue) \in Nat
    BY <1>4 DEF Queues
<1>7. ~flushFailed /\ Len(queue) < BatchSize =>
          Len(queue) < BatchSize /\ Len(pendingId) < BatchSize
    BY DEF BoundedLoss
<1>8. /\ Flushed(queue, pendingId)
      /\ ~flushFailed' => Len(pending') < BatchSize /\ Len(pendingId') < BatchSize
    BY <1>1, <1>3, <1>4, <1>6, <1>7, EnqueueFlushes
<1>9. StoreTypeOK'
    BY <1>1, <1>2, <1>3, <1>8
    DEF StoreTypeOK, Flushed, Tables, Queues, Rows, IdRows
<1>10. PendingCoversTheGap' /\ BoundedLoss' /\ FlushFailedMeansPending'
    BY <1>3, <1>5, <1>8
    DEF Flushed, PendingCoversTheGap, BoundedLoss, FlushFailedMeansPending
<1> QED BY <1>3, <1>5, <1>8, <1>9, <1>10 DEF Flushed, Queues

LEMMA RecordIdentityIInv ==
    ASSUME StoreIInv, NEW k \in IdKeys, NEW id \in TargetIds \cup {Blank},
           RecordIdentity(k, id)
    PROVE  StoreIInv' /\ table' \in {table, cache}
                      /\ idTable' \in {idTable, idCache'}
<1> DEFINE row == CarryIdForward(idCache[k], id, runId)
<1> DEFINE queue == Longer(pendingId, k, row)
<1> USE DEF StoreIInv
<1>1. /\ Tables(table, idTable) /\ Queues(pending, pendingId)
      /\ idCache[k] \in IdRows /\ runId \in RunIds
      /\ flushFailed \in BOOLEAN /\ since \in {"none", "recent", "overdue"}
    BY DEF StoreTypeOK, Tables, Queues, Rows, IdRows
<1>2. row \in IdRow /\ KeepsId(idCache[k], row)
    BY <1>1, CarryIdForwardKeeps
<1>3. /\ up /\ UNCHANGED <<cache, up, runId>>
      /\ idCache' = [idCache EXCEPT ![k] = row]
      /\ Enqueue(pending, queue, Len(queue))
      /\ Merged(table, pending) = cache /\ MergedId(idTable, pendingId) = idCache
    BY DEF RecordIdentity, Longer, PendingCoversTheGap
<1> HIDE DEF row
<1>4. /\ Queues(pending, queue)
      /\ Len(queue) = Len(pendingId) + 1
      /\ Len(pendingId) \in Nat
    BY <1>1, <1>2, QueueOneMore DEF Queues
<1>5. MergedId(idTable, queue) = idCache'
    BY <1>1, <1>2, <1>3, MergeOneMoreId DEF Tables, Queues
<1> HIDE DEF queue
<1>6. queue # <<>> /\ Len(queue) \in Nat
    BY <1>4 DEF Queues
<1>7. ~flushFailed /\ Len(queue) < BatchSize =>
          Len(pending) < BatchSize /\ Len(queue) < BatchSize
    BY DEF BoundedLoss
<1>8. /\ Flushed(pending, queue)
      /\ ~flushFailed' => Len(pending') < BatchSize /\ Len(pendingId') < BatchSize
    BY <1>1, <1>3, <1>4, <1>6, <1>7, EnqueueFlushes
<1>9. StoreTypeOK'
    BY <1>1, <1>2, <1>3, <1>8
    DEF StoreTypeOK, Flushed, Tables, Queues, Rows, IdRows
<1>10. PendingCoversTheGap' /\ BoundedLoss' /\ FlushFailedMeansPending'
    BY <1>3, <1>5, <1>8
    DEF Flushed, PendingCoversTheGap, BoundedLoss, FlushFailedMeansPending
<1> QED BY <1>3, <1>5, <1>8, <1>9, <1>10 DEF Flushed, Queues

LEMMA FlushIInv ==
    ASSUME StoreIInv, Flush
    PROVE  /\ StoreIInv'
           /\ table' \in {table, cache} /\ idTable' \in {idTable, idCache}
           /\ ~flushFailed' => table' = cache /\ idTable' = idCache
<1> USE DEF StoreIInv
<1>1. /\ Tables(table, idTable) /\ Queues(pending, pendingId)
      /\ flushFailed \in BOOLEAN /\ since \in {"none", "recent", "overdue"}
      /\ flushFailed => pending # <<>> \/ pendingId # <<>>
    BY DEF StoreTypeOK, Tables, Queues, Rows, IdRows, FlushFailedMeansPending
<1>2. /\ up /\ UNCHANGED <<cache, idCache, up, runId>>
      /\ FlushQueues(pending, pendingId)
      /\ Merged(table, pending) = cache /\ MergedId(idTable, pendingId) = idCache
    BY DEF Flush, PendingCoversTheGap
<1>3. /\ Flushed(pending, pendingId)
      /\ ~flushFailed' => /\ pending' = <<>> /\ pendingId' = <<>>
                          /\ table' = Merged(table, pending)
                          /\ idTable' = MergedId(idTable, pendingId)
    BY <1>1, <1>2, FlushQueuesFlushes
<1>4. StoreTypeOK'
    BY <1>2, <1>3 DEF StoreTypeOK, Flushed, Tables, Queues, Rows, IdRows
<1>5. PendingCoversTheGap' /\ FlushFailedMeansPending'
    BY <1>2, <1>3 DEF Flushed, PendingCoversTheGap, FlushFailedMeansPending
<1>6. BoundedLoss'
    BY <1>3, BatchAssumption DEF BoundedLoss
<1> QED BY <1>2, <1>3, <1>4, <1>5, <1>6 DEF Flushed, Queues

LEMMA OpenIInv ==
    ASSUME StoreIInv, NEW r \in RunIds, Open(r)
    PROVE  StoreIInv'
<1>1. StoreTypeOK'
    <2>1. /\ <<>> \in Seq(Entry(Keys, Row))
          /\ <<>> \in Seq(Entry(IdKeys, IdRow))
        OBVIOUS
    <2> QED BY <2>1 DEF StoreIInv, Open, StoreTypeOK
<1>2. PendingCoversTheGap'
    <2>1. Tables(table, idTable) /\ Queues(<<>>, <<>>)
        BY EmptyQueue DEF StoreIInv, StoreTypeOK, Tables, Queues, Rows, IdRows
    <2>2. Merged(table, <<>>) = table /\ MergedId(idTable, <<>>) = idTable
        BY <2>1, MergeRows, MergeIdRows DEF Tables, Queues
    <2> QED BY <2>2 DEF Open, PendingCoversTheGap
<1>3. BoundedLoss' /\ FlushFailedMeansPending'
    BY BatchAssumption DEF Open, BoundedLoss, FlushFailedMeansPending
<1> QED BY <1>1, <1>2, <1>3, EmptyQueue DEF StoreIInv, Open

LEMMA StopIInv ==
    ASSUME StoreIInv, Stop
    PROVE  StoreIInv'
<1>1. StoreTypeOK'
    <2>1. /\ <<>> \in Seq(Entry(Keys, Row))
          /\ <<>> \in Seq(Entry(IdKeys, IdRow))
        OBVIOUS
    <2>2. /\ NoRows \in [Keys -> Row \cup {NoRow}]
          /\ NoIdRows \in [IdKeys -> IdRow \cup {NoRow}]
        BY DEF NoRows, NoIdRows
    <2> QED BY <2>1, <2>2 DEF StoreIInv, Stop, StoreTypeOK
<1>2. PendingCoversTheGap'
    BY DEF Stop, PendingCoversTheGap
<1>3. BoundedLoss' /\ FlushFailedMeansPending'
    BY BatchAssumption DEF Stop, BoundedLoss, FlushFailedMeansPending
<1> QED BY <1>1, <1>2, <1>3, EmptyQueue DEF StoreIInv, Stop

LEMMA FlushSecondsPassIInv ==
    ASSUME StoreIInv, FlushSecondsPass
    PROVE  StoreIInv'
<1>1. StoreTypeOK' /\ BoundedLoss' /\ FlushFailedMeansPending'
    BY DEF StoreIInv, FlushSecondsPass, StoreTypeOK, BoundedLoss, FlushFailedMeansPending
<1>2. PendingCoversTheGap'
    BY DEF StoreIInv, FlushSecondsPass, PendingCoversTheGap, Merged, MergedId
<1> QED BY <1>1, <1>2 DEF StoreIInv, FlushSecondsPass

LEMMA StutterIInv ==
    ASSUME StoreIInv, UNCHANGED storeVars
    PROVE  StoreIInv'
<1>1. StoreTypeOK' /\ BoundedLoss' /\ FlushFailedMeansPending'
    BY DEF StoreIInv, storeVars, StoreTypeOK, BoundedLoss, FlushFailedMeansPending
<1>2. PendingCoversTheGap'
    BY DEF StoreIInv, storeVars, PendingCoversTheGap, Merged, MergedId
<1> QED BY <1>1, <1>2 DEF StoreIInv, storeVars

LEMMA StoreNextIInv == StoreIInv /\ [StoreNext]_storeVars => StoreIInv'
<1> SUFFICES ASSUME StoreIInv, [StoreNext]_storeVars
             PROVE  StoreIInv'
    OBVIOUS
<1>1. CASE \E r \in RunIds : Open(r)
    BY <1>1, OpenIInv
<1>2. CASE \E k \in Keys, a \in LastActions, f \in Fingerprints \cup {Blank},
              t \in TargetIds \cup {Blank} : Record(k, a, f, t)
    BY <1>2, RecordIInv
<1>3. CASE \E k \in IdKeys, t \in TargetIds \cup {Blank} : RecordIdentity(k, t)
    BY <1>3, RecordIdentityIInv
<1>4. CASE Flush
    BY <1>4, FlushIInv
<1>5. CASE FlushSecondsPass
    BY <1>5, FlushSecondsPassIInv
<1>6. CASE Stop
    BY <1>6, StopIInv
<1>7. CASE UNCHANGED storeVars
    BY <1>7, StutterIInv
<1> QED BY <1>1, <1>2, <1>3, <1>4, <1>5, <1>6, <1>7 DEF StoreNext

(* The invariant holds in every state of the store. *)
THEOREM StoreInvariant == StoreSpec => []StoreIInv
<1>1. StoreInit => StoreIInv
    BY StoreInitIInv
<1>2. StoreIInv /\ [StoreNext]_storeVars => StoreIInv'
    BY StoreNextIInv
<1> QED BY <1>1, <1>2, PTL DEF StoreSpec

(* --- the theorems --------------------------------------------------------- *)

(* Every variable of the store keeps its type: record(), the MERGE and load() pass
   on rows, never a marker for a missing one.                                 *)
THEOREM StoreIsTyped == StoreSpec => []StoreTypeOK
<1>1. StoreIInv => StoreTypeOK
    BY DEF StoreIInv
<1> QED BY <1>1, StoreInvariant, PTL

(* Merging the pending rows now would make the tables equal to the in-memory view,
   however often a flush has failed or committed with its answer lost.         *)
THEOREM PendingIsTheGap == StoreSpec => []PendingCoversTheGap
<1>1. StoreIInv => PendingCoversTheGap
    BY DEF StoreIInv
<1> QED BY <1>1, StoreInvariant, PTL

(* While no flush has failed, a process that dies loses less than a batch. *)
THEOREM LossIsBounded == StoreSpec => []BoundedLoss
<1>1. StoreIInv => BoundedLoss
    BY DEF StoreIInv
<1> QED BY <1>1, StoreInvariant, PTL

(* flush_failed is only raised while rows are left to be written. *)
THEOREM FlagMeansPending == StoreSpec => []FlushFailedMeansPending
<1>1. StoreIInv => FlushFailedMeansPending
    BY DEF StoreIInv
<1> QED BY <1>1, StoreInvariant, PTL

(* A flush that raises no flag has saved everything the process recorded. *)
THEOREM FlushSavesOrFlags == StoreSpec => SavedUnlessFlagged
<1>1. StoreIInv =>
        [Flush /\ ~flushFailed' => table' = cache /\ idTable' = idCache]_storeVars
    BY FlushIInv
<1> QED BY <1>1, StoreInvariant, PTL DEF SavedUnlessFlagged

(* --- refinement ------------------------------------------------------------ *)

(* One step of the store is a step of the write-back map of the state rows: a
   record is a Write, whether or not it brings a flush; a flush is a Sync, and so
   is a flush that an identity row brought.                                   *)
LEMMA StateMapStep ==
    ASSUME StoreIInv, [StoreNext]_storeVars
    PROVE  [StateMap!Next]_(StateMap!vars)
<1> USE DEF StateMap!vars, StateMap!Next
<1>1. CASE \E r \in RunIds : Open(r)
    BY <1>1 DEF Open, StateMap!Open
<1>2. ASSUME NEW k \in Keys, NEW a \in LastActions, NEW f \in Fingerprints \cup {Blank},
             NEW t \in TargetIds \cup {Blank}, Record(k, a, f, t)
      PROVE  StateMap!Write
    <2> DEFINE row == CarryForward(cache[k], a, f, t, runId)
    <2>1. cache[k] \in Rows /\ runId \in RunIds
        BY DEF StoreIInv, StoreTypeOK, Rows
    <2>2. row \in Row /\ Keeps(cache[k], row)
        BY <2>1, CarryForwardKeeps
    <2>3. up /\ up' = up /\ cache' = [cache EXCEPT ![k] = row]
        BY <1>2 DEF Record
    <2>4. table' \in {table, cache'}
        BY <1>2, RecordIInv
    <2> HIDE DEF row
    <2>5. StateMap!KeepsTarget(cache[k], row)
        BY <2>2 DEF Keeps, StateMap!KeepsTarget
    <2> QED BY <2>2, <2>3, <2>4, <2>5 DEF StateMap!Write
<1>3. ASSUME NEW k \in IdKeys, NEW t \in TargetIds \cup {Blank}, RecordIdentity(k, t)
      PROVE  [StateMap!Next]_(StateMap!vars)
    <2>1. up /\ up' = up /\ cache' = cache
        BY <1>3 DEF RecordIdentity
    <2>2. table' \in {table, cache}
        BY <1>3, RecordIdentityIInv
    <2> QED BY <2>1, <2>2 DEF StateMap!Sync
<1>4. CASE Flush
    <2>1. up /\ up' = up /\ cache' = cache
        BY <1>4 DEF Flush
    <2>2. table' \in {table, cache}
        BY <1>4, FlushIInv
    <2> QED BY <2>1, <2>2 DEF StateMap!Sync
<1>5. CASE FlushSecondsPass
    BY <1>5 DEF FlushSecondsPass
<1>6. CASE Stop
    BY <1>6 DEF Stop, StateMap!Close, StateMap!Empty, NoRows
<1>7. CASE UNCHANGED storeVars
    BY <1>7 DEF storeVars
<1> QED BY <1>1, <1>2, <1>3, <1>4, <1>5, <1>6, <1>7 DEF StoreNext

LEMMA IdentityMapStep ==
    ASSUME StoreIInv, [StoreNext]_storeVars
    PROVE  [IdentityMap!Next]_(IdentityMap!vars)
<1> USE DEF IdentityMap!vars, IdentityMap!Next
<1>1. CASE \E r \in RunIds : Open(r)
    BY <1>1 DEF Open, IdentityMap!Open
<1>2. ASSUME NEW k \in Keys, NEW a \in LastActions, NEW f \in Fingerprints \cup {Blank},
             NEW t \in TargetIds \cup {Blank}, Record(k, a, f, t)
      PROVE  [IdentityMap!Next]_(IdentityMap!vars)
    <2>1. up /\ up' = up /\ idCache' = idCache
        BY <1>2 DEF Record
    <2>2. idTable' \in {idTable, idCache}
        BY <1>2, RecordIInv
    <2> QED BY <2>1, <2>2 DEF IdentityMap!Sync
<1>3. ASSUME NEW k \in IdKeys, NEW t \in TargetIds \cup {Blank}, RecordIdentity(k, t)
      PROVE  IdentityMap!Write
    <2> DEFINE row == CarryIdForward(idCache[k], t, runId)
    <2>1. idCache[k] \in IdRows /\ runId \in RunIds
        BY DEF StoreIInv, StoreTypeOK, IdRows
    <2>2. row \in IdRow /\ KeepsId(idCache[k], row)
        BY <2>1, CarryIdForwardKeeps
    <2>3. up /\ up' = up /\ idCache' = [idCache EXCEPT ![k] = row]
        BY <1>3 DEF RecordIdentity
    <2>4. idTable' \in {idTable, idCache'}
        BY <1>3, RecordIdentityIInv
    <2> HIDE DEF row
    <2>5. IdentityMap!KeepsTarget(idCache[k], row)
        BY <2>2 DEF KeepsId, IdentityMap!KeepsTarget
    <2> QED BY <2>2, <2>3, <2>4, <2>5 DEF IdentityMap!Write
<1>4. CASE Flush
    <2>1. up /\ up' = up /\ idCache' = idCache
        BY <1>4 DEF Flush
    <2>2. idTable' \in {idTable, idCache}
        BY <1>4, FlushIInv
    <2> QED BY <2>1, <2>2 DEF IdentityMap!Sync
<1>5. CASE FlushSecondsPass
    BY <1>5 DEF FlushSecondsPass
<1>6. CASE Stop
    BY <1>6 DEF Stop, IdentityMap!Close, IdentityMap!Empty, NoIdRows
<1>7. CASE UNCHANGED storeVars
    BY <1>7 DEF storeVars
<1> QED BY <1>1, <1>2, <1>3, <1>4, <1>5, <1>6, <1>7 DEF StoreNext

(* The state table and its view are a write-back map: the durable rows only ever
   become the whole of what the process holds, and no write blanks an id.      *)
THEOREM StateMapRefined == StoreSpec => StateMapSpec
<1>1. StoreInit => StateMap!Init
    BY DEF StoreInit, StateMap!Init, StateMap!Empty, NoRows
<1>2. StoreIInv /\ [StoreNext]_storeVars => [StateMap!Next]_(StateMap!vars)
    BY StateMapStep
<1> QED BY <1>1, <1>2, StoreInvariant, PTL DEF StoreSpec, StateMapSpec, StateMap!Spec

(* So are the identity map and its view. *)
THEOREM IdentityMapRefined == StoreSpec => IdentityMapSpec
<1>1. StoreInit => IdentityMap!Init
    BY DEF StoreInit, IdentityMap!Init, IdentityMap!Empty, NoIdRows
<1>2. StoreIInv /\ [StoreNext]_storeVars => [IdentityMap!Next]_(IdentityMap!vars)
    BY IdentityMapStep
<1> QED BY <1>1, <1>2, StoreInvariant, PTL
        DEF StoreSpec, IdentityMapSpec, IdentityMap!Spec
================================================================================
