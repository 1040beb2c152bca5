------------------------------ MODULE StateStore ------------------------------
(* src/state/state_store.py: the migration state table and the identity map, each
   a Delta table with an in-memory view and a batch of rows waiting for a MERGE.

   A key stands for everything a row is selected by: the table (live, or the
   `_dryrun` twin), the source workspace, the asset type and the natural key.
   Columns that no decision reads (wording, timestamps, tool version) are left
   out; `target_object_id` and `last_source_fingerprint` stand for the columns
   that are carried forward, `last_action` and `last_run_id` for those that are
   overwritten.                                                               *)
EXTENDS Integers, Sequences

CONSTANTS Keys,          \* keys of the state table
          IdKeys,        \* keys of the identity map: (entity type, source key)
          Fingerprints,  \* content hashes of source objects
          TargetIds,     \* ids of objects in the target workspace
          RunIds,        \* ids of bundles, hence of the runs that import them
          Blank,         \* the empty string of an id or a fingerprint column
          NoRow,         \* a key without a row
          BatchSize      \* STATE_BATCH

LastActions == {"created", "created_with_warning", "updated", "skipped", "adopted",
                "failed", "manual", "not_selected", "skipped_no_object",
                "deleted_in_source"}

Row == [target : TargetIds \cup {Blank}, fp : Fingerprints \cup {Blank},
        action : LastActions, run : RunIds]
IdRow == [target : TargetIds \cup {Blank}, run : RunIds]

ASSUME BlankAssumption == Blank \notin Fingerprints \cup TargetIds
ASSUME NoRowAssumption == NoRow \notin Row \cup IdRow
ASSUME BatchAssumption == BatchSize \in Nat \ {0}

VARIABLES
    table, idTable,       \* the two durable tables
    cache, idCache,       \* the in-memory views, pending rows included
    pending, pendingId,   \* rows queued for the next MERGE, oldest first
    flushFailed,          \* rows of a failed flush are still pending
    since,                \* age of the oldest pending row, against FLUSH_SECONDS
    up,                   \* a process has loaded the tables
    runId                 \* the run that process works for

storeVars == <<table, idTable, cache, idCache, pending, pendingId,
               flushFailed, since, up, runId>>

NoRows == [k \in Keys |-> NoRow]
NoIdRows == [k \in IdKeys |-> NoRow]

(* --- rows ---------------------------------------------------------------- *)

OrElse(new, old) == IF new = Blank THEN old ELSE new

TargetOf(row) == IF row = NoRow THEN Blank ELSE row.target
FingerprintOf(row) == IF row = NoRow THEN Blank ELSE row.fp

(* Defect: the prior row itself stands in for its id. *)
CarryRowAsId(prior, action, fp, target, run) ==
    [target |-> OrElse(target, prior), fp |-> OrElse(fp, FingerprintOf(prior)),
     action |-> action, run |-> run]

(* Defect: a blank argument blanks what the row knew. *)
CarryNothing(prior, action, fp, target, run) ==
    [target |-> target, fp |-> fp, action |-> action, run |-> run]

CarryNoId(prior, target, run) == [target |-> target, run |-> run]

(* record(): a blank argument keeps what the in-memory row already knows. *)
CarryForward(prior, action, fp, target, run) ==
    [target |-> OrElse(target, TargetOf(prior)),
     fp     |-> OrElse(fp, FingerprintOf(prior)),
     action |-> action, run |-> run]

CarryIdForward(prior, target, run) ==
    [target |-> OrElse(target, TargetOf(prior)), run |-> run]

(* A MERGE takes one source row per key: the last one queued. *)
Queued(queue, k) == \E i \in DOMAIN queue : queue[i].key = k

(* Defect: the first row queued for a key wins. *)
FirstQueued(queue, k) ==
    queue[CHOOSE i \in DOMAIN queue :
            /\ queue[i].key = k
            /\ \A j \in DOMAIN queue : queue[j].key = k => i <= j].row

LastQueued(queue, k) ==
    queue[CHOOSE i \in DOMAIN queue :
            /\ queue[i].key = k
            /\ \A j \in DOMAIN queue : queue[j].key = k => j <= i].row

(* WHEN MATCHED: COALESCE(NULLIF(s.c, ''), t.c) on the columns never blanked. *)
Coalesce(old, new) ==
    IF old = NoRow THEN new
    ELSE [new EXCEPT !.target = OrElse(new.target, old.target),
                     !.fp = OrElse(new.fp, old.fp)]

CoalesceId(old, new) ==
    IF old = NoRow THEN new
    ELSE [new EXCEPT !.target = OrElse(new.target, old.target)]

Merged(tbl, queue) ==
    [k \in Keys |-> IF Queued(queue, k) THEN Coalesce(tbl[k], LastQueued(queue, k))
                    ELSE tbl[k]]

MergedId(tbl, queue) ==
    [k \in IdKeys |-> IF Queued(queue, k) THEN CoalesceId(tbl[k], LastQueued(queue, k))
                      ELSE tbl[k]]

(* --- flush ---------------------------------------------------------------- *)

(* Defect: only the log hears of a failed flush. *)
FlushFailsSilently ==
    /\ since' = "recent"
    /\ UNCHANGED flushFailed

FlushFails ==
    /\ flushFailed' = TRUE
    /\ since' = "recent"

FlushSucceeds ==
    /\ flushFailed' = FALSE
    /\ since' = "none"

(* flush() over the queues q and qi.  A MERGE that raises has either not run or
   has committed with its answer lost: the rows stay queued in both cases.     *)

FlushQueues(q, qi) ==
    \/ /\ q = <<>> /\ qi = <<>>
       /\ pending' = q /\ pendingId' = qi
       /\ UNCHANGED <<table, idTable, flushFailed, since>>
    \/ /\ q # <<>>
       /\ table' \in {table, Merged(table, q)}
       /\ pending' = q /\ pendingId' = qi
       /\ FlushFails
       /\ UNCHANGED idTable
    \/ /\ qi # <<>>
       /\ table' = Merged(table, q)
       /\ idTable' \in {idTable, MergedId(idTable, qi)}
       /\ pending' = <<>> /\ pendingId' = qi
       /\ FlushFails
    \/ /\ q # <<>> \/ qi # <<>>
       /\ table' = Merged(table, q)
       /\ idTable' = MergedId(idTable, qi)
       /\ pending' = <<>> /\ pendingId' = <<>>
       /\ FlushSucceeds

(* Defect: the batch may grow one row past its limit. *)
FlushDueLate(queued) ==
    \/ queued > BatchSize /\ ~flushFailed
    \/ since = "overdue"

(* _maybe_flush(): after a failed flush only the timer tries again. *)
FlushDue(queued) ==
    \/ queued >= BatchSize /\ ~flushFailed
    \/ since = "overdue"

Enqueue(q, qi, queued) ==
    IF FlushDue(queued) THEN FlushQueues(q, qi)
    ELSE /\ pending' = q /\ pendingId' = qi
         /\ since' = (IF since = "none" THEN "recent" ELSE since)
         /\ UNCHANGED <<table, idTable, flushFailed>>

(* --- operations ----------------------------------------------------------- *)

(* __init__ followed by a load() that passed its row count check. *)
Open(r) ==
    /\ ~up
    /\ up' = TRUE
    /\ runId' = r
    /\ cache' = table
    /\ idCache' = idTable
    /\ pending' = <<>> /\ pendingId' = <<>>
    /\ flushFailed' = FALSE
    /\ since' = "none"
    /\ UNCHANGED <<table, idTable>>

(* record() *)
Record(k, action, fp, target) ==
    LET row == CarryForward(cache[k], action, fp, target, runId)
        queue == Append(pending, [key |-> k, row |-> row])
    IN /\ up
       /\ cache' = [cache EXCEPT ![k] = row]
       /\ Enqueue(queue, pendingId, Len(queue))
       /\ UNCHANGED <<idCache, up, runId>>

(* record_identity() *)
RecordIdentity(k, target) ==
    LET row == CarryIdForward(idCache[k], target, runId)
        queue == Append(pendingId, [key |-> k, row |-> row])
    IN /\ up
       /\ idCache' = [idCache EXCEPT ![k] = row]
       /\ Enqueue(pending, queue, Len(queue))
       /\ UNCHANGED <<cache, up, runId>>

(* flush(), called at a phase end and in the run's `finally`. *)
Flush ==
    /\ up
    /\ FlushQueues(pending, pendingId)
    /\ UNCHANGED <<cache, idCache, up, runId>>

(* FLUSH_SECONDS pass after the oldest pending row was queued. *)
FlushSecondsPass ==
    /\ up
    /\ since = "recent"
    /\ since' = "overdue"
    /\ UNCHANGED <<table, idTable, cache, idCache, pending, pendingId,
                   flushFailed, up, runId>>

(* The process ends, at the end of its run or at any other moment. *)
Stop ==
    /\ up
    /\ up' = FALSE
    /\ cache' = NoRows /\ idCache' = NoIdRows
    /\ pending' = <<>> /\ pendingId' = <<>>
    /\ flushFailed' = FALSE
    /\ since' = "none"
    /\ UNCHANGED <<table, idTable, runId>>

(* --- questions the importers ask ------------------------------------------ *)

(* Defect: a unit without a row is created, whatever the target holds. *)
DecideByRowAlone(row, fp, exists) ==
    CASE row = NoRow \/ ~exists -> "CREATE"
      [] row # NoRow /\ exists /\ row.fp = fp /\ fp # Blank -> "SKIP"
      [] OTHER -> "UPDATE"

(* decide() *)
Decide(row, fp, exists) ==
    CASE row = NoRow /\ exists -> "ADOPT"
      [] ~exists -> "CREATE"
      [] row # NoRow /\ exists /\ row.fp = fp /\ fp # Blank -> "SKIP"
      [] OTHER -> "UPDATE"

RetryModes == {"off", "failed_only", "skipped_only", "failed_and_skipped"}

RetryBucket(mode) ==
    CASE mode = "off" -> {}
      [] mode = "failed_only" -> {"failed"}
      [] mode = "skipped_only" -> {"skipped", "manual", "not_selected", "skipped_no_object"}
      [] mode = "failed_and_skipped" ->
            {"failed", "created_with_warning", "skipped", "manual", "not_selected",
             "skipped_no_object"}

(* retry_keys(): narrows the work list unless the mode is "off". *)
RetryKeys(mode) ==
    {k \in Keys : cache[k] # NoRow /\ cache[k].action \in RetryBucket(mode)}

(* --- specification -------------------------------------------------------- *)

StoreInit ==
    /\ table = NoRows /\ idTable = NoIdRows
    /\ cache = NoRows /\ idCache = NoIdRows
    /\ pending = <<>> /\ pendingId = <<>>
    /\ flushFailed = FALSE
    /\ since = "none"
    /\ up = FALSE
    /\ runId \in RunIds

StoreNext ==
    \/ \E r \in RunIds : Open(r)
    \/ \E k \in Keys, a \in LastActions, f \in Fingerprints \cup {Blank},
          t \in TargetIds \cup {Blank} : Record(k, a, f, t)
    \/ \E k \in IdKeys, t \in TargetIds \cup {Blank} : RecordIdentity(k, t)
    \/ Flush
    \/ FlushSecondsPass
    \/ Stop

StoreSpec == StoreInit /\ [][StoreNext]_storeVars

(* --- properties ----------------------------------------------------------- *)

Entry(keys, rows) == [key : keys, row : rows]

StoreTypeOK ==
    /\ table \in [Keys -> Row \cup {NoRow}]
    /\ idTable \in [IdKeys -> IdRow \cup {NoRow}]
    /\ cache \in [Keys -> Row \cup {NoRow}]
    /\ idCache \in [IdKeys -> IdRow \cup {NoRow}]
    /\ pending \in Seq(Entry(Keys, Row))
    /\ pendingId \in Seq(Entry(IdKeys, IdRow))
    /\ flushFailed \in BOOLEAN
    /\ since \in {"none", "recent", "overdue"}
    /\ up \in BOOLEAN
    /\ runId \in RunIds

(* The rows still pending are exactly what separates the in-memory view from the
   durable tables: merging them now, in whatever batches and however often, would
   make the tables equal to the view. *)
PendingCoversTheGap ==
    up => /\ Merged(table, pending) = cache
          /\ MergedId(idTable, pendingId) = idCache

(* record(): "A HARD crash loses at most < STATE_BATCH rows" -- while no flush
   has failed, fewer than a batch of each table is waiting. *)
BoundedLoss ==
    ~flushFailed => Len(pending) < BatchSize /\ Len(pendingId) < BatchSize

(* flush_failed is raised only while a failed flush has left rows behind, so a
   later flush that writes them clears it. *)
FlushFailedMeansPending ==
    flushFailed => pending # <<>> \/ pendingId # <<>>

(* After any flush the process is either told that rows are unsaved or both
   tables hold everything it recorded: what run_status depends on. *)
SavedUnlessFlagged ==
    [][Flush /\ ~flushFailed' => table' = cache /\ idTable' = idCache]_storeVars

(* Each table with its view implements a write-back map. *)
StateMap == INSTANCE WriteBackMap
    WITH Keys <- Keys, Rows <- Row, Absent <- NoRow, mem <- cache, disk <- table

IdentityMap == INSTANCE WriteBackMap
    WITH Keys <- IdKeys, Rows <- IdRow, Absent <- NoRow, mem <- idCache, disk <- idTable

StateMapSpec == StateMap!Spec
IdentityMapSpec == IdentityMap!Spec
===============================================================================
