-------------------------------- MODULE Store --------------------------------
(***************************************************************************)
(* The Qdrant API over YDB: a collection and its points                    *)
(* (services/CollectionService.ts, services/PointsService.ts and the       *)
(* repositories), with the timers of upsert requests                       *)
(* (middleware/upsertRequestTimeout.ts, upsertBodyPhase.ts).               *)
(*                                                                         *)
(* One collection is modelled: every statement names the collection it     *)
(* works on.  A request runs in a slot; each statement it executes is one  *)
(* step, and the requests of all processes interleave between statements.  *)
(* A statement may be executed although YDB reports an error, and is then  *)
(* executed again; it may fail for good; a bad session makes the whole     *)
(* callback run again; and the process may die.                            *)
(***************************************************************************)
EXTENDS Naturals, Sequences, FiniteSets, Functions, SequencesExt

CONSTANTS Slots,        \* requests that are served at a time
          Ids,          \* point ids
          Dims,         \* vector dimensions
          Menu,         \* the requests clients send, see Request
          Batch,        \* UPSERT_BATCH_SIZE
          Limit,        \* DELETE_FILTER_SELECT_BATCH_SIZE
          SweepLimit,   \* DELETE_COLLECTION_BATCH_SIZE
          Parallel,     \* DELETE_FILTER_PATHS_CHUNK_CONCURRENCY
          Existing,     \* the points that may be stored in the beginning
          MaxRequests, MaxErrors,   \* bounds of the runs
          None

Ops == {"create", "drop", "upsert", "deleteIds", "deletePaths", "clear", "search"}
Paths == UNION { Range([i \in DOMAIN r.points |-> r.points[i].path]) : r \in Menu }

\* Paths and lists of points are sequences, a path that is deleted or searched names
\* a segment (PointsService.ts:64), and None is nothing else.
ASSUME StoreAssumption ==
  /\ \A r \in Menu : /\ r.op \in Ops /\ r.dim \in Dims /\ r.ids \subseteq Ids
                     /\ r.points \in Seq(Range(r.points)) /\ r.paths \in Seq(Range(r.paths))
                     /\ \A i \in DOMAIN r.points : r.points[i].id \in Ids
                     /\ \A p \in Range(r.paths) : p \in Seq(Range(p)) /\ p # <<>>
                     /\ r.op = "upsert" => r.points # <<>>
                     /\ r.op = "deletePaths" => r.paths # <<>> /\ IsInjective(r.paths)
  /\ \A p \in Paths : p \in Seq(Range(p))
  /\ {Batch, Limit, SweepLimit, Parallel} \subseteq Nat \ {0}
  /\ \A p \in Existing : p.id \in Ids /\ p.path \in Paths
  /\ IsFiniteSet(Ids) /\ {MaxRequests, MaxErrors} \subseteq Nat
  /\ None \notin Menu /\ None \notin Dims /\ None \notin [path : Paths, dim : Dims]

VARIABLES
  meta,      \* qdr__collections: the dimension of the collection, or None
  points,    \* qdrant_all_points: points[id] is [path, dim], or None
  lookup,    \* qdrant_points_by_file: pairs <<file_path, point_id>>
  slot,      \* slot[s]: the request served there, see Slot
  requests, errors,   \* how many so far
  was,       \* history: the paths an id ever had lookup rows for
  raced,     \* history: ids upserted and deleted by requests that overlapped
  clash,     \* history: an upsert overlapped a drop or a create, or two creates met
  due        \* history: due[s]: the ids the answer to s speaks for

store == <<meta, points, lookup>>
history == <<was, raced, clash, due>>
vars == <<store, slot, requests, errors, history>>

Sweeping == {"points", "pick", "cut", "lookup", "pickRows", "cutRows", "dropMeta"}
Working == Sweeping \cup {"meta", "write", "sync", "bulk", "deleteIds", "deletePaths", "read"}
Answers == {"none", "ok", "400", "404", "500", "503", "cut"}

Stored == {id \in Ids : points[id] # None}
Uploaded(r) == {r.points[i].id : i \in DOMAIN r.points}
\* expandPathPrefixes
Ancestors(path) == {SubSeq(path, 1, n) : n \in 1 .. Len(path)}
Folders == UNION {Ancestors(p) : p \in Paths}
\* path_prefix = $p OR StartsWith(path_prefix, $p + "/")
Under(path) == {id \in Stored : IsPrefix(path, points[id].path)}
\* what a delete by path finds
BelowTop(path) == {row \in lookup : row[1][1] = path[1]}
Listed(path) == {row \in lookup : row[1] = path}

\* The types, and that a request is answered once, whichever of its timers and its
\* handler comes first (upsertRequestTimeout.ts:135).
TypeOK ==
  /\ meta \in Dims \cup {None}
  /\ \A id \in Stored : points[id].path \in Paths /\ points[id].dim \in Dims
  /\ lookup \subseteq Folders \X Ids
  /\ \A s \in Slots :
       /\ slot[s].pc \in Working \cup {"idle", "body"}
       /\ slot[s].answer \in Answers /\ slot[s].said \in {0, 1}
       /\ slot[s].pc = "body" => slot[s].answer \in {"none", "503"}
       /\ slot[s].pc # "idle" => slot[s].request \in Menu
       /\ slot[s].pc = "cut" => slot[s].sel \subseteq Ids
       /\ slot[s].pc = "cutRows" => slot[s].sel \subseteq Folders \X Ids
       /\ slot[s].pc = "deletePaths" => slot[s].sel \subseteq DOMAIN slot[s].request.paths
       /\ slot[s].pc \in {"sync", "bulk"} => slot[s].at \in DOMAIN slot[s].request.points
       /\ due[s] \subseteq Ids
  /\ raced \subseteq Ids
  /\ clash \in BOOLEAN

Free == [pc |-> "idle", request |-> None, answer |-> "none", said |-> 0,
         at |-> 1, sel |-> {}, failed |-> FALSE]

\* The collection is missing, or it exists with no points or with one.
Init ==
  /\ meta \in Dims \cup {None}
  /\ \/ /\ meta # None
        /\ \E p \in Existing :
             /\ points = [id \in Ids |-> IF id = p.id THEN [path |-> p.path, dim |-> meta] ELSE None]
             /\ lookup = Ancestors(p.path) \X {p.id}
             /\ was = [id \in Ids |-> IF id = p.id THEN {p.path} ELSE {}]
     \/ /\ points = [i \in Ids |-> None]
        /\ lookup = {}
        /\ was = [i \in Ids |-> {}]
  /\ slot = [s \in Slots |-> Free]
  /\ requests = 0 /\ errors = 0
  /\ raced = {} /\ clash = FALSE /\ due = [s \in Slots |-> {}]

-----------------------------------------------------------------------------
(* Requests, answers and timers.                                           *)

\* A response is sent once: shouldSkipResponse, headersSent.
SaysAgain(s, a) == [slot[s] EXCEPT !.answer = a, !.said = @ + 1]
Says(s, a) == IF slot[s].answer = "none"
              THEN [slot[s] EXCEPT !.answer = a, !.said = @ + 1]
              ELSE slot[s]
Done(s, a) == [Says(s, a) EXCEPT !.pc = "idle", !.sel = {}]
At(s, pc) == [slot[s] EXCEPT !.pc = pc, !.sel = {}]

Serves(s, op) == slot[s].pc # "idle" /\ slot[s].request.op = op

Send(s) ==
  /\ slot[s].pc = "idle" /\ requests < MaxRequests
  /\ \E r \in Menu :
       /\ slot' = [slot EXCEPT ![s] =
            [Free EXCEPT !.request = r, !.pc = IF r.op = "upsert" THEN "body" ELSE "meta"]]
       /\ due' = [due EXCEPT ![s] = IF r.op = "upsert" THEN Uploaded(r) ELSE {}]
  /\ requests' = requests + 1
  /\ UNCHANGED <<store, errors, was, raced, clash>>

\* The body has arrived and is parsed in one turn of the event loop.  A
\* request that timed out meanwhile goes no further, one that took too long
\* is told so; otherwise the processing timer is armed.
TakeBody(s) ==
  /\ slot[s].pc = "body"
  /\ \/ slot[s].answer = "none" /\ slot' = [slot EXCEPT ![s].pc = "meta"]
     \/ slot' = [slot EXCEPT ![s] = Done(s, "503")]
  /\ UNCHANGED <<store, requests, errors, history>>

\* The client goes away, or the body is not valid JSON.
BadBody(s) ==
  /\ slot[s].pc = "body"
  /\ slot' = [slot EXCEPT ![s] = Done(s, "400")]
  /\ UNCHANGED <<store, requests, errors, history>>

BodyArmed(s) == slot[s].pc = "body" /\ slot[s].answer = "none"
ArmedLate(s) == Serves(s, "upsert") /\ slot[s].pc = "bulk" /\ slot[s].answer = "none"
ProcessingArmed(s) == /\ Serves(s, "upsert") /\ slot[s].pc \in Working
                      /\ slot[s].answer = "none"

TimeOut(s, armed) ==
  /\ armed
  /\ slot' = [slot EXCEPT ![s] = Says(s, "503")]
  /\ UNCHANGED <<store, requests, errors, history>>
BodyTimeout(s) == TimeOut(s, BodyArmed(s))
\* The handler goes on after the client has been told 503.
ProcessingTimeout(s) == TimeOut(s, ProcessingArmed(s))

Crash ==
  /\ errors < MaxErrors /\ \E s \in Slots : slot[s].pc # "idle"
  /\ errors' = errors + 1
  /\ slot' = [s \in Slots |-> IF slot[s].pc = "idle" THEN slot[s] ELSE Done(s, "cut")]
  /\ UNCHANGED <<store, requests, history>>

-----------------------------------------------------------------------------
(* What statements have in common.                                         *)

\* A statement was executed: the request goes on, or it is told that the
\* outcome is unknown and executes it again (withRetry, withSessionRetry).
Executed(s, next) ==
  \/ slot' = [slot EXCEPT ![s] = next] /\ UNCHANGED errors
  \/ errors < MaxErrors /\ errors' = errors + 1 /\ UNCHANGED slot

Uploading(t) == slot[t].pc \in {"sync", "bulk"}
Overlap(s, test(_)) == \E t \in Slots \ {s} : test(t)
Recreating(t) == \/ slot[t].pc \in Sweeping /\ slot[t].request.op = "drop"
                 \/ slot[t].pc = "write"
IsSweeping(t) == slot[t].pc \in Sweeping

\* History: a statement of s removed points and wrote others.
Noted(s, removed, written) ==
  due' = [t \in Slots |->
            IF t = s THEN due[t]
            ELSE IF slot[t].request # None /\ slot[t].request.op = "upsert"
                 THEN due[t] \ (removed \cup written)
                 ELSE due[t] \ written]
\* History: a statement of s deleted lookup rows of these ids.
Raced(s, ids) ==
  raced' = raced \cup {id \in ids : \E t \in Slots \ {s} :
                          Uploading(t) /\ id \in Uploaded(slot[t].request)}

Removed(ids) == [id \in Ids |-> IF id \in ids THEN None ELSE points[id]]
RowsOf(ids) == {row \in lookup : row[2] \in ids}
IdsOf(rows) == {row[2] : row \in rows}
\* as many as the statement's LIMIT lets through
Picks(set, limit) == {part \in SUBSET set : Cardinality(part) = Min({limit, Cardinality(set)})}

Gone(s) == LET r == slot[s].request
               below == UNION {Under(p) : p \in Range(r.paths)}
           IN CASE r.op \in {"drop", "clear"} -> IF meta = None THEN {} ELSE Stored
                [] r.op = "deleteIds" -> r.ids \cap Stored
                [] r.op = "deletePaths" -> below \ raced
                [] OTHER -> due[s]

-----------------------------------------------------------------------------
(* The requests.                                                           *)

\* the dimension that is asked for is the collection's
AnyFits(r) == TRUE
Fits(r) == r.dim = meta

\* What each request does with the answer of getCollectionMeta.  The collection
\* as it was read is not read again.
OnCreate(s) == IF meta = None THEN At(s, "write")
               ELSE Done(s, IF Fits(slot[s].request) THEN "ok" ELSE "400")
OnDrop(s) == IF meta = None THEN Done(s, "ok") ELSE At(s, "points")
OnUpsert(s) == IF meta = None THEN Done(s, "404")
               ELSE IF Fits(slot[s].request) THEN At(s, "sync") ELSE Done(s, "400")
OnSearch(s) == IF meta = None THEN Done(s, "404")
               ELSE IF Fits(slot[s].request) THEN At(s, "read") ELSE Done(s, "400")
OnDelete(s) == IF meta = None THEN Done(s, "404")
               ELSE At(s, IF slot[s].request.op = "clear" THEN "points" ELSE slot[s].request.op)

\* getCollectionMeta
ReadMeta(s) ==
  /\ slot[s].pc = "meta"
  /\ slot' = [slot EXCEPT ![s] = CASE Serves(s, "create") -> OnCreate(s)
                                   [] Serves(s, "drop") -> OnDrop(s)
                                   [] Serves(s, "upsert") -> OnUpsert(s)
                                   [] Serves(s, "search") -> OnSearch(s)
                                   [] OTHER -> OnDelete(s)]
  /\ due' = [due EXCEPT ![s] = Gone(s)]
  /\ UNCHANGED <<store, requests, errors, was, raced, clash>>

\* createCollection: upsertCollectionMeta
WriteMeta(s) ==
  /\ slot[s].pc = "write"
  /\ meta' = slot[s].request.dim
  /\ Executed(s, Done(s, "ok"))
  /\ clash' = (clash \/ meta # None \/ Overlap(s, Uploading))
  /\ UNCHANGED <<points, lookup, requests, was, raced, due>>

\* The points of the batch that starts at slot[s].at.
InBatch(s) == LET p == slot[s].request.points
              IN {p[i] : i \in slot[s].at .. Min({slot[s].at + Batch - 1, Len(p)})}
FileOnly(batch) == {<<p.path, p.id>> : p \in batch}
LookupRows(batch) == UNION {Ancestors(p.path) \X {p.id} : p \in batch}

\* syncPointsByFileLookupRows
Sync(s) ==
  /\ slot[s].pc = "sync"
  /\ lookup' = lookup \cup LookupRows(InBatch(s))
  /\ Executed(s, At(s, "bulk"))
  /\ was' = [id \in Ids |-> was[id] \cup {p.path : p \in {q \in InBatch(s) : q.id = id}}]
  /\ UNCHANGED <<meta, points, requests, raced, clash, due>>

OnlyBatch(s) == Done(s, "ok")
EndlessBatch(s) == [At(s, "sync") EXCEPT !.at = @ + Batch]
NextBatch(s) == IF slot[s].at + Batch \in DOMAIN slot[s].request.points
                THEN [At(s, "sync") EXCEPT !.at = @ + Batch]
                ELSE Done(s, "ok")

\* bulkUpsert
Bulk(s) ==
  LET new == {p.id : p \in InBatch(s)}
      pathOf(id) == (CHOOSE p \in InBatch(s) : p.id = id).path
  IN /\ slot[s].pc = "bulk"
     /\ points' = [id \in Ids |->
          IF id \in new THEN [path |-> pathOf(id), dim |-> slot[s].request.dim] ELSE points[id]]
     /\ Executed(s, NextBatch(s))
     /\ raced' = IF Overlap(s, IsSweeping) THEN raced \cup new ELSE raced
     /\ clash' = (clash \/ Overlap(s, Recreating))
     /\ Noted(s, {}, new)
     /\ UNCHANGED <<meta, lookup, requests, was>>

\* deletePoints: one transaction on both tables
DeleteIds(s) ==
  LET ids == slot[s].request.ids
  IN /\ slot[s].pc = "deleteIds"
     /\ points' = Removed(ids)
     /\ lookup' = lookup \ RowsOf(ids)
     /\ Executed(s, Done(s, "ok"))
     /\ Raced(s, IdsOf(RowsOf(ids))) /\ Noted(s, ids \cap Stored, {})
     /\ UNCHANGED <<meta, requests, was, clash>>

-----------------------------------------------------------------------------
(* deletePointsByPathSegments.  A chunk of paths is one path here; Parallel *)
(* chunks run at a time and sel holds those of them that are done.          *)

Chunks(s) == LET n == slot[s].at
             IN n .. Min({n + Parallel - 1, Len(slot[s].request.paths)})
FirstChunks(s, i, failed) ==
  LET next == [slot[s] EXCEPT !.sel = @ \cup {i}]
  IN IF Chunks(s) \subseteq next.sel THEN Done(s, "ok") ELSE next
\* The next chunks start when all of these are settled and none has failed.
NextChunks(s, i, failed) ==
  LET next == [slot[s] EXCEPT !.sel = @ \cup {i}, !.failed = @ \/ failed]
      last == slot[s].at + Parallel > Len(slot[s].request.paths)
  IN IF ~(Chunks(s) \subseteq next.sel) THEN next
     ELSE IF next.failed THEN Done(s, "500")
     ELSE IF last THEN Done(s, "ok")
     ELSE [At(s, "deletePaths") EXCEPT !.at = @ + Parallel]

\* One transaction; it is repeated until it finds no row.
DeleteChunk(s) ==
  /\ slot[s].pc = "deletePaths"
  /\ \E i \in Chunks(s) \ slot[s].sel :
       LET rows == Listed(slot[s].request.paths[i])
       IN \/ /\ rows = {}
             /\ slot' = [slot EXCEPT ![s] = NextChunks(s, i, FALSE)]
             /\ UNCHANGED <<store, raced, due>>
          \/ /\ rows # {}
             /\ \E part \in Picks(rows, Limit) :
                  /\ points' = Removed(IdsOf(part))
                  /\ lookup' = lookup \ part
                  /\ Raced(s, IdsOf(part)) /\ Noted(s, IdsOf(part) \cap Stored, {})
             /\ UNCHANGED <<meta, slot>>
  /\ UNCHANGED <<requests, errors, was, clash>>

ChunkFails(s) ==
  /\ slot[s].pc = "deletePaths" /\ errors < MaxErrors
  /\ errors' = errors + 1
  /\ \E i \in Chunks(s) \ slot[s].sel :
       slot' = [slot EXCEPT ![s] = NextChunks(s, i, TRUE)]
  /\ UNCHANGED <<store, requests, history>>

-----------------------------------------------------------------------------
(* deleteAllPointsForCollection: a BATCH DELETE of each table, or, where    *)
(* YDB does not support it or runs out of memory, a loop that selects some  *)
(* rows and then deletes them.                                              *)

AfterSweep(s) == IF slot[s].request.op = "drop" THEN At(s, "dropMeta") ELSE Done(s, "ok")
FirstOf(s) == At(s, "points")

SweepPoints(s, ids, next) ==
  /\ points' = Removed(ids)
  /\ Executed(s, next)
  /\ Noted(s, ids \cap Stored, {})
  /\ UNCHANGED <<meta, lookup, requests, was, raced, clash>>
SweepRows(s, rows, next) ==
  /\ lookup' = lookup \ rows
  /\ Executed(s, next)
  /\ Raced(s, IdsOf(rows))
  /\ UNCHANGED <<meta, points, requests, was, clash, due>>

BatchDelete(s) ==
  \/ slot[s].pc = "points" /\ SweepPoints(s, Stored, At(s, "lookup"))
  \/ slot[s].pc = "lookup" /\ SweepRows(s, lookup, AfterSweep(s))

\* The first SELECT follows a BATCH DELETE that failed.
Select(s) ==
  /\ \/ /\ slot[s].pc \in {"points", "pick"}
        /\ \E ids \in Picks(Stored, SweepLimit) :
             slot' = [slot EXCEPT ![s] =
               IF ids = {} THEN At(s, "lookup") ELSE [At(s, "cut") EXCEPT !.sel = ids]]
     \/ /\ slot[s].pc \in {"lookup", "pickRows"}
        /\ \E rows \in Picks(lookup, SweepLimit) :
             slot' = [slot EXCEPT ![s] =
               IF rows = {} THEN AfterSweep(s) ELSE [At(s, "cutRows") EXCEPT !.sel = rows]]
  /\ UNCHANGED <<store, requests, errors, history>>

Cut(s) ==
  \/ slot[s].pc = "cut" /\ SweepPoints(s, slot[s].sel, At(s, "pick"))
  \/ slot[s].pc = "cutRows" /\ SweepRows(s, slot[s].sel, At(s, "pickRows"))

DropMeta(s) ==
  /\ slot[s].pc = "dropMeta"
  /\ meta' = None
  /\ Executed(s, Done(s, "ok"))
  /\ clash' = (clash \/ Overlap(s, Uploading))
  /\ UNCHANGED <<points, lookup, requests, was, raced, due>>

-----------------------------------------------------------------------------
(* searchPoints: the points under one of the paths, or all of them.        *)

Search(s) ==
  LET r == slot[s].request
      hits == IF r.paths = <<>> THEN Stored ELSE UNION {Under(p) : p \in Range(r.paths)}
  IN /\ slot[s].pc = "read"
     /\ slot' = [slot EXCEPT ![s] = [Done(s, "ok") EXCEPT !.sel = hits]]
     /\ UNCHANGED <<store, requests, errors, history>>

-----------------------------------------------------------------------------
(* Errors.                                                                 *)

\* The retries are used up, or the error is not a transient one.
Fail(s) ==
  /\ slot[s].pc \in Working \ {"deletePaths"} /\ errors < MaxErrors
  /\ errors' = errors + 1
  /\ slot' = [slot EXCEPT ![s] = Done(s, "500")]
  /\ UNCHANGED <<store, requests, history>>

\* The session is bad: the callback of withSession, or of withRetry, starts
\* again, for an upsert with the first batch.
Rerun(s) ==
  /\ errors < MaxErrors /\ errors' = errors + 1
  /\ \/ Uploading(s) /\ slot' = [slot EXCEPT ![s] = [At(s, "sync") EXCEPT !.at = 1]]
     \/ IsSweeping(s) /\ slot[s].pc # "dropMeta" /\ slot' = [slot EXCEPT ![s] = FirstOf(s)]
  /\ UNCHANGED <<store, requests, history>>

-----------------------------------------------------------------------------
Statement(s) ==
  \/ ReadMeta(s) \/ WriteMeta(s) \/ Sync(s) \/ Bulk(s)
  \/ DeleteIds(s) \/ DeleteChunk(s) \/ ChunkFails(s)
  \/ BatchDelete(s) \/ Select(s) \/ Cut(s) \/ DropMeta(s) \/ Search(s)
  \/ Fail(s) \/ Rerun(s)

Next ==
  \/ \E s \in Slots :
       \/ Send(s) \/ TakeBody(s) \/ BadBody(s)
       \/ BodyTimeout(s) \/ ProcessingTimeout(s)
       \/ Statement(s)
  \/ Crash

Spec == Init /\ [][Next]_vars

\* Timers fire.  Nothing is assumed of clients or of the database.
FairSpec == Spec /\ \A s \in Slots : WF_vars(BodyTimeout(s)) /\ WF_vars(ProcessingTimeout(s))

-----------------------------------------------------------------------------
(* Properties.                                                             *)

Answered(s, op) == /\ slot[s].pc = "idle" /\ slot[s].answer = "ok"
                   /\ slot[s].request.op = op

\* A delete by path finds the points that a search under the path finds:
\* every stored point has the lookup row of each directory above it, however
\* upserts fail half way, run again or overlap other upserts.  Excepted are
\* ids that an upsert and a delete worked on at the same time: the upsert
\* writes its lookup rows first, and a delete between the two statements
\* removes them (Upsert.ts:307).
DeleteFindsWhatSearchFinds ==
  \A path \in Folders :
    Under(path) \ raced \subseteq IdsOf(Listed(path))

\* What a delete, a clear or a drop was told to remove is not there any more
\* when it is answered, except for what others upserted since it began.
DeletedIsGone ==
  \A s \in Slots :
    (\E op \in {"drop", "clear", "deleteIds", "deletePaths"} : Answered(s, op))
    => due[s] \cap Stored = {}

\* When an upsert is answered "completed", all its batches are stored,
\* except for points others wrote or removed since it was sent.
CompletedIsWhole ==
  \A s \in Slots : Answered(s, "upsert") =>
    \A i \in DOMAIN slot[s].request.points :
      LET p == slot[s].request.points[i]
      IN p.id \in due[s] => points[p.id] = [path |-> p.path, dim |-> slot[s].request.dim]

\* Points belong to a collection that exists, and have its dimension, also
\* after a crash in the middle of a drop and when the collection is created
\* again with another dimension; unless an upsert overlapped the drop or two
\* creations met (CollectionService.ts:70), when nothing prevents it.
PointsOfCollection ==
  ~clash => \A id \in Stored : points[id].dim = meta

\* A point disappears only through a request that names its id, a directory
\* above it, or the whole collection.  Excepted are ids that were upserted
\* with more than one path: the rows of the old path stay, and a delete of
\* the old directory takes the point along (Upsert.ts:117, Delete.ts:213).
RemovedOnPurpose ==
  [][\A id \in Ids : points[id] # None /\ points'[id] = None =>
       \E s \in Slots :
         /\ slot[s].pc \in Working
         /\ LET r == slot[s].request
            IN \/ r.op \in {"drop", "clear"}
               \/ r.op = "deleteIds" /\ id \in r.ids
               \/ /\ r.op = "deletePaths"
                  /\ \/ \E p \in Range(r.paths) : IsPrefix(p, points[id].path)
                     \/ Cardinality(was[id]) > 1]_vars

\* Every upsert is answered although the body may never arrive and the
\* database may never answer.
UpsertsAnswered ==
  \A s \in Slots :
    (slot[s].pc # "idle" /\ slot[s].request.op = "upsert" /\ slot[s].answer = "none")
    ~> (slot[s].answer # "none")
=============================================================================
