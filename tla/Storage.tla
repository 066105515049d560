------------------------------ MODULE Storage ------------------------------
(***************************************************************************)
(* The storage service: uploads that deduplicate content-addressed chunks, *)
(* the client's deletes, and the garbage collector of the worker, against  *)
(* PostgreSQL (READ COMMITTED, row locks, foreign keys) and an object      *)
(* store.  One action per statement or call that another process can       *)
(* interleave with.  Row locks are not state: they follow from where the   *)
(* processes that hold them are.                                           *)
(***************************************************************************)
EXTENDS Naturals, Sequences, FiniteSets

CONSTANTS Uploads,            \* UploadFile requests; a request also names the row it creates
          Collectors,         \* worker processes, each running RunGarbageCollection in turn
          Hashes,             \* contents of a chunk
          ChunkIDs,           \* identifiers of chunk rows
          Contents,           \* what a request may carry: sequences of chunk contents
          NoChunk, NoHash,
          MaxAttempts,        \* the loop bound of GetOrCreateChunk
          MaxCollectorFaults, \* bound on errors and stops of collectors
          SlowUploads         \* TRUE: an upload may outlast the collector's minAge

ASSUME ContentsAssumption == Contents \subseteq Seq(Hashes)
ASSUME NoChunkAssumption == NoChunk \notin ChunkIDs
ASSUME NoHashAssumption == NoHash \notin Hashes
ASSUME BoundsAssumption ==
  /\ MaxAttempts \in Nat \ {0}
  /\ MaxCollectorFaults \in Nat
  /\ SlowUploads \in BOOLEAN

VARIABLES
  \* an UploadFile call
  content,       \* content[u]: the chunks of the request's stream
  pc,            \* where the call is
  index,         \* chunkIndex of storeChunks
  attempt,       \* the loop variable of GetOrCreateChunk
  chunk,         \* the chunk row the open transaction works on, NoChunk without one
  \* table files, table file_chunks
  files,         \* files[u]: "none", "uploading" or "ready"
  stale,         \* uploading rows whose updated_at lies more than minAge back
  links,         \* committed rows of file_chunks
  \* table chunks
  row,           \* row[c]: "absent", "inserting" (uncommitted) or "live"
  hashOf,        \* the hash column, NoHash for an absent row
  aged,          \* rows whose created_at lies more than minAge back
  \* the MinIO bucket, the Redis stream
  objects,       \* hashes with a stored object
  events,        \* uploads whose file_uploaded event was appended
  \* a RunGarbageCollection call
  gcPc, todo, target,
  faults,        \* errors and stops of collectors so far
  \* history
  halfCollected, \* live rows whose object a collection that did not commit deleted
  staleGrants,   \* rows a collector locked although a file referenced them
  removed,       \* files a client removed
  outlasted      \* uploads that were in flight when a minAge went by

uploadVars == <<content, pc, index, attempt, chunk>>
fileVars == <<files, stale, links>>
rowVars == <<row, hashOf, aged>>
gcVars == <<gcPc, todo, target, faults>>
history == <<halfCollected, staleGrants, removed, outlasted>>
vars == <<uploadVars, fileVars, rowVars, objects, events, gcVars, history>>

UploadPCs == {"start", "insert", "select", "share", "put", "link", "commit",
              "publish", "event", "abandon", "done", "failed"}
CollectorPCs == {"idle", "scan", "pick", "lock", "object", "record", "commit"}
Link == [file : Uploads, index : Nat, chunk : ChunkIDs]

TypeOK ==
  /\ content \in [Uploads -> Contents]
  /\ pc \in [Uploads -> UploadPCs]
  /\ index \in [Uploads -> Nat]
  /\ attempt \in [Uploads -> Nat]
  /\ chunk \in [Uploads -> ChunkIDs \cup {NoChunk}]
  /\ files \in [Uploads -> {"none", "uploading", "ready"}]
  /\ stale \subseteq Uploads
  /\ links \subseteq Link
  /\ row \in [ChunkIDs -> {"absent", "inserting", "live"}]
  /\ hashOf \in [ChunkIDs -> Hashes \cup {NoHash}]
  /\ aged \subseteq ChunkIDs
  /\ objects \subseteq Hashes
  /\ events \subseteq Uploads
  /\ gcPc \in [Collectors -> CollectorPCs]
  /\ todo \in [Collectors -> SUBSET ChunkIDs]
  /\ target \in [Collectors -> ChunkIDs \cup {NoChunk}]
  /\ faults \in 0..MaxCollectorFaults
  /\ halfCollected \subseteq ChunkIDs
  /\ staleGrants \subseteq ChunkIDs
  /\ removed \subseteq Uploads
  /\ outlasted \subseteq Uploads

Init ==
  /\ content \in [Uploads -> Contents]
  /\ pc = [u \in Uploads |-> "start"]
  /\ index = [u \in Uploads |-> 0]
  /\ attempt = [u \in Uploads |-> 0]
  /\ chunk = [u \in Uploads |-> NoChunk]
  /\ files = [u \in Uploads |-> "none"]
  /\ stale = {} /\ links = {}
  /\ row = [c \in ChunkIDs |-> "absent"]
  /\ hashOf = [c \in ChunkIDs |-> NoHash]
  /\ aged = {} /\ objects = {} /\ events = {}
  /\ gcPc = [g \in Collectors |-> "idle"]
  /\ todo = [g \in Collectors |-> {}]
  /\ target = [g \in Collectors |-> NoChunk]
  /\ faults = 0
  /\ halfCollected = {} /\ staleGrants = {} /\ removed = {} /\ outlasted = {}

-----------------------------------------------------------------------------
(* Rows and locks.                                                         *)

Referenced(c) == \E l \in links : l.chunk = c

(* Rows a statement's snapshot can see under a hash; the UNIQUE constraint *)
(* leaves at most one.                                                     *)
LiveRows(h) == {c \in ChunkIDs : row[c] = "live" /\ hashOf[c] = h}

(* Faulty variant: GetOrCreateChunk reads the row with a plain SELECT.     *)
NoShareLock(c) == FALSE

(* FOR SHARE, from GetOrCreateChunk until the chunk transaction ends.      *)
ShareLocked(c) == \E u \in Uploads : chunk[u] = c /\ pc[u] \in {"link", "commit"}

(* Faulty variant: the collector's lock ends with the object delete.       *)
LockedForObjectOnly(c) == \E g \in Collectors : target[g] = c /\ gcPc[g] = "object"

(* FOR UPDATE, from LockOrphanedChunk until the collection ends.           *)
ExclusivelyLocked(c) ==
  \E g \in Collectors : target[g] = c /\ gcPc[g] \in {"object", "record", "commit"}

(* DeleteChunkRecord has run and its transaction is open.                  *)
PendingDelete(c) == \E g \in Collectors : target[g] = c /\ gcPc[g] = "commit"

(* A generated UUID: no row has it and no process remembers it.            *)
Fresh(c) ==
  /\ row[c] = "absent"
  /\ \A u \in Uploads : chunk[u] # c
  /\ \A g \in Collectors : target[g] # c /\ c \notin todo[g]

InFlight(u) == pc[u] \notin {"start", "done", "failed"}

(* ON DELETE CASCADE of file_chunks.file_id.                               *)
DropFiles(F) ==
  /\ files' = [u \in Uploads |-> IF u \in F THEN "none" ELSE files[u]]
  /\ links' = {l \in links : l.file \notin F}
  /\ stale' = stale \ F

-----------------------------------------------------------------------------
(* An UploadFile call.                                                     *)

(* Faulty variant: the last chunk is hashed with the buffer's stale tail.  *)
PaddedHash(u) == <<content[u][index[u] + 1], "stale tail">>

(* The hash of the chunk the call is storing.                              *)
Hash(u) == content[u][index[u] + 1]

(* Faulty variant: the read that meets the end of the stream is dropped.   *)
DropLastChunk(u, k) == IF k + 1 >= Len(content[u]) THEN "publish" ELSE "insert"

(* What follows k stored chunks: storeChunks ends when the stream does.    *)
(* Its two exits, a short read and a read of nothing after a full chunk,   *)
(* leave the same state; a failing read is an error like any other.        *)
AfterChunks(u, k) == IF k = Len(content[u]) THEN "publish" ELSE "insert"

(* A rollback removes the row the transaction inserted, if it did.         *)
Rollback(u) ==
  /\ row' = [c \in ChunkIDs |->
               IF c = chunk[u] /\ row[c] = "inserting" THEN "absent" ELSE row[c]]
  /\ hashOf' = [c \in ChunkIDs |-> IF row'[c] = "absent" THEN NoHash ELSE hashOf[c]]
  /\ aged' = {c \in aged : row'[c] # "absent"}
  /\ chunk' = [chunk EXCEPT ![u] = NoChunk]

(* The request is refused before a row exists: a foreign folder, a taken   *)
(* name, an unreadable stream.                                             *)
RejectUpload(u) ==
  /\ pc[u] = "start"
  /\ pc' = [pc EXCEPT ![u] = "failed"]
  /\ UNCHANGED <<content, index, attempt, chunk, fileVars, rowVars, objects, events,
                 gcVars, history>>

(* CreateFile commits an uploading row; when its answer is lost the call   *)
(* returns the error and does not know the row.                            *)
CreateFile(u) ==
  /\ pc[u] = "start"
  /\ files' = [files EXCEPT ![u] = "uploading"]
  /\ \E next \in {AfterChunks(u, 0), "failed"} : pc' = [pc EXCEPT ![u] = next]
  /\ UNCHANGED <<content, index, attempt, chunk, stale, links, rowVars, objects, events,
                 gcVars, history>>

(* INSERT ... ON CONFLICT DO NOTHING finds neither a row nor an            *)
(* uncommitted one: the transaction owns a new row.                        *)
InsertNew(u) ==
  /\ pc[u] = "insert"
  /\ \A c \in ChunkIDs : hashOf[c] # Hash(u)
  /\ \E c \in ChunkIDs :
       /\ Fresh(c)
       /\ row' = [row EXCEPT ![c] = "inserting"]
       /\ hashOf' = [hashOf EXCEPT ![c] = Hash(u)]
       /\ chunk' = [chunk EXCEPT ![u] = c]
  /\ pc' = [pc EXCEPT ![u] = "put"]
  /\ UNCHANGED <<content, index, attempt, fileVars, aged, objects, events, gcVars, history>>

(* The INSERT meets a committed row.  It waits while another transaction's *)
(* insert or delete of that row is undecided, and ignores row locks.       *)
InsertConflict(u) ==
  /\ pc[u] = "insert"
  /\ \E c \in LiveRows(Hash(u)) : ~PendingDelete(c)
  /\ pc' = [pc EXCEPT ![u] = "select"]
  /\ UNCHANGED <<content, index, attempt, chunk, fileVars, rowVars, objects, events,
                 gcVars, history>>

(* Faulty variant: only the SELECT is retried, without a bound.            *)
RetrySelect(u) ==
  /\ pc' = [pc EXCEPT ![u] = "select"]
  /\ chunk' = [chunk EXCEPT ![u] = NoChunk]
  /\ UNCHANGED attempt

(* No row came back: the next round of the loop, or its error.             *)
RetryInsert(u) ==
  /\ attempt' = [attempt EXCEPT ![u] = @ + 1]
  /\ pc' = [pc EXCEPT ![u] = IF attempt[u] + 1 < MaxAttempts THEN "insert" ELSE "abandon"]
  /\ chunk' = [chunk EXCEPT ![u] = NoChunk]

(* Faulty variant: under REPEATABLE READ the snapshot is older than the    *)
(* row the INSERT ran into.                                                *)
SelectOldSnapshot(u) ==
  /\ pc[u] = "select"
  /\ RetryInsert(u)
  /\ UNCHANGED <<content, index, fileVars, rowVars, objects, events, gcVars, history>>

(* SELECT ... FOR SHARE takes its snapshot.                                *)
SelectChunk(u) ==
  /\ pc[u] = "select"
  /\ \/ /\ LiveRows(Hash(u)) = {}
        /\ RetryInsert(u)
     \/ /\ \E c \in LiveRows(Hash(u)) : chunk' = [chunk EXCEPT ![u] = c]
        /\ pc' = [pc EXCEPT ![u] = "share"]
        /\ UNCHANGED attempt
  /\ UNCHANGED <<content, index, fileVars, rowVars, objects, events, gcVars, history>>

(* ... and then its lock, which a collector's FOR UPDATE delays.  A row    *)
(* deleted meanwhile is not returned.                                      *)
AcquireShare(u) ==
  /\ pc[u] = "share"
  /\ ~ExclusivelyLocked(chunk[u])
  /\ \/ /\ row[chunk[u]] = "live"
        /\ pc' = [pc EXCEPT ![u] = "link"]
        /\ UNCHANGED <<attempt, chunk>>
     \/ /\ row[chunk[u]] # "live"
        /\ RetryInsert(u)
  /\ UNCHANGED <<content, index, fileVars, rowVars, objects, events, gcVars, history>>

(* UploadChunk, for a new row only.  An error may hide a stored object.    *)
UploadChunk(u) ==
  /\ pc[u] = "put"
  /\ objects' = objects \cup {Hash(u)}
  /\ \/ /\ pc' = [pc EXCEPT ![u] = "link"]
        /\ UNCHANGED <<chunk, rowVars>>
     \/ /\ pc' = [pc EXCEPT ![u] = "abandon"]
        /\ Rollback(u)
  /\ UNCHANGED <<content, index, attempt, fileVars, events, gcVars, history>>

(* LinkFileChunk: its foreign key locks the file row until the commit, or  *)
(* fails when the row is gone.                                             *)
LinkFileChunk(u) ==
  /\ pc[u] = "link"
  /\ \/ /\ files[u] # "none"
        /\ pc' = [pc EXCEPT ![u] = "commit"]
        /\ UNCHANGED <<chunk, rowVars>>
     \/ /\ files[u] = "none"
        /\ pc' = [pc EXCEPT ![u] = "abandon"]
        /\ Rollback(u)
  /\ UNCHANGED <<content, index, attempt, fileVars, objects, events, gcVars, history>>

(* The chunk transaction commits and storeChunks goes on, unless the       *)
(* answer to the commit is lost.                                           *)
CommitChunk(u) ==
  /\ pc[u] = "commit"
  /\ links' = links \cup {[file |-> u, index |-> index[u], chunk |-> chunk[u]]}
  /\ row' = [row EXCEPT ![chunk[u]] = "live"]
  /\ chunk' = [chunk EXCEPT ![u] = NoChunk]
  /\ index' = [index EXCEPT ![u] = @ + 1]
  /\ attempt' = [attempt EXCEPT ![u] = 0]
  /\ \E next \in {AfterChunks(u, index[u] + 1), "abandon"} : pc' = [pc EXCEPT ![u] = next]
  /\ UNCHANGED <<content, files, stale, hashOf, aged, objects, events, gcVars, history>>

(* Faulty variant: the status update creates a row that is missing.        *)
UpsertFile(u) ==
  /\ pc[u] = "publish"
  /\ files' = [files EXCEPT ![u] = "ready"]
  /\ stale' = stale \ {u}
  /\ \E next \in {"event", "abandon"} : pc' = [pc EXCEPT ![u] = next]
  /\ UNCHANGED <<content, index, attempt, chunk, links, rowVars, objects, events,
                 gcVars, history>>

(* UpdateFileSizeAndStatus, the commit point of the upload.  It does not   *)
(* look at the number of rows it updated.  An error may hide the update.   *)
PublishFile(u) ==
  /\ pc[u] = "publish"
  /\ files' = [files EXCEPT ![u] = IF @ = "uploading" THEN "ready" ELSE @]
  /\ stale' = stale \ {u}
  /\ \E next \in {"event", "abandon"} : pc' = [pc EXCEPT ![u] = next]
  /\ UNCHANGED <<content, index, attempt, chunk, links, rowVars, objects, events,
                 gcVars, history>>

(* PublishFileUploaded; its error is discarded and the client is answered. *)
PublishFileUploaded(u) ==
  /\ pc[u] = "event"
  /\ events' \in {events, events \cup {u}}
  /\ pc' = [pc EXCEPT ![u] = "done"]
  /\ UNCHANGED <<content, index, attempt, chunk, fileVars, rowVars, objects, gcVars, history>>

(* abandonUpload: DeleteFile, best effort.  It runs under the request's    *)
(* context, so a client that left makes it fail.                           *)
AbandonUpload(u) ==
  /\ pc[u] = "abandon"
  /\ \E F \in {{u}, {}} : DropFiles(F)
  /\ pc' = [pc EXCEPT ![u] = "failed"]
  /\ UNCHANGED <<content, index, attempt, chunk, rowVars, objects, events, gcVars, history>>

(* A read, a statement or a call fails and had no effect.                  *)
FailUpload(u) ==
  /\ pc[u] \in {"insert", "select", "share", "put", "link", "commit", "publish"}
  /\ pc' = [pc EXCEPT ![u] = "abandon"]
  /\ Rollback(u)
  /\ UNCHANGED <<content, index, attempt, fileVars, objects, events, gcVars, history>>

(* The API process dies; PostgreSQL rolls the open transaction back.       *)
CrashUpload(u) ==
  /\ InFlight(u)
  /\ pc' = [pc EXCEPT ![u] = "failed"]
  /\ Rollback(u)
  /\ UNCHANGED <<content, index, attempt, fileVars, objects, events, gcVars, history>>

ProgressUpload(u) ==
  \/ RejectUpload(u) \/ CreateFile(u)
  \/ InsertNew(u) \/ InsertConflict(u) \/ SelectChunk(u) \/ AcquireShare(u)
  \/ UploadChunk(u) \/ LinkFileChunk(u) \/ CommitChunk(u)
  \/ PublishFile(u) \/ PublishFileUploaded(u) \/ AbandonUpload(u)

(* DeleteFile by the owner, or the cascade of DeleteFolder, which also     *)
(* reaches an uploading row.  The DELETE waits for an uncommitted link.    *)
DeleteFile(u) ==
  /\ files[u] # "none"
  /\ pc[u] # "commit"
  /\ DropFiles({u})
  /\ removed' = removed \cup {u}
  /\ UNCHANGED <<uploadVars, rowVars, objects, events, gcVars, halfCollected, staleGrants,
                 outlasted>>

-----------------------------------------------------------------------------
(* A RunGarbageCollection call.                                            *)

(* Faulty variants: no age floor; the wrong status.                        *)
UploadsOfAnyAge == {u \in Uploads : files[u] = "uploading"}
StaleReadyFiles == {u \in stale : files[u] = "ready"}

(* DeleteStaleUploads: uploading rows not touched for minAge.              *)
StaleUploads == {u \in stale : files[u] = "uploading"}

(* Faulty variant: an inner join.                                          *)
JoinedChunks == {c \in ChunkIDs : row[c] = "live" /\ c \in aged /\ Referenced(c)}

(* GetOrphanedChunks: unreferenced rows created more than minAge ago.      *)
OrphanedChunks == {c \in ChunkIDs : row[c] = "live" /\ c \in aged /\ ~Referenced(c)}

(* The predicate of LockOrphanedChunk, on its statement's snapshot.        *)
StillOrphaned(c) == row[c] = "live" /\ ~Referenced(c)

(* The collector is done with its chunk, and with the call after the last. *)
NextChunk(g) ==
  /\ gcPc' = [gcPc EXCEPT ![g] = IF todo'[g] = {} THEN "idle" ELSE "pick"]
  /\ target' = [target EXCEPT ![g] = NoChunk]

(* A collection rolls back after its object delete took effect.            *)
LeaveHalfCollected(g) == halfCollected' = halfCollected \cup {target[g]}

CollectorFault == faults < MaxCollectorFaults /\ faults' = faults + 1

(* The ticker fires; the sweep may fail, which is not fatal.               *)
SweepUploads(g) ==
  /\ gcPc[g] = "idle"
  /\ gcPc' = [gcPc EXCEPT ![g] = "scan"]
  /\ \/ /\ \A u \in StaleUploads : pc[u] # "commit"
        /\ DropFiles(StaleUploads)
        /\ UNCHANGED faults
     \/ /\ CollectorFault
        /\ UNCHANGED fileVars
  /\ UNCHANGED <<uploadVars, rowVars, objects, events, todo, target, history>>

(* The orphan scan.  GetOrphanedChunks does not ask rows.Err(), so a       *)
(* broken read looks like a shorter answer.                                *)
ScanChunks(g) ==
  /\ gcPc[g] = "scan"
  /\ \/ /\ todo' = [todo EXCEPT ![g] = OrphanedChunks]
        /\ UNCHANGED faults
     \/ /\ \E C \in SUBSET OrphanedChunks : todo' = [todo EXCEPT ![g] = C]
        /\ CollectorFault
  /\ NextChunk(g)
  /\ UNCHANGED <<uploadVars, fileVars, rowVars, objects, events, history>>

(* LockOrphanedChunk evaluates its WHERE clause ...                        *)
CheckChunk(g) ==
  /\ gcPc[g] = "pick"
  /\ \E c \in todo[g] :
       /\ todo' = [todo EXCEPT ![g] = @ \ {c}]
       /\ \/ /\ StillOrphaned(c)
             /\ gcPc' = [gcPc EXCEPT ![g] = "lock"]
             /\ target' = [target EXCEPT ![g] = c]
          \/ /\ ~StillOrphaned(c)
             /\ NextChunk(g)
  /\ UNCHANGED <<uploadVars, fileVars, rowVars, objects, events, faults, history>>

(* ... and then waits for the row lock.  A row that was only locked in the *)
(* meantime keeps its version, so READ COMMITTED does not evaluate the     *)
(* clause again; a row that was deleted is not returned (ErrChunkInUse).   *)
LockChunk(g) ==
  /\ gcPc[g] = "lock"
  /\ ~ShareLocked(target[g]) /\ ~ExclusivelyLocked(target[g])
  /\ \/ /\ row[target[g]] = "live"
        /\ gcPc' = [gcPc EXCEPT ![g] = "object"]
        /\ staleGrants' = IF Referenced(target[g]) THEN staleGrants \cup {target[g]}
                                                    ELSE staleGrants
        /\ UNCHANGED <<todo, target>>
     \/ /\ row[target[g]] # "live"
        /\ UNCHANGED <<todo, staleGrants>>
        /\ NextChunk(g)
  /\ UNCHANGED <<uploadVars, fileVars, rowVars, objects, events, faults,
                 halfCollected, removed, outlasted>>

(* DeleteChunk of the object store.  An error may hide the deletion.       *)
DeleteObject(g) ==
  /\ gcPc[g] = "object"
  /\ objects' = objects \ {hashOf[target[g]]}
  /\ \/ /\ gcPc' = [gcPc EXCEPT ![g] = "record"]
        /\ UNCHANGED <<todo, target, faults, halfCollected>>
     \/ /\ CollectorFault
        /\ UNCHANGED todo
        /\ NextChunk(g)
        /\ LeaveHalfCollected(g)
  /\ UNCHANGED <<uploadVars, fileVars, rowVars, events, staleGrants, removed,
                 outlasted>>

(* DeleteChunkRecord; ON DELETE RESTRICT of file_chunks.chunk_id refuses a *)
(* referenced row.                                                         *)
DeleteChunkRecord(g) ==
  /\ gcPc[g] = "record"
  /\ \/ /\ ~Referenced(target[g])
        /\ gcPc' = [gcPc EXCEPT ![g] = "commit"]
        /\ UNCHANGED <<todo, target, halfCollected>>
     \/ /\ Referenced(target[g])
        /\ UNCHANGED todo
        /\ NextChunk(g)
        /\ LeaveHalfCollected(g)
  /\ UNCHANGED <<uploadVars, fileVars, rowVars, objects, events, faults, staleGrants, removed,
                 outlasted>>

CommitCollection(g) ==
  /\ gcPc[g] = "commit"
  /\ row' = [row EXCEPT ![target[g]] = "absent"]
  /\ hashOf' = [hashOf EXCEPT ![target[g]] = NoHash]
  /\ aged' = aged \ {target[g]}
  /\ halfCollected' = halfCollected \ {target[g]}
  /\ staleGrants' = staleGrants \ {target[g]}
  /\ UNCHANGED todo
  /\ NextChunk(g)
  /\ UNCHANGED <<uploadVars, fileVars, objects, events, faults, removed, outlasted>>

ProgressCollector(g) ==
  \/ SweepUploads(g) \/ ScanChunks(g) \/ CheckChunk(g) \/ LockChunk(g)
  \/ DeleteObject(g) \/ DeleteChunkRecord(g) \/ CommitCollection(g)

(* Whether a transaction that ends here had its object deleted.            *)
ObjectDeleted(g) == gcPc[g] \in {"record", "commit"}

(* A step of a collection fails without effect: rollback, next chunk.      *)
FailCollection(g) ==
  /\ gcPc[g] \in {"pick", "lock", "object", "record", "commit"}
  /\ CollectorFault
  /\ \E C \in IF gcPc[g] = "pick" THEN {{c} : c \in todo[g]} ELSE {{}} :
       todo' = [todo EXCEPT ![g] = @ \ C]
  /\ NextChunk(g)
  /\ IF ObjectDeleted(g) THEN LeaveHalfCollected(g) ELSE UNCHANGED halfCollected
  /\ UNCHANGED <<uploadVars, fileVars, rowVars, objects, events, staleGrants, removed,
                 outlasted>>

(* The worker crashes or its context is cancelled: rollback, the call ends.*)
StopCollector(g) ==
  /\ gcPc[g] # "idle"
  /\ CollectorFault
  /\ todo' = [todo EXCEPT ![g] = {}]
  /\ NextChunk(g)
  /\ IF ObjectDeleted(g) THEN LeaveHalfCollected(g) ELSE UNCHANGED halfCollected
  /\ UNCHANGED <<uploadVars, fileVars, rowVars, objects, events, staleGrants, removed,
                 outlasted>>

-----------------------------------------------------------------------------
(* A day goes by: every row of the two tables is now older than minAge.    *)
MinAgePasses ==
  /\ SlowUploads \/ \A u \in Uploads : ~InFlight(u)
  /\ stale' = {u \in Uploads : files[u] = "uploading"}
  /\ aged' = {c \in ChunkIDs : row[c] # "absent"}
  /\ outlasted' = outlasted \cup {u \in Uploads : InFlight(u)}
  /\ UNCHANGED <<uploadVars, files, links, row, hashOf, objects, events, gcVars,
                 halfCollected, staleGrants, removed>>

Next ==
  \/ \E u \in Uploads : ProgressUpload(u) \/ FailUpload(u) \/ CrashUpload(u) \/ DeleteFile(u)
  \/ \E g \in Collectors : ProgressCollector(g) \/ FailCollection(g) \/ StopCollector(g)
  \/ MinAgePasses

Spec == Init /\ [][Next]_vars

(* A process whose next statement or call can return does return: requests *)
(* and workers are goroutines the runtime schedules, and a lock is granted *)
(* once it is free.  The ticker keeps firing and time keeps passing.  No   *)
(* client has to start an upload, and nothing has to fail.                 *)
Fairness ==
  /\ \A u \in Uploads : WF_vars(InFlight(u) /\ ProgressUpload(u))
  /\ \A g \in Collectors : WF_vars(ProgressCollector(g))
  /\ WF_vars(MinAgePasses)

FairSpec == Spec /\ Fairness

-----------------------------------------------------------------------------
(* Properties.                                                             *)

(* A file never references a chunk whose object is gone, except through    *)
(* the two windows of collectChunk: a collection that deleted the object   *)
(* and did not commit, and a lock LockOrphanedChunk was granted after the  *)
(* chunk had gained a reference.  (GetOrCreateChunk's FOR SHARE against    *)
(* the collector's FOR UPDATE.)                                            *)
LossOnlyThroughKnownWindows ==
  \A l \in links :
    hashOf[l.chunk] \in objects \/ l.chunk \in halfCollected \cup staleGrants

(* The handshake between GetOrCreateChunk and collectChunk, as the parts   *)
(* that together survive every step.                                       *)

(* One row per content, uncommitted rows included.                         *)
OneRowPerHash ==
  /\ \A c \in ChunkIDs : row[c] = "absent" <=> hashOf[c] = NoHash
  /\ \A c, d \in ChunkIDs : hashOf[c] = hashOf[d] /\ hashOf[c] # NoHash => c = d

(* What an open chunk transaction may rely on at each of its statements.   *)
TransactionsHoldChunks ==
  \A u \in Uploads :
    /\ pc[u] = "start" => index[u] = 0
    /\ pc[u] \in {"insert", "select", "share", "put", "link", "commit"} =>
         index[u] + 1 \in DOMAIN content[u]
    /\ pc[u] \notin {"share", "put", "link", "commit"} => chunk[u] = NoChunk
    /\ pc[u] = "share" => chunk[u] \in ChunkIDs /\ row[chunk[u]] # "inserting"
    /\ pc[u] \in {"put", "link", "commit"} => chunk[u] \in ChunkIDs /\ row[chunk[u]] # "absent"
    /\ pc[u] = "put" => row[chunk[u]] = "inserting"
    /\ chunk[u] # NoChunk /\ row[chunk[u]] # "absent" => hashOf[chunk[u]] = Hash(u)
    /\ \A v \in Uploads :
         chunk[u] # NoChunk /\ chunk[v] = chunk[u] /\ row[chunk[u]] = "inserting" => v = u

(* What a collection may rely on: its row is there and nobody else's, and  *)
(* once the record is deleted nothing references it.                       *)
CollectionsHoldChunks ==
  \A g \in Collectors :
    /\ gcPc[g] \in {"idle", "scan", "pick"} => target[g] = NoChunk
    /\ gcPc[g] = "lock" => target[g] \in ChunkIDs /\ row[target[g]] # "inserting"
    /\ gcPc[g] \in {"object", "record", "commit"} =>
         /\ target[g] \in ChunkIDs
         /\ row[target[g]] = "live"
         /\ ~ShareLocked(target[g])
         /\ Referenced(target[g]) => target[g] \in staleGrants
         /\ \A k \in Collectors :
              gcPc[k] \in {"object", "record", "commit"} /\ target[k] = target[g] => k = g
    /\ gcPc[g] = "commit" => ~Referenced(target[g])

(* A reference keeps its row.                                              *)
LinksHoldRows == \A l \in links : row[l.chunk] = "live"

(* The object of a committed row is missing only inside a collection or    *)
(* after one of the windows; a new row has its object before it is linked. *)
RowsHoldObjects ==
  /\ \A c \in ChunkIDs :
       row[c] = "live" =>
         \/ hashOf[c] \in objects
         \/ c \in halfCollected \cup staleGrants
         \/ \E g \in Collectors : target[g] = c /\ ObjectDeleted(g)
  /\ \A u \in Uploads :
       pc[u] \in {"link", "commit"} /\ row[chunk[u]] = "inserting" => hashOf[chunk[u]] \in objects

(* Neither window outlives its row, so it never excuses a later one.       *)
WindowsCloseWithRows == \A c \in halfCollected \cup staleGrants : row[c] = "live"

(* The whole handshake.  An upload that found a row and got its FOR SHARE  *)
(* lock, and a collector that got its FOR UPDATE lock, never hold the same *)
(* row, and each finds the row, hash and object it decided on.             *)
Handshake ==
  /\ OneRowPerHash
  /\ TransactionsHoldChunks
  /\ CollectionsHoldChunks
  /\ LinksHoldRows
  /\ RowsHoldObjects
  /\ WindowsCloseWithRows

(* "LockOrphanedChunk takes an exclusive row lock on a chunk, but only     *)
(* while it is still unreferenced": the row a collector is about to delete *)
(* the object of has no reference.                                         *)
LockedOnlyWhileUnreferenced ==
  \A g \in Collectors : gcPc[g] = "object" => ~Referenced(target[g])

(* "a crash mid-collection leaves a row pointing at a missing object only  *)
(* if the commit succeeds, which it cannot once we have rolled back": no   *)
(* committed row lacks its object once its collection is over.             *)
RolledBackRowsKeepObjects ==
  \A c \in ChunkIDs : row[c] = "live" /\ ~ExclusivelyLocked(c) => hashOf[c] \in objects

(* The chunks a reader of file u finds, by index.                          *)
ChunkList(u) == {<<l.index, hashOf[l.chunk]>> : l \in {k \in links : k.file = u}}

(* The indexed chunks of the first k chunks of u's request.                *)
FirstChunks(u, k) == {<<i - 1, content[u][i]>> : i \in 1..k}

(* The chunk list of a file grows with its upload, chunk by chunk: lost    *)
(* answers, a delete or a sweep in mid-upload, and collections leave       *)
(* neither a gap nor a list without its file, and only a complete list is  *)
(* ever ready or announced.                                                *)
ListsMatchProgress ==
  \A u \in Uploads :
    /\ index[u] \in 0..Len(content[u])
    /\ files[u] = "none" => \A l \in links : l.file # u
    /\ files[u] # "none" => ChunkList(u) = FirstChunks(u, index[u])
    /\ pc[u] \in {"publish", "event", "done"} => index[u] = Len(content[u])
    /\ pc[u] = "commit" => files[u] = "uploading"
    /\ pc[u] = "start" => files[u] = "none"
    /\ files[u] = "ready" => /\ index[u] = Len(content[u])
                             /\ pc[u] \in {"event", "abandon", "done", "failed"}
    /\ u \in events => pc[u] = "done"

(* What the event's consumer relies on: DownloadFileInternal does not look *)
(* at the status column, so an event may only name a file whose chunk list *)
(* is already complete.                                                    *)
EventsNameCompleteFiles ==
  \A u \in events : files[u] # "none" =>
    ChunkList(u) = FirstChunks(u, Len(content[u]))

(* The sweep of stale uploads never takes a file whose upload was          *)
(* acknowledged, unless that upload outlasted minAge: the file is there    *)
(* until its owner removes it.  (UpdateFileSizeAndStatus would not notice  *)
(* a missing row.)                                                         *)
AcknowledgedUploadsSurvive ==
  \A u \in Uploads : pc[u] = "done" /\ files[u] = "none" => u \in removed \cup outlasted

(* "Insert and select can each lose a race with a concurrent writer;       *)
(* retrying converges": a second round of GetOrCreateChunk settles it for  *)
(* every upload that does not outlast minAge, so its error is unreachable. *)
RetryConverges == \A u \in Uploads : attempt[u] <= 1 \/ u \in outlasted

(* The catalog a user sees: ready rows are visible, a row that is gone     *)
(* stays gone, and any other is hidden.                                    *)
CatalogStatus ==
  [u \in Uploads |-> IF files[u] = "ready" THEN "visible"
                     ELSE IF files[u] = "uploading" \/ pc[u] = "start" THEN "hidden"
                     ELSE "gone"]
CatalogBody == [u \in Uploads |-> IF files[u] = "ready" THEN ChunkList(u) ELSE {}]

Catalog == INSTANCE FileCatalog WITH
  Files <- Uploads, request <- content, status <- CatalogStatus, body <- CatalogBody

(* Files appear atomically, complete and under the requested content, stay *)
(* as they are, and never return: UpdateFileSizeAndStatus is the commit    *)
(* point, whatever the collector, deletes, crashes and lost answers do.    *)
ImplementsCatalog == Catalog!CatalogSpec

(* Every call ends, whatever it waits for: no cycle of row locks.          *)
UploadsFinish == \A u \in Uploads : InFlight(u) ~> ~InFlight(u)

(* "RunGarbageCollection sweeps anything left behind": the row of an       *)
(* upload that failed, or whose process died, goes away.                   *)
AbandonedRowsSwept ==
  \A u \in Uploads :
    (pc[u] = "failed" /\ files[u] = "uploading") ~> (files[u] # "uploading")

(* An unreferenced chunk is eventually collected, or referenced again.     *)
OrphansCollected ==
  \A c \in ChunkIDs :
    (row[c] = "live" /\ ~Referenced(c)) ~> (row[c] = "absent" \/ Referenced(c))
=============================================================================
