---------------------------- MODULE RetryProofs ----------------------------
(***************************************************************************)
(* What the collector's minAge is for: as long as no upload outlasts it,   *)
(* the sweep takes no file of an upload under way and the collector takes  *)
(* no chunk that appeared during the upload.  So an acknowledged file is   *)
(* there, and the second round of GetOrCreateChunk finds what it needs.    *)
(***************************************************************************)
EXTENDS CatalogProofs

(* created_at belongs to a row.                                            *)
AgesHaveRows == \A c \in aged : row[c] # "absent"

(* Nobody waits to collect c, and no scan would find it.                   *)
Young(c) ==
  /\ c \notin aged
  /\ \A g \in Collectors : target[g] # c /\ c \notin todo[g]

(* The rows under the hash the upload is storing.                          *)
RowsOf(u) == {c \in ChunkIDs : hashOf[c] = Hash(u)}

(* One upload's part of the argument: the rows under its hash are young,   *)
(* except the live one its INSERT ran into in the first round; in a later  *)
(* round that one is young too, and stays until the SELECT has locked it.  *)
RoundsHold(u) ==
  /\ attempt[u] <= 1
  /\ pc[u] = "start" => attempt[u] = 0
  /\ pc[u] \in {"select", "share"} =>
       \A c \in RowsOf(u) : Young(c) \/ (row[c] = "live" /\ (pc[u] = "share" => chunk[u] = c))
  /\ attempt[u] = 1 /\ pc[u] \in {"insert", "select", "share"} =>
       \A c \in RowsOf(u) : Young(c)
  /\ attempt[u] = 1 /\ pc[u] \in {"select", "share"} =>
       \E c \in RowsOf(u) : row[c] = "live" /\ (pc[u] = "share" => chunk[u] = c)

(* The inductive invariant of the retries.                                 *)
RetryInv == AgesHaveRows /\ \A u \in Uploads \ outlasted : RoundsHold(u)

(* A row the sweep may take belongs to an upload that failed or outlasted  *)
(* minAge, and a file that is missing in mid-upload was removed or swept.  *)
Survives(u) ==
  /\ u \in stale => pc[u] = "failed" \/ u \in outlasted
  /\ pc[u] \in {"event", "done"} => files[u] # "uploading"
  /\ pc[u] \notin {"start", "abandon", "failed"} /\ files[u] = "none" =>
       u \in removed \cup outlasted

-----------------------------------------------------------------------------
(* The steps that write the table chunks.                                  *)
LEMMA RowWriters ==
  ASSUME [Next]_vars
  PROVE  \/ UNCHANGED rowVars
         \/ \E u \in Uploads : InsertNew(u) \/ Rollback(u) \/ CommitChunk(u)
         \/ \E g \in Collectors : CommitCollection(g)
         \/ MinAgePasses
<1>1. ASSUME NEW u \in Uploads, ProgressUpload(u) \/ FailUpload(u) \/ CrashUpload(u)
      PROVE  UNCHANGED rowVars \/ InsertNew(u) \/ Rollback(u) \/ CommitChunk(u)
  BY <1>1 DEF ProgressUpload, RejectUpload, CreateFile, InsertConflict, SelectChunk, AcquireShare,
    UploadChunk, LinkFileChunk, PublishFile, PublishFileUploaded, AbandonUpload, FailUpload,
    CrashUpload
<1>2. ASSUME NEW g \in Collectors, ProgressCollector(g) \/ FailCollection(g) \/ StopCollector(g)
      PROVE  UNCHANGED rowVars \/ CommitCollection(g)
  BY <1>2 DEF ProgressCollector, SweepUploads, ScanChunks, CheckChunk, LockChunk, DeleteObject,
    DeleteChunkRecord, FailCollection, StopCollector
<1>3. ASSUME NEW u \in Uploads, DeleteFile(u) PROVE UNCHANGED rowVars
  BY <1>3 DEF DeleteFile
<1>4. UNCHANGED vars => UNCHANGED rowVars
  BY DEF vars
<1>5. QED
  BY <1>1, <1>2, <1>3, <1>4 DEF Next

(* What a row's created_at says stays true of the row.                     *)
LEMMA AgesStep ==
  ASSUME Inv, AgesHaveRows, [Next]_vars
  PROVE  AgesHaveRows'
<1> USE DEF AgesHaveRows, Inv, TypeOK
<1>1. CASE UNCHANGED rowVars
  BY <1>1 DEF rowVars
<1>2. ASSUME NEW u \in Uploads, InsertNew(u) PROVE AgesHaveRows'
  BY <1>2 DEF InsertNew
<1>3. ASSUME NEW u \in Uploads, Rollback(u) PROVE AgesHaveRows'
  BY <1>3 DEF Rollback
<1>4. ASSUME NEW u \in Uploads, CommitChunk(u) PROVE AgesHaveRows'
  BY <1>4 DEF CommitChunk
<1>5. ASSUME NEW g \in Collectors, CommitCollection(g) PROVE AgesHaveRows'
  BY <1>5 DEF CommitCollection
<1>6. CASE MinAgePasses
  BY <1>6 DEF MinAgePasses
<1>7. QED
  BY <1>1, <1>2, <1>3, <1>4, <1>5, <1>6, RowWriters

(* The collector works on what its scan found, and its scan finds only     *)
(* aged rows.                                                              *)
LEMMA CollectorsFollowScan ==
  ASSUME Inv, [Next]_vars, NEW g \in Collectors
  PROVE  /\ target'[g] \in todo[g] \cup {target[g], NoChunk}
         /\ todo'[g] \subseteq todo[g] \cup aged
<1> USE DEF Inv, TypeOK, gcVars
<1>1. CASE UNCHANGED <<todo, target>>
  BY <1>1
<1>2. ASSUME NEW k \in Collectors, ProgressCollector(k) \/ FailCollection(k) \/ StopCollector(k)
      PROVE  /\ target'[g] \in todo[g] \cup {target[g], NoChunk}
             /\ todo'[g] \subseteq todo[g] \cup aged
  <2>1. CASE SweepUploads(k)
    BY <1>1, <2>1 DEF SweepUploads
  <2>2. CASE ScanChunks(k)
    BY <2>2 DEF ScanChunks, NextChunk, OrphanedChunks
  <2>3. CASE CheckChunk(k)
    BY <2>3 DEF CheckChunk, NextChunk
  <2>4. CASE LockChunk(k) \/ DeleteObject(k) \/ DeleteChunkRecord(k) \/ CommitCollection(k)
    BY <2>4 DEF LockChunk, DeleteObject, DeleteChunkRecord, CommitCollection, NextChunk
  <2>5. CASE FailCollection(k) \/ StopCollector(k)
    BY <2>5 DEF FailCollection, StopCollector, NextChunk
  <2>6. QED
    BY <1>2, <2>1, <2>2, <2>3, <2>4, <2>5 DEF ProgressCollector
<1>3. ASSUME NEW u \in Uploads,
             ProgressUpload(u) \/ FailUpload(u) \/ CrashUpload(u) \/ DeleteFile(u)
      PROVE  UNCHANGED <<todo, target>>
  BY <1>3 DEF ProgressUpload, RejectUpload, CreateFile, InsertNew, InsertConflict, SelectChunk,
    AcquireShare, UploadChunk, LinkFileChunk, CommitChunk, PublishFile, PublishFileUploaded,
    AbandonUpload, FailUpload, CrashUpload, DeleteFile
<1>4. CASE MinAgePasses \/ UNCHANGED vars
  BY <1>1, <1>4 DEF MinAgePasses, vars
<1>5. QED
  BY <1>1, <1>2, <1>3, <1>4 DEF Next

(* A young row stays young until a minAge goes by.                         *)
LEMMA YoungStays ==
  ASSUME Inv, [Next]_vars, ~MinAgePasses, NEW c \in ChunkIDs, Young(c)
  PROVE  Young(c)'
<1>1. aged' \subseteq aged
  BY RowWriters DEF rowVars, InsertNew, Rollback, CommitChunk, CommitCollection
<1>2. \A g \in Collectors : target'[g] # c /\ c \notin todo'[g]
  BY CollectorsFollowScan, NoChunkAssumption DEF Young
<1>3. QED
  BY <1>1, <1>2 DEF Young

(* ... and a collection never takes it.                                    *)
LEMMA YoungRowsStay ==
  ASSUME Inv, [Next]_vars, NEW c \in ChunkIDs, Young(c), row[c] = "live"
  PROVE  row'[c] = "live" /\ hashOf'[c] = hashOf[c]
<1> USE DEF Inv, TypeOK
<1>1. CASE UNCHANGED rowVars \/ MinAgePasses
  BY <1>1 DEF rowVars, MinAgePasses
<1>2. ASSUME NEW u \in Uploads, InsertNew(u) \/ Rollback(u) \/ CommitChunk(u)
      PROVE  row'[c] = "live" /\ hashOf'[c] = hashOf[c]
  BY <1>2 DEF InsertNew, Rollback, CommitChunk, Fresh
<1>3. ASSUME NEW g \in Collectors, CommitCollection(g)
      PROVE  row'[c] = "live" /\ hashOf'[c] = hashOf[c]
  BY <1>3 DEF CommitCollection, Young
<1>4. QED
  BY <1>1, <1>2, <1>3, RowWriters

(* A row under a hash was there before the step, or is new and young.      *)
LEMMA RowsAppearYoung ==
  ASSUME Inv, AgesHaveRows, [Next]_vars, ~MinAgePasses, NEW c \in ChunkIDs, hashOf'[c] # NoHash
  PROVE  \/ hashOf'[c] = hashOf[c] /\ (row[c] = "live" => row'[c] = "live")
         \/ Young(c)'
<1> USE DEF Inv, TypeOK
<1>1. CASE UNCHANGED rowVars
  BY <1>1 DEF rowVars
<1>2. ASSUME NEW u \in Uploads, InsertNew(u)
      PROVE  \/ hashOf'[c] = hashOf[c] /\ (row[c] = "live" => row'[c] = "live")
             \/ Young(c)'
  <2>1. PICK d \in ChunkIDs :
          /\ Fresh(d)
          /\ row' = [row EXCEPT ![d] = "inserting"]
          /\ hashOf' = [hashOf EXCEPT ![d] = Hash(u)]
    BY <1>2 DEF InsertNew
  <2>2. Young(d)'
    BY <1>2, <2>1 DEF InsertNew, Fresh, Young, AgesHaveRows, gcVars
  <2>3. QED
    BY <2>1, <2>2
<1>3. ASSUME NEW u \in Uploads, Rollback(u) \/ CommitChunk(u)
      PROVE  hashOf'[c] = hashOf[c] /\ (row[c] = "live" => row'[c] = "live")
  BY <1>3 DEF Rollback, CommitChunk
<1>4. ASSUME NEW g \in Collectors, CommitCollection(g)
      PROVE  hashOf'[c] = hashOf[c] /\ (row[c] = "live" => row'[c] = "live")
  BY <1>4 DEF CommitCollection
<1>5. QED
  BY <1>1, <1>2, <1>3, <1>4, RowWriters

(* A step of somebody else, as an upload in the loop of GetOrCreateChunk   *)
(* sees it.                                                                *)
LEMMA RoundsOfOthers ==
  ASSUME Inv, AgesHaveRows, [Next]_vars, ~MinAgePasses, NEW v \in Uploads, RoundsHold(v),
         content'[v] = content[v], pc'[v] = pc[v], index'[v] = index[v],
         attempt'[v] = attempt[v], chunk'[v] = chunk[v]
  PROVE  RoundsHold(v)'
<1>1. CASE pc[v] \notin {"insert", "select", "share"}
  BY <1>1 DEF RoundsHold
<1>2. CASE pc[v] \in {"insert", "select", "share"}
  <2>1. Hash(v)' = Hash(v) /\ Hash(v) # NoHash
    <3>1. index[v] + 1 \in DOMAIN content[v]
      BY <1>2 DEF Inv, Handshake, TransactionsHoldChunks
    <3>2. QED
      BY <3>1, HashType, NoHashAssumption DEF Hash, Inv
  <2>2. \A c \in RowsOf(v)' : \/ c \in RowsOf(v) /\ (row[c] = "live" => row'[c] = "live")
                              \/ Young(c)'
    BY <2>1, RowsAppearYoung DEF RowsOf
  <2>3. \A c \in RowsOf(v) : Young(c) => Young(c)'
    BY YoungStays DEF RowsOf
  <2>4. \A c \in RowsOf(v) : Young(c) /\ row[c] = "live" => c \in RowsOf(v)' /\ row'[c] = "live"
    BY <2>1, YoungRowsStay DEF RowsOf
  <2>5. pc[v] \in {"select", "share"} =>
          \A c \in RowsOf(v)' :
            Young(c)' \/ (row'[c] = "live" /\ (pc[v] = "share" => chunk[v] = c))
    BY <2>2, <2>3 DEF RoundsHold
  <2>6. attempt[v] = 1 => \A c \in RowsOf(v)' : Young(c)'
    BY <1>2, <2>2, <2>3 DEF RoundsHold
  <2>7. attempt[v] = 1 /\ pc[v] \in {"select", "share"} =>
          \E c \in RowsOf(v)' : row'[c] = "live" /\ (pc[v] = "share" => chunk[v] = c)
    BY <2>4 DEF RoundsHold
  <2>8. QED
    BY <2>5, <2>6, <2>7 DEF RoundsHold
<1>3. QED
  BY <1>1, <1>2

(* INSERT ... ON CONFLICT met the one row under the hash.                  *)
LEMMA RoundsOfInsert ==
  ASSUME Inv, NEW v \in Uploads, RoundsHold(v), InsertConflict(v)
  PROVE  RoundsHold(v)'
<1>1. /\ pc[v] = "insert" /\ pc'[v] = "select"
      /\ UNCHANGED <<content, index, attempt, chunk, row, hashOf, aged, todo, target>>
  BY DEF InsertConflict, rowVars, gcVars, Inv, TypeOK
<1>2. PICK c \in RowsOf(v) : row[c] = "live"
  BY DEF InsertConflict, LiveRows, RowsOf
<1>3. Hash(v) # NoHash
  BY <1>1, HashType, NoHashAssumption DEF Inv, Handshake, TransactionsHoldChunks
<1>4. \A d \in RowsOf(v) : d = c
  BY <1>2, <1>3 DEF RowsOf, Inv, Handshake, OneRowPerHash
<1>5. RowsOf(v)' = RowsOf(v) /\ \A d \in ChunkIDs : Young(d)' = Young(d)
  BY <1>1 DEF RowsOf, Hash, Young
<1>6. \A d \in RowsOf(v) : d \in ChunkIDs
  BY DEF RowsOf
<1>7. QED
  BY <1>1, <1>2, <1>4, <1>5, <1>6 DEF RoundsHold

(* SELECT ... FOR SHARE: when it comes back empty in the first round, the  *)
(* row the INSERT met was collected and any other is young; in the second  *)
(* round it does not.                                                      *)
LEMMA RoundsOfSelect ==
  ASSUME Inv, NEW v \in Uploads, RoundsHold(v), SelectChunk(v) \/ AcquireShare(v)
  PROVE  RoundsHold(v)'
<1>1. /\ pc[v] \in {"select", "share"} /\ attempt[v] \in Nat
      /\ UNCHANGED <<content, index, row, hashOf, aged, todo, target>>
  BY DEF SelectChunk, AcquireShare, rowVars, gcVars, Inv, TypeOK
<1>2. Hash(v) # NoHash
  BY <1>1, HashType, NoHashAssumption DEF Inv, Handshake, TransactionsHoldChunks
<1>3. /\ RowsOf(v)' = RowsOf(v)
      /\ \A c \in RowsOf(v) : c \in ChunkIDs /\ Young(c)' = Young(c)
  BY <1>1 DEF RowsOf, Hash, Young
<1>4. \A c, d \in RowsOf(v) : c = d
  BY <1>2 DEF RowsOf, Inv, Handshake, OneRowPerHash
<1>5. CASE RetryInsert(v)
  <2>1. \A c \in RowsOf(v) : row[c] = "live" => pc[v] = "share" /\ chunk[v] # c
    BY <1>1, <1>5 DEF SelectChunk, AcquireShare, RetryInsert, LiveRows, RowsOf, Inv, TypeOK
  <2>2. attempt[v] = 0 /\ \A c \in RowsOf(v) : Young(c)
    BY <1>1, <2>1 DEF RoundsHold
  <2>3. attempt'[v] = 1 /\ pc'[v] \in {"insert", "abandon"}
    BY <1>5, <2>2 DEF RetryInsert, Inv, TypeOK
  <2>4. QED
    BY <1>3, <2>2, <2>3 DEF RoundsHold
<1>6. CASE pc'[v] = "share" /\ UNCHANGED attempt /\ chunk'[v] \in LiveRows(Hash(v))
  <2>1. chunk'[v] \in RowsOf(v) /\ row[chunk'[v]] = "live"
    BY <1>6 DEF LiveRows, RowsOf
  <2>2. QED
    BY <1>1, <1>3, <1>4, <1>6, <2>1 DEF RoundsHold
<1>7. CASE pc'[v] = "link" /\ UNCHANGED attempt
  BY <1>7 DEF RoundsHold
<1>8. QED
  <2>1. CASE SelectChunk(v) /\ ~RetryInsert(v)
    BY <1>6, <2>1 DEF SelectChunk, Inv, TypeOK
  <2>2. CASE AcquireShare(v) /\ ~RetryInsert(v)
    BY <1>7, <2>2 DEF AcquireShare, Inv, TypeOK
  <2>3. QED
    BY <1>5, <2>1, <2>2

(* Every step of an upload, of others, and of time.                        *)
LEMMA RoundsStep ==
  ASSUME Inv, AgesHaveRows, [Next]_vars, NEW v \in Uploads, v \notin outlasted', RoundsHold(v)
  PROVE  RoundsHold(v)'
<1> USE DEF uploadVars
<1>1. /\ pc \in [Uploads -> UploadPCs] /\ attempt \in [Uploads -> Nat]
      /\ chunk \in [Uploads -> ChunkIDs \cup {NoChunk}]
      /\ index \in [Uploads -> Nat] /\ attempt[v] \in Nat
  BY DEF Inv, TypeOK
<1>2. CASE MinAgePasses
  <2>1. pc[v] \in {"start", "done", "failed"} /\ UNCHANGED <<pc, attempt>>
    BY <1>2 DEF MinAgePasses, InFlight
  <2>2. QED
    BY <2>1 DEF RoundsHold
<1>3. ASSUME NEW u \in Uploads, ProgressUpload(u) \/ FailUpload(u) \/ CrashUpload(u), u # v,
             ~MinAgePasses
      PROVE  RoundsHold(v)'
  <2>1. /\ content'[v] = content[v] /\ pc'[v] = pc[v] /\ index'[v] = index[v]
        /\ attempt'[v] = attempt[v] /\ chunk'[v] = chunk[v]
    BY <1>1, <1>3 DEF ProgressUpload, RejectUpload, CreateFile, InsertNew, InsertConflict,
      SelectChunk, AcquireShare, UploadChunk, LinkFileChunk, CommitChunk, PublishFile,
      PublishFileUploaded, AbandonUpload, FailUpload, CrashUpload, Rollback, RetryInsert
  <2>2. QED
    BY <1>3, <2>1, RoundsOfOthers
<1>4. ASSUME \/ \E g \in Collectors : \/ ProgressCollector(g) \/ FailCollection(g)
                                     \/ StopCollector(g)
             \/ \E u \in Uploads : DeleteFile(u)
             \/ UNCHANGED vars,
             ~MinAgePasses
      PROVE  RoundsHold(v)'
  <2>1. UNCHANGED uploadVars
    BY <1>4 DEF ProgressCollector, SweepUploads, ScanChunks, CheckChunk, LockChunk,
      DeleteObject, DeleteChunkRecord, CommitCollection, FailCollection, StopCollector,
      DeleteFile, vars
  <2>2. QED
    BY <1>4, <2>1, RoundsOfOthers
<1>5. CASE ProgressUpload(v) \/ FailUpload(v) \/ CrashUpload(v)
  <2>1. CASE InsertConflict(v)
    BY <2>1, RoundsOfInsert
  <2>2. CASE SelectChunk(v) \/ AcquireShare(v)
    BY <2>2, RoundsOfSelect
  <2>3. CASE /\ pc'[v] \notin {"start", "insert", "select", "share"}
             /\ attempt'[v] \in {0, attempt[v]}
    BY <2>3 DEF RoundsHold
  <2>4. CASE pc'[v] \notin {"start", "select", "share"} /\ attempt'[v] = 0
    BY <2>4 DEF RoundsHold
  <2>5. CASE CreateFile(v)
    <3>1. attempt[v] = 0
      BY <2>5 DEF CreateFile, RoundsHold
    <3>2. QED
      BY <1>1, <2>4, <2>5, <3>1 DEF CreateFile, AfterChunks
  <2>6. CASE CommitChunk(v)
    BY <1>1, <2>4, <2>6 DEF CommitChunk, AfterChunks
  <2>7. CASE \/ RejectUpload(v) \/ InsertNew(v) \/ UploadChunk(v) \/ LinkFileChunk(v)
             \/ PublishFile(v) \/ PublishFileUploaded(v) \/ AbandonUpload(v) \/ FailUpload(v)
             \/ CrashUpload(v)
    BY <1>1, <2>3, <2>7 DEF RejectUpload, InsertNew, UploadChunk, LinkFileChunk, PublishFile,
      PublishFileUploaded, AbandonUpload, FailUpload, CrashUpload
  <2>8. QED
    BY <1>5, <2>1, <2>2, <2>5, <2>6, <2>7 DEF ProgressUpload
<1>6. QED
  BY <1>2, <1>3, <1>4, <1>5 DEF Next

(* history only grows.                                                     *)
LEMMA HistoryGrows ==
  ASSUME [Next]_vars
  PROVE  outlasted \subseteq outlasted' /\ removed \subseteq removed'
<1> USE DEF history
<1>1. ASSUME NEW u \in Uploads,
             ProgressUpload(u) \/ FailUpload(u) \/ CrashUpload(u) \/ DeleteFile(u)
      PROVE  outlasted \subseteq outlasted' /\ removed \subseteq removed'
  BY <1>1 DEF ProgressUpload, RejectUpload, CreateFile, InsertNew, InsertConflict,
    SelectChunk, AcquireShare, UploadChunk, LinkFileChunk, CommitChunk, PublishFile,
    PublishFileUploaded, AbandonUpload, FailUpload, CrashUpload, DeleteFile
<1>2. ASSUME NEW g \in Collectors, ProgressCollector(g) \/ FailCollection(g) \/ StopCollector(g)
      PROVE  outlasted \subseteq outlasted' /\ removed \subseteq removed'
  BY <1>2 DEF ProgressCollector, SweepUploads, ScanChunks, CheckChunk, LockChunk,
      DeleteObject, DeleteChunkRecord, CommitCollection, FailCollection, StopCollector
<1>3. CASE MinAgePasses \/ UNCHANGED vars
  BY <1>3 DEF MinAgePasses, vars
<1>4. QED
  BY <1>1, <1>2, <1>3 DEF Next

(* GetOrCreateChunk's loop converges: for every upload that minAge does    *)
(* not overtake, the second round of INSERT and SELECT FOR SHARE gets its  *)
(* row, whatever the other uploads and any number of collectors do.        *)
THEOREM RetriesConverge == Spec => []RetryConverges
<1>1. Init => RetryInv
  BY DEF Init, RetryInv, RoundsHold, AgesHaveRows
<1>2. Inv /\ RetryInv /\ [Next]_vars => RetryInv'
  BY AgesStep, RoundsStep, HistoryGrows DEF RetryInv
<1>3. RetryInv => RetryConverges
  BY DEF RetryInv, RoundsHold, RetryConverges
<1>4. QED
  BY <1>1, <1>2, <1>3, HandshakeHolds, PTL DEF Spec, Inv

-----------------------------------------------------------------------------
(* The status column and the progress of an upload, step by step.          *)
LEMMA SurvivalStep ==
  ASSUME Inv, ListsMatchProgress, [Next]_vars, NEW v \in Uploads, Survives(v)
  PROVE  Survives(v)'
<1> USE DEF uploadVars, fileVars, history
<1>1. /\ pc \in [Uploads -> UploadPCs] /\ files \in [Uploads -> {"none", "uploading", "ready"}]
      /\ stale \subseteq Uploads
      /\ pc[v] = "start" => files[v] = "none"
  BY DEF Inv, TypeOK, ListsMatchProgress
<1>2. outlasted \subseteq outlasted' /\ removed \subseteq removed'
  BY HistoryGrows
<1>3. ASSUME NEW u \in Uploads, ProgressUpload(u) \/ FailUpload(u) \/ CrashUpload(u)
      PROVE  Survives(v)'
  <2>1. CASE CreateFile(u)
    BY <1>1, <1>2, <2>1 DEF CreateFile, Survives, AfterChunks
  <2>2. CASE PublishFile(u)
    BY <1>1, <1>2, <2>2 DEF PublishFile, Survives
  <2>3. CASE AbandonUpload(u)
    BY <1>1, <1>2, <2>3 DEF AbandonUpload, DropFiles, Survives
  <2>4. ASSUME UNCHANGED <<files, stale>>, NEW p \in UploadPCs, pc' = [pc EXCEPT ![u] = p],
               pc[u] \notin {"done", "failed"},
               pc[u] \in {"start", "abandon"} => p \in {"abandon", "failed"},
               p \in {"event", "done"} => pc[u] = "event"
        PROVE  Survives(v)'
    BY <1>1, <1>2, <2>4 DEF Survives
  <2>5. CASE RejectUpload(u) \/ InsertNew(u) \/ InsertConflict(u) \/ PublishFileUploaded(u)
    BY <2>4, <2>5 DEF RejectUpload, InsertNew, InsertConflict, PublishFileUploaded, UploadPCs
  <2>6. CASE SelectChunk(u) \/ AcquireShare(u)
    BY <2>4, <2>6 DEF SelectChunk, AcquireShare, RetryInsert, UploadPCs
  <2>7. CASE UploadChunk(u) \/ LinkFileChunk(u) \/ FailUpload(u) \/ CrashUpload(u)
    BY <2>4, <2>7 DEF UploadChunk, LinkFileChunk, FailUpload, CrashUpload, InFlight, UploadPCs
  <2>8. CASE CommitChunk(u)
    BY <2>4, <2>8 DEF CommitChunk, AfterChunks, UploadPCs
  <2>9. QED
    BY <1>3, <2>1, <2>2, <2>3, <2>5, <2>6, <2>7, <2>8 DEF ProgressUpload
<1>4. ASSUME NEW u \in Uploads, DeleteFile(u)
      PROVE  Survives(v)'
  BY <1>1, <1>2, <1>4 DEF DeleteFile, DropFiles, Survives
<1>5. ASSUME NEW g \in Collectors, ProgressCollector(g) \/ FailCollection(g) \/ StopCollector(g)
      PROVE  Survives(v)'
  <2>1. CASE SweepUploads(g) /\ DropFiles(StaleUploads)
    BY <1>1, <1>2, <2>1 DEF SweepUploads, DropFiles, StaleUploads, Survives
  <2>2. CASE UNCHANGED <<pc, files, stale>>
    BY <1>2, <2>2 DEF Survives
  <2>3. QED
    BY <1>5, <2>1, <2>2 DEF ProgressCollector, SweepUploads, ScanChunks, CheckChunk, LockChunk,
      DeleteObject, DeleteChunkRecord, CommitCollection, FailCollection, StopCollector
<1>6. CASE MinAgePasses
  BY <1>1, <1>6 DEF MinAgePasses, InFlight, Survives
<1>7. CASE UNCHANGED vars
  BY <1>7 DEF vars, Survives
<1>8. QED
  BY <1>3, <1>4, <1>5, <1>6, <1>7 DEF Next

(* An acknowledged file is there until its owner removes it, unless its    *)
(* upload outlasted minAge: DeleteStaleUploads takes no other upload's     *)
(* row, so UpdateFileSizeAndStatus finds the row it updates.               *)
THEOREM AcknowledgedSurvive == Spec => []AcknowledgedUploadsSurvive
<1> DEFINE AllSurvive == \A u \in Uploads : Survives(u)
<1>1. Init => AllSurvive
  BY DEF Init, Survives
<1>2. Inv /\ ListsMatchProgress /\ AllSurvive /\ [Next]_vars => AllSurvive'
  BY SurvivalStep
<1>3. AllSurvive => AcknowledgedUploadsSurvive
  BY DEF Survives, AcknowledgedUploadsSurvive
<1> HIDE DEF AllSurvive
<1>4. QED
  BY <1>1, <1>2, <1>3, HandshakeHolds, ListsHold, PTL DEF Spec, Inv
=============================================================================
