--------------------------- MODULE StorageProofs ---------------------------
(***************************************************************************)
(* The handshake between uploads and the garbage collector holds for any   *)
(* number of uploads, collectors, chunks and contents, and with it the     *)
(* claim that content is lost only through the two windows of              *)
(* collectChunk.  Types and handshake are proved together: a hash is a     *)
(* hash only because an open transaction is inside its request's content.  *)
(* One lemma per kind of step, one proof step per part of the handshake.   *)
(***************************************************************************)
EXTENDS Storage, TLAPS

(* The inductive invariant.                                                *)
Inv == TypeOK /\ Handshake

(* Inside the content, storeChunks hashes one of the request's chunks.     *)
LEMMA HashType ==
  ASSUME TypeOK, NEW u \in Uploads, index[u] + 1 \in DOMAIN content[u]
  PROVE  Hash(u) \in Hashes
<1>1. content[u] \in Seq(Hashes)
  BY ContentsAssumption DEF TypeOK
<1>2. QED
  BY <1>1 DEF Hash

(* Empty tables, an empty bucket and idle processes satisfy the invariant. *)
LEMMA InitInv == Init => Inv
<1>1. Init => TypeOK
  BY BoundsAssumption DEF Init, TypeOK, UploadPCs, CollectorPCs, Link
<1>2. Init => OneRowPerHash /\ LinksHoldRows /\ WindowsCloseWithRows /\ RowsHoldObjects
  BY DEF Init, OneRowPerHash, LinksHoldRows, WindowsCloseWithRows, RowsHoldObjects
<1>3. Init => TransactionsHoldChunks /\ CollectionsHoldChunks
  BY DEF Init, TransactionsHoldChunks, CollectionsHoldChunks
<1>4. QED
  BY <1>1, <1>2, <1>3 DEF Inv, Handshake

(* A rolled back chunk transaction (storeChunk's deferred Rollback, a      *)
(* crash) takes only its own uncommitted row with it.                      *)
LEMMA RollbackStep ==
  ASSUME Inv, NEW u \in Uploads, Rollback(u), 
         NEW p \in {"abandon", "failed"}, pc' = [pc EXCEPT ![u] = p],
         objects \subseteq objects',
         UNCHANGED <<content, index, links, gcPc, target, halfCollected, staleGrants>>
  PROVE  Handshake'
<1> USE DEF Inv, Handshake
<1>1. OneRowPerHash'
  BY DEF Rollback, OneRowPerHash, TypeOK
<1>2. TransactionsHoldChunks'
  BY NoChunkAssumption DEF Rollback, TransactionsHoldChunks, OneRowPerHash, TypeOK, Hash
<1>3. CollectionsHoldChunks'
  BY DEF Rollback, CollectionsHoldChunks, TypeOK, ShareLocked, Referenced
<1>4. LinksHoldRows'
  BY DEF Rollback, LinksHoldRows, TypeOK, Link
<1>5. RowsHoldObjects'
  BY DEF Rollback, RowsHoldObjects, TypeOK, ObjectDeleted, TransactionsHoldChunks
<1>6. WindowsCloseWithRows'
  BY DEF Rollback, WindowsCloseWithRows, TypeOK
<1>7. QED
  BY <1>1, <1>2, <1>3, <1>4, <1>5, <1>6

(* A step of an upload outside a chunk transaction disturbs no lock,       *)
(* whatever references it removes.                                         *)
LEMMA QuietStep ==
  ASSUME Inv, NEW u \in Uploads, NEW p \in UploadPCs \ {"start"},
         pc' = [pc EXCEPT ![u] = p],
         pc[u] \notin {"share", "put", "link", "commit"},
         p \notin {"share", "put", "link", "commit"},
         p \in {"insert", "select"} => index[u] + 1 \in DOMAIN content[u],
         links' \subseteq links,
         UNCHANGED <<content, index, chunk, row, hashOf, objects, gcPc, target,
                     halfCollected, staleGrants>>
  PROVE  Handshake'
<1> USE DEF Inv, Handshake
<1>1. OneRowPerHash'
  BY DEF OneRowPerHash, TypeOK
<1>2. TransactionsHoldChunks'
  BY DEF TransactionsHoldChunks, TypeOK, Hash
<1>3. CollectionsHoldChunks'
  BY DEF CollectionsHoldChunks, TypeOK, ShareLocked, Referenced
<1>4. LinksHoldRows'
  BY DEF LinksHoldRows, TypeOK
<1>5. RowsHoldObjects'
  BY DEF RowsHoldObjects, TypeOK, ObjectDeleted
<1>6. WindowsCloseWithRows'
  BY DEF WindowsCloseWithRows, TypeOK
<1>7. QED
  BY <1>1, <1>2, <1>3, <1>4, <1>5, <1>6

(* GetOrCreateChunk's INSERT of a new row.                                 *)
LEMMA InsertNewStep ==
  ASSUME Inv, NEW u \in Uploads, InsertNew(u)
  PROVE  Inv'
<1> USE DEF Inv, Handshake
<1>1. PICK c \in ChunkIDs :
        /\ Fresh(c)
        /\ row' = [row EXCEPT ![c] = "inserting"]
        /\ hashOf' = [hashOf EXCEPT ![c] = Hash(u)]
        /\ chunk' = [chunk EXCEPT ![u] = c]
  BY DEF InsertNew
<1>2. Hash(u) \in Hashes
  BY HashType DEF InsertNew, TransactionsHoldChunks
<1>3. TypeOK'
  BY <1>1, <1>2 DEF InsertNew, TypeOK, UploadPCs, fileVars, gcVars, history
<1>4. OneRowPerHash'
  BY <1>1, <1>2, NoHashAssumption DEF InsertNew, OneRowPerHash, TypeOK
<1>5. TransactionsHoldChunks'
  BY <1>1, NoChunkAssumption DEF InsertNew, TransactionsHoldChunks, TypeOK, Hash, Fresh
<1>6. CollectionsHoldChunks'
  BY <1>1 DEF InsertNew, CollectionsHoldChunks, TypeOK, ShareLocked, Referenced, Fresh,
    gcVars, fileVars, history
<1>7. LinksHoldRows'
  BY <1>1 DEF InsertNew, LinksHoldRows, TypeOK, Link, Fresh, fileVars
<1>8. RowsHoldObjects'
  BY <1>1 DEF InsertNew, RowsHoldObjects, TypeOK, ObjectDeleted, Fresh, gcVars, history,
    TransactionsHoldChunks
<1>9. WindowsCloseWithRows'
  BY <1>1 DEF InsertNew, WindowsCloseWithRows, TypeOK, Fresh, history
<1>10. QED
  BY <1>3, <1>4, <1>5, <1>6, <1>7, <1>8, <1>9

(* Another round of GetOrCreateChunk's loop, or its error, holds nothing.  *)
LEMMA RetryHandshake ==
  ASSUME Inv, NEW u \in Uploads, pc[u] \in {"select", "share"}, RetryInsert(u),
         UNCHANGED <<content, index, links, row, hashOf, objects, gcPc, target,
                     halfCollected, staleGrants>>
  PROVE  Handshake'
<1> USE DEF Inv, Handshake
<1>0. PICK p \in {"insert", "abandon"} : pc' = [pc EXCEPT ![u] = p]
  BY DEF RetryInsert
<1>1. OneRowPerHash'
  BY DEF OneRowPerHash, TypeOK
<1>2. TransactionsHoldChunks'
  BY <1>0, NoChunkAssumption DEF TransactionsHoldChunks, TypeOK, Hash, RetryInsert
<1>3. CollectionsHoldChunks'
  BY <1>0 DEF CollectionsHoldChunks, TypeOK, ShareLocked, Referenced, RetryInsert
<1>4. LinksHoldRows'
  BY DEF LinksHoldRows, TypeOK
<1>5. RowsHoldObjects'
  BY <1>0 DEF RowsHoldObjects, TypeOK, ObjectDeleted, RetryInsert
<1>6. WindowsCloseWithRows'
  BY DEF WindowsCloseWithRows, TypeOK
<1>7. QED
  BY <1>1, <1>2, <1>3, <1>4, <1>5, <1>6

(* The loop of GetOrCreateChunk keeps its variables in their types.        *)
LEMMA RetryType ==
  ASSUME TypeOK, NEW u \in Uploads, RetryInsert(u)
  PROVE  /\ pc' \in [Uploads -> UploadPCs]
         /\ attempt' \in [Uploads -> Nat]
         /\ chunk' \in [Uploads -> ChunkIDs \cup {NoChunk}]
BY DEF TypeOK, RetryInsert, UploadPCs

(* GetOrCreateChunk's SELECT finds the row, or no row.                     *)
LEMMA SelectChunkStep ==
  ASSUME Inv, NEW u \in Uploads, SelectChunk(u)
  PROVE  Inv'
<1> USE DEF Inv, Handshake
<1> USE DEF SelectChunk, fileVars, rowVars, gcVars, history
<1>1. CASE LiveRows(Hash(u)) = {} /\ RetryInsert(u)
  <2>1. TypeOK'
    BY <1>1, RetryType DEF TypeOK
  <2>2. Handshake'
    BY <1>1, RetryHandshake
  <2>3. QED
    BY <2>1, <2>2
<1>2. CASE /\ \E c \in LiveRows(Hash(u)) : chunk' = [chunk EXCEPT ![u] = c]
           /\ pc' = [pc EXCEPT ![u] = "share"]
           /\ UNCHANGED attempt
  <2>0. PICK c \in ChunkIDs : /\ row[c] = "live" /\ hashOf[c] = Hash(u)
                              /\ chunk' = [chunk EXCEPT ![u] = c]
    BY <1>2 DEF LiveRows
  <2>1. TypeOK'
    BY <1>2, <2>0 DEF TypeOK, UploadPCs
  <2>2. OneRowPerHash'
    BY DEF OneRowPerHash, TypeOK
  <2>3. TransactionsHoldChunks'
    BY <1>2, <2>0, NoChunkAssumption DEF TransactionsHoldChunks, TypeOK, Hash
  <2>4. CollectionsHoldChunks'
    BY <1>2, <2>0 DEF CollectionsHoldChunks, TypeOK, ShareLocked, Referenced
  <2>5. LinksHoldRows'
    BY DEF LinksHoldRows, TypeOK
  <2>6. RowsHoldObjects'
    BY <1>2, <2>0 DEF RowsHoldObjects, TypeOK, ObjectDeleted
  <2>7. WindowsCloseWithRows'
    BY DEF WindowsCloseWithRows, TypeOK
  <2>8. QED
    BY <2>1, <2>2, <2>3, <2>4, <2>5, <2>6, <2>7
<1>3. QED
  BY <1>1, <1>2

(* FOR SHARE is granted only beside no collector, or finds the row         *)
(* deleted.                                                                *)
LEMMA AcquireShareStep ==
  ASSUME Inv, NEW u \in Uploads, AcquireShare(u)
  PROVE  Inv'
<1> USE DEF Inv, Handshake
<1> USE DEF AcquireShare, fileVars, rowVars, gcVars, history
<1>1. CASE row[chunk[u]] # "live" /\ RetryInsert(u)
  <2>1. TypeOK'
    BY <1>1, RetryType DEF TypeOK
  <2>2. Handshake'
    BY <1>1, RetryHandshake
  <2>3. QED
    BY <2>1, <2>2
<1>2. CASE /\ row[chunk[u]] = "live"
           /\ pc' = [pc EXCEPT ![u] = "link"]
           /\ UNCHANGED <<attempt, chunk>>
  <2>1. TypeOK'
    BY <1>2 DEF TypeOK, UploadPCs
  <2>2. OneRowPerHash'
    BY DEF OneRowPerHash, TypeOK
  <2>3. TransactionsHoldChunks'
    BY <1>2, NoChunkAssumption DEF TransactionsHoldChunks, TypeOK, Hash
  <2>4. CollectionsHoldChunks'
    BY <1>2 DEF CollectionsHoldChunks, TypeOK, ShareLocked, Referenced, ExclusivelyLocked
  <2>5. LinksHoldRows'
    BY DEF LinksHoldRows, TypeOK
  <2>6. RowsHoldObjects'
    BY <1>2 DEF RowsHoldObjects, TypeOK, ObjectDeleted
  <2>7. WindowsCloseWithRows'
    BY DEF WindowsCloseWithRows, TypeOK
  <2>8. QED
    BY <2>1, <2>2, <2>3, <2>4, <2>5, <2>6, <2>7
<1>3. QED
  BY <1>1, <1>2

(* A rollback keeps the chunk table in its types.                          *)
LEMMA RollbackType ==
  ASSUME TypeOK, NEW u \in Uploads, Rollback(u)
  PROVE  /\ row' \in [ChunkIDs -> {"absent", "inserting", "live"}]
         /\ hashOf' \in [ChunkIDs -> Hashes \cup {NoHash}]
         /\ aged' \subseteq ChunkIDs
         /\ chunk' \in [Uploads -> ChunkIDs \cup {NoChunk}]
BY DEF TypeOK, Rollback

(* UploadChunk stores the object before the row can be linked.             *)
LEMMA UploadChunkStep ==
  ASSUME Inv, NEW u \in Uploads, UploadChunk(u)
  PROVE  Inv'
<1> USE DEF Inv, Handshake
<1> USE DEF UploadChunk, fileVars, rowVars, gcVars, history
<1>1. Hash(u) \in Hashes
  BY HashType DEF TransactionsHoldChunks
<1>2. CASE pc' = [pc EXCEPT ![u] = "abandon"] /\ Rollback(u)
  <2>1. TypeOK'
    BY <1>1, <1>2, RollbackType DEF TypeOK, UploadPCs
  <2>2. Handshake'
    BY <1>2, RollbackStep
  <2>3. QED
    BY <2>1, <2>2
<1>3. CASE pc' = [pc EXCEPT ![u] = "link"] /\ UNCHANGED <<chunk, rowVars>>
  <2>1. TypeOK'
    BY <1>1, <1>3 DEF TypeOK, UploadPCs
  <2>2. OneRowPerHash'
    BY <1>3 DEF OneRowPerHash, TypeOK
  <2>3. TransactionsHoldChunks'
    BY <1>3, NoChunkAssumption DEF TransactionsHoldChunks, TypeOK, Hash
  <2>4. CollectionsHoldChunks'
    BY <1>3 DEF CollectionsHoldChunks, TypeOK, ShareLocked, Referenced, TransactionsHoldChunks
  <2>5. LinksHoldRows'
    BY <1>3 DEF LinksHoldRows, TypeOK
  <2>6. RowsHoldObjects'
    BY <1>3, NoChunkAssumption DEF RowsHoldObjects, TypeOK, ObjectDeleted, TransactionsHoldChunks
  <2>7. WindowsCloseWithRows'
    BY <1>3 DEF WindowsCloseWithRows, TypeOK
  <2>8. QED
    BY <2>1, <2>2, <2>3, <2>4, <2>5, <2>6, <2>7
<1>4. QED
  BY <1>2, <1>3

(* LinkFileChunk keeps the share lock, or rolls back when the file is      *)
(* gone.                                                                   *)
LEMMA LinkFileChunkStep ==
  ASSUME Inv, NEW u \in Uploads, LinkFileChunk(u)
  PROVE  Inv'
<1> USE DEF Inv, Handshake
<1> USE DEF LinkFileChunk, fileVars, rowVars, gcVars, history
<1>1. CASE pc' = [pc EXCEPT ![u] = "abandon"] /\ Rollback(u)
  <2>1. TypeOK'
    BY <1>1, RollbackType DEF TypeOK, UploadPCs
  <2>2. Handshake'
    BY <1>1, RollbackStep
  <2>3. QED
    BY <2>1, <2>2
<1>2. CASE pc' = [pc EXCEPT ![u] = "commit"] /\ UNCHANGED <<chunk, rowVars>>
  <2>1. TypeOK'
    BY <1>2 DEF TypeOK, UploadPCs
  <2>2. OneRowPerHash'
    BY <1>2 DEF OneRowPerHash, TypeOK
  <2>3. TransactionsHoldChunks'
    BY <1>2, NoChunkAssumption DEF TransactionsHoldChunks, TypeOK, Hash
  <2>4. CollectionsHoldChunks'
    BY <1>2 DEF CollectionsHoldChunks, TypeOK, ShareLocked, Referenced
  <2>5. LinksHoldRows'
    BY <1>2 DEF LinksHoldRows, TypeOK
  <2>6. RowsHoldObjects'
    BY <1>2 DEF RowsHoldObjects, TypeOK, ObjectDeleted
  <2>7. WindowsCloseWithRows'
    BY <1>2 DEF WindowsCloseWithRows, TypeOK
  <2>8. QED
    BY <2>1, <2>2, <2>3, <2>4, <2>5, <2>6, <2>7
<1>3. QED
  BY <1>1, <1>2

(* storeChunks goes on exactly while the stream has chunks.                *)
LEMMA AfterChunksType ==
  ASSUME NEW u \in Uploads, NEW k \in Nat, content[u] \in Seq(Hashes), k <= Len(content[u])
  PROVE  /\ AfterChunks(u, k) \in {"insert", "publish"}
         /\ AfterChunks(u, k) = "insert" => k + 1 \in DOMAIN content[u]
         /\ AfterChunks(u, k) = "publish" => k = Len(content[u])
BY DEF AfterChunks

(* A chunk commit adds a reference only to a row its transaction has       *)
(* locked.                                                                 *)
LEMMA CommitChunkStep ==
  ASSUME Inv, NEW u \in Uploads, CommitChunk(u)
  PROVE  Inv'
<1> USE DEF Inv, Handshake
<1> USE DEF CommitChunk, fileVars, rowVars, gcVars, history
<1>1. chunk[u] \in ChunkIDs /\ hashOf[chunk[u]] = Hash(u) /\ row[chunk[u]] # "absent"
  BY NoChunkAssumption DEF TransactionsHoldChunks
<1>2. PICK p \in {"insert", "publish", "abandon"} :
        /\ pc' = [pc EXCEPT ![u] = p]
        /\ p = "insert" => (index[u] + 1) + 1 \in DOMAIN content[u]
  <2>1. content[u] \in Seq(Hashes) /\ index[u] + 1 \in Nat /\ index[u] + 1 <= Len(content[u])
    BY ContentsAssumption DEF TypeOK, TransactionsHoldChunks
  <2>2. QED
    BY <2>1, AfterChunksType
<1>3. TypeOK'
  BY <1>1, <1>2 DEF TypeOK, UploadPCs, Link
<1>4. OneRowPerHash'
  BY <1>1 DEF OneRowPerHash, TypeOK
<1>5. TransactionsHoldChunks'
  BY <1>1, <1>2, NoChunkAssumption DEF TransactionsHoldChunks, TypeOK, Hash
<1>6. CollectionsHoldChunks'
  BY <1>1, <1>2 DEF CollectionsHoldChunks, TypeOK, ShareLocked, Referenced
<1>7. LinksHoldRows'
  BY <1>1 DEF LinksHoldRows, TypeOK, Link
<1>8. RowsHoldObjects'
  BY <1>1, <1>2, NoChunkAssumption
    DEF RowsHoldObjects, TypeOK, ObjectDeleted, TransactionsHoldChunks
<1>9. WindowsCloseWithRows'
  BY <1>1 DEF WindowsCloseWithRows, TypeOK
<1>10. QED
  BY <1>3, <1>4, <1>5, <1>6, <1>7, <1>8, <1>9

(* The cascade of a file delete only removes references.                   *)
LEMMA DropFilesType ==
  ASSUME TypeOK, NEW F \in SUBSET Uploads, DropFiles(F)
  PROVE  /\ files' \in [Uploads -> {"none", "uploading", "ready"}]
         /\ stale' \subseteq Uploads
         /\ links' \subseteq Link
         /\ links' \subseteq links
BY DEF TypeOK, DropFiles

(* The remaining steps of UploadFile, its failures and its crash.          *)
LEMMA OtherUploadSteps ==
  ASSUME Inv, NEW u \in Uploads,
         \/ RejectUpload(u) \/ CreateFile(u) \/ InsertConflict(u) \/ PublishFile(u)
         \/ PublishFileUploaded(u) \/ AbandonUpload(u) \/ FailUpload(u) \/ CrashUpload(u)
  PROVE  Inv'
<1> USE DEF Inv
<1> USE DEF fileVars, rowVars, gcVars, history
<1>1. CASE RejectUpload(u)
  <2>1. TypeOK'
    BY <1>1 DEF RejectUpload, TypeOK, UploadPCs
  <2>2. QED
    BY <1>1, <2>1, QuietStep DEF RejectUpload, UploadPCs
<1>2. CASE CreateFile(u)
  <2>1. PICK p \in {AfterChunks(u, 0), "failed"} : pc' = [pc EXCEPT ![u] = p]
    BY <1>2 DEF CreateFile
  <2>2. index[u] = 0
    BY <1>2 DEF CreateFile, Handshake, TransactionsHoldChunks
  <2>3. TypeOK'
    BY <1>2, <2>1 DEF CreateFile, TypeOK, UploadPCs, AfterChunks
  <2>4. content[u] \in Seq(Hashes)
    BY ContentsAssumption DEF TypeOK
  <2>5. /\ p \in {"insert", "publish", "failed"}
        /\ p = "insert" => index[u] + 1 \in DOMAIN content[u]
    BY <2>1, <2>2, <2>4, AfterChunksType
  <2>6. QED
    BY <1>2, <2>1, <2>3, <2>5, QuietStep DEF CreateFile, UploadPCs
<1>3. CASE InsertConflict(u)
  <2>1. TypeOK'
    BY <1>3 DEF InsertConflict, TypeOK, UploadPCs
  <2>2. index[u] + 1 \in DOMAIN content[u]
    BY <1>3 DEF InsertConflict, Handshake, TransactionsHoldChunks
  <2>3. QED
    BY <1>3, <2>1, <2>2, QuietStep DEF InsertConflict, UploadPCs
<1>4. CASE PublishFile(u)
  <2>1. PICK p \in {"event", "abandon"} : pc' = [pc EXCEPT ![u] = p]
    BY <1>4 DEF PublishFile
  <2>2. TypeOK'
    BY <1>4, <2>1 DEF PublishFile, TypeOK, UploadPCs
  <2>3. QED
    BY <1>4, <2>1, <2>2, QuietStep DEF PublishFile, UploadPCs
<1>5. CASE PublishFileUploaded(u)
  <2>1. TypeOK'
    BY <1>5 DEF PublishFileUploaded, TypeOK, UploadPCs
  <2>2. QED
    BY <1>5, <2>1, QuietStep DEF PublishFileUploaded, UploadPCs
<1>6. CASE AbandonUpload(u)
  <2>1. PICK F \in SUBSET Uploads : DropFiles(F)
    BY <1>6 DEF AbandonUpload
  <2>2. TypeOK'
    BY <1>6, <2>1, DropFilesType DEF AbandonUpload, TypeOK, UploadPCs
  <2>3. QED
    BY <1>6, <2>1, <2>2, DropFilesType, QuietStep DEF AbandonUpload, UploadPCs
<1>7. CASE FailUpload(u)
  <2>1. TypeOK'
    BY <1>7, RollbackType DEF FailUpload, TypeOK, UploadPCs
  <2>2. QED
    BY <1>7, <2>1, RollbackStep DEF FailUpload
<1>8. CASE CrashUpload(u)
  <2>1. TypeOK'
    BY <1>8, RollbackType DEF CrashUpload, TypeOK, UploadPCs
  <2>2. QED
    BY <1>8, <2>1, RollbackStep DEF CrashUpload
<1>9. QED
  BY <1>1, <1>2, <1>3, <1>4, <1>5, <1>6, <1>7, <1>8

(* Removing references, or starting a collector's call, keeps the          *)
(* handshake.                                                              *)
LEMMA FewerLinks ==
  ASSUME Inv, links' \subseteq links,
         UNCHANGED <<uploadVars, row, hashOf, objects, target, halfCollected, staleGrants>>,
         \/ UNCHANGED gcPc
         \/ \E g \in Collectors : gcPc[g] = "idle" /\ gcPc' = [gcPc EXCEPT ![g] = "scan"]
  PROVE  Handshake'
<1> USE DEF Inv, Handshake, uploadVars
<1>1. OneRowPerHash'
  BY DEF OneRowPerHash, TypeOK
<1>2. TransactionsHoldChunks'
  BY DEF TransactionsHoldChunks, TypeOK, Hash
<1>3. CollectionsHoldChunks'
  BY DEF CollectionsHoldChunks, TypeOK, ShareLocked, Referenced
<1>4. LinksHoldRows'
  BY DEF LinksHoldRows, TypeOK
<1>5. RowsHoldObjects'
  BY DEF RowsHoldObjects, TypeOK, ObjectDeleted
<1>6. WindowsCloseWithRows'
  BY DEF WindowsCloseWithRows, TypeOK
<1>7. QED
  BY <1>1, <1>2, <1>3, <1>4, <1>5, <1>6

(* DeleteFile and the cascade of DeleteFolder.                             *)
LEMMA DeleteFileStep ==
  ASSUME Inv, NEW u \in Uploads, DeleteFile(u)
  PROVE  Inv'
<1> USE DEF Inv, DeleteFile, uploadVars, rowVars, gcVars
<1>1. TypeOK'
  BY DropFilesType DEF TypeOK
<1>2. Handshake'
  BY DropFilesType, FewerLinks
<1>3. QED
  BY <1>1, <1>2

(* DeleteStaleUploads, whether it succeeds or fails.                       *)
LEMMA SweepUploadsStep ==
  ASSUME Inv, NEW g \in Collectors, SweepUploads(g)
  PROVE  Inv'
<1> USE DEF Inv, SweepUploads, uploadVars, rowVars, fileVars, gcVars, history
<1>1. StaleUploads \in SUBSET Uploads
  BY DEF TypeOK, StaleUploads
<1>2. /\ files' \in [Uploads -> {"none", "uploading", "ready"}]
      /\ stale' \subseteq Uploads
      /\ links' \subseteq Link
      /\ links' \subseteq links
  BY <1>1, DropFilesType DEF TypeOK
<1>3. faults' \in 0..MaxCollectorFaults
  BY BoundsAssumption DEF TypeOK, CollectorFault
<1>4. TypeOK'
  BY <1>2, <1>3 DEF TypeOK, CollectorPCs
<1>5. Handshake'
  BY <1>2, FewerLinks
<1>6. QED
  BY <1>4, <1>5

(* The number of collector faults stays within its bound.                  *)
LEMMA FaultType ==
  ASSUME TypeOK, CollectorFault
  PROVE  faults' \in 0..MaxCollectorFaults
BY BoundsAssumption DEF TypeOK, CollectorFault

(* The collector leaves a chunk without having changed its row; if it has  *)
(* deleted the object, the chunk is on record as half collected.           *)
LEMMA EndCollection ==
  ASSUME Inv, NEW g \in Collectors, NextChunk(g),
         todo' \in [Collectors -> SUBSET ChunkIDs],
         \/ objects' = objects
         \/ /\ gcPc[g] = "object"
            /\ objects' = objects \ {hashOf[target[g]]}
            /\ target[g] \in halfCollected',
         ObjectDeleted(g) => target[g] \in halfCollected',
         halfCollected' \in {halfCollected, halfCollected \cup {target[g]}},
         halfCollected' # halfCollected => gcPc[g] \in {"object", "record", "commit"},
         UNCHANGED <<uploadVars, row, hashOf, links, staleGrants>>
  PROVE  Handshake'
<1> USE DEF Inv, Handshake, uploadVars
<1>0. PICK p \in {"idle", "pick"} : gcPc' = [gcPc EXCEPT ![g] = p]
  BY DEF NextChunk
<1>1. OneRowPerHash'
  BY DEF OneRowPerHash, TypeOK
<1>2. TransactionsHoldChunks'
  BY DEF TransactionsHoldChunks, TypeOK, Hash
<1>3. CollectionsHoldChunks'
  BY <1>0, NoChunkAssumption DEF CollectionsHoldChunks, TypeOK, ShareLocked, Referenced, NextChunk
<1>4. LinksHoldRows'
  BY DEF LinksHoldRows, TypeOK
<1>5. RowsHoldObjects'
  <2>1. ASSUME NEW c \in ChunkIDs, row[c] = "live"
        PROVE  \/ hashOf[c] \in objects'
               \/ c \in halfCollected' \cup staleGrants
               \/ \E k \in Collectors : target'[k] = c /\ ObjectDeleted(k)'
    BY <1>0, <2>1
      DEF RowsHoldObjects, TypeOK, ObjectDeleted, NextChunk, OneRowPerHash, CollectionsHoldChunks
  <2>2. ASSUME NEW u \in Uploads, pc[u] \in {"link", "commit"}, row[chunk[u]] = "inserting"
        PROVE  hashOf[chunk[u]] \in objects'
    BY <2>2
      DEF RowsHoldObjects, TypeOK, TransactionsHoldChunks, OneRowPerHash, CollectionsHoldChunks
  <2>3. QED
    BY <2>1, <2>2 DEF RowsHoldObjects
<1>6. WindowsCloseWithRows'
  BY DEF WindowsCloseWithRows, TypeOK, CollectionsHoldChunks
<1>7. QED
  BY <1>1, <1>2, <1>3, <1>4, <1>5, <1>6

(* Going on to the next chunk keeps the collector's variables in their     *)
(* types.                                                                  *)
LEMMA NextChunkType ==
  ASSUME TypeOK, NEW g \in Collectors, NextChunk(g)
  PROVE  /\ gcPc' \in [Collectors -> CollectorPCs]
         /\ target' \in [Collectors -> ChunkIDs \cup {NoChunk}]
BY DEF TypeOK, NextChunk, CollectorPCs

(* The steps of collectChunk, its errors and its stops.                    *)
LEMMA CollectorSteps ==
  ASSUME Inv, NEW g \in Collectors,
         \/ ScanChunks(g) \/ CheckChunk(g) \/ LockChunk(g) \/ DeleteObject(g)
         \/ DeleteChunkRecord(g) \/ CommitCollection(g)
         \/ FailCollection(g) \/ StopCollector(g)
  PROVE  Inv'
<1> USE DEF Inv
<1> USE DEF uploadVars, fileVars, rowVars, gcVars, history
<1>1. CASE ScanChunks(g)
  <2> USE DEF ScanChunks
  <2>1. todo' \in [Collectors -> SUBSET ChunkIDs]
    BY <1>1 DEF TypeOK, OrphanedChunks
  <2>2. TypeOK'
    BY <1>1, <2>1, NextChunkType, FaultType DEF TypeOK
  <2>3. QED
    BY <1>1, <2>1, <2>2, EndCollection DEF ObjectDeleted
<1>2. CASE CheckChunk(g)
  <2>1. PICK c \in todo[g] :
          /\ todo' = [todo EXCEPT ![g] = @ \ {c}]
          /\ \/ /\ StillOrphaned(c)
                /\ gcPc' = [gcPc EXCEPT ![g] = "lock"]
                /\ target' = [target EXCEPT ![g] = c]
             \/ /\ ~StillOrphaned(c)
                /\ NextChunk(g)
    BY <1>2 DEF CheckChunk
  <2>2. c \in ChunkIDs /\ todo' \in [Collectors -> SUBSET ChunkIDs]
    BY <2>1 DEF TypeOK
  <2>3. CASE NextChunk(g)
    <3>1. TypeOK'
      BY <1>2, <2>2, <2>3, NextChunkType DEF TypeOK, CheckChunk
    <3>2. QED
      BY <1>2, <2>2, <2>3, <3>1, EndCollection DEF CheckChunk, ObjectDeleted
  <2>4. CASE /\ StillOrphaned(c)
             /\ gcPc' = [gcPc EXCEPT ![g] = "lock"]
             /\ target' = [target EXCEPT ![g] = c]
    <3> USE DEF CheckChunk, Handshake
    <3>1. TypeOK'
      BY <1>2, <2>2, <2>4 DEF TypeOK, CollectorPCs
    <3>2. OneRowPerHash' /\ LinksHoldRows' /\ WindowsCloseWithRows'
      BY <1>2 DEF OneRowPerHash, LinksHoldRows, WindowsCloseWithRows
    <3>3. TransactionsHoldChunks'
      BY <1>2 DEF TransactionsHoldChunks, Hash
    <3>4. CollectionsHoldChunks'
      BY <1>2, <2>2, <2>4
        DEF CollectionsHoldChunks, TypeOK, ShareLocked, Referenced, StillOrphaned
    <3>5. RowsHoldObjects'
      BY <1>2, <2>4 DEF RowsHoldObjects, TypeOK, ObjectDeleted
    <3>6. QED
      BY <3>1, <3>2, <3>3, <3>4, <3>5
  <2>5. QED
    BY <2>1, <2>3, <2>4
<1>3. CASE LockChunk(g)
  <2>1. CASE NextChunk(g) /\ UNCHANGED <<todo, staleGrants>>
    <3>1. TypeOK'
      BY <1>3, <2>1, NextChunkType DEF TypeOK, LockChunk
    <3>2. QED
      BY <1>3, <2>1, <3>1, EndCollection DEF LockChunk, ObjectDeleted, TypeOK
  <2>2. CASE /\ row[target[g]] = "live"
             /\ gcPc' = [gcPc EXCEPT ![g] = "object"]
             /\ staleGrants' = IF Referenced(target[g]) THEN staleGrants \cup {target[g]}
                                                         ELSE staleGrants
             /\ UNCHANGED <<todo, target>>
    <3> USE DEF LockChunk, Handshake
    <3>1. target[g] \in ChunkIDs
      BY <1>3 DEF CollectionsHoldChunks
    <3>2. TypeOK'
      BY <1>3, <2>2, <3>1 DEF TypeOK, CollectorPCs
    <3>3. OneRowPerHash' /\ LinksHoldRows' /\ WindowsCloseWithRows'
      BY <1>3, <2>2 DEF OneRowPerHash, LinksHoldRows, WindowsCloseWithRows
    <3>4. TransactionsHoldChunks'
      BY <1>3 DEF TransactionsHoldChunks, Hash
    <3>5. CollectionsHoldChunks'
      BY <1>3, <2>2, <3>1
        DEF CollectionsHoldChunks, TypeOK, ShareLocked, Referenced, ExclusivelyLocked
    <3>6. RowsHoldObjects'
      BY <1>3, <2>2 DEF RowsHoldObjects, TypeOK, ObjectDeleted
    <3>7. QED
      BY <3>2, <3>3, <3>4, <3>5, <3>6
  <2>3. QED
    BY <1>3, <2>1, <2>2 DEF LockChunk
<1>4. CASE DeleteObject(g)
  <2>0. target[g] \in ChunkIDs
    BY <1>4 DEF DeleteObject, Handshake, CollectionsHoldChunks
  <2>1. CASE CollectorFault /\ UNCHANGED todo /\ NextChunk(g) /\ LeaveHalfCollected(g)
    <3>1. TypeOK'
      BY <1>4, <2>0, <2>1, NextChunkType, FaultType DEF TypeOK, DeleteObject, LeaveHalfCollected
    <3>2. QED
      BY <1>4, <2>1, <3>1, EndCollection
        DEF DeleteObject, ObjectDeleted, TypeOK, LeaveHalfCollected
  <2>2. CASE /\ gcPc' = [gcPc EXCEPT ![g] = "record"]
             /\ UNCHANGED <<todo, target, faults, halfCollected>>
    <3> USE DEF DeleteObject, Handshake
    <3>1. TypeOK'
      BY <1>4, <2>2 DEF TypeOK, CollectorPCs
    <3>2. OneRowPerHash' /\ LinksHoldRows' /\ WindowsCloseWithRows'
      BY <1>4, <2>2 DEF OneRowPerHash, LinksHoldRows, WindowsCloseWithRows
    <3>3. TransactionsHoldChunks'
      BY <1>4 DEF TransactionsHoldChunks, Hash
    <3>4. CollectionsHoldChunks'
      BY <1>4, <2>2 DEF CollectionsHoldChunks, TypeOK, ShareLocked, Referenced
    <3>5. RowsHoldObjects'
      <4>1. ASSUME NEW c \in ChunkIDs, row[c] = "live"
            PROVE  \/ hashOf[c] \in objects'
                   \/ c \in halfCollected \cup staleGrants
                   \/ \E k \in Collectors : target[k] = c /\ ObjectDeleted(k)'
        BY <1>4, <2>0, <2>2, <4>1 DEF RowsHoldObjects, TypeOK, ObjectDeleted, OneRowPerHash
      <4>2. ASSUME NEW u \in Uploads, pc[u] \in {"link", "commit"}, row[chunk[u]] = "inserting"
            PROVE  hashOf[chunk[u]] \in objects'
        BY <1>4, <2>0, <4>2
          DEF RowsHoldObjects, TypeOK, TransactionsHoldChunks, OneRowPerHash, CollectionsHoldChunks
      <4>3. QED
        BY <1>4, <2>2, <4>1, <4>2 DEF RowsHoldObjects
    <3>6. QED
      BY <3>1, <3>2, <3>3, <3>4, <3>5
  <2>3. QED
    BY <1>4, <2>1, <2>2 DEF DeleteObject
<1>5. CASE DeleteChunkRecord(g)
  <2>0. target[g] \in ChunkIDs
    BY <1>5 DEF DeleteChunkRecord, Handshake, CollectionsHoldChunks
  <2>1. CASE UNCHANGED todo /\ NextChunk(g) /\ LeaveHalfCollected(g)
    <3>1. TypeOK'
      BY <1>5, <2>0, <2>1, NextChunkType DEF TypeOK, DeleteChunkRecord, LeaveHalfCollected
    <3>2. QED
      BY <1>5, <2>1, <3>1, EndCollection
        DEF DeleteChunkRecord, ObjectDeleted, TypeOK, LeaveHalfCollected
  <2>2. CASE /\ ~Referenced(target[g])
             /\ gcPc' = [gcPc EXCEPT ![g] = "commit"]
             /\ UNCHANGED <<todo, target, halfCollected>>
    <3> USE DEF DeleteChunkRecord, Handshake
    <3>1. TypeOK'
      BY <1>5, <2>2 DEF TypeOK, CollectorPCs
    <3>2. OneRowPerHash' /\ LinksHoldRows' /\ WindowsCloseWithRows'
      BY <1>5, <2>2 DEF OneRowPerHash, LinksHoldRows, WindowsCloseWithRows
    <3>3. TransactionsHoldChunks'
      BY <1>5 DEF TransactionsHoldChunks, Hash
    <3>4. CollectionsHoldChunks'
      BY <1>5, <2>2 DEF CollectionsHoldChunks, TypeOK, ShareLocked, Referenced
    <3>5. RowsHoldObjects'
      BY <1>5, <2>2 DEF RowsHoldObjects, TypeOK, ObjectDeleted
    <3>6. QED
      BY <3>1, <3>2, <3>3, <3>4, <3>5
  <2>3. QED
    BY <1>5, <2>1, <2>2 DEF DeleteChunkRecord
<1>6. CASE CommitCollection(g)
  <2> USE DEF CommitCollection, Handshake
  <2>1. target[g] \in ChunkIDs /\ row[target[g]] = "live" /\ ~Referenced(target[g])
    BY <1>6 DEF CollectionsHoldChunks
  <2>2. PICK p \in {"idle", "pick"} : gcPc' = [gcPc EXCEPT ![g] = p]
    BY <1>6 DEF NextChunk
  <2>3. TypeOK'
    BY <1>6, <2>1, NextChunkType DEF TypeOK
  <2>4. OneRowPerHash' /\ LinksHoldRows' /\ WindowsCloseWithRows'
    BY <1>6, <2>1 DEF OneRowPerHash, LinksHoldRows, WindowsCloseWithRows, TypeOK, Referenced, Link
  <2>5. TransactionsHoldChunks'
    BY <1>6, <2>1, NoChunkAssumption
      DEF TransactionsHoldChunks, CollectionsHoldChunks, ShareLocked, Hash, TypeOK
  <2>6. CollectionsHoldChunks'
    BY <1>6, <2>1, <2>2, NoChunkAssumption
      DEF CollectionsHoldChunks, TypeOK, ShareLocked, Referenced, NextChunk
  <2>7. RowsHoldObjects'
    BY <1>6, <2>1, <2>2, NoChunkAssumption
      DEF RowsHoldObjects, TypeOK, ObjectDeleted, NextChunk, TransactionsHoldChunks
  <2>8. QED
    BY <2>3, <2>4, <2>5, <2>6, <2>7
<1>7. CASE FailCollection(g) \/ StopCollector(g)
  <2>0. /\ gcPc[g] # "idle"
        /\ CollectorFault /\ NextChunk(g)
        /\ IF ObjectDeleted(g) THEN LeaveHalfCollected(g) ELSE UNCHANGED halfCollected
        /\ UNCHANGED <<uploadVars, fileVars, rowVars, objects, events, staleGrants, removed, outlasted>>
    BY <1>7 DEF FailCollection, StopCollector
  <2>1. todo' \in [Collectors -> SUBSET ChunkIDs]
    BY <1>7 DEF TypeOK, FailCollection, StopCollector
  <2>2. ObjectDeleted(g) => target[g] \in ChunkIDs
    BY DEF ObjectDeleted, Handshake, CollectionsHoldChunks
  <2>3. TypeOK'
    BY <2>0, <2>1, <2>2, NextChunkType, FaultType DEF TypeOK, LeaveHalfCollected
  <2>4. QED
    BY <2>0, <2>1, <2>3, EndCollection DEF ObjectDeleted, LeaveHalfCollected
<1>8. QED
  BY <1>1, <1>2, <1>3, <1>4, <1>5, <1>6, <1>7

(* Time changes ages only.                                                 *)
LEMMA MinAgePassesStep ==
  ASSUME Inv, MinAgePasses
  PROVE  Inv'
<1> USE DEF Inv, MinAgePasses, uploadVars, gcVars, history
<1>1. TypeOK'
  BY DEF TypeOK
<1>2. Handshake'
  BY FewerLinks
<1>3. QED
  BY <1>1, <1>2

(* In every reachable state an upload holding FOR SHARE and a collector    *)
(* holding FOR UPDATE (GetOrCreateChunk, LockOrphanedChunk) never hold the *)
(* same row, and each finds the row, hash and object it decided on; and    *)
(* the variables have their types.                                         *)
THEOREM HandshakeHolds == Spec => [](TypeOK /\ Handshake)
<1>1. Inv /\ [Next]_vars => Inv'
  <2> SUFFICES ASSUME Inv, [Next]_vars PROVE Inv'
    OBVIOUS
  <2>1. ASSUME NEW u \in Uploads,
               ProgressUpload(u) \/ FailUpload(u) \/ CrashUpload(u) \/ DeleteFile(u)
        PROVE  Inv'
    BY <2>1, OtherUploadSteps, InsertNewStep, SelectChunkStep, AcquireShareStep, UploadChunkStep,
       LinkFileChunkStep, CommitChunkStep, DeleteFileStep DEF ProgressUpload
  <2>2. ASSUME NEW g \in Collectors,
               ProgressCollector(g) \/ FailCollection(g) \/ StopCollector(g)
        PROVE  Inv'
    BY <2>2, CollectorSteps, SweepUploadsStep DEF ProgressCollector
  <2>3. CASE MinAgePasses
    BY <2>3, MinAgePassesStep
  <2>4. CASE UNCHANGED vars
    BY <2>4 DEF Inv, TypeOK, Handshake, OneRowPerHash, TransactionsHoldChunks,
      CollectionsHoldChunks, LinksHoldRows, RowsHoldObjects, WindowsCloseWithRows, Hash,
      ShareLocked, Referenced, ObjectDeleted, vars, uploadVars, fileVars, rowVars, gcVars, history
  <2>5. QED
    BY <2>1, <2>2, <2>3, <2>4 DEF Next
<1>2. QED
  BY InitInv, <1>1, PTL DEF Spec, Inv

(* For any number of processes: a reference in file_chunks whose object is *)
(* missing has lost it through a collection that did not commit or through *)
(* a lock LockOrphanedChunk was granted on a referenced row, and through   *)
(* nothing else.                                                           *)
THEOREM LossOnlyThroughWindows == Spec => []LossOnlyThroughKnownWindows
<1>1. TypeOK /\ Handshake => LossOnlyThroughKnownWindows
  <2> SUFFICES ASSUME TypeOK, Handshake, NEW l \in links
               PROVE  \/ hashOf[l.chunk] \in objects
                      \/ l.chunk \in halfCollected \cup staleGrants
    BY DEF LossOnlyThroughKnownWindows
  <2>1. l.chunk \in ChunkIDs /\ row[l.chunk] = "live"
    BY DEF TypeOK, Link, Handshake, LinksHoldRows
  <2>2. ASSUME NEW g \in Collectors, target[g] = l.chunk, ObjectDeleted(g)
        PROVE  l.chunk \in staleGrants
    BY <2>2 DEF ObjectDeleted, Handshake, CollectionsHoldChunks, Referenced
  <2>3. QED
    BY <2>1, <2>2 DEF Handshake, RowsHoldObjects
<1>2. QED
  BY <1>1, HandshakeHolds, PTL
=============================================================================
