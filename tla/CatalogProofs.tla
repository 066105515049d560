--------------------------- MODULE CatalogProofs ---------------------------
(***************************************************************************)
(* Storage implements FileCatalog: on top of the handshake, the chunk list *)
(* of every file follows the progress of its upload, so the step that sets *)
(* the status to ready is the step in which the whole file appears, and no *)
(* other step changes what a user sees except a delete.                    *)
(***************************************************************************)
EXTENDS StorageProofs

(* A committed reference keeps the hash it was made for: no step changes   *)
(* the hash column of a referenced row.                                    *)
LEMMA HashStable ==
  ASSUME Inv, [Next]_vars, NEW l \in links
  PROVE  hashOf'[l.chunk] = hashOf[l.chunk]
<1>1. l.chunk \in ChunkIDs /\ row[l.chunk] = "live"
  BY DEF Inv, TypeOK, Link, Handshake, LinksHoldRows
<1> USE DEF uploadVars, rowVars, fileVars, gcVars, history
<1>2. ASSUME NEW u \in Uploads, Rollback(u) PROVE hashOf'[l.chunk] = hashOf[l.chunk]
  BY <1>1, <1>2 DEF Rollback
<1>3. ASSUME NEW u \in Uploads, ProgressUpload(u) \/ FailUpload(u) \/ CrashUpload(u)
      PROVE  hashOf'[l.chunk] = hashOf[l.chunk]
  <2>1. CASE InsertNew(u)
    BY <1>1, <2>1 DEF InsertNew, Fresh, Inv, TypeOK
  <2>2. CASE ~InsertNew(u)
    BY <1>2, <1>3, <2>2 DEF ProgressUpload, RejectUpload, CreateFile, InsertConflict, SelectChunk,
      AcquireShare, UploadChunk, LinkFileChunk, CommitChunk, PublishFile, PublishFileUploaded,
      AbandonUpload, FailUpload, CrashUpload
  <2>3. QED
    BY <2>1, <2>2
<1>4. ASSUME NEW g \in Collectors, ProgressCollector(g) \/ FailCollection(g) \/ StopCollector(g)
      PROVE  hashOf'[l.chunk] = hashOf[l.chunk]
  <2>1. CASE CommitCollection(g)
    BY <1>1, <2>1
      DEF CommitCollection, Inv, TypeOK, Handshake, CollectionsHoldChunks, Referenced
  <2>2. CASE ~CommitCollection(g)
    BY <1>4, <2>2 DEF ProgressCollector, SweepUploads, ScanChunks, CheckChunk, LockChunk,
      DeleteObject, DeleteChunkRecord, FailCollection, StopCollector
  <2>3. QED
    BY <2>1, <2>2
<1>5. QED
  BY <1>3, <1>4 DEF Next, DeleteFile, MinAgePasses, vars

(* Two chunk lists over the same rows of file_chunks are the same.         *)
LEMMA ChunkListStable ==
  ASSUME Inv, [Next]_vars, NEW u \in Uploads,
         {l \in links' : l.file = u} = {l \in links : l.file = u}
  PROVE  ChunkList(u)' = ChunkList(u)
<1>1. \A l \in links : hashOf'[l.chunk] = hashOf[l.chunk]
  BY HashStable
<1>2. QED
  BY <1>1 DEF ChunkList

(* Dropping files leaves the other files' lists alone.                     *)
LEMMA DropFilesLists ==
  ASSUME Inv, [Next]_vars, NEW F \in SUBSET Uploads, DropFiles(F), NEW u \in Uploads
  PROVE  /\ u \in F => files'[u] = "none" /\ \A l \in links' : l.file # u
         /\ u \notin F => files'[u] = files[u] /\ ChunkList(u)' = ChunkList(u)
<1>1. u \in F => files'[u] = "none" /\ \A l \in links' : l.file # u
  BY DEF DropFiles
<1>2. ASSUME u \notin F PROVE files'[u] = files[u] /\ ChunkList(u)' = ChunkList(u)
  <2>1. {l \in links' : l.file = u} = {l \in links : l.file = u}
    BY <1>2 DEF DropFiles
  <2>2. QED
    BY <1>2, <2>1, ChunkListStable DEF DropFiles
<1>3. QED
  BY <1>1, <1>2

(* A chunk commit extends its own file's list by the chunk it stored.      *)
LEMMA CommitLists ==
  ASSUME Inv, NEW u \in Uploads, CommitChunk(u)
  PROVE  /\ ChunkList(u)' = ChunkList(u) \cup {<<index[u], Hash(u)>>}
         /\ \A v \in Uploads \ {u} : ChunkList(v)' = ChunkList(v)
<1>1. hashOf[chunk[u]] = Hash(u) /\ hashOf' = hashOf
  BY NoChunkAssumption DEF Inv, Handshake, TransactionsHoldChunks, CommitChunk
<1>2. links' = links \cup {[file |-> u, index |-> index[u], chunk |-> chunk[u]]}
  BY DEF CommitChunk
<1>3. ChunkList(u)' = ChunkList(u) \cup {<<index[u], Hash(u)>>}
  <2> DEFINE new == [file |-> u, index |-> index[u], chunk |-> chunk[u]]
  <2>1. {l \in links' : l.file = u} = {l \in links : l.file = u} \cup {new}
    BY <1>2
  <2>2. new.index = index[u] /\ hashOf[new.chunk] = Hash(u)
    BY <1>1
  <2> HIDE DEF new
  <2>3. QED
    BY <1>1, <2>1, <2>2 DEF ChunkList
<1>4. ASSUME NEW v \in Uploads \ {u} PROVE ChunkList(v)' = ChunkList(v)
  <2>1. {l \in links' : l.file = v} = {l \in links : l.file = v}
    BY <1>2, <1>4
  <2>2. QED
    BY <1>1, <2>1 DEF ChunkList
<1>5. QED
  BY <1>3, <1>4

(* The first k+1 chunks are the first k and the next one.                  *)
LEMMA FirstChunksGrow ==
  ASSUME NEW u \in Uploads, NEW k \in Nat
  PROVE  FirstChunks(u, k + 1) = FirstChunks(u, k) \cup {<<k, content[u][k + 1]>>}
BY DEF FirstChunks

(* One upload's part of ListsMatchProgress.                                *)
ListMatches(u) ==
  /\ index[u] \in 0..Len(content[u])
  /\ files[u] = "none" => \A l \in links : l.file # u
  /\ files[u] # "none" => ChunkList(u) = FirstChunks(u, index[u])
  /\ pc[u] \in {"publish", "event", "done"} => index[u] = Len(content[u])
  /\ pc[u] = "commit" => files[u] = "uploading"
  /\ pc[u] = "start" => files[u] = "none"
  /\ files[u] = "ready" => /\ index[u] = Len(content[u])
                           /\ pc[u] \in {"event", "abandon", "done", "failed"}
  /\ u \in events => pc[u] = "done"

(* Without files there are no lists.                                       *)
LEMMA ListsInit == ASSUME Init PROVE ListsMatchProgress
<1> SUFFICES ASSUME NEW u \in Uploads PROVE ListMatches(u)
  BY DEF ListsMatchProgress, ListMatches
<1>1. content[u] \in Seq(Hashes)
  BY ContentsAssumption DEF Init
<1>2. QED
  BY <1>1 DEF Init, ListMatches

(* A step of u that leaves both tables and the stream alone.               *)
LEMMA QuietLists ==
  ASSUME Inv, [Next]_vars, NEW u \in Uploads, ListMatches(u),
         UNCHANGED <<content, index, files, links>>,
         pc'[u] # pc[u] =>
           /\ pc[u] \notin {"done", "failed"}
           /\ pc'[u] # "start"
           /\ pc'[u] \in {"publish", "event", "done"} => index[u] = Len(content[u])
           /\ pc'[u] = "commit" => files[u] = "uploading"
           /\ files[u] = "ready" => pc'[u] \in {"event", "abandon", "done", "failed"},
         u \in events' => u \in events \/ pc'[u] = "done"
  PROVE  ListMatches(u)'
<1>1. ChunkList(u)' = ChunkList(u)
  BY ChunkListStable
<1>2. FirstChunks(u, index[u])' = FirstChunks(u, index[u])
  BY DEF FirstChunks
<1>3. QED
  BY <1>1, <1>2 DEF ListMatches

(* A step that drops the files F, in which u's call at most gives up.      *)
LEMMA DropLists ==
  ASSUME Inv, [Next]_vars, NEW u \in Uploads, ListMatches(u),
         NEW F \in SUBSET Uploads, DropFiles(F),
         u \in F => pc[u] # "commit",
         UNCHANGED <<content, index, events>>,
         pc'[u] # pc[u] => pc[u] = "abandon" /\ pc'[u] = "failed"
  PROVE  ListMatches(u)'
<1>1. FirstChunks(u, index[u])' = FirstChunks(u, index[u])
  BY DEF FirstChunks
<1>2. \A l \in links' : l \in links
  BY DEF DropFiles
<1>3. QED
  BY <1>1, <1>2, DropFilesLists DEF ListMatches

(* Every step keeps the lists in line with the uploads' progress.          *)
LEMMA ListsStep ==
  ASSUME Inv, ListsMatchProgress, [Next]_vars
  PROVE  ListsMatchProgress'
<1> SUFFICES ASSUME NEW v \in Uploads PROVE ListMatches(v)'
  BY DEF ListsMatchProgress, ListMatches
<1>0. ListMatches(v)
  BY DEF ListsMatchProgress, ListMatches
<1>a. content[v] \in Seq(Hashes) /\ index[v] \in Nat /\ pc \in [Uploads -> UploadPCs]
  BY ContentsAssumption DEF Inv, TypeOK
<1> USE DEF uploadVars, rowVars, fileVars, gcVars, history
<1>1. ASSUME NEW u \in Uploads, ProgressUpload(u) \/ FailUpload(u) \/ CrashUpload(u)
      PROVE  ListMatches(v)'
  <2>1. CASE RejectUpload(u)
    BY <1>0, <1>a, <2>1, QuietLists DEF RejectUpload, ListMatches
  <2>2. CASE CreateFile(u)
    <3>1. PICK p \in {AfterChunks(u, 0), "failed"} : pc' = [pc EXCEPT ![u] = p]
      BY <2>2 DEF CreateFile
    <3>2. CASE v # u
      BY <1>0, <1>a, <2>2, <3>1, <3>2, ChunkListStable DEF CreateFile, ListMatches, FirstChunks
    <3>3. CASE v = u
      <4>1. /\ index[v] = 0 /\ \A l \in links : l.file # v
            /\ v \notin events
        BY <1>0, <2>2, <3>3
          DEF CreateFile, ListMatches, Inv, Handshake, TransactionsHoldChunks
      <4>2. ChunkList(v)' = {} /\ FirstChunks(v, index[v])' = {}
        BY <2>2, <4>1 DEF CreateFile, ChunkList, FirstChunks
      <4>3. /\ p \in {"insert", "publish", "failed"}
            /\ p = "publish" => Len(content[v]) = 0
        BY <1>a, <3>1, <3>3 DEF AfterChunks
      <4>4. /\ files'[v] = "uploading" /\ index' = index /\ content' = content
            /\ events' = events
        BY <2>2, <3>3 DEF CreateFile, Inv, TypeOK
      <4>5. pc'[v] = p
        BY <1>a, <3>1, <3>3
      <4>6. QED
        BY <1>0, <4>1, <4>2, <4>3, <4>4, <4>5 DEF ListMatches
    <3>4. QED
      BY <3>2, <3>3
  <2>3. CASE InsertNew(u) \/ InsertConflict(u)
    BY <1>0, <1>a, <2>3, QuietLists DEF InsertNew, InsertConflict, ListMatches
  <2>4. CASE SelectChunk(u) \/ AcquireShare(u)
    <3>1. PICK p \in {"insert", "abandon", "share", "link"} : pc' = [pc EXCEPT ![u] = p]
      BY <2>4 DEF SelectChunk, AcquireShare, RetryInsert
    <3>2. pc[u] \in {"select", "share"} /\ UNCHANGED <<content, index, files, links, events>>
      BY <2>4 DEF SelectChunk, AcquireShare
    <3>3. QED
      BY <1>0, <1>a, <3>1, <3>2, QuietLists DEF ListMatches
  <2>5. CASE UploadChunk(u) \/ LinkFileChunk(u) \/ FailUpload(u) \/ CrashUpload(u)
    <3>1. PICK p \in {"link", "commit", "abandon", "failed"} :
            /\ pc' = [pc EXCEPT ![u] = p]
            /\ p = "commit" => files[u] # "none"
      BY <2>5 DEF UploadChunk, LinkFileChunk, FailUpload, CrashUpload
    <3>2. /\ UNCHANGED <<content, index, files, links, events>>
          /\ pc[u] \notin {"start", "done", "failed"}
          /\ p \in {"link", "commit"} => pc[u] \in {"put", "link"}
      BY <1>a, <2>5, <3>1
        DEF UploadChunk, LinkFileChunk, FailUpload, CrashUpload, InFlight
    <3>3. p = "commit" => files[u] = "uploading"
      BY <3>1, <3>2 DEF ListsMatchProgress, Inv, TypeOK
    <3>4. QED
      BY <1>0, <1>a, <3>1, <3>2, <3>3, QuietLists DEF ListMatches
  <2>6. CASE CommitChunk(u)
    <3>1. PICK p \in {AfterChunks(u, index[u] + 1), "abandon"} : pc' = [pc EXCEPT ![u] = p]
      BY <2>6 DEF CommitChunk
    <3>2. CASE v # u
      <4>1. ChunkList(v)' = ChunkList(v)
        BY <2>6, <3>2, CommitLists
      <4>2. \A l \in links' : l.file = v => l \in links
        BY <2>6, <3>2 DEF CommitChunk
      <4>3. QED
        BY <1>0, <1>a, <2>6, <3>1, <3>2, <4>1, <4>2
          DEF CommitChunk, ListMatches, FirstChunks, Inv, TypeOK
    <3>3. CASE v = u
      <4>1. /\ pc[v] = "commit" /\ files[v] = "uploading" /\ v \notin events
            /\ index[v] + 1 \in 1..Len(content[v])
            /\ ChunkList(v) = FirstChunks(v, index[v])
        BY <1>0, <1>a, <2>6, <3>3
          DEF CommitChunk, ListMatches, Inv, Handshake, TransactionsHoldChunks
      <4>2. ChunkList(v)' = FirstChunks(v, index[v] + 1)
        <5>1. ChunkList(v)' = ChunkList(v) \cup {<<index[v], content[v][index[v] + 1]>>}
          BY <2>6, <3>3, CommitLists DEF Hash
        <5>2. QED
          BY <1>a, <4>1, <5>1, FirstChunksGrow
      <4>3. /\ index'[v] = index[v] + 1 /\ content' = content /\ files' = files
            /\ events' = events
        BY <2>6, <3>3 DEF CommitChunk, Inv, TypeOK
      <4>4. FirstChunks(v, index[v])' = FirstChunks(v, index[v] + 1)
        BY <4>3 DEF FirstChunks
      <4>5. /\ pc'[v] \in {"insert", "publish", "abandon"}
            /\ pc'[v] = "publish" => index[v] + 1 = Len(content[v])
        BY <1>a, <3>1, <3>3 DEF AfterChunks
      <4>6. QED
        BY <1>a, <4>1, <4>2, <4>3, <4>4, <4>5 DEF ListMatches
    <3>4. QED
      BY <3>2, <3>3
  <2>7. CASE PublishFile(u)
    <3>1. PICK p \in {"event", "abandon"} : pc' = [pc EXCEPT ![u] = p]
      BY <2>7 DEF PublishFile
    <3>2. /\ ChunkList(v)' = ChunkList(v)
          /\ FirstChunks(v, index[v])' = FirstChunks(v, index[v])
      BY <2>7, ChunkListStable DEF PublishFile, FirstChunks
    <3>3. QED
      BY <1>0, <1>a, <2>7, <3>1, <3>2 DEF PublishFile, ListMatches, Inv, TypeOK
  <2>8. CASE PublishFileUploaded(u)
    BY <1>0, <1>a, <2>8, QuietLists DEF PublishFileUploaded, ListMatches
  <2>9. CASE AbandonUpload(u)
    <3>1. PICK F \in {{u}, {}} : DropFiles(F)
      BY <2>9 DEF AbandonUpload
    <3>2. QED
      BY <1>0, <1>a, <2>9, <3>1, DropLists DEF AbandonUpload
  <2>10. QED
    BY <1>1, <2>1, <2>2, <2>3, <2>4, <2>5, <2>6, <2>7, <2>8, <2>9 DEF ProgressUpload
<1>2. ASSUME NEW u \in Uploads, DeleteFile(u) PROVE ListMatches(v)'
  BY <1>0, <1>2, DropLists DEF DeleteFile
<1>3. ASSUME NEW g \in Collectors, ProgressCollector(g) \/ FailCollection(g) \/ StopCollector(g)
      PROVE  ListMatches(v)'
  <2>1. CASE SweepUploads(g) /\ DropFiles(StaleUploads)
    <3>1. StaleUploads \in SUBSET Uploads
      BY DEF StaleUploads, Inv, TypeOK
    <3>2. v \in StaleUploads => pc[v] # "commit"
      BY <1>0, <2>1, <3>1, DropFilesLists DEF SweepUploads, ListMatches
    <3>3. QED
      BY <1>0, <2>1, <3>1, <3>2, DropLists DEF SweepUploads
  <2>2. CASE ~(SweepUploads(g) /\ DropFiles(StaleUploads))
    BY <1>0, <1>3, <2>2, QuietLists DEF ProgressCollector, SweepUploads, ScanChunks, CheckChunk,
      LockChunk, DeleteObject, DeleteChunkRecord, CommitCollection, FailCollection, StopCollector
  <2>3. QED
    BY <2>1, <2>2
<1>4. CASE MinAgePasses \/ UNCHANGED vars
  BY <1>0, <1>4, QuietLists DEF MinAgePasses, vars
<1>5. QED
  BY <1>1, <1>2, <1>3, <1>4 DEF Next

(* In every reachable state a file's chunk list is exactly what its upload *)
(* has committed, and a ready or announced file (UpdateFileSizeAndStatus,  *)
(* PublishFileUploaded) has all of it.                                     *)
THEOREM ListsHold == Spec => []ListsMatchProgress
<1>1. Init => ListsMatchProgress
  BY ListsInit
<1>2. Inv /\ ListsMatchProgress /\ [Next]_vars => ListsMatchProgress'
  BY ListsStep
<1>3. QED
  BY <1>1, <1>2, HandshakeHolds, PTL DEF Spec, Inv

(* An event never names a file with an incomplete chunk list, which is     *)
(* what DownloadFileInternal, blind to the status, relies on.              *)
THEOREM EventsComplete == Spec => []EventsNameCompleteFiles
<1>1. Inv /\ ListsMatchProgress => EventsNameCompleteFiles
  BY DEF Inv, TypeOK, ListsMatchProgress, EventsNameCompleteFiles
<1>2. QED
  BY <1>1, ListsHold, HandshakeHolds, PTL DEF Inv

(* What the catalog shows of u does not change when its row, its list and  *)
(* whether its call has started do not.                                    *)
Unseen(u) ==
  /\ files'[u] = files[u]
  /\ (pc'[u] = "start") <=> (pc[u] = "start")
  /\ files[u] = "ready" => ChunkList(u)' = ChunkList(u)

(* An unseen file shows the same status and body.                          *)
LEMMA UnseenFile ==
  ASSUME NEW u \in Uploads, Unseen(u)
  PROVE  CatalogStatus'[u] = CatalogStatus[u] /\ CatalogBody'[u] = CatalogBody[u]
BY DEF Unseen, CatalogStatus, CatalogBody

(* The mapped catalog consists of functions over the uploads.              *)
LEMMA CatalogFunctions ==
  /\ CatalogStatus = [u \in Uploads |-> CatalogStatus[u]]
  /\ CatalogStatus' = [u \in Uploads |-> CatalogStatus'[u]]
  /\ CatalogBody = [u \in Uploads |-> CatalogBody[u]]
  /\ CatalogBody' = [u \in Uploads |-> CatalogBody'[u]]
BY DEF CatalogStatus, CatalogBody

(* A step in which every file is unseen is a stutter of the catalog.       *)
LEMMA UnseenStep ==
  ASSUME \A u \in Uploads : Unseen(u), UNCHANGED content
  PROVE  UNCHANGED Catalog!catalogVars
<1>1. CatalogStatus' = CatalogStatus
  BY UnseenFile, CatalogFunctions
<1>2. CatalogBody' = CatalogBody
  BY UnseenFile, CatalogFunctions
<1>3. QED
  BY <1>1, <1>2 DEF Catalog!catalogVars

(* Hidden files that lose their row are discarded.                         *)
LEMMA DiscardStep ==
  ASSUME NEW F \in SUBSET Uploads, UNCHANGED content,
         \A u \in F : CatalogStatus[u] = "hidden" /\ files'[u] = "none" /\ pc'[u] # "start",
         \A u \in Uploads \ F : Unseen(u)
  PROVE  Catalog!Discard(F)
<1>1. \A u \in F : CatalogStatus'[u] = "gone" /\ CatalogBody[u] = {} /\ CatalogBody'[u] = {}
  BY DEF CatalogStatus, CatalogBody
<1>2. CatalogStatus' = [u \in Uploads |-> IF u \in F THEN "gone" ELSE CatalogStatus[u]]
  BY <1>1, UnseenFile, CatalogFunctions
<1>3. CatalogBody' = CatalogBody
  BY <1>1, UnseenFile, CatalogFunctions
<1>4. QED
  BY <1>2, <1>3 DEF Catalog!Discard

(* A visible file that loses its row is removed.                           *)
LEMMA RemoveStep ==
  ASSUME NEW u \in Uploads, UNCHANGED content,
         files[u] = "ready", files'[u] = "none", pc'[u] # "start",
         \A v \in Uploads \ {u} : Unseen(v)
  PROVE  Catalog!Remove(u)
<1>1. /\ CatalogStatus[u] = "visible" /\ CatalogStatus'[u] = "gone"
      /\ CatalogBody'[u] = {}
  BY DEF CatalogStatus, CatalogBody
<1>2. CatalogStatus' = [CatalogStatus EXCEPT ![u] = "gone"]
  BY <1>1, UnseenFile, CatalogFunctions
<1>3. CatalogBody' = [CatalogBody EXCEPT ![u] = {}]
  BY <1>1, UnseenFile, CatalogFunctions
<1>4. QED
  BY <1>1, <1>2, <1>3 DEF Catalog!Remove

(* Losing one row is a discard, a removal or nothing.                      *)
LEMMA DropOneStep ==
  ASSUME Inv, ListsMatchProgress, [Next]_vars, NEW u \in Uploads, DropFiles({u}),
         UNCHANGED content, pc[u] # "start", pc'[u] # "start",
         \A v \in Uploads \ {u} : pc'[v] = pc[v]
  PROVE  [Catalog!CatalogNext]_(Catalog!catalogVars)
<1>1. files'[u] = "none" /\ \A v \in Uploads \ {u} : Unseen(v)
  BY DropFilesLists DEF Unseen
<1>2. CASE files[u] = "ready"
  BY <1>1, <1>2, RemoveStep DEF Catalog!CatalogNext
<1>3. CASE files[u] = "uploading"
  <2>1. CatalogStatus[u] = "hidden"
    BY <1>3 DEF CatalogStatus
  <2>2. Catalog!Discard({u})
    BY <1>1, <2>1, DiscardStep
  <2>3. QED
    BY <2>2 DEF Catalog!CatalogNext
<1>4. CASE files[u] = "none"
  BY <1>1, <1>4, UnseenStep DEF Unseen
<1>5. QED
  BY <1>2, <1>3, <1>4 DEF Inv, TypeOK

(* Publishing an uploading row shows the whole request at once.            *)
LEMMA PublishStep ==
  ASSUME Inv, ListsMatchProgress, [Next]_vars, NEW u \in Uploads, PublishFile(u),
         files[u] = "uploading"
  PROVE  Catalog!Publish(u)
<1>1. PICK p \in {"event", "abandon"} : pc' = [pc EXCEPT ![u] = p]
  BY DEF PublishFile
<1>2. /\ content' = content /\ links' = links
      /\ files'[u] = "ready" /\ \A v \in Uploads \ {u} : files'[v] = files[v]
  BY DEF PublishFile, Inv, TypeOK
<1>3. \A v \in Uploads : ChunkList(v)' = ChunkList(v)
  BY <1>2, ChunkListStable
<1>4. \A v \in Uploads \ {u} : Unseen(v)
  BY <1>1, <1>2, <1>3 DEF Unseen, Inv, TypeOK
<1>5. ChunkList(u) = Catalog!Body(content[u])
  BY DEF ListsMatchProgress, PublishFile, FirstChunks, Catalog!Body
<1>6. /\ CatalogStatus[u] = "hidden" /\ CatalogStatus'[u] = "visible"
      /\ CatalogBody'[u] = Catalog!Body(content[u])
  BY <1>2, <1>3, <1>5 DEF CatalogStatus, CatalogBody
<1>7. CatalogStatus' = [CatalogStatus EXCEPT ![u] = "visible"]
  BY <1>4, <1>6, UnseenFile, CatalogFunctions
<1>8. CatalogBody' = [CatalogBody EXCEPT ![u] = Catalog!Body(content[u])]
  BY <1>4, <1>6, UnseenFile, CatalogFunctions
<1>9. QED
  BY <1>2, <1>6, <1>7, <1>8 DEF Catalog!Publish

(* Every step of the storage service is a step of the catalog or           *)
(* invisible.                                                              *)
LEMMA CatalogStep ==
  ASSUME Inv, ListsMatchProgress, [Next]_vars
  PROVE  [Catalog!CatalogNext]_(Catalog!catalogVars)
<1> DEFINE Goal == [Catalog!CatalogNext]_(Catalog!catalogVars)
<1> USE DEF uploadVars, rowVars, fileVars, gcVars, history
<1>a. /\ pc \in [Uploads -> UploadPCs] /\ files \in [Uploads -> {"none", "uploading", "ready"}]
      /\ content \in [Uploads -> Contents]
  BY DEF Inv, TypeOK
<1>1. ASSUME UNCHANGED <<content, files, links>>,
             \A v \in Uploads : (pc'[v] = "start") <=> (pc[v] = "start")
      PROVE  Goal
  BY <1>1, ChunkListStable, UnseenStep DEF Unseen
<1>2. ASSUME NEW u \in Uploads, ProgressUpload(u) \/ FailUpload(u) \/ CrashUpload(u)
      PROVE  Goal
  <2>1. CASE RejectUpload(u)
    <3>1. \A v \in Uploads \ {u} : Unseen(v)
      BY <1>a, <2>1, ChunkListStable DEF RejectUpload, Unseen
    <3>2. CatalogStatus[u] = "hidden" /\ files'[u] = "none" /\ pc'[u] # "start"
      BY <1>a, <2>1 DEF RejectUpload, CatalogStatus, ListsMatchProgress
    <3>3. Catalog!Discard({u})
      BY <2>1, <3>1, <3>2, DiscardStep DEF RejectUpload
    <3>4. QED
      BY <3>3 DEF Catalog!CatalogNext
  <2>2. CASE CreateFile(u)
    <3>1. /\ content' = content /\ links' = links
          /\ files' = [files EXCEPT ![u] = "uploading"]
          /\ pc[u] = "start" /\ files[u] = "none"
          /\ \A v \in Uploads \ {u} : pc'[v] = pc[v]
      BY <1>a, <2>2 DEF CreateFile, ListsMatchProgress
    <3>2. \A v \in Uploads \ {u} : Unseen(v)
      BY <1>a, <3>1, ChunkListStable DEF Unseen
    <3>3. CatalogStatus'[u] = CatalogStatus[u] /\ CatalogBody'[u] = CatalogBody[u]
      BY <1>a, <3>1 DEF CatalogStatus, CatalogBody
    <3>4. \A v \in Uploads : /\ CatalogStatus'[v] = CatalogStatus[v]
                             /\ CatalogBody'[v] = CatalogBody[v]
      BY <3>2, <3>3, UnseenFile
    <3>5. CatalogStatus' = CatalogStatus /\ CatalogBody' = CatalogBody
      BY <3>4, CatalogFunctions
    <3>6. QED
      BY <3>1, <3>5 DEF Catalog!catalogVars
  <2>3. CASE InsertNew(u) \/ InsertConflict(u) \/ PublishFileUploaded(u)
    BY <1>1, <1>a, <2>3 DEF InsertNew, InsertConflict, PublishFileUploaded
  <2>4. CASE \/ SelectChunk(u) \/ AcquireShare(u) \/ UploadChunk(u) \/ LinkFileChunk(u)
             \/ FailUpload(u) \/ CrashUpload(u)
    <3>1. PICK p \in UploadPCs \ {"start"} : pc' = [pc EXCEPT ![u] = p]
      BY <2>4 DEF SelectChunk, AcquireShare, RetryInsert, UploadChunk, LinkFileChunk,
        FailUpload, CrashUpload, UploadPCs
    <3>2. pc[u] # "start" /\ UNCHANGED <<content, files, links>>
      BY <2>4 DEF SelectChunk, AcquireShare, UploadChunk, LinkFileChunk, FailUpload,
        CrashUpload, InFlight
    <3>3. QED
      BY <1>1, <1>a, <3>1, <3>2
  <2>5. CASE CommitChunk(u)
    <3>1. PICK p \in {AfterChunks(u, index[u] + 1), "abandon"} : pc' = [pc EXCEPT ![u] = p]
      BY <2>5 DEF CommitChunk
    <3>2. /\ pc[u] = "commit" /\ pc'[u] # "start" /\ files[u] = "uploading"
          /\ UNCHANGED <<content, files>>
          /\ \A v \in Uploads \ {u} : pc'[v] = pc[v]
      BY <1>a, <2>5, <3>1 DEF CommitChunk, AfterChunks, ListsMatchProgress
    <3>3. \A v \in Uploads : Unseen(v)
      BY <2>5, <3>2, CommitLists DEF Unseen
    <3>4. QED
      BY <3>2, <3>3, UnseenStep
  <2>6. CASE PublishFile(u)
    <3>1. CASE files[u] = "uploading"
      BY <2>6, <3>1, PublishStep DEF Catalog!CatalogNext
    <3>2. CASE files[u] # "uploading"
      <4>1. UNCHANGED <<content, files, links>>
        BY <1>a, <2>6, <3>2 DEF PublishFile
      <4>2. QED
        BY <1>1, <1>a, <2>6, <4>1 DEF PublishFile
    <3>3. QED
      BY <3>1, <3>2
  <2>7. CASE AbandonUpload(u)
    <3>1. CASE DropFiles({u})
      BY <1>a, <2>7, <3>1, DropOneStep DEF AbandonUpload
    <3>2. CASE DropFiles({})
      <4>1. UNCHANGED <<files, links>>
        BY <1>a, <3>2 DEF DropFiles
      <4>2. QED
        BY <1>1, <1>a, <2>7, <4>1 DEF AbandonUpload
    <3>3. QED
      BY <2>7, <3>1, <3>2 DEF AbandonUpload
  <2>8. QED
    BY <1>2, <2>1, <2>2, <2>3, <2>4, <2>5, <2>6, <2>7 DEF ProgressUpload
<1>3. ASSUME NEW u \in Uploads, DeleteFile(u) PROVE Goal
  <2>1. pc[u] # "start"
    BY <1>3 DEF DeleteFile, ListsMatchProgress
  <2>2. QED
    BY <1>3, <2>1, DropOneStep DEF DeleteFile
<1>4. ASSUME NEW g \in Collectors, ProgressCollector(g) \/ FailCollection(g) \/ StopCollector(g)
      PROVE  Goal
  <2>1. CASE SweepUploads(g) /\ DropFiles(StaleUploads)
    <3>1. StaleUploads \in SUBSET Uploads
      BY DEF StaleUploads, Inv, TypeOK
    <3>2. \A u \in StaleUploads :
            CatalogStatus[u] = "hidden" /\ files'[u] = "none" /\ pc'[u] # "start"
      BY <1>a, <2>1, <3>1
        DEF SweepUploads, DropFiles, StaleUploads, CatalogStatus, ListsMatchProgress
    <3>3. \A u \in Uploads \ StaleUploads : Unseen(u)
      BY <2>1, <3>1, DropFilesLists DEF SweepUploads, Unseen
    <3>4. Catalog!Discard(StaleUploads)
      BY <2>1, <3>1, <3>2, <3>3, DiscardStep DEF SweepUploads
    <3>5. QED
      BY <3>1, <3>4 DEF Catalog!CatalogNext
  <2>2. CASE ~(SweepUploads(g) /\ DropFiles(StaleUploads))
    <3>1. UNCHANGED <<content, pc, files, links>>
      BY <1>4, <2>2 DEF ProgressCollector, SweepUploads, ScanChunks, CheckChunk, LockChunk,
        DeleteObject, DeleteChunkRecord, CommitCollection, FailCollection, StopCollector
    <3>2. QED
      BY <1>1, <3>1
  <2>3. QED
    BY <2>1, <2>2
<1>5. CASE MinAgePasses \/ UNCHANGED vars
  BY <1>1, <1>5 DEF MinAgePasses, vars
<1>6. QED
  BY <1>2, <1>3, <1>4, <1>5 DEF Next

(* The upload, delete and collection code implements the catalog: files    *)
(* appear complete and at once, never change, and never return.            *)
THEOREM StorageImplementsCatalog == Spec => ImplementsCatalog
<1>1. Init => Catalog!CatalogInit
  <2> SUFFICES ASSUME Init PROVE Catalog!CatalogInit
    OBVIOUS
  <2>1. content \in [Uploads -> Seq(Hashes)]
    BY ContentsAssumption DEF Init
  <2>2. CatalogStatus = [u \in Uploads |-> "hidden"] /\ CatalogBody = [u \in Uploads |-> {}]
    BY DEF Init, CatalogStatus, CatalogBody
  <2>3. QED
    BY <2>1, <2>2 DEF Catalog!CatalogInit
<1>2. Inv /\ ListsMatchProgress /\ [Next]_vars => [Catalog!CatalogNext]_(Catalog!catalogVars)
  BY CatalogStep
<1>3. QED
  BY <1>1, <1>2, HandshakeHolds, ListsHold, PTL
    DEF Spec, Inv, ImplementsCatalog, Catalog!CatalogSpec
=============================================================================
