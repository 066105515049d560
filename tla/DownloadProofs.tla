--------------------------- MODULE DownloadProofs ---------------------------
(***************************************************************************)
(* What a download hands out, for any number of readers, uploads and       *)
(* collectors and files of any length: on top of the chunk lists of        *)
(* CatalogProofs, GetFileChunks reads the chunks of the upload in order,   *)
(* and the reader moves them to the response one verified chunk at a time. *)
(***************************************************************************)
EXTENDS Download, CatalogProofs, FiniteSetTheorems, SequenceTheorems

(* A reader's state as a whole: it works on one file, the worker's on one  *)
(* that an event named; what it has delivered and what its list still      *)
(* holds are, in this order, the first chunks of the upload; and the list  *)
(* was read from a complete file, or the file has gone since.              *)
ReaderHolds(r) ==
  LET u == rfile[r]
      d == delivered[r]
      l == rlist[r]
  IN /\ rpc[r] = "start" => u = NoFile /\ ~internal[r]
     /\ rpc[r] # "start" => u \in Uploads
     /\ rpc[r] \in {"start", "owner", "info", "list"} => d = << >> /\ l = << >>
     /\ internal[r] => u \in events
     /\ rpc[r] \in {"list", "peek", "copy"} =>
          pc[u] # "start" /\ index[u] = Len(content[u])
     /\ u \in Uploads =>
          /\ Len(d) + Len(l) <= Len(content[u])
          /\ \A i \in 1 .. Len(d) : d[i] = content[u][i]
          /\ \A i \in 1 .. Len(l) : l[i] = content[u][Len(d) + i]
     /\ rpc[r] \in {"peek", "copy"} /\ ~cut[r] /\ files[u] # "none" =>
          Len(d) + Len(l) = Len(content[u])

(* The inductive invariant.                                                *)
DownloadInv == DownloadTypeOK /\ \A r \in Readers : ReaderHolds(r)

-----------------------------------------------------------------------------
(* Records numbered 0 .. n - 1 without gap or repetition are n.            *)
LEMMA CountByIndex ==
  ASSUME NEW L, NEW n \in Nat,
         \A l \in L : l.index \in 0 .. n - 1,
         \A i \in 0 .. n - 1 : \E l \in L : l.index = i,
         \A k, l \in L : k.index = l.index => k = l
  PROVE  Cardinality(L) = n
<1> DEFINE f == [i \in 1 .. n |-> CHOOSE l \in L : l.index = i - 1]
<1>1. \A i \in 1 .. n : f[i] \in L /\ f[i].index = i - 1
  <2> SUFFICES ASSUME NEW i \in 1 .. n PROVE f[i] \in L /\ f[i].index = i - 1
    OBVIOUS
  <2>1. \E l \in L : l.index = i - 1
    OBVIOUS
  <2>2. QED
    BY <2>1
<1>2. f \in [1 .. n -> L]
  BY <1>1
<1> HIDE DEF f
<1>3. f \in Injection(1 .. n, L)
  <2>1. \A i, j \in 1 .. n : f[i] = f[j] => i = j
    BY <1>1
  <2>2. QED
    BY <1>2, <2>1 DEF Injection, IsInjective
<1>4. f \in Surjection(1 .. n, L)
  <2> SUFFICES ASSUME NEW l \in L PROVE \E i \in 1 .. n : f[i] = l
    BY <1>2 DEF Surjection
  <2>1. l.index + 1 \in 1 .. n /\ (l.index + 1) - 1 = l.index
    OBVIOUS
  <2>2. f[l.index + 1] = l
    BY <1>1, <2>1
  <2>3. QED
    BY <2>1, <2>2
<1>5. ExistsBijection(1 .. n, L)
  BY <1>3, <1>4 DEF ExistsBijection, Bijection
<1>6. QED
  BY <1>5, FS_CountingElements

(* ORDER BY chunk_index: the list of a file is the stored part of its      *)
(* upload, in order; without the file it is empty.                         *)
LEMMA OrderedChunksHold ==
  ASSUME Inv, ListsMatchProgress, NEW u \in Uploads
  PROVE  LET whole == OrderedChunks(u)
         IN /\ whole \in Seq(Hashes)
            /\ Len(whole) = IF files[u] = "none" THEN 0 ELSE index[u]
            /\ \A i \in 1 .. Len(whole) : whole[i] = content[u][i]
<1> DEFINE L == {l \in links : l.file = u}
           n == IF files[u] = "none" THEN 0 ELSE index[u]
           whole == OrderedChunks(u)
<1>1. /\ content[u] \in Seq(Hashes) /\ Len(content[u]) \in Nat /\ index[u] \in 0 .. Len(content[u])
      /\ n \in Nat /\ n <= Len(content[u])
  BY ContentsAssumption DEF Inv, TypeOK, ListsMatchProgress
<1>2. \A l \in L : l.index \in 0 .. n - 1 /\ hashOf[l.chunk] = content[u][l.index + 1]
  <2> SUFFICES ASSUME NEW l \in links, l.file = u
               PROVE  l.index \in 0 .. n - 1 /\ hashOf[l.chunk] = content[u][l.index + 1]
    OBVIOUS
  <2>1. files[u] # "none" /\ <<l.index, hashOf[l.chunk]>> \in FirstChunks(u, n)
    BY DEF ListsMatchProgress, ChunkList
  <2>2. PICK i \in 1 .. n : <<l.index, hashOf[l.chunk]>> = <<i - 1, content[u][i]>>
    BY <2>1 DEF FirstChunks
  <2>3. l.index = i - 1 /\ hashOf[l.chunk] = content[u][i] /\ l.index + 1 = i
    BY <2>2
  <2>4. QED
    BY <1>1, <2>3
<1>3. \A i \in 0 .. n - 1 : \E l \in L : l.index = i
  <2> SUFFICES ASSUME NEW i \in 0 .. n - 1 PROVE \E l \in L : l.index = i
    OBVIOUS
  <2>1. files[u] # "none" /\ ChunkList(u) = FirstChunks(u, n)
    BY DEF ListsMatchProgress
  <2>2. i + 1 \in 1 .. n /\ (i + 1) - 1 = i
    BY <1>1
  <2>3. <<(i + 1) - 1, content[u][i + 1]>> \in FirstChunks(u, n)
    BY <2>2 DEF FirstChunks
  <2>4. PICK l \in L : <<l.index, hashOf[l.chunk]>> = <<(i + 1) - 1, content[u][i + 1]>>
    BY <2>1, <2>3 DEF ChunkList
  <2>5. QED
    BY <2>2, <2>4
<1>4. \A k, l \in L : k.index = l.index => k = l
  <2> SUFFICES ASSUME NEW k \in L, NEW l \in L, k.index = l.index PROVE k = l
    OBVIOUS
  <2>1. hashOf[k.chunk] = hashOf[l.chunk]
    BY <1>2
  <2>2. /\ k \in Link /\ l \in Link /\ k.chunk \in ChunkIDs /\ l.chunk \in ChunkIDs
        /\ row[k.chunk] = "live"
    BY DEF Inv, TypeOK, Link, Handshake, LinksHoldRows
  <2>3. k.chunk = l.chunk
    BY <2>1, <2>2 DEF Inv, Handshake, OneRowPerHash
  <2>4. QED
    BY <2>2, <2>3 DEF Link
<1> HIDE DEF n
<1>5. Cardinality(L) = n
  BY <1>1, <1>2, <1>3, <1>4, CountByIndex
<1>6. ASSUME NEW l \in L PROVE Cardinality({k \in links : k.file = u /\ k.index < l.index}) = l.index
  <2> DEFINE before == {k \in links : k.file = u /\ k.index < l.index}
  <2>1. l.index \in Nat /\ l.index <= n - 1 /\ \A k \in L : k.index \in 0 .. n - 1
    BY <1>1, <1>2
  <2>2. before = {k \in L : k.index < l.index}
    OBVIOUS
  <2> HIDE DEF L, before
  <2>3. \A k \in before : k.index \in 0 .. l.index - 1
    BY <1>1, <2>1, <2>2
  <2>4. \A i \in 0 .. l.index - 1 : \E k \in before : k.index = i
    <3> SUFFICES ASSUME NEW i \in 0 .. l.index - 1 PROVE \E k \in before : k.index = i
      OBVIOUS
    <3>1. i \in 0 .. n - 1 /\ i < l.index
      BY <1>1, <2>1
    <3>2. QED
      BY <1>3, <2>2, <3>1
  <2>5. \A j, k \in before : j.index = k.index => j = k
    BY <1>4, <2>2
  <2>6. Cardinality(before) = l.index
    BY <2>1, <2>3, <2>4, <2>5, CountByIndex
  <2>7. QED
    BY <2>6 DEF before
<1>7. ASSUME NEW i \in 1 .. n
      PROVE  LET c == CHOOSE l \in links :
                        /\ l.file = u
                        /\ Cardinality({k \in links : k.file = u /\ k.index < l.index}) = i - 1
             IN hashOf[c.chunk] = content[u][i]
  <2> DEFINE P(l) == /\ l.file = u
                     /\ Cardinality({k \in links : k.file = u /\ k.index < l.index}) = i - 1
             c == CHOOSE l \in links : P(l)
  <2>1. i - 1 \in 0 .. n - 1
    BY <1>1
  <2>2. PICK l \in L : l.index = i - 1
    BY <1>3, <2>1
  <2>3. l \in links /\ P(l)
    BY <1>6, <2>2
  <2>4. c \in links /\ P(c)
    BY <2>3
  <2>5. c \in L /\ c.index = i - 1
    BY <1>6, <2>4
  <2>6. QED
    BY <1>2, <2>1, <2>5
<1>8. /\ whole = [i \in 1 .. n |-> whole[i]]
      /\ \A i \in 1 .. n : whole[i] = content[u][i]
  BY <1>5, <1>7 DEF OrderedChunks
<1> HIDE DEF whole
<1>9. \A i \in 1 .. n : whole[i] \in Hashes
  BY <1>1, <1>8
<1>10. whole \in [1 .. n -> Hashes]
  BY <1>8, <1>9
<1>11. whole \in Seq(Hashes) /\ Len(whole) = n
  BY <1>1, <1>10
<1>12. QED
  BY <1>8, <1>11 DEF whole, n

-----------------------------------------------------------------------------
(* What a reader relies on while Storage goes on: a file that is gone does *)
(* not come back, a complete list stays complete, an event stays.          *)
LEMMA StorageKeeps ==
  ASSUME Inv, ListsMatchProgress, [Next]_vars, NEW u \in Uploads
  PROVE  /\ content' = content
         /\ events \subseteq events'
         /\ pc[u] # "start" => pc'[u] # "start"
         /\ pc[u] # "start" /\ files[u] = "none" => files'[u] = "none"
         /\ index[u] = Len(content[u]) => index'[u] = index[u]
<1> USE DEF uploadVars, fileVars
<1>1. /\ pc \in [Uploads -> UploadPCs] /\ files \in [Uploads -> {"none", "uploading", "ready"}]
      /\ index \in [Uploads -> Nat] /\ content[u] \in Seq(Hashes)
  BY ContentsAssumption DEF Inv, TypeOK
<1>2. ASSUME NEW v \in Uploads, ProgressUpload(v) \/ FailUpload(v) \/ CrashUpload(v)
      PROVE  /\ content' = content
             /\ events \subseteq events'
             /\ pc[u] # "start" => pc'[u] # "start"
             /\ pc[u] # "start" /\ files[u] = "none" => files'[u] = "none"
             /\ index[u] = Len(content[u]) => index'[u] = index[u]
  <2>1. CASE CreateFile(v)
    BY <1>1, <2>1 DEF CreateFile, AfterChunks
  <2>2. CASE CommitChunk(v)
    <3>1. index[v] + 1 \in 1 .. Len(content[v]) /\ content[v] \in Seq(Hashes)
      BY <2>2, ContentsAssumption
        DEF CommitChunk, Inv, TypeOK, Handshake, TransactionsHoldChunks
    <3>2. u = v => index[u] # Len(content[u])
      BY <1>1, <3>1
    <3>3. QED
      BY <1>1, <2>2, <3>2 DEF CommitChunk, AfterChunks
  <2>3. CASE PublishFile(v) \/ PublishFileUploaded(v)
    BY <1>1, <2>3 DEF PublishFile, PublishFileUploaded
  <2>4. CASE AbandonUpload(v)
    BY <1>1, <2>4 DEF AbandonUpload, DropFiles
  <2>5. CASE \/ RejectUpload(v) \/ InsertNew(v) \/ InsertConflict(v) \/ SelectChunk(v)
             \/ AcquireShare(v)
    BY <1>1, <2>5 DEF RejectUpload, InsertNew, InsertConflict, SelectChunk, AcquireShare,
      RetryInsert
  <2>6. CASE UploadChunk(v) \/ LinkFileChunk(v) \/ FailUpload(v) \/ CrashUpload(v)
    BY <1>1, <2>6 DEF UploadChunk, LinkFileChunk, FailUpload, CrashUpload
  <2>7. QED
    BY <1>2, <2>1, <2>2, <2>3, <2>4, <2>5, <2>6 DEF ProgressUpload
<1>3. ASSUME NEW v \in Uploads, DeleteFile(v)
      PROVE  /\ UNCHANGED <<content, events, pc, index>>
             /\ files[u] = "none" => files'[u] = "none"
  BY <1>1, <1>3 DEF DeleteFile, DropFiles
<1>4. ASSUME NEW g \in Collectors, ProgressCollector(g) \/ FailCollection(g) \/ StopCollector(g)
      PROVE  /\ UNCHANGED <<content, events, pc, index>>
             /\ files[u] = "none" => files'[u] = "none"
  BY <1>1, <1>4 DEF ProgressCollector, SweepUploads, DropFiles, ScanChunks, CheckChunk, LockChunk,
      DeleteObject, DeleteChunkRecord, CommitCollection, FailCollection, StopCollector
<1>5. CASE MinAgePasses \/ UNCHANGED vars
  BY <1>5 DEF MinAgePasses, vars
<1>6. QED
  BY <1>2, <1>3, <1>4, <1>5 DEF Next

(* A reader that stands still while Storage moves.                         *)
LEMMA ReaderWaits ==
  ASSUME Inv, ListsMatchProgress, [Next]_vars, DownloadTypeOK, NEW r \in Readers, ReaderHolds(r),
         UNCHANGED readerVars
  PROVE  ReaderHolds(r)'
<1> USE DEF readerVars
<1>1. CASE rfile[r] \in Uploads
  <2>1. /\ content' = content
        /\ events \subseteq events'
        /\ pc[rfile[r]] # "start" => pc'[rfile[r]] # "start"
        /\ pc[rfile[r]] # "start" /\ files[rfile[r]] = "none" => files'[rfile[r]] = "none"
        /\ index[rfile[r]] = Len(content[rfile[r]]) => index'[rfile[r]] = index[rfile[r]]
    BY <1>1, StorageKeeps
  <2>2. QED
    BY <1>1, <2>1 DEF ReaderHolds
<1>2. CASE rfile[r] \notin Uploads
  <2>1. rpc[r] = "start" /\ rfile[r] = NoFile /\ ~internal[r]
    BY <1>2 DEF ReaderHolds
  <2>2. QED
    BY <1>2, <2>1 DEF ReaderHolds
<1>3. QED
  BY <1>1, <1>2

(* The types along a reader's step.                                        *)
LEMMA ReaderTypes ==
  ASSUME Inv, ListsMatchProgress, DownloadTypeOK, NEW r \in Readers, ReaderHolds(r), ReaderStep(r)
  PROVE  DownloadTypeOK'
<1> USE DEF Goto
<1>1. UNCHANGED <<rotten, objects>>
  BY DEF ReaderStep, vars
<1>2. \A h \in Hashes : Bytes(h) \in Hashes \cup {NoHash}
  BY DEF Bytes
<1>3. ASSUME Deliver(r)
      PROVE  /\ rlist' \in [Readers -> Seq(Hashes)]
             /\ delivered' \in [Readers -> Seq(Hashes \cup {NoHash})]
  <2>1. rlist[r] \in Seq(Hashes) /\ rlist[r] # << >>
    BY <1>3 DEF Deliver, DownloadTypeOK
  <2>2. Head(rlist[r]) \in Hashes /\ Tail(rlist[r]) \in Seq(Hashes)
    BY <2>1
  <2>3. Append(delivered[r], Bytes(Head(rlist[r]))) \in Seq(Hashes \cup {NoHash})
    <3>1. Bytes(Head(rlist[r])) \in Hashes \cup {NoHash}
      BY <1>2, <2>2
    <3>2. QED
      BY <3>1 DEF DownloadTypeOK
  <2>4. QED
    BY <1>3, <2>2, <2>3 DEF Deliver, DownloadTypeOK
<1>4. CASE Request(r)
  <2>1. events \subseteq Uploads
    BY DEF Inv, TypeOK
  <2>2. rfile' \in [Readers -> Uploads \cup {NoFile}]
    BY <1>4, <2>1 DEF Request, DownloadTypeOK
  <2>3. rpc' \in [Readers -> ReaderPCs]
    BY <1>4 DEF Request, DownloadTypeOK, ReaderPCs
  <2>4. internal' \in [Readers -> BOOLEAN]
    BY <1>4 DEF Request, DownloadTypeOK
  <2>5. QED
    BY <1>1, <1>4, <2>2, <2>3, <2>4 DEF Request, DownloadTypeOK
<1>5. CASE VerifyFileOwnership(r) \/ GetFileInfo(r)
  BY <1>1, <1>5 DEF VerifyFileOwnership, GetFileInfo, DownloadTypeOK, ReaderPCs
<1>6. CASE GetFileChunks(r)
  <2> DEFINE whole == OrderedChunks(rfile[r])
  <2>1. PICK n \in 0 .. Len(whole) :
          /\ rlist' = [rlist EXCEPT ![r] = SubSeq(whole, 1, n)]
          /\ cut' = [cut EXCEPT ![r] = n < Len(whole)]
    BY <1>6 DEF GetFileChunks
  <2>2. whole \in Seq(Hashes)
    BY <1>6, OrderedChunksHold DEF GetFileChunks, ReaderHolds
  <2> HIDE DEF whole
  <2>3. SubSeq(whole, 1, n) \in Seq(Hashes)
    BY <2>2
  <2>4. rlist' \in [Readers -> Seq(Hashes)]
    BY <2>1, <2>3 DEF DownloadTypeOK
  <2>5. cut' \in [Readers -> BOOLEAN]
    BY <2>1 DEF DownloadTypeOK
  <2>6. QED
    BY <1>1, <1>6, <2>4, <2>5 DEF GetFileChunks, DownloadTypeOK, ReaderPCs
<1>7. CASE PeekChunk(r) \/ CopyChunk(r) \/ ReadHead(r)
  <2>1. /\ rlist' \in [Readers -> Seq(Hashes)]
        /\ delivered' \in [Readers -> Seq(Hashes \cup {NoHash})]
    BY <1>3, <1>7 DEF PeekChunk, CopyChunk, ReadHead, DownloadTypeOK
  <2>2. rpc' \in [Readers -> ReaderPCs] /\ UNCHANGED <<internal, rfile, cut>>
    BY <1>7 DEF PeekChunk, CopyChunk, ReadHead, DownloadTypeOK, ReaderPCs
  <2>3. QED
    BY <1>1, <2>1, <2>2 DEF DownloadTypeOK
<1>8. QED
  BY <1>4, <1>5, <1>6, <1>7 DEF ReaderStep

(* One verified chunk moves from the list to the response.                 *)
LEMMA DeliverHolds ==
  ASSUME DownloadTypeOK, NEW r \in Readers, ReaderHolds(r), Deliver(r), rfile[r] \in Uploads,
         content[rfile[r]] \in Seq(Hashes)
  PROVE  LET c == content[rfile[r]]
             d == delivered'[r]
             l == rlist'[r]
         IN /\ Len(d) + Len(l) = Len(delivered[r]) + Len(rlist[r])
            /\ \A i \in 1 .. Len(d) : d[i] = c[i]
            /\ \A i \in 1 .. Len(l) : l[i] = c[Len(d) + i]
<1> DEFINE c == content[rfile[r]]
           d == delivered[r]
           l == rlist[r]
<1>1. /\ d \in Seq(Hashes \cup {NoHash}) /\ Len(d) \in Nat
      /\ l \in Seq(Hashes) /\ l # << >> /\ Len(l) \in Nat /\ Len(l) >= 1
  BY DEF DownloadTypeOK, Deliver
<1>2. /\ Len(d) + Len(l) <= Len(c)
      /\ \A i \in 1 .. Len(d) : d[i] = c[i]
      /\ \A i \in 1 .. Len(l) : l[i] = c[Len(d) + i]
  BY DEF ReaderHolds
<1>3. delivered'[r] = Append(d, Head(l)) /\ rlist'[r] = Tail(l)
  BY DEF Deliver, Loads, Bytes, DownloadTypeOK
<1> HIDE DEF c, d, l
<1>4. Head(l) \in Hashes \cup {NoHash} /\ Head(l) = l[1] /\ Head(l) = c[Len(d) + 1]
  BY <1>1, <1>2
<1>5. /\ Len(Append(d, Head(l))) = Len(d) + 1
      /\ \A i \in 1 .. Len(d) + 1 : Append(d, Head(l))[i] = c[i]
  BY <1>1, <1>2, <1>4
<1>6. /\ Len(Tail(l)) = Len(l) - 1
      /\ \A i \in 1 .. Len(l) - 1 : Tail(l)[i] = l[i + 1]
  BY <1>1
<1>7. \A i \in 1 .. Len(l) - 1 : Tail(l)[i] = c[(Len(d) + 1) + i]
  <2> SUFFICES ASSUME NEW i \in 1 .. Len(l) - 1 PROVE Tail(l)[i] = c[(Len(d) + 1) + i]
    OBVIOUS
  <2>1. i + 1 \in 1 .. Len(l) /\ Len(d) + (i + 1) = (Len(d) + 1) + i
    BY <1>1
  <2>2. QED
    BY <1>2, <1>6, <2>1
<1>8. (Len(d) + 1) + (Len(l) - 1) = Len(d) + Len(l)
  BY <1>1
<1>9. /\ Len(delivered'[r]) = Len(d) + 1 /\ Len(rlist'[r]) = Len(l) - 1
      /\ \A i \in 1 .. Len(d) + 1 : delivered'[r][i] = c[i]
      /\ \A i \in 1 .. Len(l) - 1 : rlist'[r][i] = c[(Len(d) + 1) + i]
  BY <1>3, <1>5, <1>6, <1>7
<1>10. QED
  BY <1>8, <1>9 DEF c, d, l

(* A reader's own step.                                                    *)
LEMMA ReaderMoves ==
  ASSUME Inv, ListsMatchProgress, DownloadTypeOK, NEW r \in Readers, ReaderHolds(r), ReaderStep(r)
  PROVE  ReaderHolds(r)'
<1> USE DEF Goto
<1>1. UNCHANGED <<content, index, pc, files, events>>
  BY DEF ReaderStep, vars, uploadVars, fileVars
<1>2. \A u \in Uploads : content[u] \in Seq(Hashes) /\ Len(content[u]) \in Nat
  BY ContentsAssumption DEF Inv, TypeOK
<1>3. CASE Request(r)
  <2>1. /\ rpc[r] = "start" /\ delivered'[r] = << >> /\ rlist'[r] = << >>
        /\ rfile'[r] \in Uploads
        /\ \/ rpc'[r] = "owner" /\ ~internal'[r]
           \/ rpc'[r] = "info" /\ rfile'[r] \in events
    BY <1>3 DEF Request, DownloadTypeOK, ReaderHolds, Inv, TypeOK
  <2>2. QED
    BY <1>1, <1>2, <2>1 DEF ReaderHolds
<1>4. CASE VerifyFileOwnership(r)
  <2>1. /\ rpc[r] = "owner" /\ rpc'[r] \in {"info", "error"}
        /\ UNCHANGED <<internal, rfile, rlist, cut, delivered>>
    BY <1>4 DEF VerifyFileOwnership, DownloadTypeOK
  <2>2. QED
    BY <1>1, <2>1 DEF ReaderHolds
<1>5. CASE GetFileInfo(r)
  <2>1. /\ rpc[r] = "info" /\ rpc'[r] \in {"list", "error"}
        /\ rpc'[r] = "list" => Servable(r)
        /\ UNCHANGED <<internal, rfile, rlist, cut, delivered>>
    BY <1>5 DEF GetFileInfo, DownloadTypeOK
  <2>2. rfile[r] \in Uploads
    BY <2>1 DEF ReaderHolds
  <2>3. Servable(r) => pc[rfile[r]] # "start" /\ index[rfile[r]] = Len(content[rfile[r]])
    BY <2>2 DEF Servable, ReaderHolds, ListsMatchProgress
  <2>4. QED
    BY <1>1, <2>1, <2>3 DEF ReaderHolds
<1>6. CASE GetFileChunks(r)
  <2> DEFINE u == rfile[r]
             whole == OrderedChunks(u)
  <2>1. PICK n \in 0 .. Len(whole) :
          /\ rlist'[r] = SubSeq(whole, 1, n)
          /\ ~cut'[r] => ~(n < Len(whole))
          /\ rpc'[r] = "peek"
          /\ UNCHANGED <<internal, rfile, delivered>>
    BY <1>6 DEF GetFileChunks, DownloadTypeOK
  <2>2. /\ u \in Uploads /\ delivered[r] = << >>
        /\ pc[u] # "start" /\ index[u] = Len(content[u])
    BY <1>6 DEF GetFileChunks, ReaderHolds
  <2>3. /\ whole \in Seq(Hashes)
        /\ Len(whole) = IF files[u] = "none" THEN 0 ELSE index[u]
        /\ \A i \in 1 .. Len(whole) : whole[i] = content[u][i]
    BY <2>2, OrderedChunksHold
  <2> HIDE DEF whole
  <2>4. /\ Len(SubSeq(whole, 1, n)) = n
        /\ \A i \in 1 .. n : SubSeq(whole, 1, n)[i] = content[u][i]
    BY <2>3
  <2>5. n \in Nat /\ n <= Len(content[u])
    BY <1>2, <2>2, <2>3
  <2>6. ~cut'[r] /\ files[u] # "none" => n = Len(content[u])
    BY <1>2, <2>1, <2>2, <2>3
  <2>7. QED
    BY <1>1, <2>1, <2>2, <2>4, <2>5, <2>6 DEF ReaderHolds
<1>7. CASE PeekChunk(r) \/ CopyChunk(r) \/ ReadHead(r)
  <2>1. /\ rpc[r] \in {"peek", "copy"} /\ rpc'[r] \in {"copy", "ok", "error"}
        /\ UNCHANGED <<internal, rfile, cut>>
        /\ Deliver(r) \/ UNCHANGED <<rlist, delivered>>
    BY <1>7 DEF PeekChunk, CopyChunk, ReadHead, DownloadTypeOK
  <2>2. rfile[r] \in Uploads
    BY <2>1 DEF ReaderHolds
  <2>3. CASE UNCHANGED <<rlist, delivered>>
    BY <1>1, <2>1, <2>3 DEF ReaderHolds
  <2>4. CASE Deliver(r)
    <3>1. /\ Len(delivered'[r]) + Len(rlist'[r]) = Len(delivered[r]) + Len(rlist[r])
          /\ \A i \in 1 .. Len(delivered'[r]) : delivered'[r][i] = content[rfile[r]][i]
          /\ \A i \in 1 .. Len(rlist'[r]) :
               rlist'[r][i] = content[rfile[r]][Len(delivered'[r]) + i]
      BY <1>2, <2>2, <2>4, DeliverHolds
    <3>2. QED
      BY <1>1, <2>1, <2>2, <3>1 DEF ReaderHolds
  <2>5. QED
    BY <2>1, <2>3, <2>4
<1>8. QED
  BY <1>3, <1>4, <1>5, <1>6, <1>7 DEF ReaderStep

(* Every step of the composition.                                          *)
LEMMA DownloadStep ==
  ASSUME Inv, ListsMatchProgress, DownloadInv, [DownloadNext]_downloadVars
  PROVE  DownloadInv'
<1>1. ASSUME NEW r \in Readers, ReaderStep(r) PROVE DownloadInv'
  <2>1. DownloadTypeOK'
    BY <1>1, ReaderTypes DEF DownloadInv
  <2>2. ASSUME NEW q \in Readers, q # r PROVE ReaderHolds(q)'
    <3>1. /\ rpc'[q] = rpc[q] /\ internal'[q] = internal[q] /\ rfile'[q] = rfile[q]
          /\ rlist'[q] = rlist[q] /\ cut'[q] = cut[q] /\ delivered'[q] = delivered[q]
      BY <1>1, <2>2 DEF ReaderStep, Request, VerifyFileOwnership, GetFileInfo, GetFileChunks,
        PeekChunk, CopyChunk, ReadHead, Deliver, Goto, DownloadInv, DownloadTypeOK
    <3>2. UNCHANGED <<content, index, pc, files, events>>
      BY <1>1 DEF ReaderStep, vars, uploadVars, fileVars
    <3>3. ReaderHolds(q)
      BY DEF DownloadInv
    <3>4. QED
      BY <3>1, <3>2, <3>3 DEF ReaderHolds
  <2>3. ReaderHolds(r)'
    BY <1>1, ReaderMoves DEF DownloadInv
  <2>4. QED
    BY <2>1, <2>2, <2>3 DEF DownloadInv
<1>2. CASE StorageStep \/ Rot \/ UNCHANGED downloadVars
  <2>1. [Next]_vars /\ UNCHANGED readerVars /\ rotten' \subseteq objects'
    BY <1>2 DEF StorageStep, Rot, downloadVars, vars, DownloadInv, DownloadTypeOK
  <2>2. DownloadTypeOK'
    BY <2>1 DEF DownloadInv, DownloadTypeOK, readerVars
  <2>3. QED
    BY <2>1, <2>2, ReaderWaits DEF DownloadInv
<1>3. QED
  BY <1>1, <1>2 DEF DownloadNext

(* Downloads only read: whatever holds of Storage holds of Storage with    *)
(* readers.                                                                *)
THEOREM DownloadsOnlyRead == DownloadSpec => Spec
<1>1. DownloadInit => Init
  BY DEF DownloadInit
<1>2. [DownloadNext]_downloadVars => [Next]_vars
  BY DEF DownloadNext, StorageStep, ReaderStep, Rot, downloadVars
<1>3. QED
  BY <1>1, <1>2, PTL DEF DownloadSpec, Spec

(* The invariant of the readers, with what it rests on.                    *)
LEMMA ReadersHold == DownloadSpec => [](Inv /\ ListsMatchProgress /\ DownloadInv)
<1>1. DownloadInit => DownloadInv
  <2> SUFFICES ASSUME DownloadInit PROVE DownloadInv
    OBVIOUS
  <2>1. DownloadTypeOK
    BY DEF DownloadInit, DownloadTypeOK, ReaderPCs
  <2>2. ASSUME NEW r \in Readers PROVE ReaderHolds(r)
    BY NoFileAssumption DEF DownloadInit, ReaderHolds
  <2>3. QED
    BY <2>1, <2>2 DEF DownloadInv
<1>2. Inv /\ ListsMatchProgress /\ DownloadInv /\ [DownloadNext]_downloadVars => DownloadInv'
  BY DownloadStep
<1>3. QED
  BY <1>1, <1>2, DownloadsOnlyRead, HandshakeHolds, ListsHold, PTL DEF DownloadSpec, Inv

(* Whatever is deleted, collected, uploaded again or corrupted meanwhile,  *)
(* the bytes a download has handed out are a prefix of the file as it was  *)
(* uploaded; and the reader state has its types.                           *)
THEOREM DownloadsDeliverPrefixes == DownloadSpec => [](DownloadTypeOK /\ DeliveredIsPrefix)
<1>1. Inv /\ DownloadInv => DownloadTypeOK /\ DeliveredIsPrefix
  <2> SUFFICES ASSUME Inv, DownloadInv, NEW r \in Readers, rfile[r] # NoFile
               PROVE  /\ Len(delivered[r]) <= Len(content[rfile[r]])
                      /\ delivered[r] = SubSeq(content[rfile[r]], 1, Len(delivered[r]))
    BY DEF DownloadInv, DeliveredIsPrefix
  <2> DEFINE d == delivered[r]
             c == content[rfile[r]]
  <2>1. /\ d \in Seq(Hashes \cup {NoHash}) /\ Len(d) \in Nat
        /\ Len(rlist[r]) \in Nat /\ rfile[r] \in Uploads
    BY DEF DownloadInv, DownloadTypeOK
  <2>2. c \in Seq(Hashes) /\ Len(c) \in Nat
    BY <2>1, ContentsAssumption DEF Inv, TypeOK
  <2>3. Len(d) + Len(rlist[r]) <= Len(c) /\ \A i \in 1 .. Len(d) : d[i] = c[i]
    BY <2>1 DEF DownloadInv, ReaderHolds
  <2> HIDE DEF d, c
  <2>4. Len(d) <= Len(c)
    BY <2>1, <2>2, <2>3
  <2>5. /\ SubSeq(c, 1, Len(d)) \in Seq(Hashes \cup {NoHash})
        /\ Len(SubSeq(c, 1, Len(d))) = Len(d)
        /\ \A i \in 1 .. Len(d) : SubSeq(c, 1, Len(d))[i] = c[i]
    BY <2>1, <2>2, <2>4
  <2>6. d = SubSeq(c, 1, Len(d))
    BY <2>1, <2>3, <2>5, SeqEqual
  <2>7. QED
    BY <2>4, <2>6 DEF d, c
<1>2. QED
  BY <1>1, ReadersHold, PTL

(* A list shorter than the file means that the file was removed since its  *)
(* status was read, or that a read broke: for any number of uploads under  *)
(* way, none of them shows a reader part of a file.                        *)
THEOREM ListsAreWhole == DownloadSpec => []ShortListMeansRemoved
<1>1. Inv /\ DownloadInv => ShortListMeansRemoved
  <2> SUFFICES ASSUME Inv, DownloadInv, NEW r \in Readers, rpc[r] \in {"peek", "copy"}, ~cut[r],
                      files[rfile[r]] # "none"
               PROVE  delivered[r] \o rlist[r] = content[rfile[r]]
    BY DEF ShortListMeansRemoved
  <2> DEFINE S == Hashes \cup {NoHash}
             d == delivered[r]
             l == rlist[r]
             c == content[rfile[r]]
  <2>1. ReaderHolds(r) /\ DownloadTypeOK
    BY DEF DownloadInv
  <2>2. d \in Seq(S) /\ Len(d) \in Nat /\ l \in Seq(S) /\ Len(l) \in Nat /\ rfile[r] \in Uploads
    BY <2>1 DEF DownloadTypeOK, ReaderHolds
  <2>3. c \in Seq(S) /\ Len(c) \in Nat
    BY <2>2, ContentsAssumption DEF Inv, TypeOK
  <2>4. /\ Len(d) + Len(l) = Len(c)
        /\ \A i \in 1 .. Len(d) : d[i] = c[i]
        /\ \A i \in 1 .. Len(l) : l[i] = c[Len(d) + i]
    BY <2>1, <2>2 DEF ReaderHolds
  <2> HIDE DEF S, d, l, c
  <2>5. /\ d \o l \in Seq(S)
        /\ Len(d \o l) = Len(c)
        /\ \A i \in 1 .. Len(c) : (d \o l)[i] = IF i <= Len(d) THEN d[i] ELSE l[i - Len(d)]
    BY <2>2, <2>4, ConcatProperties
  <2>6. \A i \in 1 .. Len(c) : (d \o l)[i] = c[i]
    <3> SUFFICES ASSUME NEW i \in 1 .. Len(c) PROVE (d \o l)[i] = c[i]
      OBVIOUS
    <3>1. CASE i <= Len(d)
      BY <2>2, <2>4, <2>5, <3>1
    <3>2. CASE ~(i <= Len(d))
      <4> DEFINE j == i - Len(d)
      <4>1. j \in 1 .. Len(l) /\ Len(d) + j = i
        BY <2>2, <2>3, <2>4, <3>2
      <4>2. (d \o l)[i] = l[j]
        BY <2>5, <3>2
      <4> HIDE DEF j
      <4>3. QED
        BY <2>4, <4>1, <4>2
    <3>3. QED
      BY <3>1, <3>2
  <2>7. d \o l = c
    BY <2>3, <2>5, <2>6, SeqEqual
  <2>8. QED
    BY <2>7 DEF d, l, c
<1>2. QED
  BY <1>1, ReadersHold, PTL
=============================================================================
