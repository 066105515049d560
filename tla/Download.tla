------------------------------ MODULE Download ------------------------------
(***************************************************************************)
(* Downloads running against everything Storage does: the handler's        *)
(* DownloadFile for a user and DownloadFileInternal for the worker.  The   *)
(* chunk list is read once; every chunk is fetched, and checked against    *)
(* its hash, only when the copy reaches it.                                *)
(***************************************************************************)
EXTENDS Storage

CONSTANTS Readers,  \* download calls
          NoFile

ASSUME NoFileAssumption == NoFile \notin Uploads

VARIABLES
  rpc,       \* where a call is; "ok": the answer ended, "error": refused or a 500
  internal,  \* it is the worker's DownloadFileInternal, not a user's DownloadFile
  rfile,     \* the file it was asked for
  rlist,     \* GetFileChunks: the hashes still to be fetched
  cut,       \* GetFileChunks met a broken read and returned what it had
  delivered, \* the chunks written to the response; NoHash stands for wrong bytes
  rotten     \* stored objects whose bytes changed

readerVars == <<rpc, internal, rfile, rlist, cut, delivered>>
downloadVars == <<vars, readerVars, rotten>>

ReaderPCs == {"start", "owner", "info", "list", "peek", "copy", "ok", "error"}

(* Types of the reader state.                                              *)
DownloadTypeOK ==
  /\ rpc \in [Readers -> ReaderPCs]
  /\ internal \in [Readers -> BOOLEAN]
  /\ rfile \in [Readers -> Uploads \cup {NoFile}]
  /\ rlist \in [Readers -> Seq(Hashes)]
  /\ cut \in [Readers -> BOOLEAN]
  /\ delivered \in [Readers -> Seq(Hashes \cup {NoHash})]
  /\ rotten \subseteq objects

DownloadInit ==
  /\ Init
  /\ rpc = [r \in Readers |-> "start"]
  /\ internal = [r \in Readers |-> FALSE]
  /\ rfile = [r \in Readers |-> NoFile]
  /\ rlist = [r \in Readers |-> << >>]
  /\ cut = [r \in Readers |-> FALSE]
  /\ delivered = [r \in Readers |-> << >>]
  /\ rotten = {}

Goto(r, next) == rpc' = [rpc EXCEPT ![r] = next]

(* A user asks for any file; the worker for one an event named.            *)
Request(r) ==
  /\ rpc[r] = "start"
  /\ \/ /\ \E u \in Uploads : rfile' = [rfile EXCEPT ![r] = u]
        /\ Goto(r, "owner")
        /\ UNCHANGED internal
     \/ /\ \E u \in events : rfile' = [rfile EXCEPT ![r] = u]
        /\ Goto(r, "info")
        /\ internal' = [internal EXCEPT ![r] = TRUE]
  /\ UNCHANGED <<rlist, cut, delivered>>

VerifyFileOwnership(r) ==
  /\ rpc[r] = "owner"
  /\ Goto(r, IF files[rfile[r]] = "none" THEN "error" ELSE "info")
  /\ UNCHANGED <<internal, rfile, rlist, cut, delivered>>

(* Faulty variant: the status is not looked at.                            *)
AnyRow(r) == files[rfile[r]] # "none"

(* The row DownloadFile goes on with; DownloadFileInternal takes any.      *)
Servable(r) == files[rfile[r]] = "ready" \/ (internal[r] /\ files[rfile[r]] # "none")

GetFileInfo(r) ==
  /\ rpc[r] = "info"
  /\ Goto(r, IF Servable(r) THEN "list" ELSE "error")
  /\ UNCHANGED <<internal, rfile, rlist, cut, delivered>>

(* The hashes of file u in the order of chunk_index.                       *)
OrderedChunks(u) ==
  LET n == Cardinality({l \in links : l.file = u})
  IN  [i \in 1..n |->
         hashOf[(CHOOSE l \in links :
                   /\ l.file = u
                   /\ Cardinality({k \in links : k.file = u /\ k.index < l.index}) = i - 1).chunk]]

(* rows.Err() is not asked, so a broken read shortens the list.            *)
GetFileChunks(r) ==
  /\ rpc[r] = "list"
  /\ LET whole == OrderedChunks(rfile[r])
     IN \E n \in 0..Len(whole) :
          /\ rlist' = [rlist EXCEPT ![r] = SubSeq(whole, 1, n)]
          /\ cut' = [cut EXCEPT ![r] = n < Len(whole)]
  /\ Goto(r, "peek")
  /\ UNCHANGED <<internal, rfile, delivered>>

(* Faulty variant: the hash is not checked.                                *)
Fetched(h) == h \in objects

(* verifiedChunkReader.load: the object is there and hashes to its name.   *)
Loads(h) == h \in objects /\ h \notin rotten

(* Faulty variant: bytes past the chunk limit are handed on.               *)
Oversized(h) == <<h, "tail">>

(* The bytes a fetch of h returns, when it returns some.                   *)
Bytes(h) == IF h \in rotten THEN NoHash ELSE h

(* One Read of the MultiReader: the next chunk, fetched and checked.       *)
Deliver(r) ==
  /\ rlist[r] # << >>
  /\ Loads(Head(rlist[r]))
  /\ delivered' = [delivered EXCEPT ![r] = Append(@, Bytes(Head(rlist[r])))]
  /\ rlist' = [rlist EXCEPT ![r] = Tail(@)]

(* Peek(1), before the status code is sent; its chunk is replayed by Copy. *)
(* A fetch may also fail for no reason of the store's own.                 *)
PeekChunk(r) ==
  /\ rpc[r] = "peek" /\ ~internal[r]
  /\ \/ Deliver(r) /\ Goto(r, "copy")
     \/ rlist[r] # << >> /\ Goto(r, "error") /\ UNCHANGED <<rlist, delivered>>
     \/ rlist[r] = << >> /\ Goto(r, "copy") /\ UNCHANGED <<rlist, delivered>>
  /\ UNCHANGED <<internal, rfile, cut>>

(* io.Copy after the 200.  Its error is only logged: the handler returns,  *)
(* and the server ends the body as it ends a complete one.                 *)
CopyChunk(r) ==
  /\ rpc[r] = "copy"
  /\ \/ Deliver(r) /\ UNCHANGED rpc
     \/ Goto(r, "ok") /\ UNCHANGED <<rlist, delivered>>
  /\ UNCHANGED <<internal, rfile, cut>>

(* The worker reads no further than the first chunk (100 KB of 4 MB), and  *)
(* not even that of a file that is not text; it returns a fetch's error.   *)
ReadHead(r) ==
  /\ rpc[r] = "peek" /\ internal[r]
  /\ \/ Deliver(r) /\ Goto(r, "ok")
     \/ rlist[r] # << >> /\ Goto(r, "error") /\ UNCHANGED <<rlist, delivered>>
     \/ Goto(r, "ok") /\ UNCHANGED <<rlist, delivered>>
  /\ UNCHANGED <<internal, rfile, cut>>

ReaderStep(r) ==
  /\ \/ Request(r) \/ VerifyFileOwnership(r) \/ GetFileInfo(r) \/ GetFileChunks(r)
     \/ PeekChunk(r) \/ CopyChunk(r) \/ ReadHead(r)
  /\ UNCHANGED <<vars, rotten>>

(* A stored object decays.                                                 *)
Rot ==
  /\ \E h \in objects : rotten' = rotten \cup {h}
  /\ UNCHANGED <<vars, readerVars>>

(* A completed PUT replaces the bytes, a DELETE removes them.              *)
StorageStep ==
  /\ Next
  /\ rotten' = {h \in rotten \cap objects' :
                  \A u \in Uploads : pc[u] = "put" /\ pc'[u] = "link" => Hash(u) # h}
  /\ UNCHANGED readerVars

DownloadNext == StorageStep \/ (\E r \in Readers : ReaderStep(r)) \/ Rot

DownloadSpec == DownloadInit /\ [][DownloadNext]_downloadVars

-----------------------------------------------------------------------------
(* Properties.                                                             *)

(* Whatever is deleted, collected, uploaded again or corrupted meanwhile,  *)
(* the bytes a download has handed out are a prefix of the file as it was  *)
(* uploaded.  (verifiedChunkReader, ORDER BY chunk_index.)                 *)
DeliveredIsPrefix ==
  \A r \in Readers : rfile[r] # NoFile =>
    /\ Len(delivered[r]) <= Len(content[rfile[r]])
    /\ delivered[r] = SubSeq(content[rfile[r]], 1, Len(delivered[r]))

(* A list shorter than the file means that the file was removed since its  *)
(* status was read, or that a read broke: never that an upload was still   *)
(* running, although DownloadFileInternal does not look at the status.     *)
ShortListMeansRemoved ==
  \A r \in Readers :
    rpc[r] \in {"peek", "copy"} /\ ~cut[r] /\ files[rfile[r]] # "none" =>
      delivered[r] \o rlist[r] = content[rfile[r]]

(* "serving it would hand back a silently truncated file": an answer that  *)
(* ended as a complete one carries the whole file, when no read broke and  *)
(* every listed chunk was delivered.                                       *)
CompletedDownloadIsWhole ==
  \A r \in Readers :
    rpc[r] = "ok" /\ ~internal[r] /\ ~cut[r] /\ rlist[r] = << >> => delivered[r] = content[rfile[r]]
=============================================================================
