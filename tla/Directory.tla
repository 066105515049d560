----------------------------- MODULE Directory -----------------------------
(***************************************************************************)
(* The directory of every user: the metadata service (folders, listings,   *)
(* search) together with the part of an upload, a delete and the sweep of  *)
(* the garbage collector that works on table files.  One action per        *)
(* statement; a request that sends two can be overtaken between them.  A   *)
(* DELETE with its cascades is one step, as is an INSERT with its index    *)
(* and foreign key checks: the row locks of PostgreSQL order them.         *)
(***************************************************************************)
EXTENDS Naturals, FiniteSets, Search

CONSTANTS Users,
          FolderIDs, FileIDs, \* identifiers the database generates, never twice the same
          Names,              \* names a client gives to folders and files
          Root,               \* parent_id, folder_id: NULL
          Writers, Readers,   \* requests in flight that may change, and that may read, a directory
          Queries,            \* terms a client searches for
          Embeddings,         \* what the worker's model may answer: summary and tags
          NoUser, NoFile, NoEmbedding,
          MaxSearchResults,
          MaxText             \* bound of SearchIsLiteral: the longest text a file may have

Items == FolderIDs \cup FileIDs
Parents == FolderIDs \cup {Root}
Calls == Writers \cup Readers

ASSUME IDAssumption ==
  /\ FolderIDs \cap FileIDs = {}
  /\ Root \notin Items
  /\ NoFile \notin FileIDs
  /\ NoUser \notin Users
  /\ NoEmbedding \notin Embeddings
ASSUME TextAssumption == Names \cup Queries \subseteq Seq(Special \cup Letters)
ASSUME LimitAssumption == MaxSearchResults \in Nat \ {0} /\ MaxText \in Nat

VARIABLES
  \* tables folders, files and file_embeddings
  row,       \* row[i]: the columns of an item and whether it is there
  embedding, \* embedding[f]: the row of file_embeddings
  \* a request
  pc,        \* where it is; "idle": none, "answered": a listing or search returned
  who,       \* its user
  at,        \* the folder it names
  title,     \* the name it gives, the term it searches for
  item,      \* fileID of an upload
  shown,     \* the items of its answer so far
  cut,       \* a broken read or the LIMIT left items out of the answer
  \* history
  known      \* known[c]: the files request c asks for that were there when it came

tables == <<row, embedding>>
callVars == <<pc, who, at, title, item, shown, cut, known>>
directoryVars == <<tables, callVars>>

States == {"unused", "uploading", "ready", "gone"}
CallPCs == {"idle", "insertFolder", "insertFile", "transfer", "abandon", "listFiles", "answered"}

NoRow(state) == [state |-> state, owner |-> NoUser, parent |-> Root, name |-> << >>]

(* The row is there: an identifier may be unused still, or its row gone.   *)
Live(i) == row[i].state \in {"uploading", "ready"}

(* Types: a folder is never uploading, a row that is there has an owner.   *)
DirectoryTypeOK ==
  /\ row \in [Items -> [state : States, owner : Users \cup {NoUser}, parent : Parents,
                        name : Names \cup {<< >>}]]
  /\ \A f \in FolderIDs : row[f].state # "uploading"
  /\ \A i \in Items : Live(i) <=> row[i].owner # NoUser
  /\ embedding \in [FileIDs -> Embeddings \cup {NoEmbedding}]
  /\ pc \in [Calls -> CallPCs]
  /\ who \in [Calls -> Users \cup {NoUser}]
  /\ at \in [Calls -> Parents]
  /\ title \in [Calls -> Names \cup Queries \cup {<< >>}]
  /\ item \in [Calls -> FileIDs \cup {NoFile}]
  /\ shown \in [Calls -> SUBSET Items]
  /\ cut \in [Calls -> BOOLEAN]
  /\ known \in [Calls -> SUBSET FileIDs]

DirectoryInit ==
  /\ row = [i \in Items |-> NoRow("unused")]
  /\ embedding = [f \in FileIDs |-> NoEmbedding]
  /\ pc = [c \in Calls |-> "idle"]
  /\ who = [c \in Calls |-> NoUser]
  /\ at = [c \in Calls |-> Root]
  /\ title = [c \in Calls |-> << >>]
  /\ item = [c \in Calls |-> NoFile]
  /\ shown = [c \in Calls |-> {}]
  /\ cut = [c \in Calls |-> FALSE]
  /\ known = [c \in Calls |-> {}]

-----------------------------------------------------------------------------
(* Faulty variant: any folder that exists will do.                         *)
FolderExists(u, p) == p # Root => Live(p)

(* SELECT 1 FROM folders WHERE id = $1 AND user_id = $2, skipped for NULL. *)
VerifyFolderOwnership(u, p) == p # Root => Live(p) /\ row[p].owner = u

(* Faulty variant: NULL differs from NULL, as before migration 00007.      *)
NullsDistinct(table, u, p, n) ==
  p # Root /\ \E i \in table : Live(i) /\ row[i].owner = u /\ row[i].parent = p /\ row[i].name = n

(* The unique indexes of table folders and of table files.                 *)
NameTaken(table, u, p, n) ==
  \E i \in table : Live(i) /\ row[i].owner = u /\ row[i].parent = p /\ row[i].name = n

(* Faulty variant: no foreign key.                                         *)
Unreferenced(p) == p \in Parents

(* The foreign keys parent_id and folder_id.                               *)
ParentExists(p) == p # Root => Live(p)

(* uuid_generate_v4(): one identifier nobody has seen is as good as another.*)
Unused(table) == {i \in table : row[i].state = "unused"}
NewID(table) == CHOOSE i \in Unused(table) : TRUE

(* An INSERT the database accepts.                                         *)
Insert(table, u, p, n, state) ==
  /\ Unused(table) # {}
  /\ ~NameTaken(table, u, p, n)
  /\ ParentExists(p)
  /\ row' = [row EXCEPT ![NewID(table)] = [state |-> state, owner |-> u, parent |-> p, name |-> n]]

(* ON DELETE CASCADE: the rows whose parent goes, go.                      *)
ClosedUnderChildren(S) == \A i \in Items : Live(i) /\ row[i].parent \in S => i \in S

Subtree(f) == {i \in Items : \A S \in SUBSET Items : f \in S /\ ClosedUnderChildren(S) => i \in S}

Drop(S) ==
  /\ row' = [i \in Items |-> IF i \in S /\ Live(i) THEN NoRow("gone") ELSE row[i]]
  /\ embedding' = [f \in FileIDs |-> IF f \in S THEN NoEmbedding ELSE embedding[f]]

(* The call ends and its goroutine keeps nothing.                          *)
Finish(c) ==
  /\ pc' = [pc EXCEPT ![c] = "idle"]
  /\ who' = [who EXCEPT ![c] = NoUser]
  /\ at' = [at EXCEPT ![c] = Root]
  /\ title' = [title EXCEPT ![c] = << >>]
  /\ item' = [item EXCEPT ![c] = NoFile]
  /\ shown' = [shown EXCEPT ![c] = {}]
  /\ cut' = [cut EXCEPT ![c] = FALSE]
  /\ known' = [known EXCEPT ![c] = {}]

Begin(c, next, u, p, t) ==
  /\ pc[c] = "idle"
  /\ pc' = [pc EXCEPT ![c] = next]
  /\ who' = [who EXCEPT ![c] = u]
  /\ at' = [at EXCEPT ![c] = p]
  /\ title' = [title EXCEPT ![c] = t]
  /\ UNCHANGED item

-----------------------------------------------------------------------------
(* CreateFolder: the parent of the request is checked, then the INSERT.    *)
(* An unknown or a foreign parent is refused with 403 and leaves no trace. *)
BeginCreateFolder(c) ==
  /\ \E u \in Users, p \in Parents, n \in Names :
       VerifyFolderOwnership(u, p) /\ Begin(c, "insertFolder", u, p, n)
  /\ UNCHANGED <<tables, shown, cut, known>>

InsertFolder(c) ==
  /\ pc[c] = "insertFolder"
  /\ Insert(FolderIDs, who[c], at[c], title[c], "ready")
  /\ Finish(c)
  /\ UNCHANGED embedding

(* 409 for a name that is taken, 500 for a parent that went meanwhile or   *)
(* for any other error of the INSERT.                                      *)
InsertFails(c) ==
  /\ pc[c] \in {"insertFolder", "insertFile"}
  /\ Finish(c)
  /\ UNCHANGED tables

(* DeleteFolder: the client's one statement; no row affected is a 403.     *)
DeleteFolder(u, f) ==
  /\ Live(f)
  /\ row[f].owner = u
  /\ Drop(Subtree(f))
  /\ UNCHANGED callVars

-----------------------------------------------------------------------------
(* UploadFile: check the folder, insert the row, store the chunks, publish.*)
BeginUpload(c) ==
  /\ \E u \in Users, p \in Parents, n \in Names :
       VerifyFolderOwnership(u, p) /\ Begin(c, "insertFile", u, p, n)
  /\ UNCHANGED <<tables, shown, cut, known>>

(* CreateFile; the answer of the INSERT may be lost after its commit, and  *)
(* then nobody holds the identifier of the row.                            *)
CreateFile(c) ==
  /\ pc[c] = "insertFile"
  /\ Insert(FileIDs, who[c], at[c], title[c], "uploading")
  /\ \/ /\ pc' = [pc EXCEPT ![c] = "transfer"]
        /\ item' = [item EXCEPT ![c] = NewID(FileIDs)]
        /\ UNCHANGED <<who, at, title, shown, cut, known>>
     \/ Finish(c)
  /\ UNCHANGED embedding

(* Faulty variant: an upsert brings a deleted row back.                    *)
UpsertReady(f) == row' = [row EXCEPT ![f].state = "ready"]

(* UPDATE files ... WHERE id = $3: no row is no error.                     *)
SetReady(f) ==
  row' = IF Live(f) THEN [row EXCEPT ![f].state = "ready"] ELSE row

Publish(c) ==
  /\ pc[c] = "transfer"
  /\ SetReady(item[c])
  /\ Finish(c)
  /\ UNCHANGED embedding

(* A chunk fails, or the UPDATE fails with or without effect.              *)
TransferFails(c) ==
  /\ pc[c] = "transfer"
  /\ SetReady(item[c]) \/ UNCHANGED row
  /\ pc' = [pc EXCEPT ![c] = "abandon"]
  /\ UNCHANGED <<embedding, who, at, title, item, shown, cut, known>>

(* abandonUpload: DeleteFile as the uploader; its error is only logged.    *)
AbandonUpload(c) ==
  /\ pc[c] = "abandon"
  /\ Drop({item[c]}) \/ UNCHANGED tables
  /\ Finish(c)

(* The process dies, or the client goes away before anything was written.  *)
Crash(c) ==
  /\ pc[c] \notin {"idle", "answered"}
  /\ Finish(c)
  /\ UNCHANGED tables

DeleteFile(u, f) ==
  /\ Live(f)
  /\ row[f].owner = u
  /\ Drop({f})
  /\ UNCHANGED callVars

(* DeleteStaleUploads takes uploading rows older than minAge, a day; an    *)
(* upload ends within the timeouts of the server, minutes.                 *)
Unfinished(f) == row[f].state = "uploading"

Sweep(S) ==
  /\ S # {}
  /\ \A f \in S : Unfinished(f) /\ \A c \in Calls : item[c] # f
  /\ Drop(S)
  /\ UNCHANGED callVars

(* SaveEmbedding, for a file the worker could download.                    *)
SaveEmbedding(f) ==
  /\ row[f].state = "ready"
  /\ \E e \in Embeddings : embedding' = [embedding EXCEPT ![f] = e]
  /\ UNCHANGED <<row, callVars>>

-----------------------------------------------------------------------------
(* Reading.  rows.Err is not looked at: a broken read shortens the answer. *)
Answer(c, all, more) ==
  \/ shown' = [shown EXCEPT ![c] = @ \cup all] /\ cut' = [cut EXCEPT ![c] = @ \/ more]
  \/ \E some \in SUBSET all \ {all} :
       shown' = [shown EXCEPT ![c] = @ \cup some] /\ cut' = [cut EXCEPT ![c] = TRUE]

ListFolders(u, p) == {f \in FolderIDs : Live(f) /\ row[f].owner = u /\ row[f].parent = p}

(* Faulty variant: unfinished uploads are listed.                          *)
ListAllFiles(u, p) == {f \in FileIDs : Live(f) /\ row[f].owner = u /\ row[f].parent = p}

ListFiles(u, p) ==
  {f \in FileIDs : row[f].state = "ready" /\ row[f].owner = u /\ row[f].parent = p}

(* ListDirectory, first statement.  The folder is not checked: the user    *)
(* column alone keeps others out.                                          *)
BeginListing(c) ==
  /\ \E u \in Users, p \in Parents :
       /\ Begin(c, "listFiles", u, p, << >>)
       /\ Answer(c, ListFolders(u, p), FALSE)
       /\ known' = [known EXCEPT ![c] = ListFiles(u, p)]
  /\ UNCHANGED tables

FinishListing(c) ==
  /\ pc[c] = "listFiles"
  /\ Answer(c, ListFiles(who[c], at[c]), FALSE)
  /\ pc' = [pc EXCEPT ![c] = "answered"]
  /\ UNCHANGED <<tables, who, at, title, item, known>>

(* The WHERE clause of SearchFiles.                                        *)
Matches(f, term) ==
  \/ Finds(row[f].name, term)
  \/ /\ embedding[f] # NoEmbedding
     /\ \/ term \in embedding[f].tags
        \/ \E text \in embedding[f].texts : Finds(text, term)

SearchFiles(u, term) ==
  {f \in FileIDs : row[f].state = "ready" /\ row[f].owner = u /\ Matches(f, term)}

(* LIMIT $4                                                                *)
Limited(S) == {T \in SUBSET S : Cardinality(T) <= MaxSearchResults
                                /\ (T = S \/ Cardinality(T) = MaxSearchResults)}

(* A search; without a term the answer is empty and no query is sent.      *)
BeginSearch(c) ==
  /\ \E u \in Users, term \in Queries :
       /\ Begin(c, "answered", u, Root, term)
       /\ IF term = << >> THEN UNCHANGED <<shown, cut, known>>
          ELSE /\ \E T \in Limited(SearchFiles(u, term)) :
                    Answer(c, T, T # SearchFiles(u, term))
               /\ known' = [known EXCEPT ![c] =
                              {f \in FileIDs : /\ row[f].state = "ready"
                                               /\ row[f].owner = u
                                               /\ Literally(row[f].name, term)}]
  /\ UNCHANGED tables

(* The client has read the answer.                                         *)
Read(c) ==
  /\ pc[c] = "answered"
  /\ Finish(c)
  /\ UNCHANGED tables

-----------------------------------------------------------------------------
DirectoryNext ==
  \/ \E c \in Writers :
       \/ BeginCreateFolder(c) \/ InsertFolder(c) \/ InsertFails(c)
       \/ BeginUpload(c) \/ CreateFile(c) \/ Publish(c) \/ TransferFails(c) \/ AbandonUpload(c)
  \/ \E c \in Readers : BeginListing(c) \/ FinishListing(c) \/ BeginSearch(c) \/ Read(c)
  \/ \E c \in Calls : Crash(c)
  \/ \E u \in Users : (\E f \in FolderIDs : DeleteFolder(u, f)) \/ (\E f \in FileIDs : DeleteFile(u, f))
  \/ \E S \in SUBSET FileIDs : Sweep(S)
  \/ \E f \in FileIDs : SaveEmbedding(f)

DirectorySpec == DirectoryInit /\ [][DirectoryNext]_directoryVars

-----------------------------------------------------------------------------
(* Every folder and file hangs on a folder that is there and belongs to    *)
(* the same user, whatever is deleted between the check and the insert.    *)
OwnTree ==
  \A i \in Items :
    Live(i) => \/ row[i].parent = Root
               \/ Live(row[i].parent) /\ row[row[i].parent].owner = row[i].owner

(* A directory, the root included, has no two folders and no two files of  *)
(* one name, unfinished uploads counted.                                   *)
UniqueNames ==
  \A table \in {FolderIDs, FileIDs} : \A i, j \in table :
    /\ i # j /\ Live(i) /\ Live(j)
    /\ <<row[i].owner, row[i].parent>> = <<row[j].owner, row[j].parent>>
    => row[i].name # row[j].name

(* A published file goes only because its owner deleted it or a folder     *)
(* above it, or because its own upload failed after all: no cascade of     *)
(* another user's delete and no sweep takes it.                            *)
OnlyOwnersRemove ==
  [][\A f \in FileIDs :
       row[f].state = "ready" /\ row'[f].state # "ready" =>
         \/ DeleteFile(row[f].owner, f)
         \/ \E d \in FolderIDs : DeleteFolder(row[f].owner, d)
         \/ \E c \in Writers : AbandonUpload(c) /\ item[c] = f]_directoryVars

(* An answer shows only what belongs to the caller, is where he asked for  *)
(* and was published, and, unless it was cut, every file that was there    *)
(* all the time the request took.                                          *)
AnswersAreTrue ==
  \A c \in Calls : pc[c] \in {"listFiles", "answered"} =>
    /\ \A i \in shown[c] :
         \/ row[i].state = "gone"
         \/ /\ row[i].state = "ready"
            /\ row[i].owner = who[c]
            /\ title[c] = << >> => row[i].parent = at[c]
    /\ pc[c] = "answered" /\ ~cut[c] =>
         \A f \in known[c] : f \in shown[c] \/ row[f].state = "gone"

(* The texts up to the bound in which a term is found, and should be.      *)
FileTexts == BoundedSeq(Special \cup Letters, MaxText)
FoundIn == [term \in Queries |-> {text \in FileTexts : Finds(text, term)}]
OccursIn == [term \in Queries |-> {text \in FileTexts : Literally(text, term)}]

(* A search term has no wildcards and no escapes: a search that was        *)
(* answered found, among all the texts a file may have, those with the     *)
(* term in them, character by character and in any case.                   *)
SearchIsLiteral ==
  \A c \in Readers :
    pc[c] = "answered" /\ title[c] # << >> => FoundIn[title[c]] = OccursIn[title[c]]
=============================================================================
