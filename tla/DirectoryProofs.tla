-------------------------- MODULE DirectoryProofs --------------------------
(***************************************************************************)
(* The tree of every user stays whole and its own, for any number of       *)
(* users, requests, folders and files.  What a request remembers between   *)
(* its statements (a folder it checked, files it saw) may be gone when it  *)
(* goes on, but is never another's: identifiers do not come back.          *)
(*                                                                         *)
(* Every step changes the tables in one of four ways: an INSERT, a DELETE  *)
(* with its cascades, a status update, or not at all.  A lemma for each    *)
(* way, then one proof step per action.                                    *)
(***************************************************************************)
EXTENDS Directory, SearchProofs, TLAPS

(* The tables: DirectoryTypeOK's part, and rows have the names given.      *)
RowsTyped ==
  /\ row \in [Items -> [state : States, owner : Users \cup {NoUser}, parent : Parents,
                        name : Names \cup {<< >>}]]
  /\ \A f \in FolderIDs : row[f].state # "uploading"
  /\ \A i \in Items : Live(i) <=> row[i].owner # NoUser
  /\ \A i \in Items : Live(i) => row[i].name \in Names
  /\ embedding \in [FileIDs -> Embeddings \cup {NoEmbedding}]

(* The requests.                                                           *)
CallsTyped ==
  /\ pc \in [Calls -> CallPCs]
  /\ who \in [Calls -> Users \cup {NoUser}]
  /\ at \in [Calls -> Parents]
  /\ title \in [Calls -> Names \cup Queries \cup {<< >>}]
  /\ item \in [Calls -> FileIDs \cup {NoFile}]
  /\ shown \in [Calls -> SUBSET Items]
  /\ cut \in [Calls -> BOOLEAN]
  /\ known \in [Calls -> SUBSET FileIDs]

(* What a request may rely on at its next statement.                       *)
CallHolds(c) ==
  /\ pc[c] \in {"insertFolder", "insertFile"} =>
       /\ who[c] \in Users
       /\ title[c] \in Names
       /\ at[c] # Root => \/ row[at[c]].state = "gone"
                          \/ Live(at[c]) /\ row[at[c]].owner = who[c]
  /\ pc[c] \in {"transfer", "abandon"} => item[c] \in FileIDs
  /\ pc[c] \notin {"listFiles", "answered"} => shown[c] = {} /\ known[c] = {}
  /\ pc[c] = "listFiles" =>
       /\ title[c] = << >>
       /\ \A f \in known[c] : row[f].state = "gone" \/ f \in ListFiles(who[c], at[c])

(* The inductive invariant.                                                *)
TreeInv ==
  /\ RowsTyped
  /\ CallsTyped
  /\ OwnTree
  /\ UniqueNames
  /\ \A c \in Calls : CallHolds(c)

(* What no step does: change the owner, place or name of a row that is     *)
(* there, take back a publication, or bring a row back.                    *)
RowsOnlyAge ==
  \A i \in Items :
    /\ row[i].state = "gone" => row'[i] = row[i]
    /\ row[i].state = "ready" => row'[i] = row[i] \/ row'[i].state = "gone"
    /\ Live(i) => \/ row'[i].state = "gone"
                  \/ /\ row'[i].state \in {"uploading", "ready"}
                     /\ row'[i].owner = row[i].owner
                     /\ row'[i].parent = row[i].parent
                     /\ row'[i].name = row[i].name

TablesHold == RowsTyped /\ OwnTree /\ UniqueNames

-----------------------------------------------------------------------------
(* Empty tables and no requests.                                           *)
LEMMA InitTree == DirectoryInit => TreeInv
<1> SUFFICES ASSUME DirectoryInit PROVE TreeInv
  OBVIOUS
<1> USE DEF DirectoryInit, Live, NoRow
<1>1. RowsTyped
  BY DEF RowsTyped, States, Parents, Items
<1>2. CallsTyped
  BY DEF CallsTyped, CallPCs, Parents
<1>3. OwnTree /\ UniqueNames
  BY DEF OwnTree, UniqueNames, Items
<1>4. \A c \in Calls : CallHolds(c)
  BY DEF CallHolds
<1>5. QED
  BY <1>1, <1>2, <1>3, <1>4 DEF TreeInv

(* A step that leaves the tables alone.                                    *)
LEMMA TablesUnchanged ==
  ASSUME TablesHold, UNCHANGED tables
  PROVE  TablesHold' /\ RowsOnlyAge
<1> USE DEF TablesHold, tables
<1>1. RowsTyped'
  BY DEF RowsTyped, Live
<1>2. OwnTree'
  BY DEF OwnTree, Live
<1>3. UniqueNames'
  BY DEF UniqueNames, Live
<1>4. RowsOnlyAge
  BY DEF RowsOnlyAge, Live
<1>5. QED
  BY <1>1, <1>2, <1>3, <1>4

(* uuid_generate_v4 gives an identifier no row ever had.                   *)
LEMMA NewIDUnused ==
  ASSUME NEW table, Unused(table) # {}
  PROVE  NewID(table) \in table /\ row[NewID(table)].state = "unused"
BY DEF NewID, Unused

(* CreateFolder, CreateFile: an INSERT the indexes and the foreign key let *)
(* through, below a folder of the same user.                               *)
LEMMA InsertHolds ==
  ASSUME TablesHold,
         NEW table \in {FolderIDs, FileIDs}, NEW u \in Users, NEW p \in Parents,
         NEW n \in Names, NEW s \in {"uploading", "ready"},
         table = FolderIDs => s = "ready",
         p # Root => row[p].state = "gone" \/ row[p].owner = u,
         Insert(table, u, p, n, s), UNCHANGED embedding
  PROVE  TablesHold' /\ RowsOnlyAge
<1> USE DEF TablesHold
<1> DEFINE x == NewID(table)
<1>1. /\ x \in table /\ x \in Items
      /\ row[x].state = "unused"
      /\ ~Live(x)
  BY NewIDUnused DEF Insert, Items, Live
<1>2. row' = [row EXCEPT ![x] = [state |-> s, owner |-> u, parent |-> p, name |-> n]]
  BY DEF Insert
<1> HIDE DEF x
<1>3. /\ \A i \in Items : i # x => row'[i] = row[i]
      /\ row'[x] = [state |-> s, owner |-> u, parent |-> p, name |-> n]
  BY <1>1, <1>2 DEF RowsTyped
<1>4. RowsTyped'
  BY <1>1, <1>2, IDAssumption DEF RowsTyped, Live, States, Items, Parents
<1>5. OwnTree'
  <2>1. \A i \in Items : Live(i)' => i = x \/ Live(i)
    BY <1>3 DEF Live
  <2>2. p # Root => p # x /\ Live(p) /\ row[p].owner = u /\ p \in Items
    BY <1>1 DEF Insert, ParentExists, Live, Parents, Items
  <2>3. \A i \in Items : Live(i) /\ row[i].parent # Root => row[i].parent # x /\ row[i].parent \in Items
    BY <1>1 DEF OwnTree, RowsTyped, Parents, Items
  <2>4. QED
    BY <1>3, <2>1, <2>2, <2>3 DEF OwnTree, Live
<1>6. UniqueNames'
  <2>1. \A i \in table : i # x /\ Live(i)' => ~(row[i].owner = u /\ row[i].parent = p /\ row[i].name = n)
    BY <1>3 DEF Insert, NameTaken, Live, Items
  <2>2. \A i \in Items : i # x => (Live(i)' <=> Live(i))
    BY <1>3 DEF Live
  <2>3. ASSUME NEW t \in {FolderIDs, FileIDs}, NEW i \in t, NEW j \in t, i # j, Live(i)', Live(j)',
               row'[i].owner = row'[j].owner, row'[i].parent = row'[j].parent
        PROVE  row'[i].name # row'[j].name
    <3>0. i \in Items /\ j \in Items
      BY DEF Items
    <3>1. CASE i # x /\ j # x
      BY <1>3, <2>2, <2>3, <3>0, <3>1 DEF UniqueNames
    <3>2. CASE i = x \/ j = x
      <4>1. t = table
        BY <3>2, <1>1, <2>3, IDAssumption
      <4>2. QED
        BY <3>0, <3>2, <4>1, <1>3, <2>1, <2>3
    <3>3. QED
      BY <3>1, <3>2
  <2>4. QED
    BY <2>3 DEF UniqueNames
<1>7. RowsOnlyAge
  BY <1>1, <1>3 DEF RowsOnlyAge, Live
<1>8. QED
  BY <1>4, <1>5, <1>6, <1>7

(* UpdateFileSizeAndStatus changes the status of a row that is there.      *)
LEMMA SetReadyHolds ==
  ASSUME TablesHold, NEW f \in FileIDs, SetReady(f), UNCHANGED embedding
  PROVE  TablesHold' /\ RowsOnlyAge
<1> USE DEF TablesHold
<1>1. f \in Items /\ f \notin FolderIDs
  BY IDAssumption DEF Items
<1>2. CASE ~Live(f)
  BY <1>2, TablesUnchanged DEF SetReady, tables
<1>3. CASE Live(f)
  <2>1. row' = [row EXCEPT ![f].state = "ready"]
    BY <1>3 DEF SetReady
  <2>2. /\ \A i \in Items : i # f => row'[i] = row[i]
        /\ row'[f] = [row[f] EXCEPT !.state = "ready"]
    BY <1>1, <2>1 DEF RowsTyped
  <2>3. \A i \in Items : /\ Live(i)' <=> Live(i)
                         /\ row'[i].owner = row[i].owner
                         /\ row'[i].parent = row[i].parent
                         /\ row'[i].name = row[i].name
    BY <1>1, <1>3, <2>2 DEF Live, RowsTyped
  <2>4. RowsTyped'
    <3>1. row' \in [Items -> [state : States, owner : Users \cup {NoUser}, parent : Parents,
                              name : Names \cup {<< >>}]]
      BY <1>1, <2>1 DEF RowsTyped, States
    <3>2. \A d \in FolderIDs : row'[d].state # "uploading"
      BY <1>1, <2>2 DEF RowsTyped, Items
    <3>3. QED
      BY <2>3, <3>1, <3>2 DEF RowsTyped
  <2>5. OwnTree'
    BY <2>3 DEF OwnTree, RowsTyped, Parents, Items
  <2>6. UniqueNames'
    BY <2>3 DEF UniqueNames, Items
  <2>7. RowsOnlyAge
    BY <1>3, <2>2, <2>3 DEF RowsOnlyAge, Live, RowsTyped
  <2>8. QED
    BY <2>4, <2>5, <2>6, <2>7
<1>4. QED
  BY <1>2, <1>3

(* A cascade takes the children of what it takes.                          *)
LEMMA SubtreeClosed ==
  ASSUME NEW f \in Items
  PROVE  f \in Subtree(f) /\ ClosedUnderChildren(Subtree(f))
BY DEF Subtree, ClosedUnderChildren

(* A cascade stays with one user: no item hangs below another's folder.    *)
LEMMA SubtreeOwned ==
  ASSUME RowsTyped, OwnTree, NEW f \in Items, Live(f)
  PROVE  \A i \in Subtree(f) : Live(i) => row[i].owner = row[f].owner
<1> DEFINE S == {i \in Items : Live(i) => row[i].owner = row[f].owner}
<1>1. f \in S /\ S \in SUBSET Items
  OBVIOUS
<1>2. Root \notin S
  BY IDAssumption
<1>3. ClosedUnderChildren(S)
  BY <1>2 DEF ClosedUnderChildren, OwnTree
<1>4. QED
  BY <1>1, <1>3 DEF Subtree

(* A DELETE of rows and everything below them leaves no child behind.      *)
LEMMA DropHolds ==
  ASSUME TablesHold, NEW S \in SUBSET Items, ClosedUnderChildren(S), Drop(S)
  PROVE  TablesHold' /\ RowsOnlyAge
<1> USE DEF TablesHold
<1>1. \A i \in Items : row'[i] = IF i \in S /\ Live(i) THEN NoRow("gone") ELSE row[i]
  BY DEF Drop
<1>2. \A i \in Items : Live(i)' <=> Live(i) /\ i \notin S
  BY <1>1 DEF Live, NoRow
<1>3. \A i \in Items : Live(i)' => row'[i] = row[i]
  BY <1>1, <1>2
<1>4. RowsTyped'
  <2>1. NoRow("gone") \in [state : States, owner : Users \cup {NoUser}, parent : Parents,
                           name : Names \cup {<< >>}]
    BY DEF NoRow, States, Parents
  <2>2. row' \in [Items -> [state : States, owner : Users \cup {NoUser}, parent : Parents,
                            name : Names \cup {<< >>}]]
    BY <2>1 DEF RowsTyped, Drop
  <2>3. \A d \in FolderIDs : row'[d].state # "uploading"
    BY <1>1 DEF RowsTyped, NoRow, Items
  <2>4. \A i \in Items : Live(i)' <=> row'[i].owner # NoUser
    BY <1>1, <1>2, <1>3 DEF RowsTyped, NoRow
  <2>5. embedding' \in [FileIDs -> Embeddings \cup {NoEmbedding}]
    BY DEF RowsTyped, Drop
  <2>6. QED
    BY <1>2, <1>3, <2>2, <2>3, <2>4, <2>5 DEF RowsTyped
<1>5. OwnTree'
  BY <1>2, <1>3 DEF OwnTree, ClosedUnderChildren, RowsTyped, Parents, Items
<1>6. UniqueNames'
  BY <1>2, <1>3 DEF UniqueNames, Items
<1>7. RowsOnlyAge
  BY <1>1 DEF RowsOnlyAge, NoRow, Live
<1>8. QED
  BY <1>4, <1>5, <1>6, <1>7

(* Files have no children.                                                 *)
LEMMA FilesClosed ==
  ASSUME RowsTyped, NEW S \in SUBSET FileIDs
  PROVE  S \in SUBSET Items /\ ClosedUnderChildren(S)
BY IDAssumption DEF ClosedUnderChildren, RowsTyped, Parents, Items

-----------------------------------------------------------------------------
(* The variables of request c.                                             *)
SameCall(c) ==
  /\ pc'[c] = pc[c]
  /\ who'[c] = who[c]
  /\ at'[c] = at[c]
  /\ title'[c] = title[c]
  /\ item'[c] = item[c]
  /\ shown'[c] = shown[c]
  /\ cut'[c] = cut[c]
  /\ known'[c] = known[c]

(* A request that waits keeps what it relies on, whoever else steps.       *)
LEMMA WaitingCallHolds ==
  ASSUME RowsTyped, CallsTyped, RowsOnlyAge, NEW c \in Calls, CallHolds(c), SameCall(c)
  PROVE  CallHolds(c)'
<1> USE DEF SameCall
<1>1. at[c] # Root => at[c] \in Items
  BY DEF CallsTyped, Parents, Items
<1>2. known[c] \subseteq Items /\ known[c] \subseteq FileIDs
  BY DEF CallsTyped, Items
<1>3. pc[c] \in {"insertFolder", "insertFile"} /\ at[c] # Root =>
        \/ row'[at[c]].state = "gone"
        \/ Live(at[c])' /\ row'[at[c]].owner = who[c]
  BY <1>1 DEF CallHolds, RowsOnlyAge, Live
<1>4. pc[c] = "listFiles" =>
        \A f \in known[c] : row'[f].state = "gone" \/ f \in ListFiles(who[c], at[c])'
  BY <1>2 DEF CallHolds, RowsOnlyAge, ListFiles
<1>5. QED
  BY <1>3, <1>4 DEF CallHolds

(* The end of a request leaves the others as they were.                    *)
LEMMA FinishHolds ==
  ASSUME TreeInv, TablesHold', RowsOnlyAge, NEW c \in Calls, Finish(c)
  PROVE  TreeInv'
<1> USE DEF TreeInv
<1>1. CallsTyped'
  BY DEF CallsTyped, Finish, CallPCs, Parents
<1>2. \A d \in Calls \ {c} : SameCall(d)
  BY DEF SameCall, CallsTyped, Finish
<1>3. CallHolds(c)'
  BY DEF CallHolds, CallsTyped, Finish
<1>4. QED
  BY <1>1, <1>2, <1>3, WaitingCallHolds DEF TablesHold

(* A step of no request.                                                   *)
LEMMA NoCallHolds ==
  ASSUME TreeInv, TablesHold', RowsOnlyAge, UNCHANGED callVars
  PROVE  TreeInv'
<1> USE DEF TreeInv
<1>1. CallsTyped'
  BY DEF CallsTyped, callVars
<1>2. \A d \in Calls : SameCall(d)
  BY DEF SameCall, callVars
<1>3. QED
  BY <1>1, <1>2, WaitingCallHolds DEF TablesHold

(* A writing request begins, under a folder it found to be its user's.     *)
LEMMA BeginWriteHolds ==
  ASSUME TreeInv, NEW c \in Calls, BeginCreateFolder(c) \/ BeginUpload(c)
  PROVE  TreeInv' /\ RowsOnlyAge
<1> USE DEF TreeInv
<1>1. PICK u \in Users, p \in Parents, n \in Names, next \in {"insertFolder", "insertFile"} :
        VerifyFolderOwnership(u, p) /\ Begin(c, next, u, p, n)
  BY DEF BeginCreateFolder, BeginUpload
<1>2. UNCHANGED <<tables, shown, cut, known, item>>
  BY DEF BeginCreateFolder, BeginUpload, Begin
<1>3. TablesHold' /\ RowsOnlyAge
  BY <1>2, TablesUnchanged DEF TablesHold
<1>4. CallsTyped'
  BY <1>1, <1>2 DEF CallsTyped, Begin, CallPCs
<1>5. \A d \in Calls \ {c} : SameCall(d)
  BY <1>1, <1>2 DEF SameCall, Begin, CallsTyped
<1>6. CallHolds(c)'
  <2>1. /\ pc'[c] = next /\ who'[c] = u /\ at'[c] = p /\ title'[c] = n
        /\ shown'[c] = {} /\ known'[c] = {}
    BY <1>1, <1>2 DEF Begin, CallsTyped, CallHolds
  <2>2. p # Root => Live(p)' /\ row'[p].owner = u
    BY <1>1, <1>2 DEF VerifyFolderOwnership, Live, tables
  <2>3. QED
    BY <2>1, <2>2 DEF CallHolds
<1>7. QED
  BY <1>3, <1>4, <1>5, <1>6, WaitingCallHolds DEF TablesHold

(* CreateFolder's INSERT.                                                  *)
LEMMA InsertFolderHolds ==
  ASSUME TreeInv, NEW c \in Calls, InsertFolder(c)
  PROVE  TreeInv' /\ RowsOnlyAge
<1> USE DEF TreeInv, InsertFolder
<1>1. /\ who[c] \in Users /\ title[c] \in Names /\ at[c] \in Parents
      /\ at[c] # Root => row[at[c]].state = "gone" \/ row[at[c]].owner = who[c]
  BY DEF CallHolds, CallsTyped
<1>2. TablesHold' /\ RowsOnlyAge
  BY <1>1, InsertHolds DEF TablesHold
<1>3. QED
  BY <1>2, FinishHolds

(* CreateFile's INSERT; the request goes on, or loses the answer.          *)
LEMMA CreateFileHolds ==
  ASSUME TreeInv, NEW c \in Calls, CreateFile(c)
  PROVE  TreeInv' /\ RowsOnlyAge
<1> USE DEF TreeInv, CreateFile
<1>1. /\ who[c] \in Users /\ title[c] \in Names /\ at[c] \in Parents
      /\ at[c] # Root => row[at[c]].state = "gone" \/ row[at[c]].owner = who[c]
  BY DEF CallHolds, CallsTyped
<1>2. TablesHold' /\ RowsOnlyAge
  <2>1. FileIDs = FolderIDs => "uploading" = "ready"
    BY NewIDUnused, IDAssumption DEF Insert
  <2>2. QED
    BY <1>1, <2>1, InsertHolds DEF TablesHold
<1>3. CASE Finish(c)
  BY <1>2, <1>3, FinishHolds
<1>4. CASE /\ pc' = [pc EXCEPT ![c] = "transfer"]
           /\ item' = [item EXCEPT ![c] = NewID(FileIDs)]
           /\ UNCHANGED <<who, at, title, shown, cut, known>>
  <2>1. NewID(FileIDs) \in FileIDs
    BY NewIDUnused DEF Insert
  <2>2. CallsTyped'
    BY <1>4, <2>1 DEF CallsTyped, CallPCs
  <2>3. \A d \in Calls \ {c} : SameCall(d)
    BY <1>4 DEF SameCall, CallsTyped
  <2>4. CallHolds(c)'
    BY <1>4, <2>1 DEF CallHolds, CallsTyped
  <2>5. QED
    BY <1>2, <2>2, <2>3, <2>4, WaitingCallHolds DEF TablesHold
<1>5. QED
  BY <1>3, <1>4

(* The chunks are stored and the file published, or not.                   *)
LEMMA TransferHolds ==
  ASSUME TreeInv, NEW c \in Calls, Publish(c) \/ TransferFails(c)
  PROVE  TreeInv' /\ RowsOnlyAge
<1> USE DEF TreeInv
<1>1. item[c] \in FileIDs
  BY DEF Publish, TransferFails, CallHolds
<1>2. TablesHold' /\ RowsOnlyAge
  BY <1>1, SetReadyHolds, TablesUnchanged DEF Publish, TransferFails, TablesHold, tables
<1>3. CASE Publish(c)
  BY <1>2, <1>3, FinishHolds DEF Publish
<1>4. CASE TransferFails(c)
  <2>1. CallsTyped'
    BY <1>4 DEF TransferFails, CallsTyped, CallPCs
  <2>2. \A d \in Calls \ {c} : SameCall(d)
    BY <1>4 DEF TransferFails, SameCall, CallsTyped
  <2>3. CallHolds(c)'
    BY <1>1, <1>4 DEF TransferFails, CallHolds, CallsTyped
  <2>4. QED
    BY <1>2, <2>1, <2>2, <2>3, WaitingCallHolds DEF TablesHold
<1>5. QED
  BY <1>3, <1>4

(* Every DELETE: abandonUpload, DeleteFile, DeleteFolder, the sweep.       *)
LEMMA DeleteHolds ==
  ASSUME TreeInv,
         \/ \E c \in Calls : AbandonUpload(c)
         \/ \E u \in Users, f \in FileIDs : DeleteFile(u, f)
         \/ \E u \in Users, f \in FolderIDs : DeleteFolder(u, f)
         \/ \E S \in SUBSET FileIDs : Sweep(S)
  PROVE  TreeInv' /\ RowsOnlyAge
<1> USE DEF TreeInv
<1>1. ASSUME NEW c \in Calls, AbandonUpload(c)
      PROVE  TreeInv' /\ RowsOnlyAge
  <2>1. {item[c]} \in SUBSET FileIDs
    BY <1>1 DEF AbandonUpload, CallHolds
  <2>2. TablesHold' /\ RowsOnlyAge
    BY <1>1, <2>1, FilesClosed, DropHolds, TablesUnchanged DEF AbandonUpload, TablesHold
  <2>3. QED
    BY <1>1, <2>2, FinishHolds DEF AbandonUpload
<1>2. ASSUME NEW u \in Users, NEW f \in FileIDs, DeleteFile(u, f)
      PROVE  TreeInv' /\ RowsOnlyAge
  <2>1. {f} \in SUBSET FileIDs
    OBVIOUS
  <2>2. TablesHold' /\ RowsOnlyAge
    BY <1>2, <2>1, FilesClosed, DropHolds DEF DeleteFile, TablesHold
  <2>3. QED
    BY <1>2, <2>2, NoCallHolds DEF DeleteFile
<1>3. ASSUME NEW u \in Users, NEW f \in FolderIDs, DeleteFolder(u, f)
      PROVE  TreeInv' /\ RowsOnlyAge
  <2>1. Subtree(f) \in SUBSET Items /\ ClosedUnderChildren(Subtree(f))
    BY SubtreeClosed DEF Items, Subtree
  <2>2. TablesHold' /\ RowsOnlyAge
    BY <1>3, <2>1, DropHolds DEF DeleteFolder, TablesHold
  <2>3. QED
    BY <1>3, <2>2, NoCallHolds DEF DeleteFolder
<1>4. ASSUME NEW S \in SUBSET FileIDs, Sweep(S)
      PROVE  TreeInv' /\ RowsOnlyAge
  <2>1. TablesHold' /\ RowsOnlyAge
    BY <1>4, FilesClosed, DropHolds DEF Sweep, TablesHold
  <2>2. QED
    BY <1>4, <2>1, NoCallHolds DEF Sweep
<1>5. QED
  BY <1>1, <1>2, <1>3, <1>4

(* The worker's SaveEmbedding touches no row.                              *)
LEMMA SaveEmbeddingHolds ==
  ASSUME TreeInv, NEW f \in FileIDs, SaveEmbedding(f)
  PROVE  TreeInv' /\ RowsOnlyAge
<1> USE DEF TreeInv, SaveEmbedding
<1>1. RowsTyped'
  BY DEF RowsTyped, Live
<1>2. OwnTree' /\ UniqueNames' /\ RowsOnlyAge
  BY DEF OwnTree, UniqueNames, RowsOnlyAge, Live
<1>3. QED
  BY <1>1, <1>2, NoCallHolds DEF TablesHold

(* An answer is a set of rows the query found.                             *)
LEMMA AnswerTyped ==
  ASSUME CallsTyped, NEW c \in Calls, NEW all \in SUBSET Items, NEW more \in BOOLEAN,
         Answer(c, all, more)
  PROVE  /\ shown' \in [Calls -> SUBSET Items]
         /\ cut' \in [Calls -> BOOLEAN]
         /\ \A d \in Calls \ {c} : shown'[d] = shown[d] /\ cut'[d] = cut[d]
         /\ shown'[c] \subseteq shown[c] \cup all
         /\ ~cut'[c] => ~more /\ shown'[c] = shown[c] \cup all
<1>1. PICK some \in SUBSET all, b \in BOOLEAN :
        /\ shown' = [shown EXCEPT ![c] = @ \cup some]
        /\ cut' = [cut EXCEPT ![c] = b]
        /\ ~b => ~more /\ some = all
  <2>1. CASE shown' = [shown EXCEPT ![c] = @ \cup all] /\ cut' = [cut EXCEPT ![c] = @ \/ more]
    <3>1. (cut[c] \/ more) \in BOOLEAN /\ all \in SUBSET all
      OBVIOUS
    <3>2. ~(cut[c] \/ more) => ~more /\ all = all
      OBVIOUS
    <3>3. QED
      BY <2>1, <3>1, <3>2
  <2>2. CASE \E some \in SUBSET all \ {all} :
               shown' = [shown EXCEPT ![c] = @ \cup some] /\ cut' = [cut EXCEPT ![c] = TRUE]
    BY <2>2
  <2>3. QED
    BY <2>1, <2>2 DEF Answer
<1>2. QED
  BY <1>1 DEF CallsTyped

(* ListDirectory's two statements, a search, and the end of a response.    *)
LEMMA ReadHolds ==
  ASSUME TreeInv, NEW c \in Calls,
         BeginListing(c) \/ FinishListing(c) \/ BeginSearch(c) \/ Read(c)
  PROVE  TreeInv' /\ RowsOnlyAge
<1> USE DEF TreeInv
<1>0. UNCHANGED tables
  BY DEF BeginListing, FinishListing, BeginSearch, Read
<1>1. TablesHold' /\ RowsOnlyAge
  BY <1>0, TablesUnchanged DEF TablesHold
<1>2. CASE BeginListing(c)
  <2>1. PICK u \in Users, p \in Parents :
          /\ Begin(c, "listFiles", u, p, << >>)
          /\ Answer(c, ListFolders(u, p), FALSE)
          /\ known' = [known EXCEPT ![c] = ListFiles(u, p)]
    BY <1>2 DEF BeginListing
  <2>2. ListFolders(u, p) \in SUBSET Items /\ ListFiles(u, p) \in SUBSET FileIDs
    BY DEF ListFolders, ListFiles, Items
  <2>3. /\ shown' \in [Calls -> SUBSET Items]
        /\ cut' \in [Calls -> BOOLEAN]
        /\ \A d \in Calls \ {c} : shown'[d] = shown[d] /\ cut'[d] = cut[d]
    BY <2>1, <2>2, AnswerTyped
  <2>4. CallsTyped'
    BY <2>1, <2>2, <2>3 DEF CallsTyped, Begin, CallPCs
  <2>5. \A d \in Calls \ {c} : SameCall(d)
    BY <2>1, <2>3 DEF SameCall, Begin, CallsTyped
  <2>6. CallHolds(c)'
    <3>1. /\ pc'[c] = "listFiles" /\ who'[c] = u /\ at'[c] = p /\ title'[c] = << >>
          /\ known'[c] = ListFiles(u, p)
      BY <2>1 DEF Begin, CallsTyped
    <3>2. ListFiles(u, p)' = ListFiles(u, p)
      BY <1>0 DEF ListFiles, tables
    <3>3. QED
      BY <3>1, <3>2 DEF CallHolds
  <2>7. QED
    BY <1>0, <1>1, <2>4, <2>5, <2>6, WaitingCallHolds DEF TablesHold
<1>3. CASE FinishListing(c)
  <2>1. ListFiles(who[c], at[c]) \in SUBSET Items
    BY DEF ListFiles, Items
  <2>2. Answer(c, ListFiles(who[c], at[c]), FALSE)
    BY <1>3 DEF FinishListing
  <2>3. /\ shown' \in [Calls -> SUBSET Items]
        /\ cut' \in [Calls -> BOOLEAN]
        /\ \A d \in Calls \ {c} : shown'[d] = shown[d] /\ cut'[d] = cut[d]
    BY <2>1, <2>2, AnswerTyped
  <2>4. CallsTyped'
    BY <1>3, <2>3 DEF CallsTyped, FinishListing, CallPCs
  <2>5. \A d \in Calls \ {c} : SameCall(d)
    BY <1>3, <2>3 DEF SameCall, FinishListing, CallsTyped
  <2>6. CallHolds(c)'
    BY <1>3 DEF CallHolds, FinishListing, CallsTyped
  <2>7. QED
    BY <1>0, <1>1, <2>4, <2>5, <2>6, WaitingCallHolds DEF TablesHold
<1>4. CASE BeginSearch(c)
  <2>1. PICK u \in Users, term \in Queries : Begin(c, "answered", u, Root, term)
    BY <1>4 DEF BeginSearch
  <2>2. /\ shown' \in [Calls -> SUBSET Items]
        /\ cut' \in [Calls -> BOOLEAN]
        /\ known' \in [Calls -> SUBSET FileIDs]
        /\ \A d \in Calls \ {c} : shown'[d] = shown[d] /\ cut'[d] = cut[d] /\ known'[d] = known[d]
    <3>1. CASE UNCHANGED <<shown, cut, known>>
      BY <3>1 DEF CallsTyped
    <3>2. CASE \E T \in SUBSET FileIDs, K \in SUBSET FileIDs, more \in BOOLEAN :
                 Answer(c, T, more) /\ known' = [known EXCEPT ![c] = K]
      <4>1. PICK T \in SUBSET FileIDs, K \in SUBSET FileIDs, more \in BOOLEAN :
              Answer(c, T, more) /\ known' = [known EXCEPT ![c] = K]
        BY <3>2
      <4>2. T \in SUBSET Items
        BY DEF Items
      <4>3. /\ shown' \in [Calls -> SUBSET Items]
            /\ cut' \in [Calls -> BOOLEAN]
            /\ \A d \in Calls \ {c} : shown'[d] = shown[d] /\ cut'[d] = cut[d]
        BY <4>1, <4>2, AnswerTyped
      <4>4. QED
        BY <4>1, <4>3 DEF CallsTyped
    <3>3. QED
      BY <1>4, <3>1, <3>2 DEF BeginSearch, Limited, SearchFiles
  <2>3. CallsTyped'
    BY <2>1, <2>2 DEF CallsTyped, Begin, CallPCs, Parents
  <2>4. \A d \in Calls \ {c} : SameCall(d)
    BY <2>1, <2>2 DEF SameCall, Begin, CallsTyped
  <2>5. CallHolds(c)'
    BY <2>1 DEF CallHolds, Begin, CallsTyped
  <2>6. QED
    BY <1>0, <1>1, <2>3, <2>4, <2>5, WaitingCallHolds DEF TablesHold
<1>5. CASE Read(c)
  BY <1>0, <1>1, <1>5, FinishHolds DEF Read
<1>6. QED
  BY <1>2, <1>3, <1>4, <1>5

(* A request is refused by the database, or its process dies.              *)
LEMMA FailHolds ==
  ASSUME TreeInv, NEW c \in Calls, InsertFails(c) \/ Crash(c)
  PROVE  TreeInv' /\ RowsOnlyAge
<1>1. UNCHANGED tables /\ Finish(c)
  BY DEF InsertFails, Crash
<1>2. TablesHold' /\ RowsOnlyAge
  BY <1>1, TablesUnchanged DEF TablesHold, TreeInv
<1>3. QED
  BY <1>1, <1>2, FinishHolds

(* Every step preserves the tree, and rows only age.                       *)
LEMMA TreeStep ==
  ASSUME TreeInv, [DirectoryNext]_directoryVars
  PROVE  TreeInv' /\ RowsOnlyAge
<1>1. CASE UNCHANGED directoryVars
  <2>1. UNCHANGED tables /\ UNCHANGED callVars
    BY <1>1 DEF directoryVars, callVars, tables
  <2>2. TablesHold' /\ RowsOnlyAge
    BY <2>1, TablesUnchanged DEF TablesHold, TreeInv
  <2>3. QED
    BY <2>1, <2>2, NoCallHolds
<1>2. ASSUME NEW c \in Writers,
             \/ BeginCreateFolder(c) \/ InsertFolder(c) \/ InsertFails(c)
             \/ BeginUpload(c) \/ CreateFile(c) \/ Publish(c) \/ TransferFails(c) \/ AbandonUpload(c)
      PROVE  TreeInv' /\ RowsOnlyAge
  <2>1. c \in Calls
    BY DEF Calls
  <2>2. QED
    BY <1>2, <2>1, BeginWriteHolds, InsertFolderHolds, CreateFileHolds, TransferHolds, DeleteHolds,
       FailHolds
<1>3. ASSUME NEW c \in Readers,
             BeginListing(c) \/ FinishListing(c) \/ BeginSearch(c) \/ Read(c)
      PROVE  TreeInv' /\ RowsOnlyAge
  <2>1. c \in Calls
    BY DEF Calls
  <2>2. QED
    BY <1>3, <2>1, ReadHolds
<1>4. QED
  BY <1>1, <1>2, <1>3, FailHolds, DeleteHolds, SaveEmbeddingHolds DEF DirectoryNext

-----------------------------------------------------------------------------
(* Tables and requests keep their types, the directory of every user is a  *)
(* tree of his own (VerifyFolderOwnership, the foreign keys, ON DELETE     *)
(* CASCADE), and no directory has a name twice (the unique indexes).       *)
THEOREM TreeHolds == DirectorySpec => [](DirectoryTypeOK /\ OwnTree /\ UniqueNames)
<1>1. TreeInv => DirectoryTypeOK /\ OwnTree /\ UniqueNames
  BY DEF TreeInv, RowsTyped, CallsTyped, DirectoryTypeOK
<1>2. QED
  BY <1>1, InitTree, TreeStep, PTL DEF DirectorySpec

(* Nobody loses a published file but by his own request: not through a     *)
(* cascade that starts in another user's folder, not through a sweep.      *)
THEOREM OwnersRemove == DirectorySpec => OnlyOwnersRemove
<1>1. ASSUME TreeInv, [DirectoryNext]_directoryVars, NEW f \in FileIDs,
             row[f].state = "ready", row'[f].state # "ready"
      PROVE  \/ DeleteFile(row[f].owner, f)
             \/ \E d \in FolderIDs : DeleteFolder(row[f].owner, d)
             \/ \E c \in Writers : AbandonUpload(c) /\ item[c] = f
  <2>0. f \in Items /\ Live(f)
    BY <1>1 DEF Items, Live
  <2>1. row' # row
    BY <1>1
  <2>2. ASSUME NEW table \in {FolderIDs, FileIDs}, NEW u, NEW p, NEW n, NEW s,
               Insert(table, u, p, n, s)
        PROVE  FALSE
    BY <1>1, <2>0, <2>2, NewIDUnused DEF Insert, TreeInv, RowsTyped, Items
  <2>3. ASSUME NEW g \in FileIDs, SetReady(g)
        PROVE  FALSE
    BY <1>1, <2>0, <2>3 DEF SetReady, TreeInv, RowsTyped, Items
  <2>4. ASSUME NEW S, Drop(S)
        PROVE  f \in S
    BY <1>1, <2>0, <2>4 DEF Drop
  <2>5. ASSUME NEW u \in Users, NEW g \in FileIDs, DeleteFile(u, g)
        PROVE  DeleteFile(row[f].owner, f)
    <3>1. f = g
      BY <2>4, <2>5 DEF DeleteFile
    <3>2. QED
      BY <2>5, <3>1 DEF DeleteFile
  <2>6. ASSUME NEW u \in Users, NEW d \in FolderIDs, DeleteFolder(u, d)
        PROVE  DeleteFolder(row[f].owner, d)
    <3>1. f \in Subtree(d)
      BY <2>4, <2>6 DEF DeleteFolder
    <3>2. d \in Items /\ Live(d) /\ row[d].owner = u
      BY <2>6 DEF DeleteFolder, Items
    <3>3. row[f].owner = u
      BY <1>1, <2>0, <3>1, <3>2, SubtreeOwned DEF TreeInv
    <3>4. QED
      BY <2>6, <3>3
  <2>7. ASSUME NEW S \in SUBSET FileIDs, Sweep(S)
        PROVE  FALSE
    BY <1>1, <2>4, <2>7 DEF Sweep, Unfinished
  <2>8. ASSUME NEW c \in Writers, AbandonUpload(c)
        PROVE  item[c] = f
    BY <2>1, <2>4, <2>8 DEF AbandonUpload, tables
  <2>9. ASSUME NEW c \in Writers, InsertFolder(c) \/ CreateFile(c)
        PROVE  FALSE
    BY <2>2, <2>9 DEF InsertFolder, CreateFile
  <2>10. ASSUME NEW c \in Writers, Publish(c) \/ TransferFails(c)
         PROVE  FALSE
    <3>1. item[c] \in FileIDs
      BY <1>1, <2>10 DEF Publish, TransferFails, TreeInv, CallHolds, Calls
    <3>2. QED
      BY <2>1, <2>3, <2>10, <3>1 DEF Publish, TransferFails
  <2>11. ~UNCHANGED tables
    BY <2>1 DEF tables
  <2>12. ASSUME NEW c \in Writers
         PROVE  ~BeginCreateFolder(c) /\ ~BeginUpload(c) /\ ~InsertFails(c)
    BY <2>11 DEF BeginCreateFolder, BeginUpload, InsertFails
  <2>13. ASSUME NEW c \in Readers
         PROVE  ~BeginListing(c) /\ ~FinishListing(c) /\ ~BeginSearch(c) /\ ~Read(c)
    BY <2>11 DEF BeginListing, FinishListing, BeginSearch, Read
  <2>14. /\ \A c \in Calls : ~Crash(c)
         /\ \A g \in FileIDs : ~SaveEmbedding(g)
         /\ ~UNCHANGED directoryVars
    BY <2>1, <2>11 DEF Crash, SaveEmbedding, directoryVars, tables
  <2>15. QED
    BY <1>1, <2>5, <2>6, <2>7, <2>8, <2>9, <2>10, <2>12, <2>13, <2>14 DEF DirectoryNext
<1>2. TreeInv /\ [DirectoryNext]_directoryVars =>
        [\A f \in FileIDs :
           row[f].state = "ready" /\ row'[f].state # "ready" =>
             \/ DeleteFile(row[f].owner, f)
             \/ \E d \in FolderIDs : DeleteFolder(row[f].owner, d)
             \/ \E c \in Writers : AbandonUpload(c) /\ item[c] = f]_directoryVars
  BY <1>1
<1>3. QED
  BY <1>2, InitTree, TreeStep, PTL DEF DirectorySpec, OnlyOwnersRemove

-----------------------------------------------------------------------------
(* AnswersAreTrue, for one request.                                        *)
AnswerTrue(c) ==
  pc[c] \in {"listFiles", "answered"} =>
    /\ \A i \in shown[c] :
         \/ row[i].state = "gone"
         \/ /\ row[i].state = "ready"
            /\ row[i].owner = who[c]
            /\ title[c] = << >> => row[i].parent = at[c]
    /\ pc[c] = "answered" /\ ~cut[c] =>
         \A f \in known[c] : f \in shown[c] \/ row[f].state = "gone"

(* An answer under way stays true: what it shows only goes.                *)
LEMMA WaitingAnswerTrue ==
  ASSUME CallsTyped, RowsOnlyAge, NEW c \in Calls, AnswerTrue(c), SameCall(c)
  PROVE  AnswerTrue(c)'
<1>1. shown[c] \subseteq Items /\ known[c] \subseteq Items
  BY DEF CallsTyped, Items
<1>2. QED
  BY <1>1 DEF AnswerTrue, SameCall, RowsOnlyAge

(* A step changes no other request than its own, and only three actions    *)
(* make an answer.                                                         *)
LEMMA WhoAnswers ==
  ASSUME TreeInv, [DirectoryNext]_directoryVars, NEW c \in Calls
  PROVE  \/ SameCall(c)
         \/ pc'[c] \notin {"listFiles", "answered"}
         \/ BeginListing(c) \/ FinishListing(c) \/ BeginSearch(c)
<1> USE DEF TreeInv
<1>1. ASSUME UNCHANGED callVars
      PROVE  SameCall(c)
  BY <1>1 DEF callVars, SameCall
<1>2. ASSUME NEW d \in Calls, Finish(d)
      PROVE  SameCall(c) \/ pc'[c] \notin {"listFiles", "answered"}
  BY <1>2 DEF Finish, SameCall, CallsTyped
<1>3. ASSUME NEW d \in Calls, BeginCreateFolder(d) \/ BeginUpload(d)
      PROVE  SameCall(c) \/ pc'[c] \notin {"listFiles", "answered"}
  BY <1>3 DEF BeginCreateFolder, BeginUpload, Begin, SameCall, CallsTyped
<1>4. ASSUME NEW d \in Calls, CreateFile(d) \/ TransferFails(d)
      PROVE  SameCall(c) \/ pc'[c] \notin {"listFiles", "answered"}
  <2>1. CASE Finish(d)
    BY <1>2, <2>1
  <2>2. CASE ~Finish(d)
    BY <1>4, <2>2 DEF CreateFile, TransferFails, SameCall, CallsTyped
  <2>3. QED
    BY <2>1, <2>2
<1>5. ASSUME NEW d \in Calls, BeginListing(d) \/ FinishListing(d) \/ BeginSearch(d), d # c
      PROVE  SameCall(c)
  <2>1. /\ pc'[c] = pc[c] /\ who'[c] = who[c] /\ at'[c] = at[c]
        /\ title'[c] = title[c] /\ item'[c] = item[c]
    BY <1>5 DEF BeginListing, FinishListing, BeginSearch, Begin, CallsTyped
  <2>2. known'[c] = known[c]
    BY <1>5 DEF BeginListing, FinishListing, BeginSearch, CallsTyped
  <2>3. shown'[c] = shown[c] /\ cut'[c] = cut[c]
    <3>1. ASSUME NEW all, NEW more, Answer(d, all, more)
          PROVE  shown'[c] = shown[c] /\ cut'[c] = cut[c]
      BY <1>5, <3>1 DEF Answer, CallsTyped
    <3>2. QED
      BY <1>5, <3>1 DEF BeginListing, FinishListing, BeginSearch
  <2>4. QED
    BY <2>1, <2>2, <2>3 DEF SameCall
<1>6. \A d \in Writers \cup Readers : d \in Calls
  BY DEF Calls
<1>7. ASSUME NEW d \in Calls,
             InsertFolder(d) \/ InsertFails(d) \/ Publish(d) \/ AbandonUpload(d) \/ Crash(d) \/ Read(d)
      PROVE  SameCall(c) \/ pc'[c] \notin {"listFiles", "answered"}
  <2>1. Finish(d)
    BY <1>7 DEF InsertFolder, InsertFails, Publish, AbandonUpload, Crash, Read
  <2>2. QED
    BY <1>2, <2>1
<1>8. ASSUME \/ \E u \in Users : \/ \E f \in FolderIDs : DeleteFolder(u, f)
                                 \/ \E f \in FileIDs : DeleteFile(u, f)
             \/ \E S \in SUBSET FileIDs : Sweep(S)
             \/ \E f \in FileIDs : SaveEmbedding(f)
             \/ UNCHANGED directoryVars
      PROVE  SameCall(c)
  <2>1. UNCHANGED callVars
    BY <1>8 DEF DeleteFolder, DeleteFile, Sweep, SaveEmbedding, directoryVars, callVars
  <2>2. QED
    BY <1>1, <2>1
<1>9. QED
  BY <1>3, <1>4, <1>5, <1>6, <1>7, <1>8 DEF DirectoryNext

(* A listing shows only what is in the folder it was asked for, and        *)
(* nothing that was there all the time is missing from a whole one.        *)
LEMMA ListingTrue ==
  ASSUME TreeInv, NEW c \in Calls, AnswerTrue(c), BeginListing(c) \/ FinishListing(c)
  PROVE  AnswerTrue(c)'
<1> USE DEF TreeInv
<1>1. CASE BeginListing(c)
  <2>1. PICK u \in Users, p \in Parents :
          Begin(c, "listFiles", u, p, << >>) /\ Answer(c, ListFolders(u, p), FALSE)
    BY <1>1 DEF BeginListing
  <2>2. ListFolders(u, p) \in SUBSET Items
    BY DEF ListFolders, Items
  <2>3. shown'[c] \subseteq shown[c] \cup ListFolders(u, p)
    BY <2>1, <2>2, AnswerTyped
  <2>4. shown[c] = {} /\ pc'[c] = "listFiles" /\ who'[c] = u /\ at'[c] = p
    BY <2>1 DEF Begin, CallsTyped, CallHolds
  <2>5. \A i \in ListFolders(u, p) :
          row'[i].state = "ready" /\ row'[i].owner = u /\ row'[i].parent = p
    BY <1>1 DEF BeginListing, tables, ListFolders, Live, RowsTyped
  <2>6. QED
    BY <2>3, <2>4, <2>5 DEF AnswerTrue
<1>2. CASE FinishListing(c)
  <2>1. ListFiles(who[c], at[c]) \in SUBSET Items
    BY DEF ListFiles, Items
  <2>2. Answer(c, ListFiles(who[c], at[c]), FALSE)
    BY <1>2 DEF FinishListing
  <2>3. /\ shown'[c] \subseteq shown[c] \cup ListFiles(who[c], at[c])
        /\ ~cut'[c] => shown'[c] = shown[c] \cup ListFiles(who[c], at[c])
    BY <2>1, <2>2, AnswerTyped
  <2>4. /\ pc[c] = "listFiles" /\ pc'[c] = "answered"
        /\ who'[c] = who[c] /\ at'[c] = at[c] /\ title'[c] = title[c] /\ known'[c] = known[c]
        /\ row' = row
    BY <1>2 DEF FinishListing, tables, CallsTyped
  <2>5. \A i \in ListFiles(who[c], at[c]) :
          row[i].state = "ready" /\ row[i].owner = who[c] /\ row[i].parent = at[c]
    BY DEF ListFiles
  <2>6. \A f \in known[c] : row[f].state = "gone" \/ f \in ListFiles(who[c], at[c])
    BY <2>4 DEF CallHolds
  <2>7. \A i \in shown'[c] : \/ row'[i].state = "gone"
                             \/ /\ row'[i].state = "ready"
                                /\ row'[i].owner = who'[c]
                                /\ title'[c] = << >> => row'[i].parent = at'[c]
    BY <2>3, <2>4, <2>5 DEF AnswerTrue
  <2>8. ~cut'[c] => \A f \in known'[c] : f \in shown'[c] \/ row'[f].state = "gone"
    BY <2>3, <2>4, <2>6
  <2>9. QED
    BY <2>4, <2>7, <2>8 DEF AnswerTrue
<1>3. QED
  BY <1>1, <1>2

(* The pattern of a term matches the texts in which the term occurs.       *)
LEMMA FoundWhereItOccurs == FoundIn = OccursIn
<1>1. FileTexts \subseteq Seq(Chars)
  <2>1. SUFFICES ASSUME NEW m \in 0 .. MaxText, NEW text \in [1 .. m -> Chars]
                 PROVE  text \in Seq(Chars)
    BY DEF FileTexts, BoundedSeq, SeqOf, Chars
  <2>2. m \in Nat
    BY LimitAssumption
  <2>3. QED
    BY <2>2
<1>2. Queries \subseteq Seq(Chars)
  BY TextAssumption DEF Chars
<1>3. \A term \in Queries, text \in FileTexts : Finds(text, term) <=> Literally(text, term)
  BY <1>1, <1>2, TermsAreLiteral
<1>4. QED
  BY <1>3 DEF FoundIn, OccursIn

(* SearchFiles shows the user's own published files, and all of them that  *)
(* have the term in their name unless the LIMIT or a broken read cut it.   *)
LEMMA SearchTrue ==
  ASSUME TreeInv, NEW c \in Calls, BeginSearch(c)
  PROVE  AnswerTrue(c)'
<1> USE DEF TreeInv
<1>1. PICK u \in Users, term \in Queries :
        /\ Begin(c, "answered", u, Root, term)
        /\ IF term = << >> THEN UNCHANGED <<shown, cut, known>>
           ELSE /\ \E T \in Limited(SearchFiles(u, term)) : Answer(c, T, T # SearchFiles(u, term))
                /\ known' = [known EXCEPT ![c] =
                               {f \in FileIDs : /\ row[f].state = "ready"
                                                /\ row[f].owner = u
                                                /\ Literally(row[f].name, term)}]
  BY DEF BeginSearch
<1>2. /\ shown[c] = {} /\ known[c] = {} /\ row' = row
      /\ pc'[c] = "answered" /\ who'[c] = u /\ title'[c] = term
  BY <1>1 DEF BeginSearch, tables, Begin, CallsTyped, CallHolds
<1>3. CASE term = << >>
  BY <1>1, <1>2, <1>3 DEF AnswerTrue
<1>4. CASE term # << >>
  <2>1. PICK T \in Limited(SearchFiles(u, term)) : Answer(c, T, T # SearchFiles(u, term))
    BY <1>1, <1>4
  <2>2. T \subseteq SearchFiles(u, term) /\ T \in SUBSET Items
    BY DEF Limited, SearchFiles, Items
  <2>3. /\ shown'[c] \subseteq shown[c] \cup T
        /\ ~cut'[c] => T = SearchFiles(u, term) /\ shown'[c] = shown[c] \cup T
    <3>1. (T # SearchFiles(u, term)) \in BOOLEAN
      OBVIOUS
    <3>2. QED
      BY <2>1, <2>2, <3>1, AnswerTyped
  <2>4. \A f \in SearchFiles(u, term) : row[f].state = "ready" /\ row[f].owner = u
    BY DEF SearchFiles
  <2>5. \A f \in known'[c] : f \in SearchFiles(u, term)
    <3>1. SUFFICES ASSUME NEW f \in FileIDs, row[f].state = "ready", row[f].owner = u,
                          Literally(row[f].name, term)
                   PROVE  f \in SearchFiles(u, term)
      BY <1>1, <1>4 DEF CallsTyped
    <3>2. row[f].name \in Seq(Chars) /\ term \in Seq(Chars)
      BY <3>1, TextAssumption DEF RowsTyped, Live, Items, Chars
    <3>3. Finds(row[f].name, term)
      BY <3>1, <3>2, TermsAreLiteral
    <3>4. QED
      BY <3>1, <3>3 DEF SearchFiles, Matches
  <2>6. QED
    BY <1>2, <1>4, <2>2, <2>3, <2>4, <2>5 DEF AnswerTrue
<1>5. QED
  BY <1>3, <1>4

(* Listings and searches show only what belongs to the caller and was      *)
(* published, and a whole answer misses no file that was there all along,  *)
(* whatever happens between the statements of ListDirectory and whatever   *)
(* characters a search term has.                                           *)
THEOREM AnswersHold == DirectorySpec => []AnswersAreTrue
<1> DEFINE Answers == \A c \in Calls : AnswerTrue(c)
<1>1. DirectoryInit => Answers
  BY DEF DirectoryInit, AnswerTrue
<1>2. TreeInv /\ Answers /\ [DirectoryNext]_directoryVars => Answers'
  <2> SUFFICES ASSUME TreeInv, Answers, [DirectoryNext]_directoryVars, NEW c \in Calls
               PROVE  AnswerTrue(c)'
    OBVIOUS
  <2>1. RowsOnlyAge
    BY TreeStep
  <2>2. CASE SameCall(c)
    BY <2>1, <2>2, WaitingAnswerTrue DEF TreeInv
  <2>3. CASE pc'[c] \notin {"listFiles", "answered"}
    BY <2>3 DEF AnswerTrue
  <2>4. CASE BeginListing(c) \/ FinishListing(c)
    BY <2>4, ListingTrue
  <2>5. CASE BeginSearch(c)
    BY <2>5, SearchTrue
  <2>6. QED
    BY <2>2, <2>3, <2>4, <2>5, WhoAnswers
<1>3. Answers => AnswersAreTrue
  BY DEF AnswerTrue, AnswersAreTrue
<1>4. QED
  BY <1>1, <1>2, <1>3, InitTree, TreeStep, PTL DEF DirectorySpec

(* Every search that was answered took its term literally: escaped by      *)
(* likePatternEscaper and between two wildcards it matches, with ILIKE,    *)
(* the texts that contain it, and no bound on their length matters.        *)
THEOREM SearchHolds == DirectorySpec => []SearchIsLiteral
<1>1. SearchIsLiteral
  BY FoundWhereItOccurs DEF SearchIsLiteral
<1>2. QED
  BY <1>1, PTL
=============================================================================
