---------------------------- MODULE FileCatalog ----------------------------
(***************************************************************************)
(* What the storage service promises about the files a user can see,       *)
(* stated without chunks in flight, transactions, locks or the garbage     *)
(* collector: a file becomes visible in one step, carrying exactly the     *)
(* content that was uploaded, does not change while it is visible, and     *)
(* never comes back once it is gone.  Storage implements this module.      *)
(***************************************************************************)
EXTENDS Naturals, Sequences

CONSTANTS Files,   \* the identifiers of file rows
          Hashes   \* the contents of chunks, named by their SHA-256

VARIABLES request, \* request[f]: the sequence of chunk hashes f's upload carries
          status,  \* "hidden" (not yet, or not any more, an answer to a read), "visible", "gone"
          body     \* body[f]: the indexed chunks a reader of f finds

catalogVars == <<request, status, body>>

(* The indexed chunks of a file whose content is the sequence s; indices   *)
(* count from 0, as chunk_index does.                                      *)
Body(s) == {<<i - 1, s[i]>> : i \in 1..Len(s)}

CatalogInit ==
  /\ request \in [Files -> Seq(Hashes)]
  /\ status = [f \in Files |-> "hidden"]
  /\ body = [f \in Files |-> {}]

(* The whole content appears at once.                                      *)
Publish(f) ==
  /\ status[f] = "hidden"
  /\ status' = [status EXCEPT ![f] = "visible"]
  /\ body' = [body EXCEPT ![f] = Body(request[f])]
  /\ UNCHANGED request

(* The whole content disappears at once.                                   *)
Remove(f) ==
  /\ status[f] = "visible"
  /\ status' = [status EXCEPT ![f] = "gone"]
  /\ body' = [body EXCEPT ![f] = {}]
  /\ UNCHANGED request

(* Uploads that will never be seen are given up, several at a time.        *)
Discard(F) ==
  /\ \A f \in F : status[f] = "hidden"
  /\ status' = [f \in Files |-> IF f \in F THEN "gone" ELSE status[f]]
  /\ UNCHANGED <<request, body>>

CatalogNext ==
  \/ \E f \in Files : Publish(f) \/ Remove(f)
  \/ \E F \in SUBSET Files : Discard(F)

CatalogSpec == CatalogInit /\ [][CatalogNext]_catalogVars
=============================================================================
