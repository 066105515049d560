------------------------------ MODULE AgeFloor ------------------------------
(***************************************************************************)
(* Storage with one history variable: the chunks that have been without a  *)
(* reference for a whole minAge.  GetOrphanedChunks compares created_at    *)
(* with the cutoff, and no column says when the last reference went.       *)
(***************************************************************************)
EXTENDS Storage

VARIABLE rested  \* live rows without a reference since before the last minAge

ageVars == <<vars, rested>>

AgeInit == Init /\ rested = {}

(* A day goes by: what has no reference now has had none all day.          *)
Rest == MinAgePasses /\ rested' = {c \in ChunkIDs : row[c] = "live" /\ ~Referenced(c)}

(* Any other step: a new reference, or the end of the row, ends the rest.  *)
KeepCount == rested' = {c \in rested : row'[c] = "live" /\ ~Referenced(c)'}

OtherStep ==
  \/ \E u \in Uploads : ProgressUpload(u) \/ FailUpload(u) \/ CrashUpload(u) \/ DeleteFile(u)
  \/ \E g \in Collectors : ProgressCollector(g) \/ FailCollection(g) \/ StopCollector(g)

AgeNext == Rest \/ (OtherStep /\ KeepCount)

AgeSpec == AgeInit /\ [][AgeNext]_ageVars

(* "only collects chunks unreferenced for at least 24 hours": a collector  *)
(* deletes an object only of a chunk that has rested.                      *)
CollectsOnlyRested ==
  [][\A g \in Collectors :
       gcPc[g] = "object" /\ gcPc'[g] = "record" => target[g] \in rested]_ageVars
=============================================================================
