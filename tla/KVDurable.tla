----------------------------- MODULE KVDurable -----------------------------
(***************************************************************************)
(* What a restart of a storage node brings back (KVNode), and when it is   *)
(* exactly what the node held.                                             *)
(*                                                                         *)
(* The history variable blurred collects the users for whom the code gives *)
(* up that promise, so that RestartExact states it for all the others.     *)
(* It never guards an action: the behaviours are those of KVNode.          *)
(***************************************************************************)
EXTENDS KVNode

VARIABLE blurred   \* users whom the snapshot and the log may not restore

dvars == <<vars, blurred>>

-----------------------------------------------------------------------------
(***************************************************************************)
(* The tablets after the records of lg are replayed over base.             *)
(***************************************************************************)
Replay(base, lg) ==
  LET after[i \in 0 .. Len(lg)] ==
        IF i = 0 THEN base ELSE ReplayRecord(after[i-1], lg[i])
  IN  after[Len(lg)]

Recovered == Replay(Loaded, log)

(***************************************************************************)
(* A log that does not say what was applied: rename is not replayed, and a *)
(* payload of several lines comes back cut.                                *)
(***************************************************************************)
Faithful(r) == /\ r.kind # "rename"
               /\ r.kind \in {"put", "cput"} => r.val \in OneLine

Busy(u) == \E w \in Workers : work[w] # None /\ work[w].user = u

(***************************************************************************)
(* A request blurs its user if the log cannot replay it, if another worker *)
(* holds an unlogged request of that user (the log may get them in the     *)
(* other order), or if the checkpointing loop is still to write the row:   *)
(* row and log will then both contain it.                                  *)
(***************************************************************************)
Blurs(r) == \/ ~Faithful(r)
            \/ Busy(r.user)
            \/ cp = "rows" /\ r.user \in todo

Keep(A)     == A /\ UNCHANGED blurred
DInit       == Init /\ blurred = {}
DStartNew   == StartNew /\ blurred' = {u \in Users : \E i \in DOMAIN log : log[i].user = u}
DRestart    == Restart /\ blurred' = {}
DServe(w, r) == /\ Serve(w, r)
                /\ blurred' = IF Blurs(r) THEN blurred \cup {r.user} ELSE blurred
DRemoveLog  == RemoveLog /\ blurred' = {u \in Users : Busy(u)}

DNext == \/ DStartNew \/ DRestart \/ DRemoveLog
         \/ \E w \in Workers, r \in ClientRequest : DServe(w, r)
         \/ Keep(ReplayLine) \/ Keep(Listen)
         \/ \E w \in Workers : Keep(WriteLog(w))
         \/ Keep(ClearChunks) \/ Keep(ClearMetadata) \/ Keep(RemoveLogAndAbort)
         \/ \E u \in Users : Keep(WriteRow(u))
         \/ Keep(WriteMeta) \/ Keep(WriteChunkInfo)
         \/ Keep(Crash)

DSpec == DInit /\ [][DNext]_dvars

(***************************************************************************)
(* The threads of a live process run: a started one finishes its           *)
(* initialization, a worker its request, and the checkpointing thread      *)
(* wakes every CP_INTERVAL seconds and goes through its steps.             *)
(***************************************************************************)
Fairness ==
  /\ WF_dvars(Keep(ReplayLine) \/ Keep(Listen))
  /\ \A w \in Workers : WF_dvars(Keep(WriteLog(w)))
  /\ WF_dvars(\/ Keep(ClearChunks) \/ Keep(ClearMetadata)
              \/ DRemoveLog \/ Keep(RemoveLogAndAbort)
              \/ \E u \in Users : Keep(WriteRow(u))
              \/ Keep(WriteMeta) \/ Keep(WriteChunkInfo))

FairDSpec == DSpec /\ Fairness

-----------------------------------------------------------------------------
(***************************************************************************)
(* The log and the metadata of the snapshot are both on disk: from the     *)
(* write of metadata/cp_meta to the next checkpoint's removal of the       *)
(* chunks.                                                                 *)
(***************************************************************************)
SnapshotWhole == cp \in {"sleep", "info"}

(***************************************************************************)
(* Outside the checkpointing window, if the process died now and was       *)
(* restarted, load_checkpointing and replay_log would rebuild exactly the  *)
(* row the node holds, for every user who is not blurred and has no        *)
(* request between memory and log.                                         *)
(***************************************************************************)
RestartExact ==
  proc = "up" /\ SnapshotWhole =>
    \A u \in Users \ blurred : ~Busy(u) => Recovered[u] = tablets[u]

(***************************************************************************)
(* What was logged is not lost: outside the window, the first line of      *)
(* every payload a row holds is on disk, in the user's row of the snapshot *)
(* or in a record of the log, or a worker is about to log it.  This is     *)
(* claimed of every user, blurred or not.                                  *)
(***************************************************************************)
Carries(r, u, v) == /\ r.kind \in {"put", "cput"}
                    /\ r.user = u
                    /\ FirstLine[r.val] = FirstLine[v]

Holds(t, v) == \E f \in Files : \E i \in DOMAIN t[f] : FirstLine[t[f][i]] = FirstLine[v]

OnDisk(u, v) == \/ u \in meta /\ Holds(chunk[u], v)
                \/ \E i \in DOMAIN log : Carries(log[i], u, v)

AboutToLog(u, v) == \E w \in Workers : work[w] # None /\ Carries(work[w], u, v)

Secured(u) == \A f \in Files : \A i \in DOMAIN tablets[u][f] :
                LET v == tablets[u][f][i] IN OnDisk(u, v) \/ AboutToLog(u, v)

ValuesOnDisk == proc = "up" /\ SnapshotWhole => \A u \in Users : Secured(u)

(***************************************************************************)
(* The same, with no exception for the checkpointing window.               *)
(***************************************************************************)
ValuesAlwaysOnDisk == proc = "up" => \A u \in Users : Secured(u)

(***************************************************************************)
(* A node that is up and not crashed completes a checkpoint, however many  *)
(* requests its workers serve meanwhile.                                   *)
(***************************************************************************)
CheckpointCompletes ==
  proc = "up" ~> proc = "down" \/ (cp = "sleep" /\ info /\ meta = cp_meta)

-----------------------------------------------------------------------------
(***************************************************************************)
(* The inductive invariant behind RestartExact.                            *)
(*                                                                         *)
(* While the rows are being written the snapshot is the rows written so    *)
(* far, named by cp_meta in memory; otherwise it is what metadata/cp_meta  *)
(* names.  A user whose row is written, or who needs none, is restored by  *)
(* snapshot, log and the request about to be logged; a user whose row is   *)
(* still to come has neither a record nor such a request.                  *)
(***************************************************************************)
Base == [u \in Users |-> IF u \in (IF cp = "rows" THEN cp_meta ELSE meta)
                          THEN chunk[u] ELSE NoFiles]

Shape ==
  /\ proc # "up" => cp = "sleep" /\ work = Idle
  /\ proc = "down" => tablets = NoUsers
  /\ proc # "replay" => rp = 1
  /\ cp = "rows" => cp_meta \cap todo = {}

ReplayInv == proc = "replay" => tablets = Replay(Base, SubSeq(log, 1, rp - 1))

Untouched(u) == ~Busy(u) /\ \A i \in DOMAIN log : log[i].user # u

Restorable(u) ==
  /\ ~Busy(u) => Replay(Base, log)[u] = tablets[u]
  /\ \A w \in Workers : work[w] # None /\ work[w].user = u =>
       /\ ReplayRow(Replay(Base, log)[u], work[w]) = tablets[u]
       /\ \A x \in Workers : work[x] # None /\ work[x].user = u => x = w

RowInv(u) == IF cp = "rows" /\ u \in todo THEN Untouched(u) ELSE Restorable(u)

RowsInv == proc = "up" /\ cp \notin {"metadata", "log"} =>
             \A u \in Users \ blurred : RowInv(u)

RestartInv == TypeOK /\ Shape /\ ReplayInv /\ RowsInv

(***************************************************************************)
(* The inductive invariant behind ValuesOnDisk.                            *)
(***************************************************************************)
OnSnapshotOrLog(u, v) ==
  \/ u \in (IF cp = "rows" THEN cp_meta ELSE meta) /\ Holds(chunk[u], v)
  \/ \E i \in DOMAIN log : Carries(log[i], u, v)

RowSecured(u) == \A f \in Files : \A i \in DOMAIN tablets[u][f] :
                   \/ OnSnapshotOrLog(u, tablets[u][f][i])
                   \/ AboutToLog(u, tablets[u][f][i])

SecuredInv ==
  /\ proc = "replay" => \A u \in Users : RowSecured(u)
  /\ proc = "up" /\ cp \notin {"metadata", "log"} =>
       \A u \in Users : (cp = "rows" => u \notin todo) => RowSecured(u)

ValuesInv == TypeOK /\ Shape /\ SecuredInv
=============================================================================
