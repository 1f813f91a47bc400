------------------------------- MODULE KVNode -------------------------------
(***************************************************************************)
(* The durability of one key-value storage node: the worker threads that   *)
(* apply a request in memory and then append it to the log, the            *)
(* checkpointing thread that rewrites the snapshot and drops the log, the  *)
(* crash of the process, and the restart that loads the snapshot and       *)
(* replays the log (kvstore/kvstore.cc, kvstore/chunkserver.cc).           *)
(*                                                                         *)
(* No lock protects any of this state: every interleaving of the threads'  *)
(* steps is a behaviour.  A step is atomic when no other step reads what   *)
(* it has half written; the two halves of an operation that other threads  *)
(* do see are two actions.                                                 *)
(***************************************************************************)
EXTENDS KVOps, FiniteSets

CONSTANTS
  Workers,     \* connections served concurrently, one thread each
  MaxContent,  \* bound: no put for a user with a file of which memory and
               \* snapshot together hold this many payloads
  MaxLog       \* bound: no request that would make the log longer

ASSUME BoundsAssumption == MaxContent \in Nat /\ MaxLog \in Nat

VARIABLES
  \* the process
  proc,        \* "down", "replay" (inside initialization), or "up"
  tablets,     \* lru->tablets
  counters,    \* chunk_info["checkpointing"] holds its two counters
  cp_meta,     \* users with a row in the snapshot, as the process knows it
  work,        \* work[w]: the request w has applied and not yet logged
  cp,          \* what the checkpointing thread does next
  todo,        \* users the checkpointing loop has not come to
  rp,          \* the log line the restart replays next
  \* the disk
  chunk,       \* checkpointing/: the row written for each user
  meta,        \* metadata/cp_meta: the users it names
  info,        \* metadata/chunk_info has been written
  log          \* the log, one request per record

memory == <<proc, tablets, counters, cp_meta, work, cp, todo, rp>>
disk   == <<chunk, meta, info, log>>
vars   == <<memory, disk>>

Idle == [w \in Workers |-> None]

InFlight == {w \in Workers : work[w] # None}

TypeOK ==
  /\ proc \in {"down", "replay", "up"}
  /\ tablets \in Store
  /\ counters \in BOOLEAN
  /\ cp_meta \subseteq Users
  /\ work \in [Workers -> Request \cup {None}]
  /\ cp \in {"sleep", "metadata", "log", "rows", "info"}
  /\ todo \subseteq Users
  /\ rp \in 1 .. (Len(log) + 1)
  /\ chunk \in Store
  /\ meta \subseteq Users
  /\ info \in BOOLEAN
  /\ log \in Seq(Request)

(***************************************************************************)
(* A machine that has never run a node: nothing on disk, no process.       *)
(***************************************************************************)
Init ==
  /\ proc = "down"
  /\ tablets = NoUsers
  /\ counters = FALSE
  /\ cp_meta = {}
  /\ work = Idle
  /\ cp = "sleep"
  /\ todo = {}
  /\ rp = 1
  /\ chunk = NoUsers
  /\ meta = {}
  /\ info = FALSE
  /\ log = <<>>

-----------------------------------------------------------------------------
(***************************************************************************)
(* Start and restart.  Started as new, the node empties the snapshot and   *)
(* the metadata (the log it leaves) and sets the chunk counters to zero.   *)
(* Otherwise it reads the metadata, loads the row of every user they name, *)
(* and replays the log; the counters come from metadata/chunk_info, and    *)
(* stay absent when that file is.                                          *)
(***************************************************************************)
Loaded == [u \in Users |-> IF u \in meta THEN chunk[u] ELSE NoFiles]

StartNew ==
  /\ proc = "down"
  /\ proc' = "up"
  /\ counters' = TRUE
  /\ chunk' = NoUsers
  /\ meta' = {}
  /\ info' = FALSE
  /\ UNCHANGED <<tablets, cp_meta, work, cp, todo, rp, log>>

Restart ==
  /\ proc = "down"
  /\ proc' = "replay"
  /\ tablets' = Loaded
  /\ cp_meta' = meta
  /\ counters' = info
  /\ UNCHANGED <<work, cp, todo, rp, disk>>

(***************************************************************************)
(* One record of the log.  A record is read with getline, so of a payload  *)
(* that has several lines only the first comes back, and rename is not     *)
(* among the commands that are replayed.                                   *)
(***************************************************************************)
\* Fault: a deletion is not replayed.
ReplayRowNoDele(t, r) ==
  IF r.kind \in {"put", "cput"} THEN ApplyRow(t, [r EXCEPT !.val = FirstLine[@]]) ELSE t

ReplayRow(t, r) ==
  CASE r.kind \in {"put", "cput"} -> ApplyRow(t, [r EXCEPT !.val = FirstLine[@]])
    [] r.kind = "dele"            -> ApplyRow(t, r)
    [] r.kind = "rename"          -> t

ReplayRecord(m, r) == [m EXCEPT ![r.user] = ReplayRow(@, r)]

ReplayLine ==
  /\ proc = "replay"
  /\ rp <= Len(log)
  /\ tablets' = ReplayRecord(tablets, log[rp])
  /\ rp' = rp + 1
  /\ UNCHANGED <<proc, counters, cp_meta, work, cp, todo, disk>>

(***************************************************************************)
(* The end of the log: main listens and starts the checkpointing thread.   *)
(***************************************************************************)
Listen ==
  /\ proc = "replay"
  /\ rp > Len(log)
  /\ proc' = "up"
  /\ rp' = 1
  /\ UNCHANGED <<tablets, counters, cp_meta, work, cp, todo, disk>>

-----------------------------------------------------------------------------
(***************************************************************************)
(* The worker threads.  A request that changes data is applied (and the    *)
(* client answered) and then, whatever the outcome, appended to the log.   *)
(* The guard on the lengths is a bound of the instance.                    *)
(***************************************************************************)
WithinBounds(r) ==
  /\ r.kind = "put" =>
       \A f \in Files : Len(tablets[r.user][f]) + Len(chunk[r.user][f]) < MaxContent
  /\ Len(log) + Cardinality(InFlight) < MaxLog

Serve(w, r) ==
  /\ proc = "up"
  /\ work[w] = None
  /\ WithinBounds(r)
  /\ tablets' = Apply(tablets, r)
  /\ work' = [work EXCEPT ![w] = r]
  /\ UNCHANGED <<proc, counters, cp_meta, cp, todo, rp, disk>>

\* Fault: a worker writes to the log without a request at hand.
WriteLogUnguarded(w) ==
  /\ proc = "up"
  /\ log' = Append(log, work[w])
  /\ work' = [work EXCEPT ![w] = None]
  /\ UNCHANGED <<proc, tablets, counters, cp_meta, cp, todo, rp, chunk, meta, info>>

WriteLog(w) ==
  /\ proc = "up"
  /\ work[w] # None
  /\ log' = Append(log, work[w])
  /\ work' = [work EXCEPT ![w] = None]
  /\ UNCHANGED <<proc, tablets, counters, cp_meta, cp, todo, rp, chunk, meta, info>>

-----------------------------------------------------------------------------
(***************************************************************************)
(* The checkpointing thread: chunks, metadata and log are emptied in this  *)
(* order, then the rows of the users in memory are written one by one,     *)
(* then metadata/cp_meta, then metadata/chunk_info.                        *)
(***************************************************************************)
ClearChunks ==
  /\ proc = "up"
  /\ cp = "sleep"
  /\ cp' = "metadata"
  /\ chunk' = NoUsers
  /\ UNCHANGED <<proc, tablets, counters, cp_meta, work, todo, rp, meta, info, log>>

ClearMetadata ==
  /\ cp = "metadata"
  /\ cp' = "log"
  /\ meta' = {}
  /\ info' = FALSE
  /\ UNCHANGED <<proc, tablets, counters, cp_meta, work, todo, rp, chunk, log>>

RemoveLog ==
  /\ cp = "log"
  /\ counters
  /\ log' = <<>>
  /\ cp_meta' = {}
  /\ cp' = "rows"
  /\ todo' = Users
  /\ UNCHANGED <<proc, tablets, counters, work, rp, chunk, meta, info>>

(***************************************************************************)
(* What the death of the process does: memory is gone, the disk stays.     *)
(***************************************************************************)
Die ==
  /\ proc' = "down"
  /\ tablets' = NoUsers
  /\ counters' = FALSE
  /\ cp_meta' = {}
  /\ work' = Idle
  /\ cp' = "sleep"
  /\ todo' = {}
  /\ rp' = 1

(***************************************************************************)
(* Without its counters the thread has removed the log when                *)
(* chunk_info["checkpointing"].at(0) throws: nothing catches it.           *)
(***************************************************************************)
RemoveLogAndAbort ==
  /\ cp = "log"
  /\ ~counters
  /\ log' = <<>>
  /\ Die
  /\ UNCHANGED <<chunk, meta, info>>

(***************************************************************************)
(* The loop over the tablets.  A user who has no file is not in the map:   *)
(* the loop passes it by.                                                  *)
(***************************************************************************)
\* Fault: the loop waits on a user without files instead of passing on.
WriteRowStuck(u) ==
  /\ cp = "rows"
  /\ u \in todo
  /\ tablets[u] # NoFiles
  /\ todo' = todo \ {u}
  /\ chunk' = [chunk EXCEPT ![u] = tablets[u]]
  /\ cp_meta' = cp_meta \cup {u}
  /\ UNCHANGED <<proc, tablets, counters, work, cp, rp, meta, info, log>>

WriteRow(u) ==
  /\ cp = "rows"
  /\ u \in todo
  /\ todo' = todo \ {u}
  /\ IF tablets[u] = NoFiles
       THEN UNCHANGED <<chunk, cp_meta>>
       ELSE /\ chunk' = [chunk EXCEPT ![u] = tablets[u]]
            /\ cp_meta' = cp_meta \cup {u}
  /\ UNCHANGED <<proc, tablets, counters, work, cp, rp, meta, info, log>>

\* Fault: the log is dropped once the snapshot is written, not before.
WriteMetaDropsLog ==
  /\ cp = "rows"
  /\ todo = {}
  /\ cp' = "info"
  /\ meta' = cp_meta
  /\ log' = <<>>
  /\ UNCHANGED <<proc, tablets, counters, cp_meta, work, todo, rp, chunk, info>>

WriteMeta ==
  /\ cp = "rows"
  /\ todo = {}
  /\ cp' = "info"
  /\ meta' = cp_meta
  /\ UNCHANGED <<proc, tablets, counters, cp_meta, work, todo, rp, chunk, info, log>>

WriteChunkInfo ==
  /\ cp = "info"
  /\ cp' = "sleep"
  /\ info' = TRUE
  /\ UNCHANGED <<proc, tablets, counters, cp_meta, work, todo, rp, chunk, meta, log>>

(***************************************************************************)
(* The process stops at any point: a signal, a fault, or "shutdown" from   *)
(* the administrator, which is exit(5) in whatever thread received it.     *)
(***************************************************************************)
Crash ==
  /\ proc # "down"
  /\ Die
  /\ UNCHANGED disk

-----------------------------------------------------------------------------
Checkpoint == \/ ClearChunks \/ ClearMetadata \/ RemoveLog \/ RemoveLogAndAbort
              \/ (\E u \in Users : WriteRow(u)) \/ WriteMeta \/ WriteChunkInfo

Next == \/ StartNew \/ Restart \/ ReplayLine \/ Listen
        \/ \E w \in Workers, r \in ClientRequest : Serve(w, r)
        \/ \E w \in Workers : WriteLog(w)
        \/ Checkpoint
        \/ Crash

Spec == Init /\ [][Next]_vars
=============================================================================
