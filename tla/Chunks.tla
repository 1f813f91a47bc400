------------------------------- MODULE Chunks -------------------------------
(***************************************************************************)
(* The chunk files of a storage node (kvstore/lrucache.cc): rows of users  *)
(* are appended to the file of the current chunk, one for the rows evicted *)
(* from memory and one for those of a checkpoint, and found again by the   *)
(* records <<#chunk, start_idx, length>> of virmem_meta and cp_meta.  A    *)
(* row that does not fit goes on in the next chunk.                        *)
(*                                                                         *)
(* A row is the sequence of its bytes, each marked with its user, the      *)
(* version of the row and its place.  A checkpoint and a restart are one   *)
(* step here; KVDurable takes them apart.                                  *)
(***************************************************************************)
EXTENDS Integers, Sequences, SequencesExt

CONSTANTS
  Order,      \* the users, in the order of the map
  Lengths,    \* lengths of rows
  ChunkSize,  \* CHUNK_SIZE
  MaxSize,    \* bound: bytes written to the evicted rows' chunks
  Zero        \* what is read past the end of a file

Users == Range(Order)

ASSUME SizesAssumption == ChunkSize \in Nat \ {0} /\ Lengths \subseteq Nat \ {0} /\ MaxSize \in Nat

RowOf(u, version, length) ==
  [i \in 1 .. length |-> [user |-> u, version |-> version, place |-> i]]

VARIABLES
  row,       \* the row of each user in memory, <<>> of one who is not
  version,   \* that of the next row of each user
  virtual,   \* the files and metadata of evicted users
  snapshot,  \* those of the last checkpoint
  saved      \* its copy of virtual

vars == <<row, version, virtual, snapshot, saved>>

(***************************************************************************)
(* One directory of chunk files: chunk_info (#0 and #1), the files, the    *)
(* metadata, and (history) the rows that were written.                     *)
(***************************************************************************)
Chunk == 0 .. MaxSize

Empty == [number |-> 0, size |-> 0, file |-> [c \in Chunk |-> <<>>],
          meta |-> [u \in Users |-> <<>>], rows |-> [u \in Users |-> <<>>]]

None == [Empty EXCEPT !.number = -1]

Init ==
  /\ row = [u \in Users |-> <<>>]
  /\ version = [u \in Users |-> 0]
  /\ virtual = Empty
  /\ snapshot = None
  /\ saved = None

-----------------------------------------------------------------------------
(***************************************************************************)
(* write_to_chunk.  CHUNK_SIZE - #1 is compared as an unsigned number with *)
(* the size of the row: once #1 is past CHUNK_SIZE everything fits.        *)
(***************************************************************************)
Left(st) == ChunkSize - st.size

FitsIn(st, length) == Left(st) >= length \/ Left(st) < 0

\* Fault: the number of further chunks is rounded down.
Floor(n) == n \div ChunkSize

Ceiling(n) == (n + ChunkSize - 1) \div ChunkSize

Needed(st, length) ==
  IF FitsIn(st, length) THEN 1 ELSE Ceiling(length - Left(st)) + 1

\* Part i of the row begins after From(i) of its bytes.
From(st, length, i) ==
  IF i = 0 THEN 0 ELSE IF i = Needed(st, length) THEN length ELSE Left(st) + (i-1) * ChunkSize

\* update_metadata: #0 is the next chunk for every part but the first, #1 is
\* moved on by every part and never set back.
Record(st, length, i) ==
  LET from == From(st, length, i)
      to   == From(st, length, i + 1)
  IN  [chunk |-> st.number + i, start |-> st.size + from, length |-> to - from]

WriteToChunk(st, u, bytes) ==
  LET length == Len(bytes)
      needed == Needed(st, length)
      part(c) == SubSeq(bytes, From(st, length, c - st.number) + 1,
                               From(st, length, c - st.number + 1))
  IN  [number |-> st.number + needed - 1,
       size   |-> st.size + length,
       file   |-> [c \in Chunk |-> IF c \in st.number .. st.number + needed - 1
                                     THEN st.file[c] \o part(c) ELSE st.file[c]],
       meta   |-> [st.meta EXCEPT ![u] = [i \in 1 .. needed |-> Record(st, length, i - 1)]],
       rows   |-> [st.rows EXCEPT ![u] = bytes]]

(***************************************************************************)
(* load_user_from_disk: what the records of a user find in the files.      *)
(***************************************************************************)
At(file, i) == IF i <= Len(file) THEN file[i] ELSE Zero

ReadPart(st, r) == [i \in 1 .. r.length |-> At(st.file[r.chunk], r.start + i)]

ReadRow(st, u) == FoldLeft(LAMBDA read, r : read \o ReadPart(st, r), <<>>, st.meta[u])

\* restore_user finds no file in a row that is not as it was written.
Restored(st, u) == IF ReadRow(st, u) = st.rows[u] THEN st.rows[u] ELSE <<>>

-----------------------------------------------------------------------------
(***************************************************************************)
(* A user's row is written anew (by puts, in memory), evicted, and loaded. *)
(***************************************************************************)
Change(u, length) ==
  /\ virtual.meta[u] = <<>>
  /\ row' = [row EXCEPT ![u] = RowOf(u, version[u], length)]
  /\ version' = [version EXCEPT ![u] = 1 - @]
  /\ UNCHANGED <<virtual, snapshot, saved>>

Evict(u) ==
  /\ row[u] # <<>> /\ virtual.size + Len(row[u]) <= MaxSize
  /\ virtual' = WriteToChunk(virtual, u, row[u])
  /\ row' = [row EXCEPT ![u] = <<>>]
  /\ UNCHANGED <<version, snapshot, saved>>

Load(u) ==
  /\ virtual.meta[u] # <<>>
  /\ row' = [row EXCEPT ![u] = Restored(virtual, u)]
  /\ virtual' = [virtual EXCEPT !.meta[u] = <<>>, !.rows[u] = <<>>]
  /\ UNCHANGED <<version, snapshot, saved>>

(***************************************************************************)
(* checkpointing: its chunks begin anew, with the rows in memory, and the  *)
(* files and metadata of the evicted ones are copied.                      *)
(***************************************************************************)
InMemory == SelectSeq(Order, LAMBDA u : row[u] # <<>>)

Checkpoint ==
  /\ snapshot' = FoldLeft(LAMBDA st, u : WriteToChunk(st, u, row[u]), Empty, InMemory)
  /\ saved' = virtual
  /\ UNCHANGED <<row, version, virtual>>

\* load_checkpointing in a new process.
Restart ==
  /\ saved # None
  /\ row' = [u \in Users |-> Restored(snapshot, u)]
  /\ virtual' = saved
  /\ UNCHANGED <<version, snapshot, saved>>

Next ==
  \/ \E u \in Users, length \in Lengths : Change(u, length)
  \/ \E u \in Users : Evict(u) \/ Load(u)
  \/ Checkpoint
  \/ Restart

Spec == Init /\ [][Next]_vars

-----------------------------------------------------------------------------
InFirstChunk(st, u) ==
  \A i \in DOMAIN st.meta[u] : st.meta[u][i].start + st.meta[u][i].length <= ChunkSize

(***************************************************************************)
(* A row is read back as it was written if, and only if, all of it went    *)
(* into the first chunk of its directory (the offsets in later chunks are  *)
(* not those of the file): whatever is evicted, loaded and written anew    *)
(* afterwards, and also in a process restarted from a checkpoint.          *)
(***************************************************************************)
FirstChunkExact ==
  \A st \in {virtual, snapshot, saved} : \A u \in Users :
    st.meta[u] # <<>> => (InFirstChunk(st, u) <=> ReadRow(st, u) = st.rows[u])
=============================================================================
