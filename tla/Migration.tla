----------------------------- MODULE Migration -----------------------------
(***************************************************************************)
(* The transfer of rows to a storage node that joins the ring              *)
(* (kvstore/kvstore.cc migrate_worker, data_migration,                     *)
(* kvstore/chunkserver.cc migrate_data).  The new node sends the list of   *)
(* users that the master gave it to the old node, whose worker sends every *)
(* file as a put and then deletes it, user by user.  The new node reads    *)
(* one message per recv and answers each put as if a client had sent it.   *)
(*                                                                         *)
(* Clients that asked the master after the join put at the new node,       *)
(* those that asked before at the old one.  The connection is TCP: what is *)
(* sent waits until it is read, a close with answers unread resets it.     *)
(***************************************************************************)
EXTENDS Integers, Sequences, SequencesExt, FiniteSets

CONSTANTS
  Users,
  NumFiles,   \* file names, in the order of the map that holds them
  Batch,      \* bound: messages that one recv may return together
  MaxPuts     \* bound: puts by clients

ASSUME UsersAssumption  == IsFiniteSet(Users)
ASSUME BoundsAssumption == NumFiles \in Nat \ {0} /\ Batch \in Nat \ {0} /\ MaxPuts \in Nat

Files  == 1 .. NumFiles
NoFile == <<>>
Junk   == 0                      \* bytes of another message
Tokens == 0 .. (2 + MaxPuts)     \* pieces of values; a row starts with 1 and 2
Value  == Seq(Tokens)
NoRow  == [f \in Files |-> NoFile]

PutMsg(u, f, v) == [kind |-> "put", user |-> u, file |-> f, val |-> v]
RestMsg         == [kind |-> "rest"]    \* the end of a message recv has split
DoneMsg         == [kind |-> "done"]
Message == [kind : {"put"}, user : Users, file : Files, val : Value] \cup {RestMsg, DoneMsg}

VARIABLES
  \* the old node
  old,       \* the rows it stores
  place,     \* where each row is: "memory", "virmem", or "nowhere"
  worker,    \* its worker: "idle", "send", "erase", "closed", or "dead" (the process)
  list,      \* users the worker has not finished
  cursor,    \* the last file its loop has visited
  \* the connection
  wire,      \* messages the new node has not read
  unread,    \* the old node has answers it will never read
  socket,    \* the new node's end: "open", "reset", or "broken"
  \* the new node
  new,       \* the rows it stores
  fetcher,   \* its migrate_worker: "told", "fetch", "done", or "dead" (the process)
  \* history, read by the properties alone
  puts,      \* puts by clients so far
  given,     \* the pieces of every file in the order they were stored
  listed,    \* the users the new node was told
  mark       \* whose rows have been damaged, and how

oldNode == <<old, place, worker, list, cursor>>
conn    == <<wire, unread, socket>>
newNode == <<new, fetcher>>
story   == <<puts, given, listed, mark>>
vars    == <<oldNode, conn, newNode, story>>

TypeOK ==
  /\ old \in [Users -> [Files -> Value]]
  /\ place \in [Users -> {"memory", "virmem", "nowhere"}]
  /\ \A u \in Users : (place[u] = "nowhere") = (old[u] = NoRow)
  /\ worker \in {"idle", "send", "erase", "closed", "dead"}
  /\ list \in Seq(Users)
  /\ cursor \in 0 .. NumFiles
  /\ wire \in Seq(Message)
  /\ unread \in BOOLEAN
  /\ socket \in {"open", "reset", "broken"}
  /\ new \in [Users -> [Files -> Value]]
  /\ fetcher \in {"told", "fetch", "done", "dead"}
  /\ puts \in 0 .. MaxPuts
  /\ given \in [Users -> [Files -> Value]]
  /\ listed \subseteq Users
  /\ mark \in [garbled : SUBSET Users, overtaken : SUBSET Users, early : SUBSET Users,
               kept : SUBSET Users, hopeless : BOOLEAN]

(***************************************************************************)
(* The master has answered "P", the address of the old node and the list.  *)
(* The answer is received into 255 bytes: of a longer list the rest is     *)
(* lost, and a name it cuts has no comma and is skipped.  The master knows *)
(* names nobody has stored anything for, and the old node may have a row   *)
(* in virtual memory.                                                      *)
(***************************************************************************)
Init ==
  /\ place \in [Users -> {"memory", "virmem", "nowhere"}]
  /\ old \in [Users -> [Files -> {NoFile, <<1, 2>>}]]
  /\ \A u \in Users : (place[u] = "nowhere") = (old[u] = NoRow)
  /\ worker = "idle"
  /\ listed \in SUBSET Users
  /\ list = SetToSeq(listed)
  /\ cursor = 0
  /\ wire = <<>> /\ unread = FALSE /\ socket = "open"
  /\ new = [u \in Users |-> NoRow]
  /\ fetcher = "told"
  /\ puts = 0
  /\ given = old
  /\ mark = [garbled |-> {}, overtaken |-> {}, early |-> {}, kept |-> {}, hopeless |-> FALSE]

-----------------------------------------------------------------------------
(***************************************************************************)
(* The new node asks.  (If the old one is gone the send on a socket that   *)
(* is not connected kills it.)                                             *)
(***************************************************************************)
Request ==
  /\ fetcher = "told"
  /\ IF worker = "dead"
     THEN fetcher' = "dead" /\ UNCHANGED worker
     ELSE fetcher' = "fetch" /\ worker' = "send"
  /\ UNCHANGED <<old, place, list, cursor, conn, new, story>>

UsersOf(msgs) == {m.user : m \in {m \in Range(msgs) : m.kind = "put"}}

(***************************************************************************)
(* The old node's end of the connection closes: its worker has finished,   *)
(* or the process dies.  With answers unread the peer is reset, and any    *)
(* messages that have not arrived are dropped.                             *)
(***************************************************************************)
Close(state, msgs) ==
  /\ worker' = state
  /\ \/ /\ ~unread
        /\ wire' = wire \o msgs
        /\ UNCHANGED <<socket, mark>>
     \/ /\ unread
        /\ socket' = "reset"
        /\ \E n \in 0 .. Len(wire \o msgs) :
             LET lost == SubSeq(wire \o msgs, n + 1, Len(wire \o msgs)) IN
             /\ wire' = SubSeq(wire \o msgs, 1, n)
             /\ mark' = [mark EXCEPT !.garbled = @ \cup UsersOf(lost), !.hopeless = @ \/ lost # <<>>]
  /\ UNCHANGED unread

(***************************************************************************)
(* The old node's worker.  A send to a node that has died is lost, or      *)
(* kills the process (SIGPIPE).                                            *)
(***************************************************************************)
user == list[1]

Ahead(row)    == {f \in Files : f > cursor /\ row[f] # NoFile}

\* Fault: the loop begins at its last file.
LastFile(row) == CHOOSE f \in Ahead(row) : \A g \in Ahead(row) : g <= f

NextFile(row) == CHOOSE f \in Ahead(row) : \A g \in Ahead(row) : f <= g

Serving(state) == worker = state /\ list # <<>>

\* migrate_data assumes that the user has a row in memory.
NoSuchRow ==
  /\ Serving("send") /\ cursor = 0
  /\ place[user] # "memory"
  /\ Close("dead", <<>>)
  /\ UNCHANGED <<old, place, list, cursor, newNode, puts, given, listed>>

SendFile ==
  /\ Serving("send") /\ place[user] = "memory"
  /\ Ahead(old[user]) # {}
  /\ cursor' = NextFile(old[user])
  /\ \/ /\ fetcher # "dead"
        /\ wire' = Append(wire, PutMsg(user, cursor', old[user][cursor']))
        /\ UNCHANGED worker
     \/ /\ fetcher = "dead"
        /\ worker' \in {"send", "dead"}
        /\ UNCHANGED wire
  /\ UNCHANGED <<old, place, list, unread, socket, newNode, story>>

\* Fault: the row is erased after its first file was sent.
SentOne ==
  /\ Serving("send") /\ cursor > 0
  /\ worker' = "erase"
  /\ cursor' = 0
  /\ UNCHANGED <<old, place, list, conn, newNode, story>>

SentAll ==
  /\ Serving("send") /\ cursor > 0
  /\ Ahead(old[user]) = {}
  /\ worker' = "erase"
  /\ cursor' = 0
  /\ UNCHANGED <<old, place, list, conn, newNode, story>>

(***************************************************************************)
(* dele erases the file from the map the loop goes over: the increment     *)
(* that follows is undefined.  It finds the next file, or the end, or      *)
(* something that is no node of the map.  The last file takes the row out  *)
(* of the tablets.                                                         *)
(***************************************************************************)
Leave == list' = Tail(list) /\ cursor' = 0 /\ worker' = "send"

\* Fault: an empty row stays in the tablets.
EraseFileOnly ==
  LET f == NextFile(old[user]) IN
  /\ Serving("erase")
  /\ Ahead(old[user]) # {}
  /\ old' = [old EXCEPT ![user][f] = NoFile]
  /\ cursor' = f
  /\ UNCHANGED <<place, worker, list, conn, newNode, story>>

EraseFile ==
  LET f    == NextFile(old[user])
      left == [old[user] EXCEPT ![f] = NoFile]
  IN
  /\ Serving("erase")
  /\ Ahead(old[user]) # {}
  /\ old' = [old EXCEPT ![user] = left]
  /\ place' = IF left = NoRow THEN [place EXCEPT ![user] = "nowhere"] ELSE place
  /\ \/ /\ left # NoRow
        /\ cursor' = f
        /\ UNCHANGED <<worker, list, conn, mark>>
     \/ /\ Leave
        /\ mark' = IF left = NoRow THEN mark ELSE [mark EXCEPT !.kept = @ \cup {user}]
        /\ UNCHANGED conn
     \/ /\ Close("dead", <<>>)
        /\ UNCHANGED <<list, cursor>>
  /\ UNCHANGED <<newNode, puts, given, listed>>

\* What is left was put by a client behind the loop.
ErasedAll ==
  /\ Serving("erase")
  /\ Ahead(old[user]) = {}
  /\ Leave
  /\ UNCHANGED <<old, place, conn, newNode, story>>

\* Fault: the end of the migration is not announced.
FinishSilently ==
  /\ worker = "send" /\ list = <<>>
  /\ Close("closed", <<>>)
  /\ UNCHANGED <<old, place, list, cursor, newNode, puts, given, listed>>

Finish ==
  /\ worker = "send" /\ list = <<>>
  /\ Close("closed", <<DoneMsg>>)
  /\ UNCHANGED <<old, place, list, cursor, newNode, puts, given, listed>>

Worker == NoSuchRow \/ SendFile \/ SentAll \/ EraseFile \/ ErasedAll \/ Finish

-----------------------------------------------------------------------------
(***************************************************************************)
(* The new node's migrate_worker.  lru->put answers every put; nobody at   *)
(* the other end reads the answers.                                        *)
(***************************************************************************)
Answer ==
  \/ /\ worker \notin {"closed", "dead"}
     /\ unread' = TRUE
     /\ UNCHANGED <<socket, fetcher>>
  \/ /\ worker \in {"closed", "dead"}
     /\ \/ socket = "open" /\ socket' = "reset" /\ UNCHANGED fetcher
        \/ socket = "reset" /\ socket' = "broken" /\ UNCHANGED fetcher
        \/ socket # "open" /\ fetcher' = "dead" /\ UNCHANGED socket
     /\ UNCHANGED unread

(***************************************************************************)
(* What recv returns is one message to the code.  Behind a put other       *)
(* messages become part of its value, and so does the end of the           *)
(* migration; behind the rest of a message that was split they are lost.   *)
(***************************************************************************)
Store(u, f, v) == new' = [new EXCEPT ![u][f] = @ \o v]

Read ==
  \E n \in 1 .. Batch :
    LET msgs == SubSeq(wire, 1, n)
        m    == wire[1]
    IN
    /\ fetcher = "fetch" /\ n <= Len(wire)
    /\ wire' = SubSeq(wire, n + 1, Len(wire))
    /\ mark' = [mark EXCEPT !.garbled = @ \cup (IF n = 1 /\ m.kind = "put" THEN {} ELSE UsersOf(msgs)),
                            !.hopeless = @ \/ (n > 1 /\ DoneMsg \in Range(msgs))]
    /\ \/ /\ m.kind = "put"
          /\ Store(m.user, m.file, m.val \o (IF n > 1 THEN <<Junk>> ELSE <<>>))
          /\ Answer
       \/ /\ m.kind = "rest"
          /\ UNCHANGED <<new, fetcher, unread, socket>>
       \/ /\ m.kind = "done"
          /\ fetcher' = "done"
          /\ UNCHANGED <<new, unread, socket>>
    /\ UNCHANGED <<oldNode, puts, given, listed>>

\* recv returns the beginning of a put.
ReadPart ==
  /\ fetcher = "fetch" /\ wire # <<>> /\ wire[1].kind = "put"
  /\ LET m == wire[1] IN
     /\ Len(m.val) > 1
     /\ Store(m.user, m.file, <<m.val[1]>>)
     /\ mark' = [mark EXCEPT !.garbled = @ \cup {m.user}]
  /\ wire' = <<RestMsg>> \o Tail(wire)
  /\ Answer
  /\ UNCHANGED <<oldNode, puts, given, listed>>

\* Either process dies of something else.
Crash ==
  \/ /\ fetcher \in {"told", "fetch"}
     /\ fetcher' = "dead"
     /\ UNCHANGED <<oldNode, conn, new, story>>
  \/ /\ worker \in {"idle", "send", "erase"}
     /\ Close("dead", <<>>)
     /\ UNCHANGED <<old, place, list, cursor, newNode, puts, given, listed>>

-----------------------------------------------------------------------------
(***************************************************************************)
(* Clients put at the new node if they asked the master after the join,    *)
(* and at the old one if they asked before.                                *)
(***************************************************************************)
Piece == 3 + puts

Given(u, f) ==
  /\ puts < MaxPuts
  /\ puts' = puts + 1
  /\ given' = [given EXCEPT ![u][f] = Append(@, Piece)]

PutNew(u, f) ==
  /\ fetcher # "dead"
  /\ Given(u, f)
  /\ Store(u, f, <<Piece>>)
  /\ mark' = IF fetcher = "done" THEN mark ELSE [mark EXCEPT !.early = @ \cup {u}]
  /\ UNCHANGED <<oldNode, conn, fetcher, listed>>

PutOld(u, f) ==
  LET now == worker \in {"send", "erase"} /\ list # <<>> /\ u = list[1]
      unsent == now /\ IF worker = "send" THEN f <= cursor ELSE f > cursor
      behind == \/ worker \in {"send", "erase"} /\ u \notin Range(list)
                \/ now /\ worker = "erase" /\ f <= cursor
                \/ worker = "closed"
  IN
  /\ worker # "dead"
  /\ Given(u, f)
  /\ old' = [old EXCEPT ![u][f] = Append(@, Piece)]
  /\ place' = [place EXCEPT ![u] = "memory"]
  /\ mark' = [mark EXCEPT !.overtaken = IF unsent THEN @ \cup {u} ELSE @,
                          !.kept = IF behind THEN @ \cup {u} ELSE @]
  /\ UNCHANGED <<worker, list, cursor, conn, newNode, listed>>

Client == \E u \in Users, f \in Files : PutNew(u, f) \/ PutOld(u, f)

Fetcher == Request \/ Read \/ ReadPart

Next == Fetcher \/ Worker \/ Crash \/ Client

\* Both nodes schedule their threads.
Spec == Init /\ [][Next]_vars /\ WF_vars(Fetcher) /\ WF_vars(Worker)

-----------------------------------------------------------------------------
(***************************************************************************)
(* While the new node lives, every piece stored at either node is at one   *)
(* of them or on its way, unless its row was damaged: a message that recv  *)
(* merged or split or that a reset dropped, or a put that reached the old  *)
(* node between the sending and the erasing of its row.                    *)
(***************************************************************************)
OnItsWay(u, f) ==
  UNION {Range(m.val) : m \in {m \in Range(wire) : m.kind = "put" /\ m.user = u /\ m.file = f}}

NothingLost ==
  fetcher # "dead" =>
    \A u \in Users \ (mark.garbled \cup mark.overtaken), f \in Files :
      Range(given[u][f]) \subseteq Range(old[u][f]) \cup OnItsWay(u, f) \cup Range(new[u][f])

(***************************************************************************)
(* At the end the row of a user who was handed over is at the new node     *)
(* alone, every piece once and in the order in which it was stored, unless *)
(* it was damaged, or a client put at the new node before the end, or one  *)
(* with an old lookup (or the undefined increment) left files behind.      *)
(***************************************************************************)
HandedOver ==
  fetcher = "done" =>
    \A u \in listed \ (mark.garbled \cup mark.overtaken \cup mark.early \cup mark.kept) :
      old[u] = NoRow /\ new[u] = given[u]

(***************************************************************************)
(* A migration that was asked for ends, unless a node dies, or the end of  *)
(* the migration was merged into a value or dropped: the thread then       *)
(* receives nothing for ever (recv returning 0 is no end to it).           *)
(***************************************************************************)
Ends ==
  (fetcher = "fetch") ~> (fetcher \in {"done", "dead"} \/ worker = "dead" \/ mark.hopeless)
=============================================================================
