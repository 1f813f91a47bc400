------------------------------ MODULE LRUCache ------------------------------
(***************************************************************************)
(* The memory of a storage node (kvstore/lrucache.cc): the users' rows in  *)
(* memory, a doubly linked list of them from the least recently used, the  *)
(* count of memory in use, and virtual memory, to which rows are evicted   *)
(* and from which they are loaded when somebody asks for them.             *)
(*                                                                         *)
(* One request at a time: a request is a stack of calls, each of which may *)
(* call further puts (a row that is loaded is put back file by file).      *)
(* What threads do to each other between requests is in KVNode.  A value   *)
(* is its length; a length of 0 is a file that is not there, which no      *)
(* value has, for the line end of the request is part of the value.        *)
(***************************************************************************)
EXTENDS Integers, Sequences, SequencesExt

CONSTANTS
  Users,
  NumFiles,     \* file names, in the order of the map that holds them
  Lengths,      \* lengths of the values clients put, larger than the memory or not
  Capacity,     \* lru->capacity
  MaxRequests   \* bound: requests in one behaviour

ASSUME CapacityAssumption == Capacity \in Nat \ {0} /\ MaxRequests \in Nat
ASSUME SizesAssumption    == NumFiles \in Nat \ {0} /\ Lengths \subseteq Nat \ {0}
ASSUME UsersAssumption    == IsFiniteSet(Users)

Files  == 1 .. NumFiles
head   == 0
tail   == -1
Null   == -2
NoFile == 0
None   == <<>>

Row      == [Files -> Nat]
EmptyRow == [f \in Files |-> NoFile]

\* format_node: the files of a row in the order of the map; their lengths together
FilesOf(row) ==
  LET upTo[f \in 0 .. NumFiles] ==
        IF f = 0 THEN <<>>
        ELSE IF row[f] = NoFile THEN upTo[f - 1] ELSE Append(upTo[f - 1], f)
  IN upTo[NumFiles]

SizeOf(row) == SumFunction(row)

\* "restore" is the put of restore_user, "rewrite" the put_helper of cput.
Request ==
  [kind : {"put", "restore", "rewrite", "get", "cput", "dele", "rename", "list"},
   user : Users, file : Files, to : Files, len : Nat, match : BOOLEAN]

VARIABLES
  used,      \* memory_used
  size,      \* user_size
  tablets,   \* tablets: the node of each user in memory, or Null
  virmem,    \* virmem_meta and the row it leads to, or None
  key,       \* key of each node that new has made
  value,     \* value of each node
  list,      \* prev and next of the nodes, of head and of tail
  calls,     \* the request being served: a stack of [step, rq]
  crashed,   \* the process has followed a null pointer
  served,    \* requests so far
  \* history, read by the properties alone
  due,       \* the row each user should have: what he was promised, less what was cut off
  recent,    \* the nodes, the least recently used first
  mark       \* what has gone wrong so far, and for whom

memory == <<used, size, tablets>>
heap   == <<key, value, list>>
cache  == <<memory, virmem, heap>>
story  == <<due, recent, mark>>
vars   == <<cache, calls, crashed, served, story>>

Node == 1 .. Len(key)

TypeOK ==
  /\ used \in Int /\ size \in [Users -> Int]
  /\ tablets \in [Users -> Node \cup {Null}]
  /\ virmem \in [Users -> Row \cup {None}]
  /\ key \in Seq(Users)
  /\ value \in Seq(Row) /\ Len(value) = Len(key)
  /\ list \in [prev : [Node \cup {head, tail} -> Node \cup {head, Null}],
              next : [Node \cup {head, tail} -> Node \cup {tail, Null}]]
  /\ \A n \in Node \cup {head, tail} :
       (list.prev[n] = Null <=> n = head) /\ (list.next[n] = Null <=> n = tail)
  /\ calls \in Seq([step : {"start", "loaded"}, rq : Request])
  /\ crashed \in BOOLEAN
  /\ served \in 0 .. MaxRequests
  /\ due \in [Users -> Row]
  /\ recent \in Seq(Node)
  /\ mark \in [relinked : BOOLEAN, drifted : BOOLEAN, hollow : BOOLEAN, cut : BOOLEAN,
              lost : SUBSET Users]

Init ==
  /\ used = 0
  /\ size = [u \in Users |-> 0]
  /\ tablets = [u \in Users |-> Null]
  /\ virmem = [u \in Users |-> None]
  /\ key = <<>>
  /\ value = <<>>
  /\ list = [prev |-> [n \in {head, tail} |-> IF n = tail THEN head ELSE Null],
             next |-> [n \in {head, tail} |-> IF n = head THEN tail ELSE Null]]
  /\ calls = <<>>
  /\ crashed = FALSE
  /\ served = 0
  /\ due = [u \in Users |-> EmptyRow]
  /\ recent = <<>>
  /\ mark = [relinked |-> FALSE, drifted |-> FALSE, hollow |-> FALSE, cut |-> FALSE,
              lost |-> {}]

-----------------------------------------------------------------------------
(***************************************************************************)
(* The list.  move_to_tail writes four pointers and looks at none of those *)
(* that lead to the node: whoever calls it has to take the node out first. *)
(***************************************************************************)
\* get_helper's two assignments, in their order
Unlink(l, n) ==
  LET next == [l.next EXCEPT ![l.prev[n]] = l.next[n]]
  IN [prev |-> [l.prev EXCEPT ![next[n]] = l.prev[n]], next |-> next]

\* Fault: next of the node is left as it was.
MoveToTailLoose(l, n) ==
  LET last == l.prev[tail]
  IN [prev |-> [l.prev EXCEPT ![n] = last, ![tail] = n],
      next |-> [l.next EXCEPT ![last] = n]]

MoveToTail(l, n) ==
  LET last == l.prev[tail]
  IN [prev |-> [l.prev EXCEPT ![n] = last, ![tail] = n],
      next |-> [l.next EXCEPT ![last] = n, ![n] = tail]]

\* Room for the pointers of a new node.
WithNode(l, n) ==
  LET with(f) == [m \in DOMAIN f \cup {n} |-> IF m = n THEN Null ELSE f[m]]
  IN [prev |-> with(l.prev), next |-> with(l.next)]

InMemory(u) == tablets[u] # Null
InVirMem(u) == virmem[u] # None
RowOf(u)    == value[tablets[u]]

(***************************************************************************)
(* The comparisons with the capacity are between unsigned numbers: a sum   *)
(* that is negative is larger than any capacity.                           *)
(***************************************************************************)
Exceeds(u, len) == LET sum == size[u] + len IN sum < 0 \/ sum >= Capacity

\* Fault: the memory in use is forgotten.
FitsAlone(len) == len <= Capacity

Fits(len) == LET sum == used + len IN sum >= 0 /\ sum <= Capacity

-----------------------------------------------------------------------------
(***************************************************************************)
(* The stack of calls.                                                     *)
(***************************************************************************)
rq == Head(calls).rq

At(step, kinds) ==
  /\ ~crashed
  /\ calls # <<>>
  /\ Head(calls).step = step
  /\ rq.kind \in kinds

Puts == {"put", "restore"}
Gets == {"get", "cput", "dele", "rename"}

Return == calls' = Tail(calls)

Segfault ==
  /\ crashed' = TRUE
  /\ calls' = <<>>
  /\ UNCHANGED <<cache, served, story>>

Arrive(r) ==
  /\ ~crashed
  /\ calls = <<>>
  /\ served < MaxRequests
  /\ served' = served + 1
  /\ calls' = <<[step |-> "start", rq |-> r]>>
  /\ UNCHANGED <<cache, crashed, story>>

Call(kind, u, f) ==
  [kind |-> kind, user |-> u, file |-> f, to |-> f, len |-> 0, match |-> FALSE]

Receive ==
  \E u \in Users, f \in Files :
    \/ \E len \in Lengths : Arrive([Call("put", u, f) EXCEPT !.len = len])
    \/ Arrive(Call("get", u, f))
    \/ \E len \in Lengths : Arrive([Call("cput", u, f) EXCEPT !.len = len, !.match = TRUE])
    \/ Arrive(Call("cput", u, f))
    \/ Arrive(Call("dele", u, f))
    \/ \E to \in Files \ {f} : Arrive([Call("rename", u, f) EXCEPT !.to = to])
    \/ f = 1 /\ Arrive(Call("list", u, f))

(***************************************************************************)
(* load_user_from_disk: the row leaves virtual memory and restore_user     *)
(* puts its files one after the other, before the call that asked for it   *)
(* goes on.                                                                *)
(***************************************************************************)
\* Fault: the last file of a row is not put back.
RestoresButLast(u) ==
  LET names == FilesOf(virmem[u])
  IN [i \in 1 .. Len(names) - 1 |->
        [step |-> "start", rq |-> [Call("restore", u, names[i]) EXCEPT !.len = virmem[u][names[i]]]]]

Restores(u) ==
  LET names == FilesOf(virmem[u])
  IN [i \in DOMAIN names |->
        [step |-> "start", rq |-> [Call("restore", u, names[i]) EXCEPT !.len = virmem[u][names[i]]]]]

Load ==
  /\ virmem' = [virmem EXCEPT ![rq.user] = None]
  /\ calls' = Restores(rq.user) \o <<[Head(calls) EXCEPT !.step = "loaded"]>> \o Tail(calls)
  /\ UNCHANGED <<memory, heap, crashed, served, story>>

-----------------------------------------------------------------------------
(***************************************************************************)
(* put_helper.  The size of the user is checked and counted for clients'   *)
(* values only, the memory for all.                                        *)
(***************************************************************************)
\* Fault: a row that is loaded is counted again for its user.
ByAnybody == rq.kind # "get"

ByClient == rq.kind \in {"put", "rewrite"}

(***************************************************************************)
(* put looks at the value alone, before put_helper: larger than the whole  *)
(* memory, it is refused, a client's value with an answer he understands,  *)
(* a file of a row that is loaded with one nobody asked for.  That file is *)
(* gone, for its row has left virtual memory.  cput does not call put.     *)
(***************************************************************************)
TooLarge == rq.kind # "rewrite" /\ rq.len > Capacity

PutTooLarge ==
  /\ At("start", Puts) /\ TooLarge
  /\ Return
  /\ IF rq.kind = "restore"
     THEN /\ due' = [due EXCEPT ![rq.user][rq.file] = NoFile]
          /\ mark' = [mark EXCEPT !.cut = TRUE]
     ELSE UNCHANGED <<due, mark>>
  /\ UNCHANGED <<cache, crashed, served, recent>>

Refuse ==
  /\ At("start", {"put", "rewrite"}) /\ ~TooLarge
  /\ Exceeds(rq.user, rq.len)
  /\ Return
  \* cput has already taken the old value off both counts
  /\ mark' = [mark EXCEPT !.drifted = @ \/ rq.kind = "rewrite"]
  /\ UNCHANGED <<cache, crashed, served, due, recent>>

Stored == IF rq.kind = "rewrite" THEN rq.len ELSE RowOf(rq.user)[rq.file] + rq.len

Count ==
  /\ used' = used + rq.len
  /\ size' = IF ByClient THEN [size EXCEPT ![rq.user] = @ + rq.len] ELSE size
  /\ due' = CASE rq.kind = "put"     -> [due EXCEPT ![rq.user][rq.file] = @ + rq.len]
              [] rq.kind = "rewrite" -> [due EXCEPT ![rq.user][rq.file] = rq.len]
              [] rq.kind = "restore" -> due

Accepted == ~TooLarge /\ ~(ByClient /\ Exceeds(rq.user, rq.len)) /\ Fits(rq.len)

PutNew ==
  LET n == Len(key) + 1 IN
  /\ At("start", Puts) /\ Accepted
  /\ ~InMemory(rq.user) /\ ~InVirMem(rq.user)
  /\ key' = Append(key, rq.user)
  /\ value' = Append(value, [EmptyRow EXCEPT ![rq.file] = rq.len])
  /\ tablets' = [tablets EXCEPT ![rq.user] = n]
  /\ list' = MoveToTail(WithNode(list, n), n)
  /\ recent' = Append(recent, n)
  /\ Count /\ Return
  /\ UNCHANGED <<virmem, crashed, served, mark>>

\* Append or rewrite, and move_to_tail of a node that is still in the list.
StoreInRow ==
  LET n == tablets[rq.user] IN
  /\ value' = [value EXCEPT ![n][rq.file] = Stored]
  /\ list' = MoveToTail(list, n)
  /\ recent' = Append(RemoveFirst(recent, n), n)
  /\ mark' = [mark EXCEPT !.relinked = TRUE]
  /\ Count /\ Return
  /\ UNCHANGED <<tablets, virmem, key, crashed, served>>

PutInMemory ==
  /\ At("start", Puts \cup {"rewrite"}) /\ Accepted
  /\ InMemory(rq.user)
  /\ StoreInRow

PutLoads ==
  /\ At("start", Puts) /\ Accepted
  /\ ~InMemory(rq.user) /\ InVirMem(rq.user)
  /\ Load

PutLoaded ==
  /\ At("loaded", Puts)
  /\ IF InMemory(rq.user) THEN StoreInRow ELSE Segfault

(***************************************************************************)
(* use_virtual_memory, called by put until the value fits: the first node  *)
(* of the list goes.  With no node in the list that is the node tail, and  *)
(* what follows it is null.                                                *)
(***************************************************************************)
Full == ~TooLarge /\ ~(ByClient /\ Exceeds(rq.user, rq.len)) /\ ~Fits(rq.len)

\* Fault: the row is not written.
EvictUnwritten ==
  LET n == list.next[head]  u == key[n] IN
  /\ At("start", Puts) /\ Full
  /\ n # tail
  /\ tablets' = [tablets EXCEPT ![u] = Null]
  /\ list' = [prev |-> [list.prev EXCEPT ![list.next[n]] = head],
              next |-> [list.next EXCEPT ![head] = list.next[n]]]
  /\ used' = used - SizeOf(value[n])
  /\ recent' = RemoveFirst(recent, n)
  /\ UNCHANGED <<size, virmem, key, value, calls, crashed, served, due, mark>>

Evict ==
  LET n == list.next[head]  u == key[n] IN
  /\ At("start", Puts) /\ Full
  /\ n # tail
  /\ virmem' = [virmem EXCEPT ![u] = value[n]]
  /\ tablets' = [tablets EXCEPT ![u] = Null]
  /\ list' = [prev |-> [list.prev EXCEPT ![list.next[n]] = head],
              next |-> [list.next EXCEPT ![head] = list.next[n]]]
  /\ used' = used - SizeOf(value[n])
  /\ recent' = RemoveFirst(recent, n)
  /\ mark' = [mark EXCEPT !.hollow = @ \/ value[n] = EmptyRow,
                          !.drifted = @ \/ (tablets[u] # n /\ (InMemory(u) \/ value[n] # EmptyRow)),
                          !.lost = IF tablets[u] = n THEN @ ELSE @ \cup {u}]
  /\ UNCHANGED <<size, key, value, calls, crashed, served, due>>

EvictNothing ==
  /\ At("start", Puts) /\ Full
  /\ list.next[head] = tail
  /\ Segfault

\* cput calls put_helper once: what does not fit is dropped without an answer.
Drop ==
  /\ At("start", {"rewrite"}) /\ Full
  /\ Return
  /\ mark' = [mark EXCEPT !.drifted = TRUE]
  /\ UNCHANGED <<cache, crashed, served, due, recent>>

-----------------------------------------------------------------------------
(***************************************************************************)
(* get_helper and what its callers do with a file that is there.           *)
(***************************************************************************)
\* Fault: the node is not taken out first.
TouchLinked(n) ==
  /\ list' = MoveToTail(list, n)
  /\ recent' = Append(RemoveFirst(recent, n), n)

Touch(n) ==
  /\ list' = MoveToTail(Unlink(list, n), n)
  /\ recent' = Append(RemoveFirst(recent, n), n)

Untouched == UNCHANGED <<memory, value, due, mark>>

Uncount(len) ==
  /\ used' = used - len
  /\ size' = [size EXCEPT ![rq.user] = @ - len]

Compare(n) ==
  \/ /\ ~rq.match
     /\ Return
     /\ Untouched
  \/ /\ rq.match
     /\ Uncount(value[n][rq.file])
     /\ calls' = <<[step |-> "start", rq |-> [rq EXCEPT !.kind = "rewrite"]]>> \o Tail(calls)
     /\ UNCHANGED <<tablets, value, due, mark>>

Erase(n) ==
  LET left == [value[n] EXCEPT ![rq.file] = NoFile] IN
  /\ Uncount(value[n][rq.file])
  /\ value' = [value EXCEPT ![n] = left]
  /\ tablets' = IF left = EmptyRow THEN [tablets EXCEPT ![rq.user] = Null] ELSE tablets
  /\ due' = [due EXCEPT ![rq.user][rq.file] = NoFile]
  /\ Return
  /\ UNCHANGED mark

Moved(row) == [[row EXCEPT ![rq.file] = NoFile] EXCEPT ![rq.to] = row[rq.file]]

\* A file that had the new name is overwritten, and stays counted.
Rename(n) ==
  /\ value' = [value EXCEPT ![n] = Moved(@)]
  /\ due' = [due EXCEPT ![rq.user] = Moved(@)]
  /\ mark' = [mark EXCEPT !.drifted = @ \/ value[n][rq.to] # NoFile]
  /\ Return
  /\ UNCHANGED memory

Access ==
  LET n == tablets[rq.user] IN
  /\ Touch(n)
  /\ \/ /\ value[n][rq.file] = NoFile \/ rq.kind = "get"
        /\ Return
        /\ Untouched
     \/ /\ value[n][rq.file] # NoFile
        /\ \/ rq.kind = "cput"   /\ Compare(n)
           \/ rq.kind = "dele"   /\ Erase(n)
           \/ rq.kind = "rename" /\ Rename(n)
  /\ UNCHANGED <<virmem, key, crashed, served>>

GetInMemory ==
  /\ At("start", Gets)
  /\ InMemory(rq.user) /\ ~InVirMem(rq.user)
  /\ Access

GetLoads ==
  /\ At("start", Gets)
  /\ InVirMem(rq.user)
  /\ Load

GetLoaded ==
  /\ At("loaded", Gets)
  /\ IF InMemory(rq.user) THEN Access ELSE Segfault

\* Fault: a user nobody knows is not answered.
GetNobodyWaits ==
  /\ At("start", Gets)
  /\ ~InMemory(rq.user) /\ ~InVirMem(rq.user)
  /\ UNCHANGED vars

GetNobody ==
  /\ At("start", Gets)
  /\ ~InMemory(rq.user) /\ ~InVirMem(rq.user)
  /\ Return
  /\ UNCHANGED <<cache, crashed, served, story>>

\* getlist, getfile: a get of each file, for users in memory and for no others.
ListFiles ==
  /\ At("start", {"list"})
  /\ calls' = (IF InMemory(rq.user)
               THEN LET names == FilesOf(RowOf(rq.user))
                    IN [i \in DOMAIN names |->
                          [step |-> "start", rq |-> Call("get", rq.user, names[i])]]
               ELSE <<>>) \o Tail(calls)
  /\ UNCHANGED <<cache, crashed, served, story>>

Step ==
  \/ PutTooLarge \/ Refuse \/ PutNew \/ PutInMemory \/ PutLoads \/ PutLoaded
  \/ Evict \/ EvictNothing \/ Drop
  \/ GetInMemory \/ GetLoads \/ GetLoaded \/ GetNobody \/ ListFiles

\* The process is gone, or no more requests come.
Finished == (crashed \/ served = MaxRequests) /\ calls = <<>> /\ UNCHANGED vars

Next == Receive \/ Step \/ Finished

\* A worker goes on with the request it serves.
Spec == Init /\ [][Next]_vars /\ WF_vars(Step)

-----------------------------------------------------------------------------
Quiet == calls = <<>> /\ ~crashed

Held(u) ==
  CASE InMemory(u)                 -> RowOf(u)
    [] ~InMemory(u) /\ InVirMem(u) -> virmem[u]
    [] OTHER                       -> EmptyRow

(***************************************************************************)
(* Eviction and loading lose nothing and double nothing: between requests  *)
(* a user's row is in one place and is what the answers promised, as long  *)
(* as no node left behind by dele (tablets.erase without unlinking) was    *)
(* evicted in the place of that user's row.  What put cuts off a row that  *)
(* is loaded is only a file larger than the memory, and there is one only  *)
(* when user_size has stopped to count what the user has.                  *)
(***************************************************************************)
Kept ==
  /\ Quiet => \A u \in Users :
       /\ ~(InMemory(u) /\ InVirMem(u))
       /\ u \notin mark.lost => Held(u) = due[u]
  /\ mark.cut => mark.drifted

(***************************************************************************)
(* memory_used is the size of the rows in memory and user_size that of a   *)
(* user's row wherever it is, until a cput drops its new value, a rename   *)
(* overwrites a file, or a node left behind by dele is evicted.            *)
(***************************************************************************)
Accounted ==
  Quiet /\ ~mark.drifted =>
    /\ used = SumFunction([u \in Users |-> IF InMemory(u) THEN SizeOf(RowOf(u)) ELSE 0])
    /\ \A u \in Users : size[u] = SizeOf(due[u])

(***************************************************************************)
(* The list is, in both directions, the order in which the nodes were last *)
(* used, so that the row evicted is the least recently used one            *)
(* (lrucache.h:11), until a put to a user in memory moves a node that is   *)
(* still linked.                                                           *)
(***************************************************************************)
LeastRecentFirst ==
  ~crashed /\ ~mark.relinked =>
    LET order == <<head>> \o recent \o <<tail>> IN
    /\ \A i \in 1 .. Len(order) - 1 :
         list.next[order[i]] = order[i + 1] /\ list.prev[order[i + 1]] = order[i]
    /\ \A u \in Users : InMemory(u) => \E i \in DOMAIN recent : recent[i] = tablets[u]

(***************************************************************************)
(* The process follows a null pointer only after one of three things: a    *)
(* put to a user in memory (rows drop out of the list and nothing is left  *)
(* to evict), counts that have drifted from the rows, and the eviction of  *)
(* an empty row (there is no node after it is loaded).                     *)
(***************************************************************************)
CrashHasCause == crashed => mark.relinked \/ mark.drifted \/ mark.hollow

(***************************************************************************)
(* Memory grows past the capacity only in a put that had to load its row:  *)
(* put_helper looks at the capacity before load_user_from_disk fills it.   *)
(***************************************************************************)
OverOnlyByLoading ==
  [][used' > used /\ used' > Capacity => Head(calls).step = "loaded"]_vars

\* Evicting, loading and evicting what was loaded comes to an end.
Answered == (calls # <<>>) ~> (calls = <<>>)
=============================================================================
