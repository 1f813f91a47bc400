------------------------------- MODULE Master -------------------------------
(***************************************************************************)
(* The master (master/master.cc) and the identity of the storage nodes     *)
(* (kvstore/kvstore.cc).                                                   *)
(*                                                                         *)
(* A node that starts sends "!" and its id; the master makes it the        *)
(* primary or the secondary of the pair with that id.  A frontend sends    *)
(* "?" and a user name; the master answers with the primary of the pair    *)
(* that owns the name's key, and puts the secondary in its place when it   *)
(* cannot connect to it.  A node listens only once it has its identity     *)
(* and has loaded its data.  A secondary to which anybody connects takes   *)
(* itself for the primary from then on.                                    *)
(*                                                                         *)
(* The master is one thread: it answers one datagram at a time.            *)
(***************************************************************************)
EXTENDS Ring, FiniteSets

CONSTANTS
  Addr,      \* ip:port of the storage nodes
  NodeId,    \* NodeId[a]: the -i argument a is started with
  Names,     \* user names
  Hash,      \* Hash[nm]: hash_str
  NoAddr     \* the address of a Server nobody has filled in

ASSUME AddrAssumption == NodeId \in [Addr -> Nat] /\ NoAddr \notin Addr
ASSUME NamesAssumption == Hash \in [Names -> Nat]

\* -1 is what get_server_id returns when there is no node
Ids    == {NodeId[a] : a \in Addr} \cup {-1}
Server == Addr \cup {NoAddr}
Pair   == [primary : Server, secondary : Server]
Nobody == [primary |-> NoAddr, secondary |-> NoAddr]

VARIABLES
  \* the storage nodes
  proc,       \* proc[a]: "down", "asking", "starting" or "up" (listening)
  role,       \* role[a]: isPrimary, as "P" or "S"; "none" before it is told
  fetch,      \* fetch[a]: the users whose data a was told to migrate
  \* the master
  inbox,      \* nodes whose "!" it has not read
  ring,       \* the ids in servers
  servers,    \* servers[id], Nobody for the ids not in the ring
  known,      \* the ids in users
  users,      \* users[id], empty for the ids not known
  index,      \* the addresses in server_index
  answer,     \* the last answer to a "?"
  \* history
  stranded,   \* names a joining node should have taken over and did not
  missed      \* nodes that a probe found not listening while they started

nodes   == <<proc, role, fetch>>
master  == <<inbox, ring, servers, known, users, index, answer>>
history == <<stranded, missed>>
vars    == <<nodes, master, history>>

TypeOK ==
  /\ proc \in [Addr -> {"down", "asking", "starting", "up"}]
  /\ role \in [Addr -> {"none", "P", "S"}]
  /\ fetch \in [Addr -> SUBSET Names]
  /\ inbox \subseteq Addr
  /\ ring \subseteq Ids
  /\ servers \in [Ids -> Pair]
  /\ known \subseteq Ids
  /\ users \in [Ids -> SUBSET Names]
  /\ index \subseteq Addr
  /\ answer \in Server
  /\ stranded \subseteq Names
  /\ missed \subseteq Addr
  /\ \A a \in Addr : role[a] = "none" <=> proc[a] \in {"down", "asking"}

Init ==
  /\ proc = [a \in Addr |-> "down"]
  /\ role = [a \in Addr |-> "none"]
  /\ fetch = [a \in Addr |-> {}]
  /\ inbox = {}
  /\ ring = {}
  /\ servers = [n \in Ids |-> Nobody]
  /\ known = {}
  /\ users = [n \in Ids |-> {}]
  /\ index = {}
  /\ answer = NoAddr
  /\ stranded = {}
  /\ missed = {}

-----------------------------------------------------------------------------
(***************************************************************************)
(* The nodes.                                                              *)
(***************************************************************************)
Ask(a) ==
  /\ proc[a] = "down"
  /\ proc' = [proc EXCEPT ![a] = "asking"]
  /\ inbox' = inbox \cup {a}
  /\ UNCHANGED <<role, fetch, ring, servers, known, users, index, answer, history>>

Listen(a) ==
  /\ proc[a] = "starting"
  /\ proc' = [proc EXCEPT ![a] = "up"]
  /\ UNCHANGED <<role, fetch, master, history>>

\* Fault: the identity outlives the process.
CrashKeepsRole(a) ==
  /\ proc[a] # "down"
  /\ proc' = [proc EXCEPT ![a] = "down"]
  /\ fetch' = [fetch EXCEPT ![a] = {}]
  /\ missed' = missed \ {a}
  /\ UNCHANGED <<role, master, stranded>>

Crash(a) ==
  /\ proc[a] # "down"
  /\ proc' = [proc EXCEPT ![a] = "down"]
  /\ role' = [role EXCEPT ![a] = "none"]
  /\ fetch' = [fetch EXCEPT ![a] = {}]
  /\ missed' = missed \ {a}
  /\ UNCHANGED <<master, stranded>>

(***************************************************************************)
(* Whoever connects leaves the node with a live thread, and when main next *)
(* comes round to accept, a secondary makes itself the primary.            *)
(***************************************************************************)
Reachable(s) == s \in Addr /\ proc[s] = "up"

Connect(s) == [a \in Addr |-> IF a = s /\ Reachable(a) THEN "P" ELSE role[a]]

\* A client that was given the address as a primary's.
Contact(a) ==
  /\ Reachable(a)
  /\ answer = a
  /\ role' = Connect(a)
  /\ UNCHANGED <<proc, fetch, master, history>>

(***************************************************************************)
(* The admin console connects to every server it knows of ("A"), and asks  *)
(* for the users of each that accepts ("U"), which creates their entry.    *)
(***************************************************************************)
Inspect(a) ==
  /\ a \in index
  /\ Reachable(a)
  /\ role' = Connect(a)
  /\ known' = known \cup {NodeId[a]}
  /\ UNCHANGED <<proc, fetch, inbox, ring, servers, users, index, answer, history>>

-----------------------------------------------------------------------------
(***************************************************************************)
(* "!": the identity of a node.                                            *)
(***************************************************************************)
ServerId(key) == IF ring = {} THEN -1 ELSE Owner(ring, key)

Told(a, r, names) ==
  /\ inbox' = inbox \ {a}
  /\ index' = index \cup {a}
  /\ IF proc[a] = "asking"
       THEN /\ proc' = [proc EXCEPT ![a] = "starting"]
            /\ role' = [role EXCEPT ![a] = r]
            /\ fetch' = [fetch EXCEPT ![a] = names]
       ELSE UNCHANGED nodes

\* The first node ever, or the first of its id before any user is known.
JoinEmpty(a) ==
  /\ a \in inbox /\ NodeId[a] \notin ring
  /\ known = {}
  /\ Told(a, "P", {})
  /\ ring' = ring \cup {NodeId[a]}
  /\ servers' = [servers EXCEPT ![NodeId[a]] = [primary |-> a, secondary |-> NoAddr]]
  /\ UNCHANGED <<known, users, answer, history>>

(***************************************************************************)
(* A new id once users are known: the node is told to fetch, from the node *)
(* that owns its id as a key, the users whose key is below the id.         *)
(***************************************************************************)
\* Fault: a key equal to the id is taken for one below it.
FetchedInclusive(n) == {nm \in users[ServerId(n)] : Hash[nm] <= n}

Fetched(n) == {nm \in users[ServerId(n)] : Hash[nm] < n}

\* What it needs of the users recorded there.
Needed(n)  == {nm \in users[ServerId(n)] : Owner(ring \cup {n}, Hash[nm]) = n}

\* Fault: the names handed over stay recorded with the old owner.
JoinKeeping(a) ==
  /\ a \in inbox /\ NodeId[a] \notin ring
  /\ known # {}
  /\ Told(a, "P", Fetched(NodeId[a]))
  /\ known' = known \cup {ServerId(NodeId[a])}
  /\ ring' = ring \cup {NodeId[a]}
  /\ servers' = [servers EXCEPT ![NodeId[a]] = [primary |-> a, secondary |-> NoAddr]]
  /\ stranded' = stranded \cup (Needed(NodeId[a]) \ Fetched(NodeId[a]))
  /\ UNCHANGED <<users, answer, missed>>

Join(a) ==
  /\ a \in inbox /\ NodeId[a] \notin ring
  /\ known # {}
  /\ Told(a, "P", Fetched(NodeId[a]))
  /\ known' = known \cup {ServerId(NodeId[a])}
  /\ users' = [users EXCEPT ![ServerId(NodeId[a])] = @ \ Fetched(NodeId[a])]
  /\ ring' = ring \cup {NodeId[a]}
  /\ servers' = [servers EXCEPT ![NodeId[a]] = [primary |-> a, secondary |-> NoAddr]]
  /\ stranded' = stranded \cup (Needed(NodeId[a]) \ Fetched(NodeId[a]))
  /\ UNCHANGED <<answer, missed>>

(***************************************************************************)
(* An id the master has: probe the primary.  While it can be reached the   *)
(* node is its secondary; otherwise the secondary, if there is one,        *)
(* becomes the primary, and the node its secondary.                        *)
(***************************************************************************)
Starting(s) == {a \in Addr : a = s /\ proc[a] = "starting"}

Rejoin(a) ==
  /\ a \in inbox /\ NodeId[a] \in ring
  /\ LET pair == servers[NodeId[a]]
         new  == IF Reachable(pair.primary)
                   THEN [pair EXCEPT !.secondary = a]
                 ELSE IF pair.secondary = NoAddr
                   THEN [pair EXCEPT !.primary = a]
                   ELSE [primary |-> pair.secondary, secondary |-> a]
         r    == IF ~Reachable(pair.primary) /\ pair.secondary = NoAddr THEN "P" ELSE "S"
         heard == Connect(pair.primary)
     IN /\ servers' = [servers EXCEPT ![NodeId[a]] = new]
        /\ inbox' = inbox \ {a}
        /\ index' = index \cup {a}
        /\ IF proc[a] = "asking"
             THEN /\ proc' = [proc EXCEPT ![a] = "starting"]
                  /\ role' = [heard EXCEPT ![a] = r]
                  /\ fetch' = [fetch EXCEPT ![a] = {}]
             ELSE role' = heard /\ UNCHANGED <<proc, fetch>>
        /\ missed' = (missed \ {a}) \cup Starting(pair.primary)
  /\ UNCHANGED <<ring, known, users, answer, stranded>>

-----------------------------------------------------------------------------
(***************************************************************************)
(* "?": record the name with the node that owns its key, probe that node's *)
(* primary, and answer.  With no node at all the owner is -1, and a pair   *)
(* of that id comes into being.                                            *)
(***************************************************************************)
\* Fault: the secondary takes over although the primary answers.
LookupInverted(nm) ==
  LET n    == ServerId(Hash[nm])
      pair == servers[n]
      new  == IF ~Reachable(pair.primary) THEN pair
              ELSE [primary |-> pair.secondary, secondary |-> NoAddr]
  IN /\ ring' = ring \cup {n}
     /\ known' = known \cup {n}
     /\ users' = [users EXCEPT ![n] = @ \cup {nm}]
     /\ servers' = [servers EXCEPT ![n] = new]
     /\ answer' = new.primary
     /\ role' = Connect(pair.primary)
     /\ missed' = missed \cup Starting(pair.primary)
     /\ UNCHANGED <<proc, fetch, inbox, index, stranded>>

Lookup(nm) ==
  LET n    == ServerId(Hash[nm])
      pair == servers[n]
      new  == IF Reachable(pair.primary) THEN pair
              ELSE [primary |-> pair.secondary, secondary |-> NoAddr]
  IN /\ ring' = ring \cup {n}
     /\ known' = known \cup {n}
     /\ users' = [users EXCEPT ![n] = @ \cup {nm}]
     /\ servers' = [servers EXCEPT ![n] = new]
     /\ answer' = new.primary
     /\ role' = Connect(pair.primary)
     /\ missed' = missed \cup Starting(pair.primary)
     /\ UNCHANGED <<proc, fetch, inbox, index, stranded>>

Next == \/ \E a \in Addr : \/ Ask(a) \/ Listen(a) \/ Crash(a)
                           \/ Contact(a) \/ Inspect(a)
                           \/ JoinEmpty(a) \/ Join(a) \/ Rejoin(a)
        \/ \E nm \in Names : Lookup(nm)

Spec == Init /\ [][Next]_vars

-----------------------------------------------------------------------------
(***************************************************************************)
(* Every name the master has recorded is recorded with the node it sends   *)
(* that name's requests to, unless a join left it behind: this is what     *)
(* makes the list handed to the next node that joins the right one.        *)
(***************************************************************************)
NamesAtOwners == \A n \in Ids : \A nm \in users[n] \ stranded :
                   n \in ring /\ Owner(ring, Hash[nm]) = n

(***************************************************************************)
(* A node that joins between two others is handed exactly the names that   *)
(* become its own.                                                         *)
(***************************************************************************)
Between(n) == (\E m \in ring : m < n) /\ (\E m \in ring : m > n)

Joins(a) == a \in inbox /\ a \notin inbox' /\ proc[a] = "asking" /\ NodeId[a] \notin ring

SplitsExactly == [][\A a \in Addr : Joins(a) /\ Between(NodeId[a]) =>
                      fetch'[a] \ stranded = Needed(NodeId[a]) \ stranded]_vars

(***************************************************************************)
(* A node that listens is in the table, as primary or secondary of its     *)
(* pair, unless it was probed before it listened.                          *)
(***************************************************************************)
Listed(a) == LET pair == servers[NodeId[a]] IN a \in {pair.primary, pair.secondary}

UpIsListed == \A a \in Addr : Reachable(a) /\ a \notin missed => Listed(a)
=============================================================================
