--------------------------- MODULE Master_proofs ---------------------------
(***************************************************************************)
(* Theorems about the ring of the master and about what it records.        *)
(***************************************************************************)
EXTENDS Master, FiniteSetTheorems, TLAPS

(***************************************************************************)
(* A nonempty set of naturals has a least element: the intervals 0..n for  *)
(* n in T have one that strictly includes no other.                        *)
(***************************************************************************)
LEMMA Minimum ==
  ASSUME NEW T, T \subseteq Nat, T # {}
  PROVE  \E x \in T : \A y \in T : x <= y
<1> DEFINE F == {0 .. n : n \in T}
<1>1. F # {} /\ F \subseteq FiniteSubsetsOf(Nat)
  <2>1. \A n \in Nat : IsFiniteSet(0 .. n) /\ 0 .. n \subseteq Nat
    BY FS_Interval
  <2> QED BY <2>1 DEF FiniteSubsetsOf
<1>2. \E X \in F : \A Y \in F : <<Y, X>> \notin StrictSubsetOrdering(Nat)
  <2> HIDE DEF F
  <2> QED BY <1>1, FS_StrictSubsetOrderingWellFounded, WFMin, Zenon
<1>3. PICK x \in T : \A y \in T : <<0 .. y, 0 .. x>> \notin StrictSubsetOrdering(Nat)
  BY <1>2
<1>4. ASSUME NEW y \in T, y < x PROVE FALSE
  <2>1. 0 .. y \subseteq 0 .. x /\ 0 .. x \subseteq Nat /\ x \in 0 .. x /\ x \notin 0 .. y
    BY <1>4, SMT
  <2> QED BY <1>3, <2>1 DEF StrictSubsetOrdering
<1> QED BY <1>4

\* Node ids: naturals, and -1.
RingId == Nat \cup {-1}

-----------------------------------------------------------------------------
(***************************************************************************)
(* Least elements.                                                         *)
(***************************************************************************)
LEMMA LeastIs ==
  ASSUME NEW S, S \subseteq RingId, S # {}
  PROVE  Least(S) \in S /\ \A m \in S : Least(S) <= m
<1> DEFINE T == {n + 1 : n \in S}
<1>1. T \subseteq Nat /\ T # {}
  <2>1. \A n \in S : n + 1 \in Nat
    BY DEF RingId
  <2> QED BY <2>1
<1>2. PICK t \in T : \A u \in T : t <= u
  <2> HIDE DEF T
  <2> QED BY <1>1, Minimum
<1>3. PICK n \in S : t = n + 1
  OBVIOUS
<1>4. \A m \in S : n <= m
  BY <1>2, <1>3 DEF RingId
<1> QED BY <1>4 DEF Least

LEMMA LeastUnique ==
  ASSUME NEW S, S \subseteq RingId, NEW n \in S, \A m \in S : n <= m
  PROVE  Least(S) = n
<1>1. Least(S) \in S /\ Least(S) <= n
  BY LeastIs
<1>2. n <= Least(S)
  BY <1>1
<1>3. n \in Int /\ Least(S) \in Int
  <2>1. RingId \subseteq Int
    BY DEF RingId
  <2> QED BY <1>1, <2>1
<1> QED BY <1>1, <1>2, <1>3

LEMMA OwnerIn ==
  ASSUME NEW ring0, ring0 \subseteq RingId, ring0 # {}, NEW key \in Nat
  PROVE  Owner(ring0, key) \in ring0
BY LeastIs DEF Owner, Above

(***************************************************************************)
(* Consistent hashing: a new id takes keys from other ids, and moves none  *)
(* between them (get_server_id).                                           *)
(***************************************************************************)
THEOREM OwnerIsStable ==
  ASSUME NEW ring0, ring0 \subseteq RingId, ring0 # {},
         NEW n \in RingId, NEW key \in Nat
  PROVE  Owner(ring0 \cup {n}, key) \in {Owner(ring0, key), n}
<1> DEFINE new == ring0 \cup {n}
<1>1. new \subseteq RingId /\ new # {}
  OBVIOUS
<1>2. CASE Above(new, key) = {}
  <2>1. Above(ring0, key) = {}
    BY <1>2 DEF Above
  <2>2. Owner(new, key) = Least(new) /\ Owner(ring0, key) = Least(ring0)
    BY <1>2, <2>1 DEF Owner
  <2>3. Least(new) \in new /\ \A m \in new : Least(new) <= m
    BY <1>1, LeastIs
  <2>4. Least(new) # n => Least(ring0) = Least(new)
    BY <2>3, LeastUnique
  <2> QED BY <2>2, <2>4
<1>3. CASE Above(new, key) # {}
  <2> DEFINE o == Least(Above(new, key))
  <2>1. Above(new, key) \subseteq RingId
    BY <1>1 DEF Above
  <2>2. Owner(new, key) = o
    BY <1>3 DEF Owner
  <2>3. o \in Above(new, key) /\ \A m \in Above(new, key) : o <= m
    BY <1>3, <2>1, LeastIs
  <2>4. CASE o # n
    <3>1. Above(ring0, key) \subseteq Above(new, key) /\ o \in Above(ring0, key)
      BY <2>3, <2>4 DEF Above
    <3>2. Least(Above(ring0, key)) = o
      BY <2>1, <2>3, <3>1, LeastUnique
    <3> QED BY <2>2, <3>1, <3>2 DEF Owner
  <2> QED BY <2>2, <2>4
<1> QED BY <1>2, <1>3

(***************************************************************************)
(* The keys a new id takes come from one node only: the owner of the id as *)
(* a key, which is where the master looks for them.                        *)
(***************************************************************************)
LEMMA OwnerIsSplit ==
  ASSUME NEW ring0, ring0 \subseteq RingId, ring0 # {},
         NEW n \in Nat, n \notin ring0, NEW key \in Nat,
         Owner(ring0 \cup {n}, key) = n
  PROVE  Owner(ring0, n) = Owner(ring0, key)
<1> DEFINE new == ring0 \cup {n}
<1> new \subseteq RingId /\ new # {}
  BY DEF RingId
<1>1. CASE Above(new, key) = {}
  <2>1. Least(new) = n
    BY <1>1 DEF Owner
  <2>2. \A m \in new : n <= m
    BY <2>1, LeastIs
  <2>3. Above(ring0, key) = {} /\ Above(ring0, n) = ring0
    <3>1. \A m \in ring0 : m > n
      BY <2>2 DEF RingId
    <3> QED BY <1>1, <3>1 DEF Above
  <2> QED BY <2>3 DEF Owner
<1>2. CASE Above(new, key) # {}
  <2>1. Above(new, key) \subseteq RingId
    BY DEF Above
  <2>2. n \in Above(new, key) /\ \A m \in Above(new, key) : n <= m
    BY <1>2, <2>1, LeastIs DEF Owner
  <2>3. Above(ring0, n) = Above(ring0, key)
    <3>1. n > key
      BY <2>2 DEF Above
    <3>2. ASSUME NEW m \in ring0, m > key PROVE m > n
      <4>1. n <= m
        BY <2>2, <3>2 DEF Above
      <4> QED BY <4>1 DEF RingId
    <3>3. \A m \in ring0 : m > n => m > key
      BY <3>1 DEF RingId
    <3> QED BY <3>2, <3>3 DEF Above
  <2> QED BY <2>3 DEF Owner
<1> QED BY <1>1, <1>2

(***************************************************************************)
(* Between two ids of the ring, what a new id takes from its owner are the *)
(* keys below it.                                                          *)
(***************************************************************************)
LEMMA SplitBelow ==
  ASSUME NEW ring0, ring0 \subseteq RingId,
         NEW n \in Nat, n \notin ring0, NEW key \in Nat,
         NEW low \in ring0, low < n, NEW high \in ring0, high > n,
         Owner(ring0, n) = Owner(ring0, key)
  PROVE  key < n <=> Owner(ring0 \cup {n}, key) = n
<1> DEFINE new == ring0 \cup {n}
<1> new \subseteq RingId
  BY DEF RingId
<1>1. CASE key < n
  <2>1. Above(ring0, n) \subseteq RingId /\ Above(ring0, n) # {}
    BY DEF Above
  <2>2. Owner(ring0, n) > n
    BY <2>1, LeastIs DEF Owner, Above
  <2>3. Above(ring0, key) \subseteq RingId /\ Above(ring0, key) # {}
    <3>1. high > key
      BY <1>1 DEF RingId
    <3> QED BY <3>1 DEF Above
  <2>4. \A m \in Above(ring0, key) : Owner(ring0, key) <= m
    BY <2>3, LeastIs DEF Owner
  <2>5. \A m \in Above(new, key) : n <= m
    <3> SUFFICES ASSUME NEW m \in Above(new, key), m # n PROVE n <= m
      BY DEF RingId
    <3>1. m \in Above(ring0, key) /\ m \in RingId
      BY DEF Above
    <3>2. Owner(ring0, key) \in RingId
      BY <2>3, LeastIs DEF Owner
    <3> QED BY <2>2, <2>4, <3>1, <3>2 DEF RingId
  <2>6. n \in Above(new, key) /\ Above(new, key) \subseteq RingId
    BY <1>1 DEF Above
  <2>7. Least(Above(new, key)) = n
    BY <2>5, <2>6, LeastUnique
  <2> QED BY <1>1, <2>6, <2>7 DEF Owner
<1>2. CASE ~(key < n)
  <2>1. n \notin Above(new, key)
    BY <1>2 DEF Above
  <2>2. CASE Above(new, key) = {}
    <3>1. Least(new) <= low
      BY LeastIs
    <3> QED BY <1>2, <2>2, <3>1 DEF Owner, RingId
  <2>3. CASE Above(new, key) # {}
    <3>1. Least(Above(new, key)) \in Above(new, key)
      <4>1. Above(new, key) \subseteq RingId
        BY DEF Above
      <4> QED BY <2>3, <4>1, LeastIs
    <3> QED BY <1>2, <2>1, <2>3, <3>1 DEF Owner
  <2> QED BY <2>2, <2>3
<1> QED BY <1>1, <1>2
-----------------------------------------------------------------------------
(***************************************************************************)
(* Type correctness of the master and of the nodes' identities.            *)
(***************************************************************************)
LEMMA IdsAreRingIds == Ids \subseteq RingId /\ -1 \in Ids /\ \A a \in Addr : NodeId[a] \in Ids
BY AddrAssumption DEF Ids, RingId

LEMMA ServerIdType ==
  ASSUME TypeOK, NEW key \in Nat
  PROVE  ServerId(key) \in Ids /\ (ring # {} => ServerId(key) \in ring)
BY OwnerIn, IdsAreRingIds DEF TypeOK, ServerId

LEMMA PairTypes ==
  ASSUME TypeOK, NEW n \in Ids
  PROVE  servers[n].primary \in Server /\ servers[n].secondary \in Server
BY DEF TypeOK, Pair

LEMMA ConnectType ==
  ASSUME TypeOK, NEW s
  PROVE  /\ Connect(s) \in [Addr -> {"none", "P", "S"}]
         /\ \A a \in Addr : Connect(s)[a] = "none" <=> proc[a] \in {"down", "asking"}
BY DEF TypeOK, Connect, Reachable

LEMMA ToldType ==
  ASSUME TypeOK, NEW a \in Addr, NEW r \in {"P", "S"}, NEW names \in SUBSET Names,
         Told(a, r, names)
  PROVE  /\ inbox' \subseteq Addr /\ index' \subseteq Addr
         /\ proc' \in [Addr -> {"down", "asking", "starting", "up"}]
         /\ role' \in [Addr -> {"none", "P", "S"}]
         /\ fetch' \in [Addr -> SUBSET Names]
         /\ \A b \in Addr : role'[b] = "none" <=> proc'[b] \in {"down", "asking"}
BY DEF TypeOK, Told, nodes

LEMMA TypesStep ==
  ASSUME TypeOK, [Next]_vars
  PROVE  TypeOK'
<1> USE IdsAreRingIds
<1>1. CASE UNCHANGED vars
  BY <1>1 DEF TypeOK, vars, nodes, master, history
<1>2. ASSUME NEW a \in Addr, Ask(a) PROVE TypeOK'
  BY <1>2 DEF TypeOK, Ask, history
<1>3. ASSUME NEW a \in Addr, Listen(a) PROVE TypeOK'
  BY <1>3 DEF TypeOK, Listen, master, history
<1>4. ASSUME NEW a \in Addr, Crash(a) PROVE TypeOK'
  BY <1>4 DEF TypeOK, Crash, master
<1>5. ASSUME NEW a \in Addr, Contact(a) PROVE TypeOK'
  BY <1>5, ConnectType DEF TypeOK, Contact, master, history
<1>6. ASSUME NEW a \in Addr, Inspect(a) PROVE TypeOK'
  BY <1>6, ConnectType DEF TypeOK, Inspect, history
<1>7. ASSUME NEW a \in Addr, JoinEmpty(a) PROVE TypeOK'
  <2>1. [primary |-> a, secondary |-> NoAddr] \in Pair
    BY DEF Pair, Server
  <2> QED BY <1>7, <2>1, ToldType DEF TypeOK, JoinEmpty, history
<1>8. ASSUME NEW a \in Addr, Join(a) PROVE TypeOK'
  <2>1. [primary |-> a, secondary |-> NoAddr] \in Pair
    BY DEF Pair, Server
  <2>2. ServerId(NodeId[a]) \in Ids
    BY ServerIdType, AddrAssumption
  <2>3. Fetched(NodeId[a]) \in SUBSET Names /\ Needed(NodeId[a]) \in SUBSET Names
    BY <2>2 DEF Fetched, Needed, TypeOK
  <2>4. users' \in [Ids -> SUBSET Names]
    BY <1>8, <2>2 DEF TypeOK, Join
  <2> QED BY <1>8, <2>1, <2>2, <2>3, <2>4, ToldType DEF TypeOK, Join
<1>9. ASSUME NEW a \in Addr, Rejoin(a) PROVE TypeOK'
  <2> DEFINE pair == servers[NodeId[a]]
  <2>1. pair \in Pair /\ pair.primary \in Server /\ pair.secondary \in Server
    BY PairTypes DEF TypeOK
  <2>2. servers' \in [Ids -> Pair]
    <3>1. /\ [pair EXCEPT !.secondary = a] \in Pair
          /\ [pair EXCEPT !.primary = a] \in Pair
          /\ [primary |-> pair.secondary, secondary |-> a] \in Pair
      BY <2>1 DEF Pair, Server
    <3> QED BY <1>9, <3>1 DEF Rejoin, TypeOK
  <2>3. Connect(pair.primary) \in [Addr -> {"none", "P", "S"}]
    BY ConnectType
  <2>4. /\ proc' \in [Addr -> {"down", "asking", "starting", "up"}]
        /\ role' \in [Addr -> {"none", "P", "S"}]
        /\ fetch' \in [Addr -> SUBSET Names]
    BY <1>9, <2>3 DEF Rejoin, TypeOK
  <2>6. \A b \in Addr : role'[b] = "none" <=> proc'[b] \in {"down", "asking"}
    BY <1>9, <2>3, ConnectType DEF Rejoin, TypeOK
  <2>5. missed' \subseteq Addr
    BY <1>9 DEF Rejoin, TypeOK, Starting
  <2> QED BY <1>9, <2>2, <2>4, <2>5, <2>6 DEF TypeOK, Rejoin
<1>10. ASSUME NEW nm \in Names, Lookup(nm) PROVE TypeOK'
  <2> DEFINE n    == ServerId(Hash[nm])
             pair == servers[n]
  <2>1. n \in Ids
    BY ServerIdType, NamesAssumption
  <2>2. pair \in Pair /\ pair.primary \in Server /\ pair.secondary \in Server
    BY <2>1, PairTypes DEF TypeOK
  <2>3. servers' \in [Ids -> Pair] /\ answer' \in Server
    <3>1. [primary |-> pair.secondary, secondary |-> NoAddr] \in Pair
      BY <2>2 DEF Pair, Server
    <3> QED BY <1>10, <2>1, <2>2, <3>1 DEF Lookup, TypeOK
  <2>4. users' \in [Ids -> SUBSET Names]
    BY <1>10, <2>1 DEF Lookup, TypeOK
  <2>5. role' \in [Addr -> {"none", "P", "S"}]
    BY <1>10, ConnectType DEF Lookup
  <2>6. \A b \in Addr : role'[b] = "none" <=> proc'[b] \in {"down", "asking"}
    BY <1>10, ConnectType DEF Lookup
  <2> QED BY <1>10, <2>1, <2>3, <2>4, <2>5, <2>6 DEF TypeOK, Lookup, Starting
<1> QED BY <1>1, <1>2, <1>3, <1>4, <1>5, <1>6, <1>7, <1>8, <1>9, <1>10 DEF Next

\* Every variable of the master and of its nodes keeps its type.
THEOREM MasterTypes == Spec => []TypeOK
<1>1. Init => TypeOK
  BY IdsAreRingIds DEF Init, TypeOK, Pair, Nobody, Server
<1>2. TypeOK /\ [Next]_vars => TypeOK'
  BY TypesStep
<1> QED BY <1>1, <1>2, PTL DEF Spec

-----------------------------------------------------------------------------
(***************************************************************************)
(* What is recorded is recorded with the owner.  The invariant adds that   *)
(* only the ids in users have names: a node joins without a look at them   *)
(* when there are none.                                                    *)
(***************************************************************************)
RecordedInv == \A n \in Ids : users[n] # {} => n \in known

NamesInv == TypeOK /\ NamesAtOwners /\ RecordedInv

LEMMA NamesStep ==
  ASSUME NamesInv, [Next]_vars
  PROVE  NamesInv'
<1> USE IdsAreRingIds DEF NamesInv
<1>0. TypeOK'
  BY TypesStep
<1>1. CASE UNCHANGED <<ring, known, users, stranded>>
  BY <1>0, <1>1 DEF NamesAtOwners, RecordedInv
<1>2. ASSUME NEW a \in Addr, Inspect(a) PROVE NamesInv'
  BY <1>0, <1>2 DEF Inspect, history, NamesAtOwners, RecordedInv
<1>3. ASSUME NEW a \in Addr, JoinEmpty(a) PROVE NamesInv'
  <2>1. \A n \in Ids : users[n] = {}
    BY <1>3 DEF JoinEmpty, RecordedInv
  <2>2. users' = users
    BY <1>3 DEF JoinEmpty
  <2> QED BY <1>0, <2>1, <2>2 DEF NamesAtOwners, RecordedInv
<1>4. ASSUME NEW a \in Addr, Join(a) PROVE NamesInv'
  <2> DEFINE n == NodeId[a]
             s == ServerId(n)
  <2>1. n \in Nat /\ n \in Ids /\ n \notin ring
    BY <1>4, AddrAssumption DEF Join
  <2>2. s \in Ids
    BY <2>1, ServerIdType
  <2>3. ring' = ring \cup {n} /\ ring \subseteq RingId
    BY <1>4 DEF Join, TypeOK
  <2>4. /\ known' = known \cup {s}
        /\ users' = [users EXCEPT ![s] = @ \ Fetched(n)]
        /\ stranded' = stranded \cup (Needed(n) \ Fetched(n))
    BY <1>4 DEF Join
  <2>5. \A i \in Ids : users'[i] \subseteq users[i]
    BY <2>2, <2>4 DEF TypeOK
  <2>6. NamesAtOwners'
    <3> SUFFICES ASSUME NEW m \in Ids, NEW nm \in users'[m], nm \notin stranded'
                 PROVE  m \in ring' /\ Owner(ring', Hash[nm]) = m
      BY DEF NamesAtOwners
    <3>1. nm \in users[m] /\ nm \notin stranded /\ nm \in Names /\ Hash[nm] \in Nat
      BY <2>4, <2>5, NamesAssumption DEF TypeOK
    <3>2. m \in ring /\ Owner(ring, Hash[nm]) = m
      BY <3>1 DEF NamesAtOwners
    <3>3. CASE Owner(ring', Hash[nm]) # n
      <4>1. Owner(ring', Hash[nm]) \in {Owner(ring, Hash[nm]), n}
        BY <2>1, <2>3, <3>1, <3>2, OwnerIsStable DEF RingId
      <4> QED BY <2>3, <3>2, <3>3, <4>1
    <3>4. CASE Owner(ring', Hash[nm]) = n
      <4>1. Owner(ring, n) = m
        BY <2>1, <2>3, <3>1, <3>2, <3>4, OwnerIsSplit
      <4>2. s = m
        BY <3>2, <4>1 DEF ServerId
      <4>3. nm \in Needed(n)
        BY <2>3, <3>1, <3>4, <4>2 DEF Needed
      <4>4. nm \in Fetched(n)
        BY <2>4, <4>3
      <4>5. nm \notin users'[s]
        BY <2>2, <2>4, <4>4 DEF TypeOK
      <4> QED BY <4>2, <4>5
    <3> QED BY <3>3, <3>4
  <2>7. RecordedInv'
    BY <2>4, <2>5 DEF RecordedInv
  <2> QED BY <1>0, <2>6, <2>7
<1>5. ASSUME NEW nm \in Names, Lookup(nm) PROVE NamesInv'
  <2> DEFINE key == Hash[nm]
             n   == ServerId(key)
  <2>1. key \in Nat /\ n \in Ids
    BY ServerIdType, NamesAssumption
  <2>2. /\ ring' = ring \cup {n}
        /\ known' = known \cup {n}
        /\ users' = [users EXCEPT ![n] = @ \cup {nm}]
        /\ stranded' = stranded
    BY <1>5 DEF Lookup
  <2>3. RecordedInv'
    BY <2>1, <2>2 DEF RecordedInv, TypeOK
  <2>4. n \in ring' /\ Owner(ring', key) = n
    <3>1. CASE ring = {}
      <4>1. n = -1 /\ ring' = {-1}
        BY <2>2, <3>1 DEF ServerId
      <4>2. Above({-1}, key) = {}
        BY <2>1 DEF Above
      <4>3. Least({-1}) = -1
        BY LeastUnique DEF RingId
      <4> QED BY <4>1, <4>2, <4>3 DEF Owner
    <3>2. CASE ring # {}
      <4>1. n = Owner(ring, key) /\ n \in ring
        BY <2>1, <3>2, ServerIdType DEF ServerId
      <4> QED BY <2>2, <4>1
    <3> QED BY <3>1, <3>2
  <2>5. NamesAtOwners'
    <3> SUFFICES ASSUME NEW m \in Ids, NEW x \in users'[m], x \notin stranded
                 PROVE  m \in ring' /\ Owner(ring', Hash[x]) = m
      BY <2>2 DEF NamesAtOwners
    <3>1. CASE m = n /\ x = nm
      BY <2>4, <3>1
    <3>2. CASE ~(m = n /\ x = nm)
      <4>1. x \in users[m]
        BY <2>1, <2>2, <3>2 DEF TypeOK
      <4>2. m \in ring /\ Owner(ring, Hash[x]) = m
        BY <4>1 DEF NamesAtOwners
      <4>3. n \in ring
        BY <2>1, <4>2, ServerIdType
      <4> QED BY <2>2, <4>2, <4>3
    <3> QED BY <3>1, <3>2
  <2> QED BY <1>0, <2>3, <2>5
<1>6. ASSUME NEW a \in Addr, Ask(a) \/ Listen(a) \/ Crash(a) \/ Contact(a) \/ Rejoin(a)
      PROVE  UNCHANGED <<ring, known, users, stranded>>
  BY <1>6 DEF Ask, Listen, Crash, Contact, Rejoin, master, history
<1>7. CASE UNCHANGED vars
  BY <1>1, <1>7 DEF vars, master, history
<1> QED BY <1>1, <1>2, <1>3, <1>4, <1>5, <1>6, <1>7 DEF Next

(***************************************************************************)
(* Whatever nodes join, crash and come back, every name the master has     *)
(* recorded and no join has left behind is recorded with the owner of its  *)
(* key.                                                                    *)
(***************************************************************************)
THEOREM NamesAreAtOwners == Spec => []NamesAtOwners
<1>1. Init => NamesInv
  <2>1. Init => TypeOK
    BY IdsAreRingIds DEF Init, TypeOK, Pair, Nobody, Server
  <2> QED BY <2>1 DEF Init, NamesInv, NamesAtOwners, RecordedInv
<1>2. NamesInv /\ [Next]_vars => NamesInv'
  BY NamesStep
<1>3. NamesInv => NamesAtOwners
  BY DEF NamesInv
<1> QED BY <1>1, <1>2, <1>3, PTL DEF Spec

(***************************************************************************)
(* A node that joins between two others is told to fetch exactly the       *)
(* recorded names that become its own, leaving aside those that an earlier *)
(* join left behind.                                                       *)
(***************************************************************************)
LEMMA SplitStep ==
  ASSUME NamesInv, [Next]_vars, NEW a \in Addr, Joins(a), Between(NodeId[a])
  PROVE  fetch'[a] \ stranded = Needed(NodeId[a]) \ stranded
<1> DEFINE n == NodeId[a]
           s == ServerId(n)
<1> USE IdsAreRingIds DEF NamesInv
<1>1. JoinEmpty(a) \/ Join(a)
  <2>1. ASSUME NEW b \in Addr, JoinEmpty(b) \/ Join(b) \/ Rejoin(b)
        PROVE  b = a
    BY <2>1 DEF Joins, JoinEmpty, Join, Rejoin, Told, TypeOK
  <2>2. ASSUME NEW b \in Addr, Ask(b) \/ Listen(b) \/ Crash(b) \/ Contact(b) \/ Inspect(b)
        PROVE  a \in inbox'
    BY <2>2 DEF Joins, Ask, Listen, Crash, Contact, Inspect, master
  <2>3. ASSUME NEW nm \in Names, Lookup(nm)
        PROVE  a \in inbox'
    BY <2>3 DEF Joins, Lookup
  <2>4. ~UNCHANGED vars /\ ~Rejoin(a)
    BY DEF Joins, vars, master, Rejoin
  <2> QED BY <2>1, <2>2, <2>3, <2>4 DEF Next, Joins
<1>2. n \in Nat /\ n \notin ring /\ ring \subseteq RingId /\ ring # {} /\ s \in Ids
  BY ServerIdType, AddrAssumption DEF Joins, Between, TypeOK
<1>3. CASE JoinEmpty(a)
  <2>1. fetch'[a] = {}
    BY <1>3 DEF JoinEmpty, Told, Joins, TypeOK
  <2>2. users[s] = {}
    BY <1>2, <1>3 DEF JoinEmpty, RecordedInv
  <2> QED BY <2>1, <2>2 DEF Needed
<1>4. CASE Join(a)
  <2>1. fetch'[a] = Fetched(n)
    BY <1>4 DEF Join, Told, Joins, TypeOK
  <2>2. PICK low \in ring, high \in ring : low < n /\ high > n
    BY DEF Between
  <2>3. ASSUME NEW nm \in users[s], nm \notin stranded
        PROVE  Hash[nm] < n <=> Owner(ring \cup {n}, Hash[nm]) = n
    <3>1. nm \in Names /\ Hash[nm] \in Nat
      BY <1>2, NamesAssumption DEF TypeOK
    <3>2. Owner(ring, Hash[nm]) = s
      BY <1>2, <2>3 DEF NamesAtOwners
    <3>3. Owner(ring, n) = s
      BY <1>2 DEF ServerId
    <3> QED BY <1>2, <2>2, <3>1, <3>2, <3>3, SplitBelow
  <2> QED BY <2>1, <2>3 DEF Fetched, Needed
<1> QED BY <1>1, <1>3, <1>4

THEOREM JoinsSplitExactly == Spec => SplitsExactly
<1>1. Init => NamesInv
  <2>1. Init => TypeOK
    BY IdsAreRingIds DEF Init, TypeOK, Pair, Nobody, Server
  <2> QED BY <2>1 DEF Init, NamesInv, NamesAtOwners, RecordedInv
<1>2. NamesInv /\ [Next]_vars => NamesInv'
  BY NamesStep
<1>3. NamesInv /\ [Next]_vars =>
        [\A a \in Addr : Joins(a) /\ Between(NodeId[a]) =>
           fetch'[a] \ stranded = Needed(NodeId[a]) \ stranded]_vars
  BY SplitStep
<1> QED BY <1>1, <1>2, <1>3, PTL DEF Spec, SplitsExactly

-----------------------------------------------------------------------------
(***************************************************************************)
(* Who listens is listed.  A pair has room for two nodes: of a third with  *)
(* the same id the master would forget one.  The invariant adds that the   *)
(* pairs hold nodes of their own id, that a node has its identity only     *)
(* when its id is in the ring, and that one that still asks has none.      *)
(***************************************************************************)
AtMostTwo ==
  \A a, b, c \in Addr : NodeId[a] = NodeId[b] /\ NodeId[b] = NodeId[c] => a = b \/ b = c \/ a = c

Runs(a) == proc[a] \in {"starting", "up"}

PairsInv ==
  \A n \in Ids : \A a \in Addr : a \in {servers[n].primary, servers[n].secondary} => NodeId[a] = n

RunsInv ==
  \A a \in Addr :
    /\ Runs(a) => NodeId[a] \in ring
    /\ Runs(a) /\ a \notin missed => Listed(a)
    /\ a \in inbox => ~Runs(a)

ListedInv == TypeOK /\ PairsInv /\ RunsInv

LEMMA ListedStep ==
  ASSUME AtMostTwo, ListedInv, [Next]_vars
  PROVE  ListedInv'
<1> USE IdsAreRingIds DEF ListedInv
<1>0. TypeOK'
  BY TypesStep
<1>1. CASE UNCHANGED vars
  BY <1>0, <1>1 DEF PairsInv, RunsInv, Listed, Runs, vars, nodes, master, history
<1>2. ASSUME NEW a \in Addr, Ask(a) PROVE ListedInv'
  BY <1>0, <1>2 DEF Ask, history, PairsInv, RunsInv, Listed, Runs, TypeOK
<1>3. ASSUME NEW a \in Addr, Listen(a) PROVE ListedInv'
  BY <1>0, <1>3 DEF Listen, master, history, PairsInv, RunsInv, Listed, Runs, TypeOK
<1>4. ASSUME NEW a \in Addr, Crash(a) PROVE ListedInv'
  BY <1>0, <1>4 DEF Crash, master, PairsInv, RunsInv, Listed, Runs, TypeOK
<1>5. ASSUME NEW a \in Addr, Contact(a) PROVE ListedInv'
  BY <1>0, <1>5 DEF Contact, master, history, PairsInv, RunsInv, Listed, Runs
<1>6. ASSUME NEW a \in Addr, Inspect(a) PROVE ListedInv'
  BY <1>0, <1>6 DEF Inspect, history, PairsInv, RunsInv, Listed, Runs
<1>7. ASSUME NEW a \in Addr, JoinEmpty(a) \/ Join(a) PROVE ListedInv'
  <2> DEFINE n == NodeId[a]
  <2>1. n \in Nat /\ n \in Ids /\ n \notin ring /\ a \in inbox
    BY <1>7, AddrAssumption DEF JoinEmpty, Join
  <2>2. /\ ring' = ring \cup {n} /\ missed' = missed /\ inbox' = inbox \ {a}
        /\ servers' = [servers EXCEPT ![n] = [primary |-> a, secondary |-> NoAddr]]
    BY <1>7 DEF JoinEmpty, Join, Told, history
  <2>3. UNCHANGED proc \/ proc' = [proc EXCEPT ![a] = "starting"]
    BY <1>7 DEF JoinEmpty, Join, Told, nodes
  <2>4. /\ servers'[n].primary = a /\ servers'[n].secondary = NoAddr
        /\ \A m \in Ids \ {n} : servers'[m] = servers[m]
    BY <2>1, <2>2 DEF TypeOK
  <2>5. PairsInv'
    BY <2>4, AddrAssumption DEF PairsInv
  <2>6. \A b \in Addr \ {a} : Runs(b)' = Runs(b)
    BY <2>3 DEF Runs, TypeOK
  <2>7. ASSUME NEW b \in Addr
        PROVE  /\ Runs(b)' => NodeId[b] \in ring'
               /\ Runs(b)' /\ b \notin missed' => Listed(b)'
               /\ b \in inbox' => ~Runs(b)'
    <3>1. CASE b = a
      BY <2>2, <2>4, <3>1 DEF Listed
    <3>2. CASE b # a
      <4>1. Runs(b) => NodeId[b] \in Ids \ {n}
        BY <2>1 DEF RunsInv
      <4> QED BY <2>2, <2>4, <2>6, <3>2, <4>1 DEF RunsInv, Listed
    <3> QED BY <3>1, <3>2
  <2> QED BY <1>0, <2>5, <2>7 DEF RunsInv
<1>8. ASSUME NEW a \in Addr, Rejoin(a) PROVE ListedInv'
  <2> DEFINE n == NodeId[a]
             pair == servers[n]
             up == Reachable(pair.primary)
             first == IF up THEN pair.primary
                      ELSE IF pair.secondary = NoAddr THEN a ELSE pair.secondary
             second == IF up \/ pair.secondary # NoAddr THEN a ELSE NoAddr
  <2>1. n \in Ids /\ a \in inbox /\ ~Runs(a) /\ pair \in Pair
    BY <1>8 DEF Rejoin, RunsInv, TypeOK
  <2>2. /\ UNCHANGED ring /\ inbox' = inbox \ {a}
        /\ missed' = (missed \ {a}) \cup Starting(pair.primary)
    BY <1>8 DEF Rejoin
  <2>3. UNCHANGED proc \/ proc' = [proc EXCEPT ![a] = "starting"]
    BY <1>8 DEF Rejoin
  <2>4. servers' = [servers EXCEPT ![n] = IF up THEN [pair EXCEPT !.secondary = a]
                                          ELSE IF pair.secondary = NoAddr
                                          THEN [pair EXCEPT !.primary = a]
                                          ELSE [primary |-> pair.secondary, secondary |-> a]]
    BY <1>8 DEF Rejoin
  <2>5. /\ servers'[n].primary = first /\ servers'[n].secondary = second
        /\ \A m \in Ids \ {n} : servers'[m] = servers[m]
    BY <2>1, <2>4 DEF TypeOK, Pair
  <2>6. PairsInv'
    BY <2>1, <2>5, AddrAssumption DEF PairsInv
  <2>7. \A b \in Addr \ {a} : Runs(b)' = Runs(b)
    BY <2>3 DEF Runs, TypeOK
  <2>8. a \in {first, second}
    OBVIOUS
  <2>9. ASSUME NEW b \in Addr \ {a}, Runs(b), b \notin missed', NodeId[b] = n
        PROVE  b \in {first, second}
    <3>1. b \in {pair.primary, pair.secondary} /\ b # NoAddr
      BY <2>2, <2>9, AddrAssumption DEF RunsInv, Listed
    <3>2. CASE up
      <4>1. pair.primary \in Addr /\ Runs(pair.primary) /\ NodeId[pair.primary] = n
        BY <2>1, <3>2 DEF Reachable, Runs, PairsInv
      <4>2. b = pair.primary
        BY <2>1, <2>9, <4>1 DEF AtMostTwo
      <4> QED BY <3>2, <4>2
    <3>3. CASE ~up
      <4>1. b # pair.primary
        BY <2>2, <2>9, <3>3 DEF Starting, Reachable, Runs
      <4> QED BY <3>1, <3>3, <4>1
    <3> QED BY <3>2, <3>3
  <2> HIDE DEF first, second
  <2>10. ASSUME NEW b \in Addr
         PROVE  /\ Runs(b)' => NodeId[b] \in ring'
                /\ Runs(b)' /\ b \notin missed' => Listed(b)'
                /\ b \in inbox' => ~Runs(b)'
    <3>1. CASE b = a
      BY <1>8, <2>2, <2>5, <2>8, <3>1 DEF Listed, Rejoin
    <3>2. CASE b # a
      <4>1. NodeId[b] # n => servers'[NodeId[b]] = servers[NodeId[b]]
        BY <2>5
      <4> QED BY <2>2, <2>5, <2>7, <2>9, <3>2, <4>1 DEF RunsInv, Listed
    <3> QED BY <3>1, <3>2
  <2> QED BY <1>0, <2>6, <2>10 DEF RunsInv
<1>9. ASSUME NEW nm \in Names, Lookup(nm) PROVE ListedInv'
  <2> DEFINE n    == ServerId(Hash[nm])
             pair == servers[n]
             up   == Reachable(pair.primary)
  <2>1. n \in Ids /\ pair \in Pair
    BY ServerIdType, NamesAssumption DEF TypeOK
  <2>2. /\ ring' = ring \cup {n} /\ UNCHANGED <<proc, inbox>>
        /\ missed' = missed \cup Starting(pair.primary)
        /\ servers' = [servers EXCEPT ![n] = IF up THEN pair
                                   ELSE [primary |-> pair.secondary, secondary |-> NoAddr]]
    BY <1>9 DEF Lookup
  <2>3. /\ servers'[n].primary = IF up THEN pair.primary ELSE pair.secondary
        /\ servers'[n].secondary = IF up THEN pair.secondary ELSE NoAddr
        /\ \A m \in Ids \ {n} : servers'[m] = servers[m]
    BY <2>1, <2>2 DEF TypeOK
  <2> HIDE DEF n
  <2>4. PairsInv'
    BY <2>1, <2>3, AddrAssumption DEF PairsInv
  <2>5. ASSUME NEW b \in Addr, Runs(b), b \notin missed' PROVE Listed(b)'
    <3>1. Listed(b) /\ b \notin Starting(pair.primary)
      BY <2>2, <2>5 DEF RunsInv
    <3>2. CASE NodeId[b] = n /\ ~up
      <4>1. b # pair.primary
        BY <2>5, <3>1, <3>2 DEF Starting, Reachable, Runs
      <4> QED BY <2>3, <3>1, <3>2, <4>1 DEF Listed
    <3>3. CASE ~(NodeId[b] = n /\ ~up)
      BY <2>3, <3>1, <3>3 DEF Listed
    <3> QED BY <3>2, <3>3
  <2> QED BY <1>0, <2>2, <2>4, <2>5 DEF RunsInv, Runs
<1> QED BY <1>1, <1>2, <1>3, <1>4, <1>5, <1>6, <1>7, <1>8, <1>9 DEF Next

(***************************************************************************)
(* With no more than two nodes of an id, one that listens is the primary   *)
(* or the secondary of its pair, unless a probe found it still starting.   *)
(***************************************************************************)
THEOREM UpAreListed == ASSUME AtMostTwo PROVE Spec => []UpIsListed
<1>1. Init => ListedInv
  <2>1. Init => TypeOK
    BY IdsAreRingIds DEF Init, TypeOK, Pair, Nobody, Server
  <2> QED BY <2>1, AddrAssumption DEF Init, ListedInv, PairsInv, RunsInv, Runs, Nobody
<1>2. ListedInv /\ [Next]_vars => ListedInv'
  BY ListedStep
<1>3. ListedInv => UpIsListed
  BY DEF ListedInv, RunsInv, Runs, Reachable, UpIsListed
<1> QED BY <1>1, <1>2, <1>3, PTL DEF Spec
=============================================================================
