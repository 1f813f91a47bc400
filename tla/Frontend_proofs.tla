-------------------------- MODULE Frontend_proofs --------------------------
(***************************************************************************)
(* Theorems about a frontend, for any users, requests, numbers of threads  *)
(* and of connections.                                                     *)
(***************************************************************************)
EXTENDS Frontend, FiniteSetTheorems, SequenceTheorems, TLAPS

(***************************************************************************)
(* A nonempty set of naturals has a least element: the intervals 0..n for  *)
(* n in T have one that strictly includes no other.                        *)
(***************************************************************************)
LEMMA Minimum ==
  ASSUME NEW T, T \subseteq Nat, T # {}
  PROVE  \E x \in T : \A y \in T : x <= y
<1> DEFINE F == {0 .. n : n \in T}
<1>1. F # {} /\ F \subseteq FiniteSubsetsOf(Nat)
  <2>1. \A n \in Nat : IsFiniteSet(0 .. n) /\ 0 .. n \subseteq Nat
    BY FS_Interval
  <2> QED BY <2>1 DEF FiniteSubsetsOf
<1>2. \E X \in F : \A Y \in F : <<Y, X>> \notin StrictSubsetOrdering(Nat)
  <2> HIDE DEF F
  <2> QED BY <1>1, FS_StrictSubsetOrderingWellFounded, WFMin, Zenon
<1>3. PICK x \in T : \A y \in T : <<0 .. y, 0 .. x>> \notin StrictSubsetOrdering(Nat)
  BY <1>2
<1>4. ASSUME NEW y \in T, y < x PROVE FALSE
  <2>1. 0 .. y \subseteq 0 .. x /\ 0 .. x \subseteq Nat /\ x \in 0 .. x /\ x \notin 0 .. y
    BY <1>4, SMT
  <2> QED BY <1>3, <2>1 DEF StrictSubsetOrdering
<1> QED BY <1>4

Thread == [at : Steps, fd : {0} \cup Fds, own : BOOLEAN, request : Requests \cup {None},
           message : Names \cup {NoUser}, route : Names \cup {NoUser},
           cookie : Users \cup {None}, since : SUBSET (Users \cup {Torn})]

Connection == [open : BOOLEAN, sent : BOOLEAN, left : BOOLEAN, taken : BOOLEAN]

(***************************************************************************)
(* What a thread carries depends on how far it has come.                   *)
(***************************************************************************)
Empty == {"none", "start", "reading", "close", "hung"}
AtWork == {"page", "route", "storage", "mail server"}

Blank(th) == th.message = None /\ th.route = None /\ th.cookie = None /\ th.since = {}

Carries(th) ==
  /\ th.at \in Empty => th.request = None /\ Blank(th)
  /\ th.at \notin Empty => th.request \in Requests
  /\ th.at \in {"routing", "exists", "add"} => Blank(th)
  /\ th.at \in {"exists", "add"} => th.request.page = "register"
  /\ th.at = "valid" => /\ th.request.page = "login"
                        /\ th.message = None /\ th.route = None /\ th.since = {}
  /\ th.at \in AtWork => th.request.cookie \in Users /\ th.cookie = None

Types ==
  /\ alive \in BOOLEAN
  /\ comm_fd \in {0} \cup Fds
  /\ conn \in [Fds -> Connection]
  /\ thread \in [Slots -> Thread]
  /\ user_name \in Users \cup {Torn, NoUser}
  /\ curr_user \in {"NULL", "freed"}
  /\ entered \subseteq Users
  /\ sessions \subseteq entered  \* a session is of one who has logged in
  /\ pwd \in [Users -> Seq(Passwords)]
  /\ shared \in BOOLEAN
  /\ raced \subseteq Users
  /\ \A t \in Slots : Carries(thread[t])

\* The threads about to add a line to the file of u.
Adds(th, u) == th.at = "add" /\ th.request.user = u
Adders(u) == {t \in Slots : Adds(thread[t], u)}

BoundInv == \A u \in Users : Len(pwd[u]) + Cardinality(Adders(u)) <= MaxThreads

RaceInv ==
  \A u \in Users : u \notin raced =>
    /\ \A t, v \in Slots : Adds(thread[t], u) /\ Adds(thread[v], u) => t = v
    /\ pwd[u] # <<>> => \A t \in Slots : ~Adds(thread[t], u)
    /\ Len(pwd[u]) <= 1

Holds(th) == th.at \notin {"none", "start"}

OwnInv ==
  ~shared =>
    /\ \A t \in Slots : Holds(thread[t]) =>
         /\ thread[t].own /\ thread[t].fd \in Fds
         /\ conn[thread[t].fd].open /\ conn[thread[t].fd].taken
    /\ \A t, u \in Slots :
         Holds(thread[t]) /\ Holds(thread[u]) /\ thread[t].fd = thread[u].fd => t = u

Earned(th) ==
  th.cookie # None =>
    \/ th.request.cookie \in entered /\ th.cookie \in {th.request.cookie, th.request.user}
    \/ /\ th.cookie = th.request.user
       /\ pwd[th.cookie] # <<>> /\ Head(pwd[th.cookie]) = th.request.password

CookieInv == \A t \in Slots : Earned(thread[t])

\* A thread that is going to read user_name will not find an earlier name there.
Minds(th) ==
  /\ th.request # None =>
       {th.message, th.route} \ {None} \subseteq {th.request.cookie} \cup th.since
  /\ th.at \in {"page", "route"} => user_name \in {th.request.cookie} \cup th.since

ActsInv == \A t \in Slots : Minds(thread[t])

Inv == Types /\ BoundInv /\ RaceInv /\ OwnInv /\ CookieInv /\ ActsInv

-----------------------------------------------------------------------------
(***************************************************************************)
(* Most steps are quiet: no thread comes to hold a descriptor, to add, or  *)
(* to a cookie or a name it did not have.                                  *)
(***************************************************************************)
QuietHold(old, new)   == Holds(new) => Holds(old) /\ new.fd = old.fd /\ (old.own => new.own)
QuietAdd(old, new)    == new.at = "add" => old.at = "add" /\ new.request = old.request
QuietCookie(old, new) == new.cookie # None => new.cookie = old.cookie /\ new.request = old.request
QuietNames(old, new)  ==
  new = old \/ (new.message = None /\ new.route = None /\ new.at \notin {"page", "route"})

Quiet(old, new) ==
  QuietHold(old, new) /\ QuietAdd(old, new) /\ QuietCookie(old, new) /\ QuietNames(old, new)

ConnKept ==
  \A f \in Fds : conn[f].open /\ conn[f].taken => conn'[f].open /\ conn'[f].taken

LEMMA OwnKept ==
  ASSUME OwnInv, UNCHANGED shared, \A u \in Slots : QuietHold(thread[u], thread'[u]),
         ConnKept \/ \A u \in Slots : ~Holds(thread'[u])
  PROVE  OwnInv'
BY DEF OwnInv, QuietHold, ConnKept

LEMMA RaceKept ==
  ASSUME RaceInv, UNCHANGED <<pwd, raced>>, \A u \in Slots : QuietAdd(thread[u], thread'[u])
  PROVE  RaceInv'
BY DEF RaceInv, QuietAdd, Adds

LEMMA SlotsFinite ==
  ASSUME NEW S \in SUBSET Slots
  PROVE  IsFiniteSet(S) /\ Cardinality(S) \in Nat /\ Cardinality(S) <= MaxThreads
<1>1. IsFiniteSet(Slots) /\ Cardinality(Slots) = MaxThreads
  BY BoundsAssumption, FS_Interval DEF Slots
<1> QED BY <1>1, FS_Subset, FS_CardinalityType

LEMMA BoundKept ==
  ASSUME Types, BoundInv, UNCHANGED pwd, \A u \in Slots : QuietAdd(thread[u], thread'[u])
  PROVE  BoundInv'
<1> SUFFICES ASSUME NEW u \in Users
             PROVE  Len(pwd[u]) + Cardinality(Adders(u)') <= MaxThreads
  BY DEF BoundInv
<1>1. Adders(u)' \in SUBSET Adders(u) /\ Adders(u) \in SUBSET Slots
  BY DEF Adders, Adds, QuietAdd
<1>2. /\ Cardinality(Adders(u)') <= Cardinality(Adders(u))
      /\ Cardinality(Adders(u)') \in Nat /\ Cardinality(Adders(u)) \in Nat
  BY <1>1, SlotsFinite, FS_Subset
<1>3. Len(pwd[u]) + Cardinality(Adders(u)) <= MaxThreads /\ Len(pwd[u]) \in Nat
  BY DEF BoundInv, Types
<1> QED BY <1>2, <1>3, BoundsAssumption

LEMMA CookieKept ==
  ASSUME CookieInv, UNCHANGED <<pwd, entered>>, \A u \in Slots : QuietCookie(thread[u], thread'[u])
  PROVE  CookieInv'
BY DEF CookieInv, Earned, QuietCookie

LEMMA ActsKept ==
  ASSUME ActsInv, UNCHANGED user_name, \A u \in Slots : QuietNames(thread[u], thread'[u])
  PROVE  ActsInv'
BY DEF ActsInv, Minds, QuietNames

LEMMA QuietStep ==
  ASSUME Inv, Types', UNCHANGED <<user_name, pwd, raced, shared, entered>>,
         ConnKept \/ \A u \in Slots : ~Holds(thread'[u]),
         \A u \in Slots : Quiet(thread[u], thread'[u])
  PROVE  Inv'
BY OwnKept, RaceKept, BoundKept, CookieKept, ActsKept DEF Inv, Quiet

(***************************************************************************)
(* One thread moves.                                                       *)
(***************************************************************************)
Moves(t, th) == thread' = [thread EXCEPT ![t] = th]

LEMMA MovesTo ==
  ASSUME Types, NEW t \in Slots, NEW th \in Thread, Carries(th), Moves(t, th)
  PROVE  /\ thread' \in [Slots -> Thread]
         /\ \A u \in Slots : Carries(thread'[u])
         /\ thread'[t] = th
         /\ \A u \in Slots \ {t} : thread'[u] = thread[u]
BY DEF Types, Moves

LEMMA QuietMove ==
  ASSUME Inv, NEW t \in Slots, NEW th \in Thread, Carries(th), Moves(t, th),
         Quiet(thread[t], th), UNCHANGED <<user_name, pwd, raced, shared, entered>>, ConnKept,
         alive' \in BOOLEAN, comm_fd' \in {0} \cup Fds, conn' \in [Fds -> Connection],
         curr_user' \in {"NULL", "freed"}, sessions' \subseteq entered
  PROVE  Inv'
<1>1. /\ thread' \in [Slots -> Thread]
      /\ \A u \in Slots : Carries(thread'[u])
      /\ thread'[t] = th
      /\ \A u \in Slots \ {t} : thread'[u] = thread[u]
  BY MovesTo DEF Inv
<1>2. Types'
  BY <1>1 DEF Inv, Types
<1>3. \A u \in Slots : Quiet(thread[u], thread'[u])
  BY <1>1 DEF Quiet, QuietHold, QuietAdd, QuietCookie, QuietNames
<1> QED BY <1>2, <1>3, QuietStep

LEMMA ThreadIn ==
  ASSUME Types, NEW t \in Slots
  PROVE  /\ thread[t] \in Thread /\ Carries(thread[t])
         /\ thread[t] = [at |-> thread[t].at, fd |-> thread[t].fd, own |-> thread[t].own,
                         request |-> thread[t].request, message |-> thread[t].message,
                         route |-> thread[t].route, cookie |-> thread[t].cookie,
                         since |-> thread[t].since]
<1>1. thread[t] \in Thread /\ Carries(thread[t])
  BY DEF Types
<1> QED BY <1>1 DEF Thread

LEMMA AnswersMoves ==
  ASSUME Types, NEW t \in Slots, thread[t].at \notin Empty, Answers(t)
  PROVE  \E th \in Thread : Moves(t, th) /\ Carries(th) /\ Quiet(thread[t], th)
                         /\ th.at \in {"reply", "hung"}
<1> DEFINE th == [thread[t] EXCEPT !.at = "reply", !.message = None, !.route = None, !.since = {}]
<1>1. Moves(t, th)
  BY DEF Moves, Answers, Types, Thread
<1>2. th \in Thread
  <2>1. "reply" \in Steps /\ None \in Names \cup {NoUser} /\ {} \in SUBSET (Users \cup {Torn})
    BY DEF Names, Steps
  <2> QED BY <2>1, ThreadIn DEF Thread
<1>3. Carries(th) /\ Quiet(thread[t], th) /\ th.at = "reply"
  BY ThreadIn DEF Thread, Carries, Empty, AtWork, Quiet, QuietHold, QuietAdd, QuietCookie,
                  QuietNames, Holds
<1> QED BY <1>1, <1>2, <1>3

LEMMA WaitsMoves ==
  ASSUME Types, NEW t \in Slots, thread[t].at \notin Empty, Waits(t)
  PROVE  \E th \in Thread : Moves(t, th) /\ Carries(th) /\ Quiet(thread[t], th)
                         /\ th.at \in {"reply", "hung"}
<1> DEFINE th == [Idle EXCEPT !.at = "hung", !.fd = thread[t].fd, !.own = thread[t].own]
<1>1. Moves(t, th)
  BY DEF Moves, Waits
<1>2. th \in Thread
  BY ThreadIn DEF Thread, Names, Steps, Idle
<1>3. Carries(th) /\ Quiet(thread[t], th) /\ th.at = "hung"
  BY ThreadIn DEF Thread, Carries, Empty, AtWork, Quiet, QuietHold, QuietAdd, QuietCookie,
                  QuietNames, Holds, Idle, Blank
<1> QED BY <1>1, <1>2, <1>3

LEMMA GoesMoves ==
  ASSUME Types, NEW t \in Slots, NEW step \in {"close", "exists"}, Goes(t, step),
         step = "close" => thread[t].at = "reading",
         step = "exists" => thread[t].at = "routing" /\ Req(t).page = "register"
  PROVE  \E th \in Thread : Moves(t, th) /\ Carries(th) /\ Quiet(thread[t], th)
<1> DEFINE th == [thread[t] EXCEPT !.at = step]
<1>1. Moves(t, th)
  BY DEF Moves, Goes
<1>2. th \in Thread
  <2>1. step \in Steps
    BY DEF Steps
  <2> QED BY <2>1, ThreadIn DEF Thread
<1>3. Carries(th) /\ Quiet(thread[t], th)
  BY ThreadIn DEF Thread, Carries, Empty, AtWork, Quiet, QuietHold, QuietAdd, QuietCookie,
                  QuietNames, Holds, Blank, Req
<1> QED BY <1>1, <1>2, <1>3

\* The whole process goes.
LEMMA DiesKeeps ==
  ASSUME Inv, Dies
  PROVE  Inv'
<1>1. /\ Idle \in Thread /\ Carries(Idle) /\ ~Holds(Idle) /\ Idle.at = "none"
      /\ \A old : Quiet(old, Idle)
  BY DEF Idle, Thread, Steps, Names, Carries, Blank, Empty, AtWork, Holds, Quiet, QuietHold,
         QuietAdd, QuietCookie, QuietNames
<1>2. Closed \in Connection
  BY DEF Closed, Connection
<1>3. \A u \in Slots : thread'[u] = Idle
  BY DEF Dies
<1>4. conn' \in [Fds -> Connection] /\ thread' \in [Slots -> Thread]
  BY <1>1, <1>2 DEF Dies
<1>5. Types'
  BY <1>1, <1>3, <1>4 DEF Inv, Types, Dies, globals
<1> QED BY <1>1, <1>3, <1>5, QuietStep DEF Dies, globals

-----------------------------------------------------------------------------
(***************************************************************************)
(* main, and the clients.                                                  *)
(***************************************************************************)
LEMMA LeastOf ==
  ASSUME NEW n \in Nat, NEW S \in SUBSET (1 .. n), S # {}
  PROVE  Min(S) \in S
<1>1. \E x \in S : \A y \in S : x <= y
  <2>1. S \subseteq Nat
    OBVIOUS
  <2> QED BY <2>1, Minimum
<1> QED BY <1>1 DEF Min

LEMMA AcceptKeeps ==
  ASSUME Inv, NEW sent \in BOOLEAN, Accept(sent)
  PROVE  Inv'
<1> DEFINE f == Min(Free)
           t == Min(Unused)
           th == [Idle EXCEPT !.at = "start"]
           c == [Closed EXCEPT !.open = TRUE, !.sent = sent]
<1>1. f \in Free /\ t \in Unused
  BY LeastOf, BoundsAssumption DEF Accept, Free, Unused, Fds, Slots
<1>2. f \in Fds /\ ~conn[f].open /\ t \in Slots
  BY <1>1 DEF Free, Unused
<1>3. th \in Thread /\ Carries(th) /\ Quiet(thread[t], th)
  BY DEF Idle, Thread, Steps, Names, Carries, Blank, Empty, AtWork, Holds, Quiet, QuietHold,
         QuietAdd, QuietCookie, QuietNames
<1>4. c \in Connection
  BY DEF Closed, Connection
<1> HIDE DEF f, t, th, c
<1>5. Moves(t, th) /\ conn' = [conn EXCEPT ![f] = c] /\ comm_fd' = f
  BY DEF Accept, Moves, f, t, th, c
<1>6. ConnKept
  BY <1>2, <1>5 DEF ConnKept, Inv, Types
<1>7. conn' \in [Fds -> Connection]
  BY <1>4, <1>5 DEF Inv, Types
<1> QED BY <1>2, <1>3, <1>5, <1>6, <1>7, QuietMove DEF Accept, globals, Inv, Types

\* Steps in which no thread moves.
LEMMA StillKeeps ==
  ASSUME Inv, UNCHANGED <<thread, user_name, pwd, raced, shared, entered>>, Types', ConnKept
  PROVE  Inv'
<1>1. \A u \in Slots : Quiet(thread[u], thread'[u])
  BY DEF Quiet, QuietHold, QuietAdd, QuietCookie, QuietNames
<1> QED BY <1>1, QuietStep

LEMMA AcceptFailsKeeps ==
  ASSUME Inv, AcceptFails
  PROVE  Inv'
<1>1. Types' /\ ConnKept
  BY DEF Inv, Types, AcceptFails, globals, ConnKept
<1> QED BY <1>1, StillKeeps DEF AcceptFails, globals

LEMMA LeaveKeeps ==
  ASSUME Inv, NEW f \in Fds, Leave(f)
  PROVE  Inv'
<1>1. conn' \in [Fds -> Connection] /\ ConnKept
  BY DEF Inv, Types, Leave, ConnKept, Connection
<1>2. Types'
  BY <1>1 DEF Inv, Types, Leave, globals
<1> QED BY <1>1, <1>2, StillKeeps DEF Leave, globals

-----------------------------------------------------------------------------
(***************************************************************************)
(* A thread and its connection.                                            *)
(***************************************************************************)
LEMMA TakeFdKeeps ==
  ASSUME Inv, NEW t \in Slots, TakeFd(t)
  PROVE  Inv'
<1> DEFINE good == comm_fd # 0 /\ conn[comm_fd].open
           th == [thread[t] EXCEPT !.at = "reading", !.fd = comm_fd, !.own = good]
<1>0. thread[t].at = "start" /\ Types
  BY DEF TakeFd, At, Inv
<1>1. th \in Thread /\ Carries(th)
  <2>1. th \in Thread
    <3>1. "reading" \in Steps /\ comm_fd \in {0} \cup Fds /\ good \in BOOLEAN
      BY <1>0 DEF Types, Steps, Connection
    <3> QED BY <1>0, <3>1, ThreadIn DEF Thread
  <2>2. Carries(th)
    BY <1>0, ThreadIn DEF Thread, Carries, Blank, Empty, AtWork
  <2> QED BY <2>1, <2>2
<1>2. /\ th.at = "reading" /\ th.fd = comm_fd /\ th.own = good /\ th.cookie = None
      /\ th.message = None /\ th.route = None
  BY <1>0, ThreadIn DEF Thread, Carries, Blank, Empty
<1> HIDE DEF th
<1>3. Moves(t, th)
  BY DEF Moves, TakeFd, th
<1>4. thread' \in [Slots -> Thread] /\ \A u \in Slots : Carries(thread'[u])
  BY <1>0, <1>1, <1>3, MovesTo
<1>5. thread'[t] = th /\ \A u \in Slots \ {t} : thread'[u] = thread[u]
  BY <1>0, <1>1, <1>3, MovesTo
<1>6. conn' = IF good THEN [conn EXCEPT ![comm_fd].taken = TRUE] ELSE conn
  BY DEF TakeFd
<1>7. shared' = (shared \/ ~good \/ conn[comm_fd].taken)
  BY DEF TakeFd
<1>8. conn' \in [Fds -> Connection] /\ shared' \in BOOLEAN /\ comm_fd' \in {0} \cup Fds
  BY <1>0, <1>6, <1>7 DEF TakeFd, Types, Connection
<1>9. Types'
  BY <1>0, <1>4, <1>8 DEF Types, TakeFd, globals
<1>10. \A u \in Slots : /\ QuietAdd(thread[u], thread'[u]) /\ QuietCookie(thread[u], thread'[u])
                        /\ QuietNames(thread[u], thread'[u])
  BY <1>2, <1>5 DEF QuietAdd, QuietCookie, QuietNames
<1>11. OwnInv'
  <2> SUFFICES ASSUME ~shared' PROVE OwnInv'
    BY DEF OwnInv
  <2>1. ~shared /\ good /\ ~conn[comm_fd].taken /\ comm_fd \in Fds
    BY <1>0, <1>7 DEF Types
  <2>2. \A u \in Slots : Holds(thread[u]) =>
          /\ thread[u].own /\ thread[u].fd \in Fds
          /\ conn[thread[u].fd].open /\ conn[thread[u].fd].taken
    BY <2>1 DEF Inv, OwnInv
  <2>3. \A u \in Slots \ {t} : Holds(thread'[u]) => thread'[u].fd # comm_fd
    BY <1>5, <2>1, <2>2
  <2>4. /\ conn'[comm_fd].open /\ conn'[comm_fd].taken
        /\ \A f \in Fds \ {comm_fd} : conn'[f] = conn[f]
    BY <1>0, <1>6, <2>1 DEF Types, Connection
  <2>5. ASSUME NEW u \in Slots, Holds(thread'[u])
        PROVE  /\ thread'[u].own /\ thread'[u].fd \in Fds
               /\ conn'[thread'[u].fd].open /\ conn'[thread'[u].fd].taken
    <3>1. CASE u = t
      BY <3>1, <1>2, <1>5, <2>1, <2>4
    <3>2. CASE u # t
      <4>1. thread'[u] = thread[u] /\ Holds(thread[u])
        BY <3>2, <1>5, <2>5
      <4>2. /\ thread[u].own /\ thread[u].fd \in Fds
            /\ conn[thread[u].fd].open /\ conn[thread[u].fd].taken
        BY <2>2, <4>1
      <4>3. thread[u].fd = comm_fd \/ conn'[thread[u].fd] = conn[thread[u].fd]
        BY <2>4, <4>2
      <4> QED BY <2>4, <4>1, <4>2, <4>3
    <3> QED BY <3>1, <3>2
  <2>6. \A u, v \in Slots :
          Holds(thread'[u]) /\ Holds(thread'[v]) /\ thread'[u].fd = thread'[v].fd => u = v
    BY <1>2, <1>5, <2>1, <2>3 DEF Inv, OwnInv
  <2> QED BY <2>5, <2>6 DEF OwnInv
<1> QED BY <1>9, <1>10, <1>11, RaceKept, BoundKept, CookieKept, ActsKept
        DEF Inv, TakeFd, globals

\* A request that was sent is read.
LEMMA ConnRead ==
  ASSUME conn \in [Fds -> Connection], NEW f \in Fds, conn' = [conn EXCEPT ![f].sent = FALSE]
  PROVE  conn' \in [Fds -> Connection] /\ ConnKept
BY DEF ConnKept, Connection

LEMMA ReadRequestKeeps ==
  ASSUME Inv, NEW t \in Slots, ReadRequest(t)
  PROVE  Inv'
<1>1. PICK request \in Requests :
        thread' = [thread EXCEPT ![t].at = "routing", ![t].own = TRUE, ![t].request = request]
  BY DEF ReadRequest
<1> DEFINE th == [thread[t] EXCEPT !.at = "routing", !.own = TRUE, !.request = request]
<1>2. Types /\ thread[t].at = "reading" /\ thread[t].fd \in Fds
  BY ThreadIn DEF Inv, ReadRequest, Reads, At, Thread
<1>3. th \in Thread /\ Carries(th) /\ Quiet(thread[t], th)
  BY <1>2, ThreadIn DEF Thread, Steps, Carries, Blank, Empty, AtWork, Holds, Quiet, QuietHold,
                        QuietAdd, QuietCookie, QuietNames
<1>4. Moves(t, th)
  BY <1>1 DEF Moves
<1> HIDE DEF th
<1>5. conn' \in [Fds -> Connection] /\ ConnKept
  BY <1>2, ConnRead DEF ReadRequest, Types
<1> QED BY <1>3, <1>4, <1>5, QuietMove DEF ReadRequest, globals, Inv, Types

LEMMA ReadInvalidKeeps ==
  ASSUME Inv, NEW t \in Slots, ReadInvalid(t)
  PROVE  Inv'
<1>1. PICK all \in SUBSET Slots :
        /\ \A u \in all : thread[u].at = "reading"
        /\ thread' = [u \in Slots |-> IF u \in all THEN [thread[u] EXCEPT !.at = "close"]
                                      ELSE thread[u]]
  BY DEF ReadInvalid, Reads, At
<1>2. Types /\ thread[t].fd \in Fds
  BY ThreadIn DEF Inv, ReadInvalid, Reads, Thread
<1>3. ASSUME NEW u \in Slots
      PROVE  /\ thread'[u] \in Thread /\ Carries(thread'[u]) /\ Quiet(thread[u], thread'[u])
  <2>1. CASE u \in all
    <3> DEFINE th == [thread[u] EXCEPT !.at = "close"]
    <3>1. th \in Thread /\ Carries(th) /\ Quiet(thread[u], th)
      <4>1. thread[u].at = "reading"
        BY <1>1, <2>1
      <4>2. th \in Thread
        <5>1. "close" \in Steps
          BY DEF Steps
        <5> QED BY <1>2, <5>1, ThreadIn DEF Thread
      <4>3. Carries(th)
        BY <1>2, <4>1, ThreadIn DEF Thread, Carries, Blank, Empty, AtWork
      <4>4. Quiet(thread[u], th)
        BY <1>2, <4>1, ThreadIn DEF Thread, Carries, Blank, Empty, Holds, Quiet, QuietHold,
                                    QuietAdd, QuietCookie, QuietNames
      <4> QED BY <4>2, <4>3, <4>4
    <3>2. thread'[u] = th
      BY <1>1, <2>1
    <3> QED BY <3>1, <3>2
  <2>2. CASE u \notin all
    BY <1>1, <1>2, <2>2, ThreadIn DEF Quiet, QuietHold, QuietAdd, QuietCookie, QuietNames
  <2> QED BY <2>1, <2>2
<1>4. thread' \in [Slots -> Thread]
  BY <1>1, <1>3
<1>5. conn' \in [Fds -> Connection] /\ ConnKept
  BY <1>2, ConnRead DEF ReadInvalid, Types
<1>6. Types'
  BY <1>2, <1>3, <1>4, <1>5 DEF Types, ReadInvalid, globals
<1> QED BY <1>3, <1>5, <1>6, QuietStep DEF ReadInvalid, globals

LEMMA CloseKeeps ==
  ASSUME Inv, NEW t \in Slots, Close(t)
  PROVE  Inv'
<1> DEFINE f == thread[t].fd
           Old(u) == IF f # 0 /\ thread[u].fd = f THEN [thread[u] EXCEPT !.own = FALSE]
                     ELSE thread[u]
<1>1. Types /\ thread[t].at = "close" /\ f \in {0} \cup Fds
  BY ThreadIn DEF Inv, Close, At, Thread
<1>2. thread' = [u \in Slots |-> IF u = t THEN Idle ELSE Old(u)]
  BY DEF Close
<1>3. conn' = IF f = 0 THEN conn ELSE [conn EXCEPT ![f] = Closed]
  BY DEF Close
<1>4. Idle \in Thread /\ Carries(Idle) /\ ~Holds(Idle)
      /\ Idle.at = "none" /\ Idle.cookie = None /\ Idle.message = None /\ Idle.route = None
  BY DEF Idle, Thread, Steps, Names, Carries, Blank, Empty, AtWork, Holds
<1>5. ASSUME NEW u \in Slots
      PROVE  /\ Old(u) \in Thread /\ Carries(Old(u))
             /\ QuietAdd(thread[u], Old(u)) /\ QuietCookie(thread[u], Old(u))
             /\ Minds(thread[u]) => Minds(Old(u))
             /\ Holds(Old(u)) = Holds(thread[u]) /\ Old(u).fd = thread[u].fd
             /\ f = 0 \/ thread[u].fd # f => Old(u).own = thread[u].own
  <2>1. Old(u) \in Thread
    BY <1>1, ThreadIn DEF Thread
  <2>2. /\ Old(u).at = thread[u].at /\ Old(u).fd = thread[u].fd
        /\ Old(u).request = thread[u].request /\ Old(u).cookie = thread[u].cookie
        /\ Old(u).message = thread[u].message /\ Old(u).route = thread[u].route
        /\ Old(u).since = thread[u].since
        /\ f = 0 \/ thread[u].fd # f => Old(u).own = thread[u].own
    BY <1>1, ThreadIn DEF Thread
  <2> HIDE DEF Old
  <2>3. Carries(thread[u])
    BY <1>1, ThreadIn
  <2>4. Carries(Old(u))
    BY <2>2, <2>3 DEF Carries, Blank
  <2> QED BY <2>1, <2>2, <2>4 DEF QuietAdd, QuietCookie, Minds, Holds
<1> HIDE DEF Old
<1>6. \A u \in Slots : thread'[u] = IF u = t THEN Idle ELSE Old(u)
  BY <1>2
<1>7. thread' \in [Slots -> Thread] /\ \A u \in Slots : Carries(thread'[u])
  BY <1>2, <1>4, <1>5
<1>8. conn' \in [Fds -> Connection]
  BY <1>1, <1>3 DEF Types, Closed, Connection
<1>9. Types'
  BY <1>1, <1>7, <1>8 DEF Types, Close, globals
<1>10. \A u \in Slots : QuietAdd(thread[u], thread'[u]) /\ QuietCookie(thread[u], thread'[u])
  BY <1>4, <1>5, <1>6 DEF QuietAdd, QuietCookie
<1>11. ActsInv'
  <2>1. Minds(Idle)
    BY <1>4 DEF Minds
  <2>2. \A u \in Slots : Minds(thread'[u])
    BY <1>5, <1>6, <2>1 DEF Inv, ActsInv
  <2>3. UNCHANGED user_name
    BY DEF Close, globals
  <2> QED BY <2>2, <2>3 DEF ActsInv, Minds
<1>12. OwnInv'
  <2> SUFFICES ASSUME ~shared PROVE OwnInv'
    BY DEF OwnInv, Close
  <2>1. Holds(thread[t])
    BY <1>1 DEF Holds
  <2>2. \A u \in Slots : Holds(thread[u]) =>
          /\ thread[u].own /\ thread[u].fd \in Fds
          /\ conn[thread[u].fd].open /\ conn[thread[u].fd].taken
    BY DEF Inv, OwnInv
  <2>3. \A u, v \in Slots :
          Holds(thread[u]) /\ Holds(thread[v]) /\ thread[u].fd = thread[v].fd => u = v
    BY DEF Inv, OwnInv
  <2>4. \A u \in Slots : Holds(thread'[u]) => u # t /\ Holds(thread[u]) /\ thread'[u] = Old(u)
    BY <1>4, <1>5, <1>6
  <2>5. \A u \in Slots : Holds(thread'[u]) =>
          thread[u].fd # f /\ thread'[u].fd = thread[u].fd /\ thread'[u].own = thread[u].own
    BY <1>5, <2>1, <2>3, <2>4
  <2>6. \A g \in Fds \ {f} : conn'[g] = conn[g]
    BY <1>3
  <2>7. \A u \in Slots : Holds(thread'[u]) =>
          /\ thread'[u].own /\ thread'[u].fd \in Fds
          /\ conn'[thread'[u].fd].open /\ conn'[thread'[u].fd].taken
    BY <2>2, <2>4, <2>5, <2>6
  <2>8. \A u, v \in Slots :
          Holds(thread'[u]) /\ Holds(thread'[v]) /\ thread'[u].fd = thread'[v].fd => u = v
    BY <2>3, <2>4, <2>5
  <2> QED BY <2>7, <2>8 DEF OwnInv
<1> QED BY <1>9, <1>10, <1>11, <1>12, RaceKept, BoundKept, CookieKept DEF Inv, Close, globals

\* One thread moves quietly, and of the rest no more than sessions and curr_user change.
LEMMA RestKept ==
  ASSUME Inv, NEW t \in Slots, Rest, UNCHANGED <<user_name, pwd, raced>>,
         \E th \in Thread : Moves(t, th) /\ Carries(th) /\ Quiet(thread[t], th),
         curr_user' \in {"NULL", "freed"}, sessions' \subseteq entered
  PROVE  Inv'
BY QuietMove DEF Rest, Connections, ConnKept, Inv, Types

LEMMA ReplyKeeps ==
  ASSUME Inv, NEW t \in Slots, Reply(t)
  PROVE  Inv'
<1> DEFINE th == [Idle EXCEPT !.at = "close", !.fd = thread[t].fd, !.own = thread[t].own]
<1>1. Moves(t, th) /\ Types /\ thread[t].at = "reply"
  BY DEF Moves, Reply, Inv, At
<1>2. th \in Thread
  BY <1>1, ThreadIn DEF Thread, Names, Steps, Idle
<1>3. Carries(th) /\ Quiet(thread[t], th)
  BY <1>1, ThreadIn DEF Thread, Carries, Empty, AtWork, Quiet, QuietHold, QuietAdd, QuietCookie,
                        QuietNames, Holds, Idle, Blank
<1> QED BY <1>1, <1>2, <1>3, RestKept DEF Reply, globals, Inv, Types

\* Steps that end what a thread does, with an answer or by waiting for ever.
LEMMA EndKeeps ==
  ASSUME Inv, NEW t \in Slots, thread[t].at \notin Empty, Answers(t) \/ Waits(t),
         Rest, UNCHANGED <<globals, pwd, raced>>
  PROVE  Inv'
BY AnswersMoves, WaitsMoves, RestKept DEF Inv, Types, globals

LEMMA QuietThread ==
  ASSUME Inv, NEW t \in Slots,
         ReadNothing(t) \/ Static(t) \/ Admin(t) \/ Register(t) \/ NotLoggedIn(t) \/ Stored(t)
         \/ Local(t) \/ Sent(t) \/ Unanswered(t)
  PROVE  Inv'
<1>1. CASE ReadNothing(t)
  BY <1>1, GoesMoves, RestKept DEF ReadNothing, At, Inv, Types, globals
<1>2. CASE Register(t)
  BY <1>2, GoesMoves, RestKept DEF Register, At, Inv, Types
<1>3. CASE Static(t) \/ Admin(t) \/ NotLoggedIn(t) \/ Stored(t) \/ Local(t) \/ Sent(t)
           \/ Unanswered(t)
  BY <1>3, EndKeeps DEF Static, Admin, NotLoggedIn, Stored, Local, Sent, Unanswered, Unknown,
                        Page, Asks, At, Empty
<1> QED BY <1>1, <1>2, <1>3

-----------------------------------------------------------------------------
(***************************************************************************)
(* The checks: user_name is written, which every thread that serves a page *)
(* learns of.                                                              *)
(***************************************************************************)
LEMMA WriteKeeps ==
  ASSUME Inv, NEW those \in SUBSET Slots, NEW n \in Users \cup {Torn},
         \A u \in those : Checks(u), Write(n, those)
  PROVE  Inv'
<1> DEFINE New(u) ==
      IF u \in those THEN [thread[u] EXCEPT !.at = "page", !.since = {n} \ {Req(u).cookie}]
      ELSE IF Serving(u) THEN [thread[u] EXCEPT !.since = @ \cup {n}]
      ELSE thread[u]
<1>1. Types /\ ActsInv /\ \A u \in those : /\ thread[u].at = "routing"
                                           /\ thread[u].request.cookie \in Users
  BY DEF Inv, Types, Checks, LoggedIn, At, Req
<1>2. thread' = [u \in Slots |-> New(u)] /\ user_name' = n
  BY DEF Write
<1>3. ASSUME NEW u \in those
      PROVE  /\ New(u) \in Thread /\ Carries(New(u))
             /\ QuietHold(thread[u], New(u)) /\ QuietAdd(thread[u], New(u))
             /\ QuietCookie(thread[u], New(u))
             /\ New(u).message = None /\ New(u).route = None
             /\ n \in {New(u).request.cookie} \cup New(u).since
  <2>0. thread[u].at = "routing" /\ thread[u].request.cookie \in Users
    BY <1>1
  <2> DEFINE th == [thread[u] EXCEPT !.at = "page", !.since = {n} \ {Req(u).cookie}]
  <2>1. th \in Thread
    <3>1. "page" \in Steps /\ {n} \ {Req(u).cookie} \in SUBSET (Users \cup {Torn})
      BY DEF Steps
    <3>2. \A x \in SUBSET (Users \cup {Torn}) :
             [thread[u] EXCEPT !.at = "page", !.since = x] \in Thread
      <4> DEFINE all == SUBSET (Users \cup {Torn})
      <4> HIDE DEF all
      <4>1. \A x \in all : [thread[u] EXCEPT !.at = "page", !.since = x] \in Thread
        BY <1>1, <3>1, ThreadIn, ZenonT(60) DEF Thread, all
      <4> QED BY <4>1 DEF all
    <3> QED BY <3>1, <3>2
  <2>2. Carries(th)
    BY <1>1, <2>0, ThreadIn DEF Thread, Carries, Blank, Empty, AtWork
  <2>3. QuietHold(thread[u], th) /\ QuietAdd(thread[u], th) /\ QuietCookie(thread[u], th)
    BY <1>1, <2>0, ThreadIn DEF Thread, QuietHold, QuietAdd, QuietCookie, Holds
  <2>4. th.message = None /\ th.route = None /\ n \in {th.request.cookie} \cup th.since
    BY <1>1, <2>0, ThreadIn DEF Thread, Carries, Blank, Empty, Req
  <2>5. New(u) = th
    OBVIOUS
  <2> QED BY <2>1, <2>2, <2>3, <2>4, <2>5
<1>4. ASSUME NEW u \in Slots \ those, Serving(u)
      PROVE  /\ New(u) \in Thread /\ Carries(New(u))
             /\ QuietHold(thread[u], New(u)) /\ QuietAdd(thread[u], New(u))
             /\ QuietCookie(thread[u], New(u))
             /\ New(u).request = thread[u].request
             /\ New(u).message = thread[u].message /\ New(u).route = thread[u].route
             /\ New(u).since = thread[u].since \cup {n}
  <2> DEFINE th == [thread[u] EXCEPT !.since = @ \cup {n}]
  <2>0. thread[u].at \in {"page", "route"}
    BY <1>4 DEF Serving, At
  <2>1. th \in Thread
    BY <1>1, ThreadIn DEF Thread
  <2>2. Carries(th)
    BY <1>1, <2>0, ThreadIn DEF Thread, Carries, Blank, Empty, AtWork
  <2>3. QuietHold(thread[u], th) /\ QuietAdd(thread[u], th) /\ QuietCookie(thread[u], th)
    BY <1>1, <2>0, ThreadIn DEF Thread, QuietHold, QuietAdd, QuietCookie, Holds
  <2>4. /\ th.request = thread[u].request /\ th.since = thread[u].since \cup {n}
        /\ th.message = thread[u].message /\ th.route = thread[u].route
    BY <1>1, ThreadIn DEF Thread
  <2>5. New(u) = th
    BY <1>4
  <2> QED BY <2>1, <2>2, <2>3, <2>4, <2>5
<1>5. ASSUME NEW u \in Slots \ those, ~Serving(u)
      PROVE  New(u) = thread[u] /\ New(u).at \notin {"page", "route"}
  BY <1>5 DEF Serving, At
<1> HIDE DEF New
<1>6. \A u \in Slots : thread'[u] = New(u)
  BY <1>2
<1>7. \A u \in Slots : New(u) \in Thread /\ Carries(New(u))
  BY <1>1, <1>3, <1>4, <1>5, ThreadIn
<1>8. \A u \in Slots : /\ QuietHold(thread[u], New(u)) /\ QuietAdd(thread[u], New(u))
                       /\ QuietCookie(thread[u], New(u))
  BY <1>3, <1>4, <1>5 DEF QuietHold, QuietAdd, QuietCookie
<1>9. thread' \in [Slots -> Thread]
  BY <1>2, <1>7
<1>10. Types'
  BY <1>1, <1>2, <1>6, <1>7, <1>9 DEF Types, Write, Rest, Connections
<1>11. ASSUME NEW u \in Slots PROVE Minds(thread[u])'
  <2>1. Minds(thread[u])
    BY <1>1 DEF ActsInv
  <2>2. CASE u \in those
    BY <1>2, <1>3, <1>6, <2>2 DEF Minds
  <2>3. CASE u \notin those /\ Serving(u)
    BY <1>2, <1>4, <1>6, <2>1, <2>3 DEF Minds
  <2>4. CASE u \notin those /\ ~Serving(u)
    BY <1>5, <1>6, <2>1, <2>4 DEF Minds
  <2> QED BY <2>2, <2>3, <2>4
<1>12. ActsInv'
  BY <1>11 DEF ActsInv
<1> QED BY <1>6, <1>8, <1>10, <1>12, OwnKept, RaceKept, BoundKept, CookieKept
        DEF Inv, Write, Rest, Connections, ConnKept

LEMMA CheckKeeps ==
  ASSUME Inv, NEW t \in Slots, Check(t) \/ CheckAtOnce(t)
  PROVE  Inv'
<1>1. CASE Check(t)
  <2>1. Req(t).cookie \in Users
    BY <1>1 DEF Check, Checks, LoggedIn, Inv, Types
  <2> QED BY <1>1, <2>1, WriteKeeps DEF Check
<1>2. CASE CheckAtOnce(t)
  BY <1>2, WriteKeeps DEF CheckAtOnce
<1> QED BY <1>1, <1>2

-----------------------------------------------------------------------------
(***************************************************************************)
(* Registration.                                                           *)
(***************************************************************************)
LEMMA RequestIn ==
  ASSUME Types, NEW t \in Slots, thread[t].at \in {"exists", "add", "valid"}
  PROVE  Req(t) \in Request /\ Req(t).user \in Users /\ Req(t).password \in Passwords
BY ThreadIn, RequestsAssumption DEF Carries, Empty, Filled, Request, Req

LEMMA ExistsKeeps ==
  ASSUME Inv, NEW t \in Slots, Exists(t)
  PROVE  Inv'
<1> DEFINE u == Req(t).user
<1>1. Types /\ thread[t].at = "exists" /\ u \in Users
  BY RequestIn DEF Inv, Exists, At
<1>2. CASE pwd[u] # << >>
  BY <1>1, <1>2, EndKeeps DEF Exists, Empty
<1>3. CASE pwd[u] = << >>
  <2> DEFINE th == [thread[t] EXCEPT !.at = "add"]
  <2>1. Moves(t, th)
    BY <1>3 DEF Exists, Goes, Moves
  <2>2. /\ th \in Thread /\ Carries(th) /\ th.at = "add" /\ th.request.user = u
        /\ QuietHold(thread[t], th) /\ QuietCookie(thread[t], th) /\ QuietNames(thread[t], th)
    BY <1>1, ThreadIn DEF Thread, Steps, Carries, Blank, Empty, AtWork, QuietHold, QuietCookie,
                          QuietNames, Holds, Req
  <2> HIDE DEF th
  <2>3. thread' \in [Slots -> Thread] /\ \A v \in Slots : Carries(thread'[v])
    BY <1>1, <2>1, <2>2, MovesTo
  <2>4. thread'[t] = th /\ \A v \in Slots \ {t} : thread'[v] = thread[v]
    BY <1>1, <2>1, <2>2, MovesTo
  <2>5. /\ raced' = IF \E v \in Slots \ {t} : Adds(thread[v], u) THEN raced \cup {u} ELSE raced
        /\ Rest /\ UNCHANGED <<globals, pwd>>
    BY <1>3 DEF Exists, Adds, At, Req
  <2>6. Types'
    BY <1>1, <2>3, <2>5 DEF Types, Rest, Connections, globals
  <2>7. \A v \in Slots : /\ QuietHold(thread[v], thread'[v]) /\ QuietCookie(thread[v], thread'[v])
                         /\ QuietNames(thread[v], thread'[v])
    BY <2>2, <2>4 DEF QuietHold, QuietCookie, QuietNames
  <2>8. \A w \in Users : \A v \in Slots :
          Adds(thread'[v], w) => Adds(thread[v], w) \/ (w = u /\ v = t)
    BY <2>2, <2>4 DEF Adds
  <2>9. RaceInv'
    <3> SUFFICES ASSUME NEW w \in Users, w \notin raced'
                 PROVE  /\ \A v, x \in Slots : Adds(thread'[v], w) /\ Adds(thread'[x], w) => v = x
                        /\ pwd[w] # << >> => \A v \in Slots : ~Adds(thread'[v], w)
                        /\ Len(pwd[w]) <= 1
      BY <2>5 DEF RaceInv
    <3>1. w \notin raced
      BY <2>5
    <3>2. w = u => \A v \in Slots \ {t} : ~Adds(thread[v], u)
      BY <2>5
    <3> QED BY <1>3, <2>8, <3>1, <3>2 DEF Inv, RaceInv
  <2>10. BoundInv'
    <3> SUFFICES ASSUME NEW w \in Users
                 PROVE  Len(pwd[w]) + Cardinality(Adders(w)') <= MaxThreads
      BY <2>5 DEF BoundInv
    <3>1. Adders(w)' \in SUBSET Slots
      BY DEF Adders
    <3>2. CASE w = u
      <4>1. Len(pwd[w]) = 0
        BY <1>3, <3>2
      <4> QED BY <3>1, <4>1, SlotsFinite
    <3>3. CASE w # u
      <4>1. Adders(w)' \in SUBSET Adders(w) /\ Adders(w) \in SUBSET Slots
        BY <2>8, <3>3 DEF Adders
      <4>2. Cardinality(Adders(w)') <= Cardinality(Adders(w))
        BY <4>1, SlotsFinite, FS_Subset
      <4>3. Cardinality(Adders(w)') \in Nat /\ Cardinality(Adders(w)) \in Nat
        BY <4>1, <3>1, SlotsFinite
      <4>4. Len(pwd[w]) + Cardinality(Adders(w)) <= MaxThreads /\ Len(pwd[w]) \in Nat
        BY <1>1 DEF Inv, BoundInv, Types
      <4> QED BY <4>2, <4>3, <4>4, BoundsAssumption
    <3> QED BY <3>2, <3>3
  <2> QED BY <2>5, <2>6, <2>7, <2>9, <2>10, OwnKept, CookieKept, ActsKept
          DEF Inv, Rest, Connections, globals, ConnKept
<1> QED BY <1>2, <1>3

\* What is registered stays the first line.
LEMMA AddEffect ==
  ASSUME Types, NEW t \in Slots, Add(t)
  PROVE  LET u == Req(t).user IN
         /\ u \in Users /\ pwd' \in [Users -> Seq(Passwords)]
         /\ Len(pwd'[u]) = Len(pwd[u]) + 1
         /\ \A w \in Users \ {u} : pwd'[w] = pwd[w]
         /\ \A w \in Users : pwd[w] # << >> => pwd'[w] # << >> /\ Head(pwd'[w]) = Head(pwd[w])
<1> DEFINE u == Req(t).user
           p == Req(t).password
<1>1. u \in Users /\ p \in Passwords /\ pwd \in [Users -> Seq(Passwords)]
  BY RequestIn DEF Add, At, Types
<1>2. pwd' = [pwd EXCEPT ![u] = Append(@, p)]
  BY DEF Add
<1> HIDE DEF u, p
<1>3. pwd[u] \in Seq(Passwords)
  BY <1>1
<1>4. /\ Append(pwd[u], p) \in Seq(Passwords) /\ Len(Append(pwd[u], p)) = Len(pwd[u]) + 1
      /\ pwd[u] # << >> => Append(pwd[u], p)[1] = pwd[u][1]
  BY <1>1, <1>3, AppendProperties
<1>5. /\ pwd'[u] = Append(pwd[u], p) /\ \A w \in Users \ {u} : pwd'[w] = pwd[w]
      /\ pwd' \in [Users -> Seq(Passwords)]
  BY <1>1, <1>2, <1>4
<1>6. pwd[u] # << >> => pwd'[u] # << >> /\ Head(pwd'[u]) = Head(pwd[u])
  BY <1>3, <1>4, <1>5
<1>7. \A w \in Users : pwd[w] # << >> => pwd'[w] # << >> /\ Head(pwd'[w]) = Head(pwd[w])
  BY <1>5, <1>6
<1> QED BY <1>1, <1>4, <1>5, <1>7 DEF u

LEMMA AddKeeps ==
  ASSUME Inv, NEW t \in Slots, Add(t)
  PROVE  Inv'
<1> DEFINE u == Req(t).user
<1>1. Types /\ thread[t].at = "add" /\ Adds(thread[t], u) /\ t \in Adders(u)
  BY DEF Inv, Add, At, Adds, Adders, Req
<1>2. /\ u \in Users /\ pwd' \in [Users -> Seq(Passwords)] /\ Len(pwd'[u]) = Len(pwd[u]) + 1
      /\ \A w \in Users \ {u} : pwd'[w] = pwd[w]
  BY <1>1, AddEffect
<1>3. \A w \in Users : pwd[w] # << >> => pwd'[w] # << >> /\ Head(pwd'[w]) = Head(pwd[w])
  BY <1>1, AddEffect
<1>4. PICK th \in Thread : /\ Moves(t, th) /\ Carries(th) /\ Quiet(thread[t], th)
                            /\ th.at \in {"reply", "hung"}
  BY <1>1, AnswersMoves, WaitsMoves DEF Add, Empty
<1>5. thread' \in [Slots -> Thread] /\ \A v \in Slots : Carries(thread'[v])
  BY <1>1, <1>4, MovesTo
<1>6. thread'[t] = th /\ \A v \in Slots \ {t} : thread'[v] = thread[v]
  BY <1>1, <1>4, MovesTo
<1>7. Rest /\ UNCHANGED <<globals, raced>>
  BY DEF Add
<1>8. Types'
  BY <1>1, <1>2, <1>5, <1>7 DEF Types, Rest, Connections, globals
<1>9. \A v \in Slots : /\ QuietHold(thread[v], thread'[v]) /\ QuietCookie(thread[v], thread'[v])
                       /\ QuietNames(thread[v], thread'[v])
  BY <1>4, <1>6 DEF Quiet, QuietHold, QuietCookie, QuietNames
<1>10. \A w \in Users : \A v \in Slots : Adds(thread'[v], w) => v # t /\ Adds(thread[v], w)
  BY <1>4, <1>6 DEF Adds
<1> HIDE DEF u
<1>11. RaceInv'
  <2> SUFFICES ASSUME NEW w \in Users, w \notin raced
               PROVE  /\ \A v, x \in Slots : Adds(thread'[v], w) /\ Adds(thread'[x], w) => v = x
                      /\ pwd'[w] # << >> => \A v \in Slots : ~Adds(thread'[v], w)
                      /\ Len(pwd'[w]) <= 1
    BY <1>7 DEF RaceInv
  <2>1. /\ \A v, x \in Slots : Adds(thread[v], w) /\ Adds(thread[x], w) => v = x
        /\ pwd[w] # << >> => \A v \in Slots : ~Adds(thread[v], w)
        /\ Len(pwd[w]) <= 1
    BY DEF Inv, RaceInv
  <2>2. CASE w = u
    <3>1. pwd[w] = << >>
      BY <1>1, <2>1, <2>2
    <3>2. Len(pwd'[w]) = 1
      BY <1>2, <2>2, <3>1
    <3> QED BY <1>1, <1>10, <2>1, <2>2, <3>2
  <2>3. CASE w # u
    BY <1>2, <1>10, <2>1, <2>3
  <2> QED BY <2>2, <2>3
<1>12. BoundInv'
  <2> SUFFICES ASSUME NEW w \in Users
               PROVE  Len(pwd'[w]) + Cardinality(Adders(w)') <= MaxThreads
    BY DEF BoundInv
  <2>1. Adders(w)' \in SUBSET (Adders(w) \ {t}) /\ Adders(w) \in SUBSET Slots
    BY <1>10 DEF Adders
  <2>2. /\ IsFiniteSet(Adders(w)) /\ Cardinality(Adders(w)) \in Nat
        /\ IsFiniteSet(Adders(w) \ {t}) /\ Cardinality(Adders(w) \ {t}) \in Nat
        /\ Cardinality(Adders(w)') \in Nat
    <3>1. Adders(w) \ {t} \in SUBSET Slots /\ Adders(w)' \in SUBSET Slots
      BY <2>1
    <3> QED BY <2>1, <3>1, SlotsFinite
  <2>3. Cardinality(Adders(w)') <= Cardinality(Adders(w) \ {t})
    BY <2>1, <2>2, FS_Subset
  <2>4. Cardinality(Adders(w) \ {t}) =
          IF t \in Adders(w) THEN Cardinality(Adders(w)) - 1 ELSE Cardinality(Adders(w))
    BY <2>2, FS_RemoveElement
  <2>5. Len(pwd[w]) + Cardinality(Adders(w)) <= MaxThreads /\ Len(pwd[w]) \in Nat
    BY <1>1 DEF Inv, BoundInv, Types
  <2>6. CASE w = u
    BY <1>1, <1>2, <2>2, <2>3, <2>4, <2>5, <2>6, BoundsAssumption
  <2>7. CASE w # u
    BY <1>2, <2>2, <2>3, <2>4, <2>5, <2>7, BoundsAssumption
  <2> QED BY <2>6, <2>7
<1>13. CookieInv'
  <2> SUFFICES ASSUME NEW v \in Slots PROVE Earned(thread[v])'
    BY DEF CookieInv
  <2>1. Earned(thread[v]) /\ QuietCookie(thread[v], thread'[v]) /\ thread[v] \in Thread
    BY <1>1, <1>9, ThreadIn DEF Inv, CookieInv
  <2>2. thread[v].cookie \in Users \cup {None}
    BY <2>1 DEF Thread
  <2>3. UNCHANGED entered
    BY <1>7 DEF Rest
  <2> QED BY <1>3, <2>1, <2>2, <2>3 DEF Earned, QuietCookie
<1> QED BY <1>7, <1>8, <1>9, <1>11, <1>12, <1>13, OwnKept, ActsKept
        DEF Inv, Rest, Connections, globals, ConnKept

-----------------------------------------------------------------------------
(***************************************************************************)
(* login and logout: cookies.                                              *)
(***************************************************************************)
LEMMA CookieMove ==
  ASSUME Inv, NEW t \in Slots, NEW th \in Thread, Carries(th), Moves(t, th),
         UNCHANGED <<alive, Connections, shared, user_name, curr_user, pwd, raced>>,
         entered \subseteq entered', entered' \subseteq Users, sessions' \subseteq entered',
         QuietHold(thread[t], th), QuietAdd(thread[t], th), Minds(th), Earned(th)
  PROVE  Inv'
<1>1. thread' \in [Slots -> Thread] /\ \A v \in Slots : Carries(thread'[v])
  BY MovesTo DEF Inv
<1>2. thread'[t] = th /\ \A v \in Slots \ {t} : thread'[v] = thread[v]
  BY MovesTo DEF Inv
<1>3. Types'
  BY <1>1 DEF Inv, Types, Connections
<1>4. \A v \in Slots : QuietHold(thread[v], thread'[v]) /\ QuietAdd(thread[v], thread'[v])
  BY <1>2 DEF QuietHold, QuietAdd
<1>5. ActsInv'
  BY <1>2 DEF Inv, ActsInv, Minds
<1>6. CookieInv'
  BY <1>2 DEF Inv, CookieInv, Earned
<1> QED BY <1>3, <1>4, <1>5, <1>6, OwnKept, RaceKept, BoundKept
        DEF Inv, Connections, ConnKept

LEMMA LoginKeeps ==
  ASSUME Inv, NEW t \in Slots, Login(t)
  PROVE  Inv'
<1> DEFINE th == [thread[t] EXCEPT !.at = "valid",
                                   !.cookie = IF LoggedIn(t) THEN Req(t).user ELSE None]
<1>1. Types /\ thread[t].at = "routing" /\ Req(t).page = "login" /\ Req(t) = thread[t].request
  BY DEF Inv, Login, At, Req
<1>2. Req(t) \in Request /\ Req(t).user \in Users
  BY <1>1, ThreadIn, RequestsAssumption DEF Carries, Empty, Filled, Request
<1>3. LoggedIn(t) => Req(t).cookie \in entered
  BY <1>1 DEF LoggedIn, Types
<1>4. Moves(t, th)
  BY DEF Login, Moves
<1>5. th \in Thread /\ Carries(th) /\ QuietHold(thread[t], th) /\ QuietAdd(thread[t], th)
  <2>1. th \in Thread
    <3>1. "valid" \in Steps /\ (IF LoggedIn(t) THEN Req(t).user ELSE None) \in Users \cup {None}
      BY <1>2 DEF Steps
    <3> QED BY <1>1, <3>1, ThreadIn DEF Thread
  <2>2. Carries(th)
    BY <1>1, <1>2, ThreadIn DEF Thread, Carries, Blank, Empty, AtWork
  <2>3. QuietHold(thread[t], th) /\ QuietAdd(thread[t], th)
    BY <1>1, ThreadIn DEF Thread, QuietHold, QuietAdd, Holds
  <2> QED BY <2>1, <2>2, <2>3
<1>6. /\ th.cookie = IF LoggedIn(t) THEN Req(t).user ELSE None
      /\ th.request = Req(t) /\ th.message = None /\ th.route = None /\ th.at = "valid"
  BY <1>1, ThreadIn DEF Thread, Carries, Blank
<1>7. Minds(th) /\ Earned(th)
  BY <1>3, <1>6 DEF Minds, Earned
<1> HIDE DEF th
<1> QED BY <1>4, <1>5, <1>7, CookieMove DEF Login, Rest, globals, Inv, Types

LEMMA ValidKeeps ==
  ASSUME Inv, NEW t \in Slots, Valid(t)
  PROVE  Inv'
<1> DEFINE u == Req(t).user
           th == [thread[t] EXCEPT !.at = "reply", !.cookie = u]
<1>1. Types /\ thread[t].at = "valid" /\ u \in Users /\ Req(t) = thread[t].request
  BY RequestIn DEF Inv, Valid, At, Req
<1>2. CASE ~IsLoginValid(t)
  BY <1>1, <1>2, EndKeeps DEF Valid, Rest, Empty, globals
<1>3. CASE IsLoginValid(t)
  <2>1. Moves(t, th) /\ sessions' = sessions \cup {u} /\ entered' = entered \cup {u}
    BY <1>3 DEF Valid, Moves
  <2>2. th \in Thread /\ Carries(th) /\ QuietHold(thread[t], th) /\ QuietAdd(thread[t], th)
    <3>1. th \in Thread
      BY <1>1, ThreadIn, ZenonT(60) DEF Thread, Steps
    <3>2. Carries(th)
      BY <1>1, ThreadIn DEF Thread, Carries, Blank, Empty, AtWork
    <3>3. QuietHold(thread[t], th) /\ QuietAdd(thread[t], th)
      BY <1>1, ThreadIn DEF Thread, QuietHold, QuietAdd, Holds
    <3> QED BY <3>1, <3>2, <3>3
  <2>3. /\ th.cookie = u /\ th.request = Req(t) /\ th.message = None /\ th.route = None
        /\ th.at = "reply"
    BY <1>1, ThreadIn DEF Thread, Carries
  <2>4. Minds(th) /\ Earned(th)
    BY <1>3, <2>3 DEF Minds, Earned, IsLoginValid
  <2> HIDE DEF th
  <2>5. entered \subseteq entered' /\ entered' \subseteq Users /\ sessions' \subseteq entered'
    BY <1>1, <2>1 DEF Types
  <2> QED BY <2>1, <2>2, <2>4, <2>5, CookieMove DEF Valid
<1> QED BY <1>2, <1>3

\* Whatever a thread that serves a page finds in user_name is its own name,
\* or one written since its check.
LEMMA SeenIn ==
  ASSUME Inv, NEW t \in Slots, thread[t].at \in {"page", "route"}, NEW n \in Seen(t)
  PROVE  /\ n \in {thread[t].request.cookie} \cup thread[t].since \cup Saw(n)
         /\ n \in Users \cup {Torn, NoUser} /\ Saw(n) \subseteq {Torn}
<1>1. Minds(thread[t]) /\ user_name \in Users \cup {Torn, NoUser} /\ n \in {user_name, Torn}
  BY DEF Inv, ActsInv, Types, Seen
<1> QED BY <1>1 DEF Minds, Saw

LEMMA ComposeKeeps ==
  ASSUME Inv, NEW t \in Slots, Compose(t)
  PROVE  Inv'
<1>1. PICK n \in Seen(t) :
        thread' = [thread EXCEPT ![t].message = n, ![t].since = @ \cup Saw(n),
                                 ![t].at = IF Req(t).page = "send" THEN "mail server" ELSE "route"]
  BY DEF Compose
<1> DEFINE next == IF Req(t).page = "send" THEN "mail server" ELSE "route"
           th == [thread[t] EXCEPT !.message = n, !.since = @ \cup Saw(n), !.at = next]
<1>2. Types /\ thread[t].at = "page" /\ Minds(thread[t]) /\ Earned(thread[t])
  BY DEF Inv, Compose, Page, At, ActsInv, CookieInv
<1>3. /\ n \in {thread[t].request.cookie} \cup thread[t].since \cup Saw(n)
      /\ n \in Users \cup {Torn, NoUser} /\ Saw(n) \subseteq {Torn}
  BY <1>2, SeenIn
<1>4. Moves(t, th)
  BY <1>1 DEF Moves
<1>5. th \in Thread
  <2>1. /\ n \in Names \cup {NoUser} /\ next \in Steps
        /\ thread[t].since \cup Saw(n) \in SUBSET (Users \cup {Torn})
    BY <1>2, <1>3, ThreadIn DEF Thread, Steps, Names
  <2> HIDE DEF next
  <2> QED BY <1>2, <2>1, ThreadIn DEF Thread
<1>6. Carries(th) /\ QuietHold(thread[t], th) /\ QuietAdd(thread[t], th)
  BY <1>2, ThreadIn DEF Thread, Carries, Blank, Empty, AtWork, QuietHold, QuietAdd, Holds
<1>7. /\ th.message = n /\ th.route = thread[t].route /\ th.request = thread[t].request
      /\ th.since = thread[t].since \cup Saw(n) /\ th.cookie = None
  BY <1>2, ThreadIn DEF Thread, Carries, AtWork
<1>8. Minds(th)
  BY <1>2, <1>3, <1>7 DEF Minds
<1>9. Earned(th)
  BY <1>7 DEF Earned
<1> HIDE DEF th
<1> QED BY <1>2, <1>4, <1>5, <1>6, <1>8, <1>9, CookieMove
        DEF Compose, Rest, globals, Types

LEMMA RouteKeeps ==
  ASSUME Inv, NEW t \in Slots, Route(t)
  PROVE  Inv'
<1>1. PICK n \in Seen(t) :
        thread' = [thread EXCEPT ![t].route = n, ![t].since = @ \cup Saw(n), ![t].at = "storage"]
  BY DEF Route
<1> DEFINE th == [thread[t] EXCEPT !.route = n, !.since = @ \cup Saw(n), !.at = "storage"]
<1>2. Types /\ thread[t].at = "route" /\ Minds(thread[t])
  BY DEF Inv, Route, At, ActsInv
<1>3. /\ n \in {thread[t].request.cookie} \cup thread[t].since \cup Saw(n)
      /\ n \in Users \cup {Torn, NoUser} /\ Saw(n) \subseteq {Torn}
  BY <1>2, SeenIn
<1>4. Moves(t, th)
  BY <1>1 DEF Moves
<1>5. th \in Thread
  <2>1. /\ n \in Names \cup {NoUser} /\ "storage" \in Steps
        /\ thread[t].since \cup Saw(n) \in SUBSET (Users \cup {Torn})
    BY <1>2, <1>3, ThreadIn DEF Thread, Steps, Names
  <2> QED BY <1>2, <2>1, ThreadIn DEF Thread
<1>6. Carries(th) /\ QuietHold(thread[t], th) /\ QuietAdd(thread[t], th)
  BY <1>2, ThreadIn DEF Thread, Carries, Blank, Empty, AtWork, QuietHold, QuietAdd, Holds
<1>7. /\ th.message = thread[t].message /\ th.route = n /\ th.request = thread[t].request
      /\ th.since = thread[t].since \cup Saw(n) /\ th.cookie = None /\ th.at = "storage"
  BY <1>2, ThreadIn DEF Thread, Carries, AtWork
<1>8. Minds(th) /\ Earned(th)
  BY <1>2, <1>3, <1>7 DEF Minds, Earned
<1> HIDE DEF th
<1> QED BY <1>2, <1>4, <1>5, <1>6, <1>8, CookieMove DEF Route, Rest, globals, Types

LEMMA LogoutKeeps ==
  ASSUME Inv, NEW t \in Slots, Logout(t)
  PROVE  Inv'
<1>1. PICK n \in Seen(t) :
        /\ sessions' = sessions \ {n}
        /\ thread' = [thread EXCEPT ![t].at = "reply", ![t].message = n,
                       ![t].since = @ \cup Saw(n),
                       ![t].cookie = IF Req(t).cookie \in sessions' THEN Req(t).cookie ELSE None]
  BY DEF Logout
<1> DEFINE cookie == IF Req(t).cookie \in sessions' THEN Req(t).cookie ELSE None
           th == [thread[t] EXCEPT !.at = "reply", !.message = n, !.since = @ \cup Saw(n),
                                   !.cookie = cookie]
<1>2. Types /\ thread[t].at = "page" /\ Minds(thread[t]) /\ Req(t) = thread[t].request
  BY DEF Inv, Logout, Page, At, ActsInv, Req
<1>3. /\ n \in {thread[t].request.cookie} \cup thread[t].since \cup Saw(n)
      /\ n \in Users \cup {Torn, NoUser} /\ Saw(n) \subseteq {Torn}
  BY <1>2, SeenIn
<1>4. sessions' \subseteq entered /\ entered \subseteq Users
  BY <1>1, <1>2 DEF Types
<1>5. /\ cookie \in Users \cup {None}
      /\ cookie # None => cookie = Req(t).cookie /\ cookie \in entered
  BY <1>4
<1>6. Moves(t, th)
  BY <1>1 DEF Moves
<1> HIDE DEF cookie
<1>7. th \in Thread
  <2>1. /\ n \in Names \cup {NoUser} /\ "reply" \in Steps
        /\ thread[t].since \cup Saw(n) \in SUBSET (Users \cup {Torn})
    BY <1>2, <1>3, ThreadIn DEF Thread, Steps, Names
  <2> QED BY <1>2, <1>5, <2>1, ThreadIn DEF Thread
<1>8. Carries(th) /\ QuietHold(thread[t], th) /\ QuietAdd(thread[t], th)
  BY <1>2, ThreadIn DEF Thread, Carries, Blank, Empty, AtWork, QuietHold, QuietAdd, Holds
<1>9. /\ th.message = n /\ th.route = thread[t].route /\ th.request = Req(t)
      /\ th.since = thread[t].since \cup Saw(n) /\ th.cookie = cookie /\ th.at = "reply"
  BY <1>2, ThreadIn DEF Thread
<1>10. Minds(th) /\ Earned(th)
  BY <1>2, <1>3, <1>5, <1>9 DEF Minds, Earned
<1> HIDE DEF th
<1> QED BY <1>2, <1>4, <1>6, <1>7, <1>8, <1>10, CookieMove DEF Logout, Rest

-----------------------------------------------------------------------------
LEMMA NextInv == Inv /\ [Next]_vars => Inv'
<1> SUFFICES ASSUME Inv, [Next]_vars PROVE Inv'
  OBVIOUS
<1>1. CASE UNCHANGED vars
  BY <1>1, StillKeeps DEF vars, globals, Inv, Types, ConnKept
<1>2. CASE Main
  BY <1>2, AcceptKeeps, AcceptFailsKeeps DEF Main
<1>3. ASSUME NEW f \in Fds, Leave(f) PROVE Inv'
  BY <1>3, LeaveKeeps
<1>4. ASSUME NEW t \in Slots, Step(t) PROVE Inv'
  <2>1. CASE \/ ReadNothing(t) \/ Static(t) \/ Admin(t) \/ Register(t) \/ NotLoggedIn(t)
             \/ Stored(t) \/ Local(t) \/ Sent(t)
    BY <2>1, QuietThread
  <2>2. CASE TakeFd(t) \/ ReadRequest(t) \/ ReadInvalid(t) \/ Reply(t) \/ Close(t)
    BY <2>2, TakeFdKeeps, ReadRequestKeeps, ReadInvalidKeeps, ReplyKeeps, CloseKeeps
  <2>3. CASE Check(t) \/ CheckAtOnce(t)
    BY <2>3, CheckKeeps
  <2>4. CASE Exists(t) \/ Add(t) \/ Login(t) \/ Valid(t)
    BY <2>4, ExistsKeeps, AddKeeps, LoginKeeps, ValidKeeps
  <2>5. CASE Compose(t) \/ Route(t) \/ Logout(t)
    BY <2>5, ComposeKeeps, RouteKeeps, LogoutKeeps
  <2> QED BY <1>4, <2>1, <2>2, <2>3, <2>4, <2>5 DEF Step
<1>5. ASSUME NEW t \in Slots, Kills(t) PROVE Inv'
  BY <1>5, DiesKeeps DEF Kills, ReplyKills, NoNode, AdminKills, NotLoggedInKills, NoDirectory,
                         Malformed, NoSuchMail, NotSent
<1>6. ASSUME NEW t \in Slots, Unanswered(t) PROVE Inv'
  BY <1>6, QuietThread
<1>7. CASE Collide
  BY <1>7, DiesKeeps DEF Collide
<1> QED BY <1>1, <1>2, <1>3, <1>4, <1>5, <1>6, <1>7 DEF Next

LEMMA InitInv == Init => Inv
<1> SUFFICES ASSUME Init PROVE Inv
  OBVIOUS
<1>1. /\ Idle \in Thread /\ Carries(Idle) /\ ~Holds(Idle) /\ Earned(Idle) /\ Minds(Idle)
      /\ \A u : ~Adds(Idle, u)
  BY DEF Idle, Thread, Steps, Names, Carries, Blank, Empty, AtWork, Holds, Earned, Minds, Adds
<1>2. \A u \in Users : Registered[u] \in Seq(Passwords) /\ Len(Registered[u]) <= 1
  <2>1. \A w \in Passwords : <<w>> \in Seq(Passwords) /\ Len(<<w>>) = 1
    OBVIOUS
  <2> SUFFICES ASSUME NEW u \in Users
               PROVE  Registered[u] \in Seq(Passwords) /\ Len(Registered[u]) <= 1
    OBVIOUS
  <2>2. CASE Registered[u] = << >>
    BY <2>2
  <2>3. CASE Registered[u] # << >>
    <3>1. PICK w \in Passwords : Registered[u] = <<w>>
      BY <2>3, RegisteredAssumption
    <3> QED BY <2>1, <3>1
  <2> QED BY <2>2, <2>3
<1>3. \A t \in Slots : thread[t] = Idle
  BY DEF Init
<1>4. \A u \in Users : pwd[u] = Registered[u]
  BY DEF Init
<1>5. Types
  BY <1>1, <1>2 DEF Init, Types, Closed, Connection
<1>6. BoundInv
  <2> SUFFICES ASSUME NEW u \in Users PROVE Len(pwd[u]) + Cardinality(Adders(u)) <= MaxThreads
    BY DEF BoundInv
  <2>1. Adders(u) = {}
    BY <1>1, <1>3 DEF Adders
  <2>2. Cardinality(Adders(u)) = 0
    BY <2>1, FS_EmptySet
  <2>3. Len(pwd[u]) \in Nat /\ Len(pwd[u]) <= 1
    BY <1>2, <1>4
  <2> QED BY <2>2, <2>3, BoundsAssumption
<1>7. RaceInv
  BY <1>1, <1>2, <1>3, <1>4 DEF RaceInv
<1>8. OwnInv /\ CookieInv /\ ActsInv
  BY <1>1, <1>3 DEF OwnInv, CookieInv, ActsInv
<1> QED BY <1>5, <1>6, <1>7, <1>8 DEF Inv

\* The strengthening of all the properties below is an invariant.
THEOREM FrontendInvariant == Spec => []Inv
BY InitInv, NextInv, PTL DEF Spec

\* The state of a frontend is well typed, and no file pwd has more lines than
\* there were threads (reg, is_user_exist, add_user).
THEOREM FrontendTypes == Spec => []TypeOK
<1>1. Inv => TypeOK
  <2> SUFFICES ASSUME Inv, NEW u \in Users PROVE Len(pwd[u]) <= MaxThreads
    BY DEF Inv, Types, TypeOK, Thread, Connection
  <2>1. Adders(u) \in SUBSET Slots
    BY DEF Adders
  <2>2. Cardinality(Adders(u)) \in Nat
    BY <2>1, SlotsFinite
  <2>3. Len(pwd[u]) + Cardinality(Adders(u)) <= MaxThreads /\ Len(pwd[u]) \in Nat
    BY DEF Inv, BoundInv, Types
  <2> QED BY <2>2, <2>3, BoundsAssumption
<1> QED BY <1>1, FrontendInvariant, PTL

\* Two passwords for one name only from registrations under way at once
\* (is_user_exist and add_user are two requests to the storage).
THEOREM TwiceOnlyAtOnce == Spec => []RegisteredOnce
<1>1. Inv => RegisteredOnce
  <2> SUFFICES ASSUME Inv, NEW u \in Users, u \notin raced PROVE ~(Len(pwd[u]) > 1)
    BY DEF RegisteredOnce
  <2>1. Len(pwd[u]) \in Nat /\ Len(pwd[u]) <= 1
    BY DEF Inv, RaceInv, Types
  <2> QED BY <2>1
<1> QED BY <1>1, FrontendInvariant, PTL

\* An answer goes to another's connection only after two threads have read one
\* descriptor (&comm_fd, which main writes again before they run).
THEOREM AnswersOwnConnection == Spec => []OwnConnection
<1>1. Inv => OwnConnection
  BY DEF Inv, OwnInv, OwnConnection, Holds
<1> QED BY <1>1, FrontendInvariant, PTL

\* A cookie goes out only to a request with the password in the first line of
\* the file of the cookie's name, which no later registration replaces, or to one
\* whose own cookie names a user who has logged in: for that user again, or for
\* the name in its body whatever the password (login, is_login_valid,
\* is_session_valid).
THEOREM CookiesAreEarned == Spec => []CookieEarned
<1>1. Inv => CookieEarned
  BY DEF Inv, CookieInv, CookieEarned, Earned, Req
<1> QED BY <1>1, FrontendInvariant, PTL

\* A page works for the user of its cookie or for one checked in since its own
\* check, never for an earlier one (user_name, which all threads share).
THEOREM PagesActForThemselves == Spec => []ActsForItself
<1>1. Inv => ActsForItself
  BY DEF Inv, ActsInv, ActsForItself, Minds, Req
<1> QED BY <1>1, FrontendInvariant, PTL
=============================================================================
