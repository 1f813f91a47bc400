------------------------ MODULE LoadBalancer_proofs ------------------------
(***************************************************************************)
(* The load balancer implements the dispatcher that picks the nearest      *)
(* running server, for every number of servers.                            *)
(***************************************************************************)
EXTENDS LoadBalancer, TLAPS

(***************************************************************************)
(* The modulo arithmetic of the code is the successor round the table.     *)
(***************************************************************************)
LEMMA FollowingIsNext ==
  ASSUME NEW i \in Server
  PROVE  Following(i) = IF i = N THEN 1 ELSE i + 1
<1>1. CASE i + 1 < N
  BY <1>1, NAssumption, SMT DEF Following, Server
<1>2. CASE i + 1 = N
  BY <1>2, NAssumption, SMT DEF Following, Server
<1>3. CASE i = N /\ N > 1
  BY <1>3, NAssumption, SMT DEF Following, Server
<1>4. CASE i = N /\ N = 1
  BY <1>4, NAssumption, SMT DEF Following, Server
<1> QED BY <1>1, <1>2, <1>3, <1>4, NAssumption DEF Server

LEMMA AheadType ==
  ASSUME NEW i \in Server, NEW k \in 0 .. N
  PROVE  Ahead(i, k) \in Server
BY NAssumption, SMT DEF Ahead, Server

\* k steps from the next server are k + 1 steps from this one
LEMMA AheadShift ==
  ASSUME NEW i \in Server, NEW k \in 0 .. N-1
  PROVE  Ahead(Following(i), k) = Ahead(i, k + 1)
BY NAssumption, FollowingIsNext, SMT DEF Ahead, Server

LBInv == TypeOK /\ HandlerInv

LEMMA InitInv == Init => LBInv
<1> SUFFICES ASSUME Init PROVE LBInv
  OBVIOUS
<1>1. 1 \in Server /\ N \in Server
  BY NAssumption DEF Server
<1>2. Following(N) = 1
  BY <1>1, FollowingIsNext
<1>3. -1 \notin Server
  BY DEF Server
<1> QED BY <1>1, <1>2, <1>3 DEF Init, LBInv, TypeOK, HandlerInv, Since

LEMMA StepInv == LBInv /\ [Next]_vars => LBInv'
<1> SUFFICES ASSUME LBInv, [Next]_vars PROVE LBInv'
  OBVIOUS
<1> USE DEF LBInv, TypeOK, HandlerInv, Since
<1>0. 0 \notin Server /\ -1 \notin Server /\ N \in Server /\ 1 \in Server
  BY NAssumption DEF Server
<1>1. ASSUME NEW s \in Server, Toggle(s) PROVE LBInv'
  BY <1>1 DEF Toggle
<1>2. CASE Connect
  BY <1>2 DEF Connect
<1>3. CASE Record
  <2>1. probe' \in Server
    BY <1>3, NAssumption DEF Record, Server
  <2> QED BY <1>3, <2>1 DEF Record
<1>4. CASE Select
  <2>1. CASE \E k \in 0 .. N-1 : handler' = Ahead(handler, k) /\ chosen' = handler'
    <3>1. handler' \in Server
      BY <2>1, AheadType, NAssumption, SMT
    <3> QED BY <1>0, <1>4, <2>1, <3>1 DEF Select
  <2>2. CASE chosen' = 0 /\ handler' = handler
    BY <1>0, <1>4, <2>2 DEF Select
  <2> QED BY <1>4, <2>1, <2>2 DEF Select
<1>5. CASE Answer
  <2>1. CASE chosen = 0
    BY <1>0, <1>5, <2>1 DEF Answer
  <2>2. CASE chosen # 0
    <3>1. chosen \in Server /\ handler = chosen
      BY <1>5, <2>2 DEF Answer
    <3>2. handler' = Following(chosen) /\ last' = chosen /\ chosen' = -1
      BY <1>5, <2>2, <3>1 DEF Answer
    <3>3. Following(chosen) \in Server
      BY <3>1, FollowingIsNext, NAssumption, SMT DEF Server
    <3> QED BY <1>0, <1>5, <3>1, <3>2, <3>3 DEF Answer
  <2> QED BY <2>1, <2>2
<1>6. CASE UNCHANGED vars
  BY <1>6 DEF vars
<1> QED BY <1>1, <1>2, <1>3, <1>4, <1>5, <1>6 DEF Next

(***************************************************************************)
(* The variables keep their types.                                         *)
(***************************************************************************)
THEOREM BalancerTypes == Spec => []TypeOK
<1>1. LBInv => TypeOK
  BY DEF LBInv
<1> QED BY <1>1, InitInv, StepInv, PTL DEF Spec

(***************************************************************************)
(* What a step of Select chooses: the first running server of the walk     *)
(* that begins behind the last one used, or 0 if there is none.            *)
(***************************************************************************)
NextRunning(s) == \E d \in 1 .. N :
  /\ s = Ahead(Since, d)
  /\ running[s]
  /\ \A j \in 1 .. d-1 : ~running[Ahead(Since, j)]

Turned == chosen = -1 /\ chosen' = 0
Sent   == chosen = -1 /\ chosen' \in Server

Choice == /\ Sent => NextRunning(chosen')
          /\ Turned => \A s \in Server : ~running[s]

LEMMA StepChoice == LBInv /\ [Next]_vars => [Choice]_vars
<1> SUFFICES ASSUME LBInv, Next PROVE Choice
  OBVIOUS
<1>0. 0 \notin Server /\ -1 \notin Server /\ N \in Server
  BY NAssumption DEF Server
<1>1. ASSUME chosen = -1, chosen' # -1 PROVE Select
  BY <1>0, <1>1 DEF Next, Toggle, Connect, Record, Answer
<1>2. ASSUME Turned PROVE \A s \in Server : ~running[s]
  <2>1. Select
    BY <1>1, <1>2 DEF Turned
  <2>2. ASSUME NEW k \in 0 .. N-1, chosen' = Ahead(handler, k) PROVE FALSE
    BY <1>0, <1>2, <2>2, AheadType, NAssumption, SMT DEF Turned, LBInv, TypeOK
  <2> QED BY <2>1, <2>2 DEF Select
<1>3. ASSUME Sent PROVE NextRunning(chosen')
  <2>1. Select /\ chosen' # 0
    BY <1>0, <1>1, <1>3 DEF Sent
  <2>2. PICK k \in 0 .. N-1 : First(k) /\ chosen' = Ahead(handler, k)
    BY <2>1 DEF Select
  <2>3. Since \in Server /\ handler = Following(Since)
    BY <1>0, <1>3 DEF Sent, LBInv, TypeOK, HandlerInv, Since
  <2>4. \A j \in 0 .. N-1 : Ahead(handler, j) = Ahead(Since, j + 1)
    BY <2>3, AheadShift
  <2>5. k + 1 \in 1 .. N /\ chosen' = Ahead(Since, k + 1) /\ running[chosen']
    BY <2>2, <2>4, NAssumption DEF First
  <2>6. ASSUME NEW j \in 1 .. (k+1)-1 PROVE ~running[Ahead(Since, j)]
    <3>1. j-1 \in 0 .. k-1 /\ j-1 \in 0 .. N-1 /\ (j-1)+1 = j
      BY NAssumption
    <3> QED BY <2>2, <2>4, <3>1 DEF First
  <2> QED BY <2>5, <2>6 DEF NextRunning
<1> QED BY <1>2, <1>3 DEF Choice

(***************************************************************************)
(* The walk of d steps from the last server used ends at distance d from   *)
(* it, so the first running server of the walk is the nearest one.         *)
(***************************************************************************)
LEMMA WalkDistance ==
  ASSUME last \in Server \cup {0}, NEW d \in 1 .. N
  PROVE  Ahead(Since, d) \in Server /\ D!Distance(Ahead(Since, d)) = d
BY NAssumption, SMT DEF Since, Ahead, D!Distance, Server

LEMMA WalkReaches ==
  ASSUME last \in Server \cup {0}, NEW s \in Server
  PROVE  D!Distance(s) \in 1 .. N /\ Ahead(Since, D!Distance(s)) = s
BY NAssumption, SMT DEF Since, Ahead, D!Distance, Server

LEMMA NextIsNearest ==
  ASSUME last \in Server \cup {0}, NEW s, NextRunning(s)
  PROVE  s \in Server /\ D!Nearest(s)
<1>1. PICK d \in 1 .. N : /\ s = Ahead(Since, d)
                         /\ running[s]
                         /\ \A j \in 1 .. d-1 : ~running[Ahead(Since, j)]
  BY DEF NextRunning
<1>2. s \in Server /\ D!Distance(s) = d
  BY <1>1, WalkDistance
<1>3. ASSUME NEW other \in {t \in Server : running[t]} PROVE d <= D!Distance(other)
  <2>1. D!Distance(other) \in 1 .. N /\ Ahead(Since, D!Distance(other)) = other
    BY WalkReaches
  <2>2. D!Distance(other) \notin 1 .. d-1
    BY <1>1, <2>1
  <2> QED BY <2>1, <2>2, NAssumption
<1> QED BY <1>1, <1>2, <1>3 DEF D!Nearest

(***************************************************************************)
(* The load balancer implements Dispatcher, for every number of servers.   *)
(***************************************************************************)
THEOREM BalancerDispatches == Spec => Dispatches
<1>1. Init => D!Init
  BY DEF Init, D!Init
<1>2. LBInv /\ [Next]_vars => [D!Next]_(D!dvars)
  <2> SUFFICES ASSUME LBInv, [Next]_vars PROVE [D!Next]_(D!dvars)
    OBVIOUS
  <2>0. 0 \notin Server /\ -1 \notin Server /\ N \in Server /\ last \in Server \cup {0}
    BY NAssumption DEF Server, LBInv, TypeOK
  <2>1. ASSUME NEW s \in Server, Toggle(s) PROVE UNCHANGED D!dvars
    BY <2>1 DEF Toggle, D!dvars
  <2>2. CASE Connect
    BY <2>2 DEF Connect, D!dvars
  <2>3. CASE Record
    <3>1. probe \in Server /\ UNCHANGED <<last, chosen>>
      BY <2>3 DEF Record, LBInv, TypeOK
    <3>2. \A s \in Server \ {probe} : running'[s] = running[s]
      BY <2>3 DEF Record, LBInv, TypeOK
    <3> DEFINE on == {s \in Server : running[s]}
               off == {s \in Server : running'[s]}
    <3>3. off = on \cup {probe} \/ off = on \ {probe}
      BY <3>1, <3>2
    <3>4. D!Learn
      BY <3>1, <3>3 DEF D!Learn, D!Seat, Server
    <3> QED BY <3>4 DEF D!Next
  <2>4. CASE Select
    <3>1. [Choice]_vars /\ chosen = -1 /\ UNCHANGED <<running, last>>
      BY <2>4, StepChoice DEF Select
    <3>2. chosen' \in Server \cup {0}
      <4>1. CASE \E k \in 0 .. N-1 : handler' = Ahead(handler, k) /\ chosen' = handler'
        BY <4>1, AheadType, NAssumption, SMT DEF LBInv, TypeOK
      <4>2. CASE chosen' = 0
        BY <4>2
      <4> QED BY <2>4, <4>1, <4>2 DEF Select
    <3>3. Choice
      BY <2>0, <3>1, <3>2 DEF vars
    <3>4. CASE chosen' \in Server
      <4>1. D!Nearest(chosen')
        BY <2>0, <3>1, <3>3, <3>4, NextIsNearest DEF Choice, Sent
      <4> QED BY <3>1, <3>4, <4>1 DEF D!Choose, D!Next, D!Seat, Server
    <3>5. CASE chosen' = 0
      <4>1. {s \in Server : running[s]} = {}
        BY <3>1, <3>3, <3>5 DEF Choice, Turned
      <4> QED BY <3>1, <3>5, <4>1 DEF D!Choose, D!Next
    <3> QED BY <3>2, <3>4, <3>5
  <2>5. CASE Answer
    BY <2>5 DEF Answer, D!Give, D!Next
  <2>6. CASE UNCHANGED vars
    BY <2>6 DEF vars, D!dvars
  <2> QED BY <2>1, <2>2, <2>3, <2>4, <2>5, <2>6 DEF Next
<1> QED BY <1>1, <1>2, InitInv, StepInv, PTL DEF Spec, Dispatches, D!Spec
=============================================================================
